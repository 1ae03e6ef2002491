---------------------------- MODULE Conversions ----------------------------
(***************************************************************************)
(* The conversions at the border between C and Rust: error numbers in      *)
(* integers, pointers and Results (rust/src/error.rs) and ioctl numbers    *)
(* (rust/src/ioctl.rs).                                                    *)
(*                                                                         *)
(* A result crosses the border any number of times, as a C function calls  *)
(* a Rust callback that calls a C function.  `result` is what is carried,  *)
(* `meant` what its producer meant.  An integer type is given by how many  *)
(* values it has, a field of an ioctl number likewise: powers of 2.        *)
(***************************************************************************)
EXTENDS Integers

CONSTANTS
    IntValues, ShortValues, PtrValues,  \* the values of c_int, i16 and usize
    MaxErrno,                           \* bindings::MAX_ERRNO
    EINVAL, ENOMEM,                     \* the error numbers, positive
    NrValues, TypeValues, SizeValues    \* 2^_IOC_NRBITS, _IOC_TYPEBITS, _IOC_SIZEBITS

ASSUME WidthAssumption ==
    /\ {ShortValues, IntValues, PtrValues, MaxErrno} \subseteq Nat
    /\ ShortValues < IntValues /\ IntValues <= PtrValues
    /\ 2 * MaxErrno < ShortValues
    /\ {EINVAL, ENOMEM} \subseteq 1..MaxErrno
    /\ {NrValues, TypeValues, SizeValues} \subseteq Nat \ {0}

VARIABLES result, meant, ioc

convVars == <<result, meant, ioc>>

Errnos == -MaxErrno .. -1
Ints == -(IntValues \div 2) .. IntValues \div 2 - 1
Addrs == 0 .. PtrValues - 1

\* Addresses of objects: the last MaxErrno + 1 addresses hold none.
Objects == 0 .. PtrValues - MaxErrno - 2

Failed(e) == [failed |-> TRUE, val |-> e]
Fine(v) == [failed |-> FALSE, val |-> v]
Carried(how, v) == [as |-> how, val |-> v]
Nothing == Carried("none", 0)
Undefined == [of |-> <<0, 0, 0, 0>>, num |-> 0]

\* x as a signed integer of so many values (the cast `as i16`, `as c_int`).
Signed(x, values) == LET r == x % values IN IF r < values \div 2 THEN r ELSE r - values

ConvTypeOK ==
    /\ \/ result = Nothing
       \/ result.as = "int" /\ result.val \in Ints
       \/ result.as = "ptr" /\ result.val \in Addrs
       \/ result.as = "Ok" /\ result.val \in Addrs
       \/ result.as = "Err" /\ result.val \in Errnos
    /\ meant \in [failed : BOOLEAN, val : Errnos \cup Addrs]
    /\ ioc.num \in 0 .. 4 * SizeValues * TypeValues * NrValues - 1

ConvInit ==
    /\ result = Nothing /\ meant = Fine(0)
    /\ ioc = Undefined

-----------------------------------------------------------------------------
(* Errors.                                                                 *)

ERR_PTR(e) == e % PtrValues
PTR_ERR(p) == Signed(p, PtrValues)

\* Mutant: off by one at the end of the range.
IS_ERR_Short(p) == p > ERR_PTR(-MaxErrno)

IS_ERR(p) == p >= ERR_PTR(-MaxErrno)

\* Error::from_errno: out of range numbers become EINVAL.
from_errno(v) == IF v < -MaxErrno \/ v >= 0 THEN -EINVAL ELSE v

\* The From impls of AllocError, LayoutError, TryFromIntError, Utf8Error and
\* fmt::Error.
ErrorFrom == [AllocError |-> -ENOMEM, LayoutError |-> -ENOMEM,
              TryFromIntError |-> -EINVAL, Utf8Error |-> -EINVAL, FmtError |-> -EINVAL]

Produce(r, m) ==
    /\ result = Nothing
    /\ result' = r /\ meant' = m
    /\ UNCHANGED ioc

Convert(from, r) ==
    /\ result.as = from
    /\ result' = r
    /\ UNCHANGED <<meant, ioc>>

\* A C function returns an integer, or a pointer that may be an error pointer.
CReturnsInt(v) ==
    Produce(Carried("int", v),
            IF v >= 0 THEN Fine(0) ELSE Failed(IF v \in Errnos THEN v ELSE -EINVAL))
CReturnsPtr(p) == Produce(Carried("ptr", p), Fine(p))
CReturnsErrPtr(e) == Produce(Carried("ptr", ERR_PTR(e)), Failed(e))

\* `?` on a Rust error that is not an Error yet, and a Rust success.
RustErr(k) == Produce(Carried("Err", ErrorFrom[k]), Failed(ErrorFrom[k]))
RustOk == Produce(Carried("Ok", 0), Fine(0))

to_result ==
    Convert("int", IF result.val < 0 THEN Carried("Err", from_errno(result.val))
                   ELSE Carried("Ok", 0))

from_err_ptr ==
    Convert("ptr", IF IS_ERR(result.val)
                   THEN Carried("Err", Signed(PTR_ERR(result.val), IntValues))
                   ELSE Carried("Ok", result.val))

\* from_result: an Err goes through i16.  A callback that returns Ok returns an
\* integer of its own, here 0; a pointer it was given is not converted.
from_result ==
    \/ Convert("Err", Carried("int", Signed(result.val, ShortValues)))
    \/ /\ result.val = 0
       /\ Convert("Ok", Carried("int", 0))

to_ptr == Convert("Err", Carried("ptr", ERR_PTR(result.val)))

\* The caller is done with the result.
Consumed ==
    /\ result # Nothing
    /\ result' = Nothing /\ meant' = Fine(0)
    /\ UNCHANGED ioc

-----------------------------------------------------------------------------
(* ioctl numbers: from the low end, number, type, size and direction.      *)

\* A shift by _IOC_TYPESHIFT bits multiplies by TypeUnit, and so on.
TypeUnit == NrValues
SizeUnit == TypeValues * TypeUnit
DirUnit == SizeValues * SizeUnit

\* _IOC: its build_assert!s keep the four fields apart, so | adds.
IOC(dir, ty, nr, size) ==
    dir * DirUnit + ty * TypeUnit + nr + size * SizeUnit

Field(num, unit, values) == (num \div unit) % values
IOC_DIR(num) == Field(num, DirUnit, 4)
IOC_TYPE(num) == Field(num, TypeUnit, TypeValues)
IOC_NR(num) == Field(num, 1, NrValues)
IOC_SIZE(num) == Field(num, SizeUnit, SizeValues)

\* _IO, _IOW, _IOR and _IOWR (0, 1, 2 and 3) with an argument of some size.
DefineIoctl(dir, ty, nr, size) ==
    /\ dir = 0 => size = 0
    /\ ioc = Undefined
    /\ ioc' = [of |-> <<dir, ty, nr, size>>, num |-> IOC(dir, ty, nr, size)]
    /\ UNCHANGED <<result, meant>>

\* Nothing is kept of an ioctl number.
ForgetIoctl ==
    /\ ioc # Undefined
    /\ ioc' = Undefined
    /\ UNCHANGED <<result, meant>>

-----------------------------------------------------------------------------
ConvIdle == result = Nothing /\ ioc = Undefined

ConvStep ==
    \/ /\ ioc = Undefined
       /\ \/ \E v \in Ints : CReturnsInt(v)
          \/ \E p \in Objects : CReturnsPtr(p)
          \/ \E e \in Errnos : CReturnsErrPtr(e)
          \/ \E k \in DOMAIN ErrorFrom : RustErr(k)
          \/ RustOk \/ to_result \/ from_err_ptr \/ from_result \/ to_ptr \/ Consumed
    \/ /\ result = Nothing
       /\ \/ \E d \in 0..3, t \in 0 .. TypeValues - 1, n \in 0 .. NrValues - 1,
               s \in 0 .. SizeValues - 1 : DefineIoctl(d, t, n, s)
          \/ ForgetIoctl

-----------------------------------------------------------------------------
(* Properties.                                                             *)

Meaning(r) ==
    CASE r.as \in {"none", "Ok"} -> Fine(r.val)
      [] r.as = "Err" -> Failed(r.val)
      [] r.as = "int" -> IF r.val >= 0 THEN Fine(0)
                         ELSE Failed(IF r.val \in Errnos THEN r.val ELSE -EINVAL)
      [] r.as = "ptr" -> IF r.val \in Objects THEN Fine(r.val)
                         ELSE Failed(r.val - PtrValues)

\* However often a result crosses between C and Rust, as an integer, an error
\* pointer or a Result, an error stays the error it was, a success a success and
\* a pointer the same pointer.
ErrnoPreserved == Meaning(result) = meant

\* Every ioctl number decodes into the direction, type, number and size it was
\* built from, so that no two definitions share a number.
IoctlDecodes ==
    <<IOC_DIR(ioc.num), IOC_TYPE(ioc.num), IOC_NR(ioc.num), IOC_SIZE(ioc.num)>> = ioc.of
=============================================================================
