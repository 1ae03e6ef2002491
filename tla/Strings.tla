------------------------------ MODULE Strings ------------------------------
(***************************************************************************)
(* Formatting into memory (str.rs, print.rs).  A RawFormatter counts what  *)
(* is written, also past the end of its buffer, where it no longer copies; *)
(* a Formatter is one that fails there.  CString::try_from_fmt formats its *)
(* arguments twice, once to measure and once to write.  The arguments may  *)
(* print differently the second time: a counter moves on, another thread   *)
(* changes a value.                                                        *)
(*                                                                         *)
(* Addresses are 0 .. Usize and sums saturate at Usize.  The text of the   *)
(* arguments is a sequence of pieces, one per write_str, each a sequence   *)
(* of bytes of which only NUL matters: 0, or 1 for any other.              *)
(***************************************************************************)
EXTENDS Naturals, Sequences, FiniteSetsExt

CONSTANTS
  Usize,      \* usize::MAX
  MaxAlloc,   \* isize::MAX, the limit of an allocation
  Base,       \* address of the buffer that is written to
  Texts,      \* what the arguments may print as
  Slices      \* bytes passed to from_bytes_with_nul

Bytes == {0, 1}

(* No object ends at the last address: those are the error pointers. *)
ASSUME StringsAssumption ==
  /\ Usize \in Nat /\ MaxAlloc \in 0 .. Usize
  /\ Base \in 1 .. Usize - MaxAlloc - 1
  /\ Texts \subseteq Seq(Seq(Bytes))
  /\ Slices \subseteq Seq(Bytes) /\ \A s \in Slices : Len(s) <= MaxAlloc

VARIABLES
  call,    \* the call in progress and where it stands
  args,    \* pieces still to be written
  fmtr,    \* the formatter: addresses beg, pos, end
  cap,     \* size of the buffer at Base; 0 if there is none
  len,     \* bytes of it that belong to the string
  heap     \* the bytes of memory

strVars == <<call, args, fmtr, cap, len, heap>>

Addresses == 0 .. Usize
Unwritten == 2
Untouched == [a \in Addresses |-> Unwritten]
NoFormatter == [beg |-> 0, pos |-> 0, end |-> 0]

StrTypeOK ==
  /\ call \in {"idle", "measure", "allocate", "write", "failed",
              "terminate", "string", "printk"}
  /\ args \in Seq(Seq(Bytes))
  /\ fmtr \in [beg : Addresses, pos : Addresses, end : Addresses]
  /\ cap \in 0 .. MaxAlloc /\ len \in Addresses
  /\ heap \in [Addresses -> Bytes \cup {Unwritten}]

StrInit ==
  /\ call = "idle" /\ args = <<>> /\ fmtr = NoFormatter
  /\ cap = 0 /\ len = 0 /\ heap = Untouched

saturating_add(a, b) == Min({a + b, Usize})
saturating_sub(a, b) == IF a < b THEN 0 ELSE a - b

(* RawFormatter::from_ptrs and from_buffer. *)
from_ptrs(pos, end) == [beg |-> pos, pos |-> pos, end |-> end]
from_buffer(buf, n) == [beg |-> buf, pos |-> buf, end |-> saturating_add(buf, n)]
bytes_written(f) == f.pos - f.beg

(* Mutant: everything is copied, past the end too. *)
LenToCopy_Unbounded(f, pos_new) == pos_new - f.pos

LenToCopy(f, pos_new) == saturating_sub(Min({pos_new, f.end}), f.pos)

(* RawFormatter::write_str: the formatter and the memory after it. *)
write_str(f, s) ==
  LET pos_new == saturating_add(f.pos, Len(s))
      n == LenToCopy(f, pos_new)
  IN  /\ fmtr' = [f EXCEPT !.pos = pos_new]
      /\ heap' = [a \in Addresses |-> IF f.pos <= a /\ a < f.pos + n
                                      THEN s[a - f.pos + 1] ELSE heap[a]]

(* The call returns: the buffer, if any, has been freed. *)
Returns ==
  /\ call' = "idle" /\ args' = <<>> /\ fmtr' = NoFormatter
  /\ cap' = 0 /\ len' = 0 /\ heap' = Untouched

-----------------------------------------------------------------------------
(* CString::try_from_fmt *)

TryFromFmt ==
  /\ call = "idle"
  /\ call' = "measure" /\ args' \in Texts
  /\ UNCHANGED <<fmtr, cap, len, heap>>

MeasurePiece ==
  /\ call = "measure" /\ args # <<>>
  /\ write_str(fmtr, Head(args)) /\ args' = Tail(args)
  /\ UNCHANGED <<call, cap, len>>

MeasureNul ==
  /\ call = "measure" /\ args = <<>>
  /\ write_str(fmtr, <<0>>)
  /\ call' = "allocate"
  /\ UNCHANGED <<args, cap, len>>

(* KVec::with_capacity(size): an error for a size above isize::MAX and     *)
(* when there is no memory.  Then the arguments are formatted again.       *)
WithCapacity ==
  /\ call = "allocate"
  /\ \/ Returns
     \/ /\ bytes_written(fmtr) <= MaxAlloc
        /\ cap' = bytes_written(fmtr)
        /\ fmtr' = from_buffer(Base, bytes_written(fmtr))
        /\ call' = "write" /\ args' \in Texts
        /\ UNCHANGED <<len, heap>>

(* The error of Formatter::write_str: n more bytes pass the end. *)
PastEnd(f, n) == saturating_add(f.pos, n) > f.end

WritePiece ==
  /\ call = "write" /\ args # <<>>
  /\ write_str(fmtr, Head(args)) /\ args' = Tail(args)
  /\ call' = IF PastEnd(fmtr, Len(Head(args))) THEN "failed" ELSE "write"
  /\ UNCHANGED <<cap, len>>

WriteNul ==
  /\ call = "write" /\ args = <<>>
  /\ write_str(fmtr, <<0>>)
  /\ call' = IF PastEnd(fmtr, 1) THEN "failed" ELSE "terminate"
  /\ UNCHANGED <<args, cap, len>>

(* The buffer was too small; or, in either pass, a Display of the arguments *)
(* returned an error of its own.                                           *)
FmtFailed == call \in {"failed", "measure", "write"} /\ Returns

(* memchr over all bytes but the terminator. *)
NulBefore(n) == \E a \in {b \in Addresses : Base <= b /\ b < Base + n - 1} : heap[a] = 0

(* buf.inc_len(bytes_written), and the check for other NUL bytes. *)
FinishFmt ==
  /\ call = "terminate"
  /\ IF NulBefore(bytes_written(fmtr)) THEN Returns      \* EINVAL
     ELSE /\ len' = bytes_written(fmtr)
          /\ call' = "string"
          /\ UNCHANGED <<args, fmtr, cap, heap>>

-----------------------------------------------------------------------------
(* CStr::from_bytes_with_nul: the answer for a slice. *)
from_bytes_with_nul(s) ==
  IF s = <<>> THEN "NotNulTerminated"
  ELSE IF s[Len(s)] # 0 THEN "NotNulTerminated"
  ELSE IF \E i \in 1 .. Len(s) : i + 1 <= Len(s) /\ s[i] = 0 THEN "InteriorNul"
  ELSE "Ok"

(* CString::try_from(&CStr): a copy of the bytes with the terminator. *)
TryFromCStr ==
  /\ call = "idle"
  /\ \E s \in Slices :
       /\ from_bytes_with_nul(s) = "Ok"
       /\ cap' = Len(s) /\ len' = Len(s)
       /\ heap' = [a \in Addresses |-> IF Base <= a /\ a < Base + Len(s)
                                       THEN s[a - Base + 1] ELSE heap[a]]
  /\ call' = "string"
  /\ UNCHANGED <<args, fmtr>>

CStringDrop == call = "string" /\ Returns

(* rust_fmt_argument, called by vsprintf for %pA with a buffer of the      *)
(* caller that may be full already: pos beyond end.                        *)
FmtArgument ==
  /\ call = "idle"
  /\ cap' \in 0 .. MaxAlloc
  /\ \E pos \in Base .. Usize : fmtr' = from_ptrs(pos, Base + cap')
  /\ call' = "printk" /\ args' \in Texts
  /\ UNCHANGED <<len, heap>>

FmtArgumentPiece ==
  /\ call = "printk" /\ args # <<>>
  /\ write_str(fmtr, Head(args)) /\ args' = Tail(args)
  /\ UNCHANGED <<call, cap, len>>

(* All is written, or a Display failed: the error is ignored. *)
FmtArgumentDone == call = "printk" /\ Returns

StrStep ==
  \/ TryFromFmt \/ MeasurePiece \/ MeasureNul \/ WithCapacity \/ WritePiece
  \/ WriteNul \/ FmtFailed \/ FinishFmt \/ TryFromCStr \/ CStringDrop \/ FmtArgument
  \/ FmtArgumentPiece \/ FmtArgumentDone

-----------------------------------------------------------------------------
(* Nothing is ever written outside the buffer, however long the text and   *)
(* even if it prints longer than it measured.                              *)
WritesInside == \A a \in Addresses : heap[a] # Unwritten => Base <= a /\ a < Base + cap

(* A CString is a C string: all of its bytes were written, the last is NUL *)
(* and no other, also when the text changed between the two passes.        *)
CStringValid ==
  call = "string" =>
    /\ 0 < len /\ len <= cap
    /\ \A a \in Base .. Base + len - 1 : heap[a] = IF a = Base + len - 1 THEN 0 ELSE 1
=============================================================================
