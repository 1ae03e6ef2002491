--------------------------- MODULE Buffers_proofs ---------------------------
(***************************************************************************)
(* What holds of strings, user memory, pages, error and ioctl numbers and  *)
(* the id pool, for any texts, buffers, address spaces, widths and users.  *)
(* The four parts share no state: StrInv, UserInv, ConvInv and PoolInv     *)
(* are inductive each by itself, and BufInv is their conjunction.          *)
(***************************************************************************)
EXTENDS Buffers, WellFoundedInduction, FiniteSetTheorems, TLAPS

-----------------------------------------------------------------------------
(* Extrema of finite sets of integers.                                     *)

\* A non-empty set of numbers has a least one.
LEMMA LeastOne ==
    ASSUME NEW T \in SUBSET Nat, T # {}
    PROVE  \E x \in T : \A y \in T : x <= y
<1>1. IsWellFoundedOn(OpToRel(<, Nat), Nat)
  BY NatLessThanWellFounded
<1> DEFINE R == OpToRel(<, Nat)
<1>2. PICK x \in T : \A y \in T : ~ (<<y, x>> \in R)
  BY <1>1, WFMin
<1>3. \A y \in T : ~(y < x)
  BY <1>2 DEF OpToRel
<1> HIDE DEF R
<1> QED
  BY <1>3

\* Min answers it.
LEMMA MinIs ==
    ASSUME NEW T \in SUBSET Nat, T # {}
    PROVE  Min(T) \in T /\ \A y \in T : Min(T) <= y
BY LeastOne DEF Min

\* A bounded non-empty set of numbers has a greatest one, and Max answers it.
LEMMA MaxIs ==
    ASSUME NEW T \in SUBSET Nat, T # {}, NEW n \in Nat, \A y \in T : y <= n
    PROVE  Max(T) \in T /\ \A y \in T : y <= Max(T)
<1> DEFINE U == {n - y : y \in T}
<1>1. U \in SUBSET Nat /\ U # {}
  <2>1. \A y \in T : n - y \in Nat
    OBVIOUS
  <2> QED
    BY <2>1
<1>2. PICK z \in U : \A u \in U : z <= u
  BY <1>1, LeastOne
<1>3. PICK x \in T : z = n - x
  BY <1>2
<1>4. \A y \in T : n - x <= n - y
  BY <1>2, <1>3
<1>5. \A y \in T : x >= y
  BY <1>4
<1> QED
  BY <1>5 DEF Max

\* Of two numbers.
LEMMA MinOfTwo ==
    ASSUME NEW a \in Nat, NEW b \in Nat
    PROVE  Min({a, b}) = IF a <= b THEN a ELSE b
<1>1. {a, b} \in SUBSET Nat /\ {a, b} # {}
  OBVIOUS
<1> QED
  BY <1>1, MinIs

\* The larger of two numbers.
LEMMA MaxOfTwo ==
    ASSUME NEW a \in Nat, NEW b \in Nat
    PROVE  Max({a, b}) = IF a >= b THEN a ELSE b
<1>1. {a, b} \in SUBSET Nat /\ {a, b} # {}
  OBVIOUS
<1>2. a + b \in Nat /\ \A y \in {a, b} : y <= a + b
  OBVIOUS
<1>3. Max({a, b}) \in {a, b} /\ \A y \in {a, b} : y <= Max({a, b})
  BY <1>1, <1>2, MaxIs
<1> QED
  BY <1>3


-----------------------------------------------------------------------------
(* Strings.                                                                *)

\* The assumption on addresses, in the form the proofs use it.
LEMMA Limits ==
    /\ Usize \in Nat /\ MaxAlloc \in Nat /\ Base \in Nat /\ 1 <= Base
    /\ Base + MaxAlloc < Usize
    /\ Texts \subseteq Seq(Seq(Bytes))
    /\ Slices \subseteq Seq(Bytes) /\ \A s \in Slices : Len(s) <= MaxAlloc
BY StringsAssumption

StrShape ==
    /\ call \in {"idle", "measure", "allocate", "write", "failed",
                 "terminate", "string", "printk"}
    /\ args \in Seq(Seq(Bytes))
    /\ fmtr \in [beg : Addresses, pos : Addresses, end : Addresses]
    /\ cap \in 0 .. MaxAlloc /\ len \in Addresses
    /\ heap \in [Addresses -> Bytes \cup {Unwritten}]

\* Before there is a buffer nothing is written, wherever the formatter stands.
Bufferless ==
    call \in {"idle", "measure", "allocate"} =>
        /\ cap = 0 /\ len = 0 /\ heap = Untouched
        /\ fmtr.beg = 0 /\ fmtr.end = 0 /\ (call = "idle" => fmtr = NoFormatter)

\* The formatter of a buffer ends with it.
FormatterOfBuffer ==
    call \in {"write", "failed", "terminate", "printk"} =>
        fmtr.end = Base + cap /\ Base <= fmtr.pos

\* As long as the second pass has not failed, what it wrote fits and is all there.
PassExact ==
    call \in {"write", "terminate"} =>
        /\ fmtr.beg = Base /\ fmtr.pos <= fmtr.end
        /\ \A a \in Addresses : Base <= a /\ a < fmtr.pos => heap[a] \in Bytes

Terminated ==
    call = "terminate" => Base < fmtr.pos /\ heap[fmtr.pos - 1] = 0

StrInv ==
    /\ StrShape /\ Bufferless /\ FormatterOfBuffer /\ PassExact /\ Terminated
    /\ WritesInside /\ CStringValid

LEMMA StrInvInit == StrInit => StrInv
<1> USE Limits
<1> SUFFICES ASSUME StrInit PROVE StrInv
  OBVIOUS
<1>1. StrShape
  <2>1. args \in Seq(Seq(Bytes))
    BY DEF StrInit
  <2> QED
    BY <2>1 DEF StrInit, StrShape, NoFormatter, Untouched, Addresses
<1>2. Bufferless /\ FormatterOfBuffer /\ PassExact /\ Terminated /\ CStringValid
  BY DEF StrInit, Bufferless, FormatterOfBuffer, PassExact, Terminated, CStringValid, NoFormatter
<1>3. WritesInside
  BY DEF StrInit, WritesInside, Untouched
<1> QED
  BY <1>1, <1>2, <1>3 DEF StrInv

\* A call that returns leaves the initial state.
LEMMA ReturnsInv == ASSUME Returns PROVE StrInv'
<1> USE Limits
<1>1. StrShape'
  <2>1. args' \in Seq(Seq(Bytes))
    BY DEF Returns
  <2> QED
    BY <2>1 DEF Returns, StrShape, NoFormatter, Untouched, Addresses
<1>2. Bufferless' /\ FormatterOfBuffer' /\ PassExact' /\ Terminated' /\ CStringValid'
  BY DEF Returns, Bufferless, FormatterOfBuffer, PassExact, Terminated, CStringValid, NoFormatter
<1>3. WritesInside'
  BY DEF Returns, WritesInside, Untouched
<1> QED
  BY <1>1, <1>2, <1>3 DEF StrInv

\* What saturating_add returns.
LEMMA Saturating ==
    ASSUME NEW a \in Nat, NEW b \in Nat
    PROVE  saturating_add(a, b) = IF a + b <= Usize THEN a + b ELSE Usize
<1>1. a + b \in Nat /\ Usize \in Nat
  BY Limits
<1> QED
  BY <1>1, MinOfTwo DEF saturating_add

\* How far write_str moves the formatter and how much of it is copied.
LEMMA CopyLength ==
    ASSUME StrShape, NEW s \in Seq(Bytes)
    PROVE  LET pos_new == saturating_add(fmtr.pos, Len(s))
               n == LenToCopy(fmtr, pos_new)
           IN  /\ pos_new \in Addresses /\ fmtr.pos <= pos_new /\ pos_new <= fmtr.pos + Len(s)
               /\ n \in Nat /\ n <= Len(s)
               /\ n # 0 => fmtr.pos + n <= fmtr.end
               /\ pos_new <= fmtr.end => n = pos_new - fmtr.pos
               /\ fmtr.pos >= fmtr.end => n = 0
<1> USE Limits
<1> DEFINE pos_new == saturating_add(fmtr.pos, Len(s))
<1> DEFINE n == LenToCopy(fmtr, pos_new)
<1>1. /\ fmtr.pos \in Nat /\ fmtr.pos <= Usize /\ fmtr.end \in Nat /\ fmtr.end <= Usize
      /\ Len(s) \in Nat
  BY DEF StrShape, Addresses
<1>2. pos_new = IF fmtr.pos + Len(s) <= Usize THEN fmtr.pos + Len(s) ELSE Usize
  BY <1>1, Saturating
<1>3. pos_new \in Addresses /\ fmtr.pos <= pos_new /\ pos_new <= fmtr.pos + Len(s)
  BY <1>1, <1>2 DEF Addresses
<1> HIDE DEF pos_new
<1> DEFINE m == Min({pos_new, fmtr.end})
<1>4. m = IF pos_new <= fmtr.end THEN pos_new ELSE fmtr.end
  BY <1>1, <1>3, MinOfTwo DEF Addresses
<1>5. n = IF m < fmtr.pos THEN 0 ELSE m - fmtr.pos
  BY DEF LenToCopy, saturating_sub
<1> HIDE DEF n, m
<1>6. /\ n \in Nat /\ n <= Len(s)
      /\ n # 0 => fmtr.pos + n <= fmtr.end
      /\ pos_new <= fmtr.end => n = pos_new - fmtr.pos
      /\ fmtr.pos >= fmtr.end => n = 0
  <2>1. pos_new \in Nat /\ m \in Nat
    BY <1>1, <1>3, <1>4 DEF Addresses
  <2>2. n \in Nat /\ n <= Len(s)
    BY <1>1, <1>3, <1>4, <1>5, <2>1
  <2>3. n # 0 => fmtr.pos + n <= fmtr.end
    BY <1>1, <1>3, <1>4, <1>5, <2>1
  <2>4. /\ pos_new <= fmtr.end => n = pos_new - fmtr.pos
        /\ fmtr.pos >= fmtr.end => n = 0
    BY <1>1, <1>3, <1>4, <1>5, <2>1
  <2> QED
    BY <2>2, <2>3, <2>4
<1> QED
  BY <1>3, <1>6 DEF pos_new, n

\* What write_str does: it never writes at or past the end.
LEMMA WriteStr ==
    ASSUME StrShape, NEW s \in Seq(Bytes), write_str(fmtr, s)
    PROVE  /\ fmtr' \in [beg : Addresses, pos : Addresses, end : Addresses]
           /\ fmtr'.beg = fmtr.beg /\ fmtr'.end = fmtr.end /\ fmtr.pos <= fmtr'.pos
           /\ fmtr'.pos = saturating_add(fmtr.pos, Len(s))
           /\ heap' \in [Addresses -> Bytes \cup {Unwritten}]
           /\ \A a \in Addresses : heap'[a] # heap[a] => fmtr.pos <= a /\ a < fmtr.end
           /\ \A a \in Addresses : a < fmtr.pos => heap'[a] = heap[a]
           /\ fmtr'.pos <= fmtr.end =>
                \A a \in Addresses : fmtr.pos <= a /\ a < fmtr'.pos =>
                    a - fmtr.pos + 1 \in 1 .. Len(s) /\ heap'[a] = s[a - fmtr.pos + 1]
           /\ fmtr.end <= fmtr.pos => heap' = heap
<1> USE Limits
<1> DEFINE pos_new == saturating_add(fmtr.pos, Len(s))
<1> DEFINE n == LenToCopy(fmtr, pos_new)
<1>1. /\ fmtr' = [fmtr EXCEPT !.pos = pos_new]
      /\ heap' = [a \in Addresses |-> IF fmtr.pos <= a /\ a < fmtr.pos + n
                                      THEN s[a - fmtr.pos + 1] ELSE heap[a]]
  BY DEF write_str
<1>2. /\ pos_new \in Addresses /\ fmtr.pos <= pos_new /\ pos_new <= fmtr.pos + Len(s)
      /\ n \in Nat /\ n <= Len(s)
      /\ n # 0 => fmtr.pos + n <= fmtr.end
      /\ pos_new <= fmtr.end => n = pos_new - fmtr.pos
      /\ fmtr.pos >= fmtr.end => n = 0
  BY CopyLength
<1> HIDE DEF pos_new, n
<1>3. /\ fmtr.pos \in Nat /\ fmtr.pos <= Usize /\ fmtr.end \in Nat /\ fmtr.end <= Usize
      /\ Len(s) \in Nat /\ heap \in [Addresses -> Bytes \cup {Unwritten}]
      /\ s \in [1 .. Len(s) -> Bytes]
  BY DEF StrShape, Addresses
<1>4. /\ fmtr' \in [beg : Addresses, pos : Addresses, end : Addresses]
      /\ fmtr'.beg = fmtr.beg /\ fmtr'.end = fmtr.end /\ fmtr'.pos = pos_new
  BY <1>1, <1>2 DEF StrShape
<1>5. ASSUME NEW a \in Addresses
      PROVE  heap'[a] = IF fmtr.pos <= a /\ a < fmtr.pos + n
                        THEN s[a - fmtr.pos + 1] ELSE heap[a]
  BY <1>1
<1>6. ASSUME NEW a \in Addresses, fmtr.pos <= a, a < fmtr.pos + n
      PROVE  a - fmtr.pos + 1 \in 1 .. Len(s)
  BY <1>2, <1>3, <1>6 DEF Addresses
<1>7. ASSUME NEW a \in Addresses PROVE heap'[a] \in Bytes \cup {Unwritten}
  BY <1>3, <1>5, <1>6
<1>8. heap' \in [Addresses -> Bytes \cup {Unwritten}]
  BY <1>1, <1>7
<1>9. ASSUME NEW a \in Addresses, heap'[a] # heap[a] PROVE fmtr.pos <= a /\ a < fmtr.end
  BY <1>2, <1>3, <1>5, <1>9 DEF Addresses
<1>10. ASSUME NEW a \in Addresses, a < fmtr.pos PROVE heap'[a] = heap[a]
  BY <1>3, <1>5, <1>10 DEF Addresses
<1>11. ASSUME fmtr'.pos <= fmtr.end, NEW a \in Addresses, fmtr.pos <= a, a < fmtr'.pos
       PROVE  a - fmtr.pos + 1 \in 1 .. Len(s) /\ heap'[a] = s[a - fmtr.pos + 1]
  <2>1. a < fmtr.pos + n
    BY <1>2, <1>3, <1>4, <1>11 DEF Addresses
  <2> QED
    BY <1>5, <1>6, <1>11, <2>1
<1>12. fmtr.end <= fmtr.pos => heap' = heap
  BY <1>1, <1>2, <1>3 DEF Addresses
<1> QED
  BY <1>2, <1>4, <1>8, <1>9, <1>10, <1>11, <1>12 DEF pos_new

\* The pieces are sequences of bytes.
LEMMA Pieces ==
    ASSUME args \in Seq(Seq(Bytes)), args # <<>>
    PROVE  Head(args) \in Seq(Bytes) /\ Tail(args) \in Seq(Seq(Bytes))
OBVIOUS

\* Writing a piece leaves the rest of the text to be written, inside the buffer.
LEMMA WroteInside ==
    ASSUME StrInv, NEW s \in Seq(Bytes), write_str(fmtr, s), cap' = cap,
           call \in {"write", "printk"}
    PROVE  /\ WritesInside'
           /\ fmtr'.end = Base + cap' /\ Base <= fmtr'.pos
           /\ call = "write" /\ fmtr'.pos <= fmtr'.end =>
                \A a \in Addresses : Base <= a /\ a < fmtr'.pos => heap'[a] \in Bytes
<1> USE Limits
<1>1. StrShape
  BY DEF StrInv
<1>2. /\ fmtr.end = Base + cap /\ Base <= fmtr.pos
      /\ fmtr.pos \in Nat /\ cap \in Nat
  BY DEF StrInv, FormatterOfBuffer, StrShape, Addresses
<1>3. /\ fmtr'.end = fmtr.end /\ fmtr.pos <= fmtr'.pos
      /\ fmtr' \in [beg : Addresses, pos : Addresses, end : Addresses]
      /\ \A a \in Addresses : heap'[a] # heap[a] => fmtr.pos <= a /\ a < fmtr.end
      /\ \A a \in Addresses : a < fmtr.pos => heap'[a] = heap[a]
      /\ fmtr'.pos <= fmtr.end =>
           \A a \in Addresses : fmtr.pos <= a /\ a < fmtr'.pos =>
               a - fmtr.pos + 1 \in 1 .. Len(s) /\ heap'[a] = s[a - fmtr.pos + 1]
  BY <1>1, WriteStr
<1>4. WritesInside'
  <2> SUFFICES ASSUME NEW a \in Addresses, heap'[a] # Unwritten
               PROVE  Base <= a /\ a < Base + cap'
    BY DEF WritesInside
  <2>1. CASE heap'[a] = heap[a]
    BY <2>1 DEF StrInv, WritesInside
  <2>2. CASE heap'[a] # heap[a]
    BY <1>2, <1>3, <2>2 DEF Addresses
  <2> QED
    BY <2>1, <2>2
<1>5. Base <= fmtr'.pos
  BY <1>2, <1>3 DEF Addresses
<1>6. ASSUME call = "write", fmtr'.pos <= fmtr'.end, NEW a \in Addresses, Base <= a, a < fmtr'.pos
      PROVE  heap'[a] \in Bytes
  <2>1. CASE a < fmtr.pos
    BY <1>3, <1>6, <2>1 DEF StrInv, PassExact
  <2>2. CASE fmtr.pos <= a
    <3>1. a - fmtr.pos + 1 \in 1 .. Len(s) /\ heap'[a] = s[a - fmtr.pos + 1]
      BY <1>3, <1>6, <2>2
    <3> QED
      BY <3>1
  <2> QED
    BY <1>2, <2>1, <2>2 DEF Addresses
<1> QED
  BY <1>2, <1>3, <1>4, <1>5, <1>6

LEMMA TryFromFmtInv == ASSUME StrInv, TryFromFmt PROVE StrInv'
<1> USE Limits
<1>1. /\ call = "idle" /\ call' = "measure" /\ args' \in Texts
      /\ UNCHANGED <<fmtr, cap, len, heap>>
  BY DEF TryFromFmt
<1>2. StrShape'
  BY <1>1 DEF StrInv, StrShape
<1>3. Bufferless' /\ FormatterOfBuffer' /\ PassExact' /\ Terminated' /\ CStringValid' /\ WritesInside'
  BY <1>1 DEF StrInv, Bufferless, FormatterOfBuffer, PassExact, Terminated, CStringValid, WritesInside
<1> QED
  BY <1>2, <1>3 DEF StrInv

\* The first pass: the formatter has no buffer, and writes nothing.
LEMMA MeasureInv ==
    ASSUME StrInv, call = "measure", NEW s \in Seq(Bytes), write_str(fmtr, s),
           args' \in Seq(Seq(Bytes)), call' \in {"measure", "allocate"},
           cap' = cap, len' = len
    PROVE  StrInv'
<1> USE Limits
<1>1. StrShape
  BY DEF StrInv
<1>2. cap = 0 /\ len = 0 /\ heap = Untouched /\ fmtr.beg = 0 /\ fmtr.end = 0
  BY DEF StrInv, Bufferless
<1>3. fmtr.end <= fmtr.pos
  BY <1>1, <1>2 DEF StrShape, Addresses
<1>4. /\ fmtr' \in [beg : Addresses, pos : Addresses, end : Addresses]
      /\ fmtr'.beg = fmtr.beg /\ fmtr'.end = fmtr.end /\ heap' = heap
  BY <1>1, <1>3, WriteStr
<1>5. StrShape'
  BY <1>1, <1>4 DEF StrShape
<1>6. Bufferless' /\ FormatterOfBuffer' /\ PassExact' /\ Terminated' /\ CStringValid'
  BY <1>2, <1>4 DEF Bufferless, FormatterOfBuffer, PassExact, Terminated, CStringValid
<1>7. WritesInside'
  BY <1>4 DEF StrInv, WritesInside
<1> QED
  BY <1>5, <1>6, <1>7 DEF StrInv

LEMMA WithCapacityInv == ASSUME StrInv, WithCapacity PROVE StrInv'
<1> USE Limits
<1>1. call = "allocate"
  BY DEF WithCapacity
<1>2. CASE Returns
  BY <1>2, ReturnsInv
<1>3. CASE ~Returns
  <2> DEFINE n == bytes_written(fmtr)
  <2>1. /\ n <= MaxAlloc /\ cap' = n /\ fmtr' = from_buffer(Base, n)
        /\ call' = "write" /\ args' \in Texts /\ len' = len /\ heap' = heap
    BY <1>3 DEF WithCapacity
  <2>2. len = 0 /\ heap = Untouched /\ fmtr.beg = 0
    BY <1>1 DEF StrInv, Bufferless
  <2>3. n \in Nat
    BY <2>2 DEF StrInv, StrShape, Addresses, bytes_written
  <2> HIDE DEF n
  <2>4. fmtr' = [beg |-> Base, pos |-> Base, end |-> Base + n]
    BY <2>1, <2>3, Saturating DEF from_buffer
  <2>5. StrShape'
    BY <2>1, <2>2, <2>3, <2>4 DEF StrInv, StrShape, Addresses
  <2>6. Bufferless' /\ FormatterOfBuffer' /\ Terminated' /\ CStringValid'
    BY <2>1, <2>3, <2>4 DEF Bufferless, FormatterOfBuffer, Terminated, CStringValid
  <2>7. PassExact'
    BY <2>1, <2>3, <2>4 DEF PassExact, Addresses
  <2>8. WritesInside'
    BY <2>1, <2>2 DEF WritesInside, Untouched
  <2> QED
    BY <2>5, <2>6, <2>7, <2>8 DEF StrInv
<1> QED
  BY <1>2, <1>3

\* A piece, or the terminator, of the second pass.
LEMMA WriteInv ==
    ASSUME StrInv, call = "write", NEW s \in Seq(Bytes), write_str(fmtr, s),
           args' \in Seq(Seq(Bytes)), cap' = cap, len' = len,
           \/ call' = "failed"
           \/ call' \in {"write", "terminate"} /\ ~PastEnd(fmtr, Len(s)),
           call' = "terminate" => s = << 0 >>
    PROVE  StrInv'
<1> USE Limits
<1>1. StrShape /\ Len(s) \in Nat
  BY DEF StrInv
<1>2. /\ fmtr' \in [beg : Addresses, pos : Addresses, end : Addresses]
      /\ fmtr'.beg = fmtr.beg /\ fmtr'.end = fmtr.end /\ fmtr.pos <= fmtr'.pos
      /\ fmtr'.pos = saturating_add(fmtr.pos, Len(s))
      /\ heap' \in [Addresses -> Bytes \cup {Unwritten}]
      /\ fmtr'.pos <= fmtr.end =>
           \A a \in Addresses : fmtr.pos <= a /\ a < fmtr'.pos =>
               a - fmtr.pos + 1 \in 1 .. Len(s) /\ heap'[a] = s[a - fmtr.pos + 1]
  BY <1>1, WriteStr
<1>3. /\ WritesInside'
      /\ fmtr'.end = Base + cap' /\ Base <= fmtr'.pos
      /\ fmtr'.pos <= fmtr'.end =>
           \A a \in Addresses : Base <= a /\ a < fmtr'.pos => heap'[a] \in Bytes
  BY WroteInside
<1>4. StrShape'
  BY <1>1, <1>2 DEF StrShape
<1>5. Bufferless' /\ FormatterOfBuffer' /\ CStringValid'
  BY <1>3 DEF Bufferless, FormatterOfBuffer, CStringValid
<1>6. call' \in {"write", "terminate"} => fmtr'.pos <= fmtr'.end /\ fmtr'.pos <= fmtr.end
  BY <1>2, <1>4 DEF PastEnd, StrShape, Addresses
<1>7. PassExact'
  BY <1>2, <1>3, <1>6 DEF StrInv, PassExact
<1>8. Terminated'
  <2> SUFFICES ASSUME call' = "terminate"
               PROVE  Base < fmtr'.pos /\ heap'[fmtr'.pos - 1] = 0
    BY DEF Terminated
  <2>1. s = <<0>> /\ Len(s) = 1 /\ s[1] = 0
    OBVIOUS
  <2>2. /\ fmtr.pos \in Nat /\ fmtr.pos <= Usize /\ fmtr.end = Base + cap /\ cap \in Nat
        /\ cap <= MaxAlloc /\ Base <= fmtr.pos
    BY <1>1 DEF StrInv, FormatterOfBuffer, StrShape, Addresses
  <2>3. fmtr'.pos = IF fmtr.pos + 1 <= Usize THEN fmtr.pos + 1 ELSE Usize
    BY <1>2, <2>1, <2>2, Saturating
  <2>4. fmtr'.pos <= Base + cap
    BY <1>6, <2>2
  <2>5. fmtr'.pos = fmtr.pos + 1
    BY <2>2, <2>3, <2>4
  <2>6. fmtr.pos \in Addresses /\ fmtr.pos - fmtr.pos + 1 = 1 /\ fmtr'.pos - 1 = fmtr.pos
        /\ fmtr.pos < fmtr'.pos
    BY <2>2, <2>5 DEF Addresses
  <2>7. heap'[fmtr.pos] = s[fmtr.pos - fmtr.pos + 1]
    BY <1>2, <1>6, <2>2, <2>6
  <2>8. heap'[fmtr'.pos - 1] = s[1]
    BY <2>6, <2>7
  <2>9. Base < fmtr'.pos
    BY <2>2, <2>5
  <2> QED
    BY <2>1, <2>8, <2>9
<1> QED
  BY <1>3, <1>4, <1>5, <1>7, <1>8 DEF StrInv

LEMMA FinishFmtInv == ASSUME StrInv, FinishFmt PROVE StrInv'
<1> USE Limits
<1> DEFINE n == bytes_written(fmtr)
<1>1. CASE NulBefore(n)
  BY <1>1, ReturnsInv DEF FinishFmt
<1>2. CASE ~NulBefore(n)
  <2>1. call = "terminate" /\ len' = n /\ call' = "string" /\ UNCHANGED <<args, fmtr, cap, heap>>
    BY <1>2 DEF FinishFmt
  <2>2. /\ fmtr.beg = Base /\ fmtr.end = Base + cap /\ fmtr.pos <= fmtr.end /\ Base < fmtr.pos
        /\ fmtr.pos \in Nat /\ cap \in Nat /\ cap <= MaxAlloc /\ heap[fmtr.pos - 1] = 0
        /\ \A a \in Addresses : Base <= a /\ a < fmtr.pos => heap[a] \in Bytes
    BY <2>1 DEF StrInv, StrShape, Addresses, FormatterOfBuffer, PassExact, Terminated
  <2>3. n = fmtr.pos - Base
    BY <2>2 DEF bytes_written
  <2> HIDE DEF n
  <2>4. n \in Nat /\ 0 < n /\ n <= cap /\ n \in Addresses
    BY <2>2, <2>3 DEF Addresses
  <2>5. ASSUME NEW a \in Base .. Base + n - 1
        PROVE  heap[a] = IF a = Base + n - 1 THEN 0 ELSE 1
    <3>1. a \in Addresses /\ Base <= a /\ a < fmtr.pos
      BY <2>2, <2>3, <2>4 DEF Addresses
    <3>2. CASE a = Base + n - 1
      <4>1. a = fmtr.pos - 1
        BY <2>2, <2>3, <3>2
      <4> QED
        BY <2>2, <3>2, <4>1
    <3>3. CASE a # Base + n - 1
      <4>1. a < Base + n - 1
        BY <2>4, <3>3
      <4>2. heap[a] # 0
        BY <1>2, <3>1, <4>1 DEF NulBefore, n
      <4> QED
        BY <2>2, <3>1, <3>3, <4>2 DEF Bytes
    <3> QED
      BY <3>2, <3>3
  <2>6. CStringValid'
    BY <2>1, <2>4, <2>5 DEF CStringValid
  <2>7. StrShape'
    BY <2>1, <2>4 DEF StrInv, StrShape
  <2>8. Bufferless' /\ FormatterOfBuffer' /\ PassExact' /\ Terminated'
    BY <2>1 DEF Bufferless, FormatterOfBuffer, PassExact, Terminated
  <2>9. WritesInside'
    BY <2>1 DEF StrInv, WritesInside
  <2> QED
    BY <2>6, <2>7, <2>8, <2>9 DEF StrInv
<1> QED
  BY <1>1, <1>2

LEMMA TryFromCStrInv == ASSUME StrInv, TryFromCStr PROVE StrInv'
<1> USE Limits
<1>1. PICK s \in Slices :
        /\ from_bytes_with_nul(s) = "Ok" /\ cap' = Len(s) /\ len' = Len(s)
        /\ heap' = [a \in Addresses |-> IF Base <= a /\ a < Base + Len(s)
                                        THEN s[a - Base + 1] ELSE heap[a]]
  BY DEF TryFromCStr
<1>2. call = "idle" /\ call' = "string" /\ args' = args /\ fmtr' = fmtr
  BY DEF TryFromCStr
<1>3. heap = Untouched
  BY <1>2 DEF StrInv, Bufferless
<1>4. s \in Seq(Bytes) /\ Len(s) \in Nat /\ Len(s) <= MaxAlloc
  OBVIOUS
<1>5. /\ s # <<>> /\ Len(s) > 0 /\ s[Len(s)] = 0
      /\ \A i \in 1 .. Len(s) : i + 1 <= Len(s) => s[i] # 0
  <2>1. s # <<>> /\ s[Len(s)] = 0 /\ ~\E i \in 1 .. Len(s) : i + 1 <= Len(s) /\ s[i] = 0
    BY <1>1 DEF from_bytes_with_nul
  <2>2. Len(s) > 0
    BY <1>4, <2>1
  <2> QED
    BY <2>1, <2>2
<1>6. ASSUME NEW a \in Addresses
      PROVE  /\ Base <= a /\ a < Base + Len(s) =>
                  a - Base + 1 \in 1 .. Len(s) /\ heap'[a] = s[a - Base + 1]
             /\ ~(Base <= a /\ a < Base + Len(s)) => heap'[a] = Unwritten
             /\ heap'[a] \in Bytes \cup {Unwritten}
  <2>1. heap'[a] = IF Base <= a /\ a < Base + Len(s) THEN s[a - Base + 1] ELSE Unwritten
    BY <1>1, <1>3 DEF Untouched
  <2>2. Base <= a /\ a < Base + Len(s) => a - Base + 1 \in 1 .. Len(s)
    BY <1>4 DEF Addresses
  <2>3. \A i \in 1 .. Len(s) : s[i] \in Bytes
    BY <1>4
  <2> QED
    BY <2>1, <2>2, <2>3
<1>7. heap' \in [Addresses -> Bytes \cup {Unwritten}]
  BY <1>1, <1>6
<1>8. StrShape'
  BY <1>1, <1>2, <1>4, <1>7 DEF StrInv, StrShape, Addresses
<1>9. WritesInside'
  BY <1>1, <1>6 DEF WritesInside
<1>10. CStringValid'
  <2>1. 0 < len' /\ len' <= cap'
    BY <1>1, <1>4, <1>5
  <2>2. ASSUME NEW a \in Base .. Base + Len(s) - 1
        PROVE  heap'[a] = IF a = Base + Len(s) - 1 THEN 0 ELSE 1
    <3>1. a \in Addresses /\ Base <= a /\ a < Base + Len(s)
      BY <1>4 DEF Addresses
    <3>2. a - Base + 1 \in 1 .. Len(s) /\ heap'[a] = s[a - Base + 1]
      BY <1>6, <3>1
    <3>3. CASE a = Base + Len(s) - 1
      <4>1. a - Base + 1 = Len(s)
        BY <1>4, <3>3
      <4> QED
        BY <1>5, <3>2, <3>3, <4>1
    <3>4. CASE a # Base + Len(s) - 1
      <4>1. (a - Base + 1) + 1 <= Len(s)
        BY <1>4, <3>1, <3>4
      <4>2. s[a - Base + 1] # 0 /\ s[a - Base + 1] \in Bytes
        BY <1>4, <1>5, <3>2, <4>1
      <4> QED
        BY <3>2, <3>4, <4>2 DEF Bytes
    <3> QED
      BY <3>3, <3>4
  <2> QED
    BY <1>1, <2>1, <2>2 DEF CStringValid
<1>11. Bufferless' /\ FormatterOfBuffer' /\ PassExact' /\ Terminated'
  BY <1>2 DEF Bufferless, FormatterOfBuffer, PassExact, Terminated
<1> QED
  BY <1>8, <1>9, <1>10, <1>11 DEF StrInv

LEMMA FmtArgumentInv == ASSUME StrInv, FmtArgument PROVE StrInv'
<1> USE Limits
<1>1. /\ call = "idle" /\ call' = "printk" /\ args' \in Texts /\ cap' \in 0 .. MaxAlloc
      /\ len' = len /\ heap' = heap
  BY DEF FmtArgument
<1>2. PICK pos \in Base .. Usize : fmtr' = [beg |-> pos, pos |-> pos, end |-> Base + cap']
  BY DEF FmtArgument, from_ptrs
<1>3. heap = Untouched /\ cap' \in Nat /\ Base + cap' \in Addresses /\ pos \in Addresses
  <2>1. heap = Untouched
    BY <1>1 DEF StrInv, Bufferless
  <2>2. PICK c \in 0 .. MaxAlloc : c = cap'
    BY <1>1
  <2>3. c \in Nat /\ Base + c \in Addresses /\ pos \in Addresses
    BY DEF Addresses
  <2> QED
    BY <2>1, <2>2, <2>3
<1>4. StrShape'
  BY <1>1, <1>2, <1>3 DEF StrInv, StrShape
<1>5. Bufferless' /\ FormatterOfBuffer' /\ PassExact' /\ Terminated' /\ CStringValid'
  BY <1>1, <1>2 DEF Bufferless, FormatterOfBuffer, PassExact, Terminated, CStringValid
<1>6. WritesInside'
  BY <1>1, <1>3 DEF WritesInside, Untouched
<1> QED
  BY <1>4, <1>5, <1>6 DEF StrInv

\* A piece that %pA prints is written inside the buffer, however full that is.
LEMMA FmtArgumentPieceInv ==
    ASSUME StrInv, call = "printk", call' = "printk", NEW s \in Seq(Bytes), write_str(fmtr, s),
           args' \in Seq(Seq(Bytes)), cap' = cap, len' = len
    PROVE  StrInv'
<1>1. StrShape
  BY DEF StrInv
<1>2. /\ fmtr' \in [beg : Addresses, pos : Addresses, end : Addresses]
      /\ heap' \in [Addresses -> Bytes \cup {Unwritten}]
  BY <1>1, WriteStr
<1>3. WritesInside' /\ fmtr'.end = Base + cap' /\ Base <= fmtr'.pos
  BY WroteInside
<1>4. StrShape'
  BY <1>1, <1>2 DEF StrShape
<1>5. Bufferless' /\ FormatterOfBuffer' /\ PassExact' /\ Terminated' /\ CStringValid'
  BY <1>3 DEF Bufferless, FormatterOfBuffer, PassExact, Terminated, CStringValid
<1> QED
  BY <1>3, <1>4, <1>5 DEF StrInv

LEMMA StrStepInv == ASSUME StrInv, StrStep PROVE StrInv'
<1>1. args \in Seq(Seq(Bytes)) /\ <<0>> \in Seq(Bytes) /\ Len(<<0>>) = 1
  BY DEF StrInv, StrShape, Bytes
<1>2. CASE MeasurePiece
  <2>1. PICK s \in Seq(Bytes) : s = Head(args)
    BY <1>1, <1>2, Pieces DEF MeasurePiece
  <2>2. write_str(fmtr, s) /\ args' \in Seq(Seq(Bytes))
    BY <1>1, <1>2, <2>1, Pieces DEF MeasurePiece
  <2> QED
    BY <1>2, <2>2, MeasureInv DEF MeasurePiece
<1>3. CASE MeasureNul
  <2>1. args' = args /\ write_str(fmtr, <<0>>)
    BY <1>3 DEF MeasureNul
  <2> QED
    BY <1>1, <1>3, <2>1, MeasureInv DEF MeasureNul
<1>4. CASE WritePiece
  <2>1. PICK s \in Seq(Bytes) : s = Head(args)
    BY <1>1, <1>4, Pieces DEF WritePiece
  <2>2. write_str(fmtr, s) /\ args' \in Seq(Seq(Bytes)) /\ cap' = cap /\ len' = len /\ call = "write"
    BY <1>1, <1>4, <2>1, Pieces DEF WritePiece
  <2>3. call' = IF PastEnd(fmtr, Len(s)) THEN "failed" ELSE "write"
    BY <1>4, <2>1 DEF WritePiece
  <2> QED
    BY <2>2, <2>3, WriteInv
<1>5. CASE WriteNul
  <2>1. write_str(fmtr, <<0>>) /\ args' = args /\ cap' = cap /\ len' = len /\ call = "write"
    BY <1>5 DEF WriteNul
  <2>2. call' = IF PastEnd(fmtr, Len(<<0>>)) THEN "failed" ELSE "terminate"
    BY <1>1, <1>5 DEF WriteNul
  <2> QED
    BY <1>1, <2>1, <2>2, WriteInv
<1>6. CASE FmtArgumentPiece
  <2>1. PICK s \in Seq(Bytes) : s = Head(args)
    BY <1>1, <1>6, Pieces DEF FmtArgumentPiece
  <2>2. write_str(fmtr, s) /\ args' \in Seq(Seq(Bytes))
    BY <1>1, <1>6, <2>1, Pieces DEF FmtArgumentPiece
  <2> QED
    BY <1>6, <2>2, FmtArgumentPieceInv DEF FmtArgumentPiece
<1>7. CASE FmtFailed \/ CStringDrop \/ FmtArgumentDone
  BY <1>7, ReturnsInv DEF FmtFailed, CStringDrop, FmtArgumentDone
<1> QED
  BY <1>2, <1>3, <1>4, <1>5, <1>6, <1>7, TryFromFmtInv, WithCapacityInv, FinishFmtInv,
     TryFromCStrInv, FmtArgumentInv
     DEF StrStep

LEMMA StrUnchanged == ASSUME StrInv, UNCHANGED strVars PROVE StrInv'
<1>1. UNCHANGED <<call, args, fmtr, cap, len, heap>>
  BY DEF strVars
<1>2. StrShape' /\ Bufferless' /\ FormatterOfBuffer' /\ PassExact' /\ Terminated'
  BY <1>1 DEF StrInv, StrShape, Bufferless, FormatterOfBuffer, PassExact, Terminated
<1> QED
  BY <1>1, <1>2 DEF StrInv, WritesInside, CStringValid

\* The invariant gives the types.
LEMMA StrInvTyped == ASSUME StrInv PROVE StrTypeOK
BY DEF StrInv, StrShape, StrTypeOK

-----------------------------------------------------------------------------
(* User memory.                                                            *)

\* One sum wraps around at most once.
LEMMA WrapIs ==
    ASSUME NEW x \in Nat, x < 2 * Words
    PROVE  x % Words = IF x < Words THEN x ELSE x - Words
<1>1. Words \in Nat /\ Words > 0
  BY UserSliceAssumption
<1>2. CASE x < Words
  BY <1>1, <1>2
<1>3. CASE x >= Words
  <2>1. x = 1 * Words + (x - Words) /\ x - Words \in 0 .. Words - 1
    BY <1>1, <1>3
  <2> QED
    BY <1>1, <1>3, <2>1
<1> QED
  BY <1>1, <1>2, <1>3

\* The assumption on user addresses, in the form the proofs use it.
LEMMA SizesKnown ==
    /\ Words \in Nat /\ Words > 0 /\ TaskSize \in Nat /\ PageSize \in Nat /\ BufLen \in Nat
    /\ TaskSize < Words /\ PageSize > 0 /\ 2 * PageSize < Words
BY UserSliceAssumption

\* c stands k bytes into the slice, and what is left of it ends with the slice.
At(c, k) ==
    /\ k \in 0 .. slice.length /\ c.ptr = (slice.ptr + k) % Words
    /\ k + c.length <= slice.length

ReaderAt(k) == At(reader, k) /\ read \subseteq Span(slice.ptr, k)

UserShape ==
    /\ slice \in Cursor /\ reader \in Cursor /\ writer \in Cursor
    /\ mapped \subseteq 0 .. TaskSize - 1
    /\ read \subseteq Lens /\ touched \subseteq Lens /\ again = FALSE
    /\ vec \in [len : Lens, filled : Lens]
    /\ strbuf \in Nat /\ NoUninitBytes /\ PageRespected

UserInv ==
    /\ UserShape
    /\ \E k \in Nat : ReaderAt(k)
    /\ \E k \in Nat : At(writer, k)
    /\ touched \subseteq Span(slice.ptr, slice.length)

\* The addresses of a part of the slice are addresses of the slice.
LEMMA SpanOfPart ==
    ASSUME slice \in Cursor, NEW c \in Cursor, NEW k \in Nat, At(c, k),
           NEW n \in Nat, n <= c.length
    PROVE  /\ \A a \in Span(c.ptr, n) :
                \E i \in k .. k + n - 1 : i \in Lens /\ a = (slice.ptr + i) % Words
           /\ Span(c.ptr, n) \subseteq Span(slice.ptr, slice.length)
           /\ Span(c.ptr, n) \subseteq Span(slice.ptr, k + n)
           /\ Span(c.ptr, n) \subseteq Lens
<1> USE SizesKnown
<1>1. /\ slice.ptr \in Nat /\ slice.ptr < Words /\ slice.length \in Nat /\ slice.length < Words
      /\ c.ptr \in Nat /\ c.ptr < Words /\ c.length \in Nat
      /\ k <= slice.length /\ k + n <= slice.length /\ c.ptr = (slice.ptr + k) % Words
  BY DEF Cursor, Lens, At
<1>2. ASSUME NEW i \in Lens, i < n
      PROVE  /\ k + i \in Lens /\ k + i \in k .. k + n - 1
             /\ (c.ptr + i) % Words = (slice.ptr + (k + i)) % Words
             /\ (c.ptr + i) % Words \in Lens
  <2>1. i \in Nat /\ k + i < Words
    BY <1>1, <1>2 DEF Lens
  <2>2. (slice.ptr + k) % Words = IF slice.ptr + k < Words THEN slice.ptr + k
                                  ELSE slice.ptr + k - Words
    BY <1>1, WrapIs
  <2>3. c.ptr + i \in Nat /\ c.ptr + i < 2 * Words
    BY <1>1, <2>1
  <2>4. (c.ptr + i) % Words = IF c.ptr + i < Words THEN c.ptr + i ELSE c.ptr + i - Words
    BY <1>1, <2>1, <2>3, WrapIs
  <2>5. slice.ptr + (k + i) \in Nat /\ slice.ptr + (k + i) < 2 * Words
    BY <1>1, <2>1
  <2>6. (slice.ptr + (k + i)) % Words = IF slice.ptr + (k + i) < Words THEN slice.ptr + (k + i)
                                        ELSE slice.ptr + (k + i) - Words
    BY <1>1, <2>1, <2>5, WrapIs
  <2>7. (c.ptr + i) % Words = (slice.ptr + (k + i)) % Words
    BY <1>1, <2>1, <2>2, <2>4, <2>6
  <2>8. (c.ptr + i) % Words \in Lens
    BY <1>1, <2>3, <2>4 DEF Lens
  <2> QED
    BY <1>2, <2>1, <2>7, <2>8 DEF Lens
<1>3. ASSUME NEW a \in Span(c.ptr, n)
      PROVE  /\ \E i \in k .. k + n - 1 : i \in Lens /\ a = (slice.ptr + i) % Words
             /\ a \in Lens
  <2>1. PICK i \in Lens : i < n /\ a = (c.ptr + i) % Words
    BY <1>3 DEF Span
  <2> QED
    BY <2>1, <1>2
<1>4. ASSUME NEW a \in Span(c.ptr, n), NEW m \in Nat, k + n <= m
      PROVE  a \in Span(slice.ptr, m)
  <2>1. PICK i \in k .. k + n - 1 : i \in Lens /\ a = (slice.ptr + i) % Words
    BY <1>3, <1>4
  <2>2. i < m
    BY <1>4, <2>1
  <2> QED
    BY <2>1, <2>2 DEF Span
<1> QED
  BY <1>1, <1>3, <1>4

\* The slice does not come back to an address: what was read is not what is left.
LEMMA ReadIsBehind ==
    ASSUME slice \in Cursor, reader \in Cursor, NEW k \in Nat, ReaderAt(k),
           NEW n \in Nat, n <= reader.length
    PROVE  read \cap Span(reader.ptr, n) = {}
<1> USE SizesKnown
<1> SUFFICES ASSUME NEW a \in read, a \in Span(reader.ptr, n) PROVE FALSE
  OBVIOUS
<1>1. At(reader, k) /\ read \subseteq Span(slice.ptr, k)
  BY DEF ReaderAt
<1>2. PICK i \in k .. k + n - 1 : i \in Lens /\ a = (slice.ptr + i) % Words
  BY <1>1, SpanOfPart
<1>3. PICK j \in Lens : j < k /\ a = (slice.ptr + j) % Words
  BY <1>1 DEF Span
<1>4. slice.ptr \in Nat /\ slice.ptr < Words /\ i \in Nat /\ i < Words /\ j \in Nat /\ j < Words
  BY <1>2, <1>3 DEF Cursor, Lens
<1>5. (slice.ptr + i) % Words = IF slice.ptr + i < Words THEN slice.ptr + i ELSE slice.ptr + i - Words
  BY <1>4, WrapIs
<1>6. (slice.ptr + j) % Words = IF slice.ptr + j < Words THEN slice.ptr + j ELSE slice.ptr + j - Words
  BY <1>4, WrapIs
<1>7. i = j
  BY <1>2, <1>3, <1>4, <1>5, <1>6
<1> QED
  BY <1>2, <1>3, <1>7

\* What was handed out and what has just been are the slice up to the new place.
LEMMA SpanGrows ==
    ASSUME NEW p \in Nat, NEW k \in Nat, NEW m \in Nat, k <= m
    PROVE  Span(p, k) \subseteq Span(p, m)
<1> SUFFICES ASSUME NEW a \in Span(p, k) PROVE a \in Span(p, m)
  OBVIOUS
<1>1. PICK i \in Lens : i < k /\ a = (p + i) % Words
  BY DEF Span
<1>2. i < m
  BY <1>1, SizesKnown DEF Lens
<1> QED
  BY <1>1, <1>2 DEF Span

\* A cursor that advances by what it has left stays in the slice.
LEMMA AdvanceAt ==
    ASSUME slice \in Cursor, NEW c \in Cursor, NEW k \in Nat, At(c, k),
           NEW n \in Nat, n <= c.length
    PROVE  Advance(c, n) \in Cursor /\ k + n \in Nat /\ At(Advance(c, n), k + n)
<1> USE SizesKnown
<1>1. /\ slice.ptr \in Nat /\ slice.ptr < Words /\ slice.length \in Nat /\ slice.length < Words
      /\ c.ptr \in Nat /\ c.ptr < Words /\ c.length \in Nat /\ c.length < Words
      /\ k <= slice.length /\ k + c.length <= slice.length /\ c.ptr = (slice.ptr + k) % Words
  BY DEF Cursor, Lens, At
<1>2. (slice.ptr + k) % Words = IF slice.ptr + k < Words THEN slice.ptr + k
                                ELSE slice.ptr + k - Words
  BY <1>1, WrapIs
<1>3. c.ptr + n \in Nat /\ c.ptr + n < 2 * Words
  BY <1>1
<1>4. (c.ptr + n) % Words = IF c.ptr + n < Words THEN c.ptr + n ELSE c.ptr + n - Words
  BY <1>1, <1>3, WrapIs
<1>5. slice.ptr + (k + n) \in Nat /\ slice.ptr + (k + n) < 2 * Words
  BY <1>1
<1>6. (slice.ptr + (k + n)) % Words = IF slice.ptr + (k + n) < Words THEN slice.ptr + (k + n)
                                      ELSE slice.ptr + (k + n) - Words
  BY <1>1, <1>5, WrapIs
<1>7. (c.ptr + n) % Words = (slice.ptr + (k + n)) % Words
  BY <1>1, <1>2, <1>4, <1>6
<1>8. (c.ptr + n) % Words \in Lens /\ c.length - n \in Lens
  BY <1>1, <1>3, <1>4 DEF Lens
<1>9. k + n \in 0 .. slice.length /\ (k + n) + (c.length - n) <= slice.length
  BY <1>1
<1> QED
  BY <1>7, <1>8, <1>9 DEF Advance, Cursor, At

\* A copy stops somewhere between its two ends.
LEMMA CopiedBounds ==
    ASSUME NEW p \in Nat, NEW n \in Nat
    PROVE  Copied(p, n) \in 0 .. n
<1> DEFINE K == {k \in 0 .. n : \A i \in 0 .. n : i < k => p + i \in mapped}
<1>1. K \in SUBSET Nat /\ 0 \in K /\ \A y \in K : y <= n
  OBVIOUS
<1>2. Max(K) \in K
  BY <1>1, MaxIs
<1> QED
  BY <1>2 DEF Copied

LEMMA UserInvInit == UserInit => UserInv
<1> USE SizesKnown
<1> SUFFICES ASSUME UserInit PROVE UserInv
  OBVIOUS
<1>1. Empty \in Cursor /\ 0 % Words = 0
  BY DEF Empty, Cursor, Lens
<1>2. UserShape
  BY <1>1 DEF UserInit, UserShape, NoUninitBytes, PageRespected, Lens
<1>3. At(Empty, 0)
  BY <1>1 DEF At, UserInit, Empty
<1> QED
  BY <1>2, <1>3 DEF UserInv, UserInit, ReaderAt

\* What the invariant says of the slice: the checked properties.
LEMMA UserInvGoals ==
    ASSUME UserInv
    PROVE  UserTypeOK /\ SliceRespected /\ NoDoubleFetch /\ NoUninitBytes /\ PageRespected
<1> USE SizesKnown
<1>1. PICK k \in Nat : ReaderAt(k)
  BY DEF UserInv
<1>2. PICK w \in Nat : At(writer, w)
  BY DEF UserInv
<1>3. /\ slice \in Cursor /\ reader \in Cursor /\ writer \in Cursor
      /\ reader.length \in Nat /\ writer.length \in Nat
  BY DEF UserInv, UserShape, Cursor, Lens
<1>4. Span(reader.ptr, reader.length) \subseteq Span(slice.ptr, slice.length)
  BY <1>1, <1>3, SpanOfPart DEF ReaderAt
<1>5. Span(writer.ptr, writer.length) \subseteq Span(slice.ptr, slice.length)
  BY <1>2, <1>3, SpanOfPart
<1>6. SliceRespected
  BY <1>4, <1>5 DEF SliceRespected, UserInv
<1>7. NoDoubleFetch
  BY <1>1, <1>3, ReadIsBehind DEF NoDoubleFetch, UserInv, UserShape
<1>8. page \subseteq 0 .. 2 * Words
  BY DEF UserInv, UserShape, PageRespected
<1> QED
  BY <1>6, <1>7, <1>8 DEF UserInv, UserShape, UserTypeOK

\* What the steps that leave the slice alone keep of it.
LEMMA Cursors ==
    ASSUME UserInv
    PROVE  /\ slice \in Cursor /\ reader \in Cursor /\ writer \in Cursor
           /\ slice.length \in Nat /\ slice.ptr \in Nat
           /\ reader.length \in Nat /\ reader.ptr \in Nat
           /\ writer.length \in Nat /\ writer.ptr \in Nat
BY SizesKnown DEF UserInv, UserShape, Cursor, Lens

\* A cursor keeps its place in a slice that does not change.
LEMMA AtKept ==
    ASSUME slice' = slice, NEW c, NEW k, At(c, k)
    PROVE  At(c, k)'
BY DEF At

LEMMA ReaderWriterInv ==
    ASSUME UserInv, NEW ptr \in Lens, NEW n \in Lens, ReaderWriter(ptr, n)
    PROVE  UserInv'
<1> USE SizesKnown
<1>1. /\ slice' = [ptr |-> ptr, length |-> n] /\ reader' = slice' /\ writer' = slice'
      /\ read' = {} /\ again' = FALSE /\ touched' = {} /\ page' = {} /\ strbuf' = 0
      /\ mapped' = mapped
  BY DEF ReaderWriter
<1>2. PICK old \in {0, 1} : vec' = [len |-> old, filled |-> old]
  BY DEF ReaderWriter
<1>3. Words > 2
  OBVIOUS
<1>4. slice' \in Cursor /\ slice'.ptr = ptr /\ slice'.length = n
  BY <1>1 DEF Cursor
<1>5. UserShape'
  BY <1>1, <1>2, <1>3, <1>4 DEF UserInv, UserShape, NoUninitBytes, PageRespected, Lens
<1>6. (ptr + 0) % Words = ptr
  BY DEF Lens
<1>7. At(reader, 0)' /\ At(writer, 0)'
  BY <1>1, <1>4, <1>6 DEF At, Lens
<1>8. ReaderAt(0)'
  BY <1>1, <1>7 DEF ReaderAt
<1> QED
  BY <1>1, <1>5, <1>7, <1>8 DEF UserInv

LEMMA RemapInv == ASSUME UserInv, NEW a \in 0 .. TaskSize - 1, Remap(a) PROVE UserInv'
<1>1. /\ UNCHANGED <<slice, reader, writer, read, again, touched, vec, page, strbuf>>
      /\ mapped' \subseteq 0 .. TaskSize - 1
  BY DEF Remap, UserInv, UserShape
<1>2. UserShape'
  BY <1>1 DEF UserInv, UserShape, NoUninitBytes, PageRespected
<1> QED
  BY <1>1, <1>2 DEF UserInv, ReaderAt, At

LEMMA SkipInv == ASSUME UserInv, NEW n \in Lens, Skip(n) PROVE UserInv'
<1> USE SizesKnown
<1>1. /\ n \in Nat /\ n <= reader.length /\ reader' = Advance(reader, n)
      /\ UNCHANGED <<slice, writer, mapped, read, again, touched, vec, page, strbuf>>
  BY DEF Skip, Lens
<1>2. PICK k \in Nat : ReaderAt(k)
  BY DEF UserInv
<1>3. reader' \in Cursor /\ k + n \in Nat /\ At(reader', k + n)
  BY <1>1, <1>2, Cursors, AdvanceAt DEF ReaderAt
<1>4. UserShape'
  BY <1>1, <1>3 DEF UserInv, UserShape, NoUninitBytes, PageRespected
<1>5. read \subseteq Span(slice.ptr, k + n)
  <2>1. n \in Nat /\ k <= k + n
    BY <1>1
  <2> QED
    BY <1>2, <1>3, <2>1, Cursors, SpanGrows DEF ReaderAt
<1>6. ReaderAt(k + n)'
  BY <1>1, <1>3, <1>5 DEF ReaderAt, At
<1>7. \E w \in Nat : At(writer, w)'
  BY <1>1 DEF UserInv, At
<1> QED
  BY <1>1, <1>3, <1>4, <1>6, <1>7 DEF UserInv

\* What a read does to the reader, whether every byte came or not.
LEMMA FetchKeeps ==
    ASSUME UserInv, NEW n \in Nat, n <= reader.length, NEW byValue \in BOOLEAN,
           Fetch(n, byValue), slice' = slice
    PROVE  /\ \E k \in Nat : ReaderAt(k)'
           /\ reader' \in Cursor /\ read' \subseteq Lens /\ again' = FALSE
           /\ touched' \subseteq Span(slice.ptr, slice.length) /\ touched' \subseteq Lens
<1> USE SizesKnown
<1>1. PICK k \in Nat : ReaderAt(k)
  BY DEF UserInv
<1>2. At(reader, k) /\ read \subseteq Span(slice.ptr, k)
  BY <1>1 DEF ReaderAt
<1> DEFINE now == Span(reader.ptr, n)
<1>3. /\ now \subseteq Span(slice.ptr, slice.length) /\ now \subseteq Span(slice.ptr, k + n)
      /\ now \subseteq Lens
  BY <1>2, Cursors, SpanOfPart
<1>4. read \cap now = {}
  BY <1>1, Cursors, ReadIsBehind
<1>5. Span(slice.ptr, k) \subseteq Span(slice.ptr, k + n)
  BY Cursors, SpanGrows
<1>6. Advance(reader, n) \in Cursor /\ k + n \in Nat /\ At(Advance(reader, n), k + n)
  BY <1>2, Cursors, AdvanceAt
<1> HIDE DEF now
<1>7. touched' = touched \cup now \/ touched' = touched
  BY DEF Fetch, now
<1>8. touched' \subseteq Span(slice.ptr, slice.length) /\ touched' \subseteq Lens
  BY <1>3, <1>7 DEF UserInv, UserShape
<1>9. CASE Copied(reader.ptr, n) = n
  <2>1. /\ reader' = Advance(reader, n) /\ read' = read \cup now
        /\ again' = (again \/ now \cap read # {})
    BY <1>9 DEF Fetch, now
  <2>2. again' = FALSE
    BY <1>4, <2>1 DEF UserInv, UserShape
  <2>3. ReaderAt(k + n)'
    BY <1>2, <1>3, <1>5, <1>6, <2>1 DEF ReaderAt, At
  <2> QED
    BY <1>3, <1>6, <1>8, <2>1, <2>2, <2>3 DEF UserInv, UserShape
<1>10. CASE Copied(reader.ptr, n) # n
  <2>1. /\ reader' = (IF byValue THEN [reader EXCEPT !.length = 0] ELSE reader)
        /\ again' = again /\ read' = read
    BY <1>10 DEF Fetch
  <2>2. reader' \in Cursor /\ reader'.ptr = reader.ptr /\ reader'.length <= reader.length
        /\ reader'.length \in Nat
    BY <2>1, Cursors DEF Cursor, Lens
  <2>3. k \in 0 .. slice.length /\ k + reader'.length <= slice.length
    BY <1>2, <2>2, Cursors DEF At
  <2>4. ReaderAt(k)'
    BY <1>2, <2>1, <2>2, <2>3 DEF ReaderAt, At
  <2> QED
    BY <1>8, <2>1, <2>2, <2>4 DEF UserInv, UserShape
<1> QED
  BY <1>9, <1>10

\* The steps that read and write nothing else.
LEMMA ReadInv ==
    ASSUME UserInv, NEW n \in Lens, n <= reader.length, Fetch(n, FALSE),
           UNCHANGED <<slice, writer, mapped, vec, strbuf>>, PageRespected'
    PROVE  UserInv'
<1>1. n \in Nat /\ FALSE \in BOOLEAN
  BY SizesKnown DEF Lens
<1>2. /\ \E k \in Nat : ReaderAt(k)'
      /\ reader' \in Cursor /\ read' \subseteq Lens /\ again' = FALSE
      /\ touched' \subseteq Span(slice.ptr, slice.length) /\ touched' \subseteq Lens
  BY <1>1, FetchKeeps
<1>3. UserShape'
  BY <1>2 DEF UserInv, UserShape, NoUninitBytes
<1>4. \E w \in Nat : At(writer, w)'
  BY DEF UserInv, At
<1> QED
  BY <1>2, <1>3, <1>4 DEF UserInv

LEMMA ReadAllInv == ASSUME UserInv, ReadAll PROVE UserInv'
<1> USE SizesKnown
<1> DEFINE n == Copied(reader.ptr, reader.length)
<1>1. /\ reader.length > 0 /\ vec.len + reader.length < Words
      /\ Fetch(reader.length, TRUE)
      /\ vec' = [len |-> IF n = reader.length THEN vec.len + n ELSE vec.len,
                 filled |-> vec.len + n]
      /\ UNCHANGED <<slice, writer, mapped, page, strbuf>>
  BY DEF ReadAll
<1>2. n \in 0 .. reader.length
  BY Cursors, CopiedBounds
<1> HIDE DEF n
<1>3. /\ \E k \in Nat : ReaderAt(k)'
      /\ reader' \in Cursor /\ read' \subseteq Lens /\ again' = FALSE
      /\ touched' \subseteq Span(slice.ptr, slice.length) /\ touched' \subseteq Lens
  <2>1. PICK all \in Nat : all = reader.length
    BY Cursors
  <2>2. Fetch(all, TRUE) /\ slice' = slice
    BY <1>1, <2>1
  <2>3. all <= reader.length
    BY <2>1
  <2> QED
    BY <2>2, <2>3, FetchKeeps
<1>4. vec.len \in Nat
  BY DEF UserInv, UserShape, Lens
<1>5. vec' \in [len : Lens, filled : Lens] /\ vec'.len <= vec'.filled
  BY <1>1, <1>2, <1>4, Cursors DEF Lens
<1>6. UserShape'
  BY <1>1, <1>3, <1>5 DEF UserInv, UserShape, NoUninitBytes, PageRespected
<1>7. \E w \in Nat : At(writer, w)'
  BY <1>1 DEF UserInv, At
<1> QED
  BY <1>1, <1>3, <1>6, <1>7 DEF UserInv

LEMMA StrncpyFromUserInv == ASSUME UserInv, StrncpyFromUser PROVE UserInv'
<1> USE SizesKnown
<1> DEFINE max == Min({reader.length, BufLen})
<1> DEFINE left == TaskSize - Min({reader.ptr, TaskSize})
<1>1. max \in Nat /\ max <= reader.length /\ max <= BufLen
  BY Cursors, MinOfTwo
<1>2. left \in Nat
  BY Cursors, MinOfTwo
<1>3. /\ touched' = touched \cup (IF reader.ptr < TaskSize THEN Span(reader.ptr, max) ELSE {})
      /\ strbuf' \in 0 .. Copied(reader.ptr, Min({max, left})) \/ strbuf' = strbuf
      /\ reader' = [reader EXCEPT !.length = 0]
      /\ UNCHANGED <<slice, writer, mapped, read, again, vec, page>>
  BY DEF StrncpyFromUser
<1> HIDE DEF max, left
<1>4. Min({max, left}) \in Nat /\ Min({max, left}) <= max
  BY <1>1, <1>2, MinOfTwo
<1>5. Copied(reader.ptr, Min({max, left})) \in 0 .. Min({max, left})
  BY <1>4, Cursors, CopiedBounds
<1>6. strbuf' \in Nat /\ strbuf' <= BufLen
  <2>1. strbuf \in Nat /\ strbuf <= BufLen
    BY DEF UserInv, UserShape, NoUninitBytes
  <2> QED
    BY <1>1, <1>3, <1>4, <1>5, <2>1
<1>7. PICK k \in Nat : ReaderAt(k)
  BY DEF UserInv
<1>8. /\ Span(reader.ptr, max) \subseteq Span(slice.ptr, slice.length)
      /\ Span(reader.ptr, max) \subseteq Lens
  BY <1>1, <1>7, Cursors, SpanOfPart DEF ReaderAt
<1>9. touched' \subseteq Span(slice.ptr, slice.length) /\ touched' \subseteq Lens
  BY <1>3, <1>8 DEF UserInv, UserShape
<1>10. reader' \in Cursor /\ reader'.ptr = reader.ptr /\ reader'.length = 0
  BY <1>3, Cursors DEF Cursor, Lens
<1>11. k \in 0 .. slice.length /\ k + 0 <= slice.length
  BY <1>7, Cursors DEF ReaderAt, At
<1>12. ReaderAt(k)'
  BY <1>3, <1>7, <1>10, <1>11 DEF ReaderAt, At
<1>13. UserShape'
  BY <1>3, <1>6, <1>9, <1>10 DEF UserInv, UserShape, NoUninitBytes, PageRespected
<1>14. \E w \in Nat : At(writer, w)'
  BY <1>3 DEF UserInv, At
<1> QED
  BY <1>3, <1>9, <1>12, <1>13, <1>14 DEF UserInv

LEMMA WriteSliceInv == ASSUME UserInv, NEW n \in Lens, WriteSlice(n) PROVE UserInv'
<1> USE SizesKnown
<1>1. /\ n \in Nat /\ n <= writer.length
      /\ touched' = touched \cup (IF access_ok(writer.ptr, n) THEN Span(writer.ptr, n) ELSE {})
      /\ writer' = Advance(writer, n) \/ writer' = writer
      /\ UNCHANGED <<slice, reader, mapped, read, again, vec, page, strbuf>>
  BY DEF WriteSlice, Lens
<1>2. PICK w \in Nat : At(writer, w)
  BY DEF UserInv
<1>3. /\ Span(writer.ptr, n) \subseteq Span(slice.ptr, slice.length)
      /\ Span(writer.ptr, n) \subseteq Lens
  BY <1>1, <1>2, Cursors, SpanOfPart
<1>4. touched' \subseteq Span(slice.ptr, slice.length) /\ touched' \subseteq Lens
  BY <1>1, <1>3 DEF UserInv, UserShape
<1>5. Advance(writer, n) \in Cursor /\ w + n \in Nat /\ At(Advance(writer, n), w + n)
  BY <1>1, <1>2, Cursors, AdvanceAt
<1>6. writer' \in Cursor /\ \E v \in Nat : At(writer, v)'
  BY <1>1, <1>2, <1>5, Cursors DEF At
<1>7. UserShape'
  BY <1>1, <1>4, <1>6 DEF UserInv, UserShape, NoUninitBytes, PageRespected
<1>8. \E k \in Nat : ReaderAt(k)'
  BY <1>1 DEF UserInv, ReaderAt, At
<1> QED
  BY <1>1, <1>4, <1>6, <1>7, <1>8 DEF UserInv

\* An offset and a length that pass the check stay in the page.
LEMMA BoundsHold ==
    ASSUME NEW off \in Lens, NEW n \in Lens, bounds_ok(off, n), NEW m \in Nat, m <= n,
           PageRespected, page' = page \cup {off + i : i \in {j \in Lens : j < m}}
    PROVE  PageRespected'
<1> USE SizesKnown
<1>1. off \in Nat /\ n \in Nat /\ off <= PageSize /\ n <= PageSize
  BY DEF bounds_ok, Lens
<1>2. off + n < Words
  BY <1>1
<1>3. off + n <= PageSize
  <2>1. (off + n) % Words = off + n
    BY <1>1, <1>2, WrapIs
  <2> QED
    BY <2>1 DEF bounds_ok
<1>4. \A i \in Lens : i < m => off + i \in 0 .. PageSize - 1
  BY <1>1, <1>3 DEF Lens
<1> QED
  BY <1>4 DEF PageRespected

LEMMA CopyIntoPageInv ==
    ASSUME UserInv, NEW off \in Lens, NEW n \in Lens, CopyIntoPage(off, n) PROVE UserInv'
<1> DEFINE m == Copied(reader.ptr, n)
<1>1. /\ bounds_ok(off, n) /\ n <= reader.length /\ Fetch(n, FALSE)
      /\ page' = page \cup {off + i : i \in {j \in Lens : j < m}}
      /\ UNCHANGED <<slice, writer, mapped, vec, strbuf>>
  BY DEF CopyIntoPage, read_raw
<1>2. n \in Nat
  BY SizesKnown DEF Lens
<1>3. m \in 0 .. n
  BY <1>2, Cursors, CopiedBounds
<1> HIDE DEF m
<1>4. m \in Nat /\ m <= n /\ PageRespected
  BY <1>2, <1>3 DEF UserInv, UserShape
<1>5. PageRespected'
  BY <1>1, <1>4, BoundsHold
<1> QED
  BY <1>1, <1>5, ReadInv

LEMMA PageRawInv ==
    ASSUME UserInv, NEW off \in Lens, NEW n \in Lens, PageRaw(off, n) PROVE UserInv'
<1>1. /\ bounds_ok(off, n) /\ page' = page \cup {off + i : i \in {j \in Lens : j < n}}
      /\ UNCHANGED <<slice, reader, writer, mapped, read, again, touched, vec, strbuf>>
  BY DEF PageRaw
<1>2. n \in Nat /\ n <= n /\ PageRespected
  BY SizesKnown DEF Lens, UserInv, UserShape
<1>3. PageRespected'
  BY <1>1, <1>2, BoundsHold
<1>4. UserShape'
  BY <1>1, <1>3 DEF UserInv, UserShape, NoUninitBytes
<1> QED
  BY <1>1, <1>4 DEF UserInv, ReaderAt, At

LEMMA UserStepInv == ASSUME UserInv, UserStep PROVE UserInv'
<1>1. ASSUME NEW n \in Lens, ReadSlice(n) PROVE UserInv'
  <2>1. PageRespected'
    BY <1>1 DEF ReadSlice, PageRespected, UserInv, UserShape
  <2> QED
    BY <1>1, <2>1, ReadInv DEF ReadSlice, read_raw
<1>2. ASSUME NEW n \in Lens, ReadValue(n) PROVE UserInv'
  <2>1. PageRespected'
    BY <1>2 DEF ReadValue, PageRespected, UserInv, UserShape
  <2> QED
    BY <1>2, <2>1, ReadInv DEF ReadValue
<1> QED
  BY <1>1, <1>2, ReaderWriterInv, RemapInv, SkipInv, ReadAllInv, StrncpyFromUserInv,
     WriteSliceInv, CopyIntoPageInv, PageRawInv
     DEF UserStep

LEMMA UserUnchanged == ASSUME UserInv, UNCHANGED userVars PROVE UserInv'
<1>1. UNCHANGED <<slice, reader, writer, mapped, read, again, touched, vec, page, strbuf>>
  BY DEF userVars
<1>2. UserShape'
  BY <1>1 DEF UserInv, UserShape, NoUninitBytes, PageRespected
<1> QED
  BY <1>1, <1>2 DEF UserInv, ReaderAt, At

-----------------------------------------------------------------------------
(* Errors and ioctl numbers.                                               *)

\* The assumption on the widths, in the form the proofs use it.
LEMMA Widths ==
    /\ ShortValues \in Nat /\ IntValues \in Nat /\ PtrValues \in Nat /\ MaxErrno \in Nat
    /\ ShortValues < IntValues /\ IntValues <= PtrValues /\ 2 * MaxErrno < ShortValues
    /\ EINVAL \in 1..MaxErrno /\ ENOMEM \in 1..MaxErrno
    /\ NrValues \in Nat /\ TypeValues \in Nat /\ SizeValues \in Nat
    /\ 0 < NrValues /\ 0 < TypeValues /\ 0 < SizeValues
BY WidthAssumption

\* An error number has a place in every width, and comes back out of it.
LEMMA SignedErrno ==
    ASSUME NEW e \in Errnos, NEW n \in {ShortValues, IntValues, PtrValues}
    PROVE  /\ e % n = e + n
           /\ Signed(e, n) = e /\ Signed(e + n, n) = e
<1> USE Widths
<1>1. n \in Nat /\ 2 * MaxErrno < n /\ e \in Int /\ e < 0 /\ -MaxErrno <= e
  BY DEF Errnos
<1>2. e % n = e + n
  BY <1>1
<1>3. (e + n) % n = e + n
  BY <1>1
<1>4. ~(e + n < n \div 2)
  BY <1>1
<1>5. (e + n) - n = e
  BY <1>1
<1> QED
  BY <1>2, <1>3, <1>4, <1>5 DEF Signed

\* What is carried: a pointer is an object or an error pointer.
ResultShape ==
    \/ result = Nothing
    \/ \E v \in Ints : result = Carried("int", v)
    \/ \E p \in Objects : result = Carried("ptr", p)
    \/ \E e \in Errnos : result = Carried("ptr", e + PtrValues)
    \/ \E p \in Objects : result = Carried("Ok", p)
    \/ \E e \in Errnos : result = Carried("Err", e)

IocShape ==
    \/ ioc = Undefined
    \/ \E d \in 0..3, t \in 0 .. TypeValues - 1, n \in 0 .. NrValues - 1,
          s \in 0 .. SizeValues - 1 :
         ioc = [of |-> <<d, t, n, s>>, num |-> IOC(d, t, n, s)]

ConvInv == ResultShape /\ IocShape /\ ErrnoPreserved

\* The meaning of everything that is carried.
LEMMA MeaningOf ==
    /\ Meaning(Nothing) = Fine(0)
    /\ \A v \in Ints : Meaning(Carried("int", v)) =
         IF v >= 0 THEN Fine(0) ELSE Failed(IF v \in Errnos THEN v ELSE -EINVAL)
    /\ \A p \in Objects : Meaning(Carried("ptr", p)) = Fine(p)
    /\ \A e \in Errnos : Meaning(Carried("ptr", e + PtrValues)) = Failed(e)
    /\ \A v : Meaning(Carried("Ok", v)) = Fine(v)
    /\ \A v : Meaning(Carried("Err", v)) = Failed(v)
<1>1. /\ Meaning(Nothing) = Fine(0)
      /\ \A v : Meaning(Carried("Ok", v)) = Fine(v)
      /\ \A v : Meaning(Carried("Err", v)) = Failed(v)
      /\ \A v : Meaning(Carried("int", v)) =
            IF v >= 0 THEN Fine(0) ELSE Failed(IF v \in Errnos THEN v ELSE -EINVAL)
      /\ \A v : Meaning(Carried("ptr", v)) =
            IF v \in Objects THEN Fine(v) ELSE Failed(v - PtrValues)
  BY DEF Meaning, Carried, Nothing
<1>2. \A e \in Errnos : e + PtrValues \notin Objects /\ (e + PtrValues) - PtrValues = e
  BY Widths DEF Errnos, Objects
<1> QED
  BY <1>1, <1>2

LEMMA ConvInvInit == ConvInit => ConvInv
BY MeaningOf DEF ConvInit, ConvInv, ResultShape, IocShape, ErrnoPreserved

\* A step of a result keeps the ioctl number.
LEMMA ResultInv ==
    ASSUME ConvInv, ResultShape', Meaning(result') = meant', ioc' = ioc
    PROVE  ConvInv'
BY DEF ConvInv, IocShape, ErrnoPreserved, Meaning

\* A producer may put any well-formed result across the border.
LEMMA ProduceInv ==
    ASSUME ConvInv, NEW r, NEW m, Produce(r, m), Meaning(r) = m,
           \/ \E v \in Ints : r = Carried("int", v)
           \/ \E p \in Objects : r = Carried("ptr", p)
           \/ \E e \in Errnos : r = Carried("ptr", e + PtrValues)
           \/ \E p \in Objects : r = Carried("Ok", p)
           \/ \E e \in Errnos : r = Carried("Err", e)
    PROVE  ConvInv'
<1>1. result' = r /\ meant' = m /\ ioc' = ioc
  BY DEF Produce
<1>2. ResultShape'
  BY <1>1 DEF ResultShape
<1> QED
  BY <1>1, <1>2, ResultInv

\* A conversion that keeps the meaning keeps the invariant.
LEMMA ConvertInv ==
    ASSUME ConvInv, NEW r, result' = r, meant' = meant, ioc' = ioc, Meaning(r) = Meaning(result),
           \/ \E v \in Ints : r = Carried("int", v)
           \/ \E p \in Objects : r = Carried("ptr", p)
           \/ \E e \in Errnos : r = Carried("ptr", e + PtrValues)
           \/ \E p \in Objects : r = Carried("Ok", p)
           \/ \E e \in Errnos : r = Carried("Err", e)
    PROVE  ConvInv'
<1>1. ResultShape'
  BY DEF ResultShape
<1>2. Meaning(result') = meant'
  BY DEF ConvInv, ErrnoPreserved
<1> QED
  BY <1>1, <1>2, ResultInv

\* Error numbers fit a C int, and every Rust error becomes one.
LEMMA ErrnosAre ==
    /\ -EINVAL \in Errnos /\ -ENOMEM \in Errnos
    /\ 0 \in Objects /\ 0 \in Ints
    /\ Errnos \subseteq Ints
    /\ \A k \in DOMAIN ErrorFrom : ErrorFrom[k] \in Errnos
<1> USE Widths
<1>1. -EINVAL \in Errnos /\ -ENOMEM \in Errnos
  BY DEF Errnos
<1>2. MaxErrno <= IntValues \div 2 /\ 0 \in Objects /\ IntValues \div 2 \in Nat /\ 0 < IntValues \div 2
  BY DEF Objects
<1>3. 0 \in Ints /\ Errnos \subseteq Ints
  BY <1>2 DEF Ints, Errnos
<1> QED
  BY <1>1, <1>2, <1>3 DEF ErrorFrom

LEMMA CReturnsInv ==
    ASSUME ConvInv,
           \/ \E v \in Ints : CReturnsInt(v)
           \/ \E p \in Objects : CReturnsPtr(p)
           \/ \E e \in Errnos : CReturnsErrPtr(e)
           \/ \E k \in DOMAIN ErrorFrom : RustErr(k)
           \/ RustOk
    PROVE  ConvInv'
<1>1. ASSUME NEW v \in Ints, CReturnsInt(v) PROVE ConvInv'
  BY <1>1, MeaningOf, ProduceInv DEF CReturnsInt
<1>2. ASSUME NEW p \in Objects, CReturnsPtr(p) PROVE ConvInv'
  BY <1>2, MeaningOf, ProduceInv DEF CReturnsPtr
<1>3. ASSUME NEW e \in Errnos, CReturnsErrPtr(e) PROVE ConvInv'
  <2>1. ERR_PTR(e) = e + PtrValues
    BY SignedErrno DEF ERR_PTR
  <2>2. Produce(Carried("ptr", e + PtrValues), Failed(e))
    BY <1>3, <2>1 DEF CReturnsErrPtr
  <2> QED
    BY <2>2, MeaningOf, ProduceInv
<1>4. ASSUME NEW k \in DOMAIN ErrorFrom, RustErr(k) PROVE ConvInv'
  BY <1>4, ErrnosAre, MeaningOf, ProduceInv DEF RustErr
<1>5. CASE RustOk
  BY <1>5, ErrnosAre, MeaningOf, ProduceInv DEF RustOk
<1> QED
  BY <1>1, <1>2, <1>3, <1>4, <1>5

\* Of a result that is carried in some way, what it is.
LEMMA CarriedAs ==
    ASSUME ResultShape
    PROVE  /\ result.as = "int" => \E v \in Ints : result = Carried("int", v) /\ result.val = v
           /\ result.as = "ptr" =>
                \/ \E p \in Objects : result = Carried("ptr", p) /\ result.val = p
                \/ \E e \in Errnos : result = Carried("ptr", e + PtrValues) /\ result.val = e + PtrValues
           /\ result.as = "Ok" => \E p \in Objects : result = Carried("Ok", p) /\ result.val = p
           /\ result.as = "Err" => \E e \in Errnos : result = Carried("Err", e) /\ result.val = e
BY DEF ResultShape, Carried, Nothing

LEMMA ToResultInv == ASSUME ConvInv, to_result PROVE ConvInv'
<1> USE Widths
<1>1. PICK v \in Ints : result = Carried("int", v) /\ result.val = v
  BY CarriedAs DEF ConvInv, to_result, Convert
<1>2. /\ result' = IF v < 0 THEN Carried("Err", from_errno(v)) ELSE Carried("Ok", 0)
      /\ meant' = meant /\ ioc' = ioc
  BY <1>1 DEF to_result, Convert
<1>3. v \in Int
  BY DEF Ints
<1>4. CASE v < 0
  <2>1. from_errno(v) = IF v \in Errnos THEN v ELSE -EINVAL
    BY <1>3, <1>4 DEF from_errno, Errnos
  <2>2. from_errno(v) \in Errnos
    BY <2>1, ErrnosAre
  <2>3. Meaning(Carried("Err", from_errno(v))) = Meaning(result)
    BY <1>1, <1>3, <1>4, <2>1, MeaningOf
  <2> QED
    BY <1>2, <1>4, <2>2, <2>3, ConvertInv
<1>5. CASE v >= 0
  <2>1. Meaning(Carried("Ok", 0)) = Meaning(result)
    BY <1>1, <1>5, MeaningOf
  <2>2. result' = Carried("Ok", 0)
    BY <1>2, <1>3, <1>5
  <2> QED
    BY <1>2, <2>1, <2>2, ErrnosAre, ConvertInv
<1> QED
  BY <1>3, <1>4, <1>5

\* The error pointers are recognised, and no object is taken for one.
LEMMA IsErr ==
    /\ \A p \in Objects : ~IS_ERR(p)
    /\ \A e \in Errnos : IS_ERR(e + PtrValues)
<1> USE Widths
<1>1. -MaxErrno \in Errnos
  BY DEF Errnos
<1>2. ERR_PTR(-MaxErrno) = -MaxErrno + PtrValues
  BY <1>1, SignedErrno DEF ERR_PTR
<1> QED
  BY <1>2 DEF IS_ERR, Objects, Errnos

LEMMA FromErrPtrInv == ASSUME ConvInv, from_err_ptr PROVE ConvInv'
<1>1. \/ \E p \in Objects : result = Carried("ptr", p) /\ result.val = p
      \/ \E e \in Errnos : result = Carried("ptr", e + PtrValues) /\ result.val = e + PtrValues
  BY CarriedAs DEF ConvInv, from_err_ptr, Convert
<1>2. ASSUME NEW p \in Objects, result = Carried("ptr", p), result.val = p PROVE ConvInv'
  <2>1. result' = Carried("Ok", p) /\ meant' = meant /\ ioc' = ioc
    BY <1>2, IsErr DEF from_err_ptr, Convert
  <2>2. Meaning(Carried("Ok", p)) = Meaning(result)
    BY <1>2, MeaningOf
  <2> QED
    BY <2>1, <2>2, ConvertInv
<1>3. ASSUME NEW e \in Errnos, result = Carried("ptr", e + PtrValues), result.val = e + PtrValues
      PROVE  ConvInv'
  <2>1. Signed(PTR_ERR(result.val), IntValues) = e
    BY <1>3, SignedErrno DEF PTR_ERR
  <2>2. result' = Carried("Err", e) /\ meant' = meant /\ ioc' = ioc
    BY <1>3, <2>1, IsErr DEF from_err_ptr, Convert
  <2>3. Meaning(Carried("Err", e)) = Meaning(result)
    BY <1>3, MeaningOf
  <2> QED
    BY <2>2, <2>3, ConvertInv
<1> QED
  BY <1>1, <1>2, <1>3

LEMMA FromResultInv == ASSUME ConvInv, from_result PROVE ConvInv'
<1>1. CASE Convert("Err", Carried("int", Signed(result.val, ShortValues)))
  <2>1. PICK e \in Errnos : result = Carried("Err", e) /\ result.val = e
    BY <1>1, CarriedAs DEF ConvInv, Convert
  <2>2. result' = Carried("int", e) /\ meant' = meant /\ ioc' = ioc
    BY <1>1, <2>1, SignedErrno DEF Convert
  <2>3. e \in Ints /\ ~(e >= 0)
    BY ErrnosAre, Widths DEF Errnos
  <2>4. Meaning(Carried("int", e)) = Meaning(result)
    BY <2>1, <2>3, MeaningOf
  <2> QED
    BY <2>2, <2>3, <2>4, ConvertInv
<1>2. CASE result.val = 0 /\ Convert("Ok", Carried("int", 0))
  <2>1. PICK p \in Objects : result = Carried("Ok", p) /\ result.val = p
    BY <1>2, CarriedAs DEF ConvInv, Convert
  <2>2. result' = Carried("int", 0) /\ meant' = meant /\ ioc' = ioc
    BY <1>2 DEF Convert
  <2>3. Meaning(Carried("int", 0)) = Meaning(result)
    BY <1>2, <2>1, ErrnosAre, MeaningOf
  <2> QED
    BY <2>2, <2>3, ErrnosAre, ConvertInv
<1> QED
  BY <1>1, <1>2 DEF from_result

LEMMA ToPtrInv == ASSUME ConvInv, to_ptr PROVE ConvInv'
<1>1. PICK e \in Errnos : result = Carried("Err", e) /\ result.val = e
  BY CarriedAs DEF ConvInv, to_ptr, Convert
<1>2. result' = Carried("ptr", e + PtrValues) /\ meant' = meant /\ ioc' = ioc
  BY <1>1, SignedErrno DEF to_ptr, Convert, ERR_PTR
<1>3. Meaning(Carried("ptr", e + PtrValues)) = Meaning(result)
  BY <1>1, MeaningOf
<1> QED
  BY <1>2, <1>3, ConvertInv

LEMMA ConsumedInv == ASSUME ConvInv, Consumed PROVE ConvInv'
<1>1. result' = Nothing /\ meant' = Fine(0) /\ ioc' = ioc
  BY DEF Consumed
<1>2. ResultShape'
  BY <1>1 DEF ResultShape
<1>3. Meaning(result') = meant'
  BY <1>1, MeaningOf
<1> QED
  BY <1>1, <1>2, <1>3, ResultInv

LEMMA ConvStepInv == ASSUME ConvInv, ConvStep PROVE ConvInv'
<1>1. ASSUME NEW d \in 0..3, NEW t \in 0 .. TypeValues - 1, NEW n \in 0 .. NrValues - 1,
             NEW s \in 0 .. SizeValues - 1, DefineIoctl(d, t, n, s)
      PROVE  ConvInv'
  <2>1. /\ ioc' = [of |-> <<d, t, n, s>>, num |-> IOC(d, t, n, s)]
        /\ result' = result /\ meant' = meant
    BY <1>1 DEF DefineIoctl
  <2>2. IocShape'
    BY <2>1 DEF IocShape
  <2> QED
    BY <2>1, <2>2 DEF ConvInv, ResultShape, ErrnoPreserved
<1>2. CASE ForgetIoctl
  BY <1>2 DEF ForgetIoctl, ConvInv, IocShape, ResultShape, ErrnoPreserved
<1> QED
  BY <1>1, <1>2, CReturnsInv, ToResultInv, FromErrPtrInv, FromResultInv, ToPtrInv, ConsumedInv
     DEF ConvStep

LEMMA ConvUnchanged == ASSUME ConvInv, UNCHANGED convVars PROVE ConvInv'
BY DEF ConvInv, convVars, ResultShape, IocShape, ErrnoPreserved

\* A number in a mixed base falls apart in one way.
LEMMA DivMod ==
    ASSUME NEW q \in Nat, NEW u \in Nat, NEW r \in Nat, r < u
    PROVE  (q * u + r) \div u = q /\ (q * u + r) % u = r
OBVIOUS

\* A number with two digits in mixed bases is below the product of the bases.
LEMMA MixedBase ==
    ASSUME NEW q \in Nat, NEW Q \in Nat, q < Q, NEW u \in Nat, NEW r \in Nat, r < u
    PROVE  q * u + r \in Nat /\ q * u + r < Q * u
<1>1. (q + 1) * u <= Q * u
  OBVIOUS
<1>2. q * u + u <= Q * u
  BY <1>1
<1> QED
  BY <1>2

\* The fields of an ioctl number are what it was built from.
LEMMA Decodes ==
    ASSUME NEW d \in 0..3, NEW t \in 0 .. TypeValues - 1, NEW n \in 0 .. NrValues - 1,
           NEW s \in 0 .. SizeValues - 1
    PROVE  LET num == IOC(d, t, n, s)
           IN  /\ num \in 0 .. 4 * SizeValues * TypeValues * NrValues - 1
               /\ IOC_DIR(num) = d /\ IOC_TYPE(num) = t /\ IOC_NR(num) = n /\ IOC_SIZE(num) = s
<1> USE Widths
<1> DEFINE N == NrValues
<1> DEFINE T == TypeValues
<1> DEFINE S == SizeValues
<1> DEFINE num == IOC(d, t, n, s)
<1>1. /\ d \in Nat /\ d < 4 /\ t \in Nat /\ t < T /\ n \in Nat /\ n < N /\ s \in Nat /\ s < S
      /\ N \in Nat /\ T \in Nat /\ S \in Nat
  OBVIOUS
<1>2. T * N \in Nat /\ S * (T * N) \in Nat
  BY <1>1
<1>3. num = d * (S * (T * N)) + t * N + n + s * (T * N)
  BY DEF IOC, DirUnit, SizeUnit, TypeUnit
<1> HIDE DEF N, T, S, num
<1> DEFINE a == t * N + n
<1> DEFINE b == s * (T * N) + a
<1>4. a \in Nat /\ a < T * N
  BY <1>1, MixedBase
<1>5. b \in Nat /\ b < S * (T * N)
  <2> HIDE DEF a
  <2> QED
    BY <1>1, <1>2, <1>4, MixedBase
<1>6. num = d * (S * (T * N)) + b
  <2>1. d * (S * (T * N)) \in Nat /\ t * N \in Nat /\ s * (T * N) \in Nat
    BY <1>1, <1>2
  <2> QED
    BY <1>1, <1>3, <2>1
<1>7. num \in Nat /\ num < 4 * (S * (T * N))
  <2> HIDE DEF b
  <2> QED
    BY <1>1, <1>2, <1>5, <1>6, MixedBase
<1>8. num \div (S * (T * N)) = d
  <2> HIDE DEF b
  <2> QED
    BY <1>1, <1>2, <1>5, <1>6, DivMod
<1>9. num = (d * S + s) * (T * N) + a
  <2>1. d * (S * (T * N)) = (d * S) * (T * N)
    BY <1>1
  <2>2. (d * S + s) * (T * N) = (d * S) * (T * N) + s * (T * N)
    BY <1>1
  <2>3. (d * S) * (T * N) \in Nat /\ s * (T * N) \in Nat
    BY <1>1, <1>2
  <2> HIDE DEF a
  <2> QED
    BY <1>4, <1>6, <2>1, <2>2, <2>3
<1>10. d * S + s \in Nat
  BY <1>1
<1>11. num \div (T * N) = d * S + s
  <2> HIDE DEF a
  <2> QED
    BY <1>2, <1>4, <1>9, <1>10, DivMod
<1>12. num = ((d * S + s) * T + t) * N + n
  <2> DEFINE q == d * S + s
  <2>1. q * (T * N) = (q * T) * N
    BY <1>1, <1>10
  <2>2. (q * T + t) * N = (q * T) * N + t * N
    BY <1>1, <1>10
  <2>3. (q * T) * N \in Nat /\ t * N \in Nat
    BY <1>1, <1>10
  <2> HIDE DEF q
  <2>4. num = q * (T * N) + (t * N + n)
    BY <1>9 DEF q
  <2>5. num = (q * T + t) * N + n
    BY <1>1, <2>1, <2>2, <2>3, <2>4
  <2> QED
    BY <2>5 DEF q
<1>13. (d * S + s) * T + t \in Nat
  BY <1>1, <1>10
<1>14. num \div N = (d * S + s) * T + t /\ num % N = n
  BY <1>1, <1>12, <1>13, DivMod
<1>15. (d * S + s) % S = s
  BY <1>1, DivMod
<1>16. ((d * S + s) * T + t) % T = t
  BY <1>1, <1>10, DivMod
<1>17. d % 4 = d /\ num \div 1 = num
  BY <1>1, <1>7
<1>18. IOC_DIR(num) = d
  BY <1>8, <1>17 DEF IOC_DIR, Field, DirUnit, SizeUnit, TypeUnit, N, T, S
<1>19. IOC_SIZE(num) = s
  BY <1>11, <1>15 DEF IOC_SIZE, Field, SizeUnit, TypeUnit, N, T, S
<1>20. IOC_TYPE(num) = t
  BY <1>14, <1>16 DEF IOC_TYPE, Field, TypeUnit, N, T, S
<1>21. IOC_NR(num) = n
  BY <1>14, <1>17 DEF IOC_NR, Field, N
<1>22. 4 * SizeValues * TypeValues * NrValues = 4 * (S * (T * N))
  BY DEF N, T, S
<1>23. num \in 0 .. 4 * SizeValues * TypeValues * NrValues - 1
  <2>1. 4 * (S * (T * N)) \in Nat
    BY <1>2
  <2> QED
    BY <1>7, <1>22, <2>1
<1> QED
  BY <1>18, <1>19, <1>20, <1>21, <1>23 DEF num

\* What the invariant says of results and ioctl numbers: the checked properties.
LEMMA ConvInvGoals ==
    ASSUME ConvInv
    PROVE  ConvTypeOK /\ ErrnoPreserved /\ IoctlDecodes
<1> USE Widths
<1>1. /\ \A v \in Objects : v \in Addrs
      /\ \A e \in Errnos : e + PtrValues \in Addrs
      /\ 0 \in Addrs
  BY DEF Objects, Addrs, Errnos
<1>2. \/ result = Nothing
      \/ result.as = "int" /\ result.val \in Ints
      \/ result.as = "ptr" /\ result.val \in Addrs
      \/ result.as = "Ok" /\ result.val \in Addrs
      \/ result.as = "Err" /\ result.val \in Errnos
  BY <1>1 DEF ConvInv, ResultShape, Carried
<1>3. meant \in [failed : BOOLEAN, val : Errnos \cup Addrs]
  <2>1. \A e \in Errnos : Failed(e) \in [failed : BOOLEAN, val : Errnos \cup Addrs]
    BY DEF Failed
  <2>2. \A v \in Addrs : Fine(v) \in [failed : BOOLEAN, val : Errnos \cup Addrs]
    BY DEF Fine
  <2>3. meant = Meaning(result)
    BY DEF ConvInv, ErrnoPreserved
  <2>4. CASE result = Nothing
    BY <1>1, <2>2, <2>3, <2>4, MeaningOf
  <2>5. ASSUME NEW v \in Ints, result = Carried("int", v)
        PROVE  meant \in [failed : BOOLEAN, val : Errnos \cup Addrs]
    BY <1>1, <2>1, <2>2, <2>3, <2>5, MeaningOf, ErrnosAre
  <2>6. ASSUME NEW p \in Objects, result \in {Carried("ptr", p), Carried("Ok", p)}
        PROVE  meant \in [failed : BOOLEAN, val : Errnos \cup Addrs]
    BY <1>1, <2>2, <2>3, <2>6, MeaningOf
  <2>7. ASSUME NEW e \in Errnos, result \in {Carried("ptr", e + PtrValues), Carried("Err", e)}
        PROVE  meant \in [failed : BOOLEAN, val : Errnos \cup Addrs]
    BY <2>1, <2>3, <2>7, MeaningOf
  <2> QED
    BY <2>4, <2>5, <2>6, <2>7 DEF ConvInv, ResultShape
<1>4. ioc.num \in 0 .. 4 * SizeValues * TypeValues * NrValues - 1 /\ IoctlDecodes
  <2>1. ASSUME NEW d \in 0..3, NEW t \in 0 .. TypeValues - 1, NEW n \in 0 .. NrValues - 1,
               NEW s \in 0 .. SizeValues - 1,
               ioc.of = <<d, t, n, s>>, ioc.num = IOC(d, t, n, s)
        PROVE  ioc.num \in 0 .. 4 * SizeValues * TypeValues * NrValues - 1 /\ IoctlDecodes
    BY <2>1, Decodes DEF IoctlDecodes
  <2>2. CASE ioc = Undefined
    <3>1. ioc.of = <<0, 0, 0, 0>> /\ ioc.num = 0
      BY <2>2 DEF Undefined
    <3>2. 0 \in 0..3 /\ 0 \in 0 .. TypeValues - 1 /\ 0 \in 0 .. NrValues - 1 /\ 0 \in 0 .. SizeValues - 1
      OBVIOUS
    <3>3. DirUnit \in Nat /\ TypeUnit \in Nat /\ SizeUnit \in Nat
      BY DEF DirUnit, TypeUnit, SizeUnit
    <3>4. IOC(0, 0, 0, 0) = 0
      BY <3>3 DEF IOC
    <3> QED
      BY <2>1, <3>1, <3>2, <3>4
  <2>3. ASSUME NEW d \in 0..3, NEW t \in 0 .. TypeValues - 1, NEW n \in 0 .. NrValues - 1,
               NEW s \in 0 .. SizeValues - 1,
               ioc = [of |-> <<d, t, n, s>>, num |-> IOC(d, t, n, s)]
        PROVE  ioc.num \in 0 .. 4 * SizeValues * TypeValues * NrValues - 1 /\ IoctlDecodes
    <3>1. ioc.of = <<d, t, n, s>> /\ ioc.num = IOC(d, t, n, s)
      BY <2>3
    <3> QED
      BY <2>1, <3>1
  <2> QED
    BY <2>2, <2>3 DEF ConvInv, IocShape
<1> QED
  BY <1>2, <1>3, <1>4 DEF ConvTypeOK, ConvInv

-----------------------------------------------------------------------------
(* The ID pool.                                                            *)

Jobs == [what : {"none", "grow", "shrink"}, num_ids : 0..MaxLen, allocated : BOOLEAN]

PoolShape ==
    /\ map \in [nbits : 0..MaxLen, bits : SUBSET (0 .. MaxLen - 1)]
    /\ job \in [Users -> Jobs] /\ ids \in [Users -> SUBSET (0 .. MaxLen - 1)]
    /\ arrays \in Int

\* Without a pool there are no IDs and no resizing.
NoPoolNoUse ==
    map = NoMap => \A t \in Users : ids[t] = {} /\ job[t] = NoJob

JobSizes ==
    \A t \in Users : IF job[t].what = "none" THEN job[t] = NoJob
                     ELSE job[t].num_ids \in InlineLen..MaxLen

MapSize ==
    map = NoMap \/ (map.nbits \in InlineLen..MaxLen /\ map.bits \subseteq 0 .. map.nbits - 1)

\* The resizers that own an array.
Owners == {t \in Users : job[t].allocated /\ job[t].num_ids > InlineLen}

PoolInv == PoolShape /\ NoPoolNoUse /\ JobSizes /\ MapSize /\ IdsExact /\ ArraysExact

\* The assumption on the sizes of a pool, in the form the proofs use it.
LEMMA LenFacts ==
    /\ InlineLen \in Nat /\ MaxLen \in Nat /\ 1 <= InlineLen /\ InlineLen <= MaxLen
    /\ Capacities \subseteq 0..MaxLen /\ Offsets \subseteq Nat
BY LenAssumption

\* The resizers that own an array can be counted.
LEMMA OwnersFinite ==
    /\ IsFiniteSet(Owners) /\ Cardinality(Owners) \in Nat
    /\ Cardinality(Users) \in Nat /\ Cardinality(Owners) <= Cardinality(Users)
<1>1. Owners \in SUBSET Users
  BY DEF Owners
<1> QED
  BY <1>1, LenAssumption, FS_Subset, FS_CardinalityType

LEMMA PoolInvTyped == ASSUME PoolInv PROVE PoolTypeOK
<1> USE LenFacts
<1>1. ids \in [Users -> SUBSET (0 .. MaxLen - 1)]
  BY DEF PoolInv, PoolShape
<1>2. \A t \in Users :
        \/ job[t] = NoJob
        \/ /\ job[t].what \in {"grow", "shrink"}
           /\ job[t].num_ids \in InlineLen..MaxLen /\ job[t].allocated \in BOOLEAN
  BY DEF PoolInv, PoolShape, JobSizes, Jobs
<1>3. arrays = Array(capacity) + Cardinality(Owners)
  BY DEF PoolInv, ArraysExact, Owners
<1>4. Array(capacity) \in 0..1
  BY DEF Array
<1>5. arrays \in 0 .. Cardinality(Users) + 1
  BY <1>3, <1>4, OwnersFinite
<1> QED
  BY <1>1, <1>2, <1>5 DEF PoolTypeOK, PoolInv, MapSize

LEMMA PoolInvInit == PoolInit => PoolInv
<1> USE LenFacts
<1> SUFFICES ASSUME PoolInit PROVE PoolInv
  OBVIOUS
<1>1. PoolShape
  BY DEF PoolInit, PoolShape, NoMap, Bitmap, NoJob, Jobs
<1>2. NoPoolNoUse /\ JobSizes /\ MapSize
  BY DEF PoolInit, NoPoolNoUse, JobSizes, MapSize, NoJob
<1>3. IdsExact
  BY DEF PoolInit, IdsExact, InUse, NoMap, Bitmap
<1>4. Owners = {}
  BY DEF PoolInit, Owners, NoJob
<1>5. Array(capacity) = 0
  BY DEF PoolInit, NoMap, Bitmap, Array, capacity
<1>6. ArraysExact
  BY <1>4, <1>5, FS_EmptySet DEF PoolInit, ArraysExact, Owners
<1> QED
  BY <1>1, <1>2, <1>3, <1>6 DEF PoolInv

LEMMA NewPoolInv == ASSUME PoolInv, NEW n \in Capacities, NewPool(n) PROVE PoolInv'
<1> USE LenFacts
<1> DEFINE k == Max({n, InlineLen})
<1>1. n \in Nat /\ n <= MaxLen
  OBVIOUS
<1>2. k \in InlineLen..MaxLen
  BY <1>1, MaxOfTwo
<1> HIDE DEF k
<1>3. /\ map = NoMap /\ map' = Bitmap(k, {}) /\ arrays' = arrays + Array(k)
      /\ ids' = ids /\ job' = job
  BY DEF NewPool, k
<1>4. Array(capacity) = 0
  BY <1>3 DEF NoMap, Bitmap, Array, capacity
<1>5. map'.nbits = k /\ map'.bits = {} /\ map.bits = {}
  BY <1>3 DEF Bitmap, NoMap
<1>6. PoolShape'
  BY <1>2, <1>3 DEF PoolInv, PoolShape, Bitmap, Array
<1>7. map' # NoMap
  BY <1>5, <1>2 DEF NoMap, Bitmap
<1>8. NoPoolNoUse' /\ JobSizes' /\ MapSize'
  BY <1>2, <1>3, <1>5, <1>7 DEF PoolInv, NoPoolNoUse, JobSizes, MapSize
<1>9. IdsExact'
  BY <1>3, <1>5 DEF PoolInv, IdsExact, InUse
<1>10. ArraysExact'
  <2>1. Owners' = Owners
    BY <1>3 DEF Owners
  <2>2. arrays = 0 + Cardinality(Owners)
    BY <1>4 DEF PoolInv, ArraysExact, Owners
  <2>3. arrays' = Array(k) + Cardinality(Owners)
    BY <2>2, <1>3, OwnersFinite DEF Array
  <2> QED
    BY <2>1, <2>3, <1>5 DEF ArraysExact, Owners, capacity, Array
<1> QED
  BY <1>6, <1>8, <1>9, <1>10 DEF PoolInv

LEMMA DropPoolInv == ASSUME PoolInv, DropPool PROVE PoolInv'
<1> USE LenFacts
<1>1. /\ map' = NoMap /\ arrays' = arrays - Array(capacity)
      /\ ids' = [t \in Users |-> {}] /\ job' = job
      /\ \A t \in Users : job[t] = NoJob
  BY DEF DropPool
<1>2. PoolShape'
  BY <1>1 DEF PoolInv, PoolShape, NoMap, Bitmap, Array
<1>3. NoPoolNoUse' /\ JobSizes' /\ MapSize'
  BY <1>1 DEF NoPoolNoUse, JobSizes, MapSize, NoJob
<1>4. IdsExact'
  BY <1>1 DEF IdsExact, InUse, NoMap, Bitmap
<1>5. Owners = {} /\ Owners' = {}
  BY <1>1 DEF Owners, NoJob
<1>6. arrays = Array(capacity) + 0
  BY <1>5, FS_EmptySet DEF PoolInv, ArraysExact, Owners
<1>7. arrays' = 0
  BY <1>1, <1>6 DEF Array
<1>8. ArraysExact'
  <2>1. Array(capacity') = 0
    BY <1>1 DEF capacity, NoMap, Bitmap, Array
  <2>2. Cardinality(Owners') = 0
    BY <1>5, FS_EmptySet
  <2> QED
    BY <1>7, <2>1, <2>2 DEF ArraysExact, Owners, Array
<1> QED
  BY <1>2, <1>3, <1>4, <1>8 DEF PoolInv

\* Whoever changes neither the jobs, nor the size, nor the arrays keeps them exact.
LEMMA ArraysKept ==
    ASSUME PoolInv, job' = job, arrays' = arrays, map'.nbits = map.nbits
    PROVE  ArraysExact' /\ JobSizes' /\ arrays' \in Int
<1>1. Owners' = Owners
  BY DEF Owners
<1> QED
  BY <1>1 DEF PoolInv, PoolShape, JobSizes, ArraysExact, Owners, capacity, Array

LEMMA AcquireInv ==
    ASSUME PoolInv, NEW t \in Users, NEW offset \in Offsets, Acquire(t, offset)
    PROVE  PoolInv'
<1> USE LenFacts
<1> DEFINE id == Min(NextZeroBits(map, offset))
<1>1. /\ map # NoMap /\ NextZeroBits(map, offset) # {}
      /\ map' = set_bit(map, id) /\ ids' = [ids EXCEPT ![t] = @ \cup {id}]
      /\ job' = job /\ arrays' = arrays
  BY DEF Acquire
<1>2. map.nbits \in InlineLen..MaxLen /\ map.bits \subseteq 0 .. map.nbits - 1
  BY <1>1 DEF PoolInv, MapSize
<1>3. NextZeroBits(map, offset) \in SUBSET Nat
  BY <1>2 DEF NextZeroBits
<1>4. id \in NextZeroBits(map, offset)
  BY <1>1, <1>3, MinIs
<1> HIDE DEF id
<1>5. id \in 0 .. map.nbits - 1 /\ id \notin map.bits /\ id < map.nbits
  BY <1>2, <1>4 DEF NextZeroBits
<1>6. map' = [map EXCEPT !.bits = @ \cup {id}]
  BY <1>1, <1>5 DEF set_bit
<1>7. map'.nbits = map.nbits /\ map'.bits = map.bits \cup {id}
  BY <1>6 DEF PoolInv, PoolShape
<1>8. PoolShape'
  BY <1>1, <1>2, <1>5, <1>6, ArraysKept DEF PoolInv, PoolShape
<1>9. map' # NoMap
  BY <1>7 DEF NoMap, Bitmap
<1>10. NoPoolNoUse' /\ MapSize'
  BY <1>9, <1>7, <1>2, <1>5 DEF NoPoolNoUse, MapSize
<1>11. \A u \in Users : ids'[u] = IF u = t THEN ids[t] \cup {id} ELSE ids[u]
  BY <1>1 DEF PoolInv, PoolShape
<1>12. \A u \in Users : id \notin ids[u]
  BY <1>5 DEF PoolInv, IdsExact, InUse
<1>13. IdsExact'
  <2>1. \A v, u \in Users : v # u => ids'[v] \cap ids'[u] = {}
    BY <1>11, <1>12 DEF PoolInv, IdsExact
  <2>2. InUse' = InUse \cup {id}
    BY <1>11 DEF InUse
  <2> QED
    BY <2>1, <2>2, <1>7 DEF PoolInv, IdsExact
<1> QED
  BY <1>1, <1>7, <1>8, <1>10, <1>13, ArraysKept DEF PoolInv

LEMMA ReleaseIdInv ==
    ASSUME PoolInv, NEW t \in Users, NEW id \in ids[t], ReleaseId(t, id)
    PROVE  PoolInv'
<1> USE LenFacts
<1>1. /\ map' = clear_bit(map, id) /\ ids' = [ids EXCEPT ![t] = @ \ {id}]
      /\ job' = job /\ arrays' = arrays
  BY DEF ReleaseId
<1>2. map # NoMap
  BY DEF PoolInv, NoPoolNoUse
<1>3. map.nbits \in InlineLen..MaxLen /\ map.bits \subseteq 0 .. map.nbits - 1
  BY <1>2 DEF PoolInv, MapSize
<1>4. id \in map.bits
  BY DEF PoolInv, IdsExact, InUse
<1>5. id < map.nbits
  BY <1>3, <1>4
<1>6. map' = [map EXCEPT !.bits = @ \ {id}]
  BY <1>1, <1>5 DEF clear_bit
<1>7. map'.nbits = map.nbits /\ map'.bits = map.bits \ {id}
  BY <1>6 DEF PoolInv, PoolShape
<1>8. PoolShape'
  BY <1>1, <1>3, <1>6, ArraysKept DEF PoolInv, PoolShape
<1>9. map' # NoMap
  BY <1>3, <1>7 DEF NoMap, Bitmap
<1>10. NoPoolNoUse' /\ MapSize'
  BY <1>9, <1>7, <1>3 DEF NoPoolNoUse, MapSize
<1>11. \A u \in Users : ids'[u] = IF u = t THEN ids[t] \ {id} ELSE ids[u]
  BY <1>1 DEF PoolInv, PoolShape
<1>12. \A u \in Users : u # t => id \notin ids[u]
  BY DEF PoolInv, IdsExact
<1>13. IdsExact'
  <2>1. \A v, u \in Users : v # u => ids'[v] \cap ids'[u] = {}
    BY <1>11 DEF PoolInv, IdsExact
  <2>2. InUse' = InUse \ {id}
    BY <1>11, <1>12 DEF InUse
  <2> QED
    BY <2>1, <2>2, <1>7 DEF PoolInv, IdsExact
<1> QED
  BY <1>1, <1>7, <1>8, <1>10, <1>13, ArraysKept DEF PoolInv

\* A step that only changes the job of one thread and the number of arrays.
LEMMA JobChanged ==
    ASSUME PoolInv, NEW t \in Users, NEW j \in Jobs,
           IF j.what = "none" THEN j = NoJob ELSE j.num_ids \in InlineLen..MaxLen,
           map # NoMap, map' = map, ids' = ids, job' = [job EXCEPT ![t] = j],
           arrays' \in Int, ArraysExact'
    PROVE  PoolInv'
<1>1. PoolShape'
  BY DEF PoolInv, PoolShape
<1>2. NoPoolNoUse' /\ MapSize'
  BY DEF PoolInv, NoPoolNoUse, MapSize
<1>3. JobSizes'
  BY DEF PoolInv, PoolShape, JobSizes
<1>4. IdsExact'
  BY DEF PoolInv, IdsExact, InUse
<1> QED
  BY <1>1, <1>2, <1>3, <1>4 DEF PoolInv

\* The resizers that own an array, when one thread's job changes.
LEMMA OwnersChanged ==
    ASSUME PoolInv, NEW t \in Users, NEW j, job' = [job EXCEPT ![t] = j]
    PROVE  Owners' = IF j.allocated /\ j.num_ids > InlineLen
                     THEN Owners \cup {t} ELSE Owners \ {t}
BY DEF PoolInv, PoolShape, Owners

LEMMA RequestInv ==
    ASSUME PoolInv, NEW t \in Users, NEW what \in {"grow", "shrink"},
           NEW n \in InlineLen..MaxLen, Request(t, what, n)
    PROVE  PoolInv'
<1> USE LenFacts
<1> DEFINE j == [what |-> what, num_ids |-> n, allocated |-> FALSE]
<1>1. /\ map # NoMap /\ job[t] = NoJob /\ job' = [job EXCEPT ![t] = j]
      /\ map' = map /\ ids' = ids /\ arrays' = arrays
  BY DEF Request
<1>2. j \in Jobs /\ j.what = what /\ j.num_ids = n /\ j.allocated = FALSE
  BY DEF Jobs
<1> HIDE DEF j
<1>3. t \notin Owners
  BY <1>1 DEF Owners, NoJob
<1>4. Owners' = Owners
  BY <1>1, <1>2, <1>3, OwnersChanged
<1>5. ArraysExact' /\ arrays' \in Int
  BY <1>1, <1>4 DEF PoolInv, PoolShape, ArraysExact, Owners, capacity, Array
<1> QED
  BY <1>1, <1>2, <1>5, JobChanged

\* What shrink_request answers is a size, and the bits in use are below it.
LEMMA ShrinkFits ==
    ASSUME PoolInv, map # NoMap, NEW n \in shrink_request
    PROVE  n \in InlineLen..MaxLen /\ \A b \in map.bits : b < n
<1> USE LenFacts
<1>1. capacity \in InlineLen..MaxLen /\ map.bits \subseteq 0 .. capacity - 1
  BY DEF PoolInv, MapSize, capacity
<1>2. capacity > InlineLen
  BY <1>1 DEF shrink_request
<1>3. CASE map.bits = {}
  BY <1>2, <1>3 DEF shrink_request
<1>4. CASE map.bits # {}
  <2>1. ~(LastBit(map) >= capacity \div 4) /\ n = Max({InlineLen, capacity \div 2})
    BY <1>1, <1>2, <1>4 DEF shrink_request
  <2>2. \A y \in map.bits : y <= capacity
    BY <1>1
  <2>3. LastBit(map) \in map.bits /\ \A y \in map.bits : y <= LastBit(map)
    <3>1. map.bits \in SUBSET Nat /\ capacity \in Nat
      BY <1>1
    <3> QED
      BY <3>1, <1>4, <2>2, MaxIs DEF LastBit
  <2>4. capacity \div 2 \in Nat /\ capacity \div 4 \in Nat
        /\ capacity \div 4 <= capacity \div 2 /\ capacity \div 2 <= MaxLen
    BY <1>1
  <2>5. n = IF InlineLen >= capacity \div 2 THEN InlineLen ELSE capacity \div 2
    BY <2>1, <2>4, MaxOfTwo
  <2>6. n \in InlineLen..MaxLen /\ capacity \div 4 <= n
    BY <2>4, <2>5
  <2>7. \A y \in map.bits : y \in Nat /\ y < capacity \div 4
    BY <1>1, <2>1, <2>3, <2>4
  <2> QED
    BY <2>4, <2>6, <2>7
<1> QED
  BY <1>3, <1>4

LEMMA ReallocInv == ASSUME PoolInv, NEW t \in Users, Realloc(t) PROVE PoolInv'
<1> USE LenFacts
<1>1. /\ job[t] # NoJob /\ ~job[t].allocated /\ map' = map /\ ids' = ids
      /\ job[t] \in Jobs
  BY DEF Realloc, PoolInv, PoolShape
<1>2. map # NoMap
  BY <1>1 DEF PoolInv, NoPoolNoUse
<1>3. t \notin Owners
  BY <1>1 DEF Owners
<1>4. job[t].num_ids \in InlineLen..MaxLen /\ job[t].what # "none"
  BY <1>1 DEF PoolInv, JobSizes
<1>5. arrays = Array(capacity) + Cardinality(Owners)
  BY DEF PoolInv, ArraysExact, Owners
<1>6. Array(capacity) \in Nat /\ Array(capacity)' = Array(capacity)
  BY <1>1 DEF Array, capacity
<1>7. CASE job' = [job EXCEPT ![t].allocated = TRUE] /\ arrays' = arrays + Array(job[t].num_ids)
  <2> DEFINE j == [job[t] EXCEPT !.allocated = TRUE]
  <2>1. job' = [job EXCEPT ![t] = j]
    BY <1>7
  <2>2. j \in Jobs /\ j.what = job[t].what /\ j.num_ids = job[t].num_ids /\ j.allocated = TRUE
    BY <1>1 DEF Jobs
  <2> HIDE DEF j
  <2>3. Owners' = IF job[t].num_ids > InlineLen THEN Owners \cup {t} ELSE Owners
    BY <1>3, <2>1, <2>2, OwnersChanged
  <2>4. Cardinality(Owners') = Cardinality(Owners) + Array(job[t].num_ids)
    <3>1. Cardinality(Owners \cup {t}) = Cardinality(Owners) + 1
      BY <1>3, OwnersFinite, FS_AddElement
    <3> QED
      BY <1>4, <2>3, <3>1, OwnersFinite DEF Array
  <2>5. arrays' = Array(capacity) + Cardinality(Owners') /\ arrays' \in Int
    BY <1>5, <1>6, <1>7, <2>4, OwnersFinite DEF Array
  <2>6. ArraysExact'
    BY <1>6, <2>5 DEF ArraysExact, Owners
  <2> QED
    BY <1>1, <1>2, <1>4, <2>1, <2>2, <2>5, <2>6, JobChanged
<1>8. CASE job' = [job EXCEPT ![t] = NoJob] /\ arrays' = arrays
  <2>1. NoJob \in Jobs /\ NoJob.what = "none" /\ NoJob.allocated = FALSE
    BY DEF NoJob, Jobs
  <2>2. Owners' = Owners
    BY <1>3, <1>8, <2>1, OwnersChanged
  <2>3. ArraysExact' /\ arrays' \in Int
    BY <1>5, <1>6, <1>8, <2>2 DEF ArraysExact, Owners, PoolInv, PoolShape
  <2> QED
    BY <1>1, <1>2, <1>8, <2>1, <2>3, JobChanged
<1> QED
  BY <1>7, <1>8 DEF Realloc

\* A resizer moves the pool, if every bit in use fits, or is dropped.
LEMMA MoveIfInv ==
    ASSUME PoolInv, NEW t \in Users, job[t].allocated, job[t].what # "none",
           NEW possible \in BOOLEAN, MoveIf(t, possible),
           possible => \A b \in map.bits : b < job[t].num_ids
    PROVE  PoolInv'
<1> USE LenFacts
<1>1. /\ job' = [job EXCEPT ![t] = NoJob] /\ ids' = ids
      /\ arrays' = arrays - Array(IF possible THEN capacity ELSE job[t].num_ids)
  BY DEF MoveIf
<1>2. job[t] \in Jobs /\ job[t].num_ids \in InlineLen..MaxLen
  BY DEF PoolInv, PoolShape, JobSizes
<1>3. map # NoMap
  BY DEF PoolInv, NoPoolNoUse, NoJob
<1>4. capacity \in InlineLen..MaxLen /\ map.bits \subseteq 0 .. capacity - 1
  BY <1>3 DEF PoolInv, MapSize, capacity
<1>5. NoJob \in Jobs /\ NoJob.what = "none" /\ NoJob.allocated = FALSE
  BY DEF NoJob, Jobs
<1>6. Owners' = Owners \ {t}
  BY <1>1, <1>5, OwnersChanged
<1>7. t \in Owners <=> job[t].num_ids > InlineLen
  BY DEF Owners
<1>8. Cardinality(Owners') = Cardinality(Owners) - Array(job[t].num_ids)
  <2>1. Cardinality(Owners \ {t}) = IF t \in Owners THEN Cardinality(Owners) - 1
                                    ELSE Cardinality(Owners)
    BY OwnersFinite, FS_RemoveElement
  <2> QED
    BY <1>2, <1>6, <1>7, <2>1, OwnersFinite DEF Array
<1>9. arrays = Array(capacity) + Cardinality(Owners)
  BY DEF PoolInv, ArraysExact, Owners
<1>10. CASE ~possible
  <2>1. map' = map
    BY <1>10 DEF MoveIf
  <2>2. arrays' = Array(capacity) + Cardinality(Owners') /\ arrays' \in Int
    BY <1>1, <1>8, <1>9, <1>10, OwnersFinite DEF Array
  <2>3. ArraysExact'
    BY <2>1, <2>2 DEF ArraysExact, Owners, capacity, Array
  <2> QED
    BY <1>1, <1>3, <1>5, <2>1, <2>2, <2>3, JobChanged
<1>11. CASE possible
  <2> DEFINE n == job[t].num_ids
  <2>1. map' = copy_and_extend(Resizer(t), map)
    BY <1>11 DEF MoveIf
  <2>2. Resizer(t).nbits = n
    BY DEF Resizer, Bitmap
  <2>3. Min({map.nbits, n}) = IF map.nbits <= n THEN map.nbits ELSE n
    BY <1>2, <1>4, MinOfTwo DEF capacity
  <2>4. map.bits \cap (0 .. Min({map.nbits, n}) - 1) = map.bits
    BY <1>2, <1>4, <1>11, <2>3 DEF capacity
  <2>5. map' = Bitmap(n, map.bits)
    BY <2>1, <2>2, <2>4 DEF copy_and_extend
  <2>6. map'.nbits = n /\ map'.bits = map.bits
    BY <2>5 DEF Bitmap
  <2>7. arrays' = Array(n) + Cardinality(Owners') /\ arrays' \in Int
    BY <1>1, <1>8, <1>9, <1>11, OwnersFinite DEF Array
  <2>8. ArraysExact'
    BY <2>6, <2>7 DEF ArraysExact, Owners, capacity, Array
  <2>9. PoolShape'
    BY <1>1, <1>2, <1>5, <2>5, <2>7 DEF PoolInv, PoolShape, Bitmap
  <2>10. JobSizes'
    BY <1>1, <1>5 DEF PoolInv, PoolShape, JobSizes
  <2>11. map' # NoMap
    BY <1>2, <2>6 DEF NoMap, Bitmap
  <2>12. MapSize' /\ NoPoolNoUse'
    BY <1>2, <1>4, <1>11, <2>6, <2>11 DEF MapSize, NoPoolNoUse
  <2>13. IdsExact'
    BY <1>1, <2>6 DEF PoolInv, IdsExact, InUse
  <2> QED
    BY <2>8, <2>9, <2>10, <2>12, <2>13 DEF PoolInv
<1> QED
  BY <1>10, <1>11

LEMMA GrowInv == ASSUME PoolInv, NEW t \in Users, Grow(t) PROVE PoolInv'
<1> USE LenFacts
<1> DEFINE possible == job[t].num_ids > capacity
<1>1. job[t].what = "grow" /\ job[t].allocated /\ MoveIf(t, possible)
  BY DEF Grow
<1>2. map # NoMap
  BY <1>1 DEF PoolInv, NoPoolNoUse, NoJob
<1>3. capacity \in Nat /\ map.bits \subseteq 0 .. capacity - 1
  BY <1>2 DEF PoolInv, MapSize, capacity
<1>4. job[t].num_ids \in Nat
  BY DEF PoolInv, PoolShape, Jobs
<1>5. possible => \A b \in map.bits : b < job[t].num_ids
  BY <1>3, <1>4
<1> HIDE DEF possible
<1>6. possible \in BOOLEAN
  BY DEF possible
<1> QED
  BY <1>1, <1>5, <1>6, MoveIfInv

LEMMA ShrinkInv == ASSUME PoolInv, NEW t \in Users, Shrink(t) PROVE PoolInv'
<1> USE LenFacts
<1> DEFINE possible == \E n \in shrink_request : n <= job[t].num_ids
<1>1. job[t].what = "shrink" /\ job[t].allocated /\ MoveIf(t, possible)
  BY DEF Shrink
<1>2. map # NoMap
  BY <1>1 DEF PoolInv, NoPoolNoUse, NoJob
<1>3. job[t].num_ids \in Nat
  BY DEF PoolInv, PoolShape, Jobs
<1>4. map.bits \subseteq Nat
  BY DEF PoolInv, PoolShape
<1>5. possible => \A b \in map.bits : b < job[t].num_ids
  BY <1>2, <1>3, <1>4, ShrinkFits
<1> HIDE DEF possible
<1>6. possible \in BOOLEAN
  BY DEF possible
<1> QED
  BY <1>1, <1>5, <1>6, MoveIfInv

LEMMA PoolStepInv == ASSUME PoolInv, PoolStep PROVE PoolInv'
<1> USE LenFacts
<1>1. ASSUME NEW t \in Users, GrowRequest(t) PROVE PoolInv'
  <2>1. map # NoMap /\ Request(t, "grow", capacity * 2) /\ capacity * 2 <= MaxLen
    BY <1>1 DEF GrowRequest, Request
  <2>2. capacity \in InlineLen..MaxLen
    BY <2>1 DEF PoolInv, MapSize, capacity
  <2>3. capacity * 2 \in InlineLen..MaxLen
    BY <2>1, <2>2
  <2> QED
    BY <2>1, <2>3, RequestInv
<1>2. ASSUME NEW t \in Users, ShrinkRequest(t) PROVE PoolInv'
  <2>1. PICK n \in shrink_request : Request(t, "shrink", n)
    BY <1>2 DEF ShrinkRequest
  <2>2. map # NoMap
    BY <2>1 DEF Request
  <2> QED
    BY <2>1, <2>2, ShrinkFits, RequestInv
<1> QED
  BY <1>1, <1>2, NewPoolInv, DropPoolInv, AcquireInv, ReleaseIdInv, ReallocInv, GrowInv, ShrinkInv
     DEF PoolStep

LEMMA PoolUnchanged == ASSUME PoolInv, UNCHANGED poolVars PROVE PoolInv'
<1>1. map' = map /\ ids' = ids /\ job' = job /\ arrays' = arrays
  BY DEF poolVars
<1>2. PoolShape' /\ NoPoolNoUse' /\ JobSizes' /\ MapSize'
  BY <1>1 DEF PoolInv, PoolShape, NoPoolNoUse, JobSizes, MapSize
<1>3. IdsExact'
  BY <1>1 DEF PoolInv, IdsExact, InUse
<1> QED
  BY <1>1, <1>2, <1>3, ArraysKept DEF PoolInv

-----------------------------------------------------------------------------
(* The four together.                                                      *)

BufInv == StrInv /\ UserInv /\ ConvInv /\ PoolInv

LEMMA SyscallReturnsInv == ASSUME UserInv, SyscallReturns PROVE UserInv'
<1>1. UserInit'
  BY DEF SyscallReturns, UserInit
<1> QED
  BY <1>1, UserInvInit, PTL

LEMMA BufInvInit == Init => BufInv
BY StrInvInit, UserInvInit, ConvInvInit, PoolInvInit DEF Init, BufInv

LEMMA BufInvNext == BufInv /\ [Next]_vars => BufInv'
<1> SUFFICES ASSUME BufInv, [Next]_vars PROVE BufInv'
  OBVIOUS
<1> USE DEF BufInv
<1>1. CASE StrStep /\ UNCHANGED <<userVars, convVars, poolVars>>
  BY <1>1, StrStepInv, UserUnchanged, ConvUnchanged, PoolUnchanged
<1>2. CASE (UserStep \/ SyscallReturns) /\ UNCHANGED <<strVars, convVars, poolVars>>
  BY <1>2, UserStepInv, SyscallReturnsInv, StrUnchanged, ConvUnchanged, PoolUnchanged
<1>3. CASE ConvStep /\ UNCHANGED <<strVars, userVars, poolVars>>
  BY <1>3, ConvStepInv, StrUnchanged, UserUnchanged, PoolUnchanged
<1>4. CASE PoolStep /\ UNCHANGED <<strVars, userVars, convVars>>
  BY <1>4, PoolStepInv, StrUnchanged, UserUnchanged, ConvUnchanged
<1>5. CASE UNCHANGED vars
  BY <1>5, StrUnchanged, UserUnchanged, ConvUnchanged, PoolUnchanged DEF vars
<1> QED
  BY <1>1, <1>2, <1>3, <1>4, <1>5 DEF Next

\* The inductive invariant of the four parts (str.rs, uaccess.rs and page.rs, error.rs
\* and ioctl.rs, bitmap.rs and id_pool.rs).
THEOREM BufInvAlways == Spec => []BufInv
BY BufInvInit, BufInvNext, PTL DEF Spec

\* However long a text is and even if it prints longer than it measured, whatever
\* pointer and length a process passes in and whatever it unmaps meanwhile, and for
\* every offset into a page: no access leaves its buffer, slice or page.
THEOREM AccessStaysInside == Spec => []AccessInside
<1>1. BufInv => AccessInside
  BY StrInvTyped, UserInvGoals, ConvInvGoals, PoolInvTyped
     DEF BufInv, AccessInside, TypeOK, StrInv
<1> QED
  BY <1>1, BufInvAlways, PTL

\* No byte of a slice is handed out twice, none that was never written, and every
\* CString ends in its only NUL, for every text, slice and fault.
THEOREM BytesAreExact == Spec => []BytesExact
<1>1. BufInv => BytesExact
  BY UserInvGoals DEF BufInv, BytesExact, StrInv
<1> QED
  BY <1>1, BufInvAlways, PTL

\* In every width of the integers, an error survives its conversions and an ioctl
\* number decodes into what it was built from.
THEOREM ConversionsAreExact == Spec => []ConversionsExact
<1>1. BufInv => ConversionsExact
  BY ConvInvGoals DEF BufInv, ConversionsExact
<1> QED
  BY <1>1, BufInvAlways, PTL

\* For every number of threads and every size: the bits that are set are the IDs
\* in use, each of one thread, and every array has one owner.
THEOREM PoolIsExact == Spec => []PoolExact
<1>1. BufInv => PoolExact
  BY DEF BufInv, PoolExact, PoolInv
<1> QED
  BY <1>1, BufInvAlways, PTL
====
