----------------------------- MODULE KVec_proofs -----------------------------
(***************************************************************************)
(* Proofs of the invariants of KVec.tla, and of its refinement of          *)
(* KVecSpec.tla, for any number of values, any size of T and any width of  *)
(* usize.                                                                  *)
(***************************************************************************)
EXTENDS KVec, SequenceTheorems, TLAPS

\* What the program is at tells which of the two ranges of Owned is used.
StateInv ==
    /\ pc \in {"none", "vec", "raw", "retain"} => ptr = 0 /\ left = 0
    /\ pc \in {"drain", "iter"} => len = 0 /\ ptr + left <= Capacity
    /\ pc = "none" => len = 0 /\ layout = 0
    /\ pc = "retain" => kept <= check /\ check <= len
    /\ size = 0 => layout = 0

\* The slots with a value are the owned ones.
Full == \A i \in Slots : mem[i] # None <=> i \in Owned

\* No value is in two slots.
Injective == \A i, j \in Slots : mem[i] # None /\ mem[i] = mem[j] => i = j

\* The values moved into the Vec are those in its slots.
Exactly == \A e \in Elems : own[e] = "vec" <=> \E i \in Slots : mem[i] = e

IInv ==
    /\ TypeOK
    /\ StateInv
    /\ Full /\ Injective /\ Exactly
    /\ alloc = layout
    /\ CapacityFits

-----------------------------------------------------------------------------
LEMMA Width == UsizeMax \in Nat /\ IsizeMax \in Nat /\ Slots = 1..UsizeMax /\ UsizeMax = 2 * IsizeMax + 1
BY WidthAssumption DEF Slots

\* A product of positive numbers is at least each of them.
LEMMA Product ==
    ASSUME NEW a \in Nat, NEW b \in Nat, a > 0, b > 0
    PROVE  a * b > 0 /\ a * b >= a
OBVIOUS

\* The owned slots are slots of the buffer.
LEMMA OwnedSlots ==
    ASSUME IInv
    PROVE  /\ Capacity \in Nat /\ Capacity <= UsizeMax
           /\ Owned \subseteq 1..Capacity
           /\ Owned \subseteq Slots
           /\ \A i \in Owned : mem[i] \in Elems /\ own[mem[i]] = "vec"
<1>1. Capacity \in Nat /\ Capacity <= UsizeMax
  BY Width DEF IInv, TypeOK, Capacity, CapacityFits
<1>2. Owned \subseteq 1..Capacity
  BY <1>1 DEF IInv, TypeOK, StateInv, CapacityFits, Owned
<1>3. Owned \subseteq Slots
  BY <1>1, <1>2, Width
<1>4. \A i \in Owned : mem[i] \in Elems
  BY <1>3 DEF IInv, TypeOK, Full
<1>5. \A i \in Owned : own[mem[i]] = "vec"
  BY <1>3, <1>4 DEF IInv, Exactly
<1> QED
  BY <1>1, <1>2, <1>3, <1>4, <1>5

-----------------------------------------------------------------------------
\* Values are moved out of slots or dropped, and others that are not in the
\* buffer with them.
LEMMA Vacated ==
    ASSUME IInv, NEW a \in Nat, NEW b \in Nat, (a + 1)..b \subseteq Owned,
           NEW X, \A e \in X : own[e] # "vec",
           NEW o \in {"none", "caller", "leaked"},
           mem' = Vacate(a, b), Give(In(a, b) \cup X, o),
           Owned' = Owned \ ((a + 1)..b)
    PROVE  /\ Full' /\ Injective' /\ Exactly'
           /\ mem' \in [Slots -> Elems \cup {None}]
           /\ own' \in [Elems -> {"none", "caller", "vec", "leaked"}]
<1>1. mem' = [i \in Slots |-> IF i \in (a + 1)..b THEN None ELSE mem[i]]
  BY DEF Vacate
<1>2. own' = [e \in Elems |-> IF e \in In(a, b) \cup X THEN o ELSE own[e]]
  BY DEF Give
<1>3. mem' \in [Slots -> Elems \cup {None}] /\ own' \in [Elems -> {"none", "caller", "vec", "leaked"}]
  BY <1>1, <1>2 DEF IInv, TypeOK
<1>4. Full'
  BY <1>1 DEF IInv, Full, Slots
<1>5. Injective'
  BY <1>1 DEF IInv, Injective, Slots
<1>6. Exactly'
  <2> SUFFICES ASSUME NEW e \in Elems
               PROVE  own'[e] = "vec" <=> \E i \in Slots : mem'[i] = e
    BY DEF Exactly, Slots
  <2>1. e # None
    BY NoneAssumption
  <2>2. CASE e \in In(a, b)
    <3>1. PICK j \in (a + 1)..b : e = mem[j]
      BY <2>2 DEF In
    <3>2. j \in Slots
      BY OwnedSlots
    <3>3. \A i \in Slots : mem'[i] # e
      BY <1>1, <2>1, <3>1, <3>2 DEF IInv, Injective
    <3> QED
      BY <1>2, <2>2, <3>3
  <2>3. CASE e \in X /\ e \notin In(a, b)
    <3>1. own'[e] # "vec" /\ own[e] # "vec"
      BY <1>2, <2>3
    <3>2. \A i \in Slots : mem[i] # e
      BY <3>1 DEF IInv, Exactly
    <3> QED
      BY <1>1, <2>1, <3>1, <3>2
  <2>4. CASE e \notin In(a, b) /\ e \notin X
    <3>1. own'[e] = own[e]
      BY <1>2, <2>4
    <3>2. \A i \in Slots : mem[i] = e => i \notin (a + 1)..b
      BY <2>4 DEF In
    <3> QED
      BY <1>1, <2>1, <3>1, <3>2 DEF IInv, Exactly
  <2> QED
    BY <2>2, <2>3, <2>4
<1> QED
  BY <1>3, <1>4, <1>5, <1>6

\* New values are written to empty slots.
LEMMA Written ==
    ASSUME IInv, NEW a \in Nat, NEW s \in Seq(Elems),
           \A i, j \in DOMAIN s : s[i] = s[j] => i = j,
           \A i \in DOMAIN s : own[s[i]] # "vec",
           a + Len(s) <= UsizeMax,
           \A i \in (a + 1)..(a + Len(s)) : i \notin Owned,
           mem' = Write(s, a), Give({s[i] : i \in DOMAIN s}, "vec"),
           Owned' = Owned \cup ((a + 1)..(a + Len(s)))
    PROVE  /\ Full' /\ Injective' /\ Exactly'
           /\ mem' \in [Slots -> Elems \cup {None}]
           /\ own' \in [Elems -> {"none", "caller", "vec", "leaked"}]
<1> DEFINE n == Len(s)
<1> DEFINE R == (a + 1)..(a + n)
<1>1. n \in Nat /\ DOMAIN s = 1..n /\ \A i \in 1..n : s[i] \in Elems
  OBVIOUS
<1>2. mem' = [i \in Slots |-> IF i \in R THEN s[i - a] ELSE mem[i]]
  BY DEF Write
<1>3. own' = [e \in Elems |-> IF e \in {s[i] : i \in DOMAIN s} THEN "vec" ELSE own[e]]
  BY DEF Give
<1>4. R \subseteq Slots /\ (\A i \in R : i - a \in 1..n) /\ (\A i \in 1..n : i + a \in R /\ (i + a) - a = i)
  BY <1>1, Width
<1> HIDE DEF n, R
<1>5. \A i \in R : i \in Slots /\ mem'[i] = s[i - a] /\ mem'[i] \in Elems
  BY <1>1, <1>2, <1>4
<1>6. \A i \in Slots \ R : mem'[i] = mem[i]
  BY <1>2
<1>7. mem' \in [Slots -> Elems \cup {None}] /\ own' \in [Elems -> {"none", "caller", "vec", "leaked"}]
  BY <1>1, <1>2, <1>3, <1>4 DEF IInv, TypeOK
<1>8. Full'
  <2>1. Owned' = Owned \cup R
    BY DEF n, R
  <2> QED
    BY <1>5, <1>6, <2>1, NoneAssumption DEF IInv, Full, Slots
<1>9. \A i \in Slots \ R, x \in 1..n : mem[i] # s[x]
  BY <1>1 DEF IInv, Exactly
<1>10. Injective'
  <2> SUFFICES ASSUME NEW i \in Slots, NEW j \in Slots, mem'[i] # None, mem'[i] = mem'[j]
               PROVE  i = j
    BY DEF Injective, Slots
  <2>1. CASE i \in R /\ j \in R
    <3>1. i - a = j - a
      BY <2>1, <1>1, <1>4, <1>5
    <3> QED
      BY <3>1, Width
  <2>2. CASE i \notin R /\ j \notin R
    BY <2>2, <1>6 DEF IInv, Injective
  <2>3. CASE i \in R /\ j \notin R
    BY <2>3, <1>4, <1>5, <1>6, <1>9
  <2>4. CASE i \notin R /\ j \in R
    BY <2>4, <1>4, <1>5, <1>6, <1>9
  <2> QED
    BY <2>1, <2>2, <2>3, <2>4
<1>11. Exactly'
  <2> SUFFICES ASSUME NEW e \in Elems
               PROVE  own'[e] = "vec" <=> \E i \in Slots : mem'[i] = e
    BY DEF Exactly, Slots
  <2>1. CASE e \in {s[i] : i \in DOMAIN s}
    <3>1. PICK x \in 1..n : e = s[x]
      BY <2>1, <1>1
    <3>2. x + a \in R /\ mem'[x + a] = s[x] /\ x + a \in Slots
      BY <1>4, <1>5
    <3> QED
      BY <2>1, <3>1, <3>2, <1>3
  <2>2. CASE e \notin {s[i] : i \in DOMAIN s}
    <3>1. \A i \in R : mem'[i] # e
      BY <2>2, <1>1, <1>4, <1>5
    <3>2. \A i \in R : mem[i] = None
      <4>1. \A i \in R : i \notin Owned
        BY DEF n, R
      <4> QED
        BY <4>1, <1>4 DEF IInv, Full
    <3>3. own'[e] = own[e]
      BY <2>2, <1>3
    <3> QED
      BY <3>1, <3>2, <3>3, <1>4, <1>6, NoneAssumption DEF IInv, Exactly
  <2> QED
    BY <2>1, <2>2
<1> QED
  BY <1>7, <1>8, <1>10, <1>11

\* Values that are not in the buffer change hands.
LEMMA HandedOver ==
    ASSUME IInv, NEW X, \A e \in X : own[e] # "vec",
           NEW o \in {"none", "caller", "leaked"},
           Give(X, o), UNCHANGED mem, Owned' = Owned
    PROVE  /\ Full' /\ Injective' /\ Exactly'
           /\ mem' \in [Slots -> Elems \cup {None}]
           /\ own' \in [Elems -> {"none", "caller", "vec", "leaked"}]
<1>1. own' = [e \in Elems |-> IF e \in X THEN o ELSE own[e]]
  BY DEF Give
<1>2. \A e \in Elems : own'[e] = "vec" <=> own[e] = "vec"
  BY <1>1
<1>3. Full' /\ Injective'
  BY DEF IInv, Full, Injective, Slots
<1>4. Exactly'
  BY <1>2 DEF IInv, Exactly, Slots
<1> QED
  BY <1>1, <1>3, <1>4 DEF IInv, TypeOK

\* Nothing in the buffer moves, and nothing changes hands.
LEMMA Untouched ==
    ASSUME IInv, UNCHANGED <<mem, own>>, Owned' = Owned
    PROVE  /\ Full' /\ Injective' /\ Exactly'
           /\ mem' \in [Slots -> Elems \cup {None}]
           /\ own' \in [Elems -> {"none", "caller", "vec", "leaked"}]
<1>1. Full' /\ Injective'
  BY DEF IInv, Full, Injective, Slots
<1>2. Exactly'
  BY DEF IInv, Exactly, Slots
<1> QED
  BY <1>1, <1>2 DEF IInv, TypeOK

\* The values of the owned slots go to as many other slots.
LEMMA Moved ==
    ASSUME IInv, NEW src \in [Owned' -> Owned], Owned' \subseteq Slots,
           \A i, j \in Owned' : src[i] = src[j] => i = j,
           \A j \in Owned : \E i \in Owned' : src[i] = j,
           mem' = [i \in Slots |-> IF i \in Owned' THEN mem[src[i]] ELSE None],
           UNCHANGED own
    PROVE  /\ Full' /\ Injective' /\ Exactly'
           /\ mem' \in [Slots -> Elems \cup {None}]
           /\ own' \in [Elems -> {"none", "caller", "vec", "leaked"}]
<1>1. \A i \in Owned' : src[i] \in Owned /\ src[i] \in Slots /\ mem'[i] = mem[src[i]] /\ mem'[i] \in Elems
  BY OwnedSlots
<1>2. \A i \in Slots : i \notin Owned' => mem'[i] = None
  OBVIOUS
<1>3. Full'
  <2>1. \A i \in Slots : mem'[i] # None <=> i \in Owned'
    BY <1>1, <1>2, NoneAssumption
  <2> QED
    BY <2>1 DEF Full, Slots
<1>4. Injective'
  <2> SUFFICES ASSUME NEW i \in Slots, NEW j \in Slots, mem'[i] # None, mem'[i] = mem'[j]
               PROVE  i = j
    BY DEF Injective, Slots
  <2>1. i \in Owned' /\ j \in Owned'
    BY <1>2
  <2>2. src[i] = src[j]
    BY <1>1, <2>1, NoneAssumption DEF IInv, Injective
  <2> QED
    BY <2>1, <2>2
<1>5. Exactly'
  <2> SUFFICES ASSUME NEW e \in Elems
               PROVE  own[e] = "vec" <=> \E i \in Slots : mem'[i] = e
    BY DEF Exactly, Slots
  <2>1. e # None
    BY NoneAssumption
  <2>2. ASSUME NEW j \in Slots, mem[j] = e
        PROVE  \E i \in Slots : mem'[i] = e
    <3>1. j \in Owned
      BY <2>1, <2>2 DEF IInv, Full
    <3> QED
      BY <2>2, <3>1, <1>1
  <2>3. ASSUME NEW i \in Slots, mem'[i] = e
        PROVE  \E j \in Slots : mem[j] = e
    BY <2>1, <2>3, <1>1, <1>2
  <2> QED
    BY <2>2, <2>3 DEF IInv, Exactly
<1>6. mem' \in [Slots -> Elems \cup {None}]
  BY <1>1, <1>2
<1> QED
  BY <1>3, <1>4, <1>5, <1>6 DEF IInv, TypeOK

-----------------------------------------------------------------------------
\* reserve: the new layout is that of the new allocation, large enough and not
\* too large.
LEMMA ReserveGrows ==
    ASSUME IInv, NEW n \in Nat, ReserveOk(n), UNCHANGED size
    PROVE  /\ layout' \in Nat /\ alloc' = layout'
           /\ len + n <= Capacity' /\ Capacity' <= UsizeMax
           /\ size # 0 => 2 * Capacity' <= UsizeMax /\ Capacity' * size <= IsizeMax
           /\ size = 0 => layout' = 0
<1>1. /\ size \in Nat /\ layout \in Nat /\ len \in Nat /\ Capacity \in Nat /\ Capacity <= UsizeMax
      /\ len <= Capacity /\ alloc = layout
      /\ size # 0 => 2 * Capacity <= UsizeMax /\ Capacity * size <= IsizeMax /\ Capacity = layout
      /\ size = 0 => Capacity = UsizeMax /\ layout = 0
  BY OwnedSlots, SizesAssumption DEF IInv, TypeOK, CapacityFits, StateInv, Capacity
<1>2. CASE Fits(n) /\ UNCHANGED <<alloc, layout>>
  <2>1. Capacity' = Capacity
    BY <1>2 DEF Capacity
  <2> QED
    BY <1>1, <1>2, <2>1 DEF Fits
<1>3. CASE /\ ~Fits(n) /\ size # 0 /\ LayoutNew(NewCap(n)) /\ Realloc(NewCap(n), layout)
           /\ layout' = NewCap(n)
  <2> DEFINE c == NewCap(n)
  <2>1. (2 * Capacity) % (UsizeMax + 1) \in Nat
    BY <1>1, Width
  <2>2. c \in Nat /\ c >= len + n
    BY <1>1, <2>1 DEF NewCap
  <2>3. c > 0
    BY <1>1, <1>3, <2>2 DEF Fits
  <2>4. c * size > 0 /\ c * size >= c /\ c * size <= IsizeMax
    BY <1>1, <1>3, <2>2, <2>3, Product DEF LayoutNew
  <2>5. alloc' = c /\ layout' = c /\ Capacity' = c
    BY <1>3, <2>4 DEF Realloc, Capacity
  <2> HIDE DEF c
  <2> QED
    BY <1>1, <1>3, <2>2, <2>4, <2>5, Width
<1> QED
  BY <1>2, <1>3 DEF ReserveOk

\* Values are added at the end, where there is room.
LEMMA Appended ==
    ASSUME IInv, pc \in {"none", "vec"}, NEW s \in Seq(Elems),
           \A i, j \in DOMAIN s : s[i] = s[j] => i = j,
           \A i \in DOMAIN s : own[s[i]] # "vec",
           layout' \in Nat, alloc' = layout',
           len + Len(s) <= Capacity', Capacity' <= UsizeMax,
           size # 0 => 2 * Capacity' <= UsizeMax /\ Capacity' * size <= IsizeMax,
           size = 0 => layout' = 0,
           pc' = "vec", mem' = Write(s, len), len' = len + Len(s),
           Give({s[i] : i \in DOMAIN s}, "vec"),
           UNCHANGED <<size, ptr, left, kept, check>>
    PROVE  IInv'
<1>1. len \in Nat /\ Len(s) \in Nat /\ ptr = 0 /\ left = 0 /\ ptr' = 0 /\ left' = 0
  BY DEF IInv, TypeOK, StateInv
<1>2. Owned = 1..len /\ Owned' = Owned \cup ((len + 1)..(len + Len(s)))
  BY <1>1 DEF Owned
<1>3. \A i \in (len + 1)..(len + Len(s)) : i \notin Owned
  BY <1>1, <1>2
<1>4. len + Len(s) <= UsizeMax
  <2>1. Capacity' \in Nat
    BY Width DEF Capacity
  <2> QED
    BY <1>1, <2>1, Width
<1>5. /\ Full' /\ Injective' /\ Exactly'
      /\ mem' \in [Slots -> Elems \cup {None}]
      /\ own' \in [Elems -> {"none", "caller", "vec", "leaked"}]
  BY <1>1, <1>2, <1>3, <1>4, Written
<1>6. TypeOK'
  BY <1>1, <1>5 DEF IInv, TypeOK, Slots
<1>7. StateInv' /\ CapacityFits'
  BY <1>1 DEF StateInv, CapacityFits
<1> QED
  BY <1>5, <1>6, <1>7 DEF IInv

\* Calls that change no layout and no length: values of the caller change hands.
LEMMA CallerStep ==
    ASSUME IInv, pc \in {"none", "vec"}, NEW X, \A e \in X : own[e] # "vec",
           NEW o \in {"none", "caller"}, Give(X, o), pc' = pc \/ (pc = "none" /\ pc' = "vec"),
           UNCHANGED <<size, mem, alloc, layout, len, ptr, left, kept, check>>
    PROVE  IInv'
<1>1. Owned' = Owned /\ Capacity' = Capacity
  BY DEF Owned, Capacity
<1>2. /\ Full' /\ Injective' /\ Exactly'
      /\ mem' \in [Slots -> Elems \cup {None}]
      /\ own' \in [Elems -> {"none", "caller", "vec", "leaked"}]
  BY <1>1, HandedOver
<1>3. TypeOK' /\ StateInv' /\ CapacityFits'
  BY <1>1, <1>2 DEF IInv, TypeOK, StateInv, CapacityFits, Slots
<1> QED
  BY <1>2, <1>3 DEF IInv

\* Calls that change no value, no length and no layout.
LEMMA QuietStep ==
    ASSUME IInv, pc \in {"none", "vec", "raw"}, pc' \in {"vec", "raw"} \/ pc' = pc,
           UNCHANGED <<size, mem, own, alloc, layout, len, ptr, left, kept, check>>
    PROVE  IInv'
<1>1. Owned' = Owned /\ Capacity' = Capacity
  BY DEF Owned, Capacity
<1>2. Full' /\ Injective' /\ Exactly'
  BY <1>1, Untouched
<1>3. TypeOK' /\ StateInv' /\ CapacityFits'
  BY <1>1 DEF IInv, TypeOK, StateInv, CapacityFits, Slots
<1> QED
  BY <1>2, <1>3 DEF IInv

\* The length is cut to n; what was behind it changes hands.
LEMMA Cut ==
    ASSUME IInv, pc \in {"vec", "retain"}, NEW n \in Nat, n <= len,
           NEW X, \A e \in X : own[e] # "vec", NEW o \in {"none", "caller"},
           mem' = Vacate(n, len), len' = n, Give(In(n, len) \cup X, o),
           pc' \in {"vec", "none"}, pc' = "none" => n = 0 /\ layout' = 0,
           size' = size, ptr' = ptr, left' = left, kept' \in Nat, check' \in Nat,
           alloc' = layout', layout' # layout => layout' = 0 /\ n = 0
    PROVE  IInv'
<1>1. len \in Nat /\ ptr = 0 /\ left = 0 /\ ptr' = 0 /\ left' = 0 /\ layout \in Nat /\ size \in Nat
  BY SizesAssumption DEF IInv, TypeOK, StateInv
<1>2. Owned = 1..len /\ Owned' = Owned \ ((n + 1)..len) /\ (n + 1)..len \subseteq Owned
  BY <1>1 DEF Owned
<1>3. /\ Full' /\ Injective' /\ Exactly'
      /\ mem' \in [Slots -> Elems \cup {None}]
      /\ own' \in [Elems -> {"none", "caller", "vec", "leaked"}]
  BY <1>1, <1>2, Vacated
<1>4. TypeOK'
  BY <1>1, <1>3 DEF IInv, TypeOK, Slots
<1>5. StateInv'
  BY <1>1 DEF IInv, StateInv
<1>6. CapacityFits'
  BY <1>1, Width DEF IInv, CapacityFits, Capacity
<1> QED
  BY <1>3, <1>4, <1>5, <1>6 DEF IInv

\* The same for a Vec that stays.
LEMMA Shortened ==
    ASSUME IInv, pc = "vec", NEW n \in Nat, n <= len,
           NEW X, \A e \in X : own[e] # "vec", NEW o \in {"none", "caller"},
           mem' = Vacate(n, len), len' = n, Give(In(n, len) \cup X, o),
           UNCHANGED <<size, pc, alloc, layout, ptr, left, kept, check>>
    PROVE  IInv'
<1>1. pc \in {"vec", "retain"} /\ pc' = "vec" /\ UNCHANGED <<size, ptr, left>>
  OBVIOUS
<1>2. kept' \in Nat /\ check' \in Nat
  BY DEF IInv, TypeOK
<1>3. alloc' = layout' /\ layout' = layout
  BY DEF IInv
<1> QED
  BY <1>1, <1>2, <1>3, Cut

\* reserve, without anything added.
LEMMA Reserved ==
    ASSUME IInv, pc \in {"none", "vec"}, NEW n \in Nat, ReserveOk(n), pc' = "vec",
           UNCHANGED <<size, mem, own, len, ptr, left, kept, check>>
    PROVE  IInv'
<1>1. /\ layout' \in Nat /\ alloc' = layout'
      /\ len + n <= Capacity'
      /\ size # 0 => 2 * Capacity' <= UsizeMax /\ Capacity' * size <= IsizeMax
      /\ size = 0 => layout' = 0
  BY ReserveGrows
<1>2. Owned' = Owned
  BY DEF Owned
<1>3. Full' /\ Injective' /\ Exactly'
  BY <1>2, Untouched
<1>4. TypeOK'
  BY <1>1 DEF IInv, TypeOK, Slots
<1>5. StateInv'
  BY <1>1 DEF IInv, StateInv
<1>6. Capacity' \in Nat /\ len \in Nat
  BY <1>1, Width DEF IInv, TypeOK, Capacity
<1>7. CapacityFits'
  BY <1>1, <1>6 DEF CapacityFits
<1> QED
  BY <1>1, <1>3, <1>4, <1>5, <1>7 DEF IInv

\* A call that only fills the slots of the buffer, with room for it.
LEMMA SameLayout ==
    ASSUME IInv, pc = "vec", len' \in Nat, len' <= Capacity,
           Full', Injective', Exactly',
           mem' \in [Slots -> Elems \cup {None}],
           own' \in [Elems -> {"none", "caller", "vec", "leaked"}],
           UNCHANGED <<size, pc, alloc, layout, ptr, left, kept, check>>
    PROVE  IInv'
<1>1. Capacity' = Capacity
  BY DEF Capacity
<1>2. TypeOK'
  BY DEF IInv, TypeOK, Slots
<1>3. StateInv'
  BY DEF IInv, StateInv
<1>4. CapacityFits'
  BY <1>1 DEF IInv, CapacityFits
<1> QED
  BY <1>2, <1>3, <1>4 DEF IInv

-----------------------------------------------------------------------------
\* insert_within_capacity: the values behind index move up.
LEMMA InsertStep ==
    ASSUME IInv, NEW index \in Usize, NEW v \in Elems, InsertWithinCapacity(index, v)
    PROVE  IInv'
<1>1. /\ pc = "vec" /\ own[v] = "caller"
      /\ UNCHANGED <<size, pc, alloc, layout, ptr, left, kept, check>>
  BY DEF InsertWithinCapacity, locals
<1>2. CASE ~(index <= len /\ len < Capacity)
  <2>1. UNCHANGED <<mem, len, own>>
    BY <1>2 DEF InsertWithinCapacity
  <2> QED
    BY <1>1, <2>1, QuietStep
<1>3. CASE index <= len /\ len < Capacity
  <2>1. /\ len \in Nat /\ index \in Nat /\ ptr = 0 /\ left = 0 /\ ptr' = 0 /\ left' = 0
        /\ Capacity \in Nat /\ Capacity <= UsizeMax /\ UsizeMax \in Nat
    BY <1>1, OwnedSlots, Width DEF IInv, TypeOK, StateInv, Usize
  <2>2. /\ mem' = [Copy(index, index + 1, len - index) EXCEPT ![index + 1] = v]
        /\ len' = len + 1
        /\ own' = [e \in Elems |-> IF e \in {v} THEN "vec" ELSE own[e]]
    BY <1>3 DEF InsertWithinCapacity, Give
  <2>3. Owned = 1..len /\ Owned' = 1..(len + 1) /\ 1..(len + 1) \subseteq Slots
    BY <1>3, <2>1, <2>2 DEF Owned, Slots
  <2>4. mem' = [j \in Slots |-> IF j = index + 1 THEN v
                                ELSE IF j \in (index + 2)..(len + 1) THEN mem[j - 1] ELSE mem[j]]
    <3>1. /\ (index + 1 + 1)..(index + 1 + (len - index)) = (index + 2)..(len + 1)
          /\ \A j \in Slots : j - (index + 1) + index = j - 1
      BY <2>1 DEF Slots
    <3> QED
      BY <2>2, <3>1 DEF Copy
  <2>5. \A j \in 1..len : mem[j] \in Elems /\ own[mem[j]] = "vec" /\ mem[j] # v
    BY <1>1, <2>3, OwnedSlots
  <2>6. /\ \A j \in 1..index : j \in Slots /\ j \in 1..len /\ mem'[j] = mem[j]
        /\ \A j \in (index + 2)..(len + 1) : j \in Slots /\ j - 1 \in 1..len /\ mem'[j] = mem[j - 1]
        /\ index + 1 \in Slots /\ mem'[index + 1] = v
        /\ \A j \in Slots : j > len + 1 => mem'[j] = mem[j]
    BY <1>3, <2>1, <2>3, <2>4 DEF Slots
  <2>7. \A j \in Slots : \/ j \in 1..index
                         \/ j = index + 1
                         \/ j \in (index + 2)..(len + 1)
                         \/ j > len + 1
    BY <1>3, <2>1 DEF Slots
  <2>8. \A j \in Slots : j > len + 1 => mem'[j] = None
    BY <2>1, <2>3, <2>6 DEF IInv, Full, Slots
  <2>9. \A j \in 1..(len + 1) : mem'[j] \in Elems
    BY <2>1, <2>3, <2>5, <2>6, <2>7
  <2>10. mem' \in [Slots -> Elems \cup {None}]
    <3>1. \A j \in Slots : j \in 1..(len + 1) \/ j > len + 1
      BY <2>1 DEF Slots
    <3> QED
      BY <2>4, <2>8, <2>9, <3>1
  <2>11. Full'
    <3>1. \A j \in Slots : mem'[j] # None <=> j \in 1..(len + 1)
      <4>1. \A j \in Slots : j \in 1..(len + 1) \/ j > len + 1
        BY <2>1 DEF Slots
      <4>2. \A j \in Slots : j > len + 1 => j \notin 1..(len + 1)
        BY <2>1 DEF Slots
      <4> QED
        BY <2>8, <2>9, <4>1, <4>2, NoneAssumption
    <3> QED
      BY <2>3, <3>1 DEF Full, Slots
  <2>12. Injective'
    <3> SUFFICES ASSUME NEW i \in Slots, NEW j \in Slots, mem'[i] # None, mem'[i] = mem'[j]
                 PROVE  i = j
      BY DEF Injective, Slots
    <3>1. \A x, y \in 1..len : mem[x] = mem[y] => x = y
      BY <2>3, <2>5, OwnedSlots, NoneAssumption DEF IInv, Injective
    <3>2. ~(i > len + 1) /\ ~(j > len + 1)
      BY <2>8
    <3>3. CASE i = index + 1 \/ j = index + 1
      BY <2>5, <2>6, <2>7, <3>2, <3>3
    <3>4. CASE i # index + 1 /\ j # index + 1
      <4>1. i \in Int /\ j \in Int
        BY DEF Slots
      <4>2. CASE i \in 1..index /\ j \in 1..index
        BY <2>6, <3>1, <4>2
      <4>3. CASE i \in 1..index /\ j \in (index + 2)..(len + 1)
        <5>1. i = j - 1
          BY <2>6, <3>1, <4>3
        <5> QED
          BY <2>1, <4>1, <4>3, <5>1
      <4>4. CASE i \in (index + 2)..(len + 1) /\ j \in 1..index
        <5>1. j = i - 1
          BY <2>6, <3>1, <4>4
        <5> QED
          BY <2>1, <4>1, <4>4, <5>1
      <4>5. CASE i \in (index + 2)..(len + 1) /\ j \in (index + 2)..(len + 1)
        <5>1. i - 1 = j - 1
          BY <2>6, <3>1, <4>5
        <5> QED
          BY <4>1, <5>1
      <4> QED
        BY <2>7, <3>2, <3>4, <4>2, <4>3, <4>4, <4>5
    <3> QED
      BY <3>3, <3>4
  <2>13. Exactly'
    <3> SUFFICES ASSUME NEW e \in Elems
                 PROVE  own'[e] = "vec" <=> \E i \in Slots : mem'[i] = e
      BY DEF Exactly, Slots
    <3>1. e # None
      BY NoneAssumption
    <3>2. CASE e = v
      BY <2>2, <2>6, <3>2
    <3>3. CASE e # v
      <4>1. own'[e] = own[e]
        BY <2>2, <3>3
      <4>2. ASSUME NEW i \in Slots, mem[i] = e
            PROVE  \E j \in Slots : mem'[j] = e
        <5>1. i \in 1..len
          BY <2>3, <3>1, <4>2 DEF IInv, Full
        <5>2. CASE i \in 1..index
          BY <2>6, <4>2, <5>2
        <5>3. CASE i \notin 1..index
          <6>1. i + 1 \in (index + 2)..(len + 1) /\ (i + 1) - 1 = i
            BY <2>1, <5>1, <5>3
          <6> QED
            BY <2>6, <4>2, <6>1
        <5> QED
          BY <5>2, <5>3
      <4>3. ASSUME NEW i \in Slots, mem'[i] = e
            PROVE  \E j \in Slots : mem[j] = e
        <5>1. 1..len \subseteq Slots
          BY <2>3, OwnedSlots
        <5> QED
          BY <2>6, <2>7, <2>8, <3>1, <3>3, <4>3, <5>1
      <4> QED
        BY <4>1, <4>2, <4>3 DEF IInv, Exactly
    <3> QED
      BY <3>2, <3>3
  <2>14. own' \in [Elems -> {"none", "caller", "vec", "leaked"}]
    BY <2>2 DEF IInv, TypeOK
  <2>15. len' \in Nat /\ len' <= Capacity
    BY <1>3, <2>1, <2>2
  <2> QED
    BY <1>1, <2>10, <2>11, <2>12, <2>13, <2>14, <2>15, SameLayout
<1> QED
  BY <1>2, <1>3

\* remove: the values behind it move down, and the caller gets the value.
LEMMA RemoveStep ==
    ASSUME IInv, NEW k \in Usize, Remove(k)
    PROVE  IInv'
<1>1. pc = "vec" /\ UNCHANGED <<size, pc, alloc, layout, ptr, left, kept, check>>
  BY DEF Remove, locals
<1>2. CASE k >= len
  <2>1. UNCHANGED <<mem, len, own>>
    BY <1>2 DEF Remove
  <2> QED
    BY <1>1, <2>1, QuietStep
<1>3. CASE ~(k >= len)
  <2>1. /\ len \in Nat /\ k \in Nat /\ k < len /\ ptr = 0 /\ left = 0 /\ ptr' = 0 /\ left' = 0
        /\ Capacity \in Nat /\ Capacity <= UsizeMax /\ UsizeMax \in Nat /\ len <= Capacity
    BY <1>1, <1>3, OwnedSlots, Width DEF IInv, TypeOK, StateInv, CapacityFits, Usize
  <2>2. /\ mem' = [Copy(k + 1, k, len - k - 1) EXCEPT ![len] = None]
        /\ len' = len - 1
        /\ own' = [e \in Elems |-> IF e \in {mem[k + 1]} THEN "caller" ELSE own[e]]
    BY <1>3 DEF Remove, Give
  <2>3. Owned = 1..len /\ Owned' = 1..(len - 1) /\ 1..len \subseteq Slots
    BY <2>1, <2>2 DEF Owned, Slots
  <2>4. mem' = [j \in Slots |-> IF j = len THEN None
                                ELSE IF j \in (k + 1)..(len - 1) THEN mem[j + 1] ELSE mem[j]]
    <3>1. /\ (k + 1)..(k + (len - k - 1)) = (k + 1)..(len - 1)
          /\ \A j \in Slots : j - k + (k + 1) = j + 1
      BY <2>1 DEF Slots
    <3> QED
      BY <2>2, <3>1 DEF Copy
  <2>5. \A j \in 1..len : mem[j] \in Elems /\ own[mem[j]] = "vec"
    BY <2>3, OwnedSlots
  <2>6. /\ \A j \in 1..k : j \in Slots /\ j \in 1..len /\ j # k + 1 /\ mem'[j] = mem[j]
        /\ \A j \in (k + 1)..(len - 1) : j \in Slots /\ j + 1 \in 1..len /\ j + 1 # k + 1 /\ mem'[j] = mem[j + 1]
        /\ mem'[len] = None
        /\ \A j \in Slots : j > len => mem'[j] = mem[j]
        /\ k + 1 \in 1..len
    BY <2>1, <2>3, <2>4 DEF Slots
  <2>7. \A j \in Slots : j \in 1..k \/ j \in (k + 1)..(len - 1) \/ j >= len
    BY <2>1 DEF Slots
  <2>8. \A j \in Slots : j >= len => mem'[j] = None
    BY <2>1, <2>3, <2>6 DEF IInv, Full, Slots
  <2>9. \A j \in 1..(len - 1) : mem'[j] \in Elems
    BY <2>1, <2>3, <2>5, <2>6, <2>7
  <2>10. \A j \in Slots : j \in 1..(len - 1) \/ (j >= len /\ j \notin 1..(len - 1))
    BY <2>1 DEF Slots
  <2>11. mem' \in [Slots -> Elems \cup {None}]
    BY <2>4, <2>8, <2>9, <2>10
  <2>12. Full'
    <3>1. \A j \in Slots : mem'[j] # None <=> j \in 1..(len - 1)
      BY <2>8, <2>9, <2>10, NoneAssumption
    <3> QED
      BY <2>3, <3>1 DEF Full, Slots
  <2>13. \A x, y \in 1..len : mem[x] = mem[y] => x = y
    BY <2>3, <2>5, OwnedSlots, NoneAssumption DEF IInv, Injective
  <2>14. Injective'
    <3> SUFFICES ASSUME NEW i \in Slots, NEW j \in Slots, mem'[i] # None, mem'[i] = mem'[j]
                 PROVE  i = j
      BY DEF Injective, Slots
    <3>1. ~(i >= len) /\ ~(j >= len)
      BY <2>8
    <3>2. i \in Int /\ j \in Int
      BY DEF Slots
    <3>3. CASE i \in 1..k /\ j \in 1..k
      BY <2>6, <2>13, <3>3
    <3>4. CASE i \in 1..k /\ j \in (k + 1)..(len - 1)
      <4>1. i = j + 1
        BY <2>6, <2>13, <3>4
      <4> QED
        BY <2>1, <3>2, <3>4, <4>1
    <3>5. CASE i \in (k + 1)..(len - 1) /\ j \in 1..k
      <4>1. j = i + 1
        BY <2>6, <2>13, <3>5
      <4> QED
        BY <2>1, <3>2, <3>5, <4>1
    <3>6. CASE i \in (k + 1)..(len - 1) /\ j \in (k + 1)..(len - 1)
      <4>1. i + 1 = j + 1
        BY <2>6, <2>13, <3>6
      <4> QED
        BY <3>2, <4>1
    <3> QED
      BY <2>7, <3>1, <3>3, <3>4, <3>5, <3>6
  <2>15. Exactly'
    <3> SUFFICES ASSUME NEW e \in Elems
                 PROVE  own'[e] = "vec" <=> \E i \in Slots : mem'[i] = e
      BY DEF Exactly, Slots
    <3>1. e # None
      BY NoneAssumption
    <3>2. CASE e = mem[k + 1]
      <4>1. own'[e] # "vec"
        BY <2>2, <3>2
      <4>2. \A i \in Slots : mem'[i] # e
        BY <2>6, <2>7, <2>8, <2>13, <3>1, <3>2
      <4> QED
        BY <4>1, <4>2
    <3>3. CASE e # mem[k + 1]
      <4>1. own'[e] = own[e]
        BY <2>2, <3>3
      <4>2. ASSUME NEW i \in Slots, mem[i] = e
            PROVE  \E j \in Slots : mem'[j] = e
        <5>1. i \in 1..len /\ i # k + 1
          BY <2>3, <3>1, <3>3, <4>2 DEF IInv, Full
        <5>2. CASE i \in 1..k
          BY <2>6, <4>2, <5>2
        <5>3. CASE i \notin 1..k
          <6>1. i - 1 \in (k + 1)..(len - 1) /\ (i - 1) + 1 = i
            BY <2>1, <5>1, <5>3
          <6> QED
            BY <2>6, <4>2, <6>1
        <5> QED
          BY <5>2, <5>3
      <4>3. ASSUME NEW i \in Slots, mem'[i] = e
            PROVE  \E j \in Slots : mem[j] = e
        BY <2>3, <2>6, <2>7, <2>8, <3>1, <4>3
      <4> QED
        BY <4>1, <4>2, <4>3 DEF IInv, Exactly
    <3> QED
      BY <3>2, <3>3
  <2>16. own' \in [Elems -> {"none", "caller", "vec", "leaked"}]
    BY <2>2 DEF IInv, TypeOK
  <2>17. len' \in Nat /\ len' <= Capacity
    BY <2>1, <2>2
  <2> QED
    BY <1>1, <2>11, <2>12, <2>14, <2>15, <2>16, <2>17, SameLayout
<1> QED
  BY <1>2, <1>3

-----------------------------------------------------------------------------
\* What the caller gives is a sequence of different values.
LEMMA ValuesSeq ==
    ASSUME NEW o, NEW n \in Nat, NEW s \in Values(o, n)
    PROVE  /\ s \in Seq(Elems) /\ Len(s) = n /\ DOMAIN s = 1..n
           /\ \A i \in 1..n : s[i] \in Elems /\ own[s[i]] = o
           /\ \A i, j \in 1..n : s[i] = s[j] => i = j
<1>1. s \in [1..n -> {e \in Elems : own[e] = o}] /\ \A i, j \in 1..n : s[i] = s[j] => i = j
  BY DEF Values
<1>2. s \in [1..n -> Elems]
  BY <1>1
<1> QED
  BY <1>1, <1>2

\* extend_with, when it succeeds.
LEMMA ExtendStep ==
    ASSUME IInv, pc \in {"none", "vec"}, NEW n \in Nat, NEW v \in Elems,
           own[v] = "caller", ExtendOk(n, v), pc' = "vec", UNCHANGED <<size, locals>>
    PROVE  IInv'
<1>1. UNCHANGED <<ptr, left, kept, check>>
  BY DEF locals
<1>2. CASE n = 0
  <2>1. Give({v}, "none") /\ UNCHANGED <<mem, alloc, layout, len>>
    BY <1>2 DEF ExtendOk, buffer
  <2> QED
    BY <1>1, <2>1, CallerStep
<1>3. CASE n # 0
  <2>1. PICK s \in Clones(n, v) : mem' = Write(s, len) /\ Give({s[i] : i \in 1..n}, "vec")
    BY <1>3 DEF ExtendOk
  <2>2. ReserveOk(n) /\ len' = len + n
    BY <1>3 DEF ExtendOk
  <2>3. PICK t \in Values("none", n - 1) : s = Append(t, v)
    BY <2>1 DEF Clones
  <2>4. n - 1 \in Nat
    BY <1>3
  <2>5. /\ t \in Seq(Elems) /\ Len(t) = n - 1 /\ DOMAIN t = 1..(n - 1)
        /\ \A i \in 1..(n - 1) : t[i] \in Elems /\ own[t[i]] = "none"
        /\ \A i, j \in 1..(n - 1) : t[i] = t[j] => i = j
    BY <2>3, <2>4, ValuesSeq
  <2>6. /\ s \in Seq(Elems) /\ Len(s) = n /\ DOMAIN s = 1..n
        /\ \A i \in 1..(n - 1) : s[i] = t[i]
        /\ s[n] = v
    BY <1>3, <2>3, <2>5
  <2>7. \A i \in 1..n : i \in 1..(n - 1) \/ i = n
    OBVIOUS
  <2>8. \A i \in DOMAIN s : own[s[i]] # "vec"
    BY <2>5, <2>6, <2>7
  <2>9. \A i, j \in DOMAIN s : s[i] = s[j] => i = j
    BY <2>5, <2>6, <2>7
  <2>10. /\ layout' \in Nat /\ alloc' = layout'
         /\ len + n <= Capacity' /\ Capacity' <= UsizeMax
         /\ size # 0 => 2 * Capacity' <= UsizeMax /\ Capacity' * size <= IsizeMax
         /\ size = 0 => layout' = 0
    BY <2>2, ReserveGrows
  <2> QED
    BY <1>1, <2>1, <2>2, <2>6, <2>8, <2>9, <2>10, Appended
<1> QED
  BY <1>2, <1>3

\* extend_with, when there is no memory.
LEMMA ExtendErrStep ==
    ASSUME IInv, pc \in {"none", "vec"}, NEW n \in Nat, NEW v \in Elems,
           own[v] = "caller", ExtendErr(n, v), pc' = pc, UNCHANGED <<size, locals>>
    PROVE  IInv'
BY CallerStep DEF ExtendErr, ReserveErr, locals

LEMMA FromElemStep ==
    ASSUME IInv, NEW n \in Usize, NEW v \in Elems, FromElem(n, v)
    PROVE  IInv'
<1>1. n \in Nat
  BY Width DEF Usize
<1> QED
  BY <1>1, ExtendStep, ExtendErrStep DEF FromElem

LEMMA ExtendWithStep ==
    ASSUME IInv, NEW n \in Usize, NEW v \in Elems, ExtendWith(n, v)
    PROVE  IInv'
<1>1. n \in Nat
  BY Width DEF Usize
<1> QED
  BY <1>1, ExtendStep, ExtendErrStep DEF ExtendWith

LEMMA ResizeStep ==
    ASSUME IInv, NEW n \in Usize, NEW v \in Elems, Resize(n, v)
    PROVE  IInv'
<1>1. n \in Nat /\ len \in Nat
  BY Width DEF Usize, IInv, TypeOK
<1>2. pc = "vec" /\ own[v] = "caller" /\ UNCHANGED <<size, pc, locals>>
  BY DEF Resize
<1>3. CASE n >= len
  <2>1. n - len \in Nat
    BY <1>1, <1>3
  <2>2. ExtendOk(n - len, v) \/ ExtendErr(n - len, v)
    BY <1>3 DEF Resize
  <2> QED
    BY <1>2, <2>1, <2>2, ExtendStep, ExtendErrStep
<1>4. CASE ~(n >= len)
  <2>1. /\ mem' = Vacate(n, len) /\ len' = n /\ Give(In(n, len) \cup {v}, "none")
        /\ UNCHANGED <<alloc, layout>>
    BY <1>4 DEF Resize
  <2>2. n <= len
    BY <1>1, <1>4
  <2>3. UNCHANGED <<size, pc, alloc, layout, ptr, left, kept, check>>
    BY <1>2, <2>1 DEF locals
  <2>4. \A e \in {v} : own[e] # "vec"
    BY <1>2
  <2> QED
    BY <1>1, <1>2, <2>1, <2>2, <2>3, <2>4, Shortened
<1> QED
  BY <1>3, <1>4

LEMMA ExtendFromSliceStep ==
    ASSUME IInv, NEW n \in 0..MaxSlice, ExtendFromSlice(n)
    PROVE  IInv'
<1>1. n \in Nat
  BY SizesAssumption, Width
<1>2. pc = "vec" /\ UNCHANGED <<size, pc, ptr, left, kept, check>>
  BY DEF ExtendFromSlice, locals
<1>3. CASE ReserveErr(n) /\ UNCHANGED <<mem, len, own>>
  BY <1>2, <1>3, QuietStep DEF ReserveErr
<1>4. CASE /\ ReserveOk(n) /\ len' = len + n
           /\ \E s \in Values("none", n) : mem' = Write(s, len) /\ Give({s[i] : i \in 1..n}, "vec")
  <2>1. PICK s \in Values("none", n) : mem' = Write(s, len) /\ Give({s[i] : i \in 1..n}, "vec")
    BY <1>4
  <2>2. /\ s \in Seq(Elems) /\ Len(s) = n /\ DOMAIN s = 1..n
        /\ \A i \in 1..n : s[i] \in Elems /\ own[s[i]] = "none"
        /\ \A i, j \in 1..n : s[i] = s[j] => i = j
    BY <1>1, <2>1, ValuesSeq
  <2>3. /\ layout' \in Nat /\ alloc' = layout'
        /\ len + n <= Capacity' /\ Capacity' <= UsizeMax
        /\ size # 0 => 2 * Capacity' <= UsizeMax /\ Capacity' * size <= IsizeMax
        /\ size = 0 => layout' = 0
    BY <1>1, <1>2, <1>4, ReserveGrows
  <2> QED
    BY <1>2, <1>4, <2>1, <2>2, <2>3, Appended
<1> QED
  BY <1>3, <1>4 DEF ExtendFromSlice

\* From<Box<[T; N]>>: the box is the allocation of the Vec.
LEMMA FromBoxStep ==
    ASSUME IInv, NEW n \in 0..MaxSlice, NEW s \in Values("caller", n), FromBox(s)
    PROVE  IInv'
<1>1. n \in Nat /\ n <= UsizeMax
  BY SizesAssumption, Width
<1>2. /\ s \in Seq(Elems) /\ Len(s) = n /\ DOMAIN s = 1..n
      /\ \A i \in 1..n : s[i] \in Elems /\ own[s[i]] = "caller"
      /\ \A i, j \in 1..n : s[i] = s[j] => i = j
  BY <1>1, ValuesSeq
<1>3. /\ pc = "none" /\ pc' = "vec" /\ mem' = Write(s, 0) /\ len' = n
      /\ LayoutNew(n) /\ Realloc(n, 0) /\ layout' = (IF size = 0 THEN 0 ELSE n)
      /\ Give({s[i] : i \in DOMAIN s}, "vec")
      /\ UNCHANGED <<size, ptr, left, kept, check>>
  BY <1>2 DEF FromBox, locals
<1>4. len = 0 /\ layout = 0 /\ alloc = 0 /\ size \in Nat
  BY <1>3, SizesAssumption DEF IInv, StateInv, TypeOK
<1>5. /\ mem' = Write(s, len) /\ len' = len + Len(s)
      /\ \A i, j \in DOMAIN s : s[i] = s[j] => i = j
      /\ \A i \in DOMAIN s : own[s[i]] # "vec"
  BY <1>1, <1>2, <1>3, <1>4
<1>6. /\ layout' \in Nat /\ alloc' = layout'
      /\ len + Len(s) <= Capacity' /\ Capacity' <= UsizeMax
      /\ size # 0 => 2 * Capacity' <= UsizeMax /\ Capacity' * size <= IsizeMax
      /\ size = 0 => layout' = 0
  <2>1. CASE size = 0
    <3>1. layout' = 0 /\ Capacity' = UsizeMax /\ n * size = 0
      BY <1>1, <1>3, <2>1 DEF Capacity
    <3>2. alloc' = 0
      BY <1>3, <1>4, <2>1, <3>1 DEF Realloc
    <3> QED
      BY <1>1, <1>2, <1>4, <2>1, <3>1, <3>2, Width
  <2>2. CASE size # 0
    <3>1. layout' = n /\ Capacity' = n /\ n * size <= IsizeMax
      BY <1>3, <2>2 DEF Capacity, LayoutNew
    <3>2. n * size >= n /\ (n > 0 => n * size > 0) /\ (n = 0 => n * size = 0)
      BY <1>1, <1>4, <2>2, Product
    <3>3. alloc' = n
      BY <1>1, <1>3, <1>4, <3>2 DEF Realloc
    <3>4. 2 * n <= UsizeMax
      BY <1>1, <1>4, <3>1, <3>2, Width
    <3> QED
      BY <1>1, <1>2, <1>4, <2>2, <3>1, <3>3, <3>4, Width
  <2> QED
    BY <2>1, <2>2
<1> QED
  BY <1>2, <1>3, <1>5, <1>6, Appended

-----------------------------------------------------------------------------
\* Push, with and without a reserve.
LEMMA PushStep ==
    ASSUME IInv, NEW v \in Elems, Push(v)
    PROVE  IInv'
<1>1. pc = "vec" /\ own[v] = "caller" /\ UNCHANGED <<size, pc, ptr, left, kept, check>>
  BY DEF Push, locals
<1>2. <<v>> \in Seq(Elems) /\ Len(<<v>>) = 1 /\ DOMAIN <<v>> = 1..1 /\ <<v>>[1] = v
  OBVIOUS
<1>3. {<<v>>[i] : i \in DOMAIN <<v>>} = {v}
  BY <1>2
<1>4. CASE ReserveOk(1) /\ PushUnchecked(v)
  <2>1. /\ layout' \in Nat /\ alloc' = layout'
        /\ len + 1 <= Capacity' /\ Capacity' <= UsizeMax
        /\ size # 0 => 2 * Capacity' <= UsizeMax /\ Capacity' * size <= IsizeMax
        /\ size = 0 => layout' = 0
    BY <1>1, <1>4, ReserveGrows
  <2>2. mem' = Write(<<v>>, len) /\ len' = len + 1 /\ Give({v}, "vec")
    BY <1>4 DEF PushUnchecked
  <2>3. \A i, j \in DOMAIN <<v>> : <<v>>[i] = <<v>>[j] => i = j
    BY <1>2
  <2>4. \A i \in DOMAIN <<v>> : own[<<v>>[i]] # "vec"
    BY <1>1, <1>2
  <2> QED
    BY <1>1, <1>2, <1>3, <2>1, <2>2, <2>3, <2>4, Appended
<1>5. CASE ReserveErr(1) /\ Give({v}, "none") /\ UNCHANGED <<mem, len>>
  BY <1>1, <1>5, CallerStep DEF ReserveErr
<1> QED
  BY <1>4, <1>5 DEF Push

LEMMA PushWithinStep ==
    ASSUME IInv, NEW v \in Elems, PushWithinCapacity(v)
    PROVE  IInv'
<1>1. pc = "vec" /\ own[v] = "caller" /\ UNCHANGED <<size, pc, alloc, layout, ptr, left, kept, check>>
  BY DEF PushWithinCapacity, locals
<1>2. <<v>> \in Seq(Elems) /\ Len(<<v>>) = 1 /\ DOMAIN <<v>> = 1..1 /\ <<v>>[1] = v
  OBVIOUS
<1>3. {<<v>>[i] : i \in DOMAIN <<v>>} = {v}
  BY <1>2
<1>4. CASE len < Capacity /\ PushUnchecked(v)
  <2>1. len \in Nat /\ Capacity \in Nat /\ Capacity <= UsizeMax /\ layout \in Nat
    BY OwnedSlots DEF IInv, TypeOK
  <2>2. /\ layout' \in Nat /\ alloc' = layout' /\ Capacity' = Capacity
        /\ size # 0 => 2 * Capacity <= UsizeMax /\ Capacity * size <= IsizeMax
        /\ size = 0 => layout' = 0
    BY <1>1, <2>1 DEF IInv, CapacityFits, StateInv, Capacity
  <2>3. len + 1 <= Capacity
    BY <1>4, <2>1
  <2>4. mem' = Write(<<v>>, len) /\ len' = len + 1 /\ Give({v}, "vec")
    BY <1>4 DEF PushUnchecked
  <2>5. \A i, j \in DOMAIN <<v>> : <<v>>[i] = <<v>>[j] => i = j
    BY <1>2
  <2>6. \A i \in DOMAIN <<v>> : own[<<v>>[i]] # "vec"
    BY <1>1, <1>2
  <2> QED
    BY <1>1, <1>2, <1>3, <2>1, <2>2, <2>3, <2>4, <2>5, <2>6, Appended
<1>5. CASE UNCHANGED <<mem, len, own>>
  BY <1>1, <1>5, QuietStep
<1> QED
  BY <1>4, <1>5 DEF PushWithinCapacity

\* pop, truncate and the destructor cut the length.
LEMMA PopStep ==
    ASSUME IInv, Pop
    PROVE  IInv'
<1>1. pc = "vec" /\ UNCHANGED <<size, pc, alloc, layout, ptr, left, kept, check>>
  BY DEF Pop, locals
<1>2. CASE len = 0
  BY <1>1, <1>2, QuietStep DEF Pop
<1>3. CASE len # 0
  <2>1. mem' = Vacate(len - 1, len) /\ len' = len - 1 /\ Give({mem[len]}, "caller")
    BY <1>3 DEF Pop
  <2>2. len - 1 \in Nat /\ len - 1 <= len /\ ((len - 1) + 1)..len = {len}
    BY <1>3 DEF IInv, TypeOK
  <2>3. {mem[len]} = In(len - 1, len) \cup {}
    BY <2>2 DEF In
  <2> QED
    BY <1>1, <2>1, <2>2, <2>3, Shortened
<1> QED
  BY <1>2, <1>3

LEMMA TruncateStep ==
    ASSUME IInv, NEW n \in Usize, Truncate(n)
    PROVE  IInv'
<1>1. pc = "vec" /\ UNCHANGED <<size, pc, alloc, layout, ptr, left, kept, check>>
  BY DEF Truncate, locals
<1>2. CASE ~(n <= len)
  BY <1>1, <1>2, QuietStep DEF Truncate
<1>3. CASE n <= len
  <2>1. mem' = Vacate(n, len) /\ len' = n /\ Give(In(n, len), "none")
    BY <1>3 DEF Truncate, Shorten
  <2>2. n \in Nat /\ In(n, len) = In(n, len) \cup {}
    BY Width DEF Usize
  <2> QED
    BY <1>1, <1>3, <2>1, <2>2, Shortened
<1> QED
  BY <1>2, <1>3

\* free of the allocation, with the layout of the Vec.
LEMMA Freed ==
    ASSUME IInv, Realloc(0, layout)
    PROVE  alloc' = 0
<1>1. layout \in Nat /\ size \in Nat /\ alloc = layout /\ (size = 0 => layout = 0)
  BY SizesAssumption DEF IInv, TypeOK, StateInv
<1>2. 0 * size = 0
  BY <1>1
<1>3. CASE layout * size > 0
  BY <1>2, <1>3 DEF Realloc
<1>4. CASE ~(layout * size > 0)
  <2>1. layout = 0
    BY <1>1, <1>4, Product
  <2> QED
    BY <1>1, <1>2, <1>4, <2>1 DEF Realloc
<1> QED
  BY <1>3, <1>4

LEMMA DropVecStep ==
    ASSUME IInv, DropVec
    PROVE  IInv'
<1>1. /\ pc = "vec" /\ pc' = "none" /\ layout' = 0 /\ UNCHANGED <<size, ptr, left, kept, check>>
      /\ mem' = Vacate(0, len) /\ len' = 0 /\ Give(In(0, len), "none")
  BY DEF DropVec, Shorten, locals
<1>2. alloc' = 0
  BY Freed DEF DropVec
<1>3. In(0, len) = In(0, len) \cup {}
  OBVIOUS
<1>4. kept' \in Nat /\ check' \in Nat /\ 0 <= len
  BY <1>1 DEF IInv, TypeOK
<1> QED
  BY <1>1, <1>2, <1>3, <1>4, Cut

-----------------------------------------------------------------------------
(* retain.                                                                 *)

\* A swap of two values of the Vec.
LEMMA RetainCheckStep ==
    ASSUME IInv, NEW yes \in BOOLEAN, RetainCheck(yes)
    PROVE  IInv'
<1>1. /\ pc = "retain" /\ check < len
      /\ check' = check + 1 /\ UNCHANGED <<size, pc, alloc, layout, len, ptr, left, own>>
  BY DEF RetainCheck
<1>2. /\ len \in Nat /\ kept \in Nat /\ check \in Nat /\ kept <= check /\ check < len
      /\ ptr = 0 /\ left = 0
  BY <1>1 DEF IInv, TypeOK, StateInv
<1>3. Owned = 1..len /\ Owned' = Owned /\ Owned \subseteq Slots /\ Capacity' = Capacity
  BY <1>1, <1>2, OwnedSlots DEF Owned, Capacity
<1>4. kept' \in Nat /\ check' \in Nat /\ kept' <= check' /\ check' <= len
  BY <1>1, <1>2 DEF RetainCheck
<1>5. /\ Full' /\ Injective' /\ Exactly'
      /\ mem' \in [Slots -> Elems \cup {None}]
      /\ own' \in [Elems -> {"none", "caller", "vec", "leaked"}]
  <2>1. CASE ~yes
    <3>1. UNCHANGED <<mem, own>>
      BY <1>1, <2>1 DEF RetainCheck
    <3> QED
      BY <1>3, <3>1, Untouched
  <2>2. CASE yes
    <3> DEFINE src == [i \in Owned' |-> IF i = kept + 1 THEN check + 1
                                        ELSE IF i = check + 1 THEN kept + 1 ELSE i]
    <3>1. mem' = [mem EXCEPT ![kept + 1] = mem[check + 1], ![check + 1] = mem[kept + 1]]
      BY <2>2 DEF RetainCheck, Swap
    <3>2. kept + 1 \in Owned /\ check + 1 \in Owned
      BY <1>2, <1>3
    <3>3. src \in [Owned' -> Owned]
      BY <1>3, <3>2
    <3>4. \A i, j \in Owned' : src[i] = src[j] => i = j
      OBVIOUS
    <3>5. \A j \in Owned : src[src[j]] = j /\ src[j] \in Owned'
      BY <1>3, <3>2
    <3>6. mem' = [i \in Slots |-> IF i \in Owned' THEN mem[src[i]] ELSE None]
      <4>1. mem \in [Slots -> Elems \cup {None}] /\ \A i \in Slots : i \notin Owned => mem[i] = None
        BY DEF IInv, TypeOK, Full
      <4>2. \A i \in Slots : mem'[i] = IF i \in Owned' THEN mem[src[i]] ELSE None
        BY <1>3, <3>1, <3>2, <4>1
      <4> QED
        BY <3>1, <4>1, <4>2
    <3> HIDE DEF src
    <3>7. \A j \in Owned : \E i \in Owned' : src[i] = j
      BY <3>5
    <3> QED
      BY <1>1, <1>3, <3>3, <3>4, <3>6, <3>7, Moved
  <2> QED
    BY <2>1, <2>2
<1>6. TypeOK'
  BY <1>1, <1>4, <1>5 DEF IInv, TypeOK, Slots
<1>7. StateInv' /\ CapacityFits'
  BY <1>1, <1>3, <1>4 DEF IInv, StateInv, CapacityFits
<1> QED
  BY <1>1, <1>5, <1>6, <1>7 DEF IInv

LEMMA RetainDoneStep ==
    ASSUME IInv, RetainDone
    PROVE  IInv'
<1>1. /\ pc = "retain" /\ pc' = "vec" /\ kept' = 0 /\ check' = 0
      /\ mem' = Vacate(kept, len) /\ len' = kept /\ Give(In(kept, len), "none")
      /\ UNCHANGED <<size, alloc, layout, ptr, left>>
  BY DEF RetainDone, Shorten
<1>2. kept \in Nat /\ kept <= len
  BY <1>1 DEF IInv, TypeOK, StateInv
<1>3. In(kept, len) = In(kept, len) \cup {}
  OBVIOUS
<1>4. alloc' = layout'
  BY <1>1 DEF IInv
<1> QED
  BY <1>1, <1>2, <1>3, <1>4, Cut

LEMMA RetainStartStep ==
    ASSUME IInv, RetainStart
    PROVE  IInv'
<1>1. /\ pc = "vec" /\ pc' = "retain" /\ kept' = 0 /\ check' = 0
      /\ UNCHANGED <<size, mem, alloc, layout, len, ptr, left, own>>
  BY DEF RetainStart, buffer
<1>2. Owned' = Owned /\ Capacity' = Capacity
  BY <1>1 DEF Owned, Capacity
<1>3. Full' /\ Injective' /\ Exactly'
  BY <1>1, <1>2, Untouched
<1>4. TypeOK' /\ StateInv' /\ CapacityFits'
  BY <1>1, <1>2 DEF IInv, TypeOK, StateInv, CapacityFits, Slots
<1> QED
  BY <1>1, <1>3, <1>4 DEF IInv

-----------------------------------------------------------------------------
(* The iterators.                                                          *)

\* drain_all and into_iter: the values pass to the iterator.
LEMMA IterStart ==
    ASSUME IInv, pc = "vec", pc' \in {"drain", "iter"}, ptr' = 0, left' = len, len' = 0,
           UNCHANGED <<size, mem, alloc, layout, kept, check, own>>
    PROVE  IInv'
<1>1. len \in Nat /\ ptr = 0 /\ left = 0 /\ len <= Capacity /\ Capacity' = Capacity /\ Capacity \in Nat
  BY OwnedSlots DEF IInv, TypeOK, StateInv, CapacityFits, Capacity
<1>2. Owned' = Owned
  BY <1>1 DEF Owned
<1>3. Full' /\ Injective' /\ Exactly'
  BY <1>2, Untouched
<1>4. TypeOK'
  BY <1>1 DEF IInv, TypeOK, Slots
<1>5. StateInv' /\ CapacityFits'
  BY <1>1 DEF IInv, StateInv, CapacityFits
<1> QED
  BY <1>3, <1>4, <1>5 DEF IInv

LEMMA IterNextStep ==
    ASSUME IInv, IterNext
    PROVE  IInv'
<1>1. pc \in {"drain", "iter"} /\ UNCHANGED <<size, pc, alloc, layout, len, kept, check>>
  BY DEF IterNext
<1>2. len = 0 /\ ptr \in Nat /\ left \in Nat /\ ptr + left <= Capacity /\ Capacity' = Capacity
  BY <1>1 DEF IInv, TypeOK, StateInv, Capacity
<1>3. CASE left = 0
  <2>1. UNCHANGED <<mem, ptr, left, own>>
    BY <1>3 DEF IterNext
  <2>2. Owned' = Owned
    BY <1>1, <2>1 DEF Owned
  <2>3. Full' /\ Injective' /\ Exactly'
    BY <2>1, <2>2, Untouched
  <2>4. TypeOK' /\ StateInv' /\ CapacityFits'
    BY <1>1, <1>2, <2>1 DEF IInv, TypeOK, StateInv, CapacityFits, Slots
  <2> QED
    BY <1>1, <2>3, <2>4 DEF IInv
<1>4. CASE left # 0
  <2>1. /\ mem' = Vacate(ptr, ptr + 1) /\ Give({mem[ptr + 1]}, "caller")
        /\ ptr' = ptr + 1 /\ left' = left - 1
    BY <1>4 DEF IterNext
  <2>2. (ptr + 1)..(ptr + 1) = {ptr + 1} /\ ptr + 1 \in Nat
    BY <1>2
  <2>3. In(ptr, ptr + 1) \cup {} = {mem[ptr + 1]}
    BY <2>2 DEF In
  <2>4. (ptr + 1)..(ptr + 1) \subseteq Owned /\ Owned' = Owned \ ((ptr + 1)..(ptr + 1))
    BY <1>1, <1>2, <1>4, <2>1 DEF Owned
  <2>5. /\ Full' /\ Injective' /\ Exactly'
        /\ mem' \in [Slots -> Elems \cup {None}]
        /\ own' \in [Elems -> {"none", "caller", "vec", "leaked"}]
    BY <1>2, <2>1, <2>2, <2>3, <2>4, Vacated
  <2>6. ptr' \in Nat /\ left' \in Nat /\ ptr' + left' = ptr + left
    BY <1>2, <1>4, <2>1
  <2>7. TypeOK'
    BY <1>1, <2>5, <2>6 DEF IInv, TypeOK, Slots
  <2>8. StateInv' /\ CapacityFits'
    BY <1>1, <1>2, <2>6 DEF IInv, StateInv, CapacityFits
  <2> QED
    BY <1>1, <2>5, <2>7, <2>8 DEF IInv
<1> QED
  BY <1>3, <1>4

\* The end of an iterator: its values are dropped or forgotten.
LEMMA RestStep ==
    ASSUME IInv, pc \in {"drain", "iter"}, NEW o \in {"none", "leaked"}, Rest(o),
           pc' \in {"vec", "none"}, pc' = "none" => layout' = 0,
           size' = size, len' = len, kept' = kept, check' = check,
           alloc' = layout', layout' # layout => layout' = 0
    PROVE  IInv'
<1>1. /\ mem' = Vacate(ptr, ptr + left) /\ Give(In(ptr, ptr + left), o)
      /\ ptr' = 0 /\ left' = 0
  BY DEF Rest
<1>2. /\ len = 0 /\ ptr \in Nat /\ left \in Nat /\ ptr + left \in Nat
      /\ layout \in Nat /\ size \in Nat
  BY SizesAssumption DEF IInv, TypeOK, StateInv
<1>3. /\ (ptr + 1)..(ptr + left) \subseteq Owned
      /\ Owned' = Owned \ ((ptr + 1)..(ptr + left))
  BY <1>1, <1>2 DEF Owned
<1>4. In(ptr, ptr + left) = In(ptr, ptr + left) \cup {}
  OBVIOUS
<1>5. /\ Full' /\ Injective' /\ Exactly'
      /\ mem' \in [Slots -> Elems \cup {None}]
      /\ own' \in [Elems -> {"none", "caller", "vec", "leaked"}]
  BY <1>1, <1>2, <1>3, <1>4, Vacated
<1>6. TypeOK'
  BY <1>1, <1>2, <1>5 DEF IInv, TypeOK, Slots
<1>7. StateInv'
  BY <1>1, <1>2 DEF IInv, StateInv
<1>8. CapacityFits'
  BY <1>2, Width DEF IInv, CapacityFits, Capacity
<1> QED
  BY <1>5, <1>6, <1>7, <1>8 DEF IInv

\* collect: the values left move to the start of the buffer, which shrinks.
LEMMA CollectStep ==
    ASSUME IInv, Collect
    PROVE  IInv'
<1>1. /\ pc = "iter" /\ pc' = "vec"
      /\ mem' = [i \in Slots |-> IF i <= left THEN mem[ptr + i] ELSE None]
      /\ len' = left /\ ptr' = 0 /\ left' = 0
      /\ UNCHANGED <<size, kept, check, own>>
  BY DEF Collect
<1>2. /\ len = 0 /\ ptr \in Nat /\ left \in Nat /\ ptr + left <= Capacity
      /\ Capacity \in Nat /\ Capacity <= UsizeMax /\ UsizeMax \in Nat
      /\ layout \in Nat /\ size \in Nat /\ alloc = layout /\ (size = 0 => layout = 0)
      /\ size # 0 => Capacity = layout /\ 2 * Capacity <= UsizeMax /\ Capacity * size <= IsizeMax
  BY <1>1, OwnedSlots, SizesAssumption, Width DEF IInv, TypeOK, StateInv, CapacityFits, Capacity
<1>3. Owned = (ptr + 1)..(ptr + left) /\ Owned' = 1..left /\ Owned' \subseteq Slots
  BY <1>1, <1>2 DEF Owned, Slots
<1>4. /\ Full' /\ Injective' /\ Exactly'
      /\ mem' \in [Slots -> Elems \cup {None}]
      /\ own' \in [Elems -> {"none", "caller", "vec", "leaked"}]
  <2> DEFINE src == [i \in Owned' |-> ptr + i]
  <2>1. src \in [Owned' -> Owned]
    BY <1>2, <1>3
  <2>2. \A i, j \in Owned' : src[i] = src[j] => i = j
    BY <1>2, <1>3
  <2>3. \A j \in Owned : j - ptr \in Owned' /\ src[j - ptr] = j
    BY <1>2, <1>3
  <2>4. mem' = [i \in Slots |-> IF i \in Owned' THEN mem[src[i]] ELSE None]
    <3>1. \A i \in Slots : i <= left <=> i \in Owned'
      BY <1>2, <1>3 DEF Slots
    <3> QED
      BY <1>1, <3>1
  <2> HIDE DEF src
  <2>5. \A j \in Owned : \E i \in Owned' : src[i] = j
    BY <2>3
  <2> QED
    BY <1>1, <1>3, <2>1, <2>2, <2>4, <2>5, Moved
<1>5. /\ layout' \in Nat /\ alloc' = layout' /\ (size = 0 => layout' = 0) /\ left <= Capacity'
      /\ size # 0 => 2 * Capacity' <= UsizeMax /\ Capacity' * size <= IsizeMax
  <2>1. CASE ptr # 0 /\ size # 0 /\ Shrink
    <3>1. layout' = left /\ Capacity' = left
      BY <1>1, <2>1 DEF Shrink, Capacity
    <3>2. layout > 0 /\ left <= layout
      BY <1>2, <2>1
    <3>3. layout * size > 0 /\ left * size <= layout * size
      BY <1>2, <2>1, <3>2, Product
    <3>4. CASE left = 0
      <4>1. left * size = 0
        BY <1>2, <3>4
      <4> QED
        BY <1>1, <1>2, <2>1, <3>1, <3>3, <3>4, <4>1, Width DEF Shrink, Realloc
    <3>5. CASE left # 0
      <4>1. left * size > 0
        BY <1>2, <2>1, <3>5, Product
      <4>2. alloc' = left
        BY <2>1, <4>1 DEF Shrink, Realloc
      <4>3. left * size <= IsizeMax /\ 2 * left <= UsizeMax
        BY <1>2, <2>1, <3>2, <3>3, Width
      <4> QED
        BY <1>2, <2>1, <3>1, <4>2, <4>3
    <3> QED
      BY <3>4, <3>5
  <2>2. CASE UNCHANGED <<alloc, layout>>
    <3>1. Capacity' = Capacity
      BY <1>1, <2>2 DEF Capacity
    <3> QED
      BY <1>2, <2>2, <3>1
  <2> QED
    BY <2>1, <2>2 DEF Collect
<1>6. TypeOK'
  BY <1>1, <1>2, <1>4, <1>5 DEF IInv, TypeOK, Slots
<1>7. StateInv' /\ CapacityFits'
  BY <1>1, <1>5 DEF StateInv, CapacityFits
<1> QED
  BY <1>4, <1>5, <1>6, <1>7 DEF IInv

-----------------------------------------------------------------------------
(* The remaining steps, and the theorems.                                  *)

LEMMA MakeStep ==
    ASSUME IInv, NEW n \in Usize, WithCapacity(n) \/ Reserve(n)
    PROVE  IInv'
<1>1. n \in Nat
  BY Width DEF Usize
<1>2. /\ pc \in {"none", "vec"} /\ UNCHANGED <<size, mem, len, ptr, left, kept, check, own>>
      /\ \/ ReserveOk(n) /\ pc' = "vec"
         \/ ReserveErr(n) /\ pc' = pc
  BY DEF WithCapacity, Reserve, locals
<1>3. CASE ReserveOk(n) /\ pc' = "vec"
  BY <1>1, <1>2, <1>3, Reserved
<1>4. CASE ReserveErr(n) /\ pc' = pc
  BY <1>2, <1>4, QuietStep DEF ReserveErr
<1> QED
  BY <1>2, <1>3, <1>4

LEMMA RawStep ==
    ASSUME IInv, IntoRawParts \/ FromRawParts
    PROVE  IInv'
<1>1. layout' = layout
  BY DEF IntoRawParts, FromRawParts, buffer, Capacity, IInv, StateInv
<1>2. /\ pc \in {"vec", "raw"} /\ pc' \in {"vec", "raw"}
      /\ UNCHANGED <<size, mem, own, alloc, layout, len, ptr, left, kept, check>>
  BY <1>1 DEF IntoRawParts, FromRawParts, buffer, locals
<1> QED
  BY <1>2, QuietStep

LEMMA ValueStep ==
    ASSUME IInv, NEW e \in Elems, Create(e) \/ DropValue(e)
    PROVE  IInv'
<1>1. /\ pc \in {"none", "vec"} /\ pc' = pc /\ own[e] # "vec"
      /\ Give({e}, "caller") \/ Give({e}, "none")
      /\ UNCHANGED <<size, mem, alloc, layout, len, ptr, left, kept, check>>
  BY DEF Create, DropValue, Idle, buffer, locals
<1> QED
  BY <1>1, CallerStep

\* The iterators begin and end.
LEMMA IterStep ==
    ASSUME IInv, DrainAll \/ IntoIter \/ DrainDrop \/ DrainForget \/ IterDrop
    PROVE  IInv'
<1>1. CASE DrainAll \/ IntoIter
  <2>1. /\ pc = "vec" /\ pc' \in {"drain", "iter"} /\ ptr' = 0 /\ left' = len /\ len' = 0
        /\ UNCHANGED <<size, mem, alloc, layout, kept, check, own>>
    BY <1>1 DEF DrainAll, IntoIter, buffer
  <2> QED
    BY <2>1, IterStart
<1>2. CASE DrainDrop \/ DrainForget
  <2>1. /\ pc \in {"drain", "iter"} /\ pc' \in {"vec", "none"} /\ pc' # "none"
        /\ size' = size /\ len' = len /\ kept' = kept /\ check' = check
        /\ alloc' = layout' /\ layout' = layout
    BY <1>2 DEF DrainDrop, DrainForget, IInv
  <2>2. Rest("none") \/ Rest("leaked")
    BY <1>2 DEF DrainDrop, DrainForget
  <2> QED
    BY <2>1, <2>2, RestStep
<1>3. CASE IterDrop
  <2>1. /\ pc \in {"drain", "iter"} /\ pc' \in {"vec", "none"} /\ Rest("none") /\ layout' = 0
        /\ size' = size /\ len' = len /\ kept' = kept /\ check' = check
    BY <1>3 DEF IterDrop
  <2>2. alloc' = 0
    BY <1>3, Freed DEF IterDrop
  <2> QED
    BY <2>1, <2>2, RestStep
<1> QED
  BY <1>1, <1>2, <1>3

LEMMA InitHolds == Init => IInv
<1> SUFFICES ASSUME Init PROVE IInv
  OBVIOUS
<1>1. TypeOK
  BY DEF Init, TypeOK, Empty
<1>2. len = 0 /\ ptr = 0 /\ left = 0 /\ layout = 0 /\ alloc = 0 /\ pc = "none" /\ size \in Nat
  BY SizesAssumption DEF Init
<1>3. Owned = {}
  BY <1>2 DEF Owned
<1>4. (\A i \in Slots : mem[i] = None) /\ (\A e \in Elems : own[e] = "none")
  BY DEF Init, Empty
<1>5. Full /\ Injective
  BY <1>3, <1>4 DEF Full, Injective
<1>6. Exactly
  BY <1>4, NoneAssumption DEF Exactly
<1>7. StateInv
  BY <1>2 DEF StateInv
<1>8. CapacityFits
  BY <1>2, Width DEF CapacityFits, Capacity
<1> QED
  BY <1>1, <1>2, <1>5, <1>6, <1>7, <1>8 DEF IInv

LEMMA NextStep == IInv /\ [Next]_vars => IInv'
<1> SUFFICES ASSUME IInv, [Next]_vars PROVE IInv'
  OBVIOUS
<1>1. ASSUME NEW e \in Elems, Create(e) \/ DropValue(e) \/ Push(e) \/ PushWithinCapacity(e)
      PROVE  IInv'
  BY <1>1, ValueStep, PushStep, PushWithinStep
<1>2. ASSUME NEW e \in Elems, NEW n \in Usize,
             FromElem(n, e) \/ ExtendWith(n, e) \/ Resize(n, e) \/ InsertWithinCapacity(n, e)
      PROVE  IInv'
  BY <1>2, FromElemStep, ExtendWithStep, ResizeStep, InsertStep
<1>3. ASSUME NEW n \in 0..MaxSlice,
             ExtendFromSlice(n) \/ \E s \in Values("caller", n) : FromBox(s)
      PROVE  IInv'
  BY <1>3, ExtendFromSliceStep, FromBoxStep
<1>4. ASSUME NEW n \in Usize, WithCapacity(n) \/ Reserve(n) \/ Remove(n) \/ Truncate(n)
      PROVE  IInv'
  BY <1>4, MakeStep, RemoveStep, TruncateStep
<1>5. CASE Pop \/ DropVec \/ IntoRawParts \/ FromRawParts
  BY <1>5, PopStep, DropVecStep, RawStep
<1>6. CASE RetainStart \/ RetainDone \/ \E yes \in BOOLEAN : RetainCheck(yes)
  BY <1>6, RetainStartStep, RetainDoneStep, RetainCheckStep
<1>7. CASE DrainAll \/ DrainDrop \/ DrainForget \/ IntoIter \/ IterNext \/ IterDrop \/ Collect
  BY <1>7, IterStep, IterNextStep, CollectStep
<1>8. CASE UNCHANGED vars
  <2>1. UNCHANGED <<size, pc, mem, alloc, layout, len, ptr, left, kept, check, own>>
    BY <1>8 DEF vars
  <2>2. Owned' = Owned /\ Capacity' = Capacity
    BY <2>1 DEF Owned, Capacity
  <2>3. Full' /\ Injective' /\ Exactly'
    BY <2>1, <2>2, Untouched
  <2>4. TypeOK' /\ StateInv' /\ CapacityFits'
    BY <2>1, <2>2 DEF IInv, TypeOK, StateInv, CapacityFits, Slots
  <2> QED
    BY <2>1, <2>3, <2>4 DEF IInv
<1> QED
  BY <1>1, <1>2, <1>3, <1>4, <1>5, <1>6, <1>7, <1>8 DEF Next

\* The inductive invariant of Vec: TypeOK, which range of slots is live in which
\* state of the program, and that the values in the slots, the slots in use and
\* the values moved into the Vec are the same, one to one.
THEOREM Invariant == Spec => []IInv
BY InitHolds, NextStep, PTL DEF Spec

\* Every slot that a Vec or its iterator reads or drops later holds a value of its
\* own, and every value moved in is in one: push, insert, remove, retain, drain_all,
\* collect and a forgotten DrainAll drop nothing twice and leak nothing of the Vec.
THEOREM OwnedOnceAlways == Spec => []OwnedOnce
<1>1. IInv => OwnedOnce
  <2> SUFFICES ASSUME IInv PROVE OwnedOnce
    OBVIOUS
  <2>1. len * left = 0
    <3>1. len = 0 \/ left = 0
      BY DEF IInv, StateInv, TypeOK
    <3> QED
      BY <3>1 DEF IInv, TypeOK
  <2>2. Owned \subseteq Slots /\ \A i \in Owned : mem[i] \in Elems /\ own[mem[i]] = "vec"
    BY OwnedSlots
  <2>3. \A i, j \in Owned : mem[i] = mem[j] => i = j
    BY <2>2, NoneAssumption DEF IInv, Injective
  <2>4. \A e \in Elems : own[e] = "vec" => \E i \in Owned : mem[i] = e
    BY NoneAssumption DEF IInv, Exactly, Full
  <2> QED
    BY <2>1, <2>2, <2>3, <2>4, NoneAssumption DEF OwnedOnce
<1> QED
  BY <1>1, Invariant, PTL

\* The layout that reserve, collect and the destructors give to the allocator is
\* that of the allocation, no value lies outside of it, and nothing stays allocated
\* without a Vec.
THEOREM AllocExactAlways == Spec => []AllocExact
<1>1. IInv => AllocExact
  <2> SUFFICES ASSUME IInv PROVE AllocExact
    OBVIOUS
  <2>1. alloc = layout /\ (pc = "none" => alloc = 0)
    BY DEF IInv, StateInv
  <2>2. \A i \in Slots : mem[i] # None => i <= Capacity
    BY OwnedSlots DEF IInv, Full
  <2> QED
    BY <2>1, <2>2 DEF AllocExact
<1> QED
  BY <1>1, Invariant, PTL

\* The capacity in bytes is at most isize::MAX and twice the capacity is at most
\* usize::MAX, so the doubling in reserve does not overflow; len is at most the
\* capacity.
THEOREM CapacityFitsAlways == Spec => []CapacityFits
<1>1. IInv => CapacityFits
  BY DEF IInv
<1> QED
  BY <1>1, Invariant, PTL

\* The buffer of a Vec, its layout and its values agree, for any size of T and any
\* width of usize.
THEOREM VecIsSound == Spec => []VecInv
BY OwnedOnceAlways, AllocExactAlways, CapacityFitsAlways, PTL DEF VecInv

-----------------------------------------------------------------------------
(* The refinement of KVecSpec.                                             *)

\* What a slot and a buffer can hold.
Val == Elems \cup {None}
Buffers == [Slots -> Val]

\* A run of slots is a sequence.
LEMMA RunSeq ==
    ASSUME NEW m \in Buffers, NEW a \in Nat, NEW b \in a..UsizeMax
    PROVE  /\ Run(m, a, b) \in Seq(Val)
           /\ Len(Run(m, a, b)) = b - a
           /\ \A i \in 1..(b - a) : Run(m, a, b)[i] = m[a + i]
<1>1. b - a \in Nat /\ \A i \in 1..(b - a) : a + i \in Slots
  BY Width
<1>2. Run(m, a, b) \in [1..(b - a) -> Val]
  BY <1>1 DEF Run, Buffers
<1>3. Run(m, a, b) \in Seq(Val)
  BY <1>1, <1>2, SeqDef
<1>4. DOMAIN Run(m, a, b) = 1..Len(Run(m, a, b)) /\ Len(Run(m, a, b)) \in Nat
  BY <1>3, LenProperties
<1>5. Len(Run(m, a, b)) = b - a
  BY <1>1, <1>2, <1>4
<1> QED
  BY <1>3, <1>5 DEF Run

\* Outside of retain, num_kept is 0.
KeptInv == pc # "retain" => kept = 0

LEMMA KeptStep == IInv /\ KeptInv /\ [Next]_vars => KeptInv'
<1> USE DEF KeptInv, locals
<1> SUFFICES ASSUME IInv, KeptInv, Next PROVE KeptInv'
  BY DEF vars
<1> QED
  BY DEF Next, Create, DropValue, Push, PushWithinCapacity, FromElem, ExtendWith,
    Resize, InsertWithinCapacity, ExtendFromSlice, FromBox, WithCapacity, Reserve,
    Remove, Truncate, Pop, DropVec, IntoRawParts, FromRawParts, RetainStart,
    RetainDone, RetainCheck, DrainAll, DrainDrop, DrainForget, IntoIter, IterNext,
    IterDrop, Collect

LEMMA AbstractInit == Init => Abstract!Init
<1> SUFFICES ASSUME Init PROVE Abstract!Init
  OBVIOUS
<1>1. Sequence = << >>
  BY DEF Init, Sequence, Run
<1>2. Capacity \in {0, UsizeMax}
  BY DEF Init, Capacity
<1> QED
  BY <1>1, <1>2 DEF Init, Abstract!Init

\* The bounds of the runs of slots, in one state and in the next.
Bounds ==
    /\ mem \in Buffers
    /\ len \in Nat /\ ptr \in Nat /\ left \in Nat /\ kept \in Nat /\ check \in Nat
    /\ Capacity \in Nat /\ Capacity <= UsizeMax /\ len <= Capacity /\ ptr + left <= Capacity
    /\ pc = "retain" => kept <= check /\ check <= len
    /\ size \in Nat /\ layout \in Nat
    /\ size # 0 => Capacity = layout
    /\ size = 0 => Capacity = UsizeMax /\ layout = 0
    /\ UsizeMax \in Nat

LEMMA BoundsHold == IInv => Bounds
<1> SUFFICES ASSUME IInv PROVE Bounds
  OBVIOUS
<1>1. Capacity \in Nat /\ Capacity <= UsizeMax
  BY OwnedSlots
<1>2. ptr + left <= Capacity
  BY <1>1 DEF IInv, StateInv, TypeOK
<1> QED
  BY <1>1, <1>2, Width, SizesAssumption DEF IInv, StateInv, TypeOK, CapacityFits, Bounds, Capacity, Buffers, Val

LEMMA BoundsKept == IInv' => Bounds'
BY BoundsHold, PTL

\* A call that changes neither the values, nor the capacity, nor the borrower.
LEMMA Still ==
    ASSUME UNCHANGED <<size, pc, mem, layout, len, ptr, left, kept, check>>
    PROVE  Sequence' = Sequence /\ Capacity' = Capacity
BY DEF Sequence, Capacity

\* Runs of two buffers that agree.
LEMMA RunSame ==
    ASSUME NEW m \in Buffers, NEW k \in Buffers,
           NEW a \in Nat, NEW b \in a..UsizeMax, NEW c \in Nat, c + (b - a) <= UsizeMax,
           \A i \in 1..(b - a) : m[a + i] = k[c + i]
    PROVE  Run(m, a, b) = Run(k, c, c + (b - a))
BY DEF Run

LEMMA RunEmpty ==
    ASSUME NEW m, NEW a \in Nat
    PROVE  Run(m, a, a) = << >>
BY DEF Run

\* A run from the first slot on.
LEMMA RunZero ==
    ASSUME NEW m \in Buffers, NEW b \in 0..UsizeMax
    PROVE  /\ Run(m, 0, b) \in Seq(Val)
           /\ Len(Run(m, 0, b)) = b
           /\ \A i \in 1..b : Run(m, 0, b)[i] = m[i]
<1>1. ASSUME NEW a \in Nat, a = 0
      PROVE  /\ Run(m, a, b) \in Seq(Val)
             /\ Len(Run(m, a, b)) = b
             /\ \A i \in 1..b : Run(m, a, b)[i] = m[i]
  <2>1. b \in a..UsizeMax /\ b - a = b /\ \A i \in 1..b : a + i = i
    BY <1>1, Width
  <2>2. /\ Run(m, a, b) \in Seq(Val)
        /\ Len(Run(m, a, b)) = b - a
        /\ \A i \in 1..(b - a) : Run(m, a, b)[i] = m[a + i]
    BY <2>1, RunSeq
  <2> QED
    BY <2>1, <2>2
<1> QED
  BY <1>1

\* The start of a longer run.
LEMMA RunStart ==
    ASSUME NEW m \in Buffers, NEW k \in Buffers,
           NEW b \in 0..UsizeMax, NEW a \in 0..UsizeMax, a <= b,
           \A i \in 1..a : k[i] = m[i]
    PROVE  SubSeq(Run(m, 0, b), 1, a) = Run(k, 0, a)
<1>1. Run(m, 0, b) \in Seq(Val) /\ Len(Run(m, 0, b)) = b /\ \A i \in 1..b : Run(m, 0, b)[i] = m[i]
  BY RunZero
<1>2. Run(k, 0, a) \in Seq(Val) /\ Len(Run(k, 0, a)) = a /\ \A i \in 1..a : Run(k, 0, a)[i] = k[i]
  BY RunZero
<1> DEFINE r == Run(m, 0, b)
<1> DEFINE q == Run(k, 0, a)
<1> HIDE DEF r, q
<1>3. \A i \in 1..a : r[i] \in Val
  BY <1>1, ElementOfSeq DEF r
<1>4. /\ SubSeq(r, 1, a) \in Seq(Val) /\ Len(SubSeq(r, 1, a)) = a
      /\ \A i \in 1..a : SubSeq(r, 1, a)[i] = r[i]
  BY <1>3, SubSeqProperties
<1>5. \A i \in 1..a : SubSeq(r, 1, a)[i] = q[i]
  BY <1>1, <1>2, <1>4 DEF r, q
<1> QED
  BY <1>2, <1>4, <1>5, SeqEqual DEF r, q

\* The buffer is the sequence of a Vec, and the rest of it that of an iterator.
LEMMA VecSequence == IInv /\ pc \in {"none", "vec", "raw"} =>
    /\ Sequence = Run(mem, 0, len) /\ Sequence \in Seq(Val) /\ Len(Sequence) = len
    /\ len \in 0..UsizeMax
    /\ \A i \in 1..len : Sequence[i] = mem[i]
<1> SUFFICES ASSUME IInv, pc \in {"none", "vec", "raw"}
             PROVE  /\ Sequence = Run(mem, 0, len) /\ Sequence \in Seq(Val) /\ Len(Sequence) = len
                    /\ len \in 0..UsizeMax
                    /\ \A i \in 1..len : Sequence[i] = mem[i]
  OBVIOUS
<1>1. mem \in Buffers /\ len \in 0..UsizeMax
  BY BoundsHold DEF Bounds
<1>2. Sequence = Run(mem, 0, len)
  BY DEF Sequence
<1> QED
  BY <1>1, <1>2, RunZero

LEMMA VecSequenceNext == IInv' /\ pc' \in {"none", "vec", "raw"} =>
    /\ Sequence' = Run(mem', 0, len') /\ Sequence' \in Seq(Val) /\ Len(Sequence') = len'
    /\ len' \in 0..UsizeMax
    /\ \A i \in 1..len' : Sequence'[i] = mem'[i]
<1>1. (IInv /\ pc \in {"none", "vec", "raw"} =>
        /\ Sequence = Run(mem, 0, len) /\ Sequence \in Seq(Val) /\ Len(Sequence) = len
        /\ len \in 0..UsizeMax
        /\ \A i \in 1..len : Sequence[i] = mem[i])'
  BY VecSequence, PTL
<1> QED
  BY <1>1

\* A call that fails changes nothing but its result.
LEMMA FailsStep ==
    ASSUME NEW name, UNCHANGED <<size, pc, mem, layout, len, ptr, left, kept, check>>,
           op' = <<name, Err>>
    PROVE  Abstract!Fails(name)
BY Still DEF Abstract!Fails

\* reserve enlarges the capacity only if it has to.
LEMMA RoomStep ==
    ASSUME IInv, NEW n \in Nat, ReserveOk(n), UNCHANGED size
    PROVE  Abstract!Room(len + n)
<1>1. len + n <= Capacity' /\ layout' \in Nat
  BY ReserveGrows
<1>2. len \in Nat /\ Capacity \in Nat /\ UsizeMax \in Nat
  BY BoundsHold DEF Bounds
<1>3. Capacity' \in Nat
  BY <1>1, <1>2 DEF Capacity
<1>4. Capacity' # Capacity => ~Fits(n)
  BY DEF ReserveOk, Capacity
<1>5. Capacity' # Capacity => Capacity < len + n
  BY <1>2, <1>4 DEF Fits
<1> QED
  BY <1>1, <1>2, <1>3, <1>5 DEF Abstract!Room

\* Values written behind the others extend the sequence.
LEMMA Extended ==
    ASSUME IInv, IInv', pc \in {"none", "vec"}, pc' = "vec", NEW s \in Seq(Elems),
           mem' = Write(s, len), len' = len + Len(s)
    PROVE  /\ Len(Sequence) = len /\ Len(Sequence') = len + Len(s)
           /\ SubSeq(Sequence', 1, len) = Sequence
           /\ Len(s) # 0 => Sequence'[len + Len(s)] = s[Len(s)]
<1>1. /\ Sequence = Run(mem, 0, len) /\ Len(Sequence) = len /\ len \in 0..UsizeMax
      /\ Sequence' = Run(mem', 0, len') /\ Len(Sequence') = len' /\ len' \in 0..UsizeMax
      /\ \A i \in 1..len' : Sequence'[i] = mem'[i]
  BY VecSequence, VecSequenceNext
<1>2. mem \in Buffers /\ mem' \in Buffers
  BY BoundsHold, BoundsKept DEF Bounds
<1>3. Len(s) \in Nat /\ UsizeMax \in Nat
  BY Width
<1>4. /\ len \in Nat /\ len <= len' /\ len' <= UsizeMax
      /\ \A i \in 1..len : i \in Slots /\ i \notin (len + 1)..(len + Len(s))
  BY <1>1, <1>3, Width
<1>5. \A i \in 1..len : mem[i] = mem'[i]
  BY <1>4 DEF Write
<1>6. SubSeq(Sequence', 1, len) = Sequence
  BY <1>1, <1>2, <1>4, <1>5, RunStart
<1>7. ASSUME Len(s) # 0 PROVE Sequence'[len + Len(s)] = s[Len(s)]
  <2>1. /\ len + Len(s) \in 1..len' /\ len + Len(s) \in Slots
        /\ len + Len(s) \in (len + 1)..(len + Len(s)) /\ (len + Len(s)) - len = Len(s)
    BY <1>1, <1>3, <1>7, Width
  <2> QED
    BY <1>1, <2>1 DEF Write
<1> QED
  BY <1>1, <1>6, <1>7

-----------------------------------------------------------------------------
(* The calls that need room.                                               *)

LEMMA AbstractPush ==
    ASSUME IInv, IInv', KeptInv, NEW v \in Elems, Push(v)
    PROVE  Abstract!Next
<1>1. pc = "vec" /\ pc' = "vec" /\ UNCHANGED <<size, ptr, left, kept, check>>
  BY DEF Push, locals
<1>2. CASE ReserveOk(1) /\ PushUnchecked(v) /\ Return("push", v)
  <2>0. <<v>> \in Seq(Elems) /\ Len(<<v>>) = 1 /\ <<v>>[1] = v
    OBVIOUS
  <2>1. PICK s \in Seq(Elems) : s = <<v>> /\ Len(s) = 1 /\ s[1] = v
    BY <2>0, Zenon
  <2>2. mem' = Write(s, len) /\ len' = len + Len(s)
    BY <1>2, <2>1 DEF PushUnchecked
  <2>a. /\ Len(Sequence) = len /\ Len(Sequence') = len + Len(s)
        /\ SubSeq(Sequence', 1, len) = Sequence
        /\ Len(s) # 0 => Sequence'[len + Len(s)] = s[Len(s)]
    BY <1>1, <2>2, Extended
  <2>3. /\ Len(Sequence) = len /\ Len(Sequence') = len + 1
        /\ SubSeq(Sequence', 1, len) = Sequence
        /\ Sequence'[len + 1] = v
    BY <2>1, <2>a
  <2>4. Abstract!Room(len + 1)
    BY <1>1, <1>2, RoomStep
  <2>5. Abstract!Extend("push", 1, v, v)
    BY <1>1, <1>2, <2>3, <2>4 DEF Abstract!Extend, Abstract!Last, Return
  <2> QED
    BY <1>1, <2>5 DEF Abstract!Next, Abstract!Grow
<1>3. CASE ReserveErr(1) /\ UNCHANGED <<mem, len>> /\ Return("push", Err)
  <2>1. Abstract!Fails("push")
    BY <1>1, <1>3, FailsStep DEF ReserveErr, Return
  <2> QED
    BY <1>1, <2>1 DEF Abstract!Next, Abstract!Grow
<1> QED
  BY <1>2, <1>3 DEF Push

\* extend_with, for those who call it.
LEMMA ExtendedWith ==
    ASSUME IInv, IInv', pc \in {"none", "vec"}, pc' = "vec", NEW n \in Nat, NEW v \in Elems,
           ExtendOk(n, v), UNCHANGED <<size, ptr, left, kept, check>>
    PROVE  /\ Len(Sequence) = len /\ Len(Sequence') = len + n
           /\ SubSeq(Sequence', 1, len) = Sequence
           /\ n # 0 => Sequence'[Len(Sequence')] = v
           /\ Abstract!Room(len + n)
<1>1. /\ Sequence = Run(mem, 0, len) /\ Len(Sequence) = len /\ len \in 0..UsizeMax
      /\ Sequence' = Run(mem', 0, len') /\ Len(Sequence') = len' /\ len' \in 0..UsizeMax
  BY VecSequence, VecSequenceNext
<1>2. CASE n = 0
  <2>1. UNCHANGED <<mem, alloc, layout, len>>
    BY <1>2 DEF ExtendOk, buffer
  <2>2. mem \in Buffers /\ len \in Nat /\ Capacity \in Nat /\ len <= Capacity
    BY BoundsHold DEF Bounds
  <2>3. SubSeq(Sequence', 1, len) = Sequence
    BY <1>1, <2>1, <2>2, RunStart
  <2>4. Abstract!Room(len + n)
    BY <1>2, <2>1, <2>2 DEF Abstract!Room, Capacity
  <2> QED
    BY <1>1, <1>2, <2>1, <2>2, <2>3, <2>4
<1>3. CASE n # 0
  <2>1. PICK s \in Clones(n, v) : mem' = Write(s, len)
    BY <1>3 DEF ExtendOk
  <2>2. ReserveOk(n) /\ len' = len + n
    BY <1>3 DEF ExtendOk
  <2>3. PICK t \in Values("none", n - 1) : s = Append(t, v)
    BY <2>1 DEF Clones
  <2>4. t \in Seq(Elems) /\ Len(t) = n - 1
    BY <1>3, <2>3, ValuesSeq
  <2>5. s \in Seq(Elems) /\ Len(s) = n /\ s[n] = v
    BY <2>3, <2>4
  <2>6. Abstract!Room(len + n)
    BY <2>2, RoomStep
  <2>7. /\ Len(Sequence') = len + n
        /\ SubSeq(Sequence', 1, len) = Sequence
        /\ Sequence'[len + n] = v
    BY <1>3, <2>1, <2>2, <2>5, Extended
  <2> QED
    BY <1>1, <2>6, <2>7
<1> QED
  BY <1>2, <1>3

LEMMA AbstractExtendWith ==
    ASSUME IInv, IInv', KeptInv, NEW n \in Usize, NEW v \in Elems, ExtendWith(n, v)
    PROVE  Abstract!Next
<1>1. pc = "vec" /\ pc' = "vec" /\ UNCHANGED <<size, ptr, left, kept, check>> /\ n \in Nat
  BY Width DEF ExtendWith, locals, Usize
<1>2. CASE ExtendOk(n, v) /\ Return("extend_with", v)
  <2>1. Abstract!Extend("extend_with", n, v, v)
    BY <1>1, <1>2, ExtendedWith DEF Abstract!Extend, Abstract!Last, Return
  <2> QED
    BY <1>1, <2>1 DEF Abstract!Next, Abstract!Grow, Abstract!Usize, Usize
<1>3. CASE ExtendErr(n, v) /\ Return("extend_with", Err)
  <2>1. Abstract!Fails("extend_with")
    BY <1>1, <1>3, FailsStep DEF ExtendErr, ReserveErr, Return
  <2> QED
    BY <1>1, <2>1 DEF Abstract!Next, Abstract!Grow
<1> QED
  BY <1>2, <1>3 DEF ExtendWith

LEMMA AbstractReserve ==
    ASSUME IInv, IInv', KeptInv, NEW n \in Usize, Reserve(n)
    PROVE  Abstract!Next
<1>1. pc = "vec" /\ UNCHANGED <<size, pc, mem, len, ptr, left, kept, check>> /\ n \in Nat
  BY Width DEF Reserve, locals, Usize
<1>2. CASE ReserveOk(n) /\ Return("reserve", n)
  <2>1. Abstract!Room(len + n)
    BY <1>1, <1>2, RoomStep
  <2>2. Sequence' = Sequence /\ Len(Sequence) = len
    BY <1>1, VecSequence, VecSequenceNext
  <2> QED
    BY <1>1, <1>2, <2>1, <2>2 DEF Abstract!Next, Abstract!Grow, Abstract!Usize, Usize, Return
<1>3. CASE ReserveErr(n) /\ Return("reserve", Err)
  <2>1. Abstract!Fails("reserve")
    BY <1>1, <1>3, FailsStep DEF ReserveErr, Return
  <2> QED
    BY <1>1, <2>1 DEF Abstract!Next, Abstract!Grow
<1> QED
  BY <1>2, <1>3 DEF Reserve

LEMMA AbstractExtendFromSlice ==
    ASSUME IInv, IInv', KeptInv, NEW n \in 0..MaxSlice, ExtendFromSlice(n)
    PROVE  Abstract!Next
<1>1. /\ pc = "vec" /\ UNCHANGED <<size, pc, ptr, left, kept, check>>
      /\ n \in Nat /\ n \in Usize
  BY Width, SizesAssumption DEF ExtendFromSlice, locals, Usize
<1>2. CASE /\ ReserveOk(n) /\ len' = len + n /\ Return("extend_from_slice", n)
           /\ \E s \in Values("none", n) : mem' = Write(s, len)
  <2>1. PICK s \in Values("none", n) : mem' = Write(s, len)
    BY <1>2
  <2>2. s \in Seq(Elems) /\ Len(s) = n
    BY <1>1, ValuesSeq
  <2>3. /\ Len(Sequence) = len /\ Len(Sequence') = len + n
        /\ SubSeq(Sequence', 1, len) = Sequence
    BY <1>1, <1>2, <2>1, <2>2, Extended
  <2>4. Abstract!Room(len + n)
    BY <1>1, <1>2, RoomStep
  <2>5. Abstract!Extend("extend_from_slice", n, None, n)
    BY <1>1, <1>2, <2>3, <2>4 DEF Abstract!Extend, Return
  <2> QED
    BY <1>1, <2>5 DEF Abstract!Next, Abstract!Grow, Abstract!Usize, Usize
<1>3. CASE ReserveErr(n) /\ UNCHANGED <<mem, len>> /\ Return("extend_from_slice", Err)
  <2>1. Abstract!Fails("extend_from_slice")
    BY <1>1, <1>3, FailsStep DEF ReserveErr, Return
  <2> QED
    BY <1>1, <2>1 DEF Abstract!Next, Abstract!Grow
<1> QED
  BY <1>2, <1>3 DEF ExtendFromSlice

-----------------------------------------------------------------------------
(* Values that are put between others, or taken out.                       *)

LEMMA Joined ==
    ASSUME NEW p \in Seq(Val), NEW q \in Seq(Val)
    PROVE  /\ p \o q \in Seq(Val) /\ Len(p \o q) = Len(p) + Len(q)
           /\ \A i \in 1..Len(p) : (p \o q)[i] = p[i]
           /\ \A i \in 1..Len(q) : (p \o q)[Len(p) + i] = q[i]
<1>0. Len(p) \in Nat /\ Len(q) \in Nat
  BY LenProperties
<1>1. /\ p \o q \in Seq(Val) /\ Len(p \o q) = Len(p) + Len(q)
      /\ \A i \in 1..(Len(p) + Len(q)) : (p \o q)[i] = IF i <= Len(p) THEN p[i] ELSE q[i - Len(p)]
  BY ConcatProperties
<1>2. \A i \in 1..Len(p) : (p \o q)[i] = p[i]
  BY <1>0, <1>1
<1>3. \A i \in 1..Len(q) : (p \o q)[Len(p) + i] = q[i]
  <2> TAKE i \in 1..Len(q)
  <2>1. Len(p) + i \in 1..(Len(p) + Len(q)) /\ ~(Len(p) + i <= Len(p)) /\ (Len(p) + i) - Len(p) = i
    BY <1>0
  <2> QED
    BY <1>1, <2>1
<1> QED
  BY <1>1, <1>2, <1>3

\* Sequences that differ in what they have at place k, as InsertAt says.
LEMMA InsertedAt ==
    ASSUME NEW s \in Seq(Val), NEW t \in Seq(Val), NEW v \in Val, NEW k \in 0..Len(s),
           Len(t) = Len(s) + 1, \A i \in 1..k : t[i] = s[i], t[k + 1] = v,
           \A i \in (k + 1)..Len(s) : t[i + 1] = s[i]
    PROVE  t = Abstract!InsertAt(s, k + 1, v)
<1> DEFINE n == Len(s)
<1> DEFINE p == SubSeq(s, 1, k)
<1> DEFINE e == <<v>>
<1> DEFINE q == SubSeq(s, k + 1, n)
<1>1. n \in Nat /\ k \in Nat /\ k <= n /\ \A i \in 1..n : s[i] \in Val
  BY LenProperties
<1>2. p \in Seq(Val) /\ Len(p) = k /\ \A i \in 1..k : p[i] = s[i]
  <2>1. \A i \in 1..k : s[i] \in Val
    BY <1>1
  <2>2. /\ SubSeq(s, 1, k) \in Seq(Val) /\ Len(SubSeq(s, 1, k)) = (IF 1 <= k THEN k - 1 + 1 ELSE 0)
        /\ \A i \in 1..(k - 1 + 1) : SubSeq(s, 1, k)[i] = s[1 + i - 1]
    BY <1>1, <2>1, SubSeqProperties
  <2> QED
    BY <1>1, <2>2
<1>3. q \in Seq(Val) /\ Len(q) = n - k /\ \A i \in 1..(n - k) : q[i] = s[k + i]
  <2>1. \A i \in (k + 1)..n : s[i] \in Val
    BY <1>1
  <2>2. k + 1 \in Int /\ n \in Int
    BY <1>1
  <2>3. /\ SubSeq(s, k + 1, n) \in Seq(Val)
        /\ Len(SubSeq(s, k + 1, n)) = (IF k + 1 <= n THEN n - (k + 1) + 1 ELSE 0)
        /\ \A i \in 1..(n - (k + 1) + 1) : SubSeq(s, k + 1, n)[i] = s[(k + 1) + i - 1]
    BY <2>1, <2>2, SubSeqProperties
  <2> QED
    BY <1>1, <2>3
<1>4. e \in Seq(Val) /\ Len(e) = 1 /\ e[1] = v
  OBVIOUS
<1> HIDE DEF n, p, q, e
<1> DEFINE f == p \o e
<1>5. /\ f \in Seq(Val) /\ Len(f) = Len(p) + Len(e)
      /\ \A i \in 1..Len(p) : f[i] = p[i]
      /\ \A i \in 1..Len(e) : f[Len(p) + i] = e[i]
  BY <1>2, <1>4, Joined
<1> HIDE DEF f
<1>a. f \in Seq(Val) /\ Len(f) = k + 1 /\ f[k + 1] = v /\ \A i \in 1..k : f[i] = s[i]
  BY <1>2, <1>4, <1>5
<1>b. k + 1 \in Nat /\ n - k \in Nat /\ (k + 1) + (n - k) = n + 1
  BY <1>1
<1> DEFINE g == f \o q
<1>c. /\ g \in Seq(Val) /\ Len(g) = Len(f) + Len(q)
      /\ \A i \in 1..Len(f) : g[i] = f[i]
      /\ \A i \in 1..Len(q) : g[Len(f) + i] = q[i]
  BY <1>a, <1>3, Joined
<1> HIDE DEF g
<1>6. /\ g \in Seq(Val) /\ Len(g) = n + 1
      /\ \A i \in 1..(k + 1) : g[i] = f[i]
      /\ \A i \in 1..(n - k) : g[(k + 1) + i] = q[i]
  BY <1>a, <1>b, <1>c, <1>3
<1>7. \A i \in 1..(n + 1) : t[i] = g[i]
  <2> TAKE i \in 1..(n + 1)
  <2>1. CASE i \in 1..k
    <3>1. i \in 1..(k + 1)
      BY <1>1, <2>1
    <3> QED
      BY <1>a, <1>6, <2>1, <3>1
  <2>2. CASE i = k + 1
    <3>1. k + 1 \in 1..(k + 1)
      BY <1>1
    <3> QED
      BY <1>a, <1>6, <2>2, <3>1
  <2>3. CASE i > k + 1
    <3>1. PICK j \in 1..(n - k) : i = (k + 1) + j
      BY <1>1, <2>3
    <3>2. k + j \in (k + 1)..n /\ (k + j) + 1 = i
      BY <1>1, <3>1
    <3>3. t[i] = s[k + j]
      BY <3>2 DEF n
    <3>4. g[i] = s[k + j]
      BY <1>3, <1>6, <3>1
    <3> QED
      BY <3>3, <3>4
  <2>4. i \in 1..k \/ i = k + 1 \/ i > k + 1
    BY <1>1
  <2> QED
    BY <2>1, <2>2, <2>3, <2>4
<1>8. Len(t) = n + 1
  BY DEF n
<1>9. t = g
  BY <1>b, <1>6, <1>7, <1>8, SeqEqual
<1>10. Abstract!InsertAt(s, k + 1, v) = SubSeq(s, 1, k) \o <<v>> \o SubSeq(s, k + 1, Len(s))
  <2>1. (k + 1) - 1 = k
    BY <1>1
  <2>2. SubSeq(s, 1, (k + 1) - 1) = SubSeq(s, 1, k)
    BY <2>1, Zenon
  <2> QED
    BY <2>2, Zenon DEF Abstract!InsertAt
<1> QED
  BY <1>9, <1>10 DEF f, g, p, q, e, n

\* Sequences that differ in what one of them has at place k, as RemoveAt says.
LEMMA RemovedAt ==
    ASSUME NEW s \in Seq(Val), NEW t \in Seq(Val), NEW k \in 1..Len(s),
           Len(t) = Len(s) - 1, \A i \in 1..(k - 1) : t[i] = s[i],
           \A i \in k..(Len(s) - 1) : t[i] = s[i + 1]
    PROVE  t = Abstract!RemoveAt(s, k)
<1> DEFINE n == Len(s)
<1> DEFINE p == SubSeq(s, 1, k - 1)
<1> DEFINE q == SubSeq(s, k + 1, n)
<1>1. n \in Nat /\ k \in Nat /\ 1 <= k /\ k <= n /\ \A i \in 1..n : s[i] \in Val
  BY LenProperties
<1>2. p \in Seq(Val) /\ Len(p) = k - 1 /\ \A i \in 1..(k - 1) : p[i] = s[i]
  <2>1. (\A i \in 1..(k - 1) : s[i] \in Val) /\ k - 1 \in Int
    BY <1>1
  <2>2. /\ SubSeq(s, 1, k - 1) \in Seq(Val)
        /\ Len(SubSeq(s, 1, k - 1)) = (IF 1 <= k - 1 THEN (k - 1) - 1 + 1 ELSE 0)
        /\ \A i \in 1..((k - 1) - 1 + 1) : SubSeq(s, 1, k - 1)[i] = s[1 + i - 1]
    BY <2>1, SubSeqProperties
  <2> QED
    BY <1>1, <2>2
<1>3. q \in Seq(Val) /\ Len(q) = n - k /\ \A i \in 1..(n - k) : q[i] = s[k + i]
  <2>1. (\A i \in (k + 1)..n : s[i] \in Val) /\ k + 1 \in Int /\ n \in Int
    BY <1>1
  <2>2. /\ SubSeq(s, k + 1, n) \in Seq(Val)
        /\ Len(SubSeq(s, k + 1, n)) = (IF k + 1 <= n THEN n - (k + 1) + 1 ELSE 0)
        /\ \A i \in 1..(n - (k + 1) + 1) : SubSeq(s, k + 1, n)[i] = s[(k + 1) + i - 1]
    BY <2>1, SubSeqProperties
  <2> QED
    BY <1>1, <2>2
<1> HIDE DEF n, p, q
<1>0. k - 1 \in Nat /\ n - k \in Nat /\ (k - 1) + (n - k) = n - 1
  BY <1>1
<1> DEFINE g == p \o q
<1>a. /\ g \in Seq(Val) /\ Len(g) = Len(p) + Len(q)
      /\ \A i \in 1..Len(p) : g[i] = p[i]
      /\ \A i \in 1..Len(q) : g[Len(p) + i] = q[i]
  BY <1>2, <1>3, Joined
<1> HIDE DEF g
<1>4. /\ g \in Seq(Val) /\ Len(g) = n - 1
      /\ \A i \in 1..(k - 1) : g[i] = p[i]
      /\ \A i \in 1..(n - k) : g[(k - 1) + i] = q[i]
  BY <1>0, <1>2, <1>3, <1>a
<1>5. \A i \in 1..(n - 1) : t[i] = g[i]
  <2> TAKE i \in 1..(n - 1)
  <2>1. CASE i \in 1..(k - 1)
    BY <1>2, <1>4, <2>1
  <2>2. CASE i > k - 1
    <3>1. PICK j \in 1..(n - k) : i = (k - 1) + j
      BY <1>1, <2>2
    <3>2. i \in k..(n - 1) /\ k + j = i + 1
      BY <1>1, <2>2, <3>1
    <3>3. t[i] = s[k + j]
      BY <3>2 DEF n
    <3>4. g[i] = s[k + j]
      BY <1>3, <1>4, <3>1
    <3> QED
      BY <3>3, <3>4
  <2>3. i \in 1..(k - 1) \/ i > k - 1
    BY <1>1
  <2> QED
    BY <2>1, <2>2, <2>3
<1>6. Len(t) = n - 1
  BY DEF n
<1>7. t = g
  BY <1>0, <1>4, <1>5, <1>6, SeqEqual
<1> QED
  BY <1>7 DEF g, p, q, n, Abstract!RemoveAt

\* push_within_capacity appends, or finds the Vec full.
LEMMA AbstractPushWithin ==
    ASSUME IInv, IInv', KeptInv, NEW v \in Elems, PushWithinCapacity(v)
    PROVE  Abstract!Next
<1>1. pc = "vec" /\ pc' = "vec" /\ UNCHANGED <<size, alloc, layout, ptr, left, kept, check>>
  BY DEF PushWithinCapacity, locals
<1>2. /\ Sequence \in Seq(Val) /\ Len(Sequence) = len /\ len \in 0..UsizeMax
      /\ \A i \in 1..len : Sequence[i] = mem[i]
  BY <1>1, VecSequence
<1>3. Capacity' = Capacity /\ len \in Nat /\ Capacity \in Nat /\ len <= Capacity /\ UsizeMax \in Nat
  BY <1>1, BoundsHold DEF Bounds, Capacity
<1>4. CASE len < Capacity /\ PushUnchecked(v) /\ Return("push_within_capacity", v)
  <2>1. len' = len + 1 /\ mem' = Write(<<v>>, len) /\ Len(<<v>>) = 1 /\ <<v>>[1] = v
    BY <1>4 DEF PushUnchecked
  <2>2. /\ Sequence' \in Seq(Val) /\ Len(Sequence') = len + 1 /\ len + 1 \in 0..UsizeMax
        /\ \A i \in 1..(len + 1) : Sequence'[i] = mem'[i]
    BY <1>1, <2>1, VecSequenceNext
  <2>3. \A i \in 1..len : mem'[i] = mem[i]
    BY <1>3, <2>1, <2>2, Width DEF Write
  <2>4. mem'[len + 1] = v
    <3>1. len + 1 \in Slots /\ len + 1 \in (len + 1)..(len + 1) /\ (len + 1) - len = 1
      BY <1>3, <2>2, Width
    <3> QED
      BY <2>1, <3>1 DEF Write
  <2> DEFINE t == Append(Sequence, v)
  <2>5. /\ t \in Seq(Val) /\ Len(t) = len + 1
        /\ \A i \in 1..len : t[i] = Sequence[i]
        /\ t[len + 1] = v
    BY <1>2, AppendProperties DEF Val
  <2> HIDE DEF t
  <2>6. \A i \in 1..(len + 1) : Sequence'[i] = t[i]
    <3> TAKE i \in 1..(len + 1)
    <3>1. i \in 1..len \/ i = len + 1
      BY <1>3
    <3> QED
      BY <1>2, <2>2, <2>3, <2>4, <2>5, <3>1
  <2>7. Sequence' = t
    BY <2>2, <2>5, <2>6, SeqEqual
  <2>8. Abstract!Becomes(Append(Sequence, v), "push_within_capacity", v)
    BY <1>1, <1>3, <1>4, <2>7 DEF t, Abstract!Becomes, Return
  <2> QED
    BY <1>1, <1>2, <1>4, <2>8 DEF Abstract!Next, Abstract!Within
<1>5. CASE len >= Capacity /\ UNCHANGED <<mem, len>> /\ Return("push_within_capacity", Err)
  <2>1. Abstract!Fails("push_within_capacity")
    BY <1>1, <1>5, FailsStep DEF Return
  <2> QED
    BY <1>1, <1>2, <1>3, <1>5, <2>1 DEF Abstract!Next, Abstract!Within
<1> QED
  BY <1>4, <1>5 DEF PushWithinCapacity

LEMMA AbstractInsert ==
    ASSUME IInv, IInv', KeptInv, NEW index \in Usize, NEW v \in Elems,
           InsertWithinCapacity(index, v)
    PROVE  Abstract!Next
<1>1. pc = "vec" /\ pc' = "vec" /\ UNCHANGED <<size, alloc, layout, ptr, left, kept, check>>
  BY DEF InsertWithinCapacity, locals
<1>2. /\ Sequence \in Seq(Val) /\ Len(Sequence) = len /\ len \in 0..UsizeMax
      /\ \A i \in 1..len : Sequence[i] = mem[i]
  BY <1>1, VecSequence
<1>3. /\ Capacity' = Capacity /\ len \in Nat /\ Capacity \in Nat /\ len <= Capacity
      /\ Capacity <= UsizeMax /\ UsizeMax \in Nat /\ index \in Nat
  BY <1>1, BoundsHold DEF Bounds, Capacity, Usize
<1>4. CASE index <= len /\ len < Capacity
  <2>1. /\ mem' = [Copy(index, index + 1, len - index) EXCEPT ![index + 1] = v]
        /\ len' = len + 1 /\ Return("insert", index)
    BY <1>4 DEF InsertWithinCapacity
  <2>2. /\ Sequence' \in Seq(Val) /\ Len(Sequence') = len + 1
        /\ \A i \in 1..(len + 1) : Sequence'[i] = mem'[i]
    BY <1>1, <2>1, VecSequenceNext
  <2>3. \A i \in 1..index : mem'[i] = mem[i]
    <3> TAKE i \in 1..index
    <3>1. i \in Slots /\ i # index + 1 /\ i \notin ((index + 1) + 1)..((index + 1) + (len - index))
      BY <1>3, <1>4, Width
    <3> QED
      BY <2>1, <3>1 DEF Copy
  <2>4. mem'[index + 1] = v
    <3>1. index + 1 \in Slots
      BY <1>3, <1>4, Width
    <3> QED
      BY <2>1, <3>1 DEF Copy
  <2>5. \A i \in (index + 1)..len : mem'[i + 1] = mem[i]
    <3> TAKE i \in (index + 1)..len
    <3>1. /\ i + 1 \in Slots /\ i + 1 # index + 1
          /\ i + 1 \in ((index + 1) + 1)..((index + 1) + (len - index))
          /\ (i + 1) - (index + 1) + index = i
      BY <1>3, <1>4, Width
    <3> QED
      BY <2>1, <3>1 DEF Copy
  <2>6. /\ \A i \in 1..index : Sequence'[i] = Sequence[i]
        /\ Sequence'[index + 1] = v
        /\ \A i \in (index + 1)..Len(Sequence) : Sequence'[i + 1] = Sequence[i]
    <3>1. /\ \A i \in 1..index : i \in 1..len /\ i \in 1..(len + 1)
          /\ index + 1 \in 1..(len + 1)
          /\ \A i \in (index + 1)..len : i \in 1..len /\ i + 1 \in 1..(len + 1)
      BY <1>3, <1>4
    <3> QED
      BY <1>2, <2>2, <2>3, <2>4, <2>5, <3>1
  <2>7. index \in 0..Len(Sequence) /\ v \in Val /\ Len(Sequence') = Len(Sequence) + 1
    BY <1>2, <1>3, <1>4, <2>2 DEF Val
  <2>8. Sequence' = Abstract!InsertAt(Sequence, index + 1, v)
    BY <1>2, <2>2, <2>6, <2>7, InsertedAt
  <2>9. Abstract!Becomes(Abstract!InsertAt(Sequence, index + 1, v), "insert", index)
    BY <1>1, <1>3, <2>1, <2>8 DEF Abstract!Becomes, Return
  <2> QED
    BY <1>1, <1>2, <1>4, <2>7, <2>9 DEF Abstract!Next, Abstract!Within
<1>5. CASE ~(index <= len /\ len < Capacity)
  <2>1. Abstract!Fails("insert")
    BY <1>1, <1>5, FailsStep DEF Return, InsertWithinCapacity
  <2> QED
    BY <1>1, <2>1 DEF Abstract!Next, Abstract!Within
<1> QED
  BY <1>4, <1>5

LEMMA AbstractRemove ==
    ASSUME IInv, IInv', KeptInv, NEW k \in Usize, Remove(k)
    PROVE  Abstract!Next
<1>1. pc = "vec" /\ pc' = "vec" /\ UNCHANGED <<size, alloc, layout, ptr, left, kept, check>>
  BY DEF Remove, locals
<1>2. /\ Sequence \in Seq(Val) /\ Len(Sequence) = len /\ len \in 0..UsizeMax
      /\ \A i \in 1..len : Sequence[i] = mem[i]
  BY <1>1, VecSequence
<1>3. /\ Capacity' = Capacity /\ len \in Nat /\ UsizeMax \in Nat /\ k \in Nat
  BY <1>1, BoundsHold DEF Bounds, Capacity, Usize
<1>4. CASE k < len
  <2>1. /\ mem' = [Copy(k + 1, k, len - k - 1) EXCEPT ![len] = None]
        /\ len' = len - 1 /\ Return("remove", mem[k + 1])
    BY <1>3, <1>4 DEF Remove
  <2>2. /\ Sequence' \in Seq(Val) /\ Len(Sequence') = len - 1
        /\ \A i \in 1..(len - 1) : Sequence'[i] = mem'[i]
    BY <1>1, <2>1, VecSequenceNext
  <2>3. \A i \in 1..k : mem'[i] = mem[i]
    <3> TAKE i \in 1..k
    <3>1. i \in Slots /\ i # len /\ i \notin (k + 1)..(k + (len - k - 1))
      BY <1>2, <1>3, <1>4, Width
    <3> QED
      BY <2>1, <3>1 DEF Copy
  <2>4. \A i \in (k + 1)..(len - 1) : mem'[i] = mem[i + 1]
    <3> TAKE i \in (k + 1)..(len - 1)
    <3>1. i \in Slots /\ i # len /\ i \in (k + 1)..(k + (len - k - 1)) /\ i - k + (k + 1) = i + 1
      BY <1>2, <1>3, <1>4, Width
    <3> QED
      BY <2>1, <3>1 DEF Copy
  <2>5. /\ k + 1 \in 1..Len(Sequence) /\ (k + 1) - 1 = k
        /\ Len(Sequence') = Len(Sequence) - 1
    BY <1>2, <1>3, <1>4, <2>2
  <2>6. /\ \A i \in 1..((k + 1) - 1) : Sequence'[i] = Sequence[i]
        /\ \A i \in (k + 1)..(Len(Sequence) - 1) : Sequence'[i] = Sequence[i + 1]
    <3>1. /\ \A i \in 1..k : i \in 1..len /\ i \in 1..(len - 1)
          /\ \A i \in (k + 1)..(len - 1) : i + 1 \in 1..len /\ i \in 1..(len - 1)
      BY <1>3, <1>4
    <3> QED
      BY <1>2, <2>2, <2>3, <2>4, <2>5, <3>1
  <2>7. Sequence' = Abstract!RemoveAt(Sequence, k + 1)
    BY <1>2, <2>2, <2>5, <2>6, RemovedAt
  <2>8. Sequence[k + 1] = mem[k + 1] /\ k + 1 \in DOMAIN Sequence
    BY <1>2, <2>5, LenProperties
  <2>9. Abstract!Becomes(Abstract!RemoveAt(Sequence, k + 1), "remove", Sequence[k + 1])
    BY <1>1, <1>3, <2>1, <2>7, <2>8 DEF Abstract!Becomes, Return
  <2> QED
    BY <1>1, <2>8, <2>9 DEF Abstract!Next, Abstract!Take
<1>5. CASE k >= len
  <2>1. Abstract!Fails("remove")
    BY <1>1, <1>5, FailsStep DEF Return, Remove
  <2> QED
    BY <1>1, <2>1 DEF Abstract!Next, Abstract!Take
<1> QED
  BY <1>3, <1>4, <1>5

-----------------------------------------------------------------------------
(* Calls that shorten, end or convert a Vec.                               *)

\* The values behind slot n go.
LEMMA CutSequence ==
    ASSUME IInv, IInv', pc = "vec", pc' \in {"none", "vec", "raw"}, NEW n \in Nat, n <= len,
           mem' = Vacate(n, len), len' = n
    PROVE  Sequence' = SubSeq(Sequence, 1, n)
<1>1. /\ Sequence = Run(mem, 0, len) /\ len \in 0..UsizeMax
      /\ Sequence' = Run(mem', 0, n) /\ n \in 0..UsizeMax
  BY VecSequence, VecSequenceNext
<1>2. mem \in Buffers /\ mem' \in Buffers
  BY BoundsHold, BoundsKept DEF Bounds
<1>3. \A i \in 1..n : mem'[i] = mem[i]
  BY <1>1, Width DEF Vacate
<1> QED
  BY <1>1, <1>2, <1>3, RunStart

\* A sequence is empty if its length is 0.
LEMMA EmptyLength ==
    ASSUME NEW s \in Seq(Val)
    PROVE  s = << >> <=> Len(s) = 0
BY EmptySeq

LEMMA AbstractPop ==
    ASSUME IInv, IInv', KeptInv, Pop
    PROVE  Abstract!Next
<1>1. pc = "vec" /\ pc' = "vec" /\ UNCHANGED <<size, alloc, layout, ptr, left, kept, check>>
  BY DEF Pop, locals
<1>2. /\ Sequence \in Seq(Val) /\ Len(Sequence) = len /\ len \in Nat
      /\ \A i \in 1..len : Sequence[i] = mem[i]
  BY <1>1, VecSequence
<1>3. Capacity' = Capacity
  BY <1>1 DEF Capacity
<1>4. CASE len = 0
  <2>1. Sequence' = Sequence /\ op' = <<"pop", None>>
    BY <1>1, <1>4, Still DEF Pop, Return
  <2>2. Sequence = << >>
    BY <1>2, <1>4, EmptyLength
  <2> QED
    BY <1>1, <1>3, <2>1, <2>2 DEF Abstract!Next, Abstract!Take, Abstract!Becomes
<1>5. CASE len # 0
  <2>1. mem' = Vacate(len - 1, len) /\ len' = len - 1 /\ op' = <<"pop", mem[len]>>
    BY <1>5 DEF Pop, Return
  <2>2. len - 1 \in Nat /\ len - 1 <= len /\ len \in 1..len
    BY <1>2, <1>5
  <2>3. Sequence' = SubSeq(Sequence, 1, len - 1)
    BY <1>1, <2>1, <2>2, CutSequence
  <2>4. Sequence # << >> /\ Sequence[Len(Sequence)] = mem[len]
    BY <1>2, <1>5, <2>2, EmptyLength
  <2> QED
    BY <1>1, <1>2, <1>3, <2>1, <2>3, <2>4
    DEF Abstract!Next, Abstract!Take, Abstract!Becomes, Abstract!Front, Abstract!Last
<1> QED
  BY <1>4, <1>5

LEMMA AbstractTruncate ==
    ASSUME IInv, IInv', KeptInv, NEW n \in Usize, Truncate(n)
    PROVE  Abstract!Next
<1>1. /\ pc = "vec" /\ pc' = "vec" /\ UNCHANGED <<size, alloc, layout, ptr, left, kept, check>>
      /\ op' = <<"truncate", n>>
  BY DEF Truncate, locals, Return
<1>2. Sequence \in Seq(Val) /\ Len(Sequence) = len /\ len \in Nat /\ n \in Nat
  BY <1>1, VecSequence, Width DEF Usize
<1>3. Capacity' = Capacity
  BY <1>1 DEF Capacity
<1> DEFINE k == IF n < Len(Sequence) THEN n ELSE Len(Sequence)
<1>4. Sequence' = SubSeq(Sequence, 1, k)
  <2>1. CASE n <= len
    <3>1. Sequence' = SubSeq(Sequence, 1, n)
      BY <1>1, <1>2, <2>1, CutSequence DEF Truncate, Shorten
    <3>2. k = n
      BY <1>2, <2>1
    <3> QED
      BY <3>1, <3>2
  <2>2. CASE ~(n <= len)
    <3>1. Sequence' = Sequence
      BY <1>1, <2>2, Still DEF Truncate
    <3>2. k = Len(Sequence)
      BY <1>2, <2>2
    <3> QED
      BY <1>2, <3>1, <3>2, SubSeqFull
  <2> QED
    BY <2>1, <2>2
<1>5. Abstract!Becomes(SubSeq(Sequence, 1, k), "truncate", n)
  BY <1>1, <1>3, <1>4 DEF Abstract!Becomes
<1> QED
  BY <1>1, <1>5 DEF Abstract!Next, Abstract!Shorten, Abstract!Usize, Usize

LEMMA AbstractResize ==
    ASSUME IInv, IInv', KeptInv, NEW n \in Usize, NEW v \in Elems, Resize(n, v)
    PROVE  Abstract!Next
<1>1. pc = "vec" /\ pc' = "vec" /\ UNCHANGED <<size, ptr, left, kept, check>>
  BY DEF Resize, locals
<1>2. Sequence \in Seq(Val) /\ Len(Sequence) = len /\ len \in Nat /\ n \in Nat
  BY <1>1, VecSequence, Width DEF Usize
<1>3. CASE n >= len /\ ExtendOk(n - len, v) /\ Return("resize", v)
  <2> DEFINE k == n - len
  <2>1. k \in Nat /\ len + k = n
    BY <1>2, <1>3
  <2>2. ExtendOk(k, v)
    BY <1>3
  <2> HIDE DEF k
  <2>3. /\ Len(Sequence') = len + k
        /\ SubSeq(Sequence', 1, len) = Sequence
        /\ k # 0 => Sequence'[Len(Sequence')] = v
        /\ Abstract!Room(len + k)
    BY <1>1, <2>1, <2>2, ExtendedWith
  <2>4. Abstract!Extend("resize", k, v, v)
    BY <1>1, <1>2, <1>3, <2>3 DEF Abstract!Extend, Abstract!Last, Return
  <2> QED
    BY <1>1, <1>2, <1>3, <2>4 DEF Abstract!Next, Abstract!Grow, Abstract!Usize, Usize, k
<1>4. CASE ExtendErr(n - len, v) /\ Return("resize", Err)
  <2>1. Abstract!Fails("resize")
    BY <1>1, <1>4, FailsStep DEF ExtendErr, ReserveErr, Return
  <2> QED
    BY <1>1, <2>1 DEF Abstract!Next, Abstract!Grow
<1>5. CASE ~(n >= len)
  <2>1. /\ mem' = Vacate(n, len) /\ len' = n /\ op' = <<"resize", v>>
        /\ Capacity' = Capacity
    BY <1>1, <1>5 DEF Resize, Return, Capacity
  <2>2. Sequence' = SubSeq(Sequence, 1, n) /\ n < Len(Sequence)
    BY <1>1, <1>2, <1>5, <2>1, CutSequence
  <2>3. Abstract!Becomes(SubSeq(Sequence, 1, n), "resize", v)
    BY <1>1, <2>1, <2>2 DEF Abstract!Becomes
  <2> QED
    BY <1>1, <2>2, <2>3 DEF Abstract!Next, Abstract!Shorten, Abstract!Usize, Usize
<1> QED
  BY <1>3, <1>4, <1>5 DEF Resize

LEMMA AbstractDropVec ==
    ASSUME IInv, IInv', KeptInv, DropVec
    PROVE  Abstract!Next
<1>1. /\ pc = "vec" /\ pc' = "none" /\ UNCHANGED <<size, kept>> /\ len' = 0 /\ layout' = 0
      /\ op' = <<"drop", None>>
  BY DEF DropVec, Shorten, locals, Return
<1>2. Sequence' = << >>
  BY <1>1, VecSequenceNext, EmptyLength
<1>3. Capacity' \in {0, Capacity}
  BY <1>1 DEF Capacity
<1> QED
  BY <1>1, <1>2, <1>3 DEF Abstract!Next, Abstract!End

LEMMA AbstractRaw ==
    ASSUME IInv, IInv', KeptInv, IntoRawParts \/ FromRawParts
    PROVE  Abstract!Next
<1>1. /\ UNCHANGED <<size, mem, len, kept>>
      /\ pc \in {"vec", "raw"} /\ pc' \in {"vec", "raw"}
  BY DEF IntoRawParts, FromRawParts, buffer, locals
<1>2. Sequence' = Sequence /\ Len(Sequence) = len
  BY <1>1, VecSequence, VecSequenceNext
<1>3. Capacity' = Capacity
  BY <1>1, BoundsHold DEF Capacity, Bounds, IntoRawParts, FromRawParts, buffer
<1> QED
  BY <1>1, <1>2, <1>3
  DEF Abstract!Next, Abstract!Raw, Abstract!Convert, IntoRawParts, FromRawParts, Return

LEMMA AbstractValues ==
    ASSUME NEW e \in Elems, Create(e) \/ DropValue(e)
    PROVE  UNCHANGED Abstract!vars
BY Still DEF Create, DropValue, buffer, locals, Abstract!vars

-----------------------------------------------------------------------------
(* Making a Vec.                                                           *)

LEMMA NothingYet ==
    ASSUME IInv, pc = "none"
    PROVE  len = 0 /\ Sequence = << >> /\ Capacity \in Nat /\ (size # 0 => Capacity = 0)
BY VecSequence, EmptyLength, BoundsHold DEF IInv, StateInv, Capacity, Bounds

LEMMA AbstractWithCapacity ==
    ASSUME IInv, IInv', KeptInv, NEW n \in Usize, WithCapacity(n)
    PROVE  Abstract!Next
<1>1. pc = "none" /\ UNCHANGED <<size, mem, len, ptr, left, kept, check>> /\ n \in Nat
  BY Width DEF WithCapacity, locals, Usize
<1>2. len = 0 /\ Sequence = << >>
  BY <1>1, NothingYet
<1>3. CASE ReserveOk(n) /\ pc' = "vec" /\ Return("with_capacity", n)
  <2>1. Abstract!Room(len + n)
    BY <1>1, <1>3, RoomStep
  <2>2. len + n = n
    BY <1>1, <1>2
  <2>3. Abstract!Room(n)
    BY <2>1, <2>2, Zenon
  <2>4. Sequence' = << >>
    BY <1>1, <1>2, <1>3, VecSequenceNext, EmptyLength
  <2> QED
    BY <1>1, <1>3, <2>3, <2>4 DEF Abstract!Next, Abstract!Make, Abstract!Usize, Usize, Return
<1>4. CASE ReserveErr(n) /\ pc' = pc /\ Return("with_capacity", Err)
  <2>1. Abstract!Fails("with_capacity")
    BY <1>1, <1>4, FailsStep DEF ReserveErr, Return
  <2> QED
    BY <1>1, <2>1 DEF Abstract!Next, Abstract!Make
<1> QED
  BY <1>3, <1>4 DEF WithCapacity

LEMMA AbstractFromElem ==
    ASSUME IInv, IInv', KeptInv, NEW n \in Usize, NEW v \in Elems, FromElem(n, v)
    PROVE  Abstract!Next
<1>1. pc = "none" /\ UNCHANGED <<size, ptr, left, kept, check>> /\ n \in Nat
  BY Width DEF FromElem, locals, Usize
<1>2. len = 0
  BY <1>1, NothingYet
<1>3. CASE ExtendOk(n, v) /\ pc' = "vec" /\ Return("from_elem", v)
  <2>1. /\ Len(Sequence') = len + n
        /\ n # 0 => Sequence'[Len(Sequence')] = v
        /\ Abstract!Room(len + n)
    BY <1>1, <1>3, ExtendedWith
  <2>2. len + n = n
    BY <1>1, <1>2
  <2>3. Abstract!Room(n) /\ Len(Sequence') = n
    BY <2>1, <2>2, Zenon
  <2> QED
    BY <1>1, <1>3, <2>1, <2>3
    DEF Abstract!Next, Abstract!Make, Abstract!Usize, Usize, Return, Abstract!Last
<1>4. CASE ExtendErr(n, v) /\ pc' = pc /\ Return("from_elem", Err)
  <2>1. Abstract!Fails("from_elem")
    BY <1>1, <1>4, FailsStep DEF ExtendErr, ReserveErr, Return
  <2> QED
    BY <1>1, <2>1 DEF Abstract!Next, Abstract!Make
<1> QED
  BY <1>3, <1>4 DEF FromElem

LEMMA AbstractFromBox ==
    ASSUME IInv, IInv', KeptInv, NEW n \in 0..MaxSlice, NEW s \in Values("caller", n), FromBox(s)
    PROVE  Abstract!Next
<1>0. n \in Nat /\ n <= UsizeMax /\ UsizeMax \in Nat
  BY SizesAssumption, Width
<1>1. s \in Seq(Elems) /\ Len(s) = n /\ DOMAIN s = 1..n /\ \A i \in 1..n : s[i] \in Elems
  BY <1>0, ValuesSeq
<1>2. /\ pc = "none" /\ pc' = "vec" /\ UNCHANGED <<size, kept>>
      /\ mem' = Write(s, 0) /\ len' = n /\ layout' = (IF size = 0 THEN 0 ELSE n)
      /\ op' = <<"from_box", s>>
  BY <1>1 DEF FromBox, locals, Return
<1>3. /\ Sequence' \in Seq(Val) /\ Len(Sequence') = n
      /\ \A i \in 1..n : Sequence'[i] = mem'[i]
  BY <1>2, VecSequenceNext
<1>4. \A i \in 1..n : mem'[i] = s[i]
  <2> TAKE i \in 1..n
  <2>1. i \in Slots /\ i \in (0 + 1)..(0 + Len(s)) /\ i - 0 = i
    BY <1>0, <1>1, Width
  <2> QED
    BY <1>2, <2>1 DEF Write
<1>5. s \in Seq(Val)
  BY <1>1, SeqMonotonic DEF Val
<1>6. Sequence' = s
  BY <1>1, <1>3, <1>4, <1>5, SeqEqual
<1>7. Abstract!Room(Len(Sequence'))
  <2>1. (size # 0 => Capacity = 0) /\ (size = 0 => Capacity = UsizeMax)
    BY <1>2, NothingYet DEF Capacity
  <2>2. (size # 0 => Capacity' = n) /\ (size = 0 => Capacity' = UsizeMax)
    BY <1>2 DEF Capacity
  <2>3. Capacity' >= n /\ (Capacity' # Capacity => Capacity < n)
    BY <1>0, <2>1, <2>2
  <2> QED
    BY <1>3, <2>3 DEF Abstract!Room
<1> QED
  BY <1>2, <1>6, <1>7 DEF Abstract!Next, Abstract!Make

-----------------------------------------------------------------------------
(* retain.                                                                 *)

\* What retain has kept, and what it has not seen yet.
LEMMA RetainSequence == IInv /\ pc = "retain" =>
    /\ Sequence \in Seq(Val) /\ Len(Sequence) = kept + (len - check)
    /\ kept \in Nat /\ check \in Nat /\ len \in Nat /\ kept <= check /\ check <= len
    /\ len <= UsizeMax
    /\ \A i \in 1..kept : Sequence[i] = mem[i]
    /\ \A i \in 1..(len - check) : Sequence[kept + i] = mem[check + i]
<1> SUFFICES ASSUME IInv, pc = "retain"
             PROVE  /\ Sequence \in Seq(Val) /\ Len(Sequence) = kept + (len - check)
                    /\ kept \in Nat /\ check \in Nat /\ len \in Nat /\ kept <= check /\ check <= len
                    /\ len <= UsizeMax
                    /\ \A i \in 1..kept : Sequence[i] = mem[i]
                    /\ \A i \in 1..(len - check) : Sequence[kept + i] = mem[check + i]
  OBVIOUS
<1>1. /\ mem \in Buffers
      /\ kept \in Nat /\ check \in Nat /\ len \in Nat /\ kept <= check /\ check <= len
      /\ len <= UsizeMax /\ UsizeMax \in Nat /\ len - check \in Nat
      /\ kept \in 0..UsizeMax /\ len \in check..UsizeMax
  BY BoundsHold DEF Bounds
<1> DEFINE p == Run(mem, 0, kept)
<1> DEFINE q == Run(mem, check, len)
<1>2. p \in Seq(Val) /\ Len(p) = kept /\ \A i \in 1..kept : p[i] = mem[i]
  BY <1>1, RunZero
<1>3. q \in Seq(Val) /\ Len(q) = len - check /\ \A i \in 1..(len - check) : q[i] = mem[check + i]
  BY <1>1, RunSeq
<1>4. Sequence = p \o q
  BY DEF Sequence
<1> HIDE DEF p, q
<1>5. /\ p \o q \in Seq(Val) /\ Len(p \o q) = Len(p) + Len(q)
      /\ \A i \in 1..Len(p) : (p \o q)[i] = p[i]
      /\ \A i \in 1..Len(q) : (p \o q)[Len(p) + i] = q[i]
  BY <1>2, <1>3, Joined
<1> HIDE DEF Sequence
<1>6. /\ Sequence \in Seq(Val) /\ Len(Sequence) = Len(p) + Len(q)
      /\ \A i \in 1..Len(p) : Sequence[i] = p[i]
      /\ \A i \in 1..Len(q) : Sequence[Len(p) + i] = q[i]
  BY <1>4, <1>5, Zenon
<1> QED
  BY <1>1, <1>2, <1>3, <1>6

LEMMA RetainSequenceNext == IInv' /\ pc' = "retain" =>
    /\ Sequence' \in Seq(Val) /\ Len(Sequence') = kept' + (len' - check')
    /\ \A i \in 1..kept' : Sequence'[i] = mem'[i]
    /\ \A i \in 1..(len' - check') : Sequence'[kept' + i] = mem'[check' + i]
<1>1. (IInv /\ pc = "retain" =>
        /\ Sequence \in Seq(Val) /\ Len(Sequence) = kept + (len - check)
        /\ kept \in Nat /\ check \in Nat /\ len \in Nat /\ kept <= check /\ check <= len
        /\ len <= UsizeMax
        /\ \A i \in 1..kept : Sequence[i] = mem[i]
        /\ \A i \in 1..(len - check) : Sequence[kept + i] = mem[check + i])'
  BY RetainSequence, PTL
<1> QED
  BY <1>1

LEMMA AbstractRetainStart ==
    ASSUME IInv, IInv', KeptInv, RetainStart
    PROVE  Abstract!Next
<1>1. /\ pc = "vec" /\ pc' = "retain" /\ UNCHANGED <<size, mem, layout, len>>
      /\ kept' = 0 /\ check' = 0 /\ op' = <<"retain", None>>
  BY DEF RetainStart, buffer, Return
<1>2. kept = 0
  BY <1>1 DEF KeptInv
<1>3. /\ Sequence \in Seq(Val) /\ Len(Sequence) = len /\ len \in Nat
      /\ \A i \in 1..len : Sequence[i] = mem[i]
  BY <1>1, VecSequence
<1>4. /\ Sequence' \in Seq(Val) /\ Len(Sequence') = kept' + (len' - check')
      /\ \A i \in 1..(len' - check') : Sequence'[kept' + i] = mem'[check' + i]
  BY <1>1, RetainSequenceNext
<1>5. len' - check' = len /\ kept' + (len' - check') = len
  BY <1>1, <1>3
<1>6. \A i \in 1..len : kept' + i = i /\ check' + i = i
  BY <1>1
<1>7. Len(Sequence') = len /\ \A i \in 1..len : Sequence'[i] = Sequence[i]
  BY <1>1, <1>3, <1>4, <1>5, <1>6
<1>8. Sequence' = Sequence
  BY <1>3, <1>4, <1>7, SeqEqual
<1>9. Capacity' = Capacity
  BY <1>1 DEF Capacity
<1> QED
  BY <1>1, <1>2, <1>8, <1>9 DEF Abstract!Next, Abstract!Retain, Abstract!Convert

LEMMA AbstractRetainCheck ==
    ASSUME IInv, IInv', KeptInv, NEW yes \in BOOLEAN, RetainCheck(yes)
    PROVE  Abstract!Next
<1>1. /\ pc = "retain" /\ pc' = "retain" /\ UNCHANGED <<size, layout, len>> /\ check < len
      /\ check' = check + 1 /\ op' = <<"check", yes>>
  BY DEF RetainCheck, Return
<1>2. /\ Sequence \in Seq(Val) /\ Len(Sequence) = kept + (len - check)
      /\ kept \in Nat /\ check \in Nat /\ len \in Nat /\ kept <= check /\ check <= len
      /\ len <= UsizeMax
      /\ \A i \in 1..kept : Sequence[i] = mem[i]
      /\ \A i \in 1..(len - check) : Sequence[kept + i] = mem[check + i]
  BY <1>1, RetainSequence
<1>3. /\ Sequence' \in Seq(Val) /\ Len(Sequence') = kept' + (len' - check')
      /\ \A i \in 1..kept' : Sequence'[i] = mem'[i]
      /\ \A i \in 1..(len' - check') : Sequence'[kept' + i] = mem'[check' + i]
  BY <1>1, RetainSequenceNext
<1>4. Capacity' = Capacity /\ UsizeMax \in Nat /\ mem \in [Slots -> Val]
  BY <1>1, BoundsHold DEF Capacity, Bounds, Buffers
<1>5. kept < Len(Sequence)
  BY <1>1, <1>2
<1>6. CASE yes
  <2>1. kept' = kept + 1 /\ mem' = [mem EXCEPT ![kept + 1] = mem[check + 1], ![check + 1] = mem[kept + 1]]
    BY <1>6 DEF RetainCheck, Swap
  <2>2. kept + 1 \in Slots /\ check + 1 \in Slots
    BY <1>1, <1>2, <1>4, Width
  <2>3. /\ mem'[kept + 1] = mem[check + 1]
        /\ \A i \in Slots : i # kept + 1 /\ i # check + 1 => mem'[i] = mem[i]
    BY <1>4, <2>1, <2>2
  <2>4. Len(Sequence') = Len(Sequence)
    BY <1>1, <1>2, <1>3, <2>1
  <2>5. \A i \in 1..Len(Sequence) : Sequence'[i] = Sequence[i]
    <3> TAKE i \in 1..Len(Sequence)
    <3>1. CASE i \in 1..kept
      <4>1. i \in Slots /\ i # kept + 1 /\ i # check + 1 /\ i \in 1..kept'
        BY <1>1, <1>2, <1>4, <2>1, <3>1, Width
      <4> QED
        BY <1>2, <1>3, <2>3, <3>1, <4>1
    <3>2. CASE i = kept + 1
      <4>1. 1 \in 1..(len - check) /\ kept + 1 \in 1..kept'
        BY <1>1, <1>2, <2>1
      <4> QED
        BY <1>2, <1>3, <2>3, <3>2, <4>1
    <3>3. CASE i > kept + 1
      <4>1. PICK j \in 1..(len - (check + 1)) : i = (kept + 1) + j
        BY <1>1, <1>2, <3>3
      <4>2. /\ j + 1 \in 1..(len - check) /\ kept + (j + 1) = i /\ check + (j + 1) = (check + 1) + j
            /\ (check + 1) + j \in Slots
            /\ (check + 1) + j # kept + 1 /\ (check + 1) + j # check + 1
        BY <1>1, <1>2, <1>4, <4>1, Width
      <4>3. Sequence[i] = mem[(check + 1) + j]
        BY <1>2, <4>2
      <4>4. Sequence'[i] = mem'[(check + 1) + j]
        BY <1>1, <1>3, <2>1, <4>1
      <4> QED
        BY <2>3, <4>2, <4>3, <4>4
    <3>4. i \in 1..kept \/ i = kept + 1 \/ i > kept + 1
      BY <1>2
    <3> QED
      BY <3>1, <3>2, <3>3, <3>4
  <2>6. Sequence' = Sequence
    BY <1>2, <1>3, <2>4, <2>5, SeqEqual
  <2> QED
    BY <1>1, <1>4, <1>5, <1>6, <2>1, <2>6 DEF Abstract!Next, Abstract!Retain
<1>7. CASE ~yes
  <2>1. kept' = kept /\ mem' = mem /\ yes = FALSE
    BY <1>7 DEF RetainCheck
  <2>2. /\ Len(Sequence') = Len(Sequence) - 1 /\ kept + 1 \in 1..Len(Sequence)
        /\ (kept + 1) - 1 = kept
    BY <1>1, <1>2, <1>3, <2>1
  <2>3. \A i \in 1..((kept + 1) - 1) : Sequence'[i] = Sequence[i]
    BY <1>2, <1>3, <2>1, <2>2
  <2>4. \A i \in (kept + 1)..(Len(Sequence) - 1) : Sequence'[i] = Sequence[i + 1]
    <3> TAKE i \in (kept + 1)..(Len(Sequence) - 1)
    <3>1. PICK j \in 1..(len - (check + 1)) : i = kept + j
      BY <1>1, <1>2
    <3>2. j + 1 \in 1..(len - check) /\ kept + (j + 1) = i + 1 /\ check + (j + 1) = (check + 1) + j
      BY <1>1, <1>2, <3>1
    <3>3. Sequence[i + 1] = mem[(check + 1) + j]
      BY <1>2, <3>2
    <3>4. Sequence'[i] = mem[(check + 1) + j]
      BY <1>1, <1>3, <2>1, <3>1
    <3> QED
      BY <3>3, <3>4
  <2>5. Sequence' = Abstract!RemoveAt(Sequence, kept + 1)
    BY <1>2, <1>3, <2>2, <2>3, <2>4, RemovedAt
  <2> QED
    BY <1>1, <1>4, <1>5, <2>1, <2>5 DEF Abstract!Next, Abstract!Retain
<1> QED
  BY <1>6, <1>7

LEMMA AbstractRetainDone ==
    ASSUME IInv, IInv', KeptInv, RetainDone
    PROVE  Abstract!Next
<1>1. /\ pc = "retain" /\ pc' = "vec" /\ UNCHANGED <<size, layout>> /\ check >= len
      /\ mem' = Vacate(kept, len) /\ len' = kept /\ kept' = 0
      /\ op' = <<"retained", None>>
  BY DEF RetainDone, Shorten, Return
<1>2. /\ Sequence \in Seq(Val) /\ Len(Sequence) = kept + (len - check)
      /\ kept \in Nat /\ check \in Nat /\ len \in Nat /\ kept <= check /\ check <= len
      /\ len <= UsizeMax
      /\ \A i \in 1..kept : Sequence[i] = mem[i]
  BY <1>1, RetainSequence
<1>3. /\ Sequence' \in Seq(Val) /\ Len(Sequence') = kept
      /\ \A i \in 1..kept : Sequence'[i] = mem'[i]
  BY <1>1, VecSequenceNext
<1>4. Len(Sequence) = kept
  BY <1>1, <1>2
<1>5. \A i \in 1..kept : mem'[i] = mem[i]
  BY <1>1, <1>2, Width DEF Vacate
<1>6. Sequence' = Sequence
  BY <1>2, <1>3, <1>4, <1>5, SeqEqual
<1>7. Capacity' = Capacity
  BY <1>1 DEF Capacity
<1> QED
  BY <1>1, <1>4, <1>6, <1>7 DEF Abstract!Next, Abstract!Retain

-----------------------------------------------------------------------------
(* The iterators.                                                          *)

\* What an iterator has left.
LEMMA IterSequence == IInv /\ pc \in {"iter", "drain"} =>
    /\ Sequence \in Seq(Val) /\ Len(Sequence) = left
    /\ ptr \in Nat /\ left \in Nat /\ ptr + left <= Capacity /\ Capacity \in Nat
    /\ Capacity <= UsizeMax
    /\ \A i \in 1..left : Sequence[i] = mem[ptr + i]
<1> SUFFICES ASSUME IInv, pc \in {"iter", "drain"}
             PROVE  /\ Sequence \in Seq(Val) /\ Len(Sequence) = left
                    /\ ptr \in Nat /\ left \in Nat /\ ptr + left <= Capacity /\ Capacity \in Nat
                    /\ Capacity <= UsizeMax
                    /\ \A i \in 1..left : Sequence[i] = mem[ptr + i]
  OBVIOUS
<1>1. /\ mem \in Buffers /\ ptr \in Nat /\ left \in Nat /\ Capacity \in Nat
      /\ ptr + left <= Capacity /\ Capacity <= UsizeMax /\ UsizeMax \in Nat
  BY BoundsHold DEF Bounds
<1> DEFINE b == ptr + left
<1>2. b \in ptr..UsizeMax /\ b - ptr = left
  BY <1>1
<1>3. Sequence = Run(mem, ptr, b)
  BY DEF Sequence
<1> HIDE DEF b
<1>4. /\ Run(mem, ptr, b) \in Seq(Val) /\ Len(Run(mem, ptr, b)) = b - ptr
      /\ \A i \in 1..(b - ptr) : Run(mem, ptr, b)[i] = mem[ptr + i]
  BY <1>1, <1>2, RunSeq
<1> QED
  BY <1>1, <1>2, <1>3, <1>4

LEMMA IterSequenceNext == IInv' /\ pc' \in {"iter", "drain"} =>
    /\ Sequence' \in Seq(Val) /\ Len(Sequence') = left'
    /\ \A i \in 1..left' : Sequence'[i] = mem'[ptr' + i]
<1>1. (IInv /\ pc \in {"iter", "drain"} =>
        /\ Sequence \in Seq(Val) /\ Len(Sequence) = left
        /\ ptr \in Nat /\ left \in Nat /\ ptr + left <= Capacity /\ Capacity \in Nat
        /\ Capacity <= UsizeMax
        /\ \A i \in 1..left : Sequence[i] = mem[ptr + i])'
  BY IterSequence, PTL
<1> QED
  BY <1>1

LEMMA AbstractIterStart ==
    ASSUME IInv, IInv', KeptInv, DrainAll \/ IntoIter
    PROVE  Abstract!Next
<1>1. /\ pc = "vec" /\ pc' \in {"iter", "drain"} /\ UNCHANGED <<size, mem, layout, kept>>
      /\ ptr' = 0 /\ left' = len
  BY DEF DrainAll, IntoIter, buffer
<1>2. /\ Sequence \in Seq(Val) /\ Len(Sequence) = len /\ len \in Nat
      /\ \A i \in 1..len : Sequence[i] = mem[i]
  BY <1>1, VecSequence
<1>3. /\ Sequence' \in Seq(Val) /\ Len(Sequence') = left'
      /\ \A i \in 1..left' : Sequence'[i] = mem'[ptr' + i]
  BY <1>1, IterSequenceNext
<1>4. \A i \in 1..len : ptr' + i = i
  BY <1>1
<1>5. Len(Sequence') = len /\ \A i \in 1..len : Sequence'[i] = Sequence[i]
  BY <1>1, <1>2, <1>3, <1>4
<1>6. Sequence' = Sequence
  BY <1>2, <1>3, <1>5, SeqEqual
<1>7. Capacity' = Capacity
  BY <1>1 DEF Capacity
<1> QED
  BY <1>1, <1>6, <1>7
  DEF DrainAll, IntoIter, Return, Abstract!Next, Abstract!Iterate, Abstract!Convert

LEMMA AbstractIterNext ==
    ASSUME IInv, IInv', KeptInv, IterNext
    PROVE  Abstract!Next
<1>1. pc \in {"iter", "drain"} /\ pc' = pc /\ UNCHANGED <<size, layout, len, kept, check>>
  BY DEF IterNext
<1>2. /\ Sequence \in Seq(Val) /\ Len(Sequence) = left
      /\ ptr \in Nat /\ left \in Nat /\ ptr + left <= Capacity /\ Capacity \in Nat
      /\ Capacity <= UsizeMax
      /\ \A i \in 1..left : Sequence[i] = mem[ptr + i]
  BY <1>1, IterSequence
<1>3. /\ Sequence' \in Seq(Val) /\ Len(Sequence') = left'
      /\ \A i \in 1..left' : Sequence'[i] = mem'[ptr' + i]
  BY <1>1, IterSequenceNext
<1>4. Capacity' = Capacity /\ UsizeMax \in Nat
  BY <1>1, Width DEF Capacity
<1>5. CASE left = 0
  <2>1. Sequence' = Sequence /\ op' = <<"next", None>>
    BY <1>1, <1>5, Still DEF IterNext, Return
  <2>2. Sequence = << >>
    BY <1>2, <1>5, EmptyLength
  <2> QED
    BY <1>1, <1>4, <2>1, <2>2 DEF Abstract!Next, Abstract!Iterate, Abstract!Becomes
<1>6. CASE left # 0
  <2>1. /\ mem' = Vacate(ptr, ptr + 1) /\ ptr' = ptr + 1 /\ left' = left - 1
        /\ op' = <<"next", mem[ptr + 1]>>
    BY <1>6 DEF IterNext, Return
  <2>2. Sequence # << >> /\ 1 \in 1..left
    BY <1>2, <1>6, EmptyLength
  <2>3. /\ Tail(Sequence) \in Seq(Val) /\ Len(Tail(Sequence)) = left - 1
        /\ \A i \in 1..(left - 1) : Tail(Sequence)[i] = Sequence[i + 1]
    BY <1>2, <2>2, HeadTailProperties
  <2>4. Head(Sequence) = mem[ptr + 1]
    BY <1>2, <2>2
  <2>5. \A i \in 1..(left - 1) : Sequence'[i] = Tail(Sequence)[i]
    <3> TAKE i \in 1..(left - 1)
    <3>1. /\ i + 1 \in 1..left /\ ptr + (i + 1) = (ptr + 1) + i
          /\ (ptr + 1) + i \in Slots /\ (ptr + 1) + i \notin (ptr + 1)..(ptr + 1)
      BY <1>2, <1>4, Width
    <3>2. Sequence'[i] = mem'[(ptr + 1) + i]
      BY <1>3, <2>1
    <3>3. mem'[(ptr + 1) + i] = mem[(ptr + 1) + i]
      BY <2>1, <3>1 DEF Vacate
    <3>4. Tail(Sequence)[i] = mem[(ptr + 1) + i]
      BY <1>2, <2>3, <3>1
    <3> QED
      BY <3>2, <3>3, <3>4
  <2>6. Sequence' = Tail(Sequence)
    BY <1>3, <2>1, <2>3, <2>5, SeqEqual
  <2> QED
    BY <1>1, <1>4, <2>1, <2>2, <2>4, <2>6 DEF Abstract!Next, Abstract!Iterate, Abstract!Becomes
<1> QED
  BY <1>5, <1>6

LEMMA AbstractIterEnd ==
    ASSUME IInv, IInv', KeptInv, DrainDrop \/ DrainForget \/ IterDrop
    PROVE  Abstract!Next
<1>1. pc \in {"iter", "drain"} /\ pc' \in {"none", "vec"} /\ UNCHANGED <<size, len, kept>>
  BY DEF DrainDrop, DrainForget, IterDrop
<1>2. len = 0
  BY <1>1 DEF IInv, StateInv
<1>3. Sequence' = << >>
  BY <1>1, <1>2, VecSequenceNext, EmptyLength
<1>4. /\ DrainDrop \/ DrainForget => Capacity' = Capacity
      /\ IterDrop => Capacity' \in {0, Capacity}
  BY DEF DrainDrop, DrainForget, IterDrop, Capacity
<1> QED
  BY <1>1, <1>3, <1>4
  DEF DrainDrop, DrainForget, IterDrop, Return, Abstract!Next, Abstract!End

LEMMA AbstractCollect ==
    ASSUME IInv, IInv', KeptInv, Collect
    PROVE  Abstract!Next
<1>1. /\ pc = "iter" /\ pc' = "vec" /\ UNCHANGED <<size, kept>> /\ len' = left
      /\ mem' = [i \in Slots |-> IF i <= left THEN mem[ptr + i] ELSE None]
      /\ (size # 0 /\ layout' = left) \/ layout' = layout
      /\ op' = <<"collect", None>>
  BY DEF Collect, Shrink, Return
<1>2. /\ Sequence \in Seq(Val) /\ Len(Sequence) = left
      /\ ptr \in Nat /\ left \in Nat /\ ptr + left <= Capacity /\ Capacity \in Nat
      /\ Capacity <= UsizeMax
      /\ \A i \in 1..left : Sequence[i] = mem[ptr + i]
  BY <1>1, IterSequence
<1>3. /\ Sequence' \in Seq(Val) /\ Len(Sequence') = left
      /\ \A i \in 1..left : Sequence'[i] = mem'[i]
  BY <1>1, VecSequenceNext
<1>4. \A i \in 1..left : mem'[i] = mem[ptr + i]
  BY <1>1, <1>2, Width
<1>5. Sequence' = Sequence
  BY <1>2, <1>3, <1>4, SeqEqual
<1>6. Capacity' = left \/ Capacity' = Capacity
  BY <1>1 DEF Capacity
<1>7. Capacity' \in Len(Sequence)..Capacity
  BY <1>2, <1>6
<1> QED
  BY <1>1, <1>5, <1>7 DEF Abstract!Next, Abstract!Iterate, Abstract!Convert

-----------------------------------------------------------------------------
LEMMA AbstractStep == IInv /\ IInv' /\ KeptInv /\ [Next]_vars => [Abstract!Next]_(Abstract!vars)
<1> SUFFICES ASSUME IInv, IInv', KeptInv, [Next]_vars
             PROVE  Abstract!Next \/ UNCHANGED Abstract!vars
  OBVIOUS
<1>1. ASSUME NEW e \in Elems, Create(e) \/ DropValue(e) PROVE UNCHANGED Abstract!vars
  BY <1>1, AbstractValues
<1>2. ASSUME NEW e \in Elems, Push(e) \/ PushWithinCapacity(e) PROVE Abstract!Next
  BY <1>2, AbstractPush, AbstractPushWithin
<1>3. ASSUME NEW e \in Elems, NEW n \in Usize,
             FromElem(n, e) \/ ExtendWith(n, e) \/ Resize(n, e) \/ InsertWithinCapacity(n, e)
      PROVE  Abstract!Next
  BY <1>3, AbstractFromElem, AbstractExtendWith, AbstractResize, AbstractInsert
<1>4. ASSUME NEW n \in 0..MaxSlice,
             ExtendFromSlice(n) \/ \E s \in Values("caller", n) : FromBox(s)
      PROVE  Abstract!Next
  BY <1>4, AbstractExtendFromSlice, AbstractFromBox
<1>5. ASSUME NEW n \in Usize, WithCapacity(n) \/ Reserve(n) \/ Remove(n) \/ Truncate(n)
      PROVE  Abstract!Next
  BY <1>5, AbstractWithCapacity, AbstractReserve, AbstractRemove, AbstractTruncate
<1>6. ASSUME Pop \/ DropVec \/ IntoRawParts \/ FromRawParts PROVE Abstract!Next
  BY <1>6, AbstractPop, AbstractDropVec, AbstractRaw
<1>7. ASSUME RetainStart \/ RetainDone \/ \E yes \in BOOLEAN : RetainCheck(yes)
      PROVE  Abstract!Next
  BY <1>7, AbstractRetainStart, AbstractRetainDone, AbstractRetainCheck
<1>8. ASSUME \/ DrainAll \/ DrainDrop \/ DrainForget
             \/ IntoIter \/ IterNext \/ IterDrop \/ Collect
      PROVE  Abstract!Next
  BY <1>8, AbstractIterStart, AbstractIterNext, AbstractIterEnd, AbstractCollect
<1>9. CASE UNCHANGED vars
  BY <1>9, Still DEF vars, Abstract!vars
<1> QED
  BY <1>1, <1>2, <1>3, <1>4, <1>5, <1>6, <1>7, <1>8, <1>9 DEF Next

\* Whatever the size of T and the width of usize, a Vec and its iterators behave
\* as the sequence with a capacity of KVecSpec.tla.
THEOREM VecRefines == Spec => ImplementsVec
<1>1. Init => KeptInv
  BY DEF Init, KeptInv
<1> QED
  BY <1>1, Invariant, AbstractInit, KeptStep, AbstractStep, PTL
  DEF Spec, ImplementsVec, Abstract!Spec
=============================================================================
