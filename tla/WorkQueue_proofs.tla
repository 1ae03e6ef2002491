-------------------------- MODULE WorkQueue_proofs --------------------------
(***************************************************************************)
(* The owners of work items, for any number of threads, workers, items and *)
(* Work fields and any pools, where rs_shim_init found queue_work_on.      *)
(*                                                                         *)
(* WInv is the inductive invariant.  It adds to the count what makes the   *)
(* count change with the owners: a work_struct is on one list, once, a     *)
(* worker owns the box whose function it is in, and a box has no Arcs.     *)
(***************************************************************************)
EXTENDS WorkQueue, SequenceTheorems, FiniteSetTheorems, TLAPS

\* A work_struct is on one list, once.
ListsInv ==
    /\ \A p \in Pools : IsInjective(list[p])
    /\ \A p, r \in Pools : p # r => Range(list[p]) \cap Range(list[r]) = {}

\* A worker that still owns its Arc or box is in a function; one whose function is
\* that of a box owns it.
RunInv ==
    /\ \A w \in mine : run[w] # None
    /\ \A w \in Workers : run[w] # None /\ Box(run[w]) => w \in mine
    /\ \A v, w \in Workers : run[v] # None /\ run[v] = run[w] /\ PoolOf[v] = PoolOf[w] => v = w

\* A closure has one owner, which is no Arc, and is there until a worker has it.
BoxInv ==
    \A i \in BoxItems :
        /\ count[i] <= 1
        /\ \A t \in Threads : held[t][i] = 0
        /\ Enqueueing(i) # {} \/ Enqueued(i) # {} => i \in func

WInv ==
    /\ TypeOK
    /\ OwnersCounted
    /\ ListsInv
    /\ RunInv
    /\ BoxInv
    /\ ~ub

-----------------------------------------------------------------------------
(* Lists.                                                                  *)

LEMMA Appended ==
    ASSUME NEW s \in Seq(Works), NEW x \in Works
    PROVE  /\ Append(s, x) \in Seq(Works)
           /\ Range(Append(s, x)) = Range(s) \cup {x}
           /\ IsInjective(s) /\ x \notin Range(s) => IsInjective(Append(s, x))
<1> DEFINE t == Append(s, x)
<1>1. /\ Len(s) \in Nat /\ DOMAIN s = 1..Len(s) /\ DOMAIN t = 1..(Len(s) + 1) /\ t \in Seq(Works)
      /\ \A i \in 1..Len(s) : t[i] = s[i]
      /\ t[Len(s) + 1] = x
  BY AppendProperties
<1> HIDE DEF t
<1>2. \A i \in DOMAIN t : i \in DOMAIN s \/ i = Len(s) + 1
  BY <1>1
<1>3. Range(t) = Range(s) \cup {x}
  <2>1. \A y \in Range(t) : y \in Range(s) \cup {x}
    BY <1>1, <1>2 DEF Range
  <2>2. \A y \in Range(s) : y \in Range(t)
    BY <1>1 DEF Range
  <2>3. x \in Range(t)
    BY <1>1 DEF Range
  <2> QED
    BY <2>1, <2>2, <2>3
<1>4. ASSUME IsInjective(s), x \notin Range(s), NEW i \in DOMAIN t, NEW j \in DOMAIN t, t[i] = t[j]
      PROVE  i = j
  <2>1. \A k \in DOMAIN s : t[k] = s[k] /\ s[k] # x
    BY <1>1, <1>4 DEF Range
  <2> QED
    BY <1>1, <1>2, <1>4, <2>1 DEF IsInjective
<1> QED
  BY <1>1, <1>3, <1>4 DEF IsInjective, t

LEMMA Joined ==
    ASSUME NEW p \in Seq(Works), NEW q \in Seq(Works)
    PROVE  /\ p \o q \in Seq(Works) /\ Len(p \o q) = Len(p) + Len(q)
           /\ \A i \in 1..Len(p) : (p \o q)[i] = p[i]
           /\ \A i \in 1..Len(q) : (p \o q)[Len(p) + i] = q[i]
<1>0. Len(p) \in Nat /\ Len(q) \in Nat
  BY LenProperties
<1>1. /\ p \o q \in Seq(Works) /\ Len(p \o q) = Len(p) + Len(q)
      /\ \A i \in 1..(Len(p) + Len(q)) : (p \o q)[i] = IF i <= Len(p) THEN p[i] ELSE q[i - Len(p)]
  BY ConcatProperties
<1>2. \A i \in 1..Len(p) : (p \o q)[i] = p[i]
  BY <1>0, <1>1
<1>3. \A i \in 1..Len(q) : (p \o q)[Len(p) + i] = q[i]
  <2> TAKE i \in 1..Len(q)
  <2>1. Len(p) + i \in 1..(Len(p) + Len(q)) /\ ~(Len(p) + i <= Len(p)) /\ (Len(p) + i) - Len(p) = i
    BY <1>0
  <2> QED
    BY <1>1, <2>1
<1> QED
  BY <1>1, <1>2, <1>3

LEMMA RemovedAt ==
    ASSUME NEW s \in Seq(Works), IsInjective(s), NEW n \in DOMAIN s
    PROVE  /\ RemoveAt(s, n) \in Seq(Works)
           /\ Range(RemoveAt(s, n)) = Range(s) \ {s[n]}
           /\ IsInjective(RemoveAt(s, n))
<1> DEFINE m == Len(s)
<1> DEFINE a == SubSeq(s, 1, n - 1)
<1> DEFINE b == SubSeq(s, n + 1, m)
<1> DEFINE t == a \o b
<1>1. m \in Nat /\ n \in Nat /\ 1 <= n /\ n <= m /\ DOMAIN s = 1..m /\ \A i \in 1..m : s[i] \in Works
  BY LenProperties
<1>2. a \in Seq(Works) /\ Len(a) = n - 1 /\ \A i \in 1..(n - 1) : a[i] = s[i]
  <2>1. (\A i \in 1..(n - 1) : s[i] \in Works) /\ n - 1 \in Int
    BY <1>1
  <2>2. /\ SubSeq(s, 1, n - 1) \in Seq(Works)
        /\ Len(SubSeq(s, 1, n - 1)) = (IF 1 <= n - 1 THEN (n - 1) - 1 + 1 ELSE 0)
        /\ \A i \in 1..((n - 1) - 1 + 1) : SubSeq(s, 1, n - 1)[i] = s[1 + i - 1]
    BY <2>1, SubSeqProperties
  <2> QED
    BY <1>1, <2>2
<1>3. b \in Seq(Works) /\ Len(b) = m - n /\ \A i \in 1..(m - n) : b[i] = s[n + i]
  <2>1. (\A i \in (n + 1)..m : s[i] \in Works) /\ n + 1 \in Int /\ m \in Int
    BY <1>1
  <2>2. /\ SubSeq(s, n + 1, m) \in Seq(Works)
        /\ Len(SubSeq(s, n + 1, m)) = (IF n + 1 <= m THEN m - (n + 1) + 1 ELSE 0)
        /\ \A i \in 1..(m - (n + 1) + 1) : SubSeq(s, n + 1, m)[i] = s[(n + 1) + i - 1]
    BY <2>1, SubSeqProperties
  <2> QED
    BY <1>1, <2>2
<1> HIDE DEF m, a, b
<1>0. n - 1 \in Nat /\ m - n \in Nat /\ (n - 1) + (m - n) = m - 1
  BY <1>1
<1>t. /\ t \in Seq(Works) /\ Len(t) = Len(a) + Len(b)
      /\ \A i \in 1..Len(a) : t[i] = a[i]
      /\ \A i \in 1..Len(b) : t[Len(a) + i] = b[i]
  BY <1>2, <1>3, Joined
<1>5. RemoveAt(s, n) = t
  BY DEF RemoveAt, t, a, b, m
<1> HIDE DEF t
<1>4. /\ t \in Seq(Works) /\ Len(t) = m - 1
      /\ \A i \in 1..(n - 1) : t[i] = s[i]
      /\ \A i \in 1..(m - n) : t[(n - 1) + i] = s[n + i]
  BY <1>0, <1>2, <1>3, <1>t
<1>6. DOMAIN t = 1..(m - 1)
  BY <1>4
<1>7. \A i \in 1..(m - 1) : (i < n => t[i] = s[i]) /\ (i >= n => t[i] = s[i + 1])
  <2> SUFFICES ASSUME NEW i \in 1..(m - 1)
               PROVE  (i < n => t[i] = s[i]) /\ (i >= n => t[i] = s[i + 1])
    OBVIOUS
  <2>1. i < n => t[i] = s[i]
    BY <1>1, <1>4
  <2>2. ASSUME i >= n PROVE t[i] = s[i + 1]
    <3>1. i - n + 1 \in 1..(m - n) /\ (n - 1) + (i - n + 1) = i /\ n + (i - n + 1) = i + 1
      BY <1>1, <2>2
    <3> QED
      BY <1>4, <3>1
  <2> QED
    BY <2>1, <2>2
<1>8. \A i \in 1..(m - 1) : \E j \in 1..m : j # n /\ t[i] = s[j] /\ j = IF i < n THEN i ELSE i + 1
  BY <1>1, <1>7
<1>9. \A j \in 1..m : j # n => \E i \in 1..(m - 1) : t[i] = s[j]
  <2> SUFFICES ASSUME NEW j \in 1..m, j # n
               PROVE  \E i \in 1..(m - 1) : t[i] = s[j]
    OBVIOUS
  <2>1. CASE j < n
    <3>1. j \in 1..(m - 1)
      BY <1>1, <2>1
    <3> QED
      BY <1>7, <2>1, <3>1
  <2>2. CASE j > n
    <3>1. j - 1 \in 1..(m - 1) /\ j - 1 >= n /\ (j - 1) + 1 = j
      BY <1>1, <2>2
    <3> QED
      BY <1>7, <3>1
  <2> QED
    BY <1>1, <2>1, <2>2
<1>10. Range(t) = Range(s) \ {s[n]}
  <2>1. \A y \in Range(t) : y \in Range(s) \ {s[n]}
    BY <1>1, <1>6, <1>8 DEF Range, IsInjective
  <2>2. \A y \in Range(s) \ {s[n]} : y \in Range(t)
    BY <1>1, <1>6, <1>9 DEF Range
  <2> QED
    BY <2>1, <2>2
<1>11. IsInjective(t)
  <2> SUFFICES ASSUME NEW i \in 1..(m - 1), NEW j \in 1..(m - 1), t[i] = t[j]
               PROVE  i = j
    BY <1>6 DEF IsInjective
  <2>1. PICK c \in 1..m : t[i] = s[c] /\ c = IF i < n THEN i ELSE i + 1
    BY <1>8
  <2>2. PICK d \in 1..m : t[j] = s[d] /\ d = IF j < n THEN j ELSE j + 1
    BY <1>8
  <2>3. c = d
    BY <1>1, <2>1, <2>2 DEF IsInjective
  <2> QED
    BY <1>1, <2>1, <2>2, <2>3
<1> QED
  BY <1>4, <1>5, <1>10, <1>11
-----------------------------------------------------------------------------
(* Owners.                                                                 *)

LEMMA WorkFacts ==
    /\ \A x \in Works : x # None /\ work_container_of(x) \in Items
    /\ \A i \in ArcItems, k \in Ids : raw_get_work(i, k) \in Works
    /\ \A i \in BoxItems : raw_get_work(i, 0) \in Works
    /\ \A x \in Works : Box(x) => x = raw_get_work(work_container_of(x), 0)
    /\ \A i, k : work_container_of(raw_get_work(i, k)) = i
BY ItemsAssumption, WorksAssumption DEF Works, Items, Box, raw_get_work, work_container_of

LEMMA PendingFacts ==
    ASSUME TypeOK
    PROVE  Pending \subseteq Works
<1>1. ASSUME NEW p \in Pools, NEW x \in Range(list[p])
      PROVE  x \in Works
  <2>1. list[p] \in Seq(Works)
    BY DEF TypeOK
  <2>2. PICK n \in DOMAIN list[p] : x = list[p][n]
    BY DEF Range
  <2> QED
    BY <2>1, <2>2
<1> QED
  BY <1>1 DEF Pending

LEMMA OwnersFinite ==
    ASSUME TypeOK, NEW i \in Items
    PROVE  /\ IsFiniteSet(Arcs(i)) /\ IsFiniteSet(Enqueueing(i))
           /\ IsFiniteSet(Enqueued(i)) /\ IsFiniteSet(Executing(i))
<1>1. IsFiniteSet(Threads) /\ IsFiniteSet(Workers) /\ IsFiniteSet(Ids)
  BY FiniteAssumption
<1>2. IsFiniteSet(Arcs(i))
  <2>1. IsFiniteSet(1..MaxArcs)
    BY MaxArcsAssumption, FS_Interval
  <2>2. IsFiniteSet(Threads \X (1..MaxArcs))
    BY <1>1, <2>1, FS_Product
  <2>3. Arcs(i) \subseteq Threads \X (1..MaxArcs)
    BY DEF Arcs
  <2> QED
    BY <2>2, <2>3, FS_Subset
<1>3. IsFiniteSet(Enqueueing(i))
  <2>1. Enqueueing(i) \subseteq Threads
    BY DEF Enqueueing
  <2> QED
    BY <1>1, <2>1, FS_Subset
<1>4. IsFiniteSet(Executing(i))
  <2>1. Executing(i) \subseteq Workers
    BY DEF Executing, TypeOK
  <2> QED
    BY <1>1, <2>1, FS_Subset
<1>5. IsFiniteSet(Enqueued(i))
  <2>1. IsFiniteSet(Ids \cup {0}) /\ IsFiniteSet({i})
    BY <1>1, FS_AddElement, FS_Singleton
  <2>2. IsFiniteSet({i} \X (Ids \cup {0}))
    BY <2>1, FS_Product
  <2>3. \A x \in Works : Of(x, i) => x \in {i} \X (Ids \cup {0})
    BY DEF Works, Of, raw_get_work, work_container_of
  <2>4. Enqueued(i) \subseteq {i} \X (Ids \cup {0})
    BY <2>3, PendingFacts DEF Enqueued
  <2> QED
    BY <2>2, <2>4, FS_Subset
<1> QED
  BY <1>2, <1>3, <1>4, <1>5

LEMMA OwnersNat ==
    ASSUME TypeOK, NEW i \in Items
    PROVE  /\ Cardinality(Arcs(i)) \in Nat /\ (Arcs(i) # {} => Cardinality(Arcs(i)) >= 1)
           /\ Cardinality(Enqueueing(i)) \in Nat
           /\ (Enqueueing(i) # {} => Cardinality(Enqueueing(i)) >= 1)
           /\ Cardinality(Enqueued(i)) \in Nat
           /\ (Enqueued(i) # {} => Cardinality(Enqueued(i)) >= 1)
           /\ Cardinality(Executing(i)) \in Nat
           /\ (Executing(i) # {} => Cardinality(Executing(i)) >= 1)
<1>1. ASSUME NEW S, IsFiniteSet(S)
      PROVE  Cardinality(S) \in Nat /\ (S # {} => Cardinality(S) >= 1)
  <2>1. Cardinality(S) \in Nat
    BY <1>1, FS_CardinalityType
  <2>2. Cardinality(S) = 0 => S = {}
    BY <1>1, FS_EmptySet
  <2> QED
    BY <2>1, <2>2
<1> QED
  BY <1>1, OwnersFinite

\* What a thread holds is among the Arcs.
LEMMA HeldCounted ==
    ASSUME TypeOK, NEW t \in Threads, NEW i \in Items
    PROVE  held[t][i] \in Nat /\ held[t][i] <= MaxArcs /\ held[t][i] <= Cardinality(Arcs(i))
<1> DEFINE h == held[t][i]
<1>1. h \in 0..MaxArcs /\ MaxArcs \in Nat
  BY MaxArcsAssumption DEF TypeOK
<1> DEFINE f == [n \in 1..h |-> <<t, n>>]
<1>2. \A n \in 1..h : <<t, n>> \in Arcs(i)
  BY <1>1 DEF Arcs
<1> HIDE DEF h
<1>3. f \in Injection(1..h, Arcs(i))
  <2>1. f \in [1..h -> Arcs(i)]
    BY <1>2
  <2>2. \A m, n \in 1..h : f[m] = f[n] => m = n
    OBVIOUS
  <2> QED
    BY <2>1, <2>2 DEF Injection, IsInjective
<1>4. Cardinality(1..h) <= Cardinality(Arcs(i))
  BY <1>3, OwnersFinite, FS_Injection
<1>5. Cardinality(1..h) = h
  BY <1>1, FS_Interval
<1> QED
  BY <1>1, <1>4, <1>5 DEF h

LEMMA ArcAdded ==
    ASSUME TypeOK, NEW t \in Threads, NEW i \in Items, held[t][i] < MaxArcs,
           held' = [held EXCEPT ![t][i] = @ + 1]
    PROVE  /\ held' \in [Threads -> [Items -> 0..MaxArcs]]
           /\ Cardinality(Arcs(i)') = Cardinality(Arcs(i)) + 1
           /\ \A j \in Items : j # i => Arcs(j)' = Arcs(j)
           /\ \A u \in Threads, j \in Items : j # i => held'[u][j] = held[u][j]
<1>1. held \in [Threads -> [Items -> 0..MaxArcs]] /\ MaxArcs \in Nat
  BY MaxArcsAssumption DEF TypeOK
<1>2. \A u \in Threads, j \in Items : held'[u][j] = IF u = t /\ j = i THEN held[t][i] + 1 ELSE held[u][j]
  BY <1>1
<1>3. held' \in [Threads -> [Items -> 0..MaxArcs]]
  BY <1>1
<1>4. \A j \in Items : j # i => Arcs(j)' = Arcs(j)
  BY <1>2 DEF Arcs
<1> DEFINE a == <<t, held[t][i] + 1>>
<1>5. a \in Threads \X (1..MaxArcs) /\ a \notin Arcs(i)
  BY <1>1 DEF Arcs
<1>6. Arcs(i)' = Arcs(i) \cup {a}
  <2>1. Arcs(i)' = {b \in Threads \X (1..MaxArcs) : b[2] <= held'[b[1]][i]}
    BY DEF Arcs
  <2>2. ASSUME NEW b \in Threads \X (1..MaxArcs)
        PROVE  b[2] <= held'[b[1]][i] <=> b \in Arcs(i) \/ b = a
    <3>1. b[1] \in Threads /\ b[2] \in 1..MaxArcs /\ b = <<b[1], b[2]>> /\ held[b[1]][i] \in Nat
      BY <1>1
    <3>0. b \in Arcs(i) <=> b[2] <= held[b[1]][i]
      BY DEF Arcs
    <3>2. CASE b[1] = t
      <4>1. held'[b[1]][i] = held[t][i] + 1 /\ held[t][i] \in Nat /\ b[2] \in Nat
        BY <1>1, <1>2, <3>1, <3>2
      <4>2. b = a <=> b[2] = held[t][i] + 1
        BY <3>1, <3>2
      <4> QED
        BY <3>0, <3>2, <4>1, <4>2
    <3>3. CASE b[1] # t
      <4>1. held'[b[1]][i] = held[b[1]][i]
        BY <1>2, <3>1, <3>3
      <4>2. b # a
        BY <3>3
      <4> QED
        BY <3>0, <4>1, <4>2
    <3> QED
      BY <3>2, <3>3
  <2>3. Arcs(i) \subseteq Threads \X (1..MaxArcs)
    BY DEF Arcs
  <2> HIDE DEF a
  <2> QED
    BY <1>5, <2>1, <2>2, <2>3
<1> HIDE DEF a
<1>7. Cardinality(Arcs(i)') = Cardinality(Arcs(i)) + 1
  BY <1>5, <1>6, OwnersFinite, FS_AddElement
<1> QED
  BY <1>2, <1>3, <1>4, <1>7

LEMMA ArcTaken ==
    ASSUME TypeOK, NEW t \in Threads, NEW i \in Items, held[t][i] > 0,
           held' = [held EXCEPT ![t][i] = @ - 1]
    PROVE  /\ held' \in [Threads -> [Items -> 0..MaxArcs]]
           /\ Cardinality(Arcs(i)') = Cardinality(Arcs(i)) - 1
           /\ \A j \in Items : j # i => Arcs(j)' = Arcs(j)
           /\ \A u \in Threads, j \in Items : j # i => held'[u][j] = held[u][j]
<1>1. held \in [Threads -> [Items -> 0..MaxArcs]] /\ MaxArcs \in Nat
  BY MaxArcsAssumption DEF TypeOK
<1>2. \A u \in Threads, j \in Items : held'[u][j] = IF u = t /\ j = i THEN held[t][i] - 1 ELSE held[u][j]
  BY <1>1
<1>3. held' \in [Threads -> [Items -> 0..MaxArcs]]
  BY <1>1
<1>4. \A j \in Items : j # i => Arcs(j)' = Arcs(j)
  BY <1>2 DEF Arcs
<1> DEFINE a == <<t, held[t][i]>>
<1>5. a \in Arcs(i)
  BY <1>1 DEF Arcs
<1>6. Arcs(i)' = Arcs(i) \ {a}
  <2>1. Arcs(i)' = {b \in Threads \X (1..MaxArcs) : b[2] <= held'[b[1]][i]}
    BY DEF Arcs
  <2>2. ASSUME NEW b \in Threads \X (1..MaxArcs)
        PROVE  b[2] <= held'[b[1]][i] <=> b \in Arcs(i) /\ b # a
    <3>1. b[1] \in Threads /\ b[2] \in 1..MaxArcs /\ b = <<b[1], b[2]>> /\ held[b[1]][i] \in Nat
      BY <1>1
    <3>0. b \in Arcs(i) <=> b[2] <= held[b[1]][i]
      BY DEF Arcs
    <3>2. CASE b[1] = t
      <4>1. held'[b[1]][i] = held[t][i] - 1 /\ held[t][i] \in Nat /\ b[2] \in Nat
        BY <1>1, <1>2, <3>1, <3>2
      <4>2. b = a <=> b[2] = held[t][i]
        BY <3>1, <3>2
      <4> QED
        BY <3>0, <3>2, <4>1, <4>2
    <3>3. CASE b[1] # t
      <4>1. held'[b[1]][i] = held[b[1]][i]
        BY <1>2, <3>1, <3>3
      <4>2. b # a
        BY <3>3
      <4> QED
        BY <3>0, <4>1, <4>2
    <3> QED
      BY <3>2, <3>3
  <2>3. Arcs(i) \subseteq Threads \X (1..MaxArcs)
    BY DEF Arcs
  <2> HIDE DEF a
  <2> QED
    BY <1>5, <2>1, <2>2, <2>3
<1> HIDE DEF a
<1>7. Cardinality(Arcs(i)') = Cardinality(Arcs(i)) - 1
  BY <1>5, <1>6, OwnersFinite, FS_RemoveElement
<1> QED
  BY <1>2, <1>3, <1>4, <1>7

\* A thread takes a pointer to a work_struct of item i, or is rid of it.
LEMMA RawSet ==
    ASSUME TypeOK, NEW t \in Threads, NEW x \in Works, raw[t] = None,
           raw' = [raw EXCEPT ![t] = x]
    PROVE  /\ raw' \in [Threads -> Works \cup {None}]
           /\ Cardinality(Enqueueing(work_container_of(x))')
                 = Cardinality(Enqueueing(work_container_of(x))) + 1
           /\ \A j \in Items : j # work_container_of(x) => Enqueueing(j)' = Enqueueing(j)
<1> DEFINE i == work_container_of(x)
<1>1. i \in Items /\ x # None
  BY WorkFacts
<1>2. raw' \in [Threads -> Works \cup {None}] /\ \A u \in Threads : raw'[u] = IF u = t THEN x ELSE raw[u]
  BY DEF TypeOK
<1>3. \A j \in Items : Of(x, j) <=> j = i
  BY <1>1 DEF Of
<1>4. \A j : ~Of(None, j)
  BY DEF Of
<1> HIDE DEF i
<1>5. Enqueueing(i)' = Enqueueing(i) \cup {t}
  BY <1>1, <1>2, <1>3 DEF Enqueueing, Of
<1>6. t \notin Enqueueing(i)
  BY DEF Enqueueing, Of
<1>7. \A j \in Items : j # i => Enqueueing(j)' = Enqueueing(j)
  BY <1>2, <1>3, <1>4 DEF Enqueueing, Of
<1>8. Cardinality(Enqueueing(i)') = Cardinality(Enqueueing(i)) + 1
  BY <1>1, <1>5, <1>6, OwnersFinite, FS_AddElement
<1> QED
  BY <1>2, <1>7, <1>8 DEF i

LEMMA RawCleared ==
    ASSUME TypeOK, NEW t \in Threads, NEW i \in Items, Of(raw[t], i),
           raw' = [raw EXCEPT ![t] = None]
    PROVE  /\ raw' \in [Threads -> Works \cup {None}]
           /\ Enqueueing(i) # {}
           /\ Cardinality(Enqueueing(i)') = Cardinality(Enqueueing(i)) - 1
           /\ \A j \in Items : j # i => Enqueueing(j)' = Enqueueing(j)
           /\ \A j \in Items : Enqueueing(j)' \subseteq Enqueueing(j)
<1>2. raw' \in [Threads -> Works \cup {None}] /\ \A u \in Threads : raw'[u] = IF u = t THEN None ELSE raw[u]
  BY DEF TypeOK
<1>3. \A j \in Items : Of(raw[t], j) <=> j = i
  BY DEF Of
<1>4. \A j : ~Of(None, j)
  BY DEF Of
<1>5. Enqueueing(i)' = Enqueueing(i) \ {t}
  BY <1>2, <1>3, <1>4 DEF Enqueueing, Of
<1>6. t \in Enqueueing(i)
  BY <1>3 DEF Enqueueing
<1>7. \A j \in Items : j # i => Enqueueing(j)' = Enqueueing(j)
  BY <1>2, <1>3, <1>4 DEF Enqueueing, Of
<1>8. Cardinality(Enqueueing(i)') = Cardinality(Enqueueing(i)) - 1
  BY <1>5, <1>6, OwnersFinite, FS_RemoveElement
<1>9. \A j \in Items : Enqueueing(j)' \subseteq Enqueueing(j)
  BY <1>5, <1>7
<1> QED
  BY <1>2, <1>6, <1>7, <1>8, <1>9

\* insert_work puts a work_struct that is on no list on one.
LEMMA PutOnList ==
    ASSUME TypeOK, ListsInv, NEW q \in Queues, NEW x \in Works, x \notin Pending,
           NEW i \in Items, Of(x, i), list' = Inserted(q, x)
    PROVE  /\ list' \in [Pools -> Seq(Works)] /\ ListsInv'
           /\ Enqueued(i)' # {}
           /\ Cardinality(Enqueued(i)') = Cardinality(Enqueued(i)) + 1
           /\ \A j \in Items : j # i => Enqueued(j)' = Enqueued(j)
<1> DEFINE p == Pool[q]
<1>1. p \in Pools
  BY DEF Pools
<1>2. list \in [Pools -> Seq(Works)] /\ list' = [list EXCEPT ![p] = Append(list[p], x)]
  BY DEF TypeOK, Inserted
<1> HIDE DEF p
<1>3. list[p] \in Seq(Works) /\ x \notin Range(list[p]) /\ IsInjective(list[p])
  BY <1>1, <1>2 DEF Pending, ListsInv
<1>4. /\ Append(list[p], x) \in Seq(Works) /\ Range(Append(list[p], x)) = Range(list[p]) \cup {x}
      /\ IsInjective(Append(list[p], x))
  BY <1>3, Appended
<1>5. /\ list' \in [Pools -> Seq(Works)] /\ list'[p] = Append(list[p], x)
      /\ \A r \in Pools : r # p => list'[r] = list[r]
  BY <1>1, <1>2, <1>4
<1>6. \A r \in Pools : IsInjective(list'[r])
  <2> TAKE r \in Pools
  <2>1. CASE r = p
    BY <1>4, <1>5, <2>1
  <2>2. CASE r # p
    BY <1>5, <2>2 DEF ListsInv
  <2> QED
    BY <2>1, <2>2
<1>7. \A r \in Pools : Range(list'[r]) = IF r = p THEN Range(list[p]) \cup {x} ELSE Range(list[r])
  BY <1>4, <1>5
<1>8. \A r \in Pools : x \notin Range(list[r])
  BY DEF Pending
<1>9. ListsInv'
  BY <1>6, <1>7, <1>8 DEF ListsInv
<1>10. Pending' = Pending \cup {x}
  <2>1. Pending' = UNION {Range(list'[r]) : r \in Pools}
    BY DEF Pending
  <2> QED
    BY <1>1, <1>7, <2>1 DEF Pending
<1>11. Enqueued(i)' = Enqueued(i) \cup {x} /\ x \notin Enqueued(i)
  BY <1>10 DEF Enqueued, Of
<1>12. \A j \in Items : j # i => ~Of(x, j)
  BY DEF Of
<1>13. \A j \in Items : j # i => Enqueued(j)' = Enqueued(j)
  BY <1>10, <1>12 DEF Enqueued, Of
<1>14. Cardinality(Enqueued(i)') = Cardinality(Enqueued(i)) + 1
  BY <1>11, OwnersFinite, FS_AddElement
<1> QED
  BY <1>5, <1>9, <1>11, <1>13, <1>14

LEMMA TakenOffList ==
    ASSUME TypeOK, ListsInv, NEW p \in Pools, NEW n \in DOMAIN list[p], NEW x \in Works,
           x = list[p][n], NEW i \in Items, Of(x, i),
           list' = [list EXCEPT ![p] = RemoveAt(@, n)]
    PROVE  /\ list' \in [Pools -> Seq(Works)] /\ ListsInv'
           /\ Enqueued(i) # {}
           /\ Cardinality(Enqueued(i)') = Cardinality(Enqueued(i)) - 1
           /\ \A j \in Items : j # i => Enqueued(j)' = Enqueued(j)
           /\ \A j \in Items : Enqueued(j)' \subseteq Enqueued(j)
<1>1. list \in [Pools -> Seq(Works)] /\ list' = [list EXCEPT ![p] = RemoveAt(list[p], n)]
  BY DEF TypeOK
<1>3. list[p] \in Seq(Works) /\ x \in Range(list[p]) /\ IsInjective(list[p])
  BY <1>1 DEF Range, ListsInv
<1>4. /\ RemoveAt(list[p], n) \in Seq(Works) /\ Range(RemoveAt(list[p], n)) = Range(list[p]) \ {x}
      /\ IsInjective(RemoveAt(list[p], n))
  BY <1>3, RemovedAt
<1>5. /\ list' \in [Pools -> Seq(Works)] /\ list'[p] = RemoveAt(list[p], n)
      /\ \A r \in Pools : r # p => list'[r] = list[r]
  BY <1>1, <1>4
<1>6. \A r \in Pools : IsInjective(list'[r])
  <2> TAKE r \in Pools
  <2>1. CASE r = p
    BY <1>4, <1>5, <2>1
  <2>2. CASE r # p
    BY <1>5, <2>2 DEF ListsInv
  <2> QED
    BY <2>1, <2>2
<1>7. \A r \in Pools : Range(list'[r]) = IF r = p THEN Range(list[p]) \ {x} ELSE Range(list[r])
  BY <1>4, <1>5
<1>8. \A r \in Pools : r # p => x \notin Range(list[r])
  BY <1>3 DEF ListsInv
<1>9. ListsInv'
  BY <1>6, <1>7 DEF ListsInv
<1>10. Pending' = Pending \ {x} /\ x \in Pending
  <2>1. Pending' = UNION {Range(list'[r]) : r \in Pools}
    BY DEF Pending
  <2> QED
    BY <1>3, <1>7, <1>8, <2>1 DEF Pending
<1>11. Enqueued(i)' = Enqueued(i) \ {x} /\ x \in Enqueued(i)
  BY <1>10 DEF Enqueued, Of
<1>12. \A j \in Items : j # i => ~Of(x, j)
  BY DEF Of
<1>13. \A j \in Items : j # i => Enqueued(j)' = Enqueued(j)
  BY <1>10, <1>12 DEF Enqueued, Of
<1>14. Cardinality(Enqueued(i)') = Cardinality(Enqueued(i)) - 1
  BY <1>11, OwnersFinite, FS_RemoveElement
<1> QED
  BY <1>5, <1>9, <1>11, <1>13, <1>14

LEMMA RunEntered ==
    ASSUME TypeOK, RunInv, NEW w \in Workers, run[w] = None, NEW x \in Works, NEW i \in Items, Of(x, i),
           run' = [run EXCEPT ![w] = x], mine' = mine \cup {w}
    PROVE  /\ run' \in [Workers -> Works \cup {None}] /\ mine' \subseteq Workers
           /\ Cardinality(Executing(i)') = Cardinality(Executing(i)) + 1
           /\ \A j \in Items : j # i => Executing(j)' = Executing(j)
<1>1. /\ run' \in [Workers -> Works \cup {None}] /\ mine \subseteq Workers
      /\ \A v \in Workers : run'[v] = IF v = w THEN x ELSE run[v]
  BY DEF TypeOK
<1>2. w \notin mine
  BY DEF RunInv
<1>3. \A j \in Items : Of(x, j) <=> j = i
  BY DEF Of
<1>4. Executing(i)' = Executing(i) \cup {w} /\ w \notin Executing(i)
  BY <1>1, <1>2, <1>3 DEF Executing, Of
<1>5. \A j \in Items : j # i => Executing(j)' = Executing(j)
  BY <1>1, <1>2, <1>3 DEF Executing, Of
<1>6. Cardinality(Executing(i)') = Cardinality(Executing(i)) + 1
  BY <1>4, OwnersFinite, FS_AddElement
<1> QED
  BY <1>1, <1>5, <1>6

LEMMA RunGivesAway ==
    ASSUME TypeOK, NEW w \in mine, NEW i \in Items, Of(run[w], i),
           run' = run \/ run' = [run EXCEPT ![w] = None], mine' = mine \ {w}
    PROVE  /\ run' \in [Workers -> Works \cup {None}] /\ mine' \subseteq Workers
           /\ Executing(i) # {}
           /\ Cardinality(Executing(i)') = Cardinality(Executing(i)) - 1
           /\ \A j \in Items : j # i => Executing(j)' = Executing(j)
<1>1. /\ run' \in [Workers -> Works \cup {None}] /\ mine \subseteq Workers
      /\ \A v \in Workers : v # w => run'[v] = run[v]
  BY DEF TypeOK
<1>3. \A j \in Items : Of(run[w], j) <=> j = i
  BY DEF Of
<1>4. Executing(i)' = Executing(i) \ {w} /\ w \in Executing(i)
  BY <1>1, <1>3 DEF Executing, Of
<1>5. \A j \in Items : j # i => Executing(j)' = Executing(j)
  BY <1>1, <1>3 DEF Executing, Of
<1>6. Cardinality(Executing(i)') = Cardinality(Executing(i)) - 1
  BY <1>4, OwnersFinite, FS_RemoveElement
<1> QED
  BY <1>1, <1>4, <1>5, <1>6

\* A step that concerns the owners of one item.
LEMMA CountKept ==
    ASSUME OwnersCounted, NEW i \in Items,
           \A j \in Items : j # i =>
              /\ Arcs(j)' = Arcs(j) /\ Enqueueing(j)' = Enqueueing(j)
              /\ Enqueued(j)' = Enqueued(j) /\ Executing(j)' = Executing(j)
              /\ count'[j] = count[j],
           count'[i] = Cardinality(Arcs(i)') + Cardinality(Enqueueing(i)')
                       + Cardinality(Enqueued(i)') + Cardinality(Executing(i)')
    PROVE  OwnersCounted'
<1> SUFFICES ASSUME NEW j \in Items
             PROVE  count'[j] = Cardinality(Arcs(j)') + Cardinality(Enqueueing(j)')
                                + Cardinality(Enqueued(j)') + Cardinality(Executing(j)')
  BY DEF OwnersCounted
<1>1. CASE j = i
  BY <1>1
<1>2. CASE j # i
  BY <1>2 DEF OwnersCounted
<1> QED
  BY <1>1, <1>2

\* The sets of owners depend on one variable each, two for those who run.
LEMMA OwnersSame ==
    /\ held' = held => \A j \in Items : Arcs(j)' = Arcs(j)
    /\ raw' = raw => \A j \in Items : Enqueueing(j)' = Enqueueing(j)
    /\ list' = list => Pending' = Pending /\ \A j \in Items : Enqueued(j)' = Enqueued(j)
    /\ run' = run /\ mine' = mine => \A j \in Items : Executing(j)' = Executing(j)
<1>1. held' = held => \A j \in Items : Arcs(j)' = Arcs(j)
  BY DEF Arcs
<1>2. raw' = raw => \A j \in Items : Enqueueing(j)' = Enqueueing(j)
  BY DEF Enqueueing, Of
<1>3. list' = list => Pending' = Pending
  BY DEF Pending
<1>4. list' = list => \A j \in Items : Enqueued(j)' = Enqueued(j)
  BY <1>3 DEF Enqueued, Of
<1>5. run' = run /\ mine' = mine => \A j \in Items : Executing(j)' = Executing(j)
  BY DEF Executing, Of
<1> QED
  BY <1>1, <1>2, <1>3, <1>4, <1>5

\* A step that concerns an item of an Arc says nothing of boxes.
LEMMA BoxKept ==
    ASSUME BoxInv, NEW i \in ArcItems, func' = func,
           \A j \in Items : j # i =>
              /\ Enqueueing(j)' = Enqueueing(j) /\ Enqueued(j)' = Enqueued(j)
              /\ count'[j] = count[j] /\ \A t \in Threads : held'[t][j] = held[t][j]
    PROVE  BoxInv'
<1> SUFFICES ASSUME NEW j \in BoxItems
             PROVE  /\ count'[j] <= 1 /\ \A t \in Threads : held'[t][j] = 0
                    /\ Enqueueing(j)' # {} \/ Enqueued(j)' # {} => j \in func'
  BY DEF BoxInv
<1>1. j \in Items /\ j # i
  BY ItemsAssumption DEF Items
<1> QED
  BY <1>1 DEF BoxInv

\* A box has one owner.
LEMMA BoxOwned ==
    ASSUME WInv, NEW i \in BoxItems
    PROVE  /\ Enqueueing(i) # {} => Enqueued(i) = {} /\ Executing(i) = {}
           /\ Enqueued(i) # {} => Enqueueing(i) = {} /\ Executing(i) = {}
           /\ Executing(i) # {} => Enqueueing(i) = {} /\ Enqueued(i) = {}
           /\ Cardinality(Executing(i)) <= 1
<1>1. i \in Items /\ TypeOK /\ count[i] <= 1
  BY DEF WInv, Items, BoxInv
<1>2. count[i] = Cardinality(Arcs(i)) + Cardinality(Enqueueing(i))
                 + Cardinality(Enqueued(i)) + Cardinality(Executing(i))
  BY <1>1 DEF WInv, OwnersCounted
<1> QED
  BY <1>1, <1>2, OwnersNat

\* An item whose count is 0 has no owner.
LEMMA FreeItem ==
    ASSUME WInv, NEW i \in Items, count[i] = 0
    PROVE  /\ Cardinality(Arcs(i)) = 0 /\ Cardinality(Enqueueing(i)) = 0
           /\ Cardinality(Enqueued(i)) = 0 /\ Cardinality(Executing(i)) = 0
           /\ Arcs(i) = {} /\ Enqueueing(i) = {} /\ Enqueued(i) = {} /\ Executing(i) = {}
           /\ \A t \in Threads : held[t][i] = 0
<1>1. TypeOK
  BY DEF WInv
<1>2. count[i] = Cardinality(Arcs(i)) + Cardinality(Enqueueing(i))
                 + Cardinality(Enqueued(i)) + Cardinality(Executing(i))
  BY DEF WInv, OwnersCounted
<1>3. /\ Cardinality(Arcs(i)) = 0 /\ Cardinality(Enqueueing(i)) = 0
      /\ Cardinality(Enqueued(i)) = 0 /\ Cardinality(Executing(i)) = 0
  <2>1. /\ Cardinality(Arcs(i)) \in Nat /\ Cardinality(Enqueueing(i)) \in Nat
        /\ Cardinality(Enqueued(i)) \in Nat /\ Cardinality(Executing(i)) \in Nat
    BY <1>1, OwnersNat
  <2> QED
    BY <1>2, <2>1
<1>4. Arcs(i) = {} /\ Enqueueing(i) = {} /\ Enqueued(i) = {} /\ Executing(i) = {}
  BY <1>1, <1>3, OwnersFinite, FS_EmptySet
<1>5. ASSUME NEW t \in Threads PROVE held[t][i] = 0
  <2>1. held[t][i] \in Nat /\ held[t][i] <= Cardinality(Arcs(i))
    BY <1>1, HeldCounted
  <2> QED
    BY <1>3, <2>1
<1> QED
  BY <1>3, <1>4, <1>5

-----------------------------------------------------------------------------
(* Threads keep the invariant.                                             *)

LEMMA ArcIsItem == \A i \in ArcItems : i \in Items /\ i \notin BoxItems
BY ItemsAssumption DEF Items

LEMMA NewArcKeeps ==
    ASSUME WInv, NEW t \in Threads, NEW i \in ArcItems, NewArc(t, i)
    PROVE  WInv'
<1>0. i \in Items /\ TypeOK /\ MaxArcs \in Nat /\ MaxArcs >= 1
  BY ArcIsItem, MaxArcsAssumption DEF WInv
<1>1. count[i] = 0 /\ count' = [count EXCEPT ![i] = 1]
  BY DEF NewArc
<1>2. UNCHANGED <<raw, list, run, mine, func, ub>>
  BY DEF NewArc
<1>3. held[t][i] = 0 /\ Cardinality(Arcs(i)) = 0 /\ Cardinality(Enqueueing(i)) = 0
      /\ Cardinality(Enqueued(i)) = 0 /\ Cardinality(Executing(i)) = 0
  BY <1>0, <1>1, FreeItem
<1>4. held' = [held EXCEPT ![t][i] = @ + 1] /\ held[t][i] < MaxArcs
  <2>1. held' = [held EXCEPT ![t][i] = 1]
    BY DEF NewArc
  <2> QED
    BY <1>0, <1>3, <2>1
<1>5. /\ held' \in [Threads -> [Items -> 0..MaxArcs]]
      /\ Cardinality(Arcs(i)') = Cardinality(Arcs(i)) + 1
      /\ \A j \in Items : j # i => Arcs(j)' = Arcs(j)
      /\ \A u \in Threads, j \in Items : j # i => held'[u][j] = held[u][j]
  BY <1>0, <1>4, ArcAdded
<1>6. /\ count' \in [Items -> 0..MaxArcs] /\ count'[i] = 1
      /\ \A j \in Items : j # i => count'[j] = count[j]
  BY <1>0, <1>1 DEF TypeOK
<1>7. TypeOK'
  BY <1>2, <1>5, <1>6, <1>0 DEF TypeOK
<1>8. \A j \in Items : /\ Enqueueing(j)' = Enqueueing(j) /\ Enqueued(j)' = Enqueued(j)
                       /\ Executing(j)' = Executing(j)
  BY <1>2, OwnersSame
<1>9. OwnersCounted'
  <2>1. OwnersCounted
    BY DEF WInv
  <2>2. count'[i] = Cardinality(Arcs(i)') + Cardinality(Enqueueing(i)')
                    + Cardinality(Enqueued(i)') + Cardinality(Executing(i)')
    BY <1>0, <1>3, <1>5, <1>6, <1>8
  <2> QED
    BY <1>0, <1>5, <1>6, <1>8, <2>1, <2>2, CountKept
<1>10. BoxInv'
  BY <1>2, <1>5, <1>6, <1>8, BoxKept DEF WInv
<1>11. ListsInv' /\ RunInv' /\ ~ub'
  BY <1>2 DEF WInv, ListsInv, RunInv
<1> QED
  BY <1>7, <1>9, <1>10, <1>11 DEF WInv

LEMMA CloneKeeps ==
    ASSUME WInv, NEW t \in Threads, NEW u \in Threads, NEW i \in ArcItems, Clone(t, u, i)
    PROVE  WInv'
<1>0. i \in Items /\ TypeOK /\ MaxArcs \in Nat /\ OwnersCounted
  BY ArcIsItem, MaxArcsAssumption DEF WInv
<1>1. count[i] < MaxArcs /\ count' = [count EXCEPT ![i] = @ + 1]
      /\ held' = [held EXCEPT ![u][i] = @ + 1]
  BY DEF Clone
<1>2. UNCHANGED <<raw, list, run, mine, func, ub>>
  BY DEF Clone
<1>3. count[i] = Cardinality(Arcs(i)) + Cardinality(Enqueueing(i))
                 + Cardinality(Enqueued(i)) + Cardinality(Executing(i))
  BY <1>0 DEF OwnersCounted
<1>4. held[u][i] < MaxArcs
  <2>1. held[u][i] \in Nat /\ held[u][i] <= Cardinality(Arcs(i))
    BY <1>0, HeldCounted
  <2>2. Cardinality(Arcs(i)) <= count[i] /\ Cardinality(Arcs(i)) \in Nat /\ count[i] \in Nat
    BY <1>0, <1>3, OwnersNat
  <2> QED
    BY <1>0, <1>1, <2>1, <2>2
<1>5. /\ held' \in [Threads -> [Items -> 0..MaxArcs]]
      /\ Cardinality(Arcs(i)') = Cardinality(Arcs(i)) + 1
      /\ \A j \in Items : j # i => Arcs(j)' = Arcs(j)
      /\ \A v \in Threads, j \in Items : j # i => held'[v][j] = held[v][j]
  BY <1>0, <1>1, <1>4, ArcAdded
<1>6. /\ count' \in [Items -> 0..MaxArcs] /\ count'[i] = count[i] + 1
      /\ \A j \in Items : j # i => count'[j] = count[j]
  BY <1>0, <1>1 DEF TypeOK
<1>7. TypeOK'
  BY <1>2, <1>5, <1>6, <1>0 DEF TypeOK
<1>8. \A j \in Items : /\ Enqueueing(j)' = Enqueueing(j) /\ Enqueued(j)' = Enqueued(j)
                       /\ Executing(j)' = Executing(j)
  BY <1>2, OwnersSame
<1>9. OwnersCounted'
  <2>2. count'[i] = Cardinality(Arcs(i)') + Cardinality(Enqueueing(i)')
                    + Cardinality(Enqueued(i)') + Cardinality(Executing(i)')
    BY <1>0, <1>3, <1>5, <1>6, <1>8, OwnersNat
  <2> QED
    BY <1>0, <1>5, <1>6, <1>8, <2>2, CountKept
<1>10. BoxInv'
  BY <1>2, <1>5, <1>6, <1>8, BoxKept DEF WInv
<1>11. ListsInv' /\ RunInv' /\ ~ub'
  BY <1>2 DEF WInv, ListsInv, RunInv
<1> QED
  BY <1>7, <1>9, <1>10, <1>11 DEF WInv

LEMMA DropArcKeeps ==
    ASSUME WInv, NEW t \in Threads, NEW i \in ArcItems, DropArc(t, i)
    PROVE  WInv'
<1>0. i \in Items /\ TypeOK /\ MaxArcs \in Nat /\ OwnersCounted
  BY ArcIsItem, MaxArcsAssumption DEF WInv
<1>1. held[t][i] > 0 /\ count' = [count EXCEPT ![i] = @ - 1]
      /\ held' = [held EXCEPT ![t][i] = @ - 1]
  BY DEF DropArc
<1>2. UNCHANGED <<raw, list, run, mine, func, ub>>
  BY DEF DropArc
<1>3. count[i] = Cardinality(Arcs(i)) + Cardinality(Enqueueing(i))
                 + Cardinality(Enqueued(i)) + Cardinality(Executing(i))
  BY <1>0 DEF OwnersCounted
<1>4. count[i] >= 1
  <2>1. held[t][i] \in Nat /\ held[t][i] <= Cardinality(Arcs(i))
    BY <1>0, HeldCounted
  <2>2. Cardinality(Arcs(i)) <= count[i] /\ Cardinality(Arcs(i)) \in Nat /\ count[i] \in Nat
    BY <1>0, <1>3, OwnersNat
  <2> QED
    BY <1>0, <1>1, <2>1, <2>2
<1>5. /\ held' \in [Threads -> [Items -> 0..MaxArcs]]
      /\ Cardinality(Arcs(i)') = Cardinality(Arcs(i)) - 1
      /\ \A j \in Items : j # i => Arcs(j)' = Arcs(j)
      /\ \A v \in Threads, j \in Items : j # i => held'[v][j] = held[v][j]
  BY <1>0, <1>1, ArcTaken
<1>6. /\ count' \in [Items -> 0..MaxArcs] /\ count'[i] = count[i] - 1
      /\ \A j \in Items : j # i => count'[j] = count[j]
  BY <1>0, <1>1, <1>4 DEF TypeOK
<1>7. TypeOK'
  BY <1>2, <1>5, <1>6, <1>0 DEF TypeOK
<1>8. \A j \in Items : /\ Enqueueing(j)' = Enqueueing(j) /\ Enqueued(j)' = Enqueued(j)
                       /\ Executing(j)' = Executing(j)
  BY <1>2, OwnersSame
<1>9. OwnersCounted'
  <2>2. count'[i] = Cardinality(Arcs(i)') + Cardinality(Enqueueing(i)')
                    + Cardinality(Enqueued(i)') + Cardinality(Executing(i)')
    BY <1>0, <1>3, <1>5, <1>6, <1>8, OwnersNat
  <2> QED
    BY <1>0, <1>5, <1>6, <1>8, <2>2, CountKept
<1>10. BoxInv'
  BY <1>2, <1>5, <1>6, <1>8, BoxKept DEF WInv
<1>11. ListsInv' /\ RunInv' /\ ~ub'
  BY <1>2 DEF WInv, ListsInv, RunInv
<1> QED
  BY <1>7, <1>9, <1>10, <1>11 DEF WInv

LEMMA IntoRawKeeps ==
    ASSUME WInv, NEW t \in Threads, NEW i \in ArcItems, NEW k \in Ids, IntoRaw(t, i, k)
    PROVE  WInv'
<1> DEFINE x == raw_get_work(i, k)
<1>0. /\ i \in Items /\ TypeOK /\ MaxArcs \in Nat /\ OwnersCounted
      /\ x \in Works /\ work_container_of(x) = i
  BY ArcIsItem, MaxArcsAssumption, WorkFacts DEF WInv
<1>1. /\ held[t][i] > 0 /\ held' = [held EXCEPT ![t][i] = @ - 1]
      /\ raw[t] = None /\ raw' = [raw EXCEPT ![t] = x]
  BY DEF IntoRaw
<1> HIDE DEF x
<1>2. UNCHANGED <<count, list, run, mine, func, ub>>
  BY DEF IntoRaw
<1>3. count[i] = Cardinality(Arcs(i)) + Cardinality(Enqueueing(i))
                 + Cardinality(Enqueued(i)) + Cardinality(Executing(i))
  BY <1>0 DEF OwnersCounted
<1>5. /\ held' \in [Threads -> [Items -> 0..MaxArcs]]
      /\ Cardinality(Arcs(i)') = Cardinality(Arcs(i)) - 1
      /\ \A j \in Items : j # i => Arcs(j)' = Arcs(j)
      /\ \A v \in Threads, j \in Items : j # i => held'[v][j] = held[v][j]
  BY <1>0, <1>1, ArcTaken
<1>6. /\ raw' \in [Threads -> Works \cup {None}]
      /\ Cardinality(Enqueueing(i)') = Cardinality(Enqueueing(i)) + 1
      /\ \A j \in Items : j # i => Enqueueing(j)' = Enqueueing(j)
  BY <1>0, <1>1, RawSet
<1>7. TypeOK'
  BY <1>2, <1>5, <1>6, <1>0 DEF TypeOK
<1>8. \A j \in Items : Enqueued(j)' = Enqueued(j) /\ Executing(j)' = Executing(j)
  BY <1>2, OwnersSame
<1>9. OwnersCounted'
  <2>2. count'[i] = Cardinality(Arcs(i)') + Cardinality(Enqueueing(i)')
                    + Cardinality(Enqueued(i)') + Cardinality(Executing(i)')
    BY <1>0, <1>2, <1>3, <1>5, <1>6, <1>8, OwnersNat
  <2> QED
    BY <1>0, <1>2, <1>5, <1>6, <1>8, <2>2, CountKept
<1>10. BoxInv'
  BY <1>2, <1>5, <1>6, <1>8, BoxKept DEF WInv
<1>11. ListsInv' /\ RunInv' /\ ~ub'
  BY <1>2 DEF WInv, ListsInv, RunInv
<1> QED
  BY <1>7, <1>9, <1>10, <1>11 DEF WInv

LEMMA TrySpawnKeeps ==
    ASSUME WInv, NEW t \in Threads, NEW i \in BoxItems, TrySpawn(t, i)
    PROVE  WInv'
<1> DEFINE x == raw_get_work(i, 0)
<1>0. /\ i \in Items /\ TypeOK /\ MaxArcs \in Nat /\ MaxArcs >= 1 /\ OwnersCounted
      /\ x \in Works /\ work_container_of(x) = i
  BY MaxArcsAssumption, WorkFacts DEF WInv, Items
<1>1. /\ count[i] = 0 /\ count' = [count EXCEPT ![i] = 1] /\ func' = func \cup {i}
      /\ raw[t] = None /\ raw' = [raw EXCEPT ![t] = x]
  BY DEF TrySpawn
<1> HIDE DEF x
<1>2. UNCHANGED <<held, list, run, mine, ub>>
  BY DEF TrySpawn
<1>3. /\ Cardinality(Arcs(i)) = 0 /\ Cardinality(Enqueueing(i)) = 0
      /\ Cardinality(Enqueued(i)) = 0 /\ Cardinality(Executing(i)) = 0
  BY <1>0, <1>1, FreeItem
<1>5. /\ raw' \in [Threads -> Works \cup {None}]
      /\ Cardinality(Enqueueing(i)') = Cardinality(Enqueueing(i)) + 1
      /\ \A j \in Items : j # i => Enqueueing(j)' = Enqueueing(j)
  BY <1>0, <1>1, RawSet
<1>6. /\ count' \in [Items -> 0..MaxArcs] /\ count'[i] = 1
      /\ \A j \in Items : j # i => count'[j] = count[j]
  BY <1>0, <1>1 DEF TypeOK
<1>7. TypeOK'
  BY <1>1, <1>2, <1>5, <1>6, <1>0 DEF TypeOK
<1>8. \A j \in Items : /\ Arcs(j)' = Arcs(j) /\ Enqueued(j)' = Enqueued(j)
                       /\ Executing(j)' = Executing(j)
  BY <1>2, OwnersSame
<1>9. OwnersCounted'
  <2>2. count'[i] = Cardinality(Arcs(i)') + Cardinality(Enqueueing(i)')
                    + Cardinality(Enqueued(i)') + Cardinality(Executing(i)')
    BY <1>0, <1>3, <1>5, <1>6, <1>8
  <2> QED
    BY <1>0, <1>5, <1>6, <1>8, <2>2, CountKept
<1>10. BoxInv'
  <2> SUFFICES ASSUME NEW j \in BoxItems
               PROVE  /\ count'[j] <= 1 /\ \A u \in Threads : held'[u][j] = 0
                      /\ Enqueueing(j)' # {} \/ Enqueued(j)' # {} => j \in func'
    BY DEF BoxInv
  <2>1. j \in Items /\ BoxInv
    BY DEF Items, WInv
  <2>2. CASE j = i
    BY <1>1, <1>2, <1>6, <2>1, <2>2 DEF BoxInv
  <2>3. CASE j # i
    BY <1>1, <1>2, <1>5, <1>6, <1>8, <2>1, <2>3 DEF BoxInv
  <2> QED
    BY <2>2, <2>3
<1>11. ListsInv' /\ RunInv' /\ ~ub'
  BY <1>2 DEF WInv, ListsInv, RunInv
<1> QED
  BY <1>7, <1>9, <1>10, <1>11 DEF WInv

LEMMA QueueWorkOnKeeps ==
    ASSUME WInv, NEW t \in Threads, NEW q \in Queues, QueueWorkOn(t, q)
    PROVE  WInv'
<1>1. /\ raw[t] # None /\ raw[t] \notin Pending /\ list' = Inserted(q, raw[t])
      /\ raw' = [raw EXCEPT ![t] = None]
  BY DEF QueueWorkOn, Refused
<1>2. UNCHANGED <<count, held, run, mine, func, ub>>
  BY DEF QueueWorkOn
<1>a. PICK x \in Works : x = raw[t]
  BY <1>1 DEF WInv, TypeOK
<1>b. PICK i \in Items : i = work_container_of(x)
  BY WorkFacts
<1>0. Of(x, i) /\ Of(raw[t], i) /\ TypeOK /\ OwnersCounted /\ ListsInv /\ BoxInv
  BY <1>1, <1>a, <1>b DEF Of, WInv
<1>3. count[i] = Cardinality(Arcs(i)) + Cardinality(Enqueueing(i))
                 + Cardinality(Enqueued(i)) + Cardinality(Executing(i))
  BY <1>0 DEF OwnersCounted
<1>4. /\ raw' \in [Threads -> Works \cup {None}]
      /\ Enqueueing(i) # {}
      /\ Cardinality(Enqueueing(i)') = Cardinality(Enqueueing(i)) - 1
      /\ \A j \in Items : j # i => Enqueueing(j)' = Enqueueing(j)
      /\ \A j \in Items : Enqueueing(j)' \subseteq Enqueueing(j)
  BY <1>0, <1>1, RawCleared
<1>5. /\ list' \in [Pools -> Seq(Works)] /\ ListsInv'
      /\ Cardinality(Enqueued(i)') = Cardinality(Enqueued(i)) + 1
      /\ \A j \in Items : j # i => Enqueued(j)' = Enqueued(j)
  BY <1>0, <1>1, <1>a, PutOnList
<1>7. TypeOK'
  BY <1>2, <1>4, <1>5, <1>0 DEF TypeOK
<1>8. \A j \in Items : Arcs(j)' = Arcs(j) /\ Executing(j)' = Executing(j)
  BY <1>2, OwnersSame
<1>9. OwnersCounted'
  <2>2. count'[i] = Cardinality(Arcs(i)') + Cardinality(Enqueueing(i)')
                    + Cardinality(Enqueued(i)') + Cardinality(Executing(i)')
    BY <1>0, <1>2, <1>3, <1>4, <1>5, <1>8, OwnersNat
  <2> QED
    BY <1>0, <1>2, <1>4, <1>5, <1>8, <2>2, CountKept
<1>10. BoxInv'
  <2> SUFFICES ASSUME NEW j \in BoxItems
               PROVE  /\ count'[j] <= 1 /\ \A u \in Threads : held'[u][j] = 0
                      /\ Enqueueing(j)' # {} \/ Enqueued(j)' # {} => j \in func'
    BY DEF BoxInv
  <2>1. j \in Items
    BY DEF Items
  <2>2. CASE j = i
    BY <1>0, <1>2, <1>4, <2>2 DEF BoxInv
  <2>3. CASE j # i
    BY <1>0, <1>2, <1>4, <1>5, <2>1, <2>3 DEF BoxInv
  <2> QED
    BY <2>2, <2>3
<1>11. RunInv' /\ ~ub'
  BY <1>2 DEF WInv, RunInv
<1> QED
  BY <1>5, <1>7, <1>9, <1>10, <1>11 DEF WInv

\* A box is never refused: what is being spawned is not pending.
LEMMA EnqueueRefusedKeeps ==
    ASSUME WInv, Resolved, NEW t \in Threads, EnqueueRefused(t)
    PROVE  WInv'
<1>1. raw[t] # None /\ raw[t] \in Pending /\ raw' = [raw EXCEPT ![t] = None]
  BY DEF EnqueueRefused, Refused
<1>2. UNCHANGED <<count, list, run, mine, func>>
  BY DEF EnqueueRefused
<1>a. PICK x \in Works : x = raw[t]
  BY <1>1 DEF WInv, TypeOK
<1>b. PICK i \in Items : i = work_container_of(x)
  BY WorkFacts
<1>0. Of(x, i) /\ Of(raw[t], i) /\ TypeOK /\ OwnersCounted /\ MaxArcs \in Nat
  BY <1>1, <1>a, <1>b, MaxArcsAssumption DEF Of, WInv
<1>3. count[i] = Cardinality(Arcs(i)) + Cardinality(Enqueueing(i))
                 + Cardinality(Enqueued(i)) + Cardinality(Executing(i))
  BY <1>0 DEF OwnersCounted
<1>4. /\ raw' \in [Threads -> Works \cup {None}]
      /\ Enqueueing(i) # {}
      /\ Cardinality(Enqueueing(i)') = Cardinality(Enqueueing(i)) - 1
      /\ \A j \in Items : j # i => Enqueueing(j)' = Enqueueing(j)
      /\ \A j \in Items : Enqueueing(j)' \subseteq Enqueueing(j)
  BY <1>0, <1>1, RawCleared
<1>5. x \in Enqueued(i)
  BY <1>0, <1>1, <1>a DEF Enqueued
<1>6. i \in ArcItems /\ ~Box(raw[t])
  <2>1. i \notin BoxItems
    BY <1>4, <1>5, BoxOwned
  <2> QED
    BY <2>1, <1>a, <1>b DEF Items, Box
<1>7. held' = [held EXCEPT ![t][i] = @ + 1] /\ ub' = ub
  BY <1>6, <1>a, <1>b DEF EnqueueRefused
<1>8. held[t][i] < MaxArcs
  <2>1. held[t][i] \in Nat /\ held[t][i] <= Cardinality(Arcs(i))
    BY <1>0, HeldCounted
  <2>2. Cardinality(Arcs(i)) < count[i] /\ Cardinality(Arcs(i)) \in Nat
    BY <1>0, <1>3, <1>4, OwnersNat
  <2>3. count[i] \in 0..MaxArcs
    BY <1>0 DEF TypeOK
  <2> QED
    BY <1>0, <2>1, <2>2, <2>3
<1>9. /\ held' \in [Threads -> [Items -> 0..MaxArcs]]
      /\ Cardinality(Arcs(i)') = Cardinality(Arcs(i)) + 1
      /\ \A j \in Items : j # i => Arcs(j)' = Arcs(j)
      /\ \A v \in Threads, j \in Items : j # i => held'[v][j] = held[v][j]
  BY <1>0, <1>7, <1>8, ArcAdded
<1>10. TypeOK'
  BY <1>2, <1>4, <1>7, <1>9, <1>0 DEF TypeOK
<1>11. \A j \in Items : Enqueued(j)' = Enqueued(j) /\ Executing(j)' = Executing(j)
  BY <1>2, OwnersSame
<1>12. OwnersCounted'
  <2>2. count'[i] = Cardinality(Arcs(i)') + Cardinality(Enqueueing(i)')
                    + Cardinality(Enqueued(i)') + Cardinality(Executing(i)')
    BY <1>0, <1>2, <1>3, <1>4, <1>9, <1>11, OwnersNat
  <2> QED
    BY <1>0, <1>2, <1>4, <1>9, <1>11, <2>2, CountKept
<1>13. BoxInv'
  BY <1>2, <1>4, <1>6, <1>9, <1>11, BoxKept DEF WInv
<1>14. ListsInv' /\ RunInv' /\ ~ub'
  BY <1>2, <1>7 DEF WInv, ListsInv, RunInv
<1> QED
  BY <1>10, <1>12, <1>13, <1>14 DEF WInv

-----------------------------------------------------------------------------
(* Workers keep the invariant.                                             *)

LEMMA StartWorkKeeps ==
    ASSUME WInv, NEW w \in Workers, StartWork(w)
    PROVE  WInv'
<1> DEFINE p == PoolOf[w]
<1>1. run[w] = None /\ mine' = mine \cup {w} /\ UNCHANGED <<count, held, raw, func, ub>>
  BY DEF StartWork
<1>2. PICK n \in DOMAIN list[p] :
         /\ ~\E v \in Running(list[p][n]) : PoolOf[v] = p
         /\ run' = [run EXCEPT ![w] = list[p][n]]
         /\ list' = [list EXCEPT ![p] = RemoveAt(@, n)]
  BY DEF StartWork
<1>3. p \in Pools
  BY PoolAssumption
<1> HIDE DEF p
<1>a. PICK x \in Works : x = list[p][n]
  <2>1. list[p] \in Seq(Works)
    BY <1>3 DEF WInv, TypeOK
  <2> QED
    BY <2>1
<1>b. PICK i \in Items : i = work_container_of(x)
  BY WorkFacts
<1>0. Of(x, i) /\ TypeOK /\ OwnersCounted /\ ListsInv /\ BoxInv /\ RunInv
  BY <1>b, WorkFacts DEF Of, WInv
<1>4. count[i] = Cardinality(Arcs(i)) + Cardinality(Enqueueing(i))
                 + Cardinality(Enqueued(i)) + Cardinality(Executing(i))
  BY <1>0 DEF OwnersCounted
<1>5. /\ list' \in [Pools -> Seq(Works)] /\ ListsInv'
      /\ Enqueued(i) # {}
      /\ Cardinality(Enqueued(i)') = Cardinality(Enqueued(i)) - 1
      /\ \A j \in Items : j # i => Enqueued(j)' = Enqueued(j)
      /\ \A j \in Items : Enqueued(j)' \subseteq Enqueued(j)
  BY <1>0, <1>2, <1>3, <1>a, TakenOffList
<1>6. /\ run' \in [Workers -> Works \cup {None}] /\ mine' \subseteq Workers
      /\ Cardinality(Executing(i)') = Cardinality(Executing(i)) + 1
      /\ \A j \in Items : j # i => Executing(j)' = Executing(j)
  BY <1>0, <1>1, <1>2, <1>a, RunEntered
<1>7. TypeOK'
  BY <1>1, <1>5, <1>6, <1>0 DEF TypeOK
<1>8. \A j \in Items : Arcs(j)' = Arcs(j) /\ Enqueueing(j)' = Enqueueing(j)
  BY <1>1, OwnersSame
<1>9. OwnersCounted'
  <2>2. count'[i] = Cardinality(Arcs(i)') + Cardinality(Enqueueing(i)')
                    + Cardinality(Enqueued(i)') + Cardinality(Executing(i)')
    BY <1>0, <1>1, <1>4, <1>5, <1>6, <1>8, OwnersNat
  <2> QED
    BY <1>0, <1>1, <1>5, <1>6, <1>8, <2>2, CountKept
<1>10. BoxInv'
  <2> SUFFICES ASSUME NEW j \in BoxItems
               PROVE  /\ count'[j] <= 1 /\ \A u \in Threads : held'[u][j] = 0
                      /\ Enqueueing(j)' # {} \/ Enqueued(j)' # {} => j \in func'
    BY DEF BoxInv
  <2>1. j \in Items
    BY DEF Items
  <2>2. Enqueueing(j)' = Enqueueing(j) /\ (Enqueued(j)' # {} => Enqueued(j) # {})
    BY <1>5, <1>8, <2>1
  <2> QED
    BY <1>0, <1>1, <2>2 DEF BoxInv
<1>11. RunInv'
  <2>1. \A v \in Workers : run'[v] = IF v = w THEN x ELSE run[v]
    BY <1>0, <1>2, <1>a DEF TypeOK
  <2>2. x # None /\ mine \subseteq Workers
    BY <1>0 DEF Of, TypeOK
  <2>3. \A v \in mine' : run'[v] # None
    BY <1>0, <1>1, <2>1, <2>2 DEF RunInv
  <2>4. \A v \in Workers : run'[v] # None /\ Box(run'[v]) => v \in mine'
    BY <1>0, <1>1, <2>1 DEF RunInv
  <2>5. \A v \in Workers : run[v] = x => PoolOf[v] # PoolOf[w]
    BY <1>2, <1>a DEF Running, p
  <2>6. \A v, u \in Workers : run'[v] # None /\ run'[v] = run'[u] /\ PoolOf[v] = PoolOf[u] => v = u
    BY <1>0, <2>1, <2>5 DEF RunInv
  <2> QED
    BY <2>3, <2>4, <2>6 DEF RunInv, Box, work_container_of
<1>12. ~ub'
  BY <1>1 DEF WInv
<1> QED
  BY <1>5, <1>7, <1>9, <1>10, <1>11, <1>12 DEF WInv

LEMMA RunRequeueKeeps ==
    ASSUME WInv, NEW w \in Workers, NEW q \in Queues, NEW k \in Ids, RunRequeue(w, q, k)
    PROVE  WInv'
<1>1. /\ run[w] # None /\ ~Box(run[w]) /\ w \in mine /\ mine' = mine \ {w}
      /\ UNCHANGED <<count, held, raw, run, func, ub>>
  BY DEF RunRequeue
<1>a. run[w] \in Works
  BY <1>1 DEF WInv, TypeOK
<1>b. PICK i \in Items : i = work_container_of(run[w])
  BY <1>a, WorkFacts
<1>c. i \in ArcItems
  BY <1>1, <1>b DEF Items, Box
<1>d. PICK x \in Works : x = raw_get_work(i, k)
  BY <1>c, WorkFacts
<1>2. x \notin Pending /\ list' = Inserted(q, x)
  BY <1>b, <1>d DEF RunRequeue, Refused
<1>0. Of(x, i) /\ Of(run[w], i) /\ TypeOK /\ OwnersCounted /\ ListsInv /\ BoxInv /\ RunInv
  BY <1>1, <1>b, <1>d, WorkFacts DEF Of, WInv
<1>3. count[i] = Cardinality(Arcs(i)) + Cardinality(Enqueueing(i))
                 + Cardinality(Enqueued(i)) + Cardinality(Executing(i))
  BY <1>0 DEF OwnersCounted
<1>4. /\ run' \in [Workers -> Works \cup {None}] /\ mine' \subseteq Workers
      /\ Executing(i) # {}
      /\ Cardinality(Executing(i)') = Cardinality(Executing(i)) - 1
      /\ \A j \in Items : j # i => Executing(j)' = Executing(j)
  BY <1>0, <1>1, RunGivesAway
<1>5. /\ list' \in [Pools -> Seq(Works)] /\ ListsInv'
      /\ Cardinality(Enqueued(i)') = Cardinality(Enqueued(i)) + 1
      /\ \A j \in Items : j # i => Enqueued(j)' = Enqueued(j)
  BY <1>0, <1>2, PutOnList
<1>7. TypeOK'
  BY <1>1, <1>4, <1>5, <1>0 DEF TypeOK
<1>8. \A j \in Items : Arcs(j)' = Arcs(j) /\ Enqueueing(j)' = Enqueueing(j)
  BY <1>1, OwnersSame
<1>9. OwnersCounted'
  <2>2. count'[i] = Cardinality(Arcs(i)') + Cardinality(Enqueueing(i)')
                    + Cardinality(Enqueued(i)') + Cardinality(Executing(i)')
    BY <1>0, <1>1, <1>3, <1>4, <1>5, <1>8, OwnersNat
  <2> QED
    BY <1>0, <1>1, <1>4, <1>5, <1>8, <2>2, CountKept
<1>10. BoxInv'
  BY <1>0, <1>1, <1>c, <1>5, <1>8, BoxKept
<1>11. RunInv' /\ ~ub'
  BY <1>0, <1>1 DEF WInv, RunInv, Box, work_container_of
<1> QED
  BY <1>5, <1>7, <1>9, <1>10, <1>11 DEF WInv

\* When a function has returned, its worker owns nothing and the count says so.
LEMMA ReturnKeeps ==
    ASSUME WInv, NEW w \in mine, run[w] # None, NEW i \in Items, Of(run[w], i),
           count' = [count EXCEPT ![i] = @ - 1],
           run' = [run EXCEPT ![w] = None], mine' = mine \ {w},
           UNCHANGED <<held, raw, list, func, ub>>
    PROVE  WInv'
<1>0. TypeOK /\ OwnersCounted /\ ListsInv /\ BoxInv /\ RunInv /\ MaxArcs \in Nat /\ w \in Workers
  BY MaxArcsAssumption DEF WInv, TypeOK
<1>3. count[i] = Cardinality(Arcs(i)) + Cardinality(Enqueueing(i))
                 + Cardinality(Enqueued(i)) + Cardinality(Executing(i))
  BY <1>0 DEF OwnersCounted
<1>4. /\ run' \in [Workers -> Works \cup {None}] /\ mine' \subseteq Workers
      /\ Executing(i) # {}
      /\ Cardinality(Executing(i)') = Cardinality(Executing(i)) - 1
      /\ \A j \in Items : j # i => Executing(j)' = Executing(j)
  BY <1>0, RunGivesAway
<1>5. count[i] >= 1 /\ count[i] \in 0..MaxArcs
  <2>1. count[i] \in 0..MaxArcs
    BY <1>0 DEF TypeOK
  <2> QED
    BY <1>0, <1>3, <1>4, <2>1, OwnersNat
<1>6. /\ count' \in [Items -> 0..MaxArcs] /\ count'[i] = count[i] - 1
      /\ \A j \in Items : j # i => count'[j] = count[j]
  BY <1>0, <1>5 DEF TypeOK
<1>7. TypeOK'
  BY <1>4, <1>6, <1>0 DEF TypeOK
<1>8. \A j \in Items : /\ Arcs(j)' = Arcs(j) /\ Enqueueing(j)' = Enqueueing(j)
                       /\ Enqueued(j)' = Enqueued(j)
  BY OwnersSame
<1>9. OwnersCounted'
  <2>2. count'[i] = Cardinality(Arcs(i)') + Cardinality(Enqueueing(i)')
                    + Cardinality(Enqueued(i)') + Cardinality(Executing(i)')
    BY <1>0, <1>3, <1>4, <1>6, <1>8, OwnersNat
  <2> QED
    BY <1>0, <1>4, <1>6, <1>8, <2>2, CountKept
<1>10. BoxInv'
  <2> SUFFICES ASSUME NEW j \in BoxItems
               PROVE  /\ count'[j] <= 1 /\ \A u \in Threads : held'[u][j] = 0
                      /\ Enqueueing(j)' # {} \/ Enqueued(j)' # {} => j \in func'
    BY DEF BoxInv
  <2>1. j \in Items
    BY DEF Items
  <2>2. count[j] <= 1 /\ count[j] \in 0..MaxArcs
    BY <1>0, <2>1 DEF BoxInv, TypeOK
  <2>3. count'[j] <= 1
    BY <1>5, <1>6, <2>1, <2>2
  <2> QED
    BY <1>0, <1>8, <2>1, <2>3 DEF BoxInv
<1>11. RunInv'
  <2>1. \A v \in Workers : run'[v] = IF v = w THEN None ELSE run[v]
    BY <1>0 DEF TypeOK
  <2>2. \A v \in mine' : run'[v] # None
    BY <1>0, <2>1 DEF RunInv, TypeOK
  <2>3. \A v \in Workers : run'[v] # None /\ Box(run'[v]) => v \in mine'
    BY <1>0, <2>1 DEF RunInv
  <2>4. \A v, u \in Workers : run'[v] # None /\ run'[v] = run'[u] /\ PoolOf[v] = PoolOf[u] => v = u
    BY <1>0, <2>1 DEF RunInv
  <2> QED
    BY <2>2, <2>3, <2>4 DEF RunInv, Box, work_container_of
<1>12. ListsInv' /\ ~ub'
  BY DEF WInv, ListsInv
<1> QED
  BY <1>7, <1>9, <1>10, <1>11, <1>12 DEF WInv

LEMMA RunArcKeeps ==
    ASSUME WInv, NEW w \in Workers, RunArc(w)
    PROVE  WInv'
<1>1. /\ run[w] # None /\ ~Box(run[w]) /\ run' = [run EXCEPT ![w] = None] /\ mine' = mine \ {w}
      /\ UNCHANGED <<held, raw, list, func, ub>>
  BY DEF RunArc
<1>2. run[w] \in Works
  BY <1>1 DEF WInv, TypeOK
<1>3. PICK i \in Items : i = work_container_of(run[w])
  BY <1>2, WorkFacts
<1>4. CASE w \in mine
  <2>1. count' = [count EXCEPT ![i] = @ - 1]
    BY <1>3, <1>4 DEF RunArc
  <2>2. Of(run[w], i)
    BY <1>1, <1>3 DEF Of
  <2> QED
    BY <1>1, <1>4, <2>1, <2>2, ReturnKeeps
<1>5. CASE w \notin mine
  <2>0. TypeOK /\ OwnersCounted /\ BoxInv /\ RunInv
    BY DEF WInv
  <2>1. count' = count /\ mine' = mine
    BY <1>1, <1>5 DEF RunArc
  <2>2. \A v \in Workers : run'[v] = IF v = w THEN None ELSE run[v]
    BY <1>1, <2>0 DEF TypeOK
  <2>3. \A j \in Items : Executing(j)' = Executing(j)
    BY <1>5, <2>0, <2>1, <2>2 DEF Executing, Of, TypeOK
  <2>4. \A j \in Items : /\ Arcs(j)' = Arcs(j) /\ Enqueueing(j)' = Enqueueing(j)
                         /\ Enqueued(j)' = Enqueued(j)
    BY <1>1, OwnersSame
  <2>5. TypeOK'
    BY <1>1, <2>0, <2>1 DEF TypeOK
  <2>6. OwnersCounted'
    BY <2>0, <2>1, <2>3, <2>4 DEF OwnersCounted
  <2>7. BoxInv'
    <3>1. \A j \in BoxItems : j \in Items
      BY DEF Items
    <3> QED
      BY <1>1, <2>0, <2>1, <2>4, <3>1 DEF BoxInv
  <2>8. RunInv'
    <3>1. \A v \in mine' : run'[v] # None
      BY <1>5, <2>0, <2>1, <2>2 DEF RunInv, TypeOK
    <3>2. \A v \in Workers : run'[v] # None /\ Box(run'[v]) => v \in mine'
      BY <2>0, <2>1, <2>2 DEF RunInv
    <3>3. \A v, u \in Workers : run'[v] # None /\ run'[v] = run'[u] /\ PoolOf[v] = PoolOf[u] => v = u
      BY <2>0, <2>2 DEF RunInv
    <3> QED
      BY <3>1, <3>2, <3>3 DEF RunInv, Box, work_container_of
  <2>9. ListsInv' /\ ~ub'
    BY <1>1 DEF WInv, ListsInv
  <2> QED
    BY <2>5, <2>6, <2>7, <2>8, <2>9 DEF WInv
<1> QED
  BY <1>4, <1>5

LEMMA ClosureRunKeeps ==
    ASSUME WInv, NEW w \in Workers, ClosureRun(w)
    PROVE  WInv'
<1>1. /\ run[w] # None /\ Box(run[w]) /\ UNCHANGED <<count, held, raw, list, run, mine, ub>>
      /\ func' = func \ {work_container_of(run[w])}
  BY DEF ClosureRun
<1>2. PICK i \in BoxItems : i = work_container_of(run[w])
  BY <1>1 DEF Box
<1>3. Executing(i) # {}
  BY <1>1, <1>2 DEF WInv, RunInv, Executing, Of
<1>4. Enqueueing(i) = {} /\ Enqueued(i) = {}
  BY <1>3, BoxOwned
<1>5. \A j \in Items : /\ Arcs(j)' = Arcs(j) /\ Enqueueing(j)' = Enqueueing(j)
                       /\ Enqueued(j)' = Enqueued(j) /\ Executing(j)' = Executing(j)
  BY <1>1, OwnersSame
<1>6. TypeOK' /\ ListsInv' /\ ~ub'
  BY <1>1 DEF WInv, TypeOK, ListsInv
<1>7. OwnersCounted'
  BY <1>1, <1>5 DEF WInv, OwnersCounted
<1>8. BoxInv'
  <2> SUFFICES ASSUME NEW j \in BoxItems
               PROVE  /\ count'[j] <= 1 /\ \A u \in Threads : held'[u][j] = 0
                      /\ Enqueueing(j)' # {} \/ Enqueued(j)' # {} => j \in func'
    BY DEF BoxInv
  <2>1. j \in Items
    BY DEF Items
  <2>2. CASE j = i
    BY <1>1, <1>4, <1>5, <2>1, <2>2 DEF WInv, BoxInv
  <2>3. CASE j # i
    BY <1>1, <1>2, <1>5, <2>1, <2>3 DEF WInv, BoxInv
  <2> QED
    BY <2>2, <2>3
<1>9. RunInv'
  BY <1>1 DEF WInv, RunInv, Box, work_container_of
<1> QED
  BY <1>6, <1>7, <1>8, <1>9 DEF WInv

LEMMA RunBoxKeeps ==
    ASSUME WInv, NEW w \in Workers, RunBox(w)
    PROVE  WInv'
<1>1. /\ run[w] # None /\ Box(run[w]) /\ run' = [run EXCEPT ![w] = None] /\ mine' = mine \ {w}
      /\ UNCHANGED <<held, raw, list, func, ub>>
      /\ count' = [count EXCEPT ![work_container_of(run[w])] = @ - 1]
  BY DEF RunBox
<1>2. PICK i \in BoxItems : i = work_container_of(run[w])
  BY <1>1 DEF Box
<1>3. w \in mine
  BY <1>1 DEF WInv, RunInv
<1>4. i \in Items /\ Of(run[w], i)
  BY <1>1, <1>2 DEF Items, Of
<1> QED
  BY <1>1, <1>2, <1>3, <1>4, ReturnKeeps

-----------------------------------------------------------------------------
(* The invariant.                                                          *)

LEMMA InitHolds ==
    ASSUME Init
    PROVE  WInv
<1>0. MaxArcs \in Nat
  BY MaxArcsAssumption
<1>1. TypeOK
  <2>1. <<>> \in Seq(Works)
    BY EmptySeq
  <2>2. 0 \in 0..MaxArcs
    BY <1>0
  <2>3. count \in [Items -> 0..MaxArcs] /\ held \in [Threads -> [Items -> 0..MaxArcs]]
    BY <2>2 DEF Init
  <2>4. /\ raw \in [Threads -> Works \cup {None}] /\ run \in [Workers -> Works \cup {None}]
        /\ list \in [Pools -> Seq(Works)]
    BY <2>1 DEF Init
  <2>5. mine \subseteq Workers /\ func \subseteq BoxItems /\ ub \in BOOLEAN
    BY DEF Init
  <2> QED
    BY <2>3, <2>4, <2>5 DEF TypeOK
<1>2. \A p \in Pools : list[p] = <<>>
  BY DEF Init
<1>3. Range(<<>>) = {} /\ IsInjective(<<>>)
  <2>1. DOMAIN <<>> = {}
    OBVIOUS
  <2> QED
    BY <2>1 DEF Range, IsInjective
<1>4. ListsInv
  BY <1>2, <1>3 DEF ListsInv
<1>5. Pending = {}
  BY <1>2, <1>3 DEF Pending
<1>6. \A i \in Items : /\ Arcs(i) = {} /\ Enqueueing(i) = {} /\ Enqueued(i) = {} /\ Executing(i) = {}
                       /\ count[i] = 0
  <2> TAKE i \in Items
  <2>1. ASSUME NEW a \in Threads \X (1..MaxArcs) PROVE ~(a[2] <= held[a[1]][i])
    <3>1. a[1] \in Threads /\ a[2] \in 1..MaxArcs
      OBVIOUS
    <3>2. held[a[1]][i] = 0
      BY <3>1 DEF Init
    <3> QED
      BY <1>0, <3>1, <3>2
  <2>2. Arcs(i) = {}
    BY <2>1 DEF Arcs
  <2>3. Enqueueing(i) = {} /\ Executing(i) = {}
    <3>1. \A t \in Threads : ~Of(raw[t], i)
      BY DEF Init, Of
    <3>2. mine = {}
      BY DEF Init
    <3> QED
      BY <3>1, <3>2 DEF Enqueueing, Executing
  <2>4. Enqueued(i) = {}
    BY <1>5 DEF Enqueued
  <2> QED
    BY <2>2, <2>3, <2>4 DEF Init
<1>7. OwnersCounted
  BY <1>6, FS_EmptySet DEF OwnersCounted
<1>8. BoxInv
  BY <1>6 DEF Init, BoxInv, Items
<1>9. RunInv /\ ~ub
  BY DEF Init, RunInv
<1> QED
  BY <1>1, <1>4, <1>7, <1>8, <1>9 DEF WInv

LEMMA StepKeeps ==
    ASSUME WInv, Resolved, [Next]_vars
    PROVE  WInv'
<1>1. CASE UNCHANGED vars
  <2>1. UNCHANGED <<count, held, raw, list, run, mine, func, ub>>
    BY <1>1 DEF vars
  <2>2. \A j \in Items : /\ Arcs(j)' = Arcs(j) /\ Enqueueing(j)' = Enqueueing(j)
                         /\ Enqueued(j)' = Enqueued(j) /\ Executing(j)' = Executing(j)
    BY <2>1, OwnersSame
  <2>3. TypeOK' /\ ListsInv' /\ RunInv' /\ ~ub'
    BY <2>1 DEF WInv, TypeOK, ListsInv, RunInv, Box, work_container_of
  <2>4. OwnersCounted'
    BY <2>1, <2>2 DEF WInv, OwnersCounted
  <2>5. BoxInv'
    <3>1. \A j \in BoxItems : j \in Items
      BY DEF Items
    <3> QED
      BY <2>1, <2>2, <3>1 DEF WInv, BoxInv
  <2> QED
    BY <2>3, <2>4, <2>5 DEF WInv
<1>2. CASE Next
  BY <1>2, QueueWorkOnKeeps, EnqueueRefusedKeeps, NewArcKeeps, DropArcKeeps, CloneKeeps, IntoRawKeeps,
     TrySpawnKeeps, StartWorkKeeps, RunArcKeeps, ClosureRunKeeps, RunBoxKeeps, RunRequeueKeeps DEF Next
<1> QED
  BY <1>1, <1>2

LEMMA OwnershipFollows ==
    ASSUME WInv
    PROVE  OwnershipInv
<1>0. TypeOK /\ OwnersCounted /\ ListsInv /\ RunInv /\ BoxInv
  BY DEF WInv
<1>1. ASSUME NEW x \in Works, Box(x)
      PROVE  /\ Cardinality(Running(x)) <= 1
             /\ x \in Pending => work_container_of(x) \in func /\ Running(x) = {}
  <2>1. PICK i \in BoxItems : i = work_container_of(x)
    BY <1>1 DEF Box
  <2>2. i \in Items /\ x # None
    BY WorkFacts DEF Items
  <2>3. Running(x) \subseteq Executing(i)
    BY <1>0, <1>1, <2>1, <2>2 DEF RunInv, Running, Executing, Of
  <2>4. IsFiniteSet(Executing(i)) /\ Cardinality(Executing(i)) <= 1 /\ Cardinality(Executing(i)) \in Nat
    BY <1>0, <2>2, OwnersFinite, OwnersNat, BoxOwned
  <2>5. Cardinality(Running(x)) <= Cardinality(Executing(i)) /\ Cardinality(Running(x)) \in Nat
    BY <2>3, <2>4, FS_Subset, FS_CardinalityType
  <2>6. ASSUME x \in Pending
        PROVE  i \in func /\ Running(x) = {}
    <3>1. Enqueued(i) # {}
      BY <2>1, <2>2, <2>6 DEF Enqueued, Of
    <3> QED
      BY <1>0, <2>3, <3>1, BoxOwned DEF BoxInv
  <2> QED
    BY <2>1, <2>4, <2>5, <2>6
<1>2. \A x \in Works : \A v, w \in Running(x) : PoolOf[v] = PoolOf[w] => v = w
  BY <1>0, WorkFacts DEF RunInv, Running
<1>3. \A p, r \in Pools : IsInjective(list[p]) /\ (p # r => Range(list[p]) \cap Range(list[r]) = {})
  BY <1>0 DEF ListsInv
<1> QED
  BY <1>0, <1>1, <1>2, <1>3 DEF OwnershipInv, OnePlace

\* Where queue_work_on is there, every owner of a work item of Queue::enqueue and
\* Queue::try_spawn is counted, whoever enqueues, runs and requeues it in whatever
\* order, and a work_struct is in one place: container_of and from_raw in run see a
\* live item, and a closure is called once.
THEOREM WorkIsOwned == Resolved => (Spec => []OwnershipInv)
<1> SUFFICES ASSUME Resolved
             PROVE  Spec => []OwnershipInv
  OBVIOUS
<1>1. Init => WInv
  BY InitHolds
<1>2. WInv /\ [Next]_vars => WInv'
  BY StepKeeps
<1>3. WInv => OwnershipInv
  BY OwnershipFollows
<1> QED
  BY <1>1, <1>2, <1>3, PTL DEF Spec

\* The unreachable_unchecked of Pin<KBox<T>>::__enqueue is not reached: a box that
\* is being enqueued is on no list, so queue_work_on takes it.
THEOREM BoxIsNeverRefused == Resolved => (Spec => []~ub)
<1> SUFFICES ASSUME Resolved
             PROVE  Spec => []~ub
  OBVIOUS
<1>1. Init => WInv
  BY InitHolds
<1>2. WInv /\ [Next]_vars => WInv'
  BY StepKeeps
<1>3. WInv => ~ub
  BY DEF WInv
<1> QED
  BY <1>1, <1>2, <1>3, PTL DEF Spec
=============================================================================
