--------------------------- MODULE Sharing_proofs ---------------------------
(***************************************************************************)
(* What holds of the structures that threads share: the intrusive lists,   *)
(* the references to the values that are put on them, and the locks, wait  *)
(* queues and poll tables that guard them.                                 *)
(*                                                                         *)
(* The list of rust/src/list.rs keeps its rings for any number of items    *)
(* and lists. RingInv alone is not inductive: it allows a second ring that *)
(* `first` cannot reach, in which a cursor that removes the last item would *)
(* be left on it. Reachable rules it out; it is stated with sets closed    *)
(* under `next`, which needs no induction over the length of the list.     *)
(* The links implement the sequences of ListSpec: every list has a walk,   *)
(* the sequence that its iterator yields, and each call changes the walk   *)
(* the way that the call of ListSpec changes the sequence (WalkInv).       *)
(*                                                                         *)
(* A value has at most one ListArc per ID, and is freed by its last        *)
(* reference, for any number of references and of list IDs (ArcInv).       *)
(*                                                                         *)
(* For every number of waiters, producers, epoll items, locks and tokens:  *)
(* no wait queue entry outlives its wait, no wakeup is lost to a waiter or *)
(* to a poller, the wait queue head outlives its pollers, and what a lock  *)
(* protects is lent to one thread at a time (SInv).                        *)
(***************************************************************************)
EXTENDS List, ListArc, Sync, FiniteSetTheorems, SequenceTheorems, WellFoundedInduction, TLAPS

-----------------------------------------------------------------------------
(* Linked lists: List.tla.                                                 *)

\* The part of the state that the operations on the links change.
Rings == TypeOK /\ RingInv /\ FirstInv /\ Reachable

IInv == Rings /\ CursorInv

-----------------------------------------------------------------------------
\* An item whose links point at itself is the whole list: it is `first`
\* (move_next and prev_ptr rely on it at the ends of a list).
LEMMA LonelyIsFirst ==
    ASSUME Rings, NEW l \in Lists, NEW i \in Items, where[i] = l, next[i] = i
    PROVE  first[l] = i
<1> SUFFICES ASSUME first[l] # i PROVE FALSE
  OBVIOUS
<1> DEFINE S == Owned(l) \ {i}
<1>1. i \in Owned(l) /\ first[l] # Null
  BY DEF Rings, Reachable, Owned
<1>2. first[l] \in S
  BY <1>1 DEF Rings, TypeOK, FirstInv, Owned
<1>3. \A j \in S : next[j] \in S
  BY Distinct DEF Rings, TypeOK, RingInv, Owned
<1>4. S = Owned(l)
  BY <1>1, <1>2, <1>3 DEF Rings, Reachable, Closed
<1> QED
  BY <1>1, <1>4

\* What insert_inner leaves: the rings are intact and i is in the list.
LEMMA Inserted ==
    ASSUME Rings, NEW l \in Lists, NEW i \in Items, NEW n, NEW f,
           Held(i),
           \/ n = Null /\ first[l] = Null
           \/ n \in Items /\ where[n] = l /\ first[l] # Null,
           f = first[l] \/ (f = i /\ n = first[l]),
           InsertInner(l, i, n, f), cnext' \in [Lists -> Items \cup {Null, NoCursor}]
    PROVE  Rings'
<1>0. Null \notin Items /\ Null \notin Lists
  BY Distinct
<1>a. CASE n = Null
  <2>1. /\ next' = [next EXCEPT ![i] = i]
        /\ prev' = [prev EXCEPT ![i] = i]
        /\ first' = [first EXCEPT ![l] = i]
        /\ where' = [where EXCEPT ![i] = l]
        /\ first[l] = Null
    BY <1>a, <1>0 DEF InsertInner
  <2>2. TypeOK'
    BY <2>1 DEF Rings, TypeOK
  <2>3. RingInv'
    BY <2>1, <1>0 DEF Rings, TypeOK, RingInv, Held
  <2>4. FirstInv'
    BY <2>1, <1>0 DEF Rings, TypeOK, FirstInv, Held
  <2>5. Owned(l)' = {i}
    BY <2>1, <1>0 DEF Rings, TypeOK, Reachable, Owned
  <2>6. ASSUME NEW m \in Lists, m # l
        PROVE  Owned(m)' = Owned(m) /\ first'[m] = first[m] /\ \A j \in Owned(m) : next'[j] = next[j]
    BY <2>1, <2>6, <1>0 DEF Rings, TypeOK, Owned, Held
  <2>7. Reachable'
    <3>1. first'[l] = i /\ i # Null
      BY <2>1, <1>0 DEF Rings, TypeOK
    <3>2. \A S \in SUBSET Owned(l)' : first'[l] \in S => S = Owned(l)'
      BY <2>5, <3>1
    <3> QED
      BY <2>6, <3>1, <3>2 DEF Rings, Reachable, Closed
  <2> QED
    BY <2>2, <2>3, <2>4, <2>7 DEF Rings
<1>b. CASE n # Null
  <2>1. /\ next' = [next EXCEPT ![i] = n, ![prev[n]] = i]
        /\ prev' = [prev EXCEPT ![i] = prev[n], ![n] = i]
        /\ first' = [first EXCEPT ![l] = f]
        /\ where' = [where EXCEPT ![i] = l]
    BY <1>b DEF InsertInner
  <2>2. /\ n \in Items /\ prev[n] \in Items /\ next[prev[n]] = n
        /\ where[n] = l /\ where[prev[n]] = l /\ i # n /\ i # prev[n]
        /\ first[l] \in Items /\ where[first[l]] = l
    BY <1>b, <1>0 DEF Rings, TypeOK, RingInv, FirstInv, Held
  <2>3. TypeOK'
    BY <2>1, <2>2 DEF Rings, TypeOK
  <2>4. RingInv'
    BY <2>1, <2>2, <1>0 DEF Rings, TypeOK, RingInv, Held
  <2>5. FirstInv'
    BY <2>1, <2>2, <1>0 DEF Rings, TypeOK, FirstInv, Held
  <2>6. Owned(l)' = Owned(l) \cup {i} /\ i \notin Owned(l) /\ n \in Owned(l) /\ prev[n] \in Owned(l)
    BY <2>1, <2>2, <1>0 DEF Rings, TypeOK, Owned, Held
  <2>7. ASSUME NEW m \in Lists, m # l
        PROVE  Owned(m)' = Owned(m) /\ first'[m] = first[m] /\ \A j \in Owned(m) : next'[j] = next[j]
    BY <2>1, <2>2, <2>7, <1>0 DEF Rings, TypeOK, Owned, Held
  <2>8. ASSUME NEW S \in SUBSET Owned(l)', first'[l] \in S, \A j \in S : next'[j] \in S
        PROVE  S = Owned(l)'
    <3> DEFINE T == S \ {i}
    <3>1. T \in SUBSET Owned(l)
      BY <2>6
    <3>2. first[l] \in T
      <4>1. next'[i] = n
        BY <2>1, <2>2 DEF Rings, TypeOK
      <4>2. first'[l] = f /\ first[l] # i
        BY <2>1, <2>2, <1>0 DEF Rings, TypeOK, Held
      <4>3. first[l] \in S
        BY <2>8, <4>1, <4>2
      <4> QED
        BY <4>2, <4>3
    <3>3. \A j \in T : next[j] \in T
      <4> SUFFICES ASSUME NEW j \in T PROVE next[j] \in T
        OBVIOUS
      <4>1. j \in Items /\ next[j] # i /\ j # i /\ j \in S
        BY <3>1, <1>0 DEF Rings, TypeOK, RingInv, Owned, Held
      <4>2. CASE j = prev[n]
        <5>1. next'[j] = i /\ next'[i] = n
          BY <2>1, <2>2, <4>2 DEF Rings, TypeOK
        <5> QED
          BY <2>8, <5>1, <4>1, <4>2, <2>2
      <4>3. CASE j # prev[n]
        BY <2>1, <2>2, <2>8, <4>1, <4>3 DEF Rings, TypeOK
      <4> QED
        BY <4>2, <4>3
    <3>4. T = Owned(l)
      BY <3>1, <3>2, <3>3, <2>2, <1>0 DEF Rings, Reachable, Closed
    <3>5. next'[prev[n]] = i
      BY <2>1, <2>2 DEF Rings, TypeOK
    <3> QED
      BY <2>6, <2>8, <3>4, <3>5
  <2>9. Reachable'
    <3>1. first'[l] # Null
      BY <2>1, <2>2, <1>0 DEF Rings, TypeOK
    <3> QED
      BY <2>7, <2>8, <3>1 DEF Rings, Reachable, Closed
  <2> QED
    BY <2>3, <2>4, <2>5, <2>9 DEF Rings
<1> QED
  BY <1>a, <1>b

-----------------------------------------------------------------------------
\* What remove_internal_inner leaves: the rings are intact and i is in no list.
LEMMA Removed ==
    ASSUME Rings, NEW l \in Lists, NEW i \in Items, where[i] = l,
           RemoveInternal(l, i), cnext' \in [Lists -> Items \cup {Null, NoCursor}]
    PROVE  Rings'
<1>0. Null \notin Items /\ Null \notin Lists
  BY Distinct
<1>1. /\ next[i] \in Items /\ prev[i] \in Items
      /\ prev[next[i]] = i /\ next[prev[i]] = i
      /\ where[next[i]] = l /\ where[prev[i]] = l
  BY <1>0 DEF Rings, RingInv
<1>2. /\ prev' = [[prev EXCEPT ![next[i]] = prev[i]] EXCEPT ![i] = Null]
      /\ next' = [[next EXCEPT ![prev[i]] = next[i]] EXCEPT ![i] = Null]
      /\ where' = [where EXCEPT ![i] = Null]
      /\ first' = [first EXCEPT ![l] = IF @ = i THEN next'[prev[i]] ELSE @]
  BY DEF RemoveInternal, Unlink
<1>3. first[l] \in Items /\ where[first[l]] = l
  BY <1>0 DEF Rings, TypeOK, Reachable, FirstInv, Owned
<1>4. first[l] = i => first'[l] = IF next[i] = i THEN Null ELSE next[i]
  BY <1>1, <1>2 DEF Rings, TypeOK
<1>5. first[l] # i => first'[l] = first[l]
  BY <1>2 DEF Rings, TypeOK
<1>6. TypeOK'
  BY <1>0, <1>1, <1>2, <1>3, <1>4, <1>5 DEF Rings, TypeOK
<1>7. RingInv'
  BY <1>0, <1>1, <1>2 DEF Rings, TypeOK, RingInv
<1>8. FirstInv'
  BY <1>0, <1>1, <1>2, <1>3, <1>4, <1>5 DEF Rings, TypeOK, FirstInv
<1>9. /\ Owned(l)' = Owned(l) \ {i}
      /\ i \in Owned(l) /\ next[i] \in Owned(l) /\ prev[i] \in Owned(l) /\ first[l] \in Owned(l)
  BY <1>0, <1>1, <1>2, <1>3 DEF Rings, TypeOK, Owned
<1>10. ASSUME NEW m \in Lists, m # l
       PROVE  Owned(m)' = Owned(m) /\ first'[m] = first[m] /\ \A j \in Owned(m) : next'[j] = next[j]
  BY <1>0, <1>1, <1>2, <1>10 DEF Rings, TypeOK, Owned
<1>11. ASSUME first'[l] = Null PROVE Owned(l)' = {}
  <2>1. first[l] = i /\ next[i] = i
    BY <1>0, <1>1, <1>3, <1>4, <1>5, <1>11
  <2>2. {i} = Owned(l)
    <3>1. {i} \in SUBSET Owned(l) /\ first[l] \in {i} /\ \A j \in {i} : next[j] \in {i}
      BY <1>9, <2>1
    <3> QED
      BY <1>0, <1>3, <3>1 DEF Rings, Reachable, Closed
  <2> QED
    BY <1>9, <2>2
<1>12. ASSUME NEW S \in SUBSET Owned(l)', first'[l] \in S, \A j \in S : next'[j] \in S
       PROVE  S = Owned(l)'
  <2>1. S \in SUBSET Owned(l) /\ i \notin S
    BY <1>9
  <2>2. \A j \in S : j # prev[i] => next[j] \in S
    BY <1>1, <1>2, <1>12, <2>1 DEF Rings, TypeOK, Owned
  <2>3. next[i] \in S \cup {i}
    <3>1. CASE first[l] = i
      BY <1>4, <1>12, <3>1
    <3>2. CASE first[l] # i
      <4>1. CASE prev[i] \in S
        BY <1>1, <1>2, <1>12, <2>1, <4>1 DEF Rings, TypeOK
      <4>2. CASE prev[i] \notin S
        <5>1. \A j \in S : next[j] \in S
          BY <2>2, <4>2
        <5>2. S = Owned(l)
          BY <1>0, <1>3, <1>5, <1>12, <2>1, <3>2, <5>1 DEF Rings, Reachable, Closed
        <5> QED
          BY <1>9, <2>1, <5>2
      <4> QED
        BY <4>1, <4>2
    <3> QED
      BY <3>1, <3>2
  <2>4. \A j \in S \cup {i} : next[j] \in S \cup {i}
    BY <1>1, <2>2, <2>3
  <2>5. first[l] \in S \cup {i}
    BY <1>5, <1>12
  <2>6. S \cup {i} = Owned(l)
    <3>1. S \cup {i} \in SUBSET Owned(l)
      BY <1>9, <2>1
    <3> QED
      BY <1>0, <1>3, <2>4, <2>5, <3>1 DEF Rings, Reachable, Closed
  <2> QED
    BY <1>9, <2>1, <2>6
<1>13. Reachable'
  BY <1>10, <1>11, <1>12 DEF Rings, Reachable, Closed
<1> QED
  BY <1>6, <1>7, <1>8, <1>13 DEF Rings

-----------------------------------------------------------------------------
\* What push_all_back leaves: the two rings have become one.
LEMMA Spliced ==
    ASSUME Rings, NEW l \in Lists, NEW m \in Lists, PushAllBack(l, m)
    PROVE  Rings'
<1>0. Null \notin Items /\ Null \notin Lists /\ l # m /\ cnext' = cnext
  BY Distinct DEF PushAllBack
<1>w. where' = [i \in Items |-> IF where[i] = m THEN l ELSE where[i]]
  BY DEF PushAllBack
<1>o. /\ Owned(l)' = Owned(l) \cup Owned(m)
      /\ Owned(m)' = {}
      /\ \A k \in Lists \ {l, m} : Owned(k)' = Owned(k)
  BY <1>0, <1>w DEF Rings, TypeOK, Owned
<1>1. CASE first[l] = Null
  <2>1. /\ first' = [first EXCEPT ![l] = first[m], ![m] = Null]
        /\ next' = next /\ prev' = prev
    BY <1>1 DEF PushAllBack
  <2>2. Owned(l) = {}
    BY <1>1 DEF Rings, Reachable
  <2>3. TypeOK'
    BY <1>0, <1>w, <2>1 DEF Rings, TypeOK
  <2>4. RingInv'
    BY <1>0, <1>w, <2>1 DEF Rings, TypeOK, RingInv
  <2>5. FirstInv'
    BY <1>0, <1>w, <2>1 DEF Rings, TypeOK, FirstInv
  <2>6. /\ Owned(l)' = Owned(m) /\ first'[l] = first[m] /\ first'[m] = Null
        /\ \A k \in Lists \ {l, m} : first'[k] = first[k]
    BY <1>0, <1>o, <2>1, <2>2 DEF Rings, TypeOK
  <2>7. Reachable'
    BY <1>o, <2>1, <2>6 DEF Rings, Reachable, Closed
  <2> QED
    BY <2>3, <2>4, <2>5, <2>7 DEF Rings
<1>2. CASE first[l] # Null /\ first[m] = Null
  <2>1. first' = first /\ next' = next /\ prev' = prev
    <3>1. first' = [first EXCEPT ![m] = Null] /\ next' = next /\ prev' = prev
      BY <1>2 DEF PushAllBack
    <3> QED
      BY <1>2, <3>1 DEF Rings, TypeOK
  <2>2. Owned(m) = {}
    BY <1>2 DEF Rings, Reachable
  <2>3. where' = where
    BY <1>w, <2>2 DEF Rings, TypeOK, Owned
  <2> QED
    BY <1>0, <2>1, <2>3 DEF Rings, TypeOK, RingInv, FirstInv, Reachable, Closed, Owned
<1>3. CASE first[l] # Null /\ first[m] # Null
  <2> DEFINE fl == first[l]
             fm == first[m]
             ll == prev[first[l]]
             lm == prev[first[m]]
  <2>1. /\ first' = [first EXCEPT ![m] = Null]
        /\ next' = [next EXCEPT ![lm] = fl, ![ll] = fm]
        /\ prev' = [prev EXCEPT ![fl] = lm, ![fm] = ll]
    BY <1>3 DEF PushAllBack
  <2>2. /\ fl \in Items /\ ll \in Items /\ where[fl] = l /\ where[ll] = l /\ next[ll] = fl
        /\ fm \in Items /\ lm \in Items /\ where[fm] = m /\ where[lm] = m /\ next[lm] = fm
    BY <1>0, <1>3 DEF Rings, TypeOK, RingInv, FirstInv
  <2>3. TypeOK'
    BY <1>0, <1>w, <2>1, <2>2 DEF Rings, TypeOK
  <2>4. RingInv'
    <3> SUFFICES ASSUME NEW i \in Items, where'[i] # Null
                 PROVE  /\ next'[i] \in Items /\ prev'[i] \in Items
                        /\ prev'[next'[i]] = i /\ next'[prev'[i]] = i
                        /\ where'[next'[i]] = where'[i] /\ where'[prev'[i]] = where'[i]
      BY <1>0, <1>w, <2>1, <2>2 DEF Rings, TypeOK, RingInv
    <3>1. /\ next[i] \in Items /\ prev[i] \in Items
          /\ prev[next[i]] = i /\ next[prev[i]] = i
          /\ where[next[i]] = where[i] /\ where[prev[i]] = where[i]
      BY <1>0, <1>w DEF Rings, TypeOK, RingInv
    <3>2. /\ next'[i] = IF i = ll THEN fm ELSE IF i = lm THEN fl ELSE next[i]
          /\ prev'[i] = IF i = fm THEN ll ELSE IF i = fl THEN lm ELSE prev[i]
      BY <1>0, <2>1, <2>2 DEF Rings, TypeOK
    <3>3. prev'[next'[i]] = i
      BY <1>0, <2>1, <2>2, <3>1, <3>2 DEF Rings, TypeOK, RingInv
    <3>4. next'[prev'[i]] = i
      BY <1>0, <2>1, <2>2, <3>1, <3>2 DEF Rings, TypeOK, RingInv
    <3>5. where'[next'[i]] = where'[i] /\ where'[prev'[i]] = where'[i]
      BY <1>0, <1>w, <2>2, <3>1, <3>2 DEF Rings, TypeOK
    <3> QED
      BY <2>2, <3>1, <3>2, <3>3, <3>4, <3>5
  <2>5. FirstInv'
    BY <1>0, <1>w, <2>1, <2>2 DEF Rings, TypeOK, FirstInv
  <2>6. /\ first'[l] = fl /\ first'[m] = Null
        /\ \A k \in Lists \ {l, m} : first'[k] = first[k] /\ \A j \in Owned(k) : next'[j] = next[j]
    BY <1>0, <2>1, <2>2 DEF Rings, TypeOK, Owned
  <2>7. ASSUME NEW S \in SUBSET Owned(l)', first'[l] \in S, \A j \in S : next'[j] \in S
        PROVE  S = Owned(l)'
    <3> DEFINE A == S \cap Owned(l)
               B == S \cap Owned(m)
    <3>1. /\ \A j \in A : j # ll => next[j] \in A
          /\ \A j \in B : j # lm => next[j] \in B
      BY <1>0, <2>1, <2>2, <2>7 DEF Rings, TypeOK, RingInv, Owned
    <3>2. fl \in A
      BY <2>2, <2>6, <2>7 DEF Owned
    <3>3. ll \in A
      <4> SUFFICES ASSUME ll \notin A PROVE FALSE
        OBVIOUS
      <4>0. A \in SUBSET Owned(l) /\ \A j \in A : next[j] \in A
        BY <3>1
      <4>1. A = Owned(l)
        BY <1>3, <3>2, <4>0 DEF Rings, Reachable, Closed
      <4> QED
        BY <2>2, <4>1 DEF Owned
    <3>4. A = Owned(l)
      <4>1. \A j \in A : next[j] \in A
        BY <2>2, <3>1, <3>2
      <4> QED
        BY <1>3, <3>2, <4>1 DEF Rings, Reachable, Closed
    <3>5. fm \in B
      <4>1. next'[ll] = fm
        BY <1>0, <2>1, <2>2 DEF Rings, TypeOK
      <4> QED
        BY <2>2, <2>7, <3>3, <4>1 DEF Owned
    <3>6. lm \in B
      <4> SUFFICES ASSUME lm \notin B PROVE FALSE
        OBVIOUS
      <4>0. B \in SUBSET Owned(m) /\ \A j \in B : next[j] \in B
        BY <3>1
      <4>1. B = Owned(m)
        BY <1>3, <3>5, <4>0 DEF Rings, Reachable, Closed
      <4> QED
        BY <2>2, <4>1 DEF Owned
    <3>7. B = Owned(m)
      <4>1. \A j \in B : next[j] \in B
        BY <2>2, <3>1, <3>5
      <4> QED
        BY <1>3, <3>5, <4>1 DEF Rings, Reachable, Closed
    <3> QED
      BY <1>o, <3>4, <3>7
  <2>8. Reachable'
    <3>1. ASSUME NEW k \in Lists \ {l, m}
          PROVE  IF first'[k] = Null THEN Owned(k)' = {}
                 ELSE \A S \in SUBSET Owned(k)' : first'[k] \in S /\ Closed(S)' => S = Owned(k)'
      BY <1>o, <2>6 DEF Rings, Reachable, Closed
    <3>2. first'[l] # Null
      BY <1>3, <2>6
    <3>3. \A S \in SUBSET Owned(l)' : first'[l] \in S /\ Closed(S)' => S = Owned(l)'
      BY <2>7 DEF Closed
    <3> QED
      BY <1>o, <2>6, <3>1, <3>2, <3>3 DEF Reachable
  <2> QED
    BY <2>3, <2>4, <2>5, <2>8 DEF Rings
<1> QED
  BY <1>1, <1>2, <1>3

-----------------------------------------------------------------------------
\* The pointers that the calls pass to insert_inner and remove_internal are null
\* or point into the list, and a cursor that steps away from an item leaves it.
LEMMA PointersOK ==
    ASSUME IInv, NEW l \in Lists
    PROVE  /\ Last(l) # Null => Last(l) \in Items /\ where[Last(l)] = l
           /\ first[l] # Null => first[l] \in Items /\ where[first[l]] = l
           /\ ~Free(l) => /\ cnext[l] # Null => /\ cnext[l] \in Items /\ where[cnext[l]] = l
                                                /\ first[l] # Null
                                                /\ NextPos(l) \in Items \cup {Null}
                                                /\ NextPos(l) # Null => where[NextPos(l)] = l
                                                /\ NextPos(l) # cnext[l]
                          /\ PrevPtr(l) # Null => /\ PrevPtr(l) \in Items /\ where[PrevPtr(l)] = l
                                                  /\ PrevPtr(l) # cnext[l]
                          /\ PrevPtr(l) \in Items \cup {Null}
<1>0. Null \notin Items /\ Null \notin Lists /\ NoCursor \notin Items \cup {Null}
  BY Distinct
<1>1. first[l] # Null => first[l] \in Items /\ where[first[l]] = l
  BY DEF IInv, Rings, TypeOK, FirstInv
<1>2. Last(l) # Null => Last(l) \in Items /\ where[Last(l)] = l
  BY <1>0, <1>1 DEF IInv, Rings, RingInv, Last
<1>3. ASSUME ~Free(l), cnext[l] # Null
      PROVE  /\ cnext[l] \in Items /\ where[cnext[l]] = l /\ first[l] # Null
             /\ NextPos(l) \in Items \cup {Null}
             /\ NextPos(l) # Null => where[NextPos(l)] = l
             /\ NextPos(l) # cnext[l]
  <2>1. cnext[l] \in Items /\ where[cnext[l]] = l
    BY <1>0, <1>3 DEF IInv, Rings, TypeOK, CursorInv, Free
  <2>2. first[l] # Null
    BY <2>1 DEF IInv, Rings, Reachable, Owned
  <2>3. /\ next[cnext[l]] \in Items /\ where[next[cnext[l]]] = l
    BY <1>0, <2>1 DEF IInv, Rings, RingInv
  <2>4. next[cnext[l]] = cnext[l] => first[l] = cnext[l]
    BY <2>1, LonelyIsFirst DEF IInv
  <2> QED
    BY <1>0, <2>1, <2>2, <2>3, <2>4 DEF NextPos
<1>4. ASSUME ~Free(l)
      PROVE  /\ PrevPtr(l) \in Items \cup {Null}
             /\ PrevPtr(l) # Null => /\ PrevPtr(l) \in Items /\ where[PrevPtr(l)] = l
                                     /\ PrevPtr(l) # cnext[l]
  <2>1. CASE cnext[l] = first[l]
    BY <2>1 DEF PrevPtr
  <2>2. CASE cnext[l] # first[l] /\ cnext[l] = Null
    <3>1. PrevPtr(l) = prev[first[l]]
      BY <2>2 DEF PrevPtr
    <3>2. prev[first[l]] \in Items /\ where[prev[first[l]]] = l
      BY <1>0, <1>1, <2>2 DEF IInv, Rings, RingInv
    <3> QED
      BY <1>0, <2>2, <3>1, <3>2
  <2>3. CASE cnext[l] # first[l] /\ cnext[l] # Null
    <3>1. PrevPtr(l) = prev[cnext[l]]
      BY <2>3 DEF PrevPtr
    <3>2. cnext[l] \in Items /\ where[cnext[l]] = l
      BY <1>3, <1>4, <2>3
    <3>3. prev[cnext[l]] \in Items /\ where[prev[cnext[l]]] = l /\ next[prev[cnext[l]]] = cnext[l]
      BY <1>0, <3>2 DEF IInv, Rings, RingInv
    <3>4. prev[cnext[l]] # cnext[l]
      BY <2>3, <3>2, <3>3, LonelyIsFirst DEF IInv
    <3> QED
      BY <3>1, <3>3, <3>4
  <2> QED
    BY <2>1, <2>2, <2>3
<1> QED
  BY <1>1, <1>2, <1>3, <1>4

\* A call that inserts keeps the invariant, whatever it does to the cursor of l
\* as long as that ends up on the new item, where it was, or gone.
LEMMA InsertStep ==
    ASSUME IInv, NEW l \in Lists, NEW i \in Items, NEW n, NEW f,
           Held(i),
           \/ n = Null /\ first[l] = Null
           \/ n \in Items /\ where[n] = l /\ first[l] # Null,
           f = first[l] \/ (f = i /\ n = first[l]),
           InsertInner(l, i, n, f),
           \E c \in {cnext[l], i, NoCursor} : cnext' = [cnext EXCEPT ![l] = c]
    PROVE  IInv'
<1>1. cnext' \in [Lists -> Items \cup {Null, NoCursor}]
  BY DEF IInv, Rings, TypeOK
<1>2. Rings'
  BY <1>1, Inserted DEF IInv
<1>3. where' = [where EXCEPT ![i] = l]
  BY DEF InsertInner
<1>4. CursorInv'
  BY <1>3, Distinct DEF IInv, Rings, TypeOK, CursorInv, Held
<1> QED
  BY <1>2, <1>4 DEF IInv

\* A call that removes the item at p, or nothing, keeps the invariant when the
\* cursor of l ends up on another item of l, at the end, or gone.
LEMMA RemoveStep ==
    ASSUME IInv, NEW l \in Lists, NEW p \in Items \cup {Null}, NEW c \in Items \cup {Null, NoCursor},
           p # Null => where[p] = l,
           c \in Items => where[c] = l /\ c # p,
           RemoveAny(l, p),
           cnext' = [cnext EXCEPT ![l] = c]
    PROVE  IInv'
<1>1. cnext' \in [Lists -> Items \cup {Null, NoCursor}]
  BY DEF IInv, Rings, TypeOK
<1>2. CASE p = Null
  <2>1. first' = first /\ next' = next /\ prev' = prev /\ where' = where
    BY <1>2 DEF RemoveAny
  <2>2. CursorInv'
    BY <2>1, Distinct DEF IInv, Rings, TypeOK, CursorInv
  <2> QED
    BY <1>1, <2>1, <2>2 DEF IInv, Rings, TypeOK, RingInv, FirstInv, Reachable, Closed, Owned
<1>3. CASE p # Null
  <2>1. RemoveInternal(l, p)
    BY <1>3 DEF RemoveAny
  <2>2. Rings'
    BY <1>1, <1>3, <2>1, Removed DEF IInv
  <2>3. where' = [where EXCEPT ![p] = Null]
    BY <2>1 DEF RemoveInternal
  <2>4. CursorInv'
    BY <1>3, <2>3, Distinct DEF IInv, Rings, TypeOK, CursorInv
  <2> QED
    BY <2>2, <2>4 DEF IInv
<1> QED
  BY <1>2, <1>3

\* A call that only moves, opens or drops the cursor of l.
LEMMA MoveStep ==
    ASSUME IInv, NEW l \in Lists, NEW c \in Items \cup {Null, NoCursor},
           c \in Items => where[c] = l,
           cnext' = [cnext EXCEPT ![l] = c],
           UNCHANGED <<first, next, prev, where>>
    PROVE  IInv'
<1>1. TypeOK' /\ CursorInv'
  BY DEF IInv, Rings, TypeOK, CursorInv
<1> QED
  BY <1>1 DEF IInv, Rings, RingInv, FirstInv, Reachable, Closed, Owned

-----------------------------------------------------------------------------
\* List::new and the null links of ListLinks::new satisfy the invariant.
LEMMA InitHolds == Init => IInv
BY Distinct DEF Init, IInv, Rings, TypeOK, RingInv, FirstInv, CursorInv, Reachable, Owned

\* Every call of List and Cursor preserves the invariant.
LEMMA NextHolds == IInv /\ [Next]_vars => IInv'
<1> SUFFICES ASSUME IInv, [Next]_vars PROVE IInv'
  OBVIOUS
<1>1. CASE UNCHANGED vars
  BY <1>1 DEF vars, IInv, Rings, TypeOK, RingInv, FirstInv, CursorInv, Reachable, Closed, Owned
<1>2. CASE Next
  <2> PICK l \in Lists : ListStep(l)
    BY <1>2 DEF Next
  <2>1. CASE \E i \in Items : PushBack(l, i)
    <3> PICK i \in Items : PushBack(l, i)
      BY <2>1
    <3> DEFINE n == first[l]
               f == first[l]
    <3>1. Held(i) /\ InsertInner(l, i, n, f)
      BY DEF PushBack
    <3>2. \E c \in {cnext[l], i, NoCursor} : cnext' = [cnext EXCEPT ![l] = c]
      BY DEF PushBack, IInv, Rings, TypeOK
    <3>3. \/ n = Null /\ first[l] = Null
          \/ n \in Items /\ where[n] = l /\ first[l] # Null
      BY PointersOK
    <3>4. f = first[l] \/ (f = i /\ n = first[l])
      OBVIOUS
    <3> HIDE DEF n, f
    <3> QED
      BY <3>1, <3>2, <3>3, <3>4, InsertStep
  <2>2. CASE \E i \in Items : PushFront(l, i)
    <3> PICK i \in Items : PushFront(l, i)
      BY <2>2
    <3> DEFINE n == first[l]
               f == i
    <3>1. Held(i) /\ InsertInner(l, i, n, f)
      BY DEF PushFront
    <3>2. \E c \in {cnext[l], i, NoCursor} : cnext' = [cnext EXCEPT ![l] = c]
      BY DEF PushFront, IInv, Rings, TypeOK
    <3>3. \/ n = Null /\ first[l] = Null
          \/ n \in Items /\ where[n] = l /\ first[l] # Null
      BY PointersOK
    <3>4. f = first[l] \/ (f = i /\ n = first[l])
      OBVIOUS
    <3> HIDE DEF n, f
    <3> QED
      BY <3>1, <3>2, <3>3, <3>4, InsertStep
  <2>3. CASE \E i \in Items : InsertNext(l, i)
    <3> PICK i \in Items : InsertNext(l, i)
      BY <2>3
    <3> DEFINE n == IF cnext[l] = Null THEN first[l] ELSE cnext[l]
               f == IF cnext[l] = first[l] THEN i ELSE first[l]
    <3>1. Held(i) /\ InsertInner(l, i, n, f)
      BY DEF InsertNext, CursorInsert
    <3>2. \E c \in {cnext[l], i, NoCursor} : cnext' = [cnext EXCEPT ![l] = c]
      BY DEF InsertNext, IInv, Rings, TypeOK
    <3>3. \/ n = Null /\ first[l] = Null
          \/ n \in Items /\ where[n] = l /\ first[l] # Null
      BY PointersOK DEF InsertNext
    <3>4. f = first[l] \/ (f = i /\ n = first[l])
      BY PointersOK DEF InsertNext
    <3> HIDE DEF n, f
    <3> QED
      BY <3>1, <3>2, <3>3, <3>4, InsertStep
  <2>4. CASE \E i \in Items : InsertPrev(l, i)
    <3> PICK i \in Items : InsertPrev(l, i)
      BY <2>4
    <3> DEFINE n == IF cnext[l] = Null THEN first[l] ELSE cnext[l]
               f == IF cnext[l] = first[l] THEN i ELSE first[l]
    <3>1. Held(i) /\ InsertInner(l, i, n, f)
      BY DEF InsertPrev, CursorInsert
    <3>2. \E c \in {cnext[l], i, NoCursor} : cnext' = [cnext EXCEPT ![l] = c]
      BY DEF InsertPrev, IInv, Rings, TypeOK
    <3>3. \/ n = Null /\ first[l] = Null
          \/ n \in Items /\ where[n] = l /\ first[l] # Null
      BY PointersOK DEF InsertPrev
    <3>4. f = first[l] \/ (f = i /\ n = first[l])
      BY PointersOK DEF InsertPrev
    <3> HIDE DEF n, f
    <3> QED
      BY <3>1, <3>2, <3>3, <3>4, InsertStep
  <2>5. CASE \E i \in Items : Insert(l, i)
    <3> PICK i \in Items : Insert(l, i)
      BY <2>5
    <3> DEFINE n == IF cnext[l] = Null THEN first[l] ELSE cnext[l]
               f == IF cnext[l] = first[l] THEN i ELSE first[l]
    <3>1. Held(i) /\ InsertInner(l, i, n, f)
      BY DEF Insert, CursorInsert
    <3>2. \E c \in {cnext[l], i, NoCursor} : cnext' = [cnext EXCEPT ![l] = c]
      BY DEF Insert, IInv, Rings, TypeOK
    <3>3. \/ n = Null /\ first[l] = Null
          \/ n \in Items /\ where[n] = l /\ first[l] # Null
      BY PointersOK DEF Insert
    <3>4. f = first[l] \/ (f = i /\ n = first[l])
      BY PointersOK DEF Insert
    <3> HIDE DEF n, f
    <3> QED
      BY <3>1, <3>2, <3>3, <3>4, InsertStep
  <2>6. CASE \E i \in Items : Remove(l, i)
    <3> PICK i \in Items : Remove(l, i)
      BY <2>6
    <3> DEFINE p == IF next[i] = Null THEN Null ELSE prev[next[i]]
               c == NoCursor
    <3>1. RemoveAny(l, p) /\ cnext' = [cnext EXCEPT ![l] = c]
      BY Distinct DEF Remove, Free, IInv, Rings, TypeOK
    <3>2. /\ p \in Items \cup {Null} /\ (p # Null => where[p] = l)
          /\ c \in Items \cup {Null, NoCursor} /\ (c \in Items => where[c] = l /\ c # p)
      BY PointersOK, Distinct DEF Remove, Free, IInv, Rings, TypeOK, RingInv, CursorInv, Last
    <3> HIDE DEF p, c
    <3> QED
      BY <3>1, <3>2, RemoveStep
  <2>7. CASE PopBack(l)
    <3> DEFINE p == Last(l)
               c == NoCursor
    <3>1. RemoveAny(l, p) /\ cnext' = [cnext EXCEPT ![l] = c]
      BY <2>7, Distinct DEF PopBack, Free, IInv, Rings, TypeOK
    <3>2. /\ p \in Items \cup {Null} /\ (p # Null => where[p] = l)
          /\ c \in Items \cup {Null, NoCursor} /\ (c \in Items => where[c] = l /\ c # p)
      BY <2>7, PointersOK, Distinct DEF PopBack, Free, IInv, Rings, TypeOK, RingInv, CursorInv, Last
    <3> HIDE DEF p, c
    <3> QED
      BY <3>1, <3>2, RemoveStep
  <2>8. CASE PopFront(l)
    <3> DEFINE p == first[l]
               c == NoCursor
    <3>1. RemoveAny(l, p) /\ cnext' = [cnext EXCEPT ![l] = c]
      BY <2>8, Distinct DEF PopFront, Free, IInv, Rings, TypeOK
    <3>2. /\ p \in Items \cup {Null} /\ (p # Null => where[p] = l)
          /\ c \in Items \cup {Null, NoCursor} /\ (c \in Items => where[c] = l /\ c # p)
      BY <2>8, PointersOK, Distinct DEF PopFront, Free, IInv, Rings, TypeOK, RingInv, CursorInv, Last
    <3> HIDE DEF p, c
    <3> QED
      BY <3>1, <3>2, RemoveStep
  <2>9. CASE RemoveNext(l)
    <3> DEFINE p == cnext[l]
               c == IF cnext[l] = Null THEN Null ELSE NextPos(l)
    <3>1. RemoveAny(l, p) /\ cnext' = [cnext EXCEPT ![l] = c]
      BY <2>9, Distinct DEF RemoveNext, IInv, Rings, TypeOK
    <3>2. /\ p \in Items \cup {Null} /\ (p # Null => where[p] = l)
          /\ c \in Items \cup {Null, NoCursor} /\ (c \in Items => where[c] = l /\ c # p)
      BY <2>9, PointersOK, Distinct DEF RemoveNext, Free, IInv, Rings, TypeOK, RingInv, CursorInv, Last
    <3> HIDE DEF p, c
    <3> QED
      BY <3>1, <3>2, RemoveStep
  <2>10. CASE RemovePrev(l)
    <3> DEFINE p == PrevPtr(l)
               c == cnext[l]
    <3>1. RemoveAny(l, p) /\ cnext' = [cnext EXCEPT ![l] = c]
      BY <2>10, Distinct DEF RemovePrev, IInv, Rings, TypeOK
    <3>2. /\ p \in Items \cup {Null} /\ (p # Null => where[p] = l)
          /\ c \in Items \cup {Null, NoCursor} /\ (c \in Items => where[c] = l /\ c # p)
      BY <2>10, PointersOK, Distinct DEF RemovePrev, Free, IInv, Rings, TypeOK, RingInv, CursorInv, Last
    <3> HIDE DEF p, c
    <3> QED
      BY <3>1, <3>2, RemoveStep
  <2>11. CASE \E m \in Lists : PushAllBack(l, m)
    <3> PICK m \in Lists : PushAllBack(l, m)
      BY <2>11
    <3>1. Rings'
      BY Spliced DEF IInv
    <3>2. CursorInv'
      BY Distinct DEF PushAllBack, Free, IInv, Rings, TypeOK, CursorInv
    <3> QED
      BY <3>1, <3>2 DEF IInv
  <2>12. CASE CursorFront(l)
    <3> DEFINE c == first[l]
    <3>1. cnext' = [cnext EXCEPT ![l] = c] /\ UNCHANGED <<first, next, prev, where>>
      BY <2>12 DEF CursorFront, IInv, Rings, TypeOK
    <3>2. c \in Items \cup {Null, NoCursor} /\ (c \in Items => where[c] = l)
      BY <2>12, PointersOK, Distinct DEF CursorFront, IInv, Rings, TypeOK, CursorInv
    <3> HIDE DEF c
    <3> QED
      BY <3>1, <3>2, MoveStep
  <2>13. CASE CursorBack(l)
    <3> DEFINE c == Null
    <3>1. cnext' = [cnext EXCEPT ![l] = c] /\ UNCHANGED <<first, next, prev, where>>
      BY <2>13 DEF CursorBack, IInv, Rings, TypeOK
    <3>2. c \in Items \cup {Null, NoCursor} /\ (c \in Items => where[c] = l)
      BY <2>13, PointersOK, Distinct DEF CursorBack, IInv, Rings, TypeOK, CursorInv
    <3> HIDE DEF c
    <3> QED
      BY <3>1, <3>2, MoveStep
  <2>14. CASE CursorDrop(l)
    <3> DEFINE c == NoCursor
    <3>1. cnext' = [cnext EXCEPT ![l] = c] /\ UNCHANGED <<first, next, prev, where>>
      BY <2>14 DEF CursorDrop, IInv, Rings, TypeOK
    <3>2. c \in Items \cup {Null, NoCursor} /\ (c \in Items => where[c] = l)
      BY <2>14, PointersOK, Distinct DEF CursorDrop, IInv, Rings, TypeOK, CursorInv
    <3> HIDE DEF c
    <3> QED
      BY <3>1, <3>2, MoveStep
  <2>15. CASE PeekNext(l)
    <3> DEFINE c == cnext[l]
    <3>1. cnext' = [cnext EXCEPT ![l] = c] /\ UNCHANGED <<first, next, prev, where>>
      BY <2>15 DEF PeekNext, IInv, Rings, TypeOK
    <3>2. c \in Items \cup {Null, NoCursor} /\ (c \in Items => where[c] = l)
      BY <2>15, PointersOK, Distinct DEF PeekNext, IInv, Rings, TypeOK, CursorInv
    <3> HIDE DEF c
    <3> QED
      BY <3>1, <3>2, MoveStep
  <2>16. CASE PeekPrev(l)
    <3> DEFINE c == cnext[l]
    <3>1. cnext' = [cnext EXCEPT ![l] = c] /\ UNCHANGED <<first, next, prev, where>>
      BY <2>16 DEF PeekPrev, IInv, Rings, TypeOK
    <3>2. c \in Items \cup {Null, NoCursor} /\ (c \in Items => where[c] = l)
      BY <2>16, PointersOK, Distinct DEF PeekPrev, IInv, Rings, TypeOK, CursorInv
    <3> HIDE DEF c
    <3> QED
      BY <3>1, <3>2, MoveStep
  <2>17. CASE MoveNext(l)
    <3> DEFINE c == IF cnext[l] = Null THEN Null ELSE NextPos(l)
    <3>1. cnext' = [cnext EXCEPT ![l] = c] /\ UNCHANGED <<first, next, prev, where>>
      BY <2>17 DEF MoveNext, IInv, Rings, TypeOK
    <3>2. c \in Items \cup {Null, NoCursor} /\ (c \in Items => where[c] = l)
      BY <2>17, PointersOK, Distinct DEF MoveNext, IInv, Rings, TypeOK, CursorInv
    <3> HIDE DEF c
    <3> QED
      BY <3>1, <3>2, MoveStep
  <2>18. CASE MovePrev(l)
    <3> DEFINE c == IF cnext[l] = first[l] THEN cnext[l] ELSE PrevPtr(l)
    <3>1. cnext' = [cnext EXCEPT ![l] = c] /\ UNCHANGED <<first, next, prev, where>>
      BY <2>18 DEF MovePrev, IInv, Rings, TypeOK
    <3>2. c \in Items \cup {Null, NoCursor} /\ (c \in Items => where[c] = l)
      BY <2>18, PointersOK, Distinct DEF MovePrev, IInv, Rings, TypeOK, CursorInv
    <3> HIDE DEF c
    <3> QED
      BY <3>1, <3>2, MoveStep
  <2> QED
    BY <2>1, <2>2, <2>3, <2>4, <2>5, <2>6, <2>7, <2>8, <2>9, <2>10,
       <2>11, <2>12, <2>13, <2>14, <2>15, <2>16, <2>17, <2>18
       DEF ListStep
<1> QED
  BY <1>1, <1>2

\* The invariant of list.rs holds in every reachable state, for every set of
\* items and of lists.
THEOREM ListInvariant == Spec => []IInv
<1>1. Init => IInv
  BY InitHolds
<1>2. IInv /\ [Next]_vars => IInv'
  BY NextHolds
<1> QED
  BY <1>1, <1>2, PTL DEF Spec

\* The links of the items of a list invert each other and never leave the list;
\* those of an item in no list are null.
THEOREM LinksAreRings == Spec => []RingInv
BY ListInvariant, PTL DEF IInv, Rings

\* Every list is one ring that is entered at `first`: no call can lose an item.
THEOREM NothingIsLost == Spec => []Reachable
BY ListInvariant, PTL DEF IInv, Rings

\* `first` is null or an item of its own list, after any sequence of calls.
THEOREM FirstIsOwned == Spec => []FirstInv
BY ListInvariant, PTL DEF IInv, Rings

\* A cursor never points at an item that is no longer in its list.
THEOREM CursorIsOwned == Spec => []CursorInv
BY ListInvariant, PTL DEF IInv, Rings

\* The links of list.rs are right after any sequence of calls on any number of
\* lists, items and cursors.
THEOREM ListsAreSound == Spec => []ListInv
BY LinksAreRings, NothingIsLost, FirstIsOwned, CursorIsOwned, PTL DEF ListInv

\* A set of numbers has a least element.
LEMMA LeastNat ==
    ASSUME NEW T \in SUBSET Nat, T # {}
    PROVE  \E n \in T : \A m \in T : n <= m
<1>1. PICK n \in T : \A m \in T : ~(<<m, n>> \in OpToRel(<, Nat))
  BY NatLessThanWellFounded, WFMin
<1>2. \A m \in T : ~(m < n)
  BY <1>1 DEF OpToRel
<1>3. QED
  BY <1>2

-----------------------------------------------------------------------------
(* The sequence that an iterator yields.                                   *)

\* s is what a walk from `first` meets: every item of the list, once.
IsWalk(l, s) ==
    /\ s \in Seq(Owned(l))
    /\ \A i \in Owned(l) : \E k \in 1..Len(s) : s[k] = i
    /\ \A j, k \in 1..Len(s) : s[j] = s[k] => j = k
    /\ first[l] = IF Len(s) = 0 THEN Null ELSE s[1]
    /\ \A k \in 1..Len(s) : next[s[k]] = IF k = Len(s) THEN s[1] ELSE s[k + 1]

\* A walk is no longer than there are items.
LEMMA WalkLength ==
    ASSUME NEW l \in Lists, NEW s, IsWalk(l, s)
    PROVE  /\ Len(s) \in Nat /\ DOMAIN s = 1..Len(s) /\ \A k \in 1..Len(s) : s[k] \in Items
           /\ Cardinality(Items) \in Nat /\ Len(s) <= Cardinality(Items)
           /\ Cardinality(1..Len(s)) = Len(s)
<1>1. Len(s) \in Nat /\ s \in [1..Len(s) -> Owned(l)] /\ DOMAIN s = 1..Len(s)
  BY LenProperties DEF IsWalk
<1>2. \A k \in 1..Len(s) : s[k] \in Items
  BY <1>1 DEF Owned
<1>3. s \in [1..Len(s) -> Items]
  BY <1>1, <1>2
<1>4. s \in Injection(1..Len(s), Items)
  BY <1>1, <1>3, Zenon DEF IsWalk, Injection, IsInjective
<1>5. Cardinality(1..Len(s)) <= Cardinality(Items)
  BY <1>4, ItemsFinite, FS_Injection
<1>6. Cardinality(1..Len(s)) = Len(s)
  BY <1>1, FS_Interval
<1> QED
  BY <1>1, <1>2, <1>5, <1>6, ItemsFinite, FS_CardinalityType

\* What Iter::next makes of the pointers h met so far.
NextHops(l, h) ==
    [k \in 1..Cardinality(Items) |->
        IF k = 1 THEN first[l]
        ELSE IF h[k-1] = Null \/ next[h[k-1]] = first[l] THEN Null
        ELSE next[h[k-1]]]

\* The equation of Hops has at most one solution.
LEMMA HopsUnique ==
    ASSUME NEW l \in Lists, Cardinality(Items) \in Nat,
           NEW g, NEW h, g = NextHops(l, g), h = NextHops(l, h)
    PROVE  g = h
<1> DEFINE n == Cardinality(Items)
           D == {k \in 1..n : g[k] # h[k]}
<1>0. n \in Nat
  OBVIOUS
<1>1. /\ \A k \in 1..n : g[k] = IF k = 1 THEN first[l]
                               ELSE IF g[k-1] = Null \/ next[g[k-1]] = first[l] THEN Null
                               ELSE next[g[k-1]]
      /\ \A k \in 1..n : h[k] = IF k = 1 THEN first[l]
                               ELSE IF h[k-1] = Null \/ next[h[k-1]] = first[l] THEN Null
                               ELSE next[h[k-1]]
  BY DEF NextHops
<1>2. g = [k \in 1..n |-> g[k]] /\ h = [k \in 1..n |-> h[k]]
  BY Zenon DEF NextHops
<1>3. D = {}
  <2> SUFFICES ASSUME D # {} PROVE FALSE
    OBVIOUS
  <2>1. D \in SUBSET Nat
    BY <1>0
  <2>2. PICK m \in D : \A k \in D : m <= k
    BY <2>1, LeastNat
  <2>3. m \in 1..n /\ g[m] # h[m]
    OBVIOUS
  <2>4. m # 1
    BY <1>1, <2>3
  <2>5. m - 1 \in 1..n /\ m - 1 \notin D
    BY <1>0, <2>2, <2>3, <2>4
  <2>6. g[m-1] = h[m-1]
    BY <2>5
  <2>7. /\ g[m] = IF g[m-1] = Null \/ next[g[m-1]] = first[l] THEN Null ELSE next[g[m-1]]
        /\ h[m] = IF h[m-1] = Null \/ next[h[m-1]] = first[l] THEN Null ELSE next[h[m-1]]
    BY <1>1, <2>3, <2>4
  <2> QED
    BY <2>3, <2>6, <2>7
<1>4. \A k \in 1..n : g[k] = h[k]
  BY <1>3
<1> HIDE DEF n, D
<1> QED
  BY <1>2, <1>4

\* The iterator yields the walk, whatever it is.
LEMMA WalkIs ==
    ASSUME TypeOK, NEW l \in Lists, NEW s, IsWalk(l, s)
    PROVE  Walk(l) = s
<1> DEFINE n == Cardinality(Items)
           h == [k \in 1..n |-> IF k <= Len(s) THEN s[k] ELSE Null]
<1>1. /\ Len(s) \in Nat /\ DOMAIN s = 1..Len(s) /\ \A k \in 1..Len(s) : s[k] \in Items
      /\ n \in Nat /\ Len(s) <= n
  BY WalkLength
<1>2. /\ first[l] = IF Len(s) = 0 THEN Null ELSE s[1]
      /\ \A k \in 1..Len(s) : next[s[k]] = IF k = Len(s) THEN s[1] ELSE s[k + 1]
      /\ \A j, k \in 1..Len(s) : s[j] = s[k] => j = k
  BY DEF IsWalk
<1>h. DOMAIN h = 1..n /\ \A k \in 1..n : h[k] = IF k <= Len(s) THEN s[k] ELSE Null
  OBVIOUS
<1>3. h = NextHops(l, h)
  <2> SUFFICES ASSUME NEW k \in 1..n
               PROVE  h[k] = IF k = 1 THEN first[l]
                             ELSE IF h[k-1] = Null \/ next[h[k-1]] = first[l] THEN Null
                             ELSE next[h[k-1]]
    BY Zenon DEF NextHops
  <2> HIDE DEF n, h
  <2>0. 1 \in 1..n
    BY <1>1
  <2>1. CASE k = 1
    <3>1. h[k] = first[l]
      <4>1. CASE Len(s) = 0
        BY <1>1, <1>2, <1>h, <2>0, <2>1, <4>1
      <4>2. CASE Len(s) # 0
        <5>1. 1 <= Len(s)
          BY <1>1, <4>2
        <5> QED
          BY <1>2, <1>h, <2>0, <2>1, <4>2, <5>1
      <4> QED
        BY <4>1, <4>2
    <3> QED
      BY <2>1, <3>1
  <2>2. CASE k # 1 /\ k - 1 > Len(s)
    <3>1. k - 1 \in 1..n /\ h[k-1] = Null /\ h[k] = Null
      BY <1>1, <1>h, <2>2
    <3> QED
      BY <2>2, <3>1
  <2>3. CASE k # 1 /\ k - 1 = Len(s)
    <3>1. /\ k - 1 \in 1..n /\ k - 1 \in 1..Len(s) /\ h[k-1] = s[k-1] /\ h[k] = Null
          /\ Len(s) # 0
      BY <1>1, <1>h, <2>3
    <3>2. next[s[k-1]] = s[1] /\ first[l] = s[1]
      BY <1>2, <2>3, <3>1
    <3> QED
      BY <2>3, <3>1, <3>2
  <2>4. CASE k # 1 /\ k - 1 < Len(s)
    <3>1. /\ k - 1 \in 1..n /\ k - 1 \in 1..Len(s) /\ k \in 1..Len(s) /\ 1 \in 1..Len(s)
          /\ h[k-1] = s[k-1] /\ h[k] = s[k] /\ k - 1 # Len(s) /\ (k - 1) + 1 = k /\ Len(s) # 0
      BY <1>1, <1>h, <2>4
    <3>2. next[s[k-1]] = s[k] /\ first[l] = s[1]
      BY <1>2, <3>1
    <3>3. s[k] # s[1]
      BY <1>2, <2>4, <3>1
    <3>4. s[k-1] # Null
      BY <1>1, <3>1, Distinct
    <3> QED
      BY <2>4, <3>1, <3>2, <3>3, <3>4
  <2> QED
    BY <1>1, <2>1, <2>2, <2>3, <2>4
<1>4. Hops(l) = CHOOSE g : g = NextHops(l, g)
  BY DEF Hops, NextHops
<1>5. Hops(l) = NextHops(l, Hops(l))
  BY <1>3, <1>4, Zenon
<1> HIDE DEF n
<1>6. Hops(l) = h
  BY <1>1, <1>3, <1>5, HopsUnique DEF n
<1> HIDE DEF h
<1>8. {k \in DOMAIN h : h[k] # Null} = 1..Len(s)
  BY <1>1, <1>h, Distinct
<1>9. Cardinality(1..Len(s)) = Len(s)
  BY WalkLength
<1>10. Walk(l) = [k \in 1..Len(s) |-> h[k]]
  BY <1>6, <1>8, <1>9, Zenon DEF Walk
<1>11. \A k \in 1..Len(s) : h[k] = s[k]
  BY <1>1, <1>h
<1>12. s = [k \in 1..Len(s) |-> s[k]]
  BY LenProperties DEF IsWalk
<1> QED
  BY <1>10, <1>11, <1>12

-----------------------------------------------------------------------------
(* How the links of a list change what an iterator yields.                 *)

\* The walk with i at place p, respectively without the item at place p.
WalkPut(s, p, i) == [k \in 1..(Len(s) + 1) |-> IF k < p THEN s[k] ELSE IF k = p THEN i ELSE s[k - 1]]
WalkCut(s, p) == [k \in 1..(Len(s) - 1) |-> IF k < p THEN s[k] ELSE s[k + 1]]

\* `prev` runs through the walk backwards.
LEMMA PrevOnWalk ==
    ASSUME TypeOK, RingInv, NEW l \in Lists, NEW s, IsWalk(l, s), NEW k \in 1..Len(s)
    PROVE  prev[s[k]] = IF k = 1 THEN s[Len(s)] ELSE s[k - 1]
<1>1. Len(s) \in Nat /\ \A j \in 1..Len(s) : s[j] \in Items
  BY WalkLength
<1>2. \A j \in 1..Len(s) : next[s[j]] = IF j = Len(s) THEN s[1] ELSE s[j + 1]
  BY DEF IsWalk
<1>3. \A j \in 1..Len(s) : where[s[j]] = l
  <2>1. s \in [1..Len(s) -> Owned(l)]
    BY LenProperties DEF IsWalk
  <2> QED
    BY <2>1 DEF Owned
<1>4. \A j \in 1..Len(s) : prev[next[s[j]]] = s[j]
  BY <1>1, <1>3, Distinct DEF RingInv
<1>5. CASE k = 1
  <2>1. Len(s) \in 1..Len(s)
    BY <1>1
  <2>2. next[s[Len(s)]] = s[1]
    BY <1>2, <2>1
  <2> QED
    BY <1>4, <1>5, <2>1, <2>2
<1>6. CASE k # 1
  <2>1. k - 1 \in 1..Len(s) /\ k - 1 # Len(s) /\ (k - 1) + 1 = k
    BY <1>1, <1>6
  <2>2. next[s[k - 1]] = s[k]
    BY <1>2, <2>1
  <2> QED
    BY <1>4, <1>6, <2>1, <2>2
<1> QED
  BY <1>5, <1>6

\* A walk stands as long as the links and the items of its list do.
LEMMA WalkKept ==
    ASSUME NEW m \in Lists, NEW t, IsWalk(m, t), Owned(m)' = Owned(m), first'[m] = first[m],
           \A j \in Owned(m) : next'[j] = next[j]
    PROVE  IsWalk(m, t)'
<1>1. /\ t \in Seq(Owned(m))
      /\ \A i \in Owned(m) : \E k \in 1..Len(t) : t[k] = i
      /\ \A j, k \in 1..Len(t) : t[j] = t[k] => j = k
      /\ first[m] = IF Len(t) = 0 THEN Null ELSE t[1]
      /\ \A k \in 1..Len(t) : next[t[k]] = IF k = Len(t) THEN t[1] ELSE t[k + 1]
  BY DEF IsWalk
<1>2. \A k \in 1..Len(t) : t[k] \in Owned(m)
  BY <1>1, LenProperties
<1>3. \A k \in 1..Len(t) : next'[t[k]] = IF k = Len(t) THEN t[1] ELSE t[k + 1]
  BY <1>1, <1>2
<1>4. first'[m] = IF Len(t) = 0 THEN Null ELSE t[1]
  BY <1>1
<1> QED
  BY <1>1, <1>3, <1>4 DEF IsWalk

\* insert_inner puts i into the walk of its list, in front of the item n.
LEMMA WalkInserted ==
    ASSUME Rings, NEW l \in Lists, NEW i \in Items, NEW s, NEW p \in 1..(Len(s) + 1),
           NEW n, NEW f, Held(i), IsWalk(l, s),
           n = IF Len(s) = 0 THEN Null ELSE IF p = Len(s) + 1 THEN s[1] ELSE s[p],
           Len(s) # 0 => f = IF p = 1 THEN i ELSE first[l],
           InsertInner(l, i, n, f)
    PROVE  IsWalk(l, WalkPut(s, p, i))'
<1> DEFINE N == Len(s)
           t == WalkPut(s, p, i)
<1>0. Null \notin Items /\ Null \notin Lists
  BY Distinct
<1>1. N \in Nat /\ (\A k \in 1..N : s[k] \in Items) /\ p \in Nat /\ 1 <= p /\ p <= N + 1
  BY WalkLength
<1>2. /\ \A k \in 1..N : s[k] \in Owned(l)
      /\ \A j \in Owned(l) : \E k \in 1..N : s[k] = j
      /\ \A j, k \in 1..N : s[j] = s[k] => j = k
      /\ first[l] = IF N = 0 THEN Null ELSE s[1]
      /\ \A k \in 1..N : next[s[k]] = IF k = N THEN s[1] ELSE s[k + 1]
  <2>1. \A k \in 1..N : s[k] \in Owned(l)
    <3>1. s \in Seq(Owned(l))
      BY DEF IsWalk
    <3>2. QED
      BY <3>1, LenProperties
  <2>2. QED
    BY <2>1 DEF IsWalk
<1>3. where' = [where EXCEPT ![i] = l]
  BY DEF InsertInner
<1>4. Owned(l)' = Owned(l) \cup {i} /\ i \notin Owned(l)
  BY <1>0, <1>3 DEF Rings, TypeOK, Owned, Held
<1>5. \A k \in 1..N : s[k] # i
  BY <1>2, <1>4
<1>6. /\ \A k \in 1..(N + 1) : t[k] = IF k < p THEN s[k] ELSE IF k = p THEN i ELSE s[k - 1]
      /\ DOMAIN t = 1..(N + 1)
  BY DEF WalkPut
<1>7. N + 1 \in Nat /\ t = [k \in 1..(N + 1) |-> t[k]]
  BY <1>1 DEF WalkPut
<1> HIDE DEF t, N
<1>8. \A k \in 1..(N + 1) : t[k] \in Owned(l)'
  <2> TAKE k \in 1..(N + 1)
  <2>1. CASE k < p
    <3>1. k \in 1..N
      BY <1>1, <2>1
    <3> QED
      BY <1>2, <1>4, <1>6, <2>1, <3>1
  <2>2. CASE k = p
    BY <1>1, <1>4, <1>6, <2>2
  <2>3. CASE k > p
    <3>1. k - 1 \in 1..N /\ ~(k < p) /\ k # p
      BY <1>1, <2>3
    <3> QED
      BY <1>2, <1>4, <1>6, <3>1
  <2> QED
    BY <1>1, <2>1, <2>2, <2>3
<1>9. t \in Seq(Owned(l)') /\ Len(t) = N + 1
  <2>1. t \in [1..(N + 1) -> Owned(l)']
    BY <1>7, <1>8
  <2>2. t \in Seq(Owned(l)')
    BY <1>7, <2>1, SeqDef
  <2>3. Len(t) \in Nat /\ DOMAIN t = 1..Len(t)
    BY <2>2, LenProperties
  <2> QED
    BY <1>6, <1>7, <2>2, <2>3
<1>10. \A k \in 1..N : \E j \in 1..(N + 1) : t[j] = s[k]
  <2> TAKE k \in 1..N
  <2>1. CASE k < p
    <3>1. k \in 1..(N + 1)
      BY <1>1
    <3> QED
      BY <1>6, <2>1, <3>1
  <2>2. CASE k >= p
    <3>1. k + 1 \in 1..(N + 1) /\ ~(k + 1 < p) /\ k + 1 # p /\ (k + 1) - 1 = k
      BY <1>1, <2>2
    <3>2. t[k + 1] = s[k]
      BY <1>6, <3>1
    <3> QED
      BY <3>1, <3>2
  <2> QED
    BY <1>1, <2>1, <2>2
<1>11. p \in 1..(N + 1) /\ t[p] = i
  BY <1>1, <1>6
<1>12. \A j \in Owned(l)' : \E k \in 1..(N + 1) : t[k] = j
  BY <1>2, <1>4, <1>10, <1>11
<1>13. \A j, k \in 1..(N + 1) : t[j] = t[k] => j = k
  <2> SUFFICES ASSUME NEW j \in 1..(N + 1), NEW k \in 1..(N + 1), t[j] = t[k], j < k PROVE FALSE
    BY <1>1
  <2>1. CASE k < p
    <3>1. j \in 1..N /\ k \in 1..N /\ j < p /\ j # k
      BY <1>1, <2>1
    <3> QED
      BY <1>2, <1>6, <2>1, <3>1
  <2>2. CASE k = p
    <3>1. j \in 1..N /\ j < p
      BY <1>1, <2>2
    <3> QED
      BY <1>5, <1>6, <1>11, <2>2, <3>1
  <2>3. CASE k > p /\ j = p
    <3>1. k - 1 \in 1..N /\ ~(k < p) /\ k # p
      BY <1>1, <2>3
    <3> QED
      BY <1>5, <1>6, <1>11, <2>3, <3>1
  <2>4. CASE k > p /\ j < p
    <3>1. k - 1 \in 1..N /\ ~(k < p) /\ k # p /\ j \in 1..N /\ j # k - 1
      BY <1>1, <2>4
    <3> QED
      BY <1>2, <1>6, <2>4, <3>1
  <2>5. CASE k > p /\ j > p
    <3>1. k - 1 \in 1..N /\ ~(k < p) /\ k # p /\ j - 1 \in 1..N /\ ~(j < p) /\ j # p /\ j - 1 # k - 1
      BY <1>1, <2>5
    <3> QED
      BY <1>2, <1>6, <3>1
  <2> QED
    BY <1>1, <2>1, <2>2, <2>3, <2>4, <2>5
<1>14. /\ first'[l] = t[1]
       /\ \A k \in 1..(N + 1) : next'[t[k]] = IF k = N + 1 THEN t[1] ELSE t[k + 1]
  <2>1. CASE N = 0
    <3>1. n = Null
      BY <2>1 DEF N
    <3>2. next' = [next EXCEPT ![i] = i] /\ first' = [first EXCEPT ![l] = i]
      BY <3>1 DEF InsertInner
    <3>3. next'[i] = i /\ first'[l] = i
      BY <3>2 DEF Rings, TypeOK
    <3>4. p = 1 /\ t[1] = i
      BY <1>1, <1>11, <2>1
    <3>5. \A k \in 1..(N + 1) : k = 1 /\ k = N + 1
      BY <2>1
    <3> QED
      BY <3>3, <3>4, <3>5
  <2>2. CASE N # 0
    <3> DEFINE q == prev[n]
               d == IF p = 1 THEN N ELSE p - 1
    <3>1. /\ n = IF p = N + 1 THEN s[1] ELSE s[p]
          /\ f = IF p = 1 THEN i ELSE first[l]
          /\ 1 \in 1..N /\ N \in 1..N /\ d \in 1..N /\ first[l] = s[1]
      BY <1>1, <1>2, <2>2 DEF N
    <3>2. q = s[d]
      <4>1. CASE p = N + 1
        <5>1. prev[s[1]] = s[N]
          BY <3>1, PrevOnWalk DEF N, Rings
        <5> QED
          BY <1>1, <2>2, <3>1, <4>1, <5>1
      <4>2. CASE p # N + 1
        <5>1. p \in 1..N
          BY <1>1, <4>2
        <5>2. prev[s[p]] = IF p = 1 THEN s[N] ELSE s[p - 1]
          BY <5>1, PrevOnWalk DEF N, Rings
        <5> QED
          BY <3>1, <4>2, <5>2
      <4> QED
        BY <4>1, <4>2
    <3>3. n \in Items /\ n # Null /\ n # i
      <4>1. p # N + 1 => p \in 1..N
        BY <1>1
      <4> QED
        BY <1>0, <1>1, <1>5, <3>1, <4>1
    <3>4. /\ next' = [next EXCEPT ![i] = n, ![prev[n]] = i]
          /\ first' = [first EXCEPT ![l] = f]
      BY <3>3 DEF InsertInner
    <3>5. q \in Items /\ q # i
      BY <1>1, <1>5, <3>1, <3>2
    <3>6. /\ next'[i] = n /\ next'[q] = i /\ first'[l] = f
          /\ \A j \in Items : j # i /\ j # q => next'[j] = next[j]
      BY <3>4, <3>5 DEF Rings, TypeOK
    <3> HIDE DEF q, d
    <3>7. \A k \in 1..N : k # d => next'[s[k]] = IF k = N THEN s[1] ELSE s[k + 1]
      <4> TAKE k \in 1..N
      <4> HAVE k # d
      <4>1. s[k] \in Items /\ s[k] # i /\ s[k] # q
        BY <1>1, <1>2, <1>5, <3>1, <3>2
      <4> QED
        BY <1>2, <3>6, <4>1
    <3>8. t[1] = IF p = 1 THEN i ELSE s[1]
      <4>1. 1 \in 1..(N + 1) /\ (p # 1 => 1 < p) /\ ~(1 < 1)
        BY <1>1
      <4> QED
        BY <1>6, <4>1
    <3>9. first'[l] = t[1]
      BY <3>1, <3>6, <3>8
    <3>10. ASSUME NEW k \in 1..(N + 1)
           PROVE  next'[t[k]] = IF k = N + 1 THEN t[1] ELSE t[k + 1]
      <4>1. CASE k + 1 < p
        <5>1. /\ k \in 1..N /\ k + 1 \in 1..(N + 1) /\ k # d /\ k # N /\ k # N + 1 /\ k < p
          BY <1>1, <4>1 DEF d
        <5> QED
          BY <1>6, <3>7, <4>1, <5>1
      <4>2. CASE k + 1 = p
        <5>1. /\ k \in 1..N /\ k = d /\ k # N + 1 /\ k < p
          BY <1>1, <4>2 DEF d
        <5> QED
          BY <1>6, <1>11, <3>2, <3>6, <4>2, <5>1
      <4>3. CASE k = p
        <5>1. CASE p = N + 1
          <6>1. p # 1
            BY <1>1, <2>2, <5>1
          <6> QED
            BY <1>11, <3>1, <3>6, <3>8, <4>3, <5>1, <6>1
        <5>2. CASE p # N + 1
          <6>1. k + 1 \in 1..(N + 1) /\ ~(k + 1 < p) /\ k + 1 # p /\ (k + 1) - 1 = p
            BY <1>1, <4>3, <5>2
          <6>2. t[k + 1] = s[p]
            BY <1>6, <6>1
          <6> QED
            BY <1>11, <3>1, <3>6, <4>3, <5>2, <6>2
        <5> QED
          BY <5>1, <5>2
      <4>4. CASE k > p
        <5>1. k - 1 \in 1..N /\ ~(k < p) /\ k # p
          BY <1>1, <4>4
        <5>2. t[k] = s[k - 1]
          BY <1>6, <5>1
        <5>3. CASE k = N + 1 /\ p = 1
          <6>1. k - 1 = d
            BY <1>1, <5>3 DEF d
          <6> QED
            BY <3>2, <3>6, <3>8, <5>2, <5>3, <6>1
        <5>4. CASE k = N + 1 /\ p # 1
          <6>1. k - 1 # d /\ k - 1 = N
            BY <1>1, <4>4, <5>4 DEF d
          <6> QED
            BY <3>7, <3>8, <5>1, <5>2, <5>4, <6>1
        <5>5. CASE k # N + 1
          <6>1. /\ k - 1 # d /\ k - 1 # N /\ (k - 1) + 1 = k
                /\ k + 1 \in 1..(N + 1) /\ ~(k + 1 < p) /\ k + 1 # p /\ (k + 1) - 1 = k
            BY <1>1, <4>4, <5>5 DEF d
          <6>2. t[k + 1] = s[k]
            BY <1>6, <6>1
          <6>3. next'[s[k - 1]] = s[k]
            BY <3>7, <5>1, <6>1
          <6> QED
            BY <5>2, <5>5, <6>2, <6>3
        <5> QED
          BY <5>3, <5>4, <5>5
      <4> QED
        BY <1>1, <4>1, <4>2, <4>3, <4>4
    <3> QED
      BY <3>9, <3>10
  <2> QED
    BY <2>1, <2>2
<1>15. Len(t) # 0
  BY <1>1, <1>9
<1> QED
  BY <1>9, <1>12, <1>13, <1>14, <1>15 DEF IsWalk, t, N

\* What a walk says of its items and their links.
LEMMA WalkFacts ==
    ASSUME NEW l \in Lists, NEW s, IsWalk(l, s)
    PROVE  /\ \A k \in 1..Len(s) : s[k] \in Owned(l)
           /\ \A j \in Owned(l) : \E k \in 1..Len(s) : s[k] = j
           /\ \A j, k \in 1..Len(s) : s[j] = s[k] => j = k
           /\ first[l] = IF Len(s) = 0 THEN Null ELSE s[1]
           /\ \A k \in 1..Len(s) : next[s[k]] = IF k = Len(s) THEN s[1] ELSE s[k + 1]
<1>1. s \in Seq(Owned(l))
  BY DEF IsWalk
<1>2. \A k \in 1..Len(s) : s[k] \in Owned(l)
  BY <1>1, LenProperties
<1> QED
  BY <1>2 DEF IsWalk

\* remove_internal_inner takes the item out of the walk of its list.
LEMMA WalkRemoved ==
    ASSUME Rings, NEW l \in Lists, NEW s, NEW p \in 1..Len(s), IsWalk(l, s),
           RemoveInternal(l, s[p])
    PROVE  IsWalk(l, WalkCut(s, p))'
<1> DEFINE N == Len(s)
           t == WalkCut(s, p)
           i == s[p]
<1>0. Null \notin Items /\ Null \notin Lists
  BY Distinct
<1>1. N \in Nat /\ (\A k \in 1..N : s[k] \in Items) /\ p \in Nat /\ 1 <= p /\ p <= N
  BY WalkLength
<1>2. /\ \A k \in 1..N : s[k] \in Owned(l)
      /\ \A j \in Owned(l) : \E k \in 1..N : s[k] = j
      /\ \A j, k \in 1..N : s[j] = s[k] => j = k
      /\ first[l] = IF N = 0 THEN Null ELSE s[1]
      /\ \A k \in 1..N : next[s[k]] = IF k = N THEN s[1] ELSE s[k + 1]
  BY WalkFacts
<1>3. /\ next' = [[next EXCEPT ![prev[i]] = next[i]] EXCEPT ![i] = Null]
      /\ where' = [where EXCEPT ![i] = Null]
      /\ first' = [first EXCEPT ![l] = IF @ = i THEN next'[prev[i]] ELSE @]
  BY DEF RemoveInternal, Unlink
<1>6. /\ \A k \in 1..(N - 1) : t[k] = IF k < p THEN s[k] ELSE s[k + 1]
      /\ DOMAIN t = 1..(N - 1)
  BY DEF WalkCut
<1>7. N - 1 \in Nat /\ t = [k \in 1..(N - 1) |-> t[k]]
  BY <1>1 DEF WalkCut
<1> HIDE DEF t, N, i
<1>a. i \in Items /\ i \in Owned(l) /\ i = s[p] /\ p \in 1..N /\ 1 \in 1..N /\ N \in 1..N
  BY <1>1, <1>2 DEF i
<1>4. Owned(l)' = Owned(l) \ {i}
  BY <1>0, <1>3, <1>a DEF Rings, TypeOK, Owned
<1>b. \A k \in 1..N : s[k] = i => k = p
  BY <1>2, <1>a
<1>8. \A k \in 1..(N - 1) : t[k] \in Owned(l)'
  <2> TAKE k \in 1..(N - 1)
  <2>1. CASE k < p
    <3>1. k \in 1..N /\ k # p
      BY <1>1, <2>1
    <3> QED
      BY <1>2, <1>4, <1>6, <1>b, <2>1, <3>1
  <2>2. CASE k >= p
    <3>1. k + 1 \in 1..N /\ ~(k < p) /\ k + 1 # p
      BY <1>1, <2>2
    <3> QED
      BY <1>2, <1>4, <1>6, <1>b, <3>1
  <2> QED
    BY <1>1, <2>1, <2>2
<1>9. t \in Seq(Owned(l)') /\ Len(t) = N - 1
  <2>1. t \in [1..(N - 1) -> Owned(l)']
    BY <1>7, <1>8
  <2>2. t \in Seq(Owned(l)')
    BY <1>7, <2>1, SeqDef
  <2>3. Len(t) \in Nat /\ DOMAIN t = 1..Len(t)
    BY <2>2, LenProperties
  <2> QED
    BY <1>6, <1>7, <2>2, <2>3
<1>10. \A k \in 1..N : k # p => \E j \in 1..(N - 1) : t[j] = s[k]
  <2> SUFFICES ASSUME NEW k \in 1..N, k # p PROVE \E j \in 1..(N - 1) : t[j] = s[k]
    OBVIOUS
  <2>1. CASE k < p
    <3>1. k \in 1..(N - 1)
      BY <1>1, <2>1
    <3> QED
      BY <1>6, <2>1, <3>1
  <2>2. CASE k > p
    <3>1. k - 1 \in 1..(N - 1) /\ ~(k - 1 < p) /\ (k - 1) + 1 = k
      BY <1>1, <2>2
    <3>2. t[k - 1] = s[k]
      BY <1>6, <3>1
    <3> QED
      BY <3>1, <3>2
  <2> QED
    BY <1>1, <2>1, <2>2
<1>12. \A j \in Owned(l)' : \E k \in 1..(N - 1) : t[k] = j
  <2> TAKE j \in Owned(l)'
  <2>1. PICK k \in 1..N : s[k] = j
    BY <1>2, <1>4
  <2>2. k # p
    BY <1>4, <1>a, <2>1
  <2> QED
    BY <1>10, <2>1, <2>2
<1>13. \A j, k \in 1..(N - 1) : t[j] = t[k] => j = k
  <2> SUFFICES ASSUME NEW j \in 1..(N - 1), NEW k \in 1..(N - 1), t[j] = t[k], j < k PROVE FALSE
    BY <1>1
  <2>1. CASE k < p
    <3>1. j \in 1..N /\ k \in 1..N /\ j < p /\ j # k
      BY <1>1, <2>1
    <3> QED
      BY <1>2, <1>6, <2>1, <3>1
  <2>2. CASE k >= p /\ j < p
    <3>1. k + 1 \in 1..N /\ ~(k < p) /\ j \in 1..N /\ j # k + 1
      BY <1>1, <2>2
    <3> QED
      BY <1>2, <1>6, <2>2, <3>1
  <2>3. CASE k >= p /\ j >= p
    <3>1. k + 1 \in 1..N /\ ~(k < p) /\ j + 1 \in 1..N /\ ~(j < p) /\ j + 1 # k + 1
      BY <1>1, <2>3
    <3> QED
      BY <1>2, <1>6, <3>1
  <2> QED
    BY <1>1, <2>1, <2>2, <2>3
<1>c. prev[i] = IF p = 1 THEN s[N] ELSE s[p - 1]
  BY <1>a, PrevOnWalk DEF N, Rings
<1>d. next[i] = IF p = N THEN s[1] ELSE s[p + 1]
  BY <1>2, <1>a
<1>14. CASE N = 1
  <2>1. p = 1 /\ prev[i] = i /\ first[l] = i
    BY <1>1, <1>2, <1>14, <1>a, <1>c
  <2>2. next'[i] = Null
    BY <1>3, <1>a DEF Rings, TypeOK
  <2>3. first'[l] = Null
    BY <1>3, <2>1, <2>2 DEF Rings, TypeOK
  <2>4. Len(t) = 0 /\ 1..(N - 1) = {} /\ 1..Len(t) = {}
    BY <1>9, <1>14
  <2> QED
    BY <1>9, <1>12, <2>3, <2>4 DEF IsWalk, t, N
<1>15. CASE N # 1
  <2> DEFINE d == IF p = 1 THEN N ELSE p - 1
  <2>1. d \in 1..N /\ d # p /\ prev[i] = s[d]
    BY <1>1, <1>15, <1>c
  <2> HIDE DEF d
  <2>2. prev[i] \in Items /\ prev[i] # i /\ first[l] = s[1]
    BY <1>1, <1>2, <1>b, <2>1
  <2>3. /\ next'[prev[i]] = next[i]
        /\ \A j \in Items : j # i /\ j # prev[i] => next'[j] = next[j]
    BY <1>3, <1>a, <2>2 DEF Rings, TypeOK
  <2>4. first'[l] = IF s[1] = i THEN next[i] ELSE s[1]
    BY <1>3, <2>2, <2>3 DEF Rings, TypeOK
  <2>5. t[1] = IF p = 1 THEN s[2] ELSE s[1]
    <3>1. 1 \in 1..(N - 1) /\ (p # 1 => 1 < p) /\ ~(1 < 1)
      BY <1>1, <1>15
    <3> QED
      BY <1>6, <3>1
  <2>6. first'[l] = t[1]
    <3>1. CASE p = 1
      BY <1>15, <1>a, <1>d, <2>4, <2>5, <3>1
    <3>2. CASE p # 1
      BY <1>a, <1>b, <2>4, <2>5, <3>2
    <3> QED
      BY <3>1, <3>2
  <2>7. \A k \in 1..N : k # p /\ k # d => next'[s[k]] = IF k = N THEN s[1] ELSE s[k + 1]
    <3> TAKE k \in 1..N
    <3> HAVE k # p /\ k # d
    <3>1. s[k] # i /\ s[k] # s[d] /\ s[k] \in Items
      BY <1>1, <1>2, <1>b, <2>1
    <3>2. next'[s[k]] = next[s[k]]
      BY <2>1, <2>3, <3>1
    <3> QED
      BY <1>2, <3>2
  <2>8. ASSUME NEW k \in 1..(N - 1)
        PROVE  next'[t[k]] = IF k = N - 1 THEN t[1] ELSE t[k + 1]
    <3>1. CASE k + 1 < p
      <4>1. /\ k \in 1..N /\ k < p /\ k # p /\ k # d /\ k # N /\ k # N - 1 /\ k + 1 \in 1..(N - 1)
        BY <1>1, <3>1 DEF d
      <4> QED
        BY <1>6, <2>7, <3>1, <4>1
    <3>2. CASE k + 1 = p
      <4>1. k < p /\ k = d /\ p # 1
        BY <1>1, <3>2 DEF d
      <4>2. next'[t[k]] = next[i]
        BY <1>6, <2>1, <2>3, <4>1
      <4>3. CASE k = N - 1
        <5>1. p = N
          BY <1>1, <3>2, <4>3
        <5> QED
          BY <1>d, <2>5, <4>1, <4>2, <4>3, <5>1
      <4>4. CASE k # N - 1
        <5>1. p # N /\ k + 1 \in 1..(N - 1) /\ ~(k + 1 < p)
          BY <1>1, <3>2, <4>4
        <5>2. t[k + 1] = s[(k + 1) + 1]
          BY <1>6, <5>1
        <5> QED
          BY <1>d, <3>2, <4>2, <4>4, <5>1, <5>2
      <4> QED
        BY <4>3, <4>4
    <3>3. CASE k >= p
      <4>1. k + 1 \in 1..N /\ ~(k < p) /\ k + 1 # p
        BY <1>1, <3>3
      <4>2. t[k] = s[k + 1]
        BY <1>6, <4>1
      <4>3. CASE k = N - 1 /\ p = 1
        <5>1. k + 1 = d
          BY <1>1, <4>3 DEF d
        <5>2. p # N /\ p + 1 = 2
          BY <1>15, <4>3
        <5> QED
          BY <1>d, <2>1, <2>3, <2>5, <4>2, <4>3, <5>1, <5>2
      <4>4. CASE k = N - 1 /\ p # 1
        <5>1. k + 1 # d /\ k + 1 = N
          BY <1>1, <3>3, <4>4 DEF d
        <5> QED
          BY <2>5, <2>7, <4>1, <4>2, <4>4, <5>1
      <4>5. CASE k # N - 1
        <5>1. k + 1 # d /\ k + 1 # N /\ k + 1 \in 1..(N - 1) /\ ~(k + 1 < p)
          BY <1>1, <3>3, <4>5 DEF d
        <5>2. t[k + 1] = s[(k + 1) + 1]
          BY <1>6, <5>1
        <5> QED
          BY <2>7, <4>1, <4>2, <4>5, <5>1, <5>2
      <4> QED
        BY <4>3, <4>4, <4>5
    <3> QED
      BY <1>1, <3>1, <3>2, <3>3
  <2>9. Len(t) # 0
    BY <1>1, <1>9, <1>15
  <2>10. /\ \A j \in Owned(l)' : \E k \in 1..Len(t) : t[k] = j
         /\ \A j, k \in 1..Len(t) : t[j] = t[k] => j = k
         /\ \A k \in 1..Len(t) : next'[t[k]] = IF k = Len(t) THEN t[1] ELSE t[k + 1]
         /\ first'[l] = IF Len(t) = 0 THEN Null ELSE t[1]
    BY <1>9, <1>12, <1>13, <2>6, <2>8, <2>9
  <2> QED
    BY <1>9, <2>10 DEF IsWalk, t
<1> QED
  BY <1>14, <1>15

\* push_all_back appends the walk of m to that of l, and leaves m with none.
LEMMA WalkSpliced ==
    ASSUME Rings, NEW l \in Lists, NEW m \in Lists, NEW s, NEW t, IsWalk(l, s), IsWalk(m, t),
           PushAllBack(l, m)
    PROVE  IsWalk(l, s \o t)' /\ IsWalk(m, <<>>)'
<1> DEFINE N == Len(s)
           M == Len(t)
           u == s \o t
<1>0. Null \notin Items /\ Null \notin Lists /\ l # m
  BY Distinct DEF PushAllBack
<1>1. /\ N \in Nat /\ (\A k \in 1..N : s[k] \in Items) /\ s \in Seq(Owned(l))
      /\ M \in Nat /\ (\A k \in 1..M : t[k] \in Items) /\ t \in Seq(Owned(m))
  BY WalkLength DEF IsWalk
<1>2. /\ \A k \in 1..N : s[k] \in Owned(l)
      /\ \A j \in Owned(l) : \E k \in 1..N : s[k] = j
      /\ \A j, k \in 1..N : s[j] = s[k] => j = k
      /\ first[l] = IF N = 0 THEN Null ELSE s[1]
      /\ \A k \in 1..N : next[s[k]] = IF k = N THEN s[1] ELSE s[k + 1]
  BY WalkFacts
<1>3. /\ \A k \in 1..M : t[k] \in Owned(m)
      /\ \A j \in Owned(m) : \E k \in 1..M : t[k] = j
      /\ \A j, k \in 1..M : t[j] = t[k] => j = k
      /\ first[m] = IF M = 0 THEN Null ELSE t[1]
      /\ \A k \in 1..M : next[t[k]] = IF k = M THEN t[1] ELSE t[k + 1]
  BY WalkFacts
<1>w. where' = [i \in Items |-> IF where[i] = m THEN l ELSE where[i]]
  BY DEF PushAllBack
<1>4. Owned(l)' = Owned(l) \cup Owned(m) /\ Owned(m)' = {} /\ Owned(l) \cap Owned(m) = {}
  BY <1>0, <1>w DEF Rings, TypeOK, Owned
<1>5. /\ u \in Seq(Owned(l)') /\ Len(u) = N + M
      /\ \A k \in 1..(N + M) : u[k] = IF k <= N THEN s[k] ELSE t[k - N]
  <2>1. s \in Seq(Owned(l)') /\ t \in Seq(Owned(l)')
    <3>1. s \in [1..N -> Owned(l)] /\ t \in [1..M -> Owned(m)]
      BY <1>1, LenProperties
    <3>2. s \in [1..N -> Owned(l)'] /\ t \in [1..M -> Owned(l)']
      BY <1>4, <3>1
    <3> QED
      BY <1>1, <3>2, SeqDef
  <2> QED
    BY <2>1, ConcatProperties
<1> HIDE DEF u, N, M
<1>a. \A k \in 1..M : N + k \in 1..(N + M) /\ ~(N + k <= N) /\ (N + k) - N = k
  BY <1>1
<1>b. /\ \A k \in 1..N : k \in 1..(N + M) /\ u[k] = s[k]
      /\ \A k \in 1..M : N + k \in 1..(N + M) /\ u[N + k] = t[k]
  <2>1. \A k \in 1..N : k \in 1..(N + M) /\ k <= N
    BY <1>1
  <2> QED
    BY <1>5, <1>a, <2>1
<1>c. \A k \in 1..(N + M) : k \in 1..N \/ \E j \in 1..M : k = N + j
  <2> TAKE k \in 1..(N + M)
  <2>1. CASE k <= N
    BY <1>1, <2>1
  <2>2. CASE k > N
    <3>1. k - N \in 1..M /\ k = N + (k - N)
      BY <1>1, <2>2
    <3> QED
      BY <3>1
  <2> QED
    BY <1>1, <2>1, <2>2
<1>6. \A j \in Owned(l)' : \E k \in 1..(N + M) : u[k] = j
  BY <1>2, <1>3, <1>4, <1>b
<1>7. \A j, k \in 1..(N + M) : u[j] = u[k] => j = k
  <2> TAKE j, k \in 1..(N + M)
  <2>1. CASE j \in 1..N /\ k \in 1..N
    BY <1>2, <1>b, <2>1
  <2>2. CASE j \in 1..N /\ k \notin 1..N
    BY <1>2, <1>3, <1>4, <1>b, <1>c, <2>2
  <2>3. CASE j \notin 1..N /\ k \in 1..N
    BY <1>2, <1>3, <1>4, <1>b, <1>c, <2>3
  <2>4. CASE j \notin 1..N /\ k \notin 1..N
    <3>1. PICK x \in 1..M : j = N + x
      BY <1>c, <2>4
    <3>2. PICK y \in 1..M : k = N + y
      BY <1>c, <2>4
    <3> QED
      BY <1>3, <1>b, <3>1, <3>2
  <2> QED
    BY <2>1, <2>2, <2>3, <2>4
<1>8. first'[m] = Null
  BY <1>0 DEF PushAllBack, Rings, TypeOK
<1>9. IsWalk(m, <<>>)'
  <2>1. << >> \in Seq(Owned(m)') /\ Len(<< >>) = 0 /\ 1..0 = {}
    BY EmptySeq
  <2> QED
    BY <1>4, <1>8, <2>1 DEF IsWalk
<1>10. /\ first'[l] = IF N + M = 0 THEN Null ELSE u[1]
       /\ \A k \in 1..(N + M) : next'[u[k]] = IF k = N + M THEN u[1] ELSE u[k + 1]
  <2>1. CASE N = 0
    <3>1. first' = [first EXCEPT ![l] = first[m], ![m] = Null] /\ next' = next
      BY <1>2, <2>1 DEF PushAllBack
    <3>2. first'[l] = first[m]
      BY <1>0, <3>1 DEF Rings, TypeOK
    <3>3. N + M = M /\ \A k \in 1..M : N + k = k
      BY <1>1, <2>1
    <3>4. \A k \in 1..M : u[k] = t[k]
      BY <1>b, <3>3
    <3>5. M # 0 => 1 \in 1..M
      BY <1>1
    <3>6. \A k \in 1..M : k # M => k + 1 \in 1..M
      BY <1>1
    <3>7. \A k \in 1..M : 1 \in 1..M
      BY <1>1
    <3> QED
      BY <1>3, <3>1, <3>2, <3>3, <3>4, <3>5, <3>6, <3>7
  <2>2. CASE N # 0 /\ M = 0
    <3>1. first' = [first EXCEPT ![m] = Null] /\ next' = next
      BY <1>0, <1>1, <1>2, <1>3, <2>2 DEF PushAllBack
    <3>2. first'[l] = first[l]
      BY <1>0, <3>1 DEF Rings, TypeOK
    <3>3. N + M = N /\ 1 \in 1..N /\ \A k \in 1..N : k # N => k + 1 \in 1..N
      BY <1>1, <2>2
    <3> QED
      BY <1>2, <1>b, <2>2, <3>1, <3>2, <3>3
  <2>3. CASE N # 0 /\ M # 0
    <3>1. first[l] = s[1] /\ first[m] = t[1] /\ 1 \in 1..N /\ N \in 1..N /\ 1 \in 1..M /\ M \in 1..M
      BY <1>1, <1>2, <1>3, <2>3
    <3>2. prev[s[1]] = s[N] /\ prev[t[1]] = t[M]
      BY <3>1, PrevOnWalk DEF N, M, Rings
    <3>3. s[1] # Null /\ t[1] # Null
      BY <1>0, <1>1, <3>1
    <3>4. /\ first' = [first EXCEPT ![m] = Null]
          /\ next' = [next EXCEPT ![prev[first[m]]] = first[l], ![prev[first[l]]] = first[m]]
      BY <3>1, <3>3 DEF PushAllBack
    <3>5. next' = [next EXCEPT ![t[M]] = s[1], ![s[N]] = t[1]]
      BY <3>1, <3>2, <3>4
    <3>6. s[N] \in Items /\ t[M] \in Items /\ s[N] # t[M]
      BY <1>1, <1>2, <1>3, <1>4, <3>1
    <3>7. /\ next'[t[M]] = s[1] /\ next'[s[N]] = t[1] /\ first'[l] = s[1]
          /\ \A j \in Items : j # t[M] /\ j # s[N] => next'[j] = next[j]
      BY <1>0, <3>1, <3>4, <3>5, <3>6 DEF Rings, TypeOK
    <3>8. u[1] = s[1] /\ N + M # 0
      BY <1>1, <1>b, <3>1
    <3>9. \A k \in 1..N : k # N => next'[s[k]] = s[k + 1]
      <4> TAKE k \in 1..N
      <4> HAVE k # N
      <4>1. s[k] \in Items /\ s[k] # s[N] /\ s[k] # t[M]
        BY <1>1, <1>2, <1>3, <1>4, <3>1
      <4> QED
        BY <1>2, <3>7, <4>1
    <3>10. \A k \in 1..M : k # M => next'[t[k]] = t[k + 1]
      <4> TAKE k \in 1..M
      <4> HAVE k # M
      <4>1. t[k] \in Items /\ t[k] # s[N] /\ t[k] # t[M]
        BY <1>1, <1>2, <1>3, <1>4, <3>1
      <4> QED
        BY <1>3, <3>7, <4>1
    <3>11. ASSUME NEW k \in 1..(N + M)
           PROVE  next'[u[k]] = IF k = N + M THEN u[1] ELSE u[k + 1]
      <4>1. CASE k \in 1..N /\ k # N
        <5>1. k + 1 \in 1..N /\ k # N + M
          BY <1>1, <4>1
        <5> QED
          BY <1>b, <3>9, <4>1, <5>1
      <4>2. CASE k = N
        <5>1. k # N + M
          BY <1>1, <2>3, <4>2
        <5> QED
          BY <1>b, <3>1, <3>7, <4>2, <5>1
      <4>3. CASE k \notin 1..N
        <5>1. PICK j \in 1..M : k = N + j
          BY <1>c, <4>3
        <5>2. CASE j = M
          BY <1>b, <3>7, <3>8, <5>1, <5>2
        <5>3. CASE j # M
          <6>1. j + 1 \in 1..M /\ k # N + M /\ k + 1 = N + (j + 1)
            BY <1>1, <5>1, <5>3
          <6> QED
            BY <1>b, <3>10, <5>1, <5>3, <6>1
        <5> QED
          BY <5>2, <5>3
      <4> QED
        BY <4>1, <4>2, <4>3
    <3> QED
      BY <3>7, <3>8, <3>11
  <2> QED
    BY <2>1, <2>2, <2>3
<1>11. IsWalk(l, s \o t)'
  BY <1>5, <1>6, <1>7, <1>10, Zenon DEF IsWalk, u
<1> QED
  BY <1>9, <1>11

-----------------------------------------------------------------------------
(* The sequences and positions that the links stand for.                   *)

\* Every list has a walk.
WalkInv == \A l \in Lists : IsWalk(l, Walk(l))

RInv == IInv /\ WalkInv

\* Where the cursor is when q items of the walk s are before it.
CursorAt(s, q) == IF q = Len(s) THEN Null ELSE s[q + 1]

\* A cursor that stands at the q-th item of the walk has position q.
LEMMA PositionIs ==
    ASSUME TypeOK, NEW l \in Lists, NEW s, IsWalk(l, s), NEW q \in 0..Len(s),
           cnext[l] = CursorAt(s, q)
    PROVE  CursorPos(l) = q
<1>1. Len(s) \in Nat /\ DOMAIN s = 1..Len(s) /\ \A k \in 1..Len(s) : s[k] \in Items
  BY WalkLength
<1>2. Walk(l) = s
  BY WalkIs
<1>3. CASE q = Len(s)
  <2>1. cnext[l] = Null /\ Null # NoCursor
    BY <1>3, Distinct DEF CursorAt
  <2> QED
    BY <1>2, <1>3, <2>1 DEF CursorPos
<1>4. CASE q # Len(s)
  <2>0. cnext[l] = s[q + 1]
    BY <1>4 DEF CursorAt
  <2>1. q + 1 \in 1..Len(s) /\ cnext[l] = s[q + 1] /\ (q + 1) - 1 = q
    <3> DEFINE N == Len(s)
    <3>1. N \in Nat /\ q \in 0..N /\ q # N
      BY <1>1, <1>4
    <3> HIDE DEF N
    <3>2. q + 1 \in 1..N /\ (q + 1) - 1 = q
      BY <3>1
    <3> QED
      BY <2>0, <3>2 DEF N
  <2>2. cnext[l] # Null /\ cnext[l] # NoCursor
    BY <1>1, <2>1, Distinct
  <2>3. CursorPos(l) = (CHOOSE k \in DOMAIN s : s[k] = cnext[l]) - 1
    <3>1. CursorPos(l) = (CHOOSE k \in DOMAIN Walk(l) : Walk(l)[k] = cnext[l]) - 1
      BY <2>2 DEF CursorPos
    <3> QED
      BY <1>2, <3>1, Zenon
  <2>4. \A k \in 1..Len(s) : s[k] = s[q + 1] => k = q + 1
    BY <2>1 DEF IsWalk
  <2>5. (CHOOSE k \in DOMAIN s : s[k] = cnext[l]) = q + 1
    BY <1>1, <2>1, <2>4
  <2> QED
    BY <2>1, <2>3, <2>5
<1> QED
  BY <1>3, <1>4

\* The same facts about the state after a step.
LEMMA WalkIsNext ==
    ASSUME NEW l \in Lists, NEW s
    PROVE  (TypeOK /\ IsWalk(l, s) => Walk(l) = s)'
<1>1. TypeOK /\ IsWalk(l, s) => Walk(l) = s
  BY WalkIs
<1> QED
  BY <1>1, PTL

\* The same in the state after a step.
LEMMA PositionIsNext ==
    ASSUME NEW l \in Lists, NEW s, NEW q \in 0..Len(s)
    PROVE  (TypeOK /\ IsWalk(l, s) /\ cnext[l] = CursorAt(s, q) => CursorPos(l) = q)'
<1>1. TypeOK /\ IsWalk(l, s) /\ cnext[l] = CursorAt(s, q) => CursorPos(l) = q
  BY PositionIs
<1> QED
  BY <1>1, PTL

\* A cursor is somewhere in the walk of its list, and both directions of travel
\* read the item that is there.
LEMMA CursorOnWalk ==
    ASSUME RInv, NEW l \in Lists, ~Free(l), NEW s, s = Walk(l)
    PROVE  \E q \in 0..Len(s) :
              /\ CursorPos(l) = q /\ cnext[l] = CursorAt(s, q)
              /\ PrevPtr(l) = IF q = 0 THEN Null ELSE s[q]
              /\ q # Len(s) => NextPos(l) = CursorAt(s, q + 1)
              /\ cnext[l] = Null <=> q = Len(s)
              /\ cnext[l] = first[l] <=> q = 0
<1> DEFINE N == Len(s)
<1>0. Null \notin Items /\ NoCursor \notin Items \cup {Null}
  BY Distinct
<1>1. IsWalk(l, s) /\ TypeOK /\ RingInv
  BY DEF RInv, WalkInv, IInv, Rings
<1>2. /\ N \in Nat /\ \A k \in 1..N : s[k] \in Items
  BY <1>1, WalkLength
<1>3. /\ \A j \in Owned(l) : \E k \in 1..N : s[k] = j
      /\ \A j, k \in 1..N : s[j] = s[k] => j = k
      /\ first[l] = IF N = 0 THEN Null ELSE s[1]
      /\ \A k \in 1..N : next[s[k]] = IF k = N THEN s[1] ELSE s[k + 1]
  BY <1>1, WalkFacts
<1> HIDE DEF N
<1>4. PICK q \in 0..N : cnext[l] = CursorAt(s, q)
  <2>1. CASE cnext[l] = Null
    <3>1. N \in 0..N /\ CursorAt(s, N) = Null
      BY <1>2 DEF CursorAt, N
    <3> QED
      BY <2>1, <3>1
  <2>2. CASE cnext[l] # Null
    <3>1. cnext[l] \in Owned(l)
      BY <2>2, <1>0, <1>1 DEF RInv, IInv, CursorInv, TypeOK, Free, Owned
    <3>2. PICK k \in 1..N : s[k] = cnext[l]
      BY <1>3, <3>1
    <3>3. k - 1 \in 0..N /\ k - 1 # N /\ (k - 1) + 1 = k
      BY <1>2
    <3>4. CursorAt(s, k - 1) = s[k]
      BY <3>3 DEF CursorAt, N
    <3> QED
      BY <3>2, <3>3, <3>4
  <2> QED
    BY <2>1, <2>2
<1>5. CursorPos(l) = q
  BY <1>1, <1>4, PositionIs DEF N
<1>6. CursorAt(s, q) = IF q = N THEN Null ELSE s[q + 1]
  BY DEF CursorAt, N
<1>7. q # N => q + 1 \in 1..N
  BY <1>2
<1>8. cnext[l] = Null <=> q = N
  BY <1>0, <1>2, <1>4, <1>6, <1>7
<1>9. cnext[l] = first[l] <=> q = 0
  <2>1. CASE N = 0
    BY <1>3, <1>4, <1>6, <2>1
  <2>2. CASE N # 0
    <3>1. 1 \in 1..N /\ first[l] = s[1] /\ s[1] # Null /\ (q = 0 => q # N) /\ 0 + 1 = 1
      BY <1>0, <1>2, <1>3, <2>2
    <3>2. CASE q = N
      BY <1>8, <2>2, <3>1, <3>2
    <3>3. CASE q # N
      <4>1. cnext[l] = s[q + 1] /\ q + 1 \in 1..N
        BY <1>4, <1>6, <1>7, <3>3
      <4>2. s[q + 1] = s[1] <=> q + 1 = 1
        BY <1>3, <3>1, <4>1
      <4> QED
        BY <3>1, <4>1, <4>2
    <3> QED
      BY <3>2, <3>3
  <2> QED
    BY <2>1, <2>2
<1>10. PrevPtr(l) = IF q = 0 THEN Null ELSE s[q]
  <2>1. CASE q = 0
    BY <1>9, <2>1 DEF PrevPtr
  <2>2. CASE q # 0 /\ q = N
    <3>1. PrevPtr(l) = prev[first[l]]
      BY <1>8, <1>9, <2>2 DEF PrevPtr
    <3>2. 1 \in 1..N /\ first[l] = s[1]
      BY <1>2, <1>3, <2>2
    <3>3. prev[s[1]] = s[N]
      BY <1>1, <3>2, PrevOnWalk DEF N
    <3> QED
      BY <2>2, <3>1, <3>2, <3>3
  <2>3. CASE q # 0 /\ q # N
    <3>1. PrevPtr(l) = prev[cnext[l]]
      BY <1>8, <1>9, <2>3 DEF PrevPtr
    <3>2. q + 1 \in 1..N /\ q + 1 # 1 /\ (q + 1) - 1 = q
      BY <1>7, <2>3
    <3>3. prev[s[q + 1]] = s[q]
      BY <1>1, <3>2, PrevOnWalk DEF N
    <3> QED
      BY <1>4, <1>6, <2>3, <3>1, <3>3
  <2> QED
    BY <2>1, <2>2, <2>3
<1>11. ASSUME q # N PROVE NextPos(l) = CursorAt(s, q + 1)
  <2>1. cnext[l] = s[q + 1] /\ q + 1 \in 1..N /\ 1 \in 1..N /\ first[l] = s[1]
    BY <1>2, <1>3, <1>4, <1>6, <1>7, <1>11
  <2>2. CursorAt(s, q + 1) = IF q + 1 = N THEN Null ELSE s[(q + 1) + 1]
    BY DEF CursorAt, N
  <2>3. CASE q + 1 = N
    BY <1>3, <2>1, <2>2, <2>3 DEF NextPos
  <2>4. CASE q + 1 # N
    <3>1. (q + 1) + 1 \in 1..N /\ (q + 1) + 1 # 1
      BY <1>2, <1>11, <2>4
    <3>2. next[s[q + 1]] = s[(q + 1) + 1] /\ s[(q + 1) + 1] # s[1]
      BY <1>3, <2>1, <2>4, <3>1
    <3> QED
      BY <2>1, <2>2, <2>4, <3>2 DEF NextPos
  <2> QED
    BY <2>3, <2>4
<1> QED
  BY <1>4, <1>5, <1>8, <1>9, <1>10, <1>11 DEF N

-----------------------------------------------------------------------------
(* The walk of a list as ListSpec writes it.                               *)

\* What the concatenation of two walks is.
LEMMA Joined ==
    ASSUME NEW p \in Seq(Items), NEW q \in Seq(Items)
    PROVE  /\ p \o q \in Seq(Items) /\ Len(p \o q) = Len(p) + Len(q)
           /\ \A i \in 1..Len(p) : (p \o q)[i] = p[i]
           /\ \A i \in 1..Len(q) : (p \o q)[Len(p) + i] = q[i]
<1>0. Len(p) \in Nat /\ Len(q) \in Nat
  BY LenProperties
<1>1. /\ p \o q \in Seq(Items) /\ Len(p \o q) = Len(p) + Len(q)
      /\ \A i \in 1..(Len(p) + Len(q)) : (p \o q)[i] = IF i <= Len(p) THEN p[i] ELSE q[i - Len(p)]
  BY ConcatProperties
<1>2. \A i \in 1..Len(p) : (p \o q)[i] = p[i]
  BY <1>0, <1>1
<1>3. \A i \in 1..Len(q) : (p \o q)[Len(p) + i] = q[i]
  <2> TAKE i \in 1..Len(q)
  <2>1. Len(p) + i \in 1..(Len(p) + Len(q)) /\ ~(Len(p) + i <= Len(p)) /\ (Len(p) + i) - Len(p) = i
    BY <1>0
  <2> QED
    BY <1>1, <2>1
<1> QED
  BY <1>1, <1>2, <1>3

\* Sequences that differ in what they have at place k, as InsertAt says.
LEMMA InsertedAt ==
    ASSUME NEW s \in Seq(Items), NEW t \in Seq(Items), NEW v \in Items, NEW k \in 0..Len(s),
           Len(t) = Len(s) + 1, \A i \in 1..k : t[i] = s[i], t[k + 1] = v,
           \A i \in (k + 1)..Len(s) : t[i + 1] = s[i]
    PROVE  t = Abstract!InsertAt(s, k + 1, v)
<1> DEFINE n == Len(s)
<1> DEFINE p == SubSeq(s, 1, k)
<1> DEFINE e == <<v>>
<1> DEFINE q == SubSeq(s, k + 1, n)
<1>1. n \in Nat /\ k \in Nat /\ k <= n /\ \A i \in 1..n : s[i] \in Items
  BY LenProperties
<1>2. p \in Seq(Items) /\ Len(p) = k /\ \A i \in 1..k : p[i] = s[i]
  <2>1. \A i \in 1..k : s[i] \in Items
    BY <1>1
  <2>2. /\ SubSeq(s, 1, k) \in Seq(Items) /\ Len(SubSeq(s, 1, k)) = (IF 1 <= k THEN k - 1 + 1 ELSE 0)
        /\ \A i \in 1..(k - 1 + 1) : SubSeq(s, 1, k)[i] = s[1 + i - 1]
    BY <1>1, <2>1, SubSeqProperties
  <2> QED
    BY <1>1, <2>2
<1>3. q \in Seq(Items) /\ Len(q) = n - k /\ \A i \in 1..(n - k) : q[i] = s[k + i]
  <2>1. \A i \in (k + 1)..n : s[i] \in Items
    BY <1>1
  <2>2. k + 1 \in Int /\ n \in Int
    BY <1>1
  <2>3. /\ SubSeq(s, k + 1, n) \in Seq(Items)
        /\ Len(SubSeq(s, k + 1, n)) = (IF k + 1 <= n THEN n - (k + 1) + 1 ELSE 0)
        /\ \A i \in 1..(n - (k + 1) + 1) : SubSeq(s, k + 1, n)[i] = s[(k + 1) + i - 1]
    BY <2>1, <2>2, SubSeqProperties
  <2> QED
    BY <1>1, <2>3
<1>4. e \in Seq(Items) /\ Len(e) = 1 /\ e[1] = v
  OBVIOUS
<1> HIDE DEF n, p, q, e
<1> DEFINE f == p \o e
<1>5. /\ f \in Seq(Items) /\ Len(f) = Len(p) + Len(e)
      /\ \A i \in 1..Len(p) : f[i] = p[i]
      /\ \A i \in 1..Len(e) : f[Len(p) + i] = e[i]
  BY <1>2, <1>4, Joined
<1> HIDE DEF f
<1>a. f \in Seq(Items) /\ Len(f) = k + 1 /\ f[k + 1] = v /\ \A i \in 1..k : f[i] = s[i]
  BY <1>2, <1>4, <1>5
<1>b. k + 1 \in Nat /\ n - k \in Nat /\ (k + 1) + (n - k) = n + 1
  BY <1>1
<1> DEFINE g == f \o q
<1>c. /\ g \in Seq(Items) /\ Len(g) = Len(f) + Len(q)
      /\ \A i \in 1..Len(f) : g[i] = f[i]
      /\ \A i \in 1..Len(q) : g[Len(f) + i] = q[i]
  BY <1>a, <1>3, Joined
<1> HIDE DEF g
<1>6. /\ g \in Seq(Items) /\ Len(g) = n + 1
      /\ \A i \in 1..(k + 1) : g[i] = f[i]
      /\ \A i \in 1..(n - k) : g[(k + 1) + i] = q[i]
  BY <1>a, <1>b, <1>c, <1>3
<1>7. \A i \in 1..(n + 1) : t[i] = g[i]
  <2> TAKE i \in 1..(n + 1)
  <2>1. CASE i \in 1..k
    <3>1. i \in 1..(k + 1)
      BY <1>1, <2>1
    <3> QED
      BY <1>a, <1>6, <2>1, <3>1
  <2>2. CASE i = k + 1
    <3>1. k + 1 \in 1..(k + 1)
      BY <1>1
    <3> QED
      BY <1>a, <1>6, <2>2, <3>1
  <2>3. CASE i > k + 1
    <3>1. PICK j \in 1..(n - k) : i = (k + 1) + j
      <4>1. i - (k + 1) \in 1..(n - k) /\ i = (k + 1) + (i - (k + 1))
        BY <1>1, <2>3
      <4> QED
        BY <4>1
    <3>2. k + j \in (k + 1)..n /\ (k + j) + 1 = i
      BY <1>1, <3>1
    <3>3. t[i] = s[k + j]
      BY <3>2 DEF n
    <3>4. g[i] = s[k + j]
      BY <1>3, <1>6, <3>1
    <3> QED
      BY <3>3, <3>4
  <2>4. i \in 1..k \/ i = k + 1 \/ i > k + 1
    BY <1>1
  <2> QED
    BY <2>1, <2>2, <2>3, <2>4
<1>8. Len(t) = n + 1
  BY DEF n
<1>9. t = g
  BY <1>b, <1>6, <1>7, <1>8, SeqEqual
<1>10. Abstract!InsertAt(s, k + 1, v) = SubSeq(s, 1, k) \o <<v>> \o SubSeq(s, k + 1, Len(s))
  <2>1. (k + 1) - 1 = k
    BY <1>1
  <2>2. SubSeq(s, 1, (k + 1) - 1) = SubSeq(s, 1, k)
    BY <2>1, Zenon
  <2> QED
    BY <2>2, Zenon DEF Abstract!InsertAt
<1> QED
  BY <1>9, <1>10 DEF f, g, p, q, e, n

\* Sequences that differ in what one of them has at place k, as RemoveAt says.
LEMMA RemovedAt ==
    ASSUME NEW s \in Seq(Items), NEW t \in Seq(Items), NEW k \in 1..Len(s),
           Len(t) = Len(s) - 1, \A i \in 1..(k - 1) : t[i] = s[i],
           \A i \in k..(Len(s) - 1) : t[i] = s[i + 1]
    PROVE  t = Abstract!RemoveAt(s, k)
<1> DEFINE n == Len(s)
<1> DEFINE p == SubSeq(s, 1, k - 1)
<1> DEFINE q == SubSeq(s, k + 1, n)
<1>1. n \in Nat /\ k \in Nat /\ 1 <= k /\ k <= n /\ \A i \in 1..n : s[i] \in Items
  BY LenProperties
<1>2. p \in Seq(Items) /\ Len(p) = k - 1 /\ \A i \in 1..(k - 1) : p[i] = s[i]
  <2>1. (\A i \in 1..(k - 1) : s[i] \in Items) /\ k - 1 \in Int
    BY <1>1
  <2>2. /\ SubSeq(s, 1, k - 1) \in Seq(Items)
        /\ Len(SubSeq(s, 1, k - 1)) = (IF 1 <= k - 1 THEN (k - 1) - 1 + 1 ELSE 0)
        /\ \A i \in 1..((k - 1) - 1 + 1) : SubSeq(s, 1, k - 1)[i] = s[1 + i - 1]
    BY <2>1, SubSeqProperties
  <2> QED
    BY <1>1, <2>2
<1>3. q \in Seq(Items) /\ Len(q) = n - k /\ \A i \in 1..(n - k) : q[i] = s[k + i]
  <2>1. (\A i \in (k + 1)..n : s[i] \in Items) /\ k + 1 \in Int /\ n \in Int
    BY <1>1
  <2>2. /\ SubSeq(s, k + 1, n) \in Seq(Items)
        /\ Len(SubSeq(s, k + 1, n)) = (IF k + 1 <= n THEN n - (k + 1) + 1 ELSE 0)
        /\ \A i \in 1..(n - (k + 1) + 1) : SubSeq(s, k + 1, n)[i] = s[(k + 1) + i - 1]
    BY <2>1, SubSeqProperties, SMTT(30)
  <2> QED
    BY <1>1, <2>2
<1> HIDE DEF n, p, q
<1>0. k - 1 \in Nat /\ n - k \in Nat /\ (k - 1) + (n - k) = n - 1
  BY <1>1
<1> DEFINE g == p \o q
<1>a. /\ g \in Seq(Items) /\ Len(g) = Len(p) + Len(q)
      /\ \A i \in 1..Len(p) : g[i] = p[i]
      /\ \A i \in 1..Len(q) : g[Len(p) + i] = q[i]
  BY <1>2, <1>3, Joined
<1> HIDE DEF g
<1>4. /\ g \in Seq(Items) /\ Len(g) = n - 1
      /\ \A i \in 1..(k - 1) : g[i] = p[i]
      /\ \A i \in 1..(n - k) : g[(k - 1) + i] = q[i]
  BY <1>0, <1>2, <1>3, <1>a
<1>5. \A i \in 1..(n - 1) : t[i] = g[i]
  <2> TAKE i \in 1..(n - 1)
  <2>1. CASE i \in 1..(k - 1)
    BY <1>2, <1>4, <2>1
  <2>2. CASE i > k - 1
    <3>1. PICK j \in 1..(n - k) : i = (k - 1) + j
      BY <1>1, <2>2
    <3>2. i \in k..(n - 1) /\ k + j = i + 1
      BY <1>1, <2>2, <3>1
    <3>3. t[i] = s[k + j]
      BY <3>2 DEF n
    <3>4. g[i] = s[k + j]
      BY <1>3, <1>4, <3>1
    <3> QED
      BY <3>3, <3>4
  <2>3. i \in 1..(k - 1) \/ i > k - 1
    BY <1>1
  <2> QED
    BY <2>1, <2>2, <2>3
<1>6. Len(t) = n - 1
  BY DEF n
<1>7. t = g
  BY <1>0, <1>4, <1>5, <1>6, SeqEqual
<1> QED
  BY <1>7 DEF g, p, q, n, Abstract!RemoveAt

\* A walk in which i was put, or from which an item was taken, as ListSpec says.
LEMMA PutIsInsertAt ==
    ASSUME NEW s \in Seq(Items), NEW i \in Items, NEW p \in 1..(Len(s) + 1)
    PROVE  WalkPut(s, p, i) = Abstract!InsertAt(s, p, i)
<1> DEFINE N == Len(s)
           t == WalkPut(s, p, i)
           k == p - 1
<1>1. N \in Nat /\ (\A j \in 1..N : s[j] \in Items) /\ p \in Nat /\ 1 <= p /\ p <= N + 1
  BY LenProperties
<1>2. /\ \A j \in 1..(N + 1) : t[j] = IF j < p THEN s[j] ELSE IF j = p THEN i ELSE s[j - 1]
      /\ DOMAIN t = 1..(N + 1) /\ t = [j \in 1..(N + 1) |-> t[j]]
  BY DEF WalkPut
<1> HIDE DEF t, N
<1>3. k \in 0..N /\ k + 1 = p /\ N + 1 \in Nat
  BY <1>1
<1> HIDE DEF k
<1>4. \A j \in 1..k : t[j] = s[j]
  <2> TAKE j \in 1..k
  <2>1. j \in 1..(N + 1) /\ j < p
    BY <1>1, <1>3
  <2> QED
    BY <1>2, <2>1
<1>5. t[k + 1] = i
  BY <1>1, <1>2, <1>3
<1>6. \A j \in (k + 1)..N : t[j + 1] = s[j]
  <2> TAKE j \in (k + 1)..N
  <2>1. j + 1 \in 1..(N + 1) /\ ~(j + 1 < p) /\ j + 1 # p /\ (j + 1) - 1 = j
    BY <1>1, <1>3
  <2> QED
    BY <1>2, <2>1
<1>7. t \in Seq(Items) /\ Len(t) = N + 1
  <2>1. \A j \in 1..(N + 1) : t[j] \in Items
    <3> TAKE j \in 1..(N + 1)
    <3>1. (j < p => j \in 1..N) /\ (~(j < p) /\ j # p => j - 1 \in 1..N)
      BY <1>1
    <3> QED
      BY <1>1, <1>2, <3>1
  <2>2. t \in [1..(N + 1) -> Items]
    BY <1>2, <2>1
  <2>3. t \in Seq(Items)
    BY <1>3, <2>2, SeqDef
  <2>4. Len(t) \in Nat /\ DOMAIN t = 1..Len(t)
    BY <2>3, LenProperties
  <2> QED
    BY <1>2, <1>3, <2>3, <2>4
<1>8. t = Abstract!InsertAt(s, k + 1, i)
  BY <1>3, <1>4, <1>5, <1>6, <1>7, InsertedAt DEF N
<1> QED
  BY <1>3, <1>8 DEF t

\* Cutting an item out of a walk is what the specification removes.
LEMMA CutIsRemoveAt ==
    ASSUME NEW s \in Seq(Items), NEW p \in 1..Len(s)
    PROVE  WalkCut(s, p) = Abstract!RemoveAt(s, p)
<1> DEFINE N == Len(s)
           t == WalkCut(s, p)
<1>1. N \in Nat /\ (\A j \in 1..N : s[j] \in Items) /\ p \in Nat /\ 1 <= p /\ p <= N
  BY LenProperties
<1>2. /\ \A j \in 1..(N - 1) : t[j] = IF j < p THEN s[j] ELSE s[j + 1]
      /\ DOMAIN t = 1..(N - 1) /\ t = [j \in 1..(N - 1) |-> t[j]]
  BY DEF WalkCut
<1> HIDE DEF t, N
<1>3. N - 1 \in Nat
  BY <1>1
<1>4. \A j \in 1..(p - 1) : t[j] = s[j]
  <2> TAKE j \in 1..(p - 1)
  <2>1. j \in 1..(N - 1) /\ j < p
    BY <1>1
  <2> QED
    BY <1>2, <2>1
<1>5. \A j \in p..(N - 1) : t[j] = s[j + 1]
  <2> TAKE j \in p..(N - 1)
  <2>1. j \in 1..(N - 1) /\ ~(j < p)
    BY <1>1
  <2> QED
    BY <1>2, <2>1
<1>6. t \in Seq(Items) /\ Len(t) = N - 1
  <2>1. \A j \in 1..(N - 1) : t[j] \in Items
    <3> TAKE j \in 1..(N - 1)
    <3>1. j \in 1..N /\ j + 1 \in 1..N
      BY <1>1
    <3> QED
      BY <1>1, <1>2, <3>1
  <2>2. t \in [1..(N - 1) -> Items]
    BY <1>2, <2>1
  <2>3. t \in Seq(Items)
    BY <1>3, <2>2, SeqDef
  <2>4. Len(t) \in Nat /\ DOMAIN t = 1..Len(t)
    BY <2>3, LenProperties
  <2> QED
    BY <1>2, <1>3, <2>3, <2>4
<1> QED
  BY <1>4, <1>5, <1>6, RemovedAt DEF N, t

\* The walk is a sequence of items.
LEMMA WalkSeq ==
    ASSUME NEW l \in Lists, NEW s, IsWalk(l, s)
    PROVE  s \in Seq(Items)
<1>1. Len(s) \in Nat /\ DOMAIN s = 1..Len(s) /\ \A k \in 1..Len(s) : s[k] \in Items
  BY WalkLength
<1>2. s = [k \in 1..Len(s) |-> s[k]]
  BY LenProperties DEF IsWalk
<1>3. s \in [1..Len(s) -> Items]
  BY <1>1, <1>2
<1> QED
  BY <1>1, <1>3, SeqDef

\* RemoveFirst takes an item that is in a sequence once from its one place.
LEMMA RemoveFirstIs ==
    ASSUME NEW s \in Seq(Items), NEW i,
           \A j, k \in 1..Len(s) : s[j] = s[k] => j = k
    PROVE  /\ \A p \in 1..Len(s) : s[p] = i => Abstract!RemoveFirst(s, i) = Abstract!RemoveAt(s, p)
           /\ (\A p \in 1..Len(s) : s[p] # i) => Abstract!RemoveFirst(s, i) = s
<1>1. ASSUME NEW p \in 1..Len(s), s[p] = i
      PROVE  Abstract!RemoveFirst(s, i) = Abstract!RemoveAt(s, p)
  <2> DEFINE I == {k \in 1..Len(s) : s[k] = i}
  <2>1. I = {p}
    BY <1>1
  <2>2. p \in Nat
    BY LenProperties
  <2>3. (CHOOSE x \in I : \A y \in I : x <= y) = p
    BY <2>1, <2>2
  <2>4. Abstract!SelectInSeq(s, LAMBDA v : v = i) = p
    BY <2>1, <2>3, Zenon DEF Abstract!SelectInSeq, Abstract!Min
  <2>5. \E k \in 1..Len(s) : s[k] = i
    BY <1>1
  <2> QED
    BY <2>4, <2>5, Zenon DEF Abstract!RemoveFirst
<1>2. ASSUME \A p \in 1..Len(s) : s[p] # i
      PROVE  Abstract!RemoveFirst(s, i) = s
  BY <1>2, Zenon DEF Abstract!RemoveFirst
<1> QED
  BY <1>1, <1>2

-----------------------------------------------------------------------------
(* What the operations on the links do to the sequences.                   *)

\* The sequences after a step that gives list l the walk t and leaves the others.
LEMMA OneSequence ==
    ASSUME TypeOK', WalkInv, NEW l \in Lists, NEW t, IsWalk(l, t)',
           \A m \in Lists : m # l => /\ Owned(m)' = Owned(m) /\ first'[m] = first[m]
                                     /\ \A j \in Owned(m) : next'[j] = next[j]
    PROVE  /\ WalkInv' /\ Walk(l)' = t /\ \A m \in Lists : m # l => Walk(m)' = Walk(m)
           /\ Seqs' = [Seqs EXCEPT ![l] = t]
<1>1. Walk(l)' = t
  BY WalkIsNext
<1>2. ASSUME NEW m \in Lists, m # l
      PROVE  IsWalk(m, Walk(m))' /\ Walk(m)' = Walk(m)
  <2>1. PICK w : w = Walk(m)
    OBVIOUS
  <2>2. IsWalk(m, w)
    BY <2>1 DEF WalkInv
  <2>3. IsWalk(m, w)'
    BY <1>2, <2>2, WalkKept
  <2>4. Walk(m)' = w
    BY <2>3, WalkIsNext
  <2> QED
    BY <2>1, <2>3, <2>4
<1>3. WalkInv'
  BY <1>1, <1>2 DEF WalkInv
<1>4. /\ Seqs = [m \in Lists |-> Walk(m)] /\ Seqs' = [m \in Lists |-> Walk(m)']
  BY DEF Seqs
<1>5. Seqs' = [Seqs EXCEPT ![l] = t]
  BY <1>1, <1>2, <1>4
<1> QED
  BY <1>1, <1>2, <1>3, <1>5

\* The positions after a step that may move the cursor of l only.
LEMMA OnePosition ==
    ASSUME NEW l \in Lists, NEW c, CursorPos(l)' = c,
           \A m \in Lists : m # l => Walk(m)' = Walk(m) /\ cnext'[m] = cnext[m]
    PROVE  Positions' = [Positions EXCEPT ![l] = c]
<1>1. \A m \in Lists : m # l => CursorPos(m)' = CursorPos(m)
  BY Zenon DEF CursorPos
<1>2. /\ Positions = [m \in Lists |-> CursorPos(m)] /\ Positions' = [m \in Lists |-> CursorPos(m)']
  BY DEF Positions
<1> QED
  BY <1>1, <1>2

\* A list without a cursor has no position.
LEMMA NoPosition ==
    ASSUME NEW l \in Lists
    PROVE  /\ cnext[l] = NoCursor => CursorPos(l) = NoCursor
           /\ cnext'[l] = NoCursor => CursorPos(l)' = NoCursor
BY Distinct DEF CursorPos

\* What ListSpec reads of a list.
LEMMA Readings ==
    ASSUME RInv, NEW l \in Lists, NEW s, s = Walk(l)
    PROVE  /\ IsWalk(l, s) /\ s \in Seq(Items) /\ Seqs[l] = s /\ Positions[l] = CursorPos(l)
           /\ Len(s) \in Nat /\ DOMAIN s = 1..Len(s) /\ \A k \in 1..Len(s) : s[k] \in Items
           /\ Abstract!Free(l) <=> Free(l)
           /\ \A k : Abstract!At(l, k) = IF k \in 1..Len(s) THEN s[k] ELSE Null
           /\ \A k : Abstract!At(l, k) = Null <=> k \notin 1..Len(s)
<1>1. IsWalk(l, s)
  BY DEF RInv, WalkInv
<1>2. s \in Seq(Items)
  BY <1>1, WalkSeq
<1>3. Len(s) \in Nat /\ DOMAIN s = 1..Len(s) /\ \A k \in 1..Len(s) : s[k] \in Items
  BY <1>1, WalkLength
<1>4. Seqs[l] = s /\ Positions[l] = CursorPos(l)
  BY DEF Seqs, Positions
<1>5. Abstract!Free(l) <=> Free(l)
  <2>1. Free(l) => CursorPos(l) = NoCursor
    BY NoPosition DEF Free
  <2>2. ~Free(l) => CursorPos(l) # NoCursor
    <3> SUFFICES ASSUME ~Free(l) PROVE CursorPos(l) # NoCursor
      OBVIOUS
    <3>1. PICK q \in 0..Len(s) : CursorPos(l) = q
      BY CursorOnWalk
    <3>2. q \in Nat
      BY <1>3, <3>1
    <3> QED
      BY <3>1, <3>2, Distinct
  <2> QED
    BY <1>4, <2>1, <2>2 DEF Abstract!Free
<1>6. \A k : Abstract!At(l, k) = IF k \in 1..Len(s) THEN s[k] ELSE Null
  BY <1>3, <1>4 DEF Abstract!At
<1>7. \A k : Abstract!At(l, k) = Null <=> k \notin 1..Len(s)
  BY <1>3, <1>6, Distinct
<1> QED
  BY <1>1, <1>2, <1>3, <1>4, <1>5, <1>6, <1>7

\* An item whose ListArc the caller holds is in no sequence.
LEMMA HeldReads ==
    ASSUME RInv, NEW i \in Items, Held(i)
    PROVE  Abstract!Held(i)
<1> SUFFICES ASSUME NEW l \in Lists, i \in Abstract!ToSet(Seqs[l]) PROVE FALSE
  BY DEF Abstract!Held
<1>1. PICK s : s = Walk(l)
  OBVIOUS
<1>2. IsWalk(l, s) /\ Seqs[l] = s /\ DOMAIN s = 1..Len(s)
  BY <1>1, Readings
<1>3. PICK k \in 1..Len(s) : s[k] = i
  BY <1>2 DEF Abstract!ToSet
<1>4. s[k] \in Owned(l)
  BY <1>2, WalkFacts
<1> QED
  BY <1>3, <1>4, Distinct DEF Owned, Held

\* insert_inner is Insert at the place before n.
LEMMA InsertedSequence ==
    ASSUME RInv, TypeOK', NEW l \in Lists, NEW i \in Items, NEW s, s = Walk(l),
           NEW p \in 1..(Len(s) + 1), NEW n, NEW f, Held(i),
           n = IF Len(s) = 0 THEN Null ELSE IF p = Len(s) + 1 THEN s[1] ELSE s[p],
           Len(s) # 0 => f = IF p = 1 THEN i ELSE first[l],
           InsertInner(l, i, n, f)
    PROVE  /\ WalkInv' /\ IsWalk(l, WalkPut(s, p, i))' /\ Walk(l)' = WalkPut(s, p, i)
           /\ \A m \in Lists : m # l => Walk(m)' = Walk(m)
           /\ Abstract!Insert(l, p, i)
<1>0. Rings /\ WalkInv /\ IsWalk(l, s) /\ s \in Seq(Items) /\ Seqs[l] = s
  BY Readings DEF RInv, IInv
<1>1. IsWalk(l, WalkPut(s, p, i))'
  BY <1>0, WalkInserted
<1>2. Null \notin Items /\ Null \notin Lists
  BY Distinct
<1>3. n = Null \/ (n \in Items /\ where[n] = l /\ prev[n] \in Items /\ where[prev[n]] = l)
  <2>1. Len(s) \in Nat /\ \A k \in 1..Len(s) : s[k] \in Owned(l)
    BY <1>0, WalkFacts, WalkLength
  <2>2. n = Null \/ n \in Owned(l)
    <3>1. CASE Len(s) = 0
      BY <3>1
    <3>2. CASE Len(s) # 0
      <4>1. 1 \in 1..Len(s) /\ (p # Len(s) + 1 => p \in 1..Len(s))
        BY <2>1, <3>2
      <4> QED
        BY <2>1, <3>2, <4>1
    <3> QED
      BY <3>1, <3>2
  <2> QED
    BY <1>0, <1>2, <2>2 DEF Rings, RingInv, Owned
<1>4. ASSUME NEW m \in Lists, m # l
      PROVE  Owned(m)' = Owned(m) /\ first'[m] = first[m] /\ \A j \in Owned(m) : next'[j] = next[j]
  <2>1. where' = [where EXCEPT ![i] = l]
    BY DEF InsertInner
  <2>2. Owned(m)' = Owned(m) /\ i \notin Owned(m)
    BY <1>0, <1>2, <1>4, <2>1 DEF Rings, TypeOK, Owned, Held
  <2>3. CASE n = Null
    <3>1. next' = [next EXCEPT ![i] = i] /\ first' = [first EXCEPT ![l] = i]
      BY <2>3 DEF InsertInner
    <3> QED
      BY <1>0, <1>4, <2>2, <3>1 DEF Rings, TypeOK, Owned
  <2>4. CASE n # Null
    <3>1. next' = [next EXCEPT ![i] = n, ![prev[n]] = i] /\ first' = [first EXCEPT ![l] = f]
      BY <2>4 DEF InsertInner
    <3>2. prev[n] \in Items /\ prev[n] \notin Owned(m)
      BY <1>3, <1>4, <2>4 DEF Owned
    <3> QED
      BY <1>0, <1>4, <2>2, <3>1, <3>2 DEF Rings, TypeOK, Owned
  <2> QED
    BY <2>2, <2>3, <2>4
<1>5. /\ WalkInv' /\ Walk(l)' = WalkPut(s, p, i) /\ \A m \in Lists : m # l => Walk(m)' = Walk(m)
      /\ Seqs' = [Seqs EXCEPT ![l] = WalkPut(s, p, i)]
  BY <1>0, <1>1, <1>4, OneSequence
<1>6. WalkPut(s, p, i) = Abstract!InsertAt(s, p, i)
  BY <1>0, PutIsInsertAt
<1>7. Abstract!Insert(l, p, i)
  BY <1>0, <1>5, <1>6, Zenon DEF Abstract!Insert
<1> QED
  BY <1>1, <1>5, <1>7

\* remove_internal of the item at place p is RemoveNth there.
LEMMA RemovedSequence ==
    ASSUME RInv, TypeOK', NEW l \in Lists, NEW s, s = Walk(l), NEW p \in 1..Len(s),
           RemoveInternal(l, s[p])
    PROVE  /\ WalkInv' /\ IsWalk(l, WalkCut(s, p))' /\ Walk(l)' = WalkCut(s, p)
           /\ \A m \in Lists : m # l => Walk(m)' = Walk(m)
           /\ Abstract!RemoveNth(l, p)
           /\ Seqs' = [Seqs EXCEPT ![l] = Abstract!RemoveAt(s, p)]
<1>0. Rings /\ WalkInv /\ IsWalk(l, s) /\ s \in Seq(Items) /\ Seqs[l] = s
  BY Readings DEF RInv, IInv
<1>1. IsWalk(l, WalkCut(s, p))'
  BY <1>0, WalkRemoved
<1>2. Null \notin Items /\ Null \notin Lists
  BY Distinct
<1>3. PICK i : i = s[p]
  OBVIOUS
<1>4. i \in Items /\ where[i] = l /\ i \in Owned(l)
  BY <1>0, <1>3, WalkFacts DEF Owned
<1>5. prev[i] \in Items /\ where[prev[i]] = l
  BY <1>0, <1>2, <1>4 DEF Rings, RingInv
<1>6. /\ next' = [[next EXCEPT ![prev[i]] = next[i]] EXCEPT ![i] = Null]
      /\ where' = [where EXCEPT ![i] = Null]
      /\ first' = [first EXCEPT ![l] = IF @ = i THEN next'[prev[i]] ELSE @]
  BY <1>3 DEF RemoveInternal, Unlink
<1>7. ASSUME NEW m \in Lists, m # l
      PROVE  Owned(m)' = Owned(m) /\ first'[m] = first[m] /\ \A j \in Owned(m) : next'[j] = next[j]
  BY <1>0, <1>2, <1>4, <1>5, <1>6, <1>7 DEF Rings, TypeOK, Owned
<1>8. /\ WalkInv' /\ Walk(l)' = WalkCut(s, p) /\ \A m \in Lists : m # l => Walk(m)' = Walk(m)
      /\ Seqs' = [Seqs EXCEPT ![l] = WalkCut(s, p)]
  BY <1>0, <1>1, <1>7, OneSequence
<1>9. WalkCut(s, p) = Abstract!RemoveAt(s, p)
  BY <1>0, CutIsRemoveAt
<1>10. Abstract!At(l, p) # Null
  BY Readings
<1>11. Abstract!RemoveNth(l, p)
  BY <1>0, <1>8, <1>9, <1>10, Zenon DEF Abstract!RemoveNth
<1>12. Seqs' = [Seqs EXCEPT ![l] = Abstract!RemoveAt(s, p)]
  BY <1>8, <1>9, Zenon
<1> QED
  BY <1>1, <1>8, <1>11, <1>12

\* A step that leaves the links alone leaves the sequences alone.
LEMMA SameSequences ==
    ASSUME RInv, TypeOK', first' = first, next' = next, where' = where
    PROVE  /\ WalkInv' /\ Seqs' = Seqs /\ \A m \in Lists : Walk(m)' = Walk(m)
           /\ \A m \in Lists : \A s : IsWalk(m, s) => IsWalk(m, s)'
<1>1. \A m \in Lists : \A s : IsWalk(m, s) => IsWalk(m, s)'
  BY DEF IsWalk, Owned
<1>2. \A m \in Lists : Walk(m)' = Walk(m)
  <2> TAKE m \in Lists
  <2>1. PICK w : w = Walk(m)
    OBVIOUS
  <2>2. IsWalk(m, w)'
    BY <1>1, <2>1 DEF RInv, WalkInv
  <2> QED
    BY <2>1, <2>2, WalkIsNext
<1>3. WalkInv'
  BY <1>1, <1>2 DEF RInv, WalkInv
<1>4. Seqs' = Seqs
  BY <1>2 DEF Seqs
<1> QED
  BY <1>1, <1>2, <1>3, <1>4

-----------------------------------------------------------------------------
(* Every call does to the sequences what ListSpec says.                    *)

\* A call on a list without a cursor moves none.
LEMMA StillPositions ==
    ASSUME NEW l \in Lists, Free(l), cnext' = cnext, \A m \in Lists : m # l => Walk(m)' = Walk(m)
    PROVE  Positions' = Positions
<1>1. CursorPos(l) = NoCursor /\ CursorPos(l)' = NoCursor
  BY NoPosition DEF Free
<1>2. Positions' = [Positions EXCEPT ![l] = NoCursor]
  BY <1>1, OnePosition
<1>3. /\ Positions = [m \in Lists |-> CursorPos(m)]
  BY DEF Positions
<1> QED
  BY <1>1, <1>2, <1>3

\* Each call, read through the walks, is the call of ListSpec; here push_back.
LEMMA PushBackReads ==
    ASSUME RInv, IInv', NEW l \in Lists, NEW i \in Items, PushBack(l, i)
    PROVE  WalkInv' /\ Abstract!PushBack(l, i)
<1>1. PICK s : s = Walk(l)
  OBVIOUS
<1>2. /\ IsWalk(l, s) /\ Seqs[l] = s /\ Len(s) \in Nat /\ (Abstract!Free(l) <=> Free(l))
  BY <1>1, Readings
<1>3. first[l] = IF Len(s) = 0 THEN Null ELSE s[1]
  BY <1>2, WalkFacts
<1> DEFINE p == Len(s) + 1
           n == first[l]
           f == first[l]
<1>4. /\ Free(l) /\ Held(i) /\ InsertInner(l, i, n, f) /\ cnext' = cnext /\ op' = <<"push_back", l, i>>
      /\ TypeOK'
  BY DEF PushBack, IInv, Rings
<1>5. /\ p \in 1..(Len(s) + 1) /\ (Len(s) # 0 => p # 1)
      /\ n = IF Len(s) = 0 THEN Null ELSE IF p = Len(s) + 1 THEN s[1] ELSE s[p]
      /\ Len(s) # 0 => f = IF p = 1 THEN i ELSE first[l]
  BY <1>2, <1>3
<1> HIDE DEF n, f, p
<1>6. WalkInv' /\ Abstract!Insert(l, p, i) /\ \A m \in Lists : m # l => Walk(m)' = Walk(m)
  BY <1>1, <1>4, <1>5, InsertedSequence
<1>7. Positions' = Positions
  BY <1>4, <1>6, StillPositions
<1>8. Abstract!Held(i)
  BY <1>4, HeldReads
<1> QED
  BY <1>2, <1>4, <1>6, <1>7, <1>8 DEF Abstract!PushBack, p

\* push_front, which also moves `first`.
LEMMA PushFrontReads ==
    ASSUME RInv, IInv', NEW l \in Lists, NEW i \in Items, PushFront(l, i)
    PROVE  WalkInv' /\ Abstract!PushFront(l, i)
<1>1. PICK s : s = Walk(l)
  OBVIOUS
<1>2. /\ IsWalk(l, s) /\ Seqs[l] = s /\ Len(s) \in Nat /\ (Abstract!Free(l) <=> Free(l))
  BY <1>1, Readings
<1>3. first[l] = IF Len(s) = 0 THEN Null ELSE s[1]
  BY <1>2, WalkFacts
<1> DEFINE p == 1
           n == first[l]
           f == i
<1>4. /\ Free(l) /\ Held(i) /\ InsertInner(l, i, n, f) /\ cnext' = cnext /\ op' = <<"push_front", l, i>>
      /\ TypeOK'
  BY DEF PushFront, IInv, Rings
<1>5. /\ p \in 1..(Len(s) + 1) /\ (Len(s) # 0 => p # Len(s) + 1)
      /\ n = IF Len(s) = 0 THEN Null ELSE IF p = Len(s) + 1 THEN s[1] ELSE s[p]
      /\ Len(s) # 0 => f = IF p = 1 THEN i ELSE first[l]
  BY <1>2, <1>3
<1> HIDE DEF n, f, p
<1>6. WalkInv' /\ Abstract!Insert(l, p, i) /\ \A m \in Lists : m # l => Walk(m)' = Walk(m)
  BY <1>1, <1>4, <1>5, InsertedSequence
<1>7. Positions' = Positions
  BY <1>4, <1>6, StillPositions
<1>8. Abstract!Held(i)
  BY <1>4, HeldReads
<1> QED
  BY <1>2, <1>4, <1>6, <1>7, <1>8 DEF Abstract!PushFront, p

\* RemoveAny takes the item at place p, or nothing when p is no place.
LEMMA RemoveAnyReads ==
    ASSUME RInv, TypeOK', NEW l \in Lists, NEW s, s = Walk(l), NEW p \in Int,
           RemoveAny(l, IF p \in 1..Len(s) THEN s[p] ELSE Null)
    PROVE  /\ WalkInv' /\ Abstract!RemoveNth(l, p)
           /\ \A m \in Lists : m # l => Walk(m)' = Walk(m)
           /\ p \in 1..Len(s) => IsWalk(l, WalkCut(s, p))'
           /\ p \notin 1..Len(s) => IsWalk(l, s)'
           /\ p \in 1..Len(s) => Seqs' = [Seqs EXCEPT ![l] = Abstract!RemoveAt(s, p)]
           /\ p \notin 1..Len(s) => Seqs' = Seqs
<1>1. IsWalk(l, s) /\ \A k \in 1..Len(s) : s[k] \in Items
  BY Readings
<1>2. CASE p \in 1..Len(s)
  <2>1. s[p] # Null
    BY <1>1, <1>2, Distinct
  <2>2. RemoveInternal(l, s[p])
    BY <1>2, <2>1 DEF RemoveAny
  <2> QED
    BY <1>2, <2>2, RemovedSequence
<1>3. CASE p \notin 1..Len(s)
  <2>1. first' = first /\ next' = next /\ where' = where
    BY <1>3, Distinct DEF RemoveAny
  <2>2. Abstract!At(l, p) = Null
    BY <1>3, Readings
  <2>3. /\ WalkInv' /\ Seqs' = Seqs /\ \A m \in Lists : Walk(m)' = Walk(m)
        /\ IsWalk(l, s)'
    BY <1>1, <2>1, SameSequences
  <2> QED
    BY <1>3, <2>2, <2>3 DEF Abstract!RemoveNth
<1> QED
  BY <1>2, <1>3

\* pop_front removes the first of the walk, or nothing.
LEMMA PopFrontReads ==
    ASSUME RInv, IInv', NEW l \in Lists, PopFront(l)
    PROVE  WalkInv' /\ Abstract!PopFront(l)
<1>1. PICK s : s = Walk(l)
  OBVIOUS
<1>2. /\ IsWalk(l, s) /\ Len(s) \in Nat /\ (Abstract!Free(l) <=> Free(l))
      /\ Abstract!At(l, 1) = IF 1 \in 1..Len(s) THEN s[1] ELSE Null
  BY <1>1, Readings
<1>3. first[l] = IF Len(s) = 0 THEN Null ELSE s[1]
  BY <1>2, WalkFacts
<1>4. first[l] = IF 1 \in 1..Len(s) THEN s[1] ELSE Null
  BY <1>2, <1>3
<1>5. Free(l) /\ RemoveAny(l, first[l]) /\ cnext' = cnext /\ op' = <<"pop_front", l, first[l]>> /\ TypeOK'
  BY DEF PopFront, IInv, Rings
<1>6. WalkInv' /\ Abstract!RemoveNth(l, 1) /\ \A m \in Lists : m # l => Walk(m)' = Walk(m)
  BY <1>1, <1>4, <1>5, RemoveAnyReads
<1>7. Positions' = Positions
  BY <1>5, <1>6, StillPositions
<1> QED
  BY <1>2, <1>4, <1>5, <1>6, <1>7 DEF Abstract!PopFront

\* pop_back removes the last of the walk, or nothing.
LEMMA PopBackReads ==
    ASSUME RInv, IInv', NEW l \in Lists, PopBack(l)
    PROVE  WalkInv' /\ Abstract!PopBack(l)
<1>1. PICK s : s = Walk(l)
  OBVIOUS
<1>2. /\ IsWalk(l, s) /\ Seqs[l] = s /\ Len(s) \in Nat /\ (Abstract!Free(l) <=> Free(l))
      /\ \A k \in 1..Len(s) : s[k] \in Items
      /\ Abstract!At(l, Len(s)) = IF Len(s) \in 1..Len(s) THEN s[Len(s)] ELSE Null
  BY <1>1, Readings
<1>3. first[l] = IF Len(s) = 0 THEN Null ELSE s[1]
  BY <1>2, WalkFacts
<1>4. Last(l) = IF Len(s) \in 1..Len(s) THEN s[Len(s)] ELSE Null
  <2>1. CASE Len(s) = 0
    BY <1>3, <2>1 DEF Last
  <2>2. CASE Len(s) # 0
    <3>1. 1 \in 1..Len(s) /\ Len(s) \in 1..Len(s)
      BY <1>2, <2>2
    <3>2. first[l] = s[1] /\ s[1] # Null
      BY <1>2, <1>3, <2>2, <3>1, Distinct
    <3>3. prev[s[1]] = s[Len(s)]
      BY <1>2, <3>1, PrevOnWalk DEF RInv, IInv, Rings
    <3> QED
      BY <3>1, <3>2, <3>3 DEF Last
  <2> QED
    BY <2>1, <2>2
<1>5. Free(l) /\ RemoveAny(l, Last(l)) /\ cnext' = cnext /\ op' = <<"pop_back", l, Last(l)>> /\ TypeOK'
  BY DEF PopBack, IInv, Rings
<1>6. WalkInv' /\ Abstract!RemoveNth(l, Len(s)) /\ \A m \in Lists : m # l => Walk(m)' = Walk(m)
  BY <1>1, <1>2, <1>4, <1>5, RemoveAnyReads
<1>7. Positions' = Positions
  BY <1>5, <1>6, StillPositions
<1> QED
  BY <1>2, <1>4, <1>5, <1>6, <1>7 DEF Abstract!PopBack

\* remove takes an item out wherever it is in the walk.
LEMMA RemoveReads ==
    ASSUME RInv, IInv', NEW l \in Lists, NEW i \in Items, Remove(l, i)
    PROVE  WalkInv' /\ Abstract!RemoveItem(l, i)
<1> DEFINE gone == IF next[i] = Null THEN Null ELSE prev[next[i]]
<1>1. PICK s : s = Walk(l)
  OBVIOUS
<1>2. /\ IsWalk(l, s) /\ s \in Seq(Items) /\ Seqs[l] = s /\ Len(s) \in Nat /\ (Abstract!Free(l) <=> Free(l))
      /\ DOMAIN s = 1..Len(s)
  BY <1>1, Readings
<1>3. /\ Free(l) /\ RemoveAny(l, gone) /\ cnext' = cnext /\ op' = <<"remove", l, gone>> /\ TypeOK'
      /\ where[i] \in {l, Null}
  BY DEF Remove, IInv, Rings
<1>4. /\ \A k \in 1..Len(s) : s[k] \in Owned(l)
      /\ \A j \in Owned(l) : \E k \in 1..Len(s) : s[k] = j
      /\ \A j, k \in 1..Len(s) : s[j] = s[k] => j = k
  BY <1>2, WalkFacts
<1>5. gone = IF where[i] = l THEN i ELSE Null
  BY <1>3, Distinct DEF RInv, IInv, Rings, RingInv
<1> HIDE DEF gone
<1>6. CASE where[i] = l
  <2>1. PICK p \in 1..Len(s) : s[p] = i
    BY <1>4, <1>6 DEF Owned
  <2>2. p \in Int
    BY <1>2
  <2>3. RemoveAny(l, IF p \in 1..Len(s) THEN s[p] ELSE Null)
    BY <1>3, <1>5, <1>6, <2>1
  <2>4. /\ WalkInv' /\ \A m \in Lists : m # l => Walk(m)' = Walk(m)
        /\ Seqs' = [Seqs EXCEPT ![l] = Abstract!RemoveAt(s, p)]
    BY <1>1, <1>3, <2>1, <2>2, <2>3, RemoveAnyReads
  <2>5. Abstract!RemoveFirst(s, i) = Abstract!RemoveAt(s, p)
    BY <1>2, <1>4, <2>1, RemoveFirstIs
  <2>6. i \in Abstract!ToSet(Seqs[l])
    BY <1>2, <2>1 DEF Abstract!ToSet
  <2>7. Positions' = Positions
    BY <1>3, <2>4, StillPositions
  <2>8. Seqs' = [Seqs EXCEPT ![l] = Abstract!RemoveFirst(Seqs[l], i)]
    BY <1>2, <2>4, <2>5, Zenon
  <2> QED
    BY <1>2, <1>3, <1>5, <1>6, <2>4, <2>6, <2>7, <2>8, Zenon DEF Abstract!RemoveItem
<1>7. CASE where[i] # l
  <2>0. gone = Null /\ i \notin Owned(l)
    BY <1>5, <1>7 DEF Owned
  <2>1. first' = first /\ next' = next /\ where' = where
    BY <1>3, <2>0 DEF RemoveAny
  <2>2. WalkInv' /\ Seqs' = Seqs /\ \A m \in Lists : Walk(m)' = Walk(m)
    BY <1>3, <2>1, SameSequences
  <2>3. \A k \in 1..Len(s) : s[k] # i
    BY <1>4, <2>0
  <2>4. Abstract!RemoveFirst(s, i) = s
    BY <1>2, <1>4, <2>3, RemoveFirstIs
  <2>5. i \notin Abstract!ToSet(Seqs[l])
    BY <1>2, <2>3 DEF Abstract!ToSet
  <2>6. Positions' = Positions
    BY <1>3, <2>2, StillPositions
  <2>7. Seqs = [m \in Lists |-> Seqs[m]]
    BY DEF Seqs
  <2>8. Seqs' = [Seqs EXCEPT ![l] = Abstract!RemoveFirst(Seqs[l], i)]
    BY <1>2, <2>2, <2>4, <2>7
  <2> QED
    BY <1>2, <1>3, <2>0, <2>2, <2>5, <2>6, <2>8, Zenon DEF Abstract!RemoveItem
<1> QED
  BY <1>6, <1>7

\* push_all_back joins two walks and leaves the other list empty.
LEMMA PushAllBackReads ==
    ASSUME RInv, IInv', NEW l \in Lists, NEW m \in Lists, PushAllBack(l, m)
    PROVE  WalkInv' /\ Abstract!PushAllBack(l, m)
<1>1. PICK s : s = Walk(l)
  OBVIOUS
<1>2. PICK t : t = Walk(m)
  OBVIOUS
<1>3. /\ IsWalk(l, s) /\ Seqs[l] = s /\ IsWalk(m, t) /\ Seqs[m] = t
      /\ (Abstract!Free(l) <=> Free(l)) /\ (Abstract!Free(m) <=> Free(m))
  BY <1>1, <1>2, Readings
<1>4. /\ l # m /\ Free(l) /\ Free(m) /\ cnext' = cnext /\ op' = <<"push_all_back", l, Null>> /\ TypeOK'
      /\ where' = [i \in Items |-> IF where[i] = m THEN l ELSE where[i]]
  BY DEF PushAllBack, IInv, Rings
<1>5. IsWalk(l, s \o t)' /\ IsWalk(m, <<>>)'
  BY <1>3, WalkSpliced DEF RInv, IInv
<1>6. Walk(l)' = s \o t /\ Walk(m)' = <<>>
  BY <1>4, <1>5, WalkIsNext
<1>7. ASSUME NEW k \in Lists, k # l, k # m
      PROVE  IsWalk(k, Walk(k))' /\ Walk(k)' = Walk(k)
  <2>1. Owned(k)' = Owned(k)
    BY <1>4, <1>7 DEF RInv, IInv, Rings, TypeOK, Owned
  <2>2. Null \notin Items /\ Null \notin Lists
    BY Distinct
  <2>3. /\ first[l] # Null => /\ first[l] \in Items /\ where[first[l]] = l
                              /\ prev[first[l]] \in Items /\ where[prev[first[l]]] = l
        /\ first[m] # Null => /\ first[m] \in Items /\ where[first[m]] = m
                              /\ prev[first[m]] \in Items /\ where[prev[first[m]]] = m
    BY <2>2 DEF RInv, IInv, Rings, TypeOK, FirstInv, RingInv
  <2>4. first'[k] = first[k] /\ \A j \in Owned(k) : next'[j] = next[j]
    <3>1. CASE first[l] = Null
      <4>1. first' = [first EXCEPT ![l] = first[m], ![m] = Null] /\ next' = next
        BY <3>1 DEF PushAllBack
      <4> QED
        BY <1>7, <4>1 DEF RInv, IInv, Rings, TypeOK
    <3>2. CASE first[l] # Null /\ first[m] = Null
      <4>1. first' = [first EXCEPT ![m] = Null] /\ next' = next
        BY <3>2 DEF PushAllBack
      <4> QED
        BY <1>7, <4>1 DEF RInv, IInv, Rings, TypeOK
    <3>3. CASE first[l] # Null /\ first[m] # Null
      <4>1. /\ first' = [first EXCEPT ![m] = Null]
            /\ next' = [next EXCEPT ![prev[first[m]]] = first[l], ![prev[first[l]]] = first[m]]
        BY <3>3 DEF PushAllBack
      <4>2. prev[first[l]] \notin Owned(k) /\ prev[first[m]] \notin Owned(k)
        BY <1>7, <2>3, <3>3 DEF Owned
      <4> QED
        BY <1>7, <2>3, <3>3, <4>1, <4>2 DEF RInv, IInv, Rings, TypeOK, Owned
    <3> QED
      BY <3>1, <3>2, <3>3
  <2>5. PICK w : w = Walk(k)
    OBVIOUS
  <2>6. IsWalk(k, w)
    BY <2>5 DEF RInv, WalkInv
  <2>7. IsWalk(k, w)'
    BY <2>1, <2>4, <2>6, WalkKept
  <2>8. Walk(k)' = w
    BY <1>4, <2>7, WalkIsNext
  <2> QED
    BY <2>5, <2>7, <2>8
<1>8. WalkInv'
  BY <1>5, <1>6, <1>7 DEF WalkInv
<1>9. Seqs = [k \in Lists |-> Walk(k)] /\ Seqs' = [k \in Lists |-> Walk(k)']
  BY DEF Seqs
<1>10. Seqs' = [Seqs EXCEPT ![l] = s \o t, ![m] = <<>>]
  BY <1>4, <1>6, <1>7, <1>9
<1>11. Positions' = Positions
  <2>1. /\ Positions = [k \in Lists |-> CursorPos(k)] /\ Positions' = [k \in Lists |-> CursorPos(k)']
    BY DEF Positions
  <2>2. \A k \in {l, m} : CursorPos(k) = NoCursor /\ CursorPos(k)' = NoCursor
    BY <1>4, NoPosition DEF Free
  <2>3. \A k \in Lists : k # l /\ k # m => CursorPos(k)' = CursorPos(k)
    BY <1>4, <1>7, Zenon DEF CursorPos
  <2> QED
    BY <2>1, <2>2, <2>3
<1> QED
  BY <1>3, <1>4, <1>8, <1>10, <1>11 DEF Abstract!PushAllBack

-----------------------------------------------------------------------------
(* The calls of a cursor.                                                  *)

\* A call that only puts the cursor somewhere in the walk.
LEMMA CursorMoves ==
    ASSUME RInv, IInv', NEW l \in Lists, NEW s, s = Walk(l), NEW q \in 0..Len(s),
           first' = first, next' = next, where' = where,
           cnext' = [cnext EXCEPT ![l] = CursorAt(s, q)]
    PROVE  WalkInv' /\ Seqs' = Seqs /\ Positions' = [Positions EXCEPT ![l] = q]
<1>1. IsWalk(l, s) /\ TypeOK' /\ TypeOK
  BY Readings DEF IInv, Rings, RInv
<1>2. /\ WalkInv' /\ Seqs' = Seqs /\ (\A m \in Lists : Walk(m)' = Walk(m)) /\ IsWalk(l, s)'
  BY <1>1, SameSequences
<1>3. cnext'[l] = CursorAt(s, q) /\ \A m \in Lists : m # l => cnext'[m] = cnext[m]
  BY <1>1 DEF TypeOK
<1>4. CursorPos(l)' = q
  BY <1>1, <1>2, <1>3, PositionIsNext
<1>5. Positions' = [Positions EXCEPT ![l] = q]
  BY <1>2, <1>3, <1>4, OnePosition
<1> QED
  BY <1>2, <1>5

\* cursor_front and cursor_back open a cursor at either end of the walk.
LEMMA OpenReads ==
    ASSUME RInv, IInv', NEW l \in Lists
    PROVE  /\ CursorFront(l) => WalkInv' /\ Abstract!OpenCursor(l, "cursor_front", 0)
           /\ CursorBack(l) => WalkInv' /\ Abstract!OpenCursor(l, "cursor_back", Len(Seqs[l]))
<1>1. PICK s : s = Walk(l)
  OBVIOUS
<1>2. /\ IsWalk(l, s) /\ Seqs[l] = s /\ Len(s) \in Nat /\ (Abstract!Free(l) <=> Free(l))
  BY <1>1, Readings
<1>3. first[l] = CursorAt(s, 0) /\ 0 \in 0..Len(s) /\ Null = CursorAt(s, Len(s)) /\ Len(s) \in 0..Len(s)
  <2>1. first[l] = IF Len(s) = 0 THEN Null ELSE s[1]
    BY <1>2, WalkFacts
  <2>2. 0 + 1 = 1
    OBVIOUS
  <2> QED
    BY <1>2, <2>1, <2>2 DEF CursorAt
<1>4. ASSUME CursorFront(l) PROVE WalkInv' /\ Abstract!OpenCursor(l, "cursor_front", 0)
  <2>1. /\ Free(l) /\ op' = <<"cursor_front", l, Null>> /\ first' = first /\ next' = next /\ where' = where
        /\ cnext' = [cnext EXCEPT ![l] = CursorAt(s, 0)]
    BY <1>3, <1>4 DEF CursorFront
  <2>2. WalkInv' /\ Seqs' = Seqs /\ Positions' = [Positions EXCEPT ![l] = 0]
    BY <1>1, <1>3, <2>1, CursorMoves
  <2> QED
    BY <1>2, <2>1, <2>2 DEF Abstract!OpenCursor
<1>5. ASSUME CursorBack(l) PROVE WalkInv' /\ Abstract!OpenCursor(l, "cursor_back", Len(Seqs[l]))
  <2>1. /\ Free(l) /\ op' = <<"cursor_back", l, Null>> /\ first' = first /\ next' = next /\ where' = where
        /\ cnext' = [cnext EXCEPT ![l] = CursorAt(s, Len(s))]
    BY <1>3, <1>5 DEF CursorBack
  <2>2. WalkInv' /\ Seqs' = Seqs /\ Positions' = [Positions EXCEPT ![l] = Len(s)]
    BY <1>1, <1>3, <2>1, CursorMoves
  <2> QED
    BY <1>2, <2>1, <2>2 DEF Abstract!OpenCursor
<1> QED
  BY <1>4, <1>5

\* Dropping a cursor leaves the walks alone.
LEMMA CloseReads ==
    ASSUME RInv, IInv', NEW l \in Lists, CursorDrop(l)
    PROVE  WalkInv' /\ Abstract!CloseCursor(l)
<1>1. /\ ~Free(l) /\ op' = <<"drop", l, Null>> /\ first' = first /\ next' = next /\ where' = where
      /\ cnext' = [cnext EXCEPT ![l] = NoCursor] /\ TypeOK' /\ TypeOK
  BY DEF CursorDrop, IInv, Rings, RInv
<1>2. WalkInv' /\ Seqs' = Seqs /\ \A m \in Lists : Walk(m)' = Walk(m)
  BY <1>1, SameSequences
<1>3. cnext'[l] = NoCursor /\ \A m \in Lists : m # l => cnext'[m] = cnext[m]
  BY <1>1 DEF TypeOK
<1>4. CursorPos(l)' = NoCursor
  BY <1>3, NoPosition
<1>5. Positions' = [Positions EXCEPT ![l] = NoCursor]
  BY <1>2, <1>3, <1>4, OnePosition
<1>6. Abstract!Free(l) <=> Free(l)
  BY Readings
<1> QED
  BY <1>1, <1>2, <1>5, <1>6 DEF Abstract!CloseCursor

\* peek_next and peek_prev read the items on either side of the position.
LEMMA PeekReads ==
    ASSUME RInv, IInv', NEW l \in Lists
    PROVE  /\ PeekNext(l) => WalkInv' /\ Abstract!Peek(l, "peek_next", Positions[l] + 1)
           /\ PeekPrev(l) => WalkInv' /\ Abstract!Peek(l, "peek_prev", Positions[l])
<1> SUFFICES ASSUME PeekNext(l) \/ PeekPrev(l)
             PROVE  /\ PeekNext(l) => WalkInv' /\ Abstract!Peek(l, "peek_next", Positions[l] + 1)
                    /\ PeekPrev(l) => WalkInv' /\ Abstract!Peek(l, "peek_prev", Positions[l])
  OBVIOUS
<1>1. PICK s : s = Walk(l)
  OBVIOUS
<1>2. /\ Len(s) \in Nat /\ (Abstract!Free(l) <=> Free(l)) /\ Positions[l] = CursorPos(l)
      /\ \A k : Abstract!At(l, k) = IF k \in 1..Len(s) THEN s[k] ELSE Null
  BY <1>1, Readings
<1>3. /\ ~Free(l) /\ first' = first /\ next' = next /\ where' = where /\ cnext' = cnext /\ TypeOK'
  BY DEF PeekNext, PeekPrev, IInv, Rings
<1>4. PICK q \in 0..Len(s) : /\ CursorPos(l) = q /\ cnext[l] = CursorAt(s, q)
                             /\ PrevPtr(l) = IF q = 0 THEN Null ELSE s[q]
  BY <1>1, <1>3, CursorOnWalk
<1>5. WalkInv' /\ Seqs' = Seqs /\ \A m \in Lists : Walk(m)' = Walk(m)
  BY <1>3, SameSequences
<1>6. Positions' = Positions
  <2>1. \A m \in Lists : CursorPos(m)' = CursorPos(m)
    BY <1>3, <1>5, Zenon DEF CursorPos
  <2> QED
    BY <2>1 DEF Positions
<1>7. /\ q # Len(s) <=> q + 1 \in 1..Len(s)
      /\ q # 0 <=> q \in 1..Len(s)
  BY <1>2, <1>4
<1>8. Abstract!At(l, q + 1) = cnext[l] /\ Abstract!At(l, q) = PrevPtr(l)
  BY <1>2, <1>4, <1>7 DEF CursorAt
<1>9. ASSUME PeekNext(l) PROVE Abstract!Peek(l, "peek_next", Positions[l] + 1)
  BY <1>2, <1>3, <1>4, <1>5, <1>6, <1>8, <1>9 DEF PeekNext, Abstract!Peek
<1>10. ASSUME PeekPrev(l) PROVE Abstract!Peek(l, "peek_prev", Positions[l])
  BY <1>2, <1>3, <1>4, <1>5, <1>6, <1>8, <1>10 DEF PeekPrev, Abstract!Peek
<1> QED
  BY <1>5, <1>9, <1>10

\* move_next and move_prev step over one item, and stay at the ends.
LEMMA MoveReads ==
    ASSUME RInv, IInv', NEW l \in Lists
    PROVE  /\ MoveNext(l) => WalkInv' /\ Abstract!Move(l, "move_next", Positions[l] + 1)
           /\ MovePrev(l) => WalkInv' /\ Abstract!Move(l, "move_prev", Positions[l] - 1)
<1> SUFFICES ASSUME MoveNext(l) \/ MovePrev(l)
             PROVE  /\ MoveNext(l) => WalkInv' /\ Abstract!Move(l, "move_next", Positions[l] + 1)
                    /\ MovePrev(l) => WalkInv' /\ Abstract!Move(l, "move_prev", Positions[l] - 1)
  OBVIOUS
<1>1. PICK s : s = Walk(l)
  OBVIOUS
<1>2. /\ Len(s) \in Nat /\ (Abstract!Free(l) <=> Free(l)) /\ Positions[l] = CursorPos(l) /\ Seqs[l] = s
  BY <1>1, Readings
<1>3. /\ ~Free(l) /\ first' = first /\ next' = next /\ where' = where /\ TypeOK' /\ TypeOK
  BY DEF MoveNext, MovePrev, IInv, Rings, RInv
<1>4. PICK q \in 0..Len(s) : /\ CursorPos(l) = q /\ cnext[l] = CursorAt(s, q)
                             /\ PrevPtr(l) = IF q = 0 THEN Null ELSE s[q]
                             /\ q # Len(s) => NextPos(l) = CursorAt(s, q + 1)
                             /\ cnext[l] = Null <=> q = Len(s)
                             /\ cnext[l] = first[l] <=> q = 0
  BY <1>1, <1>3, CursorOnWalk
<1>5. WalkInv' /\ Seqs' = Seqs /\ \A m \in Lists : Walk(m)' = Walk(m)
  BY <1>3, SameSequences
<1>6. cnext' = cnext => Positions' = Positions
  <2> SUFFICES ASSUME cnext' = cnext PROVE Positions' = Positions
    OBVIOUS
  <2>1. \A m \in Lists : CursorPos(m)' = CursorPos(m)
    BY <1>5, Zenon DEF CursorPos
  <2> QED
    BY <2>1 DEF Positions
<1>7. /\ q + 1 \in 0..Len(s) <=> q # Len(s)
      /\ q - 1 \in 0..Len(s) <=> q # 0
  BY <1>2, <1>4
<1>8. ASSUME MoveNext(l) PROVE Abstract!Move(l, "move_next", q + 1)
  <2>1. op' = <<"move_next", l, q + 1 \in 0..Len(s)>>
    BY <1>4, <1>7, <1>8 DEF MoveNext
  <2>2. Positions' = IF q + 1 \in 0..Len(s) THEN [Positions EXCEPT ![l] = q + 1] ELSE Positions
    <3>1. CASE q = Len(s)
      BY <1>4, <1>6, <1>7, <1>8, <3>1 DEF MoveNext
    <3>2. CASE q # Len(s)
      <4>1. cnext' = [cnext EXCEPT ![l] = CursorAt(s, q + 1)] /\ q + 1 \in 0..Len(s)
        BY <1>4, <1>7, <1>8, <3>2 DEF MoveNext
      <4> QED
        BY <1>1, <1>3, <4>1, CursorMoves
    <3> QED
      BY <3>1, <3>2
  <2> QED
    BY <1>2, <1>3, <1>5, <2>1, <2>2 DEF Abstract!Move
<1>9. ASSUME MovePrev(l) PROVE Abstract!Move(l, "move_prev", q - 1)
  <2>1. op' = <<"move_prev", l, q - 1 \in 0..Len(s)>>
    BY <1>4, <1>7, <1>9 DEF MovePrev
  <2>2. Positions' = IF q - 1 \in 0..Len(s) THEN [Positions EXCEPT ![l] = q - 1] ELSE Positions
    <3>1. CASE q = 0
      BY <1>4, <1>6, <1>7, <1>9, <3>1 DEF MovePrev
    <3>2. CASE q # 0
      <4>1. q - 1 # Len(s) /\ (q - 1) + 1 = q /\ q - 1 \in 0..Len(s)
        BY <1>2, <1>4, <1>7, <3>2
      <4>2. PrevPtr(l) = CursorAt(s, q - 1)
        BY <1>4, <3>2, <4>1 DEF CursorAt
      <4>3. cnext' = [cnext EXCEPT ![l] = CursorAt(s, q - 1)]
        BY <1>4, <1>9, <3>2, <4>2 DEF MovePrev
      <4> QED
        BY <1>1, <1>3, <4>1, <4>3, CursorMoves
    <3> QED
      BY <3>1, <3>2
  <2> QED
    BY <1>2, <1>3, <1>5, <2>1, <2>2 DEF Abstract!Move
<1> QED
  BY <1>2, <1>4, <1>5, <1>8, <1>9

\* insert_next, insert_prev and insert put the item at the position of the cursor
\* and leave it before the item, behind it, or gone.
LEMMA CursorInsertReads ==
    ASSUME RInv, IInv', NEW l \in Lists, NEW i \in Items, NEW k, NEW name,
           ~Free(l), Held(i), CursorInsert(l, i), op' = <<name, l, i>>,
           \/ cnext' = [cnext EXCEPT ![l] = i] /\ k = Positions[l]
           \/ cnext' = cnext /\ k = Positions[l] + 1
           \/ cnext' = [cnext EXCEPT ![l] = NoCursor] /\ k = NoCursor
    PROVE  WalkInv' /\ Abstract!InsertHere(l, i, name, k)
<1>1. PICK s : s = Walk(l)
  OBVIOUS
<1>2. /\ IsWalk(l, s) /\ s \in Seq(Items) /\ Len(s) \in Nat /\ (Abstract!Free(l) <=> Free(l))
      /\ Positions[l] = CursorPos(l) /\ TypeOK' /\ TypeOK
      /\ \A j \in 1..Len(s) : s[j] \in Items
  BY <1>1, Readings DEF IInv, Rings, RInv
<1>3. first[l] = IF Len(s) = 0 THEN Null ELSE s[1]
  BY <1>2, WalkFacts
<1>4. PICK q \in 0..Len(s) : /\ CursorPos(l) = q /\ cnext[l] = CursorAt(s, q)
                             /\ cnext[l] = Null <=> q = Len(s)
                             /\ cnext[l] = first[l] <=> q = 0
  BY <1>1, CursorOnWalk
<1> DEFINE N == Len(s)
           p == q + 1
           n == IF cnext[l] = Null THEN first[l] ELSE cnext[l]
           f == IF cnext[l] = first[l] THEN i ELSE first[l]
           t == WalkPut(s, p, i)
<1>5. p \in 1..(N + 1) /\ p \in Nat /\ q \in Nat /\ p - 1 = q /\ (p = N + 1 <=> q = N) /\ (p = 1 <=> q = 0)
  BY <1>2, <1>4
<1>6. n = IF N = 0 THEN Null ELSE IF p = N + 1 THEN s[1] ELSE s[p]
  <2>1. CASE q = N
    BY <1>3, <1>4, <1>5, <2>1
  <2>2. CASE q # N
    <3>1. N # 0
      BY <1>2, <1>4, <2>2
    <3> QED
      BY <1>4, <1>5, <2>2, <3>1 DEF CursorAt
  <2> QED
    BY <2>1, <2>2
<1>7. N # 0 => f = IF p = 1 THEN i ELSE first[l]
  BY <1>4, <1>5
<1>8. InsertInner(l, i, n, f)
  BY DEF CursorInsert
<1> HIDE DEF n, f
<1>9. /\ WalkInv' /\ IsWalk(l, t)' /\ Walk(l)' = t
      /\ \A m \in Lists : m # l => Walk(m)' = Walk(m)
      /\ Abstract!Insert(l, p, i)
  BY <1>1, <1>2, <1>5, <1>6, <1>7, <1>8, InsertedSequence
<1>10. /\ Len(t) = N + 1 /\ t[p] = i /\ (q # N => t[p + 1] = s[p])
       /\ CursorAt(t, q) = i
       /\ CursorAt(t, p) = cnext[l]
       /\ q \in 0..Len(t) /\ p \in 0..Len(t)
  <2>1. /\ \A j \in 1..(N + 1) : t[j] = IF j < p THEN s[j] ELSE IF j = p THEN i ELSE s[j - 1]
        /\ DOMAIN t = 1..(N + 1)
    BY DEF WalkPut
  <2>2. Len(t) \in Nat /\ DOMAIN t = 1..Len(t)
    <3>1. (Len(t) \in Nat /\ DOMAIN t = 1..Len(t))'
      <4>1. t \in Seq(Owned(l)')
        BY <1>9 DEF IsWalk
      <4> QED
        BY <4>1, LenProperties
    <3> QED
      BY <3>1
  <2> HIDE DEF t, N, p
  <2>3. Len(t) = N + 1
    BY <1>2, <2>1, <2>2 DEF N
  <2>4. t[p] = i
    BY <1>5, <2>1
  <2>5. q # N => t[p + 1] = s[p]
    <3> SUFFICES ASSUME q # N PROVE t[p + 1] = s[p]
      OBVIOUS
    <3>1. N \in Nat
      BY <1>2 DEF N
    <3>2. p + 1 \in 1..(N + 1) /\ ~(p + 1 < p) /\ p + 1 # p /\ (p + 1) - 1 = p
      BY <1>5, <3>1
    <3> QED
      BY <2>1, <3>2
  <2>6. N \in Nat /\ q + 1 = p
    BY <1>2 DEF N, p
  <2>7. q # Len(t) /\ (p = Len(t) <=> q = N) /\ q \in 0..Len(t) /\ p \in 0..Len(t)
    BY <1>5, <2>3, <2>6
  <2>8. CursorAt(t, q) = i
    BY <2>4, <2>6, <2>7 DEF CursorAt
  <2>9. cnext[l] = IF q = N THEN Null ELSE s[p]
    BY <1>4, <2>6 DEF CursorAt, N
  <2>10. CursorAt(t, p) = cnext[l]
    BY <2>5, <2>7, <2>9 DEF CursorAt
  <2> QED
    BY <2>3, <2>4, <2>5, <2>7, <2>8, <2>10
<1> HIDE DEF t, N, p
<1>11. \A m \in Lists : m # l => cnext'[m] = cnext[m]
  BY <1>2 DEF TypeOK
<1>12. CursorPos(l)' = k
  <2>1. CASE cnext' = [cnext EXCEPT ![l] = i] /\ k = Positions[l]
    <3>1. cnext'[l] = CursorAt(t, q)
      BY <1>2, <1>10, <2>1 DEF TypeOK
    <3> QED
      BY <1>2, <1>4, <1>9, <1>10, <2>1, <3>1, PositionIsNext
  <2>2. CASE cnext' = cnext /\ k = Positions[l] + 1
    <3>1. cnext'[l] = CursorAt(t, p) /\ k = p
      BY <1>2, <1>4, <1>10, <2>2 DEF p
    <3> QED
      BY <1>2, <1>9, <1>10, <3>1, PositionIsNext
  <2>3. CASE cnext' = [cnext EXCEPT ![l] = NoCursor] /\ k = NoCursor
    <3>1. cnext'[l] = NoCursor
      BY <1>2, <2>3 DEF TypeOK
    <3> QED
      BY <2>3, <3>1, NoPosition
  <2> QED
    BY <2>1, <2>2, <2>3
<1>13. Positions' = [Positions EXCEPT ![l] = k]
  BY <1>9, <1>11, <1>12, OnePosition
<1>14. Abstract!Held(i)
  BY HeldReads
<1>15. Abstract!Insert(l, Positions[l] + 1, i)
  BY <1>2, <1>4, <1>9 DEF p
<1> QED
  BY <1>2, <1>9, <1>13, <1>14, <1>15 DEF Abstract!InsertHere

\* remove_next and remove_prev take the item next to the position, which stays
\* where it was between the others.
LEMMA CursorRemoveReads ==
    ASSUME RInv, IInv', NEW l \in Lists
    PROVE  /\ RemoveNext(l) => WalkInv' /\ Abstract!RemoveHere(l, "remove_next", Positions[l] + 1)
           /\ RemovePrev(l) => WalkInv' /\ Abstract!RemoveHere(l, "remove_prev", Positions[l])
<1> SUFFICES ASSUME RemoveNext(l) \/ RemovePrev(l)
             PROVE  /\ RemoveNext(l) => WalkInv' /\ Abstract!RemoveHere(l, "remove_next", Positions[l] + 1)
                    /\ RemovePrev(l) => WalkInv' /\ Abstract!RemoveHere(l, "remove_prev", Positions[l])
  OBVIOUS
<1>1. PICK s : s = Walk(l)
  OBVIOUS
<1> DEFINE N == Len(s)
<1>2. /\ IsWalk(l, s) /\ N \in Nat /\ (Abstract!Free(l) <=> Free(l)) /\ Positions[l] = CursorPos(l)
      /\ \A k : Abstract!At(l, k) = IF k \in 1..N THEN s[k] ELSE Null
  BY <1>1, Readings
<1>3. ~Free(l) /\ TypeOK' /\ TypeOK
  BY DEF RemoveNext, RemovePrev, IInv, Rings, RInv
<1>4. PICK q \in 0..N : /\ CursorPos(l) = q /\ cnext[l] = CursorAt(s, q)
                        /\ PrevPtr(l) = IF q = 0 THEN Null ELSE s[q]
                        /\ q # N => NextPos(l) = CursorAt(s, q + 1)
                        /\ cnext[l] = Null <=> q = N
  BY <1>1, <1>3, CursorOnWalk
<1>c. \A t : \A k : CursorAt(t, k) = IF k = Len(t) THEN Null ELSE t[k + 1]
  BY DEF CursorAt
<1>d. CursorAt(s, q) = IF q = N THEN Null ELSE s[q + 1]
  BY DEF CursorAt
<1>e. Positions = [m \in Lists |-> Positions[m]]
  BY DEF Positions
<1>t. \A p \in 1..N : /\ \A j \in 1..(N - 1) : WalkCut(s, p)[j] = IF j < p THEN s[j] ELSE s[j + 1]
                      /\ IsWalk(l, WalkCut(s, p))' => Len(WalkCut(s, p)) = N - 1
  <2> TAKE p \in 1..N
  <2>1. /\ \A j \in 1..(N - 1) : WalkCut(s, p)[j] = IF j < p THEN s[j] ELSE s[j + 1]
        /\ DOMAIN WalkCut(s, p) = 1..(N - 1)
    BY DEF WalkCut
  <2>2. ASSUME IsWalk(l, WalkCut(s, p))' PROVE Len(WalkCut(s, p)) = N - 1
    <3>1. PICK t : t = WalkCut(s, p)
      OBVIOUS
    <3>2. t \in Seq(Owned(l)')
      BY <2>2, <3>1 DEF IsWalk
    <3>3. Len(t) \in Nat /\ DOMAIN t = 1..Len(t)
      BY <3>2, LenProperties
    <3>4. N - 1 \in Nat
      BY <1>2
    <3> HIDE DEF N
    <3>5. Len(t) = N - 1
      BY <2>1, <3>1, <3>3, <3>4
    <3> QED
      BY <3>1, <3>5
  <2> QED
    BY <2>1, <2>2
<1> HIDE DEF N
<1>5. /\ q + 1 \in 1..N <=> q # N
      /\ q \in 1..N <=> q # 0
      /\ q + 1 \in Int /\ q \in Int /\ q \in Nat /\ (q + 1) - 1 = q
  BY <1>2, <1>4
<1>6. ASSUME RemoveNext(l) PROVE WalkInv' /\ Abstract!RemoveHere(l, "remove_next", q + 1)
  <2>1. /\ cnext' = IF cnext[l] = Null THEN cnext ELSE [cnext EXCEPT ![l] = NextPos(l)]
        /\ RemoveAny(l, cnext[l]) /\ op' = <<"remove_next", l, cnext[l]>>
    BY <1>6 DEF RemoveNext
  <2>2. cnext[l] = IF q + 1 \in 1..N THEN s[q + 1] ELSE Null
    BY <1>4, <1>5, <1>d
  <2>3. /\ WalkInv' /\ Abstract!RemoveNth(l, q + 1) /\ \A m \in Lists : m # l => Walk(m)' = Walk(m)
        /\ q + 1 \in 1..N => IsWalk(l, WalkCut(s, q + 1))'
        /\ q + 1 \notin 1..N => IsWalk(l, s)'
    <3>1. RemoveAny(l, IF q + 1 \in 1..N THEN s[q + 1] ELSE Null)
      BY <2>1, <2>2
    <3> QED
      BY <1>1, <1>3, <1>5, <3>1, RemoveAnyReads DEF N
  <2>4. CursorPos(l)' = q
    <3>1. CASE q = N
      <4>1. IsWalk(l, s)' /\ cnext'[l] = CursorAt(s, q)
        BY <1>4, <1>5, <2>1, <2>3, <3>1
      <4> QED
        BY <1>3, <1>4, <4>1, PositionIsNext DEF N
    <3>2. CASE q # N
      <4> DEFINE t == WalkCut(s, q + 1)
      <4>1. IsWalk(l, t)' /\ Len(t) = N - 1
        BY <1>5, <1>t, <2>3, <3>2
      <4>2. cnext'[l] = CursorAt(s, q + 1)
        BY <1>3, <1>4, <2>1, <3>2 DEF TypeOK
      <4>3. CursorAt(s, q + 1) = IF q + 1 = N THEN Null ELSE s[(q + 1) + 1]
        BY <1>c DEF N
      <4>4. q + 1 # N => t[q + 1] = s[(q + 1) + 1]
        <5> SUFFICES ASSUME q + 1 # N PROVE t[q + 1] = s[(q + 1) + 1]
          OBVIOUS
        <5>1. q + 1 \in 1..(N - 1) /\ ~(q + 1 < q + 1) /\ q + 1 \in 1..N
          BY <1>2, <1>4, <3>2
        <5> QED
          BY <1>t, <5>1
      <4> HIDE DEF t
      <4>5. (q = Len(t) <=> q + 1 = N) /\ q \in 0..Len(t)
        BY <1>2, <1>4, <3>2, <4>1
      <4>6. cnext'[l] = CursorAt(t, q)
        BY <1>c, <4>2, <4>3, <4>4, <4>5
      <4> QED
        BY <1>3, <4>1, <4>5, <4>6, PositionIsNext
    <3> QED
      BY <3>1, <3>2
  <2>5. \A m \in Lists : m # l => cnext'[m] = cnext[m]
    BY <1>3, <2>1 DEF TypeOK
  <2>6. Positions' = [Positions EXCEPT ![l] = q]
    BY <2>3, <2>4, <2>5, OnePosition
  <2>7. Positions[l] = q /\ q + 1 # q
    BY <1>2, <1>4, <1>5
  <2>8. Abstract!At(l, q + 1) = cnext[l]
    BY <1>2, <2>2
  <2> QED
    BY <1>2, <1>3, <2>1, <2>3, <2>6, <2>7, <2>8 DEF Abstract!RemoveHere
<1>7. ASSUME RemovePrev(l) PROVE WalkInv' /\ Abstract!RemoveHere(l, "remove_prev", q)
  <2>1. cnext' = cnext /\ RemoveAny(l, PrevPtr(l)) /\ op' = <<"remove_prev", l, PrevPtr(l)>>
    BY <1>7 DEF RemovePrev
  <2>2. PrevPtr(l) = IF q \in 1..N THEN s[q] ELSE Null
    BY <1>4, <1>5
  <2>3. /\ WalkInv' /\ Abstract!RemoveNth(l, q) /\ \A m \in Lists : m # l => Walk(m)' = Walk(m)
        /\ q \in 1..N => IsWalk(l, WalkCut(s, q))'
        /\ q \notin 1..N => IsWalk(l, s)'
    <3>1. RemoveAny(l, IF q \in 1..N THEN s[q] ELSE Null)
      BY <2>1, <2>2
    <3> QED
      BY <1>1, <1>3, <1>5, <3>1, RemoveAnyReads DEF N
  <2>4. CursorPos(l)' = IF q > 0 THEN q - 1 ELSE q
    <3>1. CASE q = 0
      <4>1. IsWalk(l, s)' /\ cnext'[l] = CursorAt(s, q)
        BY <1>4, <1>5, <2>1, <2>3, <3>1
      <4>2. CursorPos(l)' = q
        BY <1>3, <1>4, <4>1, PositionIsNext DEF N
      <4> QED
        BY <3>1, <4>2
    <3>2. CASE q # 0
      <4> DEFINE t == WalkCut(s, q)
                 r == q - 1
      <4>1. IsWalk(l, t)' /\ Len(t) = N - 1
        BY <1>5, <1>t, <2>3, <3>2
      <4>2. q # N => t[q] = s[q + 1]
        <5> SUFFICES ASSUME q # N PROVE t[q] = s[q + 1]
          OBVIOUS
        <5>1. q \in 1..(N - 1) /\ ~(q < q) /\ q \in 1..N
          BY <1>2, <1>4, <3>2
        <5> QED
          BY <1>t, <5>1
      <4> HIDE DEF t
      <4>3. (r = Len(t) <=> q = N) /\ r \in 0..Len(t) /\ r + 1 = q /\ q > 0
        BY <1>2, <1>4, <3>2, <4>1
      <4>4. cnext'[l] = CursorAt(t, r)
        BY <1>4, <1>c, <1>d, <2>1, <4>2, <4>3
      <4> HIDE DEF r
      <4>5. CursorPos(l)' = r
        BY <1>3, <4>1, <4>3, <4>4, PositionIsNext
      <4> QED
        BY <4>3, <4>5 DEF r
    <3> QED
      BY <3>1, <3>2
  <2>5. Positions' = [Positions EXCEPT ![l] = IF q > 0 THEN q - 1 ELSE q]
    BY <2>1, <2>3, <2>4, OnePosition
  <2>6. Positions[l] = q
    BY <1>2, <1>4
  <2>7. Abstract!At(l, q) = PrevPtr(l)
    BY <1>2, <2>2
  <2> QED
    BY <1>2, <1>3, <2>1, <2>3, <2>5, <2>6, <2>7 DEF Abstract!RemoveHere
<1> QED
  BY <1>2, <1>4, <1>6, <1>7

-----------------------------------------------------------------------------
\* List::new is an empty sequence without a cursor.
LEMMA InitReads == Init => WalkInv /\ Abstract!Init
<1> SUFFICES ASSUME Init PROVE WalkInv /\ Abstract!Init
  OBVIOUS
<1>1. TypeOK
  BY InitHolds DEF IInv, Rings
<1>2. ASSUME NEW l \in Lists PROVE IsWalk(l, << >>) /\ CursorPos(l) = NoCursor
  <2>1. Owned(l) = {} /\ first[l] = Null /\ cnext[l] = NoCursor
    BY Distinct DEF Init, Owned
  <2>2. << >> \in Seq(Owned(l)) /\ Len(<< >>) = 0 /\ 1..0 = {}
    BY EmptySeq
  <2>3. IsWalk(l, << >>)
    BY <2>1, <2>2 DEF IsWalk
  <2> QED
    BY <2>1, <2>3, NoPosition
<1>3. \A l \in Lists : Walk(l) = << >>
  BY <1>1, <1>2, WalkIs
<1>4. WalkInv
  BY <1>2, <1>3 DEF WalkInv
<1>5. Seqs = [l \in Lists |-> << >>] /\ Positions = [l \in Lists |-> NoCursor]
  BY <1>2, <1>3 DEF Seqs, Positions
<1> QED
  BY <1>4, <1>5 DEF Abstract!Init, Init

\* Every call keeps the walks and is a call of ListSpec.
LEMMA StepReads == RInv /\ IInv' /\ [Next]_vars => WalkInv' /\ [Abstract!Next]_(Abstract!vars)
<1> SUFFICES ASSUME RInv, IInv', [Next]_vars PROVE WalkInv' /\ [Abstract!Next]_(Abstract!vars)
  OBVIOUS
<1>1. CASE UNCHANGED vars
  <2>1. first' = first /\ next' = next /\ where' = where /\ cnext' = cnext /\ op' = op /\ TypeOK'
    BY <1>1 DEF vars, IInv, Rings
  <2>2. WalkInv' /\ Seqs' = Seqs /\ \A m \in Lists : Walk(m)' = Walk(m)
    BY <2>1, SameSequences
  <2>3. \A m \in Lists : CursorPos(m)' = CursorPos(m)
    BY <2>1, <2>2, Zenon DEF CursorPos
  <2>4. Positions' = Positions
    BY <2>3 DEF Positions
  <2> QED
    BY <2>1, <2>2, <2>4 DEF Abstract!vars
<1>2. CASE Next
  <2> SUFFICES WalkInv' /\ Abstract!Next
    OBVIOUS
  <2>0. PICK l \in Lists : ListStep(l)
    BY <1>2 DEF Next
  <2>1. CASE \E i \in Items : PushBack(l, i)
    BY <2>1, PushBackReads DEF Abstract!Next
  <2>2. CASE \E i \in Items : PushFront(l, i)
    BY <2>2, PushFrontReads DEF Abstract!Next
  <2>3. CASE \E i \in Items : Remove(l, i)
    BY <2>3, RemoveReads DEF Abstract!Next
  <2>4. CASE \E i \in Items : InsertNext(l, i)
    <3>1. PICK i \in Items : InsertNext(l, i)
      BY <2>4
    <3>2. WalkInv' /\ Abstract!InsertHere(l, i, "insert_next", Positions[l])
      BY <3>1, CursorInsertReads DEF InsertNext
    <3> QED
      BY <3>2 DEF Abstract!Next
  <2>5. CASE \E i \in Items : InsertPrev(l, i)
    <3>1. PICK i \in Items : InsertPrev(l, i)
      BY <2>5
    <3>2. WalkInv' /\ Abstract!InsertHere(l, i, "insert_prev", Positions[l] + 1)
      BY <3>1, CursorInsertReads DEF InsertPrev
    <3> QED
      BY <3>2 DEF Abstract!Next
  <2>6. CASE \E i \in Items : Insert(l, i)
    <3>1. PICK i \in Items : Insert(l, i)
      BY <2>6
    <3>2. WalkInv' /\ Abstract!InsertHere(l, i, "insert", NoCursor)
      BY <3>1, CursorInsertReads DEF Insert
    <3> QED
      BY <3>2 DEF Abstract!Next
  <2>7. CASE PopBack(l)
    BY <2>7, PopBackReads DEF Abstract!Next
  <2>8. CASE PopFront(l)
    BY <2>8, PopFrontReads DEF Abstract!Next
  <2>9. CASE \E m \in Lists : PushAllBack(l, m)
    BY <2>9, PushAllBackReads DEF Abstract!Next
  <2>10. CASE CursorFront(l) \/ CursorBack(l)
    BY <2>10, OpenReads DEF Abstract!Next
  <2>11. CASE CursorDrop(l)
    BY <2>11, CloseReads DEF Abstract!Next
  <2>12. CASE PeekNext(l) \/ PeekPrev(l)
    BY <2>12, PeekReads DEF Abstract!Next
  <2>13. CASE MoveNext(l) \/ MovePrev(l)
    BY <2>13, MoveReads DEF Abstract!Next
  <2>14. CASE RemoveNext(l) \/ RemovePrev(l)
    BY <2>14, CursorRemoveReads DEF Abstract!Next
  <2> QED
    BY <2>0, <2>1, <2>2, <2>3, <2>4, <2>5, <2>6, <2>7, <2>8, <2>9, <2>10, <2>11, <2>12, <2>13, <2>14
       DEF ListStep
<1> QED
  BY <1>1, <1>2

\* The pointer code of list.rs implements the sequences and cursors of ListSpec for
\* any number of items and lists: seen through the iterator, every call changes the
\* sequences, moves the cursor and returns what the abstract call says.
THEOREM ListRefines == Spec => ImplementsListSpec
<1>1. RInv /\ [Next]_vars => RInv' /\ [Abstract!Next]_(Abstract!vars)
  BY NextHolds, StepReads DEF RInv
<1>2. Init => RInv /\ Abstract!Init
  BY InitHolds, InitReads DEF RInv
<1> QED
  BY <1>1, <1>2, PTL DEF Spec, ImplementsListSpec, Abstract!Spec

-----------------------------------------------------------------------------
(* Arc, UniqueArc and ListArc: ListArc.tla.                                *)

ArcInv ==
    /\ ArcTypeOK
    /\ CallsOK
    /\ CountExact
    /\ NothingLeaked
    /\ OneListArc
    /\ TrackerExact
    /\ UniqueAlone

\* The set of references that count is finite.
LEMMA CountedFinite == IsFiniteSet(Counted) /\ Cardinality(Counted) \in Nat
BY SlotsFinite, FS_Subset, FS_CardinalityType DEF Counted

\* refcount_inc for a reference that was not counted.
LEMMA CountUp ==
    ASSUME count = Cardinality(Counted), NEW t \in Slots, t \notin Counted,
           Counted' = Counted \cup {t}, count' = count + 1
    PROVE  count' = Cardinality(Counted')
BY CountedFinite, FS_AddElement

\* refcount_dec for a reference that was.
LEMMA CountDown ==
    ASSUME count = Cardinality(Counted), NEW s \in Slots, s \in Counted,
           Counted' = Counted \ {s}, count' = count - 1
    PROVE  count' = Cardinality(Counted') /\ count' \in Nat
<1>1. IsFiniteSet(Counted \ {s}) /\ Cardinality(Counted \ {s}) = count - 1
  BY CountedFinite, FS_RemoveElement
<1> QED
  BY <1>1, FS_CardinalityType

\* A count that reaches zero was the last one; a count that does not leaves others.
LEMMA LastOne ==
    ASSUME count = Cardinality(Counted), NEW s \in Slots, s \in Counted
    PROVE  count - 1 = 0 <=> Counted = {s}
<1>1. IsFiniteSet(Counted \ {s}) /\ Cardinality(Counted \ {s}) = count - 1
  BY CountedFinite, FS_RemoveElement
<1>2. count - 1 = 0 <=> Counted \ {s} = {}
  BY <1>1, FS_EmptySet
<1> QED
  BY <1>2

-----------------------------------------------------------------------------
\* Init: no value and no reference.
LEMMA ArcInitHolds == ArcInit => ArcInv
<1> SUFFICES ASSUME ArcInit PROVE ArcInv
  OBVIOUS
<1>1. Counted = {}
  BY DEF ArcInit, Counted
<1>2. count = Cardinality(Counted)
  BY <1>1, FS_EmptySet DEF ArcInit
<1>3. ArcTypeOK /\ CallsOK /\ NothingLeaked /\ UniqueAlone
  BY ArcDistinct DEF ArcInit, ArcTypeOK, CallsOK, NothingLeaked, UniqueAlone, Empty
<1>4. CountExact
  BY <1>2 DEF ArcInit, CountExact
<1>5. \A id \in IDs : ListArcs(id) = {}
  BY ArcDistinct DEF ArcInit, ListArcs
<1>6. OneListArc /\ TrackerExact
  BY <1>5 DEF ArcInit, OneListArc, TrackerExact
<1> QED
  BY <1>3, <1>4, <1>6 DEF ArcInv

\* New preserves the invariant.
LEMMA NewStep ==
    ASSUME ArcInv, NEW s \in Slots, New(s)
    PROVE  ArcInv'
<1>1. ArcTypeOK'
  BY ArcDistinct DEF New, Empty, ArcInv, ArcTypeOK, CallsOK
<1>2. Counted = {}
  BY ArcDistinct DEF New, Counted, ArcInv, ArcTypeOK, UniqueAlone, Empty
<1>3. count = 0
  BY <1>2, FS_EmptySet DEF ArcInv, CountExact
<1>4. Counted' = Counted \cup {s} /\ s \notin Counted
  BY <1>2, ArcDistinct DEF New, Empty, Counted, ArcInv, ArcTypeOK
<1>5. count' = Cardinality(Counted')
  BY <1>4, <1>3, CountUp DEF New, ArcInv, CountExact
<1>6. CallsOK'
  BY ArcDistinct DEF New, Empty, ArcInv, ArcTypeOK, CallsOK, UniqueAlone
<1>7. CountExact'
  BY <1>5, ArcDistinct DEF New, Empty, ArcInv, ArcTypeOK, CountExact, CallsOK, UniqueAlone
<1>8. NothingLeaked'
  BY ArcDistinct DEF New, Empty, ArcInv, ArcTypeOK, NothingLeaked, CallsOK, UniqueAlone
<1>9. OneListArc'
  BY ArcDistinct DEF New, Empty, ArcInv, ArcTypeOK, OneListArc, TrackerExact, ListArcs, CallsOK, UniqueAlone
<1>10. TrackerExact'
  BY ArcDistinct DEF New, Empty, ArcInv, ArcTypeOK, OneListArc, TrackerExact, ListArcs, CallsOK, UniqueAlone
<1>11. UniqueAlone'
  BY ArcDistinct DEF New, Empty, ArcInv, ArcTypeOK, CallsOK, UniqueAlone
<1> QED
  BY <1>1, <1>6, <1>7, <1>8, <1>9, <1>10, <1>11 DEF ArcInv

\* IntoShared preserves the invariant.
LEMMA IntoSharedStep ==
    ASSUME ArcInv, NEW s \in Slots, IntoShared(s)
    PROVE  ArcInv'
<1>1. ArcTypeOK'
  BY ArcDistinct DEF IntoShared, Owns, ArcInv, ArcTypeOK, CallsOK
<1>2. Counted' = Counted
  BY ArcDistinct DEF IntoShared, Owns, Counted, ArcInv, ArcTypeOK
<1>3. count' = Cardinality(Counted')
  BY <1>2 DEF IntoShared, ArcInv, CountExact
<1>4. CallsOK'
  BY ArcDistinct DEF IntoShared, Owns, ArcInv, ArcTypeOK, CallsOK, UniqueAlone, Empty
<1>5. CountExact'
  BY <1>3, ArcDistinct DEF IntoShared, Owns, ArcInv, ArcTypeOK, CountExact, CallsOK, UniqueAlone, Empty
<1>6. NothingLeaked'
  BY ArcDistinct DEF IntoShared, Owns, ArcInv, ArcTypeOK, NothingLeaked, CallsOK, UniqueAlone, Empty
<1>7. OneListArc'
  BY ArcDistinct
     DEF IntoShared, Owns, ArcInv, ArcTypeOK, OneListArc, TrackerExact, ListArcs, CallsOK,
         UniqueAlone, Empty
<1>8. TrackerExact'
  BY ArcDistinct
     DEF IntoShared, Owns, ArcInv, ArcTypeOK, OneListArc, TrackerExact, ListArcs, CallsOK,
         UniqueAlone, Empty
<1>9. UniqueAlone'
  BY ArcDistinct DEF IntoShared, Owns, ArcInv, ArcTypeOK, CallsOK, UniqueAlone, Empty
<1> QED
  BY <1>1, <1>4, <1>5, <1>6, <1>7, <1>8, <1>9 DEF ArcInv

\* FromUnique preserves the invariant.
LEMMA FromUniqueStep ==
    ASSUME ArcInv, NEW s \in Slots, NEW id \in IDs, FromUnique(s, id)
    PROVE  ArcInv'
<1>1. ArcTypeOK'
  BY ArcDistinct DEF FromUnique, Owns, OnCreate, ArcInv, ArcTypeOK, CallsOK
<1>2. Counted' = Counted
  BY ArcDistinct DEF FromUnique, Owns, OnCreate, Counted, ArcInv, ArcTypeOK
<1>3. count' = Cardinality(Counted')
  BY <1>2 DEF FromUnique, ArcInv, CountExact
<1>4. CallsOK'
  BY ArcDistinct DEF FromUnique, Owns, OnCreate, ArcInv, ArcTypeOK, CallsOK, UniqueAlone, Empty
<1>5. CountExact'
  BY <1>3, ArcDistinct
     DEF FromUnique, Owns, OnCreate, ArcInv, ArcTypeOK, CountExact, CallsOK, UniqueAlone, Empty
<1>6. NothingLeaked'
  BY ArcDistinct
     DEF FromUnique, Owns, OnCreate, ArcInv, ArcTypeOK, NothingLeaked, CallsOK, UniqueAlone, Empty
<1>7. OneListArc'
  BY ArcDistinct
     DEF FromUnique, Owns, OnCreate, ArcInv, ArcTypeOK, OneListArc, TrackerExact, ListArcs,
         CallsOK, UniqueAlone, Empty
<1>8. \A i \in IDs : ListArcs(i) = {}
  BY ArcDistinct DEF FromUnique, Owns, OnCreate, ArcInv, ArcTypeOK, ListArcs, UniqueAlone, Empty, CallsOK
<1>9. ListArcs(id)' = {s} /\ \A i \in IDs \ {id} : ListArcs(i)' = {}
  BY <1>8, ArcDistinct DEF FromUnique, Owns, OnCreate, ArcInv, ArcTypeOK, ListArcs, CallsOK
<1>10. \A i \in IDs : tracker'[i] <=> (tracker[i] \/ i \in {id} \ Untracked)
  BY Zenon DEF FromUnique, OnCreate
<1>11. TrackerExact'
  BY <1>8, <1>9, <1>10 DEF ArcInv, TrackerExact
<1>12. UniqueAlone'
  BY ArcDistinct DEF FromUnique, Owns, OnCreate, ArcInv, ArcTypeOK, CallsOK, UniqueAlone, Empty
<1> QED
  BY <1>1, <1>4, <1>5, <1>6, <1>7, <1>11, <1>12 DEF ArcInv

\* PairFromUnique preserves the invariant.
LEMMA PairFromUniqueStep ==
    ASSUME ArcInv, NEW s \in Slots, NEW t \in Slots \ {s}, NEW id \in IDs, NEW id2 \in IDs, PairFromUnique(s, t, id, id2)
    PROVE  ArcInv'
<1>1. ArcTypeOK'
  BY ArcDistinct DEF PairFromUnique, Owns, OnCreate, Empty, ArcInv, ArcTypeOK, CallsOK
<1>2. Counted' = Counted \cup {t} /\ t \notin Counted
  BY ArcDistinct DEF PairFromUnique, Owns, OnCreate, Empty, Counted, ArcInv, ArcTypeOK
<1>3. count' = Cardinality(Counted')
  BY <1>2, CountUp DEF PairFromUnique, ArcInv, CountExact
<1>4. CallsOK'
  BY ArcDistinct DEF PairFromUnique, Owns, OnCreate, Empty, ArcInv, ArcTypeOK, CallsOK, UniqueAlone
<1>5. CountExact'
  BY <1>3, ArcDistinct
     DEF PairFromUnique, Owns, OnCreate, Empty, ArcInv, ArcTypeOK, CountExact, CallsOK, UniqueAlone
<1>6. NothingLeaked'
  BY ArcDistinct
     DEF PairFromUnique, Owns, OnCreate, Empty, ArcInv, ArcTypeOK, NothingLeaked, CallsOK,
         UniqueAlone
<1>7. OneListArc'
  BY ArcDistinct
     DEF PairFromUnique, Owns, OnCreate, Empty, ArcInv, ArcTypeOK, OneListArc, TrackerExact,
         ListArcs, CallsOK, UniqueAlone
<1>8. \A i \in IDs : ListArcs(i) = {}
  BY ArcDistinct
     DEF PairFromUnique, Owns, OnCreate, Empty, ArcInv, ArcTypeOK, ListArcs, UniqueAlone, Empty,
         CallsOK
<1>9. ListArcs(id)' = {s} /\ ListArcs(id2)' = {t} /\ \A i \in IDs \ {id, id2} : ListArcs(i)' = {}
  BY <1>8, ArcDistinct DEF PairFromUnique, Owns, OnCreate, Empty, ArcInv, ArcTypeOK, ListArcs
<1>10. \A i \in IDs : tracker'[i] <=> (tracker[i] \/ i \in {id, id2} \ Untracked)
  BY Zenon DEF PairFromUnique, OnCreate
<1>11. TrackerExact'
  BY <1>8, <1>9, <1>10 DEF ArcInv, TrackerExact
<1>12. UniqueAlone'
  BY ArcDistinct DEF PairFromUnique, Owns, OnCreate, Empty, ArcInv, ArcTypeOK, CallsOK, UniqueAlone
<1> QED
  BY <1>1, <1>4, <1>5, <1>6, <1>7, <1>11, <1>12 DEF ArcInv

\* Clone preserves the invariant.
LEMMA CloneStep ==
    ASSUME ArcInv, NEW s \in Slots, NEW t \in Slots \ {s}, Clone(s, t)
    PROVE  ArcInv'
<1>1. ArcTypeOK'
  BY ArcDistinct DEF Clone, Empty, ArcInv, ArcTypeOK, CallsOK
<1>2. Counted' = Counted \cup {t} /\ t \notin Counted
  BY ArcDistinct DEF Clone, Empty, Counted, ArcInv, ArcTypeOK
<1>3. count' = Cardinality(Counted')
  BY <1>2, CountUp DEF Clone, ArcInv, CountExact
<1>4. CallsOK'
  BY ArcDistinct DEF Clone, Empty, ArcInv, ArcTypeOK, CallsOK, UniqueAlone
<1>5. CountExact'
  BY <1>3, ArcDistinct DEF Clone, Empty, ArcInv, ArcTypeOK, CountExact, CallsOK, UniqueAlone
<1>6. NothingLeaked'
  BY ArcDistinct DEF Clone, Empty, ArcInv, ArcTypeOK, NothingLeaked, CallsOK, UniqueAlone
<1>7. OneListArc'
  BY ArcDistinct
     DEF Clone, Empty, ArcInv, ArcTypeOK, OneListArc, TrackerExact, ListArcs, CallsOK, UniqueAlone
<1>8. TrackerExact'
  BY ArcDistinct
     DEF Clone, Empty, ArcInv, ArcTypeOK, OneListArc, TrackerExact, ListArcs, CallsOK, UniqueAlone
<1>9. UniqueAlone'
  BY ArcDistinct DEF Clone, Empty, ArcInv, ArcTypeOK, CallsOK, UniqueAlone
<1> QED
  BY <1>1, <1>4, <1>5, <1>6, <1>7, <1>8, <1>9 DEF ArcInv

\* TryFromArc preserves the invariant.
LEMMA TryFromArcStep ==
    ASSUME ArcInv, NEW s \in Slots, NEW id \in IDs, TryFromArc(s, id)
    PROVE  ArcInv'
<1>1. ArcTypeOK'
  BY ArcDistinct DEF TryFromArc, Owns, TryNewListArc, ArcInv, ArcTypeOK, CallsOK
<1>2. Counted' = Counted
  BY ArcDistinct DEF TryFromArc, Owns, TryNewListArc, Counted, ArcInv, ArcTypeOK
<1>3. count' = Cardinality(Counted')
  BY <1>2 DEF TryFromArc, ArcInv, CountExact
<1>4. CallsOK'
  BY ArcDistinct DEF TryFromArc, Owns, TryNewListArc, ArcInv, ArcTypeOK, CallsOK, UniqueAlone, Empty
<1>5. CountExact'
  BY <1>3, ArcDistinct
     DEF TryFromArc, Owns, TryNewListArc, ArcInv, ArcTypeOK, CountExact, CallsOK, UniqueAlone, Empty
<1>6. NothingLeaked'
  BY ArcDistinct
     DEF TryFromArc, Owns, TryNewListArc, ArcInv, ArcTypeOK, NothingLeaked, CallsOK, UniqueAlone,
         Empty
<1>7. OneListArc'
  BY ArcDistinct
     DEF TryFromArc, Owns, TryNewListArc, ArcInv, ArcTypeOK, OneListArc, TrackerExact, ListArcs,
         CallsOK, UniqueAlone, Empty
<1>8. TrackerExact'
  BY ArcDistinct
     DEF TryFromArc, Owns, TryNewListArc, ArcInv, ArcTypeOK, OneListArc, TrackerExact, ListArcs,
         CallsOK, UniqueAlone, Empty
<1>9. UniqueAlone'
  BY ArcDistinct DEF TryFromArc, Owns, TryNewListArc, ArcInv, ArcTypeOK, CallsOK, UniqueAlone, Empty
<1> QED
  BY <1>1, <1>4, <1>5, <1>6, <1>7, <1>8, <1>9 DEF ArcInv

\* TryFromArcBorrow preserves the invariant.
LEMMA TryFromArcBorrowStep ==
    ASSUME ArcInv, NEW s \in Slots, NEW t \in Slots \ {s}, NEW id \in IDs, TryFromArcBorrow(s, t, id)
    PROVE  ArcInv'
<1>1. ArcTypeOK'
  BY ArcDistinct DEF TryFromArcBorrow, TryNewListArc, Empty, ArcInv, ArcTypeOK, CallsOK
<1>2. Counted' = Counted
  BY ArcDistinct DEF TryFromArcBorrow, TryNewListArc, Empty, Counted, ArcInv, ArcTypeOK
<1>3. count' = Cardinality(Counted')
  BY <1>2 DEF TryFromArcBorrow, ArcInv, CountExact
<1>4. CallsOK'
  BY ArcDistinct DEF TryFromArcBorrow, TryNewListArc, Empty, ArcInv, ArcTypeOK, CallsOK, UniqueAlone
<1>5. CountExact'
  BY <1>3, ArcDistinct
     DEF TryFromArcBorrow, TryNewListArc, Empty, ArcInv, ArcTypeOK, CountExact, CallsOK, UniqueAlone
<1>6. NothingLeaked'
  BY ArcDistinct
     DEF TryFromArcBorrow, TryNewListArc, Empty, ArcInv, ArcTypeOK, NothingLeaked, CallsOK,
         UniqueAlone
<1>7. OneListArc'
  BY ArcDistinct
     DEF TryFromArcBorrow, TryNewListArc, Empty, ArcInv, ArcTypeOK, OneListArc, TrackerExact,
         ListArcs, CallsOK, UniqueAlone
<1>8. TrackerExact'
  BY ArcDistinct
     DEF TryFromArcBorrow, TryNewListArc, Empty, ArcInv, ArcTypeOK, OneListArc, TrackerExact,
         ListArcs, CallsOK, UniqueAlone
<1>9. UniqueAlone'
  BY ArcDistinct DEF TryFromArcBorrow, TryNewListArc, Empty, ArcInv, ArcTypeOK, CallsOK, UniqueAlone
<1> QED
  BY <1>1, <1>4, <1>5, <1>6, <1>7, <1>8, <1>9 DEF ArcInv

\* BorrowClone preserves the invariant.
LEMMA BorrowCloneStep ==
    ASSUME ArcInv, NEW s \in Slots, BorrowClone(s)
    PROVE  ArcInv'
<1>1. ArcTypeOK'
  BY ArcDistinct DEF BorrowClone, ArcInv, ArcTypeOK, CallsOK
<1>2. Counted' = Counted \cup {s} /\ s \notin Counted
  BY ArcDistinct DEF BorrowClone, Counted, ArcInv, ArcTypeOK, CallsOK
<1>3. count' = Cardinality(Counted')
  BY <1>2, CountUp DEF BorrowClone, ArcInv, CountExact
<1>4. CallsOK'
  BY ArcDistinct DEF BorrowClone, ArcInv, ArcTypeOK, CallsOK, UniqueAlone, Empty
<1>5. CountExact'
  BY <1>3, ArcDistinct DEF BorrowClone, ArcInv, ArcTypeOK, CountExact, CallsOK, UniqueAlone, Empty
<1>6. NothingLeaked'
  BY ArcDistinct DEF BorrowClone, ArcInv, ArcTypeOK, NothingLeaked, CallsOK, UniqueAlone, Empty
<1>7. OneListArc'
  BY ArcDistinct
     DEF BorrowClone, ArcInv, ArcTypeOK, OneListArc, TrackerExact, ListArcs, CallsOK, UniqueAlone,
         Empty
<1>8. TrackerExact'
  BY ArcDistinct
     DEF BorrowClone, ArcInv, ArcTypeOK, OneListArc, TrackerExact, ListArcs, CallsOK, UniqueAlone,
         Empty
<1>9. UniqueAlone'
  BY ArcDistinct DEF BorrowClone, ArcInv, ArcTypeOK, CallsOK, UniqueAlone, Empty
<1> QED
  BY <1>1, <1>4, <1>5, <1>6, <1>7, <1>8, <1>9 DEF ArcInv

\* TryFromArcOrDrop preserves the invariant.
LEMMA TryFromArcOrDropStep ==
    ASSUME ArcInv, NEW s \in Slots, NEW id \in IDs, TryFromArcOrDrop(s, id)
    PROVE  ArcInv'
<1>1. ArcTypeOK'
  BY ArcDistinct DEF TryFromArcOrDrop, Owns, ArcInv, ArcTypeOK, CallsOK
<1>2. Counted' = Counted
  BY ArcDistinct DEF TryFromArcOrDrop, Owns, Counted, ArcInv, ArcTypeOK
<1>3. count' = Cardinality(Counted')
  BY <1>2 DEF TryFromArcOrDrop, ArcInv, CountExact
<1>4. CallsOK'
  BY ArcDistinct DEF TryFromArcOrDrop, Owns, ArcInv, ArcTypeOK, CallsOK, UniqueAlone, Empty
<1>5. CountExact'
  BY <1>3, ArcDistinct
     DEF TryFromArcOrDrop, Owns, ArcInv, ArcTypeOK, CountExact, CallsOK, UniqueAlone, Empty
<1>6. NothingLeaked'
  BY ArcDistinct DEF TryFromArcOrDrop, Owns, ArcInv, ArcTypeOK, NothingLeaked, CallsOK, UniqueAlone, Empty
<1>7. OneListArc'
  BY ArcDistinct
     DEF TryFromArcOrDrop, Owns, ArcInv, ArcTypeOK, OneListArc, TrackerExact, ListArcs, CallsOK,
         UniqueAlone, Empty
<1>8. TrackerExact'
  BY ArcDistinct
     DEF TryFromArcOrDrop, Owns, ArcInv, ArcTypeOK, OneListArc, TrackerExact, ListArcs, CallsOK,
         UniqueAlone, Empty
<1>9. UniqueAlone'
  BY ArcDistinct DEF TryFromArcOrDrop, Owns, ArcInv, ArcTypeOK, CallsOK, UniqueAlone, Empty
<1> QED
  BY <1>1, <1>4, <1>5, <1>6, <1>7, <1>8, <1>9 DEF ArcInv

\* IntoUniqueOrDrop preserves the invariant.
LEMMA IntoUniqueOrDropStep ==
    ASSUME ArcInv, NEW s \in Slots, IntoUniqueOrDrop(s)
    PROVE  ArcInv'
<1>1. ArcTypeOK'
  BY ArcDistinct DEF IntoUniqueOrDrop, Owns, ArcInv, ArcTypeOK, CallsOK
<1>2. Counted' = Counted
  BY ArcDistinct DEF IntoUniqueOrDrop, Owns, Counted, ArcInv, ArcTypeOK
<1>3. count' = Cardinality(Counted')
  BY <1>2 DEF IntoUniqueOrDrop, ArcInv, CountExact
<1>4. CallsOK'
  BY ArcDistinct DEF IntoUniqueOrDrop, Owns, ArcInv, ArcTypeOK, CallsOK, UniqueAlone, Empty
<1>5. CountExact'
  BY <1>3, ArcDistinct
     DEF IntoUniqueOrDrop, Owns, ArcInv, ArcTypeOK, CountExact, CallsOK, UniqueAlone, Empty
<1>6. NothingLeaked'
  BY ArcDistinct DEF IntoUniqueOrDrop, Owns, ArcInv, ArcTypeOK, NothingLeaked, CallsOK, UniqueAlone, Empty
<1>7. OneListArc'
  BY ArcDistinct
     DEF IntoUniqueOrDrop, Owns, ArcInv, ArcTypeOK, OneListArc, TrackerExact, ListArcs, CallsOK,
         UniqueAlone, Empty
<1>8. TrackerExact'
  BY ArcDistinct
     DEF IntoUniqueOrDrop, Owns, ArcInv, ArcTypeOK, OneListArc, TrackerExact, ListArcs, CallsOK,
         UniqueAlone, Empty
<1>9. UniqueAlone'
  BY ArcDistinct DEF IntoUniqueOrDrop, Owns, ArcInv, ArcTypeOK, CallsOK, UniqueAlone, Empty
<1> QED
  BY <1>1, <1>4, <1>5, <1>6, <1>7, <1>8, <1>9 DEF ArcInv

\* DecUnique preserves the invariant.
LEMMA DecUniqueStep ==
    ASSUME ArcInv, NEW s \in Slots, DecUnique(s)
    PROVE  ArcInv'
<1>1. Counted' = Counted \ {s} /\ s \in Counted
  BY ArcDistinct DEF DecUnique, Counted, ArcInv, ArcTypeOK
<1>2. count' = Cardinality(Counted') /\ count' \in Nat
  BY <1>1, CountDown DEF DecUnique, ArcInv, CountExact
<1>3. count' = 0 <=> Counted = {s}
  BY <1>1, LastOne DEF DecUnique, ArcInv, CountExact
<1>4. ArcTypeOK'
  BY <1>2, ArcDistinct DEF DecUnique, ArcInv, ArcTypeOK
<1>5. CallsOK'
  BY ArcDistinct, <1>3 DEF DecUnique, ArcInv, ArcTypeOK, CallsOK, UniqueAlone, Empty, Counted
<1>6. CountExact'
  BY <1>2, ArcDistinct, <1>3 DEF DecUnique, ArcInv, ArcTypeOK, CountExact, CallsOK, UniqueAlone, Empty
<1>7. NothingLeaked'
  BY ArcDistinct, <1>1, <1>3
     DEF DecUnique, ArcInv, ArcTypeOK, NothingLeaked, CallsOK, UniqueAlone, Empty, Counted
<1>8. OneListArc'
  BY ArcDistinct
     DEF DecUnique, ArcInv, ArcTypeOK, OneListArc, TrackerExact, ListArcs, CallsOK, UniqueAlone,
         Empty
<1>9. TrackerExact'
  BY ArcDistinct
     DEF DecUnique, ArcInv, ArcTypeOK, OneListArc, TrackerExact, ListArcs, CallsOK, UniqueAlone,
         Empty
<1>10. UniqueAlone'
  BY ArcDistinct, <1>3 DEF DecUnique, ArcInv, ArcTypeOK, CallsOK, UniqueAlone, Empty, Counted
<1> QED
  BY <1>4, <1>5, <1>6, <1>7, <1>8, <1>9, <1>10 DEF ArcInv

\* ResetCount preserves the invariant.
LEMMA ResetCountStep ==
    ASSUME ArcInv, NEW s \in Slots, ResetCount(s)
    PROVE  ArcInv'
<1>1. ArcTypeOK'
  BY ArcDistinct DEF ResetCount, ArcInv, ArcTypeOK, CallsOK
<1>2. Counted = {}
  BY ArcDistinct DEF ResetCount, Counted, ArcInv, ArcTypeOK, UniqueAlone, Empty
<1>3. count = 0
  BY <1>2, FS_EmptySet DEF ArcInv, CountExact
<1>4. Counted' = Counted \cup {s} /\ s \notin Counted
  BY <1>2, ArcDistinct DEF ResetCount, Counted, ArcInv, ArcTypeOK, UniqueAlone, Empty
<1>5. count' = Cardinality(Counted')
  BY <1>4, <1>3, CountUp DEF ResetCount, ArcInv, CountExact
<1>6. CallsOK'
  BY ArcDistinct DEF ResetCount, ArcInv, ArcTypeOK, CallsOK, UniqueAlone, Empty
<1>7. CountExact'
  BY <1>5, ArcDistinct DEF ResetCount, ArcInv, ArcTypeOK, CountExact, CallsOK, UniqueAlone, Empty
<1>8. NothingLeaked'
  BY ArcDistinct DEF ResetCount, ArcInv, ArcTypeOK, NothingLeaked, CallsOK, UniqueAlone, Empty
<1>9. OneListArc'
  BY ArcDistinct
     DEF ResetCount, ArcInv, ArcTypeOK, OneListArc, TrackerExact, ListArcs, CallsOK, UniqueAlone,
         Empty
<1>10. TrackerExact'
  BY ArcDistinct
     DEF ResetCount, ArcInv, ArcTypeOK, OneListArc, TrackerExact, ListArcs, CallsOK, UniqueAlone,
         Empty
<1>11. UniqueAlone'
  BY ArcDistinct DEF ResetCount, ArcInv, ArcTypeOK, CallsOK, UniqueAlone, Empty
<1> QED
  BY <1>1, <1>6, <1>7, <1>8, <1>9, <1>10, <1>11 DEF ArcInv

\* IntoArc preserves the invariant.
LEMMA IntoArcStep ==
    ASSUME ArcInv, NEW s \in Slots, IntoArc(s)
    PROVE  ArcInv'
<1>1. ArcTypeOK'
  BY ArcDistinct DEF IntoArc, Owns, OnDrop, ArcInv, ArcTypeOK, CallsOK
<1>2. Counted' = Counted
  BY ArcDistinct DEF IntoArc, Owns, OnDrop, Counted, ArcInv, ArcTypeOK
<1>3. count' = Cardinality(Counted')
  BY <1>2 DEF IntoArc, ArcInv, CountExact
<1>4. CallsOK'
  BY ArcDistinct DEF IntoArc, Owns, OnDrop, ArcInv, ArcTypeOK, CallsOK, UniqueAlone, Empty
<1>5. CountExact'
  BY <1>3, ArcDistinct DEF IntoArc, Owns, OnDrop, ArcInv, ArcTypeOK, CountExact, CallsOK, UniqueAlone, Empty
<1>6. NothingLeaked'
  BY ArcDistinct DEF IntoArc, Owns, OnDrop, ArcInv, ArcTypeOK, NothingLeaked, CallsOK, UniqueAlone, Empty
<1>7. OneListArc'
  BY ArcDistinct
     DEF IntoArc, Owns, OnDrop, ArcInv, ArcTypeOK, OneListArc, TrackerExact, ListArcs, CallsOK,
         UniqueAlone, Empty
<1>8. TrackerExact'
  BY ArcDistinct
     DEF IntoArc, Owns, OnDrop, ArcInv, ArcTypeOK, OneListArc, TrackerExact, ListArcs, CallsOK,
         UniqueAlone, Empty
<1>9. UniqueAlone'
  BY ArcDistinct DEF IntoArc, Owns, OnDrop, ArcInv, ArcTypeOK, CallsOK, UniqueAlone, Empty
<1> QED
  BY <1>1, <1>4, <1>5, <1>6, <1>7, <1>8, <1>9 DEF ArcInv

\* DropListArc preserves the invariant.
LEMMA DropListArcStep ==
    ASSUME ArcInv, NEW s \in Slots, DropListArc(s)
    PROVE  ArcInv'
<1>1. ArcTypeOK'
  BY ArcDistinct DEF DropListArc, Owns, OnDrop, ArcInv, ArcTypeOK, CallsOK
<1>2. Counted' = Counted
  BY ArcDistinct DEF DropListArc, Owns, OnDrop, Counted, ArcInv, ArcTypeOK
<1>3. count' = Cardinality(Counted')
  BY <1>2 DEF DropListArc, ArcInv, CountExact
<1>4. CallsOK'
  BY ArcDistinct DEF DropListArc, Owns, OnDrop, ArcInv, ArcTypeOK, CallsOK, UniqueAlone, Empty
<1>5. CountExact'
  BY <1>3, ArcDistinct
     DEF DropListArc, Owns, OnDrop, ArcInv, ArcTypeOK, CountExact, CallsOK, UniqueAlone, Empty
<1>6. NothingLeaked'
  BY ArcDistinct
     DEF DropListArc, Owns, OnDrop, ArcInv, ArcTypeOK, NothingLeaked, CallsOK, UniqueAlone, Empty
<1>7. OneListArc'
  BY ArcDistinct
     DEF DropListArc, Owns, OnDrop, ArcInv, ArcTypeOK, OneListArc, TrackerExact, ListArcs, CallsOK,
         UniqueAlone, Empty
<1>8. TrackerExact'
  BY ArcDistinct
     DEF DropListArc, Owns, OnDrop, ArcInv, ArcTypeOK, OneListArc, TrackerExact, ListArcs, CallsOK,
         UniqueAlone, Empty
<1>9. UniqueAlone'
  BY ArcDistinct DEF DropListArc, Owns, OnDrop, ArcInv, ArcTypeOK, CallsOK, UniqueAlone, Empty
<1> QED
  BY <1>1, <1>4, <1>5, <1>6, <1>7, <1>8, <1>9 DEF ArcInv

\* DropArc preserves the invariant.
LEMMA DropArcStep ==
    ASSUME ArcInv, NEW s \in Slots, DropArc(s)
    PROVE  ArcInv'
<1>1. Counted' = Counted \ {s} /\ s \in Counted
  BY ArcDistinct DEF DropArc, Owns, Counted, ArcInv, ArcTypeOK
<1>2. count' = Cardinality(Counted') /\ count' \in Nat
  BY <1>1, CountDown DEF DropArc, ArcInv, CountExact
<1>3. count' = 0 <=> Counted = {s}
  BY <1>1, LastOne DEF DropArc, ArcInv, CountExact
<1>4. ArcTypeOK'
  BY <1>2, ArcDistinct DEF DropArc, Owns, ArcInv, ArcTypeOK
<1>5. CallsOK'
  BY ArcDistinct, <1>3 DEF DropArc, Owns, ArcInv, ArcTypeOK, CallsOK, UniqueAlone, Empty, Counted
<1>6. CountExact'
  BY <1>2, ArcDistinct, <1>3 DEF DropArc, Owns, ArcInv, ArcTypeOK, CountExact, CallsOK, UniqueAlone, Empty
<1>7. NothingLeaked'
  BY ArcDistinct, <1>1, <1>3
     DEF DropArc, Owns, ArcInv, ArcTypeOK, NothingLeaked, CallsOK, UniqueAlone, Empty, Counted
<1>8. OneListArc'
  BY ArcDistinct
     DEF DropArc, Owns, ArcInv, ArcTypeOK, OneListArc, TrackerExact, ListArcs, CallsOK,
         UniqueAlone, Empty
<1>9. TrackerExact'
  BY ArcDistinct
     DEF DropArc, Owns, ArcInv, ArcTypeOK, OneListArc, TrackerExact, ListArcs, CallsOK,
         UniqueAlone, Empty
<1>10. UniqueAlone'
  BY ArcDistinct, <1>3 DEF DropArc, Owns, ArcInv, ArcTypeOK, CallsOK, UniqueAlone, Empty, Counted
<1> QED
  BY <1>4, <1>5, <1>6, <1>7, <1>8, <1>9, <1>10 DEF ArcInv

\* FreeValue preserves the invariant.
LEMMA FreeStep ==
    ASSUME ArcInv, NEW s \in Slots, FreeValue(s)
    PROVE  ArcInv'
<1>1. ArcTypeOK'
  BY ArcDistinct DEF FreeValue, ArcInv, ArcTypeOK, CallsOK
<1>2. Counted' = Counted
  BY ArcDistinct DEF FreeValue, Counted, ArcInv, ArcTypeOK
<1>3. count' = Cardinality(Counted')
  BY <1>2 DEF FreeValue, ArcInv, CountExact
<1>4. CallsOK'
  BY ArcDistinct DEF FreeValue, ArcInv, ArcTypeOK, CallsOK, UniqueAlone, Empty
<1>5. CountExact'
  BY <1>3, ArcDistinct DEF FreeValue, ArcInv, ArcTypeOK, CountExact, CallsOK, UniqueAlone, Empty
<1>6. NothingLeaked'
  BY ArcDistinct DEF FreeValue, ArcInv, ArcTypeOK, NothingLeaked, CallsOK, UniqueAlone, Empty
<1>7. OneListArc'
  BY ArcDistinct
     DEF FreeValue, ArcInv, ArcTypeOK, OneListArc, TrackerExact, ListArcs, CallsOK, UniqueAlone, Empty
<1>8. TrackerExact'
  BY ArcDistinct
     DEF FreeValue, ArcInv, ArcTypeOK, OneListArc, TrackerExact, ListArcs, CallsOK, UniqueAlone, Empty
<1>9. UniqueAlone'
  BY ArcDistinct DEF FreeValue, ArcInv, ArcTypeOK, CallsOK, UniqueAlone, Empty
<1> QED
  BY <1>1, <1>4, <1>5, <1>6, <1>7, <1>8, <1>9 DEF ArcInv

\* Steps that change nothing.
LEMMA StutterStep == ArcInv /\ UNCHANGED arcVars => ArcInv'
BY DEF arcVars, ArcInv, ArcTypeOK, CallsOK, CountExact, Counted, NothingLeaked, OneListArc, TrackerExact,
   ListArcs, UniqueAlone, Empty

\* Every step of every reference preserves the invariant.
LEMMA NextStep == ArcInv /\ [ArcNext]_arcVars => ArcInv'
<1> SUFFICES ASSUME ArcInv, ArcNext PROVE ArcInv'
  BY StutterStep
<1> PICK s \in Slots : SlotStep(s)
  BY DEF ArcNext
<1> QED
  BY NewStep, IntoSharedStep, FromUniqueStep, PairFromUniqueStep, CloneStep,
     TryFromArcStep, TryFromArcBorrowStep, BorrowCloneStep, TryFromArcOrDropStep, IntoUniqueOrDropStep,
     DecUniqueStep, ResetCountStep, IntoArcStep, DropListArcStep, DropArcStep, FreeStep
     DEF SlotStep

\* The references of a value keep their invariant, for any number of them.
THEOREM RefInvariant == ArcSpec => []ArcInv
<1>1. ArcInit => ArcInv
  BY ArcInitHolds
<1>2. ArcInv /\ [ArcNext]_arcVars => ArcInv'
  BY NextStep
<1> QED
  BY <1>1, <1>2, PTL DEF ArcSpec

\* A value never has two ListArcs with the same ID, whether the ID is tracked or not.
THEOREM ListArcIsUnique == ArcSpec => []OneListArc
BY RefInvariant, PTL DEF ArcInv

\* The flag of an AtomicTracker is true exactly while there is a ListArc.
THEOREM TrackerIsExact == ArcSpec => []TrackerExact
BY RefInvariant, PTL DEF ArcInv

\* The refcount is the number of references, and a value with one is not freed.
THEOREM CountIsExact == ArcSpec => []CountExact
BY RefInvariant, PTL DEF ArcInv

\* into_unique_or_drop and try_from_arc_or_drop never lose the last reference.
THEOREM LastIsKept == ArcSpec => []NothingLeaked
BY RefInvariant, PTL DEF ArcInv

\* A UniqueArc shares its value with nobody.
THEOREM UniqueIsAlone == ArcSpec => []UniqueAlone
BY RefInvariant, PTL DEF ArcInv

\* References are counted and the last one is never lost.
THEOREM CountsAreSound == ArcSpec => []CountInv
BY CountIsExact, LastIsKept, PTL DEF CountInv

\* ListArcs are unique per ID and tracked.
THEOREM TrackersAreSound == ArcSpec => []TrackerInv
BY ListArcIsUnique, TrackerIsExact, PTL DEF TrackerInv

-----------------------------------------------------------------------------
(* Condition variables, poll tables and locks: Sync.tla.                   *)

\* The list of the wait queue is an order of the tasks on it.
QueueInv ==
    \A c \in Consumers :
        /\ ahead[c] \subseteq queue
        /\ c \notin ahead[c]
        /\ \A d \in ahead[c] : ahead[d] \subseteq ahead[c]

\* Who is on the queue is inside wait_internal, and who sleeps there, or is
\* about to, is on the queue.
SleepInv ==
    \A c \in Consumers :
        /\ c \in queue => pc[c] \in {"prepared", "sched", "relock", "finish"}
        /\ pc[c] \in {"prepared", "sched"} /\ task[c] = "wait" => c \in queue

\* Between prepare_to_wait and the unlock there is no token, and a producer that
\* has the lock finds room for its own.
PreparedInv ==
    /\ \A c \in Consumers : At(c, "prepared") => tokens = 0
    /\ \A p \in Producers : At(p, "crit") => tokens < MaxTokens

\* Consumers that a notification has woken, or that have yet to queue: on their
\* way to look at the tokens and off the queue.
Fetching == Awake \ queue

\* While a thread sleeps, each token has a thread that fetches it or a producer
\* that has yet to notify.  A thread that times out is awake but stays on the
\* queue, where the next notification may be spent on it: it does not count.
TokenInv ==
    \A c \in Consumers :
        At(c, "sched") /\ task[c] = "wait" /\ c \notin sig =>
            tokens <= Cardinality(Fetching) + Cardinality(Notifying)

\* An item that epoll registered is on the wait queue of a live condition
\* variable, until pollfree has taken it off.
PollInv ==
    /\ \A e \in EpollItems : item[e] \in {"registered", "watch", "recheck"} =>
            cv = "alive" /\ e \in polled
    /\ PollHeadAlive

\* A Guard is of a lock that its thread holds, a reference to the data of a
\* LockedBy borrows a Guard of the lock it was made with, one to the data of a
\* GlobalLockedBy a Guard of the static lock, and a &mut is the one borrow of
\* its Guard.
BorrowInv ==
    /\ \A t \in Holders : \A a \in guards[t] : holder[a] = t
    /\ \A r \in refs :
        /\ r.via \in guards[r.of]
        /\ r.via = IF r.data = "LockedBy" THEN boundTo ELSE Global
    /\ \A r, s \in refs : r.of = s.of /\ r.via = s.via /\ r.mut => s = r

\* The strengthened invariant, for the waiters, the pollers and the locks.
WaitInv == WaitTypeOK /\ QueueInv /\ SleepInv /\ GuardOwns /\ PreparedInv /\ TokenInv
PollerInv == PollTypeOK /\ PollInv /\ PollNotMissed
LocksInv == LocksTypeOK /\ BorrowInv
SInv == WaitInv /\ PollerInv /\ LocksInv

-----------------------------------------------------------------------------
(* Counting threads.                                                       *)

\* A set of threads of one kind can be counted.
LEMMA ThreadSets ==
    /\ \A S \in SUBSET Consumers : IsFiniteSet(S) /\ Cardinality(S) \in Nat
    /\ \A S \in SUBSET Producers : IsFiniteSet(S) /\ Cardinality(S) \in Nat
  BY ThreadsAssumption, FS_Subset, FS_CardinalityType

\* The two counts of TokenInv, before a step and after it.
LEMMA CountTypes ==
    /\ Fetching \in SUBSET Consumers /\ Notifying \in SUBSET Producers
    /\ Fetching' \in SUBSET Consumers /\ Notifying' \in SUBSET Producers
  BY DEF Fetching, Awake, Notifying

\* A thread that sleeps in schedule_timeout and has no signal pending.
Asleep(c) == At(c, "sched") /\ task[c] = "wait" /\ c \notin sig

\* A step that adds no token, puts nobody to sleep and takes nobody away from
\* the tokens loses no wakeup.
LEMMA NothingLost ==
    ASSUME TokenInv, tokens \in Nat, tokens' \in Nat, tokens' <= tokens,
           Fetching \subseteq Fetching', Notifying \subseteq Notifying',
           \A c \in Consumers : Asleep(c)' => Asleep(c)
    PROVE  TokenInv'
<1> SUFFICES ASSUME NEW c \in Consumers, Asleep(c)'
             PROVE  tokens' <= Cardinality(Fetching') + Cardinality(Notifying')
  BY DEF TokenInv, Asleep
<1>1. tokens <= Cardinality(Fetching) + Cardinality(Notifying)
  BY DEF TokenInv, Asleep
<1>2. Cardinality(Fetching) <= Cardinality(Fetching')
  BY CountTypes, ThreadSets, FS_Subset
<1>3. Cardinality(Notifying) <= Cardinality(Notifying')
  BY CountTypes, ThreadSets, FS_Subset
<1>4. QED
  BY <1>1, <1>2, <1>3, CountTypes, ThreadSets

\* Without a token there is nothing to lose.
LEMMA NoToken ==
    ASSUME tokens' = 0
    PROVE  TokenInv'
<1>1. Cardinality(Fetching') \in Nat /\ Cardinality(Notifying') \in Nat
  BY CountTypes, ThreadSets
<1>2. QED
  BY <1>1 DEF TokenInv

-----------------------------------------------------------------------------
(* The order of the wait queue.                                            *)

\* When some queued tasks sleep, one of them is the first.
LEMMA FirstExists ==
    ASSUME WaitTypeOK, QueueInv, Sleeping # {}
    PROVE  FirstSleeping # {}
<1> DEFINE Pos(c) == Cardinality(ahead[c])
<1>1. Sleeping \in SUBSET Consumers
  BY DEF WaitTypeOK, Sleeping
<1>2. \A c \in Consumers : ahead[c] \in SUBSET Consumers
  BY DEF WaitTypeOK
<1>3. \A c \in Consumers : IsFiniteSet(ahead[c]) /\ Pos(c) \in Nat
  BY <1>2, ThreadSets
<1>4. PICK n \in {Pos(c) : c \in Sleeping} : \A m \in {Pos(c) : c \in Sleeping} : n <= m
  <2>1. {Pos(c) : c \in Sleeping} \in SUBSET Nat /\ {Pos(c) : c \in Sleeping} # {}
    BY <1>1, <1>3
  <2> HIDE DEF Pos
  <2>2. QED
    BY <2>1, LeastNat
<1>5. PICK c \in Sleeping : \A d \in Sleeping : Pos(c) <= Pos(d)
  <2> HIDE DEF Pos
  <2>1. QED
    BY <1>4
<1>6. ASSUME NEW d \in Sleeping, d \in ahead[c] PROVE FALSE
  <2>1. ahead[d] \subseteq ahead[c] /\ ahead[d] # ahead[c]
    BY <1>1, <1>6 DEF QueueInv
  <2>2. Pos(d) < Pos(c)
    BY <1>1, <1>3, <2>1, FS_Subset
  <2> HIDE DEF Pos
  <2>3. QED
    BY <1>1, <1>3, <1>5, <2>2
<1>7. QED
  BY <1>6 DEF FirstSleeping

\* Tasks are taken off the queue and the order of the others stays.
LEMMA DequeueKeepsOrder ==
    ASSUME WaitTypeOK, QueueInv, NEW gone, Dequeue(gone)
    PROVE  /\ QueueInv'
           /\ queue' \subseteq Consumers
           /\ ahead' \in [Consumers -> SUBSET Consumers]
  BY DEF WaitTypeOK, QueueInv, Dequeue

-----------------------------------------------------------------------------
(* One lemma per step of a waiter or a producer.                           *)

\* A consumer takes the mutex.
LEMMA LockStep ==
    ASSUME WaitInv, NEW c \in Consumers, Lock(c)
    PROVE  WaitInv'
<1>1. WaitTypeOK'
  BY TokensAssumption, ThreadsAssumption DEF WaitInv, WaitTypeOK, Lock, At, Goto, Threads
<1>2. QueueInv'
  BY DEF WaitInv, WaitTypeOK, QueueInv, Lock
<1>3. SleepInv'
  BY ThreadsAssumption DEF WaitInv, WaitTypeOK, SleepInv, Lock, At, Goto, Threads
<1>4. GuardOwns'
  BY ThreadsAssumption DEF WaitInv, WaitTypeOK, GuardOwns, HoldsGuard, Lock, At, Goto, Threads
<1>5. PreparedInv'
  BY ThreadsAssumption DEF WaitInv, WaitTypeOK, PreparedInv, GuardOwns, HoldsGuard, Lock, At, Goto, Threads
<1>6. TokenInv'
  <2>1. Fetching \subseteq Fetching' /\ Notifying \subseteq Notifying'
    BY ThreadsAssumption DEF WaitInv, WaitTypeOK, SleepInv, Fetching, Awake, Notifying, Lock, At, Goto, Threads
  <2>2. \A d \in Consumers : Asleep(d)' => Asleep(d)
    BY ThreadsAssumption DEF WaitInv, WaitTypeOK, Asleep, Lock, At, Goto, Threads
  <2>3. tokens \in Nat /\ tokens' = tokens
    BY TokensAssumption DEF WaitInv, WaitTypeOK, Lock
  <2>4. QED
    BY <2>1, <2>2, <2>3, NothingLost DEF WaitInv
<1>7. QED
  BY <1>1, <1>2, <1>3, <1>4, <1>5, <1>6 DEF WaitInv

\* It finds a token: one less, and one thread less that fetches one.
LEMMA TakeStep ==
    ASSUME WaitInv, NEW c \in Consumers, Take(c)
    PROVE  WaitInv'
<1>1. WaitTypeOK'
  BY TokensAssumption, ThreadsAssumption DEF WaitInv, WaitTypeOK, Take, At, Goto, Threads
<1>2. QueueInv'
  BY DEF WaitInv, WaitTypeOK, QueueInv, Take
<1>3. SleepInv'
  BY ThreadsAssumption DEF WaitInv, WaitTypeOK, SleepInv, Take, At, Goto, Threads
<1>4. GuardOwns'
  BY ThreadsAssumption DEF WaitInv, WaitTypeOK, GuardOwns, HoldsGuard, Take, At, Goto, Threads
<1>5. PreparedInv'
  BY ThreadsAssumption, TokensAssumption DEF WaitInv, WaitTypeOK, PreparedInv, GuardOwns, HoldsGuard, Take, At, Goto, Threads
<1>6. TokenInv'
  <2>1. Fetching' = Fetching \ {c} /\ c \in Fetching /\ Notifying' = Notifying
    BY ThreadsAssumption DEF WaitInv, WaitTypeOK, SleepInv, Fetching, Awake, Notifying, Take, At, Goto, Threads
  <2>2. \A d \in Consumers : Asleep(d)' => Asleep(d)
    BY ThreadsAssumption DEF WaitInv, WaitTypeOK, Asleep, Take, At, Goto, Threads
  <2>3. tokens \in Nat /\ tokens' = tokens - 1
    BY TokensAssumption DEF WaitInv, WaitTypeOK, Take
  <2>4. Cardinality(Fetching') = Cardinality(Fetching) - 1
    BY <2>1, CountTypes, ThreadSets, FS_RemoveElement
  <2>5. QED
    BY <2>1, <2>2, <2>3, <2>4, CountTypes, ThreadSets DEF WaitInv, TokenInv, Asleep
<1>7. QED
  BY <1>1, <1>2, <1>3, <1>4, <1>5, <1>6 DEF WaitInv

\* It leaves after a timeout or a signal: there is no token.
LEMMA GiveUpStep ==
    ASSUME WaitInv, NEW c \in Consumers, GiveUp(c)
    PROVE  WaitInv'
<1>1. WaitTypeOK'
  BY TokensAssumption, ThreadsAssumption DEF WaitInv, WaitTypeOK, GiveUp, At, Goto, Threads
<1>2. QueueInv'
  BY DEF WaitInv, WaitTypeOK, QueueInv, GiveUp
<1>3. SleepInv'
  BY ThreadsAssumption DEF WaitInv, WaitTypeOK, SleepInv, GiveUp, At, Goto, Threads
<1>4. GuardOwns'
  BY ThreadsAssumption DEF WaitInv, WaitTypeOK, GuardOwns, HoldsGuard, GiveUp, At, Goto, Threads
<1>5. PreparedInv'
  BY ThreadsAssumption DEF WaitInv, WaitTypeOK, PreparedInv, GuardOwns, HoldsGuard, GiveUp, At, Goto, Threads
<1>6. TokenInv'
  BY NoToken DEF WaitInv, PreparedInv, GiveUp, At
<1>7. QED
  BY <1>1, <1>2, <1>3, <1>4, <1>5, <1>6 DEF WaitInv

\* It puts itself on the queue, with the lock: there is no token.
LEMMA PrepareStep ==
    ASSUME WaitInv, NEW c \in Consumers, PrepareToWait(c)
    PROVE  WaitInv'
<1>1. WaitTypeOK'
  BY TokensAssumption, ThreadsAssumption DEF WaitInv, WaitTypeOK, PrepareToWait, At, Goto, Threads, Enqueue
<1>2. QueueInv'
  <2>1. c \notin queue
    BY DEF WaitInv, SleepInv, PrepareToWait, At
  <2>2. \A d \in Consumers : ahead'[d] = IF d = c THEN queue ELSE ahead[d]
    BY DEF WaitInv, WaitTypeOK, PrepareToWait, Enqueue
  <2>3. queue' = queue \cup {c} /\ queue \subseteq Consumers
    BY DEF WaitInv, WaitTypeOK, PrepareToWait, Enqueue
  <2>4. QED
    BY <2>1, <2>2, <2>3 DEF WaitInv, QueueInv
<1>3. SleepInv'
  BY ThreadsAssumption DEF WaitInv, WaitTypeOK, SleepInv, PrepareToWait, At, Goto, Threads, Enqueue
<1>4. GuardOwns'
  BY ThreadsAssumption DEF WaitInv, WaitTypeOK, GuardOwns, HoldsGuard, PrepareToWait, At, Goto, Threads, Enqueue
<1>5. PreparedInv'
  BY ThreadsAssumption DEF WaitInv, WaitTypeOK, PreparedInv, GuardOwns, HoldsGuard, PrepareToWait, At, Goto, Threads, Enqueue
<1>6. TokenInv'
  BY NoToken DEF WaitInv, PreparedInv, PrepareToWait, At
<1>7. QED
  BY <1>1, <1>2, <1>3, <1>4, <1>5, <1>6 DEF WaitInv

\* It goes to sleep as it gives the lock up: still no token.
LEMMA UnlockStep ==
    ASSUME WaitInv, NEW c \in Consumers, UnlockForWait(c)
    PROVE  WaitInv'
<1>1. WaitTypeOK'
  BY TokensAssumption, ThreadsAssumption DEF WaitInv, WaitTypeOK, UnlockForWait, At, Goto, Threads
<1>2. QueueInv'
  BY DEF WaitInv, WaitTypeOK, QueueInv, UnlockForWait
<1>3. SleepInv'
  BY ThreadsAssumption DEF WaitInv, WaitTypeOK, SleepInv, UnlockForWait, At, Goto, Threads
<1>4. GuardOwns'
  BY ThreadsAssumption DEF WaitInv, WaitTypeOK, GuardOwns, HoldsGuard, UnlockForWait, At, Goto, Threads
<1>5. PreparedInv'
  BY ThreadsAssumption DEF WaitInv, WaitTypeOK, PreparedInv, GuardOwns, HoldsGuard, UnlockForWait, At, Goto, Threads
<1>6. TokenInv'
  BY NoToken DEF WaitInv, PreparedInv, UnlockForWait, At
<1>7. QED
  BY <1>1, <1>2, <1>3, <1>4, <1>5, <1>6 DEF WaitInv

\* It was woken, or a signal is pending.
LEMMA ScheduleStep ==
    ASSUME WaitInv, NEW c \in Consumers, ScheduleReturns(c)
    PROVE  WaitInv'
<1>1. WaitTypeOK'
  BY TokensAssumption, ThreadsAssumption DEF WaitInv, WaitTypeOK, ScheduleReturns, At, Goto, Threads
<1>2. QueueInv'
  BY DEF WaitInv, WaitTypeOK, QueueInv, ScheduleReturns
<1>3. SleepInv'
  BY ThreadsAssumption DEF WaitInv, WaitTypeOK, SleepInv, ScheduleReturns, At, Goto, Threads
<1>4. GuardOwns'
  BY ThreadsAssumption DEF WaitInv, WaitTypeOK, GuardOwns, HoldsGuard, ScheduleReturns, At, Goto, Threads
<1>5. PreparedInv'
  BY ThreadsAssumption DEF WaitInv, WaitTypeOK, PreparedInv, GuardOwns, HoldsGuard, ScheduleReturns, At, Goto, Threads
<1>6. TokenInv'
  <2>1. Fetching \subseteq Fetching' /\ Notifying \subseteq Notifying'
    BY ThreadsAssumption DEF WaitInv, WaitTypeOK, SleepInv, Fetching, Awake, Notifying, ScheduleReturns, At, Goto, Threads
  <2>2. \A d \in Consumers : Asleep(d)' => Asleep(d)
    BY ThreadsAssumption DEF WaitInv, WaitTypeOK, Asleep, ScheduleReturns, At, Goto, Threads
  <2>3. tokens \in Nat /\ tokens' = tokens
    BY TokensAssumption DEF WaitInv, WaitTypeOK, ScheduleReturns
  <2>4. QED
    BY <2>1, <2>2, <2>3, NothingLost DEF WaitInv
<1>7. QED
  BY <1>1, <1>2, <1>3, <1>4, <1>5, <1>6 DEF WaitInv

\* The timer fires; the task stays on the queue.
LEMMA TimeoutStep ==
    ASSUME WaitInv, NEW c \in Consumers, Timeout(c)
    PROVE  WaitInv'
<1>1. WaitTypeOK'
  BY TokensAssumption, ThreadsAssumption DEF WaitInv, WaitTypeOK, Timeout, At, Goto, Threads
<1>2. QueueInv'
  BY DEF WaitInv, WaitTypeOK, QueueInv, Timeout
<1>3. SleepInv'
  BY ThreadsAssumption DEF WaitInv, WaitTypeOK, SleepInv, Timeout, At, Goto, Threads
<1>4. GuardOwns'
  BY ThreadsAssumption DEF WaitInv, WaitTypeOK, GuardOwns, HoldsGuard, Timeout, At, Goto, Threads
<1>5. PreparedInv'
  BY ThreadsAssumption DEF WaitInv, WaitTypeOK, PreparedInv, GuardOwns, HoldsGuard, Timeout, At, Goto, Threads
<1>6. TokenInv'
  <2>1. Fetching \subseteq Fetching' /\ Notifying \subseteq Notifying'
    BY ThreadsAssumption DEF WaitInv, WaitTypeOK, SleepInv, Fetching, Awake, Notifying, Timeout, At, Goto, Threads
  <2>2. \A d \in Consumers : Asleep(d)' => Asleep(d)
    BY ThreadsAssumption DEF WaitInv, WaitTypeOK, Asleep, Timeout, At, Goto, Threads
  <2>3. tokens \in Nat /\ tokens' = tokens
    BY TokensAssumption DEF WaitInv, WaitTypeOK, Timeout
  <2>4. QED
    BY <2>1, <2>2, <2>3, NothingLost DEF WaitInv
<1>7. QED
  BY <1>1, <1>2, <1>3, <1>4, <1>5, <1>6 DEF WaitInv

\* It sleeps in the mutex, where a notification may find it.
LEMMA RelockSleepStep ==
    ASSUME WaitInv, NEW c \in Consumers, RelockSleep(c)
    PROVE  WaitInv'
<1>1. WaitTypeOK'
  BY TokensAssumption, ThreadsAssumption DEF WaitInv, WaitTypeOK, RelockSleep, At, Goto, Threads
<1>2. QueueInv'
  BY DEF WaitInv, WaitTypeOK, QueueInv, RelockSleep
<1>3. SleepInv'
  BY ThreadsAssumption DEF WaitInv, WaitTypeOK, SleepInv, RelockSleep, At, Goto, Threads
<1>4. GuardOwns'
  BY ThreadsAssumption DEF WaitInv, WaitTypeOK, GuardOwns, HoldsGuard, RelockSleep, At, Goto, Threads
<1>5. PreparedInv'
  BY ThreadsAssumption DEF WaitInv, WaitTypeOK, PreparedInv, GuardOwns, HoldsGuard, RelockSleep, At, Goto, Threads
<1>6. TokenInv'
  <2>1. Fetching \subseteq Fetching' /\ Notifying \subseteq Notifying'
    BY ThreadsAssumption DEF WaitInv, WaitTypeOK, SleepInv, Fetching, Awake, Notifying, RelockSleep, At, Goto, Threads
  <2>2. \A d \in Consumers : Asleep(d)' => Asleep(d)
    BY ThreadsAssumption DEF WaitInv, WaitTypeOK, Asleep, RelockSleep, At, Goto, Threads
  <2>3. tokens \in Nat /\ tokens' = tokens
    BY TokensAssumption DEF WaitInv, WaitTypeOK, RelockSleep
  <2>4. QED
    BY <2>1, <2>2, <2>3, NothingLost DEF WaitInv
<1>7. QED
  BY <1>1, <1>2, <1>3, <1>4, <1>5, <1>6 DEF WaitInv

\* It has the mutex again.
LEMMA RelockStep ==
    ASSUME WaitInv, NEW c \in Consumers, Relock(c)
    PROVE  WaitInv'
<1>1. WaitTypeOK'
  BY TokensAssumption, ThreadsAssumption DEF WaitInv, WaitTypeOK, Relock, At, Goto, Threads
<1>2. QueueInv'
  BY DEF WaitInv, WaitTypeOK, QueueInv, Relock
<1>3. SleepInv'
  BY ThreadsAssumption DEF WaitInv, WaitTypeOK, SleepInv, Relock, At, Goto, Threads
<1>4. GuardOwns'
  BY ThreadsAssumption DEF WaitInv, WaitTypeOK, GuardOwns, HoldsGuard, Relock, At, Goto, Threads
<1>5. PreparedInv'
  BY ThreadsAssumption DEF WaitInv, WaitTypeOK, PreparedInv, GuardOwns, HoldsGuard, Relock, At, Goto, Threads
<1>6. TokenInv'
  <2>1. Fetching \subseteq Fetching' /\ Notifying \subseteq Notifying'
    BY ThreadsAssumption DEF WaitInv, WaitTypeOK, SleepInv, Fetching, Awake, Notifying, Relock, At, Goto, Threads
  <2>2. \A d \in Consumers : Asleep(d)' => Asleep(d)
    BY ThreadsAssumption DEF WaitInv, WaitTypeOK, Asleep, Relock, At, Goto, Threads
  <2>3. tokens \in Nat /\ tokens' = tokens
    BY TokensAssumption DEF WaitInv, WaitTypeOK, Relock
  <2>4. QED
    BY <2>1, <2>2, <2>3, NothingLost DEF WaitInv
<1>7. QED
  BY <1>1, <1>2, <1>3, <1>4, <1>5, <1>6 DEF WaitInv

\* A signal wakes an interruptible sleep.
LEMMA SignalStep ==
    ASSUME WaitInv, NEW c \in Consumers, SendSignal(c)
    PROVE  WaitInv'
<1>1. WaitTypeOK'
  BY TokensAssumption, ThreadsAssumption DEF WaitInv, WaitTypeOK, SendSignal, At, Goto, Threads
<1>2. QueueInv'
  BY DEF WaitInv, WaitTypeOK, QueueInv, SendSignal
<1>3. SleepInv'
  BY ThreadsAssumption DEF WaitInv, WaitTypeOK, SleepInv, SendSignal, At, Goto, Threads
<1>4. GuardOwns'
  BY ThreadsAssumption DEF WaitInv, WaitTypeOK, GuardOwns, HoldsGuard, SendSignal, At, Goto, Threads
<1>5. PreparedInv'
  BY ThreadsAssumption DEF WaitInv, WaitTypeOK, PreparedInv, GuardOwns, HoldsGuard, SendSignal, At, Goto, Threads
<1>6. TokenInv'
  <2>1. Fetching \subseteq Fetching' /\ Notifying \subseteq Notifying'
    BY ThreadsAssumption DEF WaitInv, WaitTypeOK, SleepInv, Fetching, Awake, Notifying, SendSignal, At, Goto, Threads
  <2>2. \A d \in Consumers : Asleep(d)' => Asleep(d)
    BY ThreadsAssumption DEF WaitInv, WaitTypeOK, Asleep, SendSignal, At, Goto, Threads
  <2>3. tokens \in Nat /\ tokens' = tokens
    BY TokensAssumption DEF WaitInv, WaitTypeOK, SendSignal
  <2>4. QED
    BY <2>1, <2>2, <2>3, NothingLost DEF WaitInv
<1>7. QED
  BY <1>1, <1>2, <1>3, <1>4, <1>5, <1>6 DEF WaitInv

\* finish_wait takes it off the queue, if a notification has not.
LEMMA FinishStep ==
    ASSUME WaitInv, NEW c \in Consumers, FinishWait(c)
    PROVE  WaitInv'
<1>1. WaitTypeOK'
  BY TokensAssumption, ThreadsAssumption DEF WaitInv, WaitTypeOK, FinishWait, At, Goto, Threads, Dequeue, Result
<1>2. QueueInv'
  BY DequeueKeepsOrder DEF WaitInv, FinishWait
<1>3. SleepInv'
  BY ThreadsAssumption DEF WaitInv, WaitTypeOK, SleepInv, FinishWait, At, Goto, Threads, Dequeue, Result
<1>4. GuardOwns'
  BY ThreadsAssumption DEF WaitInv, WaitTypeOK, GuardOwns, HoldsGuard, FinishWait, At, Goto, Threads, Dequeue, Result
<1>5. PreparedInv'
  BY ThreadsAssumption DEF WaitInv, WaitTypeOK, PreparedInv, GuardOwns, HoldsGuard, FinishWait, At, Goto, Threads, Dequeue, Result
<1>6. TokenInv'
  <2>1. Fetching \subseteq Fetching' /\ Notifying \subseteq Notifying'
    BY ThreadsAssumption DEF WaitInv, WaitTypeOK, SleepInv, Fetching, Awake, Notifying, FinishWait, At, Goto, Threads, Dequeue
  <2>2. \A d \in Consumers : Asleep(d)' => Asleep(d)
    BY ThreadsAssumption DEF WaitInv, WaitTypeOK, Asleep, FinishWait, At, Goto, Threads, Dequeue
  <2>3. tokens \in Nat /\ tokens' = tokens
    BY TokensAssumption DEF WaitInv, WaitTypeOK, FinishWait
  <2>4. QED
    BY <2>1, <2>2, <2>3, NothingLost DEF WaitInv
<1>7. QED
  BY <1>1, <1>2, <1>3, <1>4, <1>5, <1>6 DEF WaitInv

\* A producer takes the mutex.
LEMMA LockToAddStep ==
    ASSUME WaitInv, NEW p \in Producers, LockToAdd(p)
    PROVE  WaitInv'
<1>1. WaitTypeOK'
  BY TokensAssumption, ThreadsAssumption DEF WaitInv, WaitTypeOK, LockToAdd, At, Goto, Threads
<1>2. QueueInv'
  BY DEF WaitInv, WaitTypeOK, QueueInv, LockToAdd
<1>3. SleepInv'
  BY ThreadsAssumption DEF WaitInv, WaitTypeOK, SleepInv, LockToAdd, At, Goto, Threads
<1>4. GuardOwns'
  BY ThreadsAssumption DEF WaitInv, WaitTypeOK, GuardOwns, HoldsGuard, LockToAdd, At, Goto, Threads
<1>5. PreparedInv'
  BY ThreadsAssumption, TokensAssumption DEF WaitInv, WaitTypeOK, PreparedInv, GuardOwns, HoldsGuard, LockToAdd, At, Goto, Threads
<1>6. TokenInv'
  <2>1. Fetching \subseteq Fetching' /\ Notifying \subseteq Notifying'
    BY ThreadsAssumption DEF WaitInv, WaitTypeOK, SleepInv, Fetching, Awake, Notifying, LockToAdd, At, Goto, Threads
  <2>2. \A d \in Consumers : Asleep(d)' => Asleep(d)
    BY ThreadsAssumption DEF WaitInv, WaitTypeOK, Asleep, LockToAdd, At, Goto, Threads
  <2>3. tokens \in Nat /\ tokens' = tokens
    BY TokensAssumption DEF WaitInv, WaitTypeOK, LockToAdd
  <2>4. QED
    BY <2>1, <2>2, <2>3, NothingLost DEF WaitInv
<1>7. QED
  BY <1>1, <1>2, <1>3, <1>4, <1>5, <1>6 DEF WaitInv

\* It adds a token, and has yet to notify.
LEMMA AddStep ==
    ASSUME WaitInv, NEW p \in Producers, Add(p)
    PROVE  WaitInv'
<1>1. WaitTypeOK'
  BY TokensAssumption, ThreadsAssumption DEF WaitInv, WaitTypeOK, PreparedInv, Add, At, Goto, Threads
<1>2. QueueInv'
  BY DEF WaitInv, WaitTypeOK, QueueInv, Add
<1>3. SleepInv'
  BY ThreadsAssumption DEF WaitInv, WaitTypeOK, SleepInv, Add, At, Goto, Threads
<1>4. GuardOwns'
  BY ThreadsAssumption DEF WaitInv, WaitTypeOK, GuardOwns, HoldsGuard, Add, At, Goto, Threads
<1>5. PreparedInv'
  BY ThreadsAssumption, TokensAssumption DEF WaitInv, WaitTypeOK, PreparedInv, GuardOwns, HoldsGuard, Add, At, Goto, Threads
<1>6. TokenInv'
  <2>1. Fetching' = Fetching /\ p \notin Notifying /\ Notifying' = Notifying \cup {p}
    BY ThreadsAssumption DEF WaitInv, WaitTypeOK, Fetching, Awake, Notifying, Add, At, Goto, Threads
  <2>2. \A d \in Consumers : Asleep(d)' => Asleep(d)
    BY ThreadsAssumption DEF WaitInv, WaitTypeOK, Asleep, Add, At, Goto, Threads
  <2>3. tokens \in Nat /\ tokens' = tokens + 1
    BY TokensAssumption DEF WaitInv, WaitTypeOK, Add
  <2>4. Cardinality(Notifying') = Cardinality(Notifying) + 1
    BY <2>1, CountTypes, ThreadSets, FS_AddElement
  <2>5. QED
    BY <2>1, <2>2, <2>3, <2>4, CountTypes, ThreadSets DEF WaitInv, TokenInv, Asleep
<1>7. QED
  BY <1>1, <1>2, <1>3, <1>4, <1>5, <1>6 DEF WaitInv

\* It gives the mutex up, before or after it notifies.
LEMMA GuardDropStep ==
    ASSUME WaitInv, NEW p \in Producers, Unlock(p)
    PROVE  WaitInv'
<1>1. WaitTypeOK'
  BY TokensAssumption, ThreadsAssumption DEF WaitInv, WaitTypeOK, Unlock, At, Goto, Threads
<1>2. QueueInv'
  BY DEF WaitInv, WaitTypeOK, QueueInv, Unlock
<1>3. SleepInv'
  BY ThreadsAssumption DEF WaitInv, WaitTypeOK, SleepInv, Unlock, At, Goto, Threads
<1>4. GuardOwns'
  BY ThreadsAssumption DEF WaitInv, WaitTypeOK, GuardOwns, HoldsGuard, Unlock, At, Goto, Threads
<1>5. PreparedInv'
  BY ThreadsAssumption DEF WaitInv, WaitTypeOK, PreparedInv, GuardOwns, HoldsGuard, Unlock, At, Goto, Threads
<1>6. TokenInv'
  <2>1. Fetching \subseteq Fetching' /\ Notifying \subseteq Notifying'
    BY ThreadsAssumption DEF WaitInv, WaitTypeOK, SleepInv, Fetching, Awake, Notifying, Unlock, At, Goto, Threads
  <2>2. \A d \in Consumers : Asleep(d)' => Asleep(d)
    BY ThreadsAssumption DEF WaitInv, WaitTypeOK, Asleep, Unlock, At, Goto, Threads
  <2>3. tokens \in Nat /\ tokens' = tokens
    BY TokensAssumption DEF WaitInv, WaitTypeOK, Unlock
  <2>4. QED
    BY <2>1, <2>2, <2>3, NothingLost DEF WaitInv
<1>7. QED
  BY <1>1, <1>2, <1>3, <1>4, <1>5, <1>6 DEF WaitInv

\* Whatever sleeping tasks a notification wakes, the types, the queue and the
\* mutex stay in order.
LEMMA NotifyKeeps ==
    ASSUME WaitInv, NEW p \in Producers, NEW woken \in SUBSET Sleeping, Notify(p, woken)
    PROVE  WaitTypeOK' /\ QueueInv' /\ SleepInv' /\ GuardOwns' /\ PreparedInv'
<1>1. Dequeue(woken)
  BY DEF Notify, WakeUp
<1>2. WaitTypeOK'
  BY <1>1, DequeueKeepsOrder DEF WaitInv, WaitTypeOK, Notify, WakeUp, Goto, Threads
<1>3. QueueInv'
  BY <1>1, DequeueKeepsOrder DEF WaitInv
<1>4. SleepInv'
  BY ThreadsAssumption DEF WaitInv, WaitTypeOK, SleepInv, Notify, WakeUp, Dequeue, Goto, Threads
<1>5. GuardOwns'
  BY ThreadsAssumption DEF WaitInv, WaitTypeOK, GuardOwns, HoldsGuard, Notify, Goto, Threads
<1>6. PreparedInv'
  BY ThreadsAssumption DEF WaitInv, WaitTypeOK, PreparedInv, Notify, Goto, At, Threads
<1>7. QED
  BY <1>2, <1>3, <1>4, <1>5, <1>6

\* A notification takes its producer away from the tokens, and whoever it wakes
\* off the queue.
LEMMA NotifyMoves ==
    ASSUME WaitInv, NEW p \in Producers, NEW woken \in SUBSET Sleeping, Notify(p, woken)
    PROVE  /\ p \in Notifying /\ Notifying' = Notifying \ {p}
           /\ Fetching \cup woken \subseteq Fetching'
           /\ \A d \in Consumers : Asleep(d)' => Asleep(d) /\ d \in Sleeping \ woken
<1>1. p \in Notifying /\ Notifying' = Notifying \ {p}
  BY ThreadsAssumption DEF WaitInv, WaitTypeOK, Notifying, Notify, Goto, Threads
<1>2. \A d \in Consumers : pc'[d] = pc[d]
  BY ThreadsAssumption DEF WaitInv, WaitTypeOK, Notify, Goto, Threads
<1>3. /\ sig' = sig /\ queue' = queue \ woken
      /\ \A d \in Consumers : task'[d] = IF d \in woken THEN "run" ELSE task[d]
  BY DEF Notify, WakeUp, Dequeue
<1>4. Fetching \cup woken \subseteq Fetching'
  <2>1. woken \subseteq Consumers /\ \A d \in woken : pc[d] # "out"
    BY DEF WaitInv, WaitTypeOK, SleepInv, Sleeping
  <2>2. QED
    BY <1>2, <1>3, <2>1 DEF Fetching, Awake, At
<1>5. \A d \in Consumers : Asleep(d)' => Asleep(d) /\ d \in Sleeping \ woken
  BY <1>2, <1>3 DEF Asleep, At, Sleeping, WaitInv, SleepInv
<1>6. QED
  BY <1>1, <1>4, <1>5

\* notify_one passes the token it stands for on to the first sleeper: while
\* another one sleeps on, one more thread fetches.
LEMMA NotifyOneStep ==
    ASSUME WaitInv, NEW p \in Producers, NotifyOne(p)
    PROVE  WaitInv'
<1>1. FirstSleeping \in SUBSET Sleeping /\ Notify(p, FirstSleeping)
  BY DEF NotifyOne, FirstSleeping
<1>2. WaitTypeOK' /\ QueueInv' /\ SleepInv' /\ GuardOwns' /\ PreparedInv'
  BY <1>1, NotifyKeeps
<1>3. TokenInv'
  <2> SUFFICES ASSUME NEW c \in Consumers, Asleep(c)'
               PROVE  tokens' <= Cardinality(Fetching') + Cardinality(Notifying')
    BY DEF TokenInv, Asleep
  <2>1. Asleep(c) /\ c \in Sleeping
    BY <1>1, NotifyMoves
  <2>2. PICK w \in FirstSleeping : TRUE
    BY <2>1, FirstExists DEF WaitInv
  <2>3. w \in Consumers /\ w \notin Fetching
    BY <2>2 DEF FirstSleeping, Sleeping, Fetching, WaitInv, WaitTypeOK
  <2>4. Cardinality(Fetching \cup {w}) = Cardinality(Fetching) + 1
    BY <2>3, CountTypes, ThreadSets, FS_AddElement
  <2>5. Fetching \cup {w} \subseteq Fetching'
    BY <1>1, <2>2, NotifyMoves
  <2>6. Cardinality(Fetching) + 1 <= Cardinality(Fetching')
    BY <2>4, <2>5, CountTypes, ThreadSets, FS_Subset
  <2>7. Cardinality(Notifying') = Cardinality(Notifying) - 1
    BY <1>1, NotifyMoves, CountTypes, ThreadSets, FS_RemoveElement
  <2>8. tokens \in Nat /\ tokens' = tokens
    BY <1>1, TokensAssumption DEF WaitInv, WaitTypeOK, Notify
  <2>9. tokens <= Cardinality(Fetching) + Cardinality(Notifying)
    BY <2>1 DEF WaitInv, TokenInv, Asleep
  <2>10. QED
    BY <2>6, <2>7, <2>8, <2>9, CountTypes, ThreadSets
<1>4. QED
  BY <1>2, <1>3 DEF WaitInv

\* notify_all leaves nobody asleep.
LEMMA NotifyAllStep ==
    ASSUME WaitInv, NEW p \in Producers, NotifyAll(p)
    PROVE  WaitInv'
<1>1. Notify(p, Sleeping)
  BY DEF NotifyAll
<1>2. WaitTypeOK' /\ QueueInv' /\ SleepInv' /\ GuardOwns' /\ PreparedInv'
  BY <1>1, NotifyKeeps
<1>3. TokenInv'
  BY <1>1, NotifyMoves DEF TokenInv, Asleep
<1>4. QED
  BY <1>2, <1>3 DEF WaitInv

\* No step of a waiter or a producer disturbs the wait queue.
LEMMA WaitStep ==
    ASSUME WaitInv,
           \/ WaiterStep \/ ProducerStep
           \/ \E p \in Producers : NotifyOne(p) \/ NotifyAll(p)
    PROVE  WaitInv'
  BY LockStep, TakeStep, GiveUpStep, PrepareStep, UnlockStep, ScheduleStep,
     TimeoutStep, RelockSleepStep, RelockStep, SignalStep, FinishStep,
     LockToAddStep, AddStep, GuardDropStep, NotifyOneStep, NotifyAllStep
  DEF WaiterStep, ProducerStep

\* Steps of others leave it as it is.
LEMMA WaitStutter ==
    ASSUME WaitInv, UNCHANGED waitVars
    PROVE  WaitInv'
  BY DEF WaitInv, waitVars, WaitTypeOK, QueueInv, SleepInv, GuardOwns, HoldsGuard,
     PreparedInv, TokenInv, Fetching, Awake, Notifying, At

-----------------------------------------------------------------------------
(* Pollers.                                                                *)

\* A step of a waiter or a producer that does not notify leaves no poller
\* behind: a token comes with a producer that has yet to notify.
LEMMA PollerSafe ==
    ASSUME WaitInv, PollerInv, WaiterStep \/ ProducerStep, UNCHANGED pollVars
    PROVE  PollerInv'
<1>1. tokens \in Nat
  BY TokensAssumption DEF WaitInv, WaitTypeOK
<1>2. tokens' > 0 => tokens > 0 \/ Notifying' # {}
  <2>1. ASSUME NEW c \in Consumers, Take(c) PROVE tokens' > 0 => tokens > 0
    BY <1>1, <2>1 DEF Take
  <2>2. ASSUME NEW p \in Producers, Add(p) PROVE Notifying' # {}
    BY <2>2 DEF Add, Notifying, Goto, WaitInv, WaitTypeOK, Threads
  <2>3. CASE UNCHANGED tokens
    BY <2>3
  <2>4. QED
    BY <2>1, <2>2, <2>3 DEF WaiterStep, ProducerStep, Lock, GiveUp, PrepareToWait,
       UnlockForWait, ScheduleReturns, Timeout, RelockSleep, Relock, FinishWait,
       SendSignal, LockToAdd, Unlock
<1>3. Notifying \subseteq Notifying'
  <2>1. ASSUME NEW c \in Consumers, NEW l, Goto(c, l) PROVE Notifying \subseteq Notifying'
    BY <2>1, ThreadsAssumption DEF Goto, Notifying, WaitInv, WaitTypeOK, Threads
  <2>2. CASE WaiterStep
    <3>1. UNCHANGED pc => Notifying \subseteq Notifying'
      BY DEF Notifying
    <3>2. QED
      BY <2>1, <2>2, <3>1 DEF WaiterStep, Lock, Take, GiveUp, PrepareToWait, UnlockForWait,
         ScheduleReturns, Timeout, RelockSleep, Relock, FinishWait, SendSignal
  <2>3. CASE ProducerStep
    BY <2>3 DEF ProducerStep, LockToAdd, Add, Unlock, Goto, At, Notifying, WaitInv, WaitTypeOK, Threads
  <2>4. QED
    BY <2>2, <2>3
<1>4. PollTypeOK' /\ PollInv'
  BY DEF PollerInv, PollTypeOK, PollInv, PollHeadAlive, pollVars
<1>5. PollNotMissed'
  BY <1>2, <1>3 DEF PollerInv, PollNotMissed, pollVars
<1>6. QED
  BY <1>4, <1>5 DEF PollerInv

\* A notification reaches every poller.
LEMMA PollersNotified ==
    ASSUME PollerInv, NEW p \in Producers, NotifyPollers(p)
    PROVE  PollerInv'
<1>1. PollTypeOK' /\ PollInv'
  BY DEF PollerInv, PollTypeOK, PollInv, PollHeadAlive, NotifyPollers
<1>2. PollNotMissed'
  BY DEF PollerInv, PollInv, PollNotMissed, NotifyPollers
<1>3. QED
  BY <1>1, <1>2 DEF PollerInv

\* Epoll, and the drop of the condition variable.
LEMMA PollStepKeeps ==
    ASSUME PollerInv, PollStep
    PROVE  PollerInv' /\ UNCHANGED waitVars
<1>1. UNCHANGED waitVars
  BY DEF PollStep, RegisterWait, PollTokens, EpollWait, RemoveItem, RemoveUnlink,
     WakeUpPollfree, SynchronizeRcu, NewPollCondVar
<1>2. UNCHANGED tokens /\ Notifying' = Notifying
  BY <1>1 DEF waitVars, Notifying
<1>3. ASSUME NEW e \in EpollItems, RegisterWait(e) PROVE PollerInv'
  BY <1>2, <1>3 DEF PollerInv, PollTypeOK, PollInv, PollHeadAlive, PollNotMissed, RegisterWait, Move
<1>4. ASSUME NEW e \in EpollItems, NEW from \in {"registered", "recheck"}, PollTokens(e, from)
      PROVE PollerInv'
  BY <1>2, <1>4 DEF PollerInv, PollTypeOK, PollInv, PollHeadAlive, PollNotMissed, PollTokens, Move
<1>5. ASSUME NEW e \in EpollItems, EpollWait(e) PROVE PollerInv'
  BY <1>2, <1>5 DEF PollerInv, PollTypeOK, PollInv, PollHeadAlive, PollNotMissed, EpollWait, Move
<1>6. ASSUME NEW e \in EpollItems, RemoveItem(e) PROVE PollerInv'
  BY <1>2, <1>6 DEF PollerInv, PollTypeOK, PollInv, PollHeadAlive, PollNotMissed, RemoveItem, Move
<1>7. ASSUME NEW e \in EpollItems, RemoveUnlink(e) PROVE PollerInv'
  BY <1>2, <1>7 DEF PollerInv, PollTypeOK, PollInv, PollHeadAlive, PollNotMissed, RemoveUnlink, Move
<1>8. CASE WakeUpPollfree
  BY <1>2, <1>8 DEF PollerInv, PollTypeOK, PollInv, PollHeadAlive, PollNotMissed, WakeUpPollfree, Unborrowed
<1>9. CASE SynchronizeRcu \/ NewPollCondVar
  BY <1>2, <1>9 DEF PollerInv, PollTypeOK, PollInv, PollHeadAlive, PollNotMissed, SynchronizeRcu, NewPollCondVar
<1>10. QED
  BY <1>1, <1>3, <1>4, <1>5, <1>6, <1>7, <1>8, <1>9 DEF PollStep

-----------------------------------------------------------------------------
(* Locks.                                                                  *)

\* No step on a lock, a LockedBy or a GlobalLockedBy lends a thread what a
\* Guard of another lock protects.
LEMMA LocksStepKeeps ==
    ASSUME LocksInv, LocksStep
    PROVE  LocksInv'
<1>1. ASSUME NEW a \in Memory, LockNew(a) \/ LockFree(a) PROVE LocksInv'
  BY <1>1 DEF LocksInv, LocksTypeOK, BorrowInv, LockNew, LockFree, Addresses
<1>8. ASSUME NEW a \in Memory, LockedByNew(a) PROVE LocksInv'
  <2>1. \A r \in refs : r.data # "LockedBy"
    BY <1>8, LocksAssumption DEF LocksInv, LocksTypeOK, BorrowInv, LockedByNew, Ref, Addresses
  <2>2. QED
    BY <1>8, <2>1 DEF LocksInv, LocksTypeOK, BorrowInv, LockedByNew
<1>2. CASE GlobalInit \/ LockedByDrop
  BY <1>2 DEF LocksInv, LocksTypeOK, BorrowInv, GlobalInit, LockedByDrop, To, Addresses
<1>3. ASSUME NEW t \in Holders, NEW a \in Addresses, LockLock(t, a) \/ TryLock(t, a)
      PROVE  LocksInv'
  <2>1. /\ holder[a] = NoOne
        /\ holder' = [holder EXCEPT ![a] = t]
        /\ guards' = [guards EXCEPT ![t] = @ \cup {a}]
        /\ UNCHANGED <<inited, boundTo, refs>>
    BY <1>3 DEF LockLock, TryLock, Unheld
  <2>2. LocksTypeOK'
    BY <2>1 DEF LocksInv, LocksTypeOK
  <2>3. \A u \in Holders : a \notin guards[u]
    BY <2>1, LocksAssumption DEF LocksInv, BorrowInv
  <2>4. BorrowInv'
    BY <2>1, <2>3 DEF LocksInv, LocksTypeOK, BorrowInv
  <2>5. QED
    BY <2>2, <2>4 DEF LocksInv
<1>4. ASSUME NEW t \in Holders, NEW a \in Addresses, GuardDrop(t, a) PROVE LocksInv'
  <2>1. LocksTypeOK'
    BY <1>4 DEF LocksInv, LocksTypeOK, GuardDrop
  <2>2. \A u \in Holders : u # t => a \notin guards[u]
    BY <1>4 DEF LocksInv, BorrowInv, GuardDrop
  <2>3. BorrowInv'
    BY <1>4, <2>2 DEF LocksInv, LocksTypeOK, BorrowInv, GuardDrop, Borrows, Ref
  <2>4. QED
    BY <2>1, <2>3 DEF LocksInv
<1>5. ASSUME NEW data \in {"LockedBy", "GlobalLockedBy"}, NEW t \in Holders, NEW h \in Holders,
             NEW a \in Addresses, NEW mut \in BOOLEAN, Lends(h, a, mut),
             a = IF data = "LockedBy" THEN boundTo ELSE Global, Refer(data, t, h, a, mut)
      PROVE  LocksInv'
  <2>0. DEFINE new == [data |-> data, by |-> t, of |-> h, via |-> a, mut |-> mut]
  <2>1. /\ refs' = refs \cup {new} /\ new \in Ref
        /\ UNCHANGED <<inited, holder, guards, boundTo>>
    BY <1>5 DEF Refer, Ref
  <2>2. new.data = data /\ new.of = h /\ new.via = a /\ new.mut = mut
    OBVIOUS
  <2>3. \A r \in refs : r.of = h /\ r.via = a => ~r.mut /\ ~mut
    BY <1>5 DEF Lends, Borrows
  <2> HIDE DEF new
  <2>4. LocksTypeOK'
    BY <2>1 DEF LocksInv, LocksTypeOK
  <2>5. BorrowInv'
    BY <1>5, <2>1, <2>2, <2>3 DEF LocksInv, BorrowInv, Lends
  <2>6. QED
    BY <2>4, <2>5 DEF LocksInv
<1>6. ASSUME NEW t \in Holders, NEW h \in Holders, NEW a \in Addresses,
             Access(t, h, a) \/ AccessMut(t, h, a)
      PROVE  LocksInv'
  BY <1>5, <1>6 DEF Access, AccessMut
<1>7. ASSUME NEW t \in Holders, NEW h \in Holders, GlobalAsRef(t, h) \/ GlobalAsMut(t, h)
      PROVE  LocksInv'
  BY <1>5, <1>7 DEF GlobalAsRef, GlobalAsMut, Addresses
<1>9. ASSUME NEW r \in refs, EndAccess(r) PROVE LocksInv'
  BY <1>9 DEF LocksInv, LocksTypeOK, BorrowInv, EndAccess
<1>10. QED
  BY <1>1, <1>2, <1>3, <1>4, <1>6, <1>7, <1>8, <1>9 DEF LocksStep

\* References to the data of a LockedBy, or of a GlobalLockedBy, all borrow the
\* one Guard of its lock, so that the rule of Rust for the borrows of a Guard is
\* one for them.
LEMMA OneBorrower ==
    ASSUME LocksInv
    PROVE  AccessExclusive
<1>1. \A r \in refs : holder[r.via] = r.of
  BY DEF LocksInv, LocksTypeOK, BorrowInv, Ref
<1>2. \A r \in refs : r.via = IF r.data = "LockedBy" THEN boundTo ELSE Global
  BY DEF LocksInv, BorrowInv
<1>3. \A r, s \in refs : r.data = s.data => r.via = s.via /\ r.of = s.of
  BY <1>1, <1>2
<1>4. QED
  BY <1>1, <1>2, <1>3 DEF LocksInv, BorrowInv, AccessExclusive

-----------------------------------------------------------------------------
\* Init: nobody waits, polls or holds anything.
LEMMA SInitHolds == SyncInit => SInv
<1> SUFFICES ASSUME SyncInit PROVE SInv
  OBVIOUS
<1>1. WaitTypeOK
  BY TokensAssumption DEF SyncInit, WaitInit, WaitTypeOK
<1>2. QueueInv /\ SleepInv /\ TokenInv
  BY DEF SyncInit, WaitInit, QueueInv, SleepInv, TokenInv, At, Threads
<1>3. GuardOwns
  BY ThreadsAssumption DEF SyncInit, WaitInit, GuardOwns, HoldsGuard, Threads
<1>4. PreparedInv
  BY DEF SyncInit, WaitInit, PreparedInv, At, Threads
<1>5. PollerInv
  BY DEF SyncInit, WaitInit, PollInit, PollerInv, PollTypeOK, PollInv, PollHeadAlive, PollNotMissed
<1>6. LocksInv
  BY DEF SyncInit, LocksInit, LocksInv, LocksTypeOK, BorrowInv, Addresses
<1>7. QED
  BY <1>1, <1>2, <1>3, <1>4, <1>5, <1>6 DEF SInv, WaitInv

\* Every step preserves the strengthened invariant.
LEMMA SStep ==
    ASSUME SInv, [SyncNext]_syncVars
    PROVE  SInv'
<1> USE DEF SInv
<1>1. UNCHANGED lockedVars => LocksInv'
  BY DEF LocksInv, lockedVars, LocksTypeOK, BorrowInv
<1>2. UNCHANGED <<waitVars, pollVars>> => PollerInv'
  BY DEF PollerInv, PollTypeOK, PollInv, PollHeadAlive, PollNotMissed, Notifying, waitVars, pollVars
<1>3. CASE (WaiterStep \/ ProducerStep) /\ UNCHANGED pollVars /\ UNCHANGED lockedVars
  BY <1>1, <1>3, WaitStep, PollerSafe
<1>4. CASE (\E p \in Producers : NotifyPollers(p)) /\ UNCHANGED lockedVars
  BY <1>1, <1>4, WaitStep, PollersNotified DEF NotifyPollers
<1>5. CASE PollStep /\ UNCHANGED lockedVars
  BY <1>1, <1>5, PollStepKeeps, WaitStutter
<1>6. CASE LocksStep /\ UNCHANGED <<waitVars, pollVars>>
  BY <1>2, <1>6, LocksStepKeeps, WaitStutter
<1>7. CASE UNCHANGED syncVars
  BY <1>1, <1>2, <1>7, WaitStutter DEF syncVars
<1>8. QED
  BY <1>3, <1>4, <1>5, <1>6, <1>7 DEF SyncNext

\* The strengthened invariant holds in every reachable state.
THEOREM SyncInductive == SyncSpec => []SInv
<1>1. SInv /\ [SyncNext]_syncVars => SInv'
  BY SStep
<1>2. QED
  BY SInitHolds, <1>1, PTL DEF SyncSpec

\* No wait queue entry outlives its wait and no pointer to a wait queue head is
\* followed once it is gone (condvar.rs, poll.rs).
THEOREM WaitQueuesAreSound == SyncSpec => []WaitQueueInv
<1>1. SInv => WaitQueueInv
  BY DEF SInv, WaitInv, PollerInv, LocksInv, PollInv, SleepInv, WaitQueueInv,
     SyncTypeOK, EntryOutlivesNothing, At
<1>2. QED
  BY SyncInductive, <1>1, PTL

\* No notification is lost, to a waiter or to a poller, whatever timeouts and
\* signals it races with.
THEOREM NothingIsMissed == SyncSpec => []NothingMissed
<1>1. ASSUME SInv PROVE NoLostWakeup
  <2>1. Awake \in SUBSET Consumers /\ Fetching \in SUBSET Awake
    BY DEF Awake, Fetching
  <2>2. Cardinality(Fetching) <= Cardinality(Awake)
    BY <2>1, ThreadSets, FS_Subset
  <2>3. tokens \in Nat
    BY <1>1, TokensAssumption DEF SInv, WaitInv, WaitTypeOK
  <2>4. QED
    BY <1>1, <2>1, <2>2, <2>3, CountTypes, ThreadSets DEF SInv, WaitInv, TokenInv, NoLostWakeup
<1>2. SInv => NothingMissed
  BY <1>1 DEF SInv, PollerInv, NothingMissed
<1>3. QED
  BY SyncInductive, <1>2, PTL

\* A Guard owns its lock, and what a LockedBy or GlobalLockedBy protects is lent
\* to readers, of any number of threads, or to one writer, while that lock is
\* held, also when it was freed and another made at its address.
THEOREM LocksAreExclusive == SyncSpec => []LocksExclude
<1>1. SInv => LocksExclude
  BY OneBorrower DEF SInv, WaitInv, LocksExclude
<1>2. QED
  BY SyncInductive, <1>1, PTL
=============================================================================
