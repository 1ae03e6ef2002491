-------------------------------- MODULE List --------------------------------
(***************************************************************************)
(* The intrusive doubly linked list of rust/src/list.rs, at the level of   *)
(* its pointers: a list is a ring of ListLinksFields entered at `first`.   *)
(* Every operation is a whole call; a list with a Cursor is mutably        *)
(* borrowed, so only the cursor may use it.                                *)
(***************************************************************************)
EXTENDS Integers, Sequences, FiniteSets

CONSTANTS
    Items,      \* the Arcs whose ListArc may be put in a list
    Lists,      \* the List values of the program
    Null,       \* the null pointer, and None
    NoCursor    \* no Cursor borrows the list

ASSUME Distinct ==
    /\ Null \notin Items \cup Lists
    /\ NoCursor \notin Items \cup {Null} \cup Nat

ASSUME ItemsFinite == IsFiniteSet(Items)

VARIABLES
    first,      \* first[l]: List::first
    next, prev, \* the ListLinksFields of every item
    where,      \* where[i]: the list that owns i's ListArc, Null while the caller does
    cnext,      \* cnext[l]: Cursor::next of the cursor on l, or NoCursor
    op          \* the last call: its name, its list, and what it returned

vars == <<first, next, prev, where, cnext, op>>

Init ==
    /\ first = [l \in Lists |-> Null]
    /\ next = [i \in Items |-> Null]
    /\ prev = [i \in Items |-> Null]
    /\ where = [i \in Items |-> Null]
    /\ cnext = [l \in Lists |-> NoCursor]
    /\ op = <<"new", Null, Null>>

\* Nothing else borrows the list, respectively the caller owns the ListArc.
Free(l) == cnext[l] = NoCursor
Held(i) == where[i] = Null

-----------------------------------------------------------------------------
\* insert_inner: i goes before n in the ring of l; an empty list (n null) gets
\* a ring of one. f is what `first` becomes when the list was not empty.
InsertInner(l, i, n, f) ==
    /\ where' = [where EXCEPT ![i] = l]
    /\ IF n = Null
       THEN /\ next' = [next EXCEPT ![i] = i]
            /\ prev' = [prev EXCEPT ![i] = i]
            /\ first' = [first EXCEPT ![l] = i]
       ELSE /\ next' = [next EXCEPT ![i] = n, ![prev[n]] = i]
            /\ prev' = [prev EXCEPT ![i] = prev[n], ![n] = i]
            /\ first' = [first EXCEPT ![l] = f]

PushBack(l, i) ==
    /\ Free(l) /\ Held(i)
    /\ InsertInner(l, i, first[l], first[l])
    /\ op' = <<"push_back", l, i>>
    /\ UNCHANGED cnext

PushFront(l, i) ==
    /\ Free(l) /\ Held(i)
    /\ InsertInner(l, i, first[l], i)
    /\ op' = <<"push_front", l, i>>
    /\ UNCHANGED cnext

\* remove_internal_inner: unlink i, clear its links, and only then read the
\* new `first` through its old neighbour.
Unlink(i) == [[next EXCEPT ![prev[i]] = next[i]] EXCEPT ![i] = Null]

RemoveInternal(l, i) ==
    /\ prev' = [[prev EXCEPT ![next[i]] = prev[i]] EXCEPT ![i] = Null]
    /\ next' = Unlink(i)
    /\ first' = [first EXCEPT ![l] = IF @ = i THEN Unlink(i)[prev[i]] ELSE @]
    /\ where' = [where EXCEPT ![i] = Null]

\* Remove the item at pointer p, or nothing when p is null.
RemoveAny(l, p) ==
    \/ /\ p = Null
       /\ UNCHANGED <<first, next, prev, where>>
    \/ /\ p # Null
       /\ RemoveInternal(l, p)

Last(l) == IF first[l] = Null THEN Null ELSE prev[first[l]]

PopBack(l) ==
    /\ Free(l)
    /\ RemoveAny(l, Last(l))
    /\ op' = <<"pop_back", l, Last(l)>>
    /\ UNCHANGED cnext

PopFront(l) ==
    /\ Free(l)
    /\ RemoveAny(l, first[l])
    /\ op' = <<"pop_front", l, first[l]>>
    /\ UNCHANGED cnext

\* The caller promises that i is in no other list; whether it is in this one is
\* read off its links.
Remove(l, i) ==
    /\ Free(l)
    /\ where[i] \in {l, Null}
    /\ LET item == IF next[i] = Null THEN Null ELSE prev[next[i]]
       IN  /\ RemoveAny(l, item)
           /\ op' = <<"remove", l, item>>
    /\ UNCHANGED cnext

\* Mutant: push_all_back that forgets the back link of other's first item.
PushAllBack_OneWay(l, m) ==
    /\ l # m /\ Free(l) /\ Free(m)
    /\ first' = [first EXCEPT ![l] = IF @ = Null THEN first[m] ELSE @, ![m] = Null]
    /\ IF Null \in {first[l], first[m]}
       THEN UNCHANGED <<next, prev>>
       ELSE /\ next' = [next EXCEPT ![prev[first[m]]] = first[l],
                                    ![prev[first[l]]] = first[m]]
            /\ prev' = [prev EXCEPT ![first[l]] = prev[first[m]]]
    /\ where' = [i \in Items |-> IF where[i] = m THEN l ELSE where[i]]
    /\ op' = <<"push_all_back", l, Null>>
    /\ UNCHANGED cnext

\* Splice the ring of m in front of first[l], which is the back of l.
PushAllBack(l, m) ==
    /\ l # m /\ Free(l) /\ Free(m)
    /\ IF first[l] = Null
       THEN /\ first' = [first EXCEPT ![l] = first[m], ![m] = Null]
            /\ UNCHANGED <<next, prev>>
       ELSE /\ first' = [first EXCEPT ![m] = Null]
            /\ IF first[m] = Null
               THEN UNCHANGED <<next, prev>>
               ELSE /\ next' = [next EXCEPT ![prev[first[m]]] = first[l],
                                            ![prev[first[l]]] = first[m]]
                    /\ prev' = [prev EXCEPT ![first[l]] = prev[first[m]],
                                            ![first[m]] = prev[first[l]]]
    /\ where' = [i \in Items |-> IF where[i] = m THEN l ELSE where[i]]
    /\ op' = <<"push_all_back", l, Null>>
    /\ UNCHANGED cnext

-----------------------------------------------------------------------------
CursorFront(l) ==
    /\ Free(l)
    /\ cnext' = [cnext EXCEPT ![l] = first[l]]
    /\ op' = <<"cursor_front", l, Null>>
    /\ UNCHANGED <<first, next, prev, where>>

CursorBack(l) ==
    /\ Free(l)
    /\ cnext' = [cnext EXCEPT ![l] = Null]
    /\ op' = <<"cursor_back", l, Null>>
    /\ UNCHANGED <<first, next, prev, where>>

CursorDrop(l) ==
    /\ ~Free(l)
    /\ cnext' = [cnext EXCEPT ![l] = NoCursor]
    /\ op' = <<"drop", l, Null>>
    /\ UNCHANGED <<first, next, prev, where>>

PrevPtr(l) ==
    CASE cnext[l] = first[l] -> Null
      [] cnext[l] # first[l] /\ cnext[l] = Null -> prev[first[l]]
      [] OTHER -> prev[cnext[l]]

\* Where move_next takes a cursor that is not at the end.
NextPos(l) == IF next[cnext[l]] = first[l] THEN Null ELSE next[cnext[l]]

PeekNext(l) ==
    /\ ~Free(l)
    /\ op' = <<"peek_next", l, cnext[l]>>
    /\ UNCHANGED <<first, next, prev, where, cnext>>

PeekPrev(l) ==
    /\ ~Free(l)
    /\ op' = <<"peek_prev", l, PrevPtr(l)>>
    /\ UNCHANGED <<first, next, prev, where, cnext>>

MoveNext(l) ==
    /\ ~Free(l)
    /\ cnext' = IF cnext[l] = Null THEN cnext ELSE [cnext EXCEPT ![l] = NextPos(l)]
    /\ op' = <<"move_next", l, cnext[l] # Null>>
    /\ UNCHANGED <<first, next, prev, where>>

MovePrev(l) ==
    /\ ~Free(l)
    /\ cnext' = IF cnext[l] = first[l] THEN cnext ELSE [cnext EXCEPT ![l] = PrevPtr(l)]
    /\ op' = <<"move_prev", l, cnext[l] # first[l]>>
    /\ UNCHANGED <<first, next, prev, where>>

\* Mutant: Cursor::insert_inner that never moves `first`: an insertion at the front
\* of the list ends up at its back.
CursorInsert_KeepsFirst(l, i) ==
    InsertInner(l, i, IF cnext[l] = Null THEN first[l] ELSE cnext[l], first[l])

\* Cursor::insert_inner: a cursor at the end inserts before `first`, a cursor
\* at the front moves `first` to the new item.
CursorInsert(l, i) ==
    InsertInner(l, i, IF cnext[l] = Null THEN first[l] ELSE cnext[l],
                      IF cnext[l] = first[l] THEN i ELSE first[l])

InsertNext(l, i) ==
    /\ ~Free(l) /\ Held(i)
    /\ CursorInsert(l, i)
    /\ cnext' = [cnext EXCEPT ![l] = i]
    /\ op' = <<"insert_next", l, i>>

InsertPrev(l, i) ==
    /\ ~Free(l) /\ Held(i)
    /\ CursorInsert(l, i)
    /\ op' = <<"insert_prev", l, i>>
    /\ UNCHANGED cnext

\* Cursor::insert consumes the cursor.
Insert(l, i) ==
    /\ ~Free(l) /\ Held(i)
    /\ CursorInsert(l, i)
    /\ cnext' = [cnext EXCEPT ![l] = NoCursor]
    /\ op' = <<"insert", l, i>>

\* The cursor steps over the item before it is removed.
RemoveNext(l) ==
    /\ ~Free(l)
    /\ cnext' = IF cnext[l] = Null THEN cnext ELSE [cnext EXCEPT ![l] = NextPos(l)]
    /\ RemoveAny(l, cnext[l])
    /\ op' = <<"remove_next", l, cnext[l]>>

RemovePrev(l) ==
    /\ ~Free(l)
    /\ RemoveAny(l, PrevPtr(l))
    /\ op' = <<"remove_prev", l, PrevPtr(l)>>
    /\ UNCHANGED cnext

ListStep(l) ==
    \/ \E i \in Items :
          \/ PushBack(l, i)
          \/ PushFront(l, i)
          \/ Remove(l, i)
          \/ InsertNext(l, i)
          \/ InsertPrev(l, i)
          \/ Insert(l, i)
    \/ PopBack(l)
    \/ PopFront(l)
    \/ \E m \in Lists : PushAllBack(l, m)
    \/ CursorFront(l)
    \/ CursorBack(l)
    \/ CursorDrop(l)
    \/ PeekNext(l)
    \/ PeekPrev(l)
    \/ MoveNext(l)
    \/ MovePrev(l)
    \/ RemoveNext(l)
    \/ RemovePrev(l)

Next == \E l \in Lists : ListStep(l)

Spec == Init /\ [][Next]_vars

-----------------------------------------------------------------------------
\* Iter::next from `first` on: null once the ring has come back to it.
Hops(l) ==
    LET hop[k \in 1..Cardinality(Items)] ==
            IF k = 1 THEN first[l]
            ELSE IF hop[k-1] = Null \/ next[hop[k-1]] = first[l] THEN Null
            ELSE next[hop[k-1]]
    IN  hop

\* The items that List::iter yields.
Walk(l) ==
    LET hop == Hops(l)
        count == Cardinality({k \in DOMAIN hop : hop[k] # Null})
    IN  [k \in 1..count |-> hop[k]]

-----------------------------------------------------------------------------
(* Properties. *)

\* Every pointer of the list code is null or points at an item, and an item is
\* owned by a list or by the caller.
TypeOK ==
    /\ first \in [Lists -> Items \cup {Null}]
    /\ next \in [Items -> Items \cup {Null}]
    /\ prev \in [Items -> Items \cup {Null}]
    /\ where \in [Items -> Lists \cup {Null}]
    /\ cnext \in [Lists -> Items \cup {Null, NoCursor}]

\* The invariant of struct List: the links of the items of one list form closed
\* rings (next and prev invert each other and never leave the list), the links of
\* an item in no list are null, which is what remove relies on to tell them apart.
RingInv ==
    \A i \in Items :
        IF where[i] = Null
        THEN next[i] = Null /\ prev[i] = Null
        ELSE /\ next[i] \in Items /\ prev[i] \in Items
             /\ prev[next[i]] = i /\ next[prev[i]] = i
             /\ where[next[i]] = where[i] /\ where[prev[i]] = where[i]

\* The invariants of List::first and Cursor::next: each is null or points at an
\* item of the list it belongs to, never at one that was removed or moved away.
FirstInv == \A l \in Lists : first[l] # Null => where[first[l]] = l
CursorInv == \A l \in Lists : cnext[l] \in Items => where[cnext[l]] = l

\* Each list is ONE ring: following `next` from `first` meets every item the list
\* owns, so iteration, pop and drop cannot miss one (and leak it), and a null
\* `first` means that the list owns nothing.
Owned(l) == {i \in Items : where[i] = l}
Closed(S) == \A i \in S : next[i] \in S
Reachable ==
    \A l \in Lists :
        IF first[l] = Null
        THEN Owned(l) = {}
        ELSE \A S \in SUBSET Owned(l) : first[l] \in S /\ Closed(S) => S = Owned(l)

\* The links of all lists are right: one ring per list, entered at `first`, with no
\* item lost and no cursor outside (insert, remove, push_all_back and the cursor
\* calls of list.rs).
ListInv == RingInv /\ Reachable /\ FirstInv /\ CursorInv

-----------------------------------------------------------------------------
(* The refinement of ListSpec.                                             *)

\* The number of items before the cursor.
CursorPos(l) ==
    CASE cnext[l] = NoCursor -> NoCursor
      [] cnext[l] = Null -> Len(Walk(l))
      [] OTHER -> (CHOOSE k \in DOMAIN Walk(l) : Walk(l)[k] = cnext[l]) - 1

\* What iterators and cursors see of all the lists.
Seqs == [l \in Lists |-> Walk(l)]
Positions == [l \in Lists |-> CursorPos(l)]

Abstract == INSTANCE ListSpec WITH seq <- Seqs, pos <- Positions

\* The pointer code does what the calls promise: seen through the iterator, every
\* call changes the sequences, moves the cursor and returns exactly what ListSpec says.
ImplementsListSpec == Abstract!Spec
=============================================================================
