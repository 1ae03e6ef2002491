------------------------------ MODULE ListSpec ------------------------------
(***************************************************************************)
(* What kernel::list::List promises: every list is a sequence of items, no *)
(* item is in two places, and a cursor is a position between two items.    *)
(* List.tla is the pointer code that has to behave like this.              *)
(***************************************************************************)
EXTENDS Integers, SequencesExt

CONSTANTS Items, Lists, Null, NoCursor

VARIABLES
    seq,     \* seq[l]: the items of list l, front to back
    pos,     \* pos[l]: the number of items before the cursor, or NoCursor
    op       \* the last call: its name, its list, and what it returned

vars == <<seq, pos, op>>

Init ==
    /\ seq = [l \in Lists |-> <<>>]
    /\ pos = [l \in Lists |-> NoCursor]
    /\ op = <<"new", Null, Null>>

Free(l) == pos[l] = NoCursor
Held(i) == \A l \in Lists : i \notin ToSet(seq[l])

\* The item at position k of list l, or Null.
At(l, k) == IF k \in DOMAIN seq[l] THEN seq[l][k] ELSE Null

Insert(l, k, i) == seq' = [seq EXCEPT ![l] = InsertAt(@, k, i)]
RemoveNth(l, k) ==
    seq' = IF At(l, k) = Null THEN seq ELSE [seq EXCEPT ![l] = RemoveAt(@, k)]

PushFront(l, i) ==
    /\ Free(l) /\ Held(i)
    /\ Insert(l, 1, i)
    /\ op' = <<"push_front", l, i>>
    /\ UNCHANGED pos

PushBack(l, i) ==
    /\ Free(l) /\ Held(i)
    /\ Insert(l, Len(seq[l]) + 1, i)
    /\ op' = <<"push_back", l, i>>
    /\ UNCHANGED pos

PopFront(l) ==
    /\ Free(l)
    /\ RemoveNth(l, 1)
    /\ op' = <<"pop_front", l, At(l, 1)>>
    /\ UNCHANGED pos

PopBack(l) ==
    /\ Free(l)
    /\ RemoveNth(l, Len(seq[l]))
    /\ op' = <<"pop_back", l, At(l, Len(seq[l]))>>
    /\ UNCHANGED pos

RemoveItem(l, i) ==
    /\ Free(l)
    /\ seq' = [seq EXCEPT ![l] = RemoveFirst(@, i)]
    /\ op' = <<"remove", l, IF i \in ToSet(seq[l]) THEN i ELSE Null>>
    /\ UNCHANGED pos

PushAllBack(l, m) ==
    /\ l # m /\ Free(l) /\ Free(m)
    /\ seq' = [seq EXCEPT ![l] = @ \o seq[m], ![m] = <<>>]
    /\ op' = <<"push_all_back", l, Null>>
    /\ UNCHANGED pos

OpenCursor(l, name, k) ==
    /\ Free(l)
    /\ pos' = [pos EXCEPT ![l] = k]
    /\ op' = <<name, l, Null>>
    /\ UNCHANGED seq

CloseCursor(l) ==
    /\ ~Free(l)
    /\ pos' = [pos EXCEPT ![l] = NoCursor]
    /\ op' = <<"drop", l, Null>>
    /\ UNCHANGED seq

Peek(l, name, k) ==
    /\ ~Free(l)
    /\ op' = <<name, l, At(l, k)>>
    /\ UNCHANGED <<seq, pos>>

Move(l, name, k) ==
    /\ ~Free(l)
    /\ pos' = IF k \in 0..Len(seq[l]) THEN [pos EXCEPT ![l] = k] ELSE pos
    /\ op' = <<name, l, k \in 0..Len(seq[l])>>
    /\ UNCHANGED seq

InsertHere(l, i, name, k) ==
    /\ ~Free(l) /\ Held(i)
    /\ Insert(l, pos[l] + 1, i)
    /\ pos' = [pos EXCEPT ![l] = k]
    /\ op' = <<name, l, i>>

RemoveHere(l, name, k) ==
    /\ ~Free(l)
    /\ RemoveNth(l, k)
    /\ pos' = [pos EXCEPT ![l] = IF k = @ /\ k > 0 THEN @ - 1 ELSE @]
    /\ op' = <<name, l, At(l, k)>>

Next ==
    \E l \in Lists :
        \/ \E i \in Items :
              \/ PushFront(l, i)
              \/ PushBack(l, i)
              \/ RemoveItem(l, i)
              \/ InsertHere(l, i, "insert_next", pos[l])
              \/ InsertHere(l, i, "insert_prev", pos[l] + 1)
              \/ InsertHere(l, i, "insert", NoCursor)
        \/ PopFront(l)
        \/ PopBack(l)
        \/ \E m \in Lists : PushAllBack(l, m)
        \/ OpenCursor(l, "cursor_front", 0)
        \/ OpenCursor(l, "cursor_back", Len(seq[l]))
        \/ CloseCursor(l)
        \/ Peek(l, "peek_next", pos[l] + 1)
        \/ Peek(l, "peek_prev", pos[l])
        \/ Move(l, "move_next", pos[l] + 1)
        \/ Move(l, "move_prev", pos[l] - 1)
        \/ RemoveHere(l, "remove_next", pos[l] + 1)
        \/ RemoveHere(l, "remove_prev", pos[l])

Spec == Init /\ [][Next]_vars

=============================================================================
