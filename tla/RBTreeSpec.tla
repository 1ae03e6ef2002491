----------------------------- MODULE RBTreeSpec -----------------------------
(***************************************************************************)
(* What kernel::rbtree::RBTree promises: a map from keys to values, with   *)
(* one view of it at a time, an entry or a cursor at a key, or an iterator *)
(* that has passed all smaller keys.  RBTree.tla has to behave like this.  *)
(***************************************************************************)
EXTENDS Integers, FiniteSetsExt

CONSTANTS Keys, Values, None

VARIABLES
    map,     \* map[k]: the value of k, None if k is not in the map
    view,    \* "idle" or the kind of view that borrows the map
    at,      \* the key the view is at
    op       \* the last call: its name, its argument and its result

vars == <<map, view, at, op>>

Init ==
    /\ map = [k \in Keys |-> None]
    /\ view = "idle" /\ at = None
    /\ op = <<"new", None, None>>

\* The least key of S, the greatest, or None.
Least(S) == IF S = {} THEN None ELSE Min(S)
Greatest(S) == IF S = {} THEN None ELSE Max(S)

Present == {k \in Keys : map[k] # None}
Above(k) == {j \in Present : j > k}
Below(k) == {j \in Present : j < k}
Val(k) == IF k = None THEN None ELSE map[k]
Nearest(dir) == IF dir = "prev" THEN Greatest(Below(at)) ELSE Least(Above(at))
Without(k) == IF k = None THEN map ELSE [map EXCEPT ![k] = None]
With(k, v) == IF k = None THEN map ELSE [map EXCEPT ![k] = v]

Result(name, k) == op' = <<name, k, Val(k)>>
Look(kind, k) == view' = kind /\ at' = k

Insert(k, v) ==
    /\ view = "idle"
    /\ map' = With(k, v)
    /\ Result("insert", k)
    /\ UNCHANGED <<view, at>>

Entry(k) ==
    /\ view = "idle"
    /\ Look(IF map[k] = None THEN "vacant" ELSE "occupied", k)
    /\ Result("entry", k)
    /\ UNCHANGED map

FindMut(k) ==
    /\ view = "idle"
    /\ IF map[k] = None THEN UNCHANGED <<view, at>> ELSE Look("occupied", k)
    /\ Result("find_mut", k)
    /\ UNCHANGED map

Remove(name, k) ==
    /\ \/ view = "idle"
       \/ view = "occupied" /\ at = k
    /\ map' = Without(k)
    /\ Look("idle", None)
    /\ Result(name, k)

Get(k) ==
    /\ view = "idle"
    /\ Result("get", k)
    /\ UNCHANGED <<map, view, at>>

VacantInsert(v) ==
    /\ view = "vacant"
    /\ map' = With(at, v)
    /\ op' = <<"vacant_insert", at, v>>
    /\ Look("idle", None)

SetValue(v) ==
    /\ view \in {"occupied", "cursor"}
    /\ map' = With(at, v)
    /\ op' = <<"set", at, v>>
    /\ UNCHANGED <<view, at>>

DropView ==
    /\ view # "idle"
    /\ Look("idle", None)
    /\ op' = <<"drop_view", None, None>>
    /\ UNCHANGED map

\* A cursor at k, or no cursor.
CursorAt(name, a, k) ==
    /\ Look(IF k = None THEN "idle" ELSE "cursor", k)
    /\ op' = <<name, a, k, Val(k)>>
    /\ UNCHANGED map

MakeCursor ==
    /\ view = "idle"
    /\ \/ CursorAt("cursor_front", None, Least(Present))
       \/ CursorAt("cursor_back", None, Greatest(Present))
       \/ \E k \in Keys : CursorAt("cursor_lower_bound", k, Least({j \in Present : j >= k}))

MoveCursor(dir) ==
    /\ view = "cursor"
    /\ CursorAt("move", dir, Nearest(dir))

\* peek reads and peek_mut writes the neighbour.
Peek(dir, v) ==
    /\ view = "cursor"
    /\ map' = With(Nearest(dir), v)
    /\ op' = <<"peek", dir, Nearest(dir), Val(Nearest(dir))>>
    /\ UNCHANGED <<view, at>>

\* remove_prev and remove_next.
RemoveNeighbor(dir) ==
    /\ view = "cursor"
    /\ map' = Without(Nearest(dir))
    /\ op' = <<"remove", dir, Nearest(dir), Val(Nearest(dir))>>
    /\ UNCHANGED <<view, at>>

\* "a cursor to the next node, if it exists, else the previous node, else None".
RemoveCurrent ==
    /\ view = "cursor"
    /\ map' = Without(at)
    /\ LET k == IF Above(at) # {} THEN Nearest("next") ELSE Nearest("prev")
       IN  Look(IF k = None THEN "idle" ELSE "cursor", k)
    /\ Result("remove_current", at)

\* An iterator is at the next key it will return.
Iter ==
    /\ view = "idle"
    /\ Look("iter", Least(Present))
    /\ op' = <<"iter", None, None>>
    /\ UNCHANGED map

IterNext(v) ==
    /\ view = "iter"
    /\ map' = With(at, v)
    /\ at' = IF at = None THEN None ELSE Nearest("next")
    /\ Result("next", at)
    /\ UNCHANGED view

Drop ==
    /\ view = "idle"
    /\ map' = [k \in Keys |-> None]
    /\ op' = <<"drop", None, None>>
    /\ UNCHANGED <<view, at>>

Next ==
    \/ \E k \in Keys : Entry(k) \/ FindMut(k) \/ Get(k)
    \/ \E k \in Keys, v \in Values : Insert(k, v)
    \/ \E k \in Keys, name \in {"remove_node", "remove"} : Remove(name, k)
    \/ \E v \in Values : VacantInsert(v) \/ SetValue(v) \/ IterNext(v)
    \/ \E dir \in {"prev", "next"} :
          \/ MoveCursor(dir) \/ RemoveNeighbor(dir)
          \/ \E v \in Values : Peek(dir, v)
    \/ DropView \/ MakeCursor \/ RemoveCurrent \/ Iter \/ Drop

Spec == Init /\ [][Next]_vars
=============================================================================
