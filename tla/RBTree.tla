------------------------------- MODULE RBTree -------------------------------
(***************************************************************************)
(* The red-black tree of rust/src/rbtree.rs: the searches, entries,        *)
(* cursors, iterators and node allocations written in Rust.  Linking,      *)
(* erasing and rebalancing are the kernel's and external: they keep the    *)
(* nodes in one in-order sequence, `order`, in a binary tree of any shape. *)
(* A subtree is an interval lo..hi of that sequence and its root may be    *)
(* any node in it, which is what a search can rely on.                     *)
(***************************************************************************)
EXTENDS Integers, Sequences

CONSTANTS
    Nodes,      \* allocations for a Node<K, V>
    Keys,       \* K: Ord
    Values,     \* V
    None        \* None, and the null pointer

ASSUME KeysAssumption == Keys \subseteq Int /\ None \notin Keys
ASSUME NoneAssumption == None \notin Nodes \cup Values

VARIABLES
    order,      \* the nodes linked into the tree, in-order
    key, val,   \* Node::key and Node::value
    own,        \* own[n]: who owns the allocation, and as what
    pc,         \* what borrows the tree: a running loop, an entry, a cursor ...
    then,       \* what a running raw_entry was called for
    arg,        \* the key it was called with
    new,        \* the node `insert` was called with
    lo, hi,     \* the subtree the loop is at
    parent,     \* RawVacantEntry::parent
    child,      \* RawVacantEntry::child_field_of_parent
    best,       \* best_match of cursor_lower_bound
    cur,        \* the node an entry, a cursor or an iterator points at
    op          \* the last call that returned: its name, its argument and its result

tree == <<order, key, val, own>>
loop == <<then, arg, new, lo, hi, parent, child, best>>
vars == <<order, key, val, own, pc, then, arg, new, lo, hi, parent, child, best, cur, op>>

Loops == {"search", "get", "bound"}
Views == {"vacant", "occupied", "cursor", "iter"}
Calls == {"insert", "entry", "find_mut", "remove_node", "remove"}

Init ==
    /\ order = <<>>
    /\ key = [n \in Nodes |-> None]
    /\ val = [n \in Nodes |-> None]
    /\ own = [n \in Nodes |-> "free"]
    /\ pc = "idle"
    /\ then = "entry" /\ arg = None /\ new = None
    /\ lo = 1 /\ hi = 0
    /\ parent = None /\ child = "root" /\ best = None
    /\ cur = None
    /\ op = <<"new", None, None>>

TypeOK ==
    /\ order \in Seq(Nodes)
    /\ key \in [Nodes -> Keys \cup {None}]
    /\ val \in [Nodes -> Values \cup {None}]
    /\ own \in [Nodes -> {"free", "reserved", "node", "tree"}]
    /\ pc \in {"idle"} \cup Loops \cup Views
    /\ then \in Calls
    /\ arg \in Keys \cup {None}
    /\ new \in Nodes \cup {None}
    /\ lo \in Nat /\ hi \in Nat
    /\ parent \in Nodes \cup {None}
    /\ child \in {"root", "left", "right"}
    /\ best \in Nodes \cup {None}
    /\ cur \in Nodes \cup {None}

-----------------------------------------------------------------------------
(* The C tree.                                                             *)

Pos(n) == CHOOSE i \in DOMAIN order : order[i] = n
Node(i) == IF i \in DOMAIN order THEN order[i] ELSE None

RbFirst == Node(1)
RbLast == Node(Len(order))
RbNext(n) == Node(Pos(n) + 1)
RbPrev(n) == Node(Pos(n) - 1)

\* rb_link_node, rb_insert_color: a node put in an empty child field comes next
\* to the parent in-order.
LinkPos ==
    CASE parent = None -> 1
      [] parent # None /\ child = "left" -> Pos(parent)
      [] OTHER -> Pos(parent) + 1

RbLink(n) ==
    order' = [i \in 1..(Len(order) + 1) |->
                 CASE i < LinkPos -> order[i]
                   [] i = LinkPos -> n
                   [] OTHER -> order[i - 1]]

RbErase(n) ==
    order' = [i \in 1..(Len(order) - 1) |->
                 IF i < Pos(n) THEN order[i] ELSE order[i + 1]]

RbReplace(n, m) == order' = [order EXCEPT ![Pos(n)] = m]

-----------------------------------------------------------------------------
(* Allocations: RBTreeNodeReservation and RBTreeNode.                      *)

\* The caller is in no call of the tree; an entry, a cursor or an iterator may
\* exist.
Returned == pc \notin Loops

\* RBTreeNodeReservation::new.
Reserve(n) ==
    /\ Returned
    /\ own[n] = "free"
    /\ own' = [own EXCEPT ![n] = "reserved"]
    /\ UNCHANGED <<order, key, val, pc, cur, op, loop>>

\* RBTreeNodeReservation::into_node.
IntoNode(n, k, v) ==
    /\ Returned
    /\ own[n] = "reserved"
    /\ own' = [own EXCEPT ![n] = "node"]
    /\ key' = [key EXCEPT ![n] = k]
    /\ val' = [val EXCEPT ![n] = v]
    /\ UNCHANGED <<order, pc, cur, op, loop>>

\* RBTreeNode::into_reservation: key and value are dropped.
IntoReservation(n) ==
    /\ Returned
    /\ own[n] = "node"
    /\ own' = [own EXCEPT ![n] = "reserved"]
    /\ key' = [key EXCEPT ![n] = None]
    /\ val' = [val EXCEPT ![n] = None]
    /\ UNCHANGED <<order, pc, cur, op, loop>>

\* A reservation or a node is dropped; RBTreeNode::to_key_value.
FreeNode(n) ==
    /\ Returned
    /\ own[n] \in {"reserved", "node"}
    /\ own' = [own EXCEPT ![n] = "free"]
    /\ key' = [key EXCEPT ![n] = None]
    /\ val' = [val EXCEPT ![n] = None]
    /\ UNCHANGED <<order, pc, cur, op, loop>>

-----------------------------------------------------------------------------
(* raw_entry and its callers.                                              *)

\* A loop starts at the root of the tree.
Start(p, k) ==
    /\ pc = "idle"
    /\ pc' = p
    /\ arg' = k
    /\ lo' = 1 /\ hi' = Len(order)
    /\ parent' = None /\ child' = "root" /\ best' = None
    /\ UNCHANGED <<order, key, val, own, cur, op>>

Insert(n) ==
    /\ own[n] = "node"
    /\ Start("search", key[n])
    /\ then' = "insert" /\ new' = n

\* entry, find_mut (and get_mut), remove_node and remove.
Lookup(call, k) ==
    /\ call \in Calls \ {"insert"}
    /\ Start("search", k)
    /\ then' = call /\ new' = None

\* Mutant: after Greater the left child is taken.
GoRight_Wrong(i) == hi' = i - 1 /\ lo' = lo

\* The loop goes on in the left, respectively the right subtree of order[i].
GoLeft(i) == hi' = i - 1 /\ lo' = lo
GoRight(i) == lo' = i + 1 /\ hi' = hi

\* An iteration of raw_entry at curr = order[i] that ends in Less or Greater.
Descend(i) ==
    /\ pc = "search"
    /\ i \in lo..hi
    /\ \/ arg < key[order[i]] /\ GoLeft(i) /\ child' = "left"
       \/ arg > key[order[i]] /\ GoRight(i) /\ child' = "right"
    /\ parent' = order[i]
    /\ UNCHANGED <<order, key, val, own, pc, then, arg, new, best, cur, op>>

\* The call returns r, and p borrows the tree from now on. The variables of its
\* loop are gone, but for those a VacantEntry keeps.
Return(p, r) ==
    /\ pc' = p
    /\ op' = r
    /\ then' = "entry" /\ new' = None /\ lo' = 1 /\ hi' = 0 /\ best' = None
    /\ IF p = "vacant"
       THEN UNCHANGED <<arg, parent, child>>
       ELSE arg' = None /\ parent' = None /\ child' = "root"

AtEqual(i) == pc = "search" /\ i \in lo..hi /\ arg = key[order[i]]
AtNull == pc = "search" /\ lo > hi

\* OccupiedEntry::replace.
Replace(n, m) == RbReplace(n, m) /\ own' = [own EXCEPT ![m] = "tree", ![n] = "node"]

\* insert into an occupied entry.
InsertReplaces(i) ==
    /\ AtEqual(i) /\ then = "insert"
    /\ Replace(order[i], new)
    /\ Return("idle", <<"insert", arg, val[order[i]]>>)
    /\ UNCHANGED <<key, val, cur>>

\* insert into a vacant one: RawVacantEntry::insert.
InsertLinks ==
    /\ AtNull /\ then = "insert"
    /\ RbLink(new)
    /\ own' = [own EXCEPT ![new] = "tree"]
    /\ Return("idle", <<"insert", arg, None>>)
    /\ UNCHANGED <<key, val, cur>>

\* entry and find_mut find the key: the caller has an OccupiedEntry.
EntryOccupied(i) ==
    /\ AtEqual(i) /\ then \in {"entry", "find_mut"}
    /\ cur' = order[i]
    /\ Return("occupied", <<then, arg, val[order[i]]>>)
    /\ UNCHANGED tree

\* entry does not find it: the caller has a VacantEntry.
EntryVacant ==
    /\ AtNull /\ then = "entry"
    /\ Return("vacant", <<"entry", arg, None>>)
    /\ UNCHANGED <<order, key, val, own, cur>>

\* OccupiedEntry::remove_node leaves the node to the caller, remove frees it.
TakeNode(n) == own' = [own EXCEPT ![n] = "node"] /\ UNCHANGED <<key, val>>
TakeValue(n) ==
    /\ own' = [own EXCEPT ![n] = "free"]
    /\ key' = [key EXCEPT ![n] = None]
    /\ val' = [val EXCEPT ![n] = None]

RemoveFound(i) ==
    /\ AtEqual(i)
    /\ RbErase(order[i])
    /\ \/ then = "remove_node" /\ TakeNode(order[i])
       \/ then = "remove" /\ TakeValue(order[i])
    /\ Return("idle", <<then, arg, val[order[i]]>>)
    /\ UNCHANGED cur

\* find_mut, remove_node and remove find nothing.
NotFound ==
    /\ AtNull /\ then \in {"find_mut", "remove_node", "remove"}
    /\ Return("idle", <<then, arg, None>>)
    /\ UNCHANGED <<order, key, val, own, cur>>

-----------------------------------------------------------------------------
(* get.                                                                    *)

Get(k) ==
    /\ Start("get", k)
    /\ UNCHANGED <<then, new>>

GetDescend(i) ==
    /\ pc = "get"
    /\ i \in lo..hi
    /\ \/ arg < key[order[i]] /\ GoLeft(i)
       \/ arg > key[order[i]] /\ GoRight(i)
    /\ UNCHANGED <<order, key, val, own, pc, then, arg, new, parent, child, best, cur, op>>

GetFound(i) ==
    /\ pc = "get" /\ i \in lo..hi /\ arg = key[order[i]]
    /\ Return("idle", <<"get", arg, val[order[i]]>>)
    /\ UNCHANGED <<order, key, val, own, cur>>

GetMissing ==
    /\ pc = "get" /\ lo > hi
    /\ Return("idle", <<"get", arg, None>>)
    /\ UNCHANGED <<order, key, val, own, cur>>

-----------------------------------------------------------------------------
(* Entries.                                                                *)

\* VacantEntry::insert.
VacantInsert(n, v) ==
    /\ pc = "vacant"
    /\ own[n] = "reserved"
    /\ RbLink(n)
    /\ own' = [own EXCEPT ![n] = "tree"]
    /\ key' = [key EXCEPT ![n] = arg]
    /\ val' = [val EXCEPT ![n] = v]
    /\ Return("idle", <<"vacant_insert", arg, v>>)
    /\ UNCHANGED cur

\* Through get_mut or into_mut of an OccupiedEntry, or current_mut of a Cursor,
\* the caller writes the value of the node the view points at.
SetValue(v) ==
    /\ pc \in {"occupied", "cursor"}
    /\ val' = [val EXCEPT ![cur] = v]
    /\ op' = <<"set", key[cur], v>>
    /\ UNCHANGED <<order, key, own, pc, cur, loop>>

OccupiedRemove(name) ==
    /\ pc = "occupied"
    /\ RbErase(cur)
    /\ \/ name = "remove_node" /\ TakeNode(cur)
       \/ name = "remove" /\ TakeValue(cur)
    /\ cur' = None
    /\ Return("idle", <<name, key[cur], val[cur]>>)

\* An entry, a cursor or an iterator is dropped.
DropView ==
    /\ pc \in Views
    /\ cur' = None
    /\ Return("idle", <<"drop_view", None, None>>)
    /\ UNCHANGED tree

-----------------------------------------------------------------------------
(* Cursors.                                                                *)

\* The key of a node, None for the null pointer.
KeyOf(n) == IF n = None THEN None ELSE key[n]
ValOf(n) == IF n = None THEN None ELSE val[n]

\* A cursor at n, or None, from a call with argument a.
CursorAt(n, name, a) ==
    /\ cur' = n
    /\ Return(IF n = None THEN "idle" ELSE "cursor", <<name, a, KeyOf(n), ValOf(n)>>)

CursorFront ==
    /\ pc = "idle"
    /\ CursorAt(RbFirst, "cursor_front", None)
    /\ UNCHANGED tree

CursorBack ==
    /\ pc = "idle"
    /\ CursorAt(RbLast, "cursor_back", None)
    /\ UNCHANGED tree

CursorLowerBound(k) ==
    /\ Start("bound", k)
    /\ UNCHANGED <<then, new>>

\* Mutant: is_better_match keeps the first larger key found.
IsBetter_First(n) == best = None

IsBetter(n) == IF best = None THEN TRUE ELSE key[best] > key[n]

BoundDescend(i) ==
    /\ pc = "bound"
    /\ i \in lo..hi
    /\ \/ /\ arg > key[order[i]]
          /\ GoRight(i)
          /\ UNCHANGED best
       \/ /\ arg < key[order[i]]
          /\ best' = IF IsBetter(order[i]) THEN order[i] ELSE best
          /\ GoLeft(i)
    /\ UNCHANGED <<order, key, val, own, pc, then, arg, new, parent, child, cur, op>>

BoundEqual(i) ==
    /\ pc = "bound" /\ i \in lo..hi /\ arg = key[order[i]]
    /\ CursorAt(order[i], "cursor_lower_bound", arg)
    /\ UNCHANGED tree

BoundDone ==
    /\ pc = "bound" /\ lo > hi
    /\ CursorAt(best, "cursor_lower_bound", arg)
    /\ UNCHANGED tree

\* get_neighbor_raw.
Neighbor(dir) == IF dir = "prev" THEN RbPrev(cur) ELSE RbNext(cur)

\* peek, peek_mut: the caller reads or writes the neighbour's value.
PeekMut(dir, v) ==
    /\ pc = "cursor"
    /\ val' = IF Neighbor(dir) = None THEN val ELSE [val EXCEPT ![Neighbor(dir)] = v]
    /\ op' = <<"peek", dir, KeyOf(Neighbor(dir)), ValOf(Neighbor(dir))>>
    /\ UNCHANGED <<order, key, own, pc, cur, loop>>

\* mv: without a neighbour the cursor is gone.
Move(dir) ==
    /\ pc = "cursor"
    /\ CursorAt(Neighbor(dir), "move", dir)
    /\ UNCHANGED tree

RemoveNeighbor(dir) ==
    /\ pc = "cursor"
    /\ IF Neighbor(dir) = None
       THEN UNCHANGED tree
       ELSE RbErase(Neighbor(dir)) /\ TakeNode(Neighbor(dir))
    /\ op' = <<"remove", dir, KeyOf(Neighbor(dir)), ValOf(Neighbor(dir))>>
    /\ UNCHANGED <<pc, cur, loop>>

\* Where the cursor goes when its node is removed.
Survivor == IF Neighbor("next") # None THEN Neighbor("next") ELSE Neighbor("prev")

RemoveCurrent ==
    /\ pc = "cursor"
    /\ RbErase(cur) /\ TakeNode(cur)
    /\ cur' = Survivor
    /\ Return(IF Survivor = None THEN "idle" ELSE "cursor",
              <<"remove_current", key[cur], val[cur]>>)

-----------------------------------------------------------------------------
(* Iterators and the destructor.                                           *)

\* iter and iter_mut.
IterStart ==
    /\ pc = "idle"
    /\ cur' = RbFirst
    /\ Return("iter", <<"iter", None, None>>)
    /\ UNCHANGED tree

\* IterRaw::next; the caller of iter_mut writes the value it gets.
IterNext(v) ==
    /\ pc = "iter"
    /\ cur' = IF cur = None THEN None ELSE RbNext(cur)
    /\ val' = IF cur = None THEN val ELSE [val EXCEPT ![cur] = v]
    /\ op' = <<"next", KeyOf(cur), ValOf(cur)>>
    /\ UNCHANGED <<order, key, own, pc, loop>>

\* Drop for RBTree frees the nodes in postorder; the program makes a new tree.
DropTree ==
    /\ pc = "idle"
    /\ order' = <<>>
    /\ own' = [n \in Nodes |-> IF own[n] = "tree" THEN "free" ELSE own[n]]
    /\ key' = [n \in Nodes |-> IF own[n] = "tree" THEN None ELSE key[n]]
    /\ val' = [n \in Nodes |-> IF own[n] = "tree" THEN None ELSE val[n]]
    /\ Return("idle", <<"drop", None, None>>)
    /\ UNCHANGED cur

-----------------------------------------------------------------------------
Next ==
    \/ \E n \in Nodes : Reserve(n) \/ IntoReservation(n) \/ FreeNode(n) \/ Insert(n)
    \/ \E n \in Nodes, k \in Keys, v \in Values : IntoNode(n, k, v)
    \/ \E call \in Calls, k \in Keys : Lookup(call, k)
    \/ \E i \in DOMAIN order :
          \/ Descend(i) \/ InsertReplaces(i) \/ EntryOccupied(i) \/ RemoveFound(i)
          \/ GetDescend(i) \/ GetFound(i) \/ BoundDescend(i) \/ BoundEqual(i)
    \/ InsertLinks \/ EntryVacant \/ NotFound \/ GetMissing \/ BoundDone
    \/ \E k \in Keys : Get(k) \/ CursorLowerBound(k)
    \/ \E n \in Nodes, v \in Values : VacantInsert(n, v)
    \/ \E v \in Values : SetValue(v) \/ IterNext(v)
    \/ \E name \in {"remove_node", "remove"} : OccupiedRemove(name)
    \/ DropView \/ CursorFront \/ CursorBack \/ RemoveCurrent \/ IterStart \/ DropTree
    \/ \E dir \in {"prev", "next"} :
          \/ Move(dir) \/ RemoveNeighbor(dir)
          \/ \E v \in Values : PeekMut(dir, v)

Spec == Init /\ [][Next]_vars

-----------------------------------------------------------------------------
(* Properties.                                                             *)

\* In-order, the keys of the tree increase strictly: wherever a search ended,
\* linking its node there, or putting it in another's place, keeps the order
\* that every later search relies on, whatever the kernel's rebalancing does.
Sorted ==
    \A i, j \in DOMAIN order : i < j => key[order[i]] < key[order[j]]

\* A node is linked once exactly while the tree owns its allocation, and has a
\* key and a value exactly while it is initialised: from_raw never makes a
\* second box of a node, and no call leaks one.
NodesOwned ==
    /\ \A n \in Nodes : own[n] = "tree" <=> \E i \in DOMAIN order : order[i] = n
    /\ \A i, j \in DOMAIN order : order[i] = order[j] => i = j
    /\ \A n \in Nodes : own[n] \in {"node", "tree"} <=> key[n] # None

\* "`current` points to a node that is in the same `RBTree`" (Cursor), and so do
\* the pointers of entries and iterators, whatever was removed through them.
ViewInTree ==
    /\ pc \in {"occupied", "cursor"} => cur \in Nodes /\ own[cur] = "tree"
    /\ pc = "iter" => cur = None \/ own[cur] = "tree"
    /\ pc = "vacant" /\ parent # None => own[parent] = "tree"

\* The tree of rbtree.rs is in order, every node allocation has one owner, and what
\* borrows the tree points into it.
TreeInv == Sorted /\ NodesOwned /\ ViewInTree

-----------------------------------------------------------------------------
(* The map that the tree is: RBTreeSpec.tla.                               *)

\* The value of each key, None for a key that no node of the tree has.
Map ==
    [k \in Keys |->
        LET at == {n \in Nodes : own[n] = "tree" /\ key[n] = k}
        IN  IF at = {} THEN None ELSE val[CHOOSE n \in at : TRUE]]

\* What borrows the map, and the key it is at: to its caller, a call takes effect
\* when its loop ends.
View == IF pc \in Loops THEN "idle" ELSE pc
ViewKey == IF pc = "vacant" THEN arg ELSE KeyOf(cur)

Abstract == INSTANCE RBTreeSpec WITH map <- Map, view <- View, at <- ViewKey

\* Every call of the tree does to the map, and returns, what RBTreeSpec says: a
\* search finds the key if it is there and the lower bound if not, and cursors
\* and iterators visit the keys in order, whatever the shape of the tree.
ImplementsMap == Abstract!Spec
=============================================================================
