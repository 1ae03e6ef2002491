---------------------------- MODULE RBTree_proofs ----------------------------
(***************************************************************************)
(* Proofs of the invariants of RBTree.tla and of its refinement of         *)
(* RBTreeSpec.tla, for any keys, any number of nodes and every shape the   *)
(* kernel gives the tree.                                                  *)
(***************************************************************************)
EXTENDS RBTree, SequenceTheorems, TLAPS

\* Every key before position p is smaller than k and every other key is larger.
Gap(p, k) ==
    \A i \in DOMAIN order : (i < p => key[order[i]] < k) /\ (i >= p => k < key[order[i]])

\* The loops: what lies outside the subtree they are at is on the right side.
LoopInv ==
    pc \in Loops =>
        /\ arg \in Keys
        /\ lo >= 1 /\ lo <= hi + 1 /\ hi <= Len(order)
        /\ \A i \in DOMAIN order : (i < lo => key[order[i]] < arg) /\ (i > hi => arg < key[order[i]])

\* raw_entry: the parent is next to the subtree, on the side child tells.
SearchInv ==
    pc = "search" =>
        /\ \/ parent = None /\ lo = 1 /\ hi = Len(order)
           \/ child = "left" /\ hi < Len(order) /\ parent = order[hi + 1]
           \/ child = "right" /\ lo > 1 /\ parent = order[lo - 1]
        /\ then = "insert" => new \in Nodes /\ own[new] = "node" /\ key[new] = arg

\* A VacantEntry knows where its key belongs.
VacantInv ==
    pc = "vacant" => /\ arg \in Keys
                     /\ LinkPos \in 1..(Len(order) + 1)
                     /\ Gap(LinkPos, arg)

\* cursor_lower_bound: the best match so far is a node of the tree.
BoundInv == pc = "bound" /\ best # None => own[best] = "tree"

IInv ==
    /\ TypeOK
    /\ Sorted
    /\ NodesOwned
    /\ ViewInTree
    /\ LoopInv
    /\ SearchInv
    /\ VacantInv
    /\ BoundInv

-----------------------------------------------------------------------------
\* A node of the tree has a position.
LEMMA PosOK ==
    ASSUME NodesOwned, NEW n \in Nodes, own[n] = "tree"
    PROVE  Pos(n) \in DOMAIN order /\ order[Pos(n)] = n
<1>1. \E i \in DOMAIN order : order[i] = n
  BY DEF NodesOwned
<1> QED
  BY <1>1 DEF Pos

\* The node at a position has that position.
LEMMA PosOf ==
    ASSUME NodesOwned, NEW i \in DOMAIN order
    PROVE  Pos(order[i]) = i
BY DEF Pos, NodesOwned

\* Nodes of the tree have keys.
LEMMA TreeKeys ==
    ASSUME TypeOK, NodesOwned, NEW i \in DOMAIN order
    PROVE  /\ order[i] \in Nodes
           /\ own[order[i]] = "tree"
           /\ key[order[i]] \in Keys
           /\ key[order[i]] \in Int
<1>1. order[i] \in Nodes
  BY DEF TypeOK
<1>2. own[order[i]] = "tree"
  BY <1>1 DEF NodesOwned
<1>3. key[order[i]] # None
  BY <1>1, <1>2 DEF NodesOwned
<1>4. key[order[i]] \in Keys \cup {None}
  BY <1>1 DEF TypeOK
<1> QED
  BY <1>1, <1>2, <1>3, <1>4, KeysAssumption

\* Linking a node where its key belongs.
LEMMA Linked ==
    ASSUME TypeOK, Sorted, NodesOwned,
           NEW n \in Nodes, own[n] # "tree", NEW k \in Keys,
           LinkPos \in 1..(Len(order) + 1), Gap(LinkPos, k),
           RbLink(n),
           own' = [own EXCEPT ![n] = "tree"],
           key' = [key EXCEPT ![n] = k]
    PROVE  order' \in Seq(Nodes) /\ Sorted' /\ NodesOwned'
<1> DEFINE p == LinkPos
<1> DEFINE m == Len(order)
<1>1. m \in Nat /\ DOMAIN order = 1..m /\ p \in 1..(m + 1)
  BY DEF TypeOK
<1>2. order' = [i \in 1..(m + 1) |-> CASE i < p -> order[i] [] i = p -> n [] OTHER -> order[i - 1]]
  BY DEF RbLink
<1> HIDE DEF p
<1>3. /\ DOMAIN order' = 1..(m + 1)
      /\ \A i \in 1..(m + 1) : /\ i < p => i \in DOMAIN order /\ order'[i] = order[i]
                               /\ i = p => order'[i] = n
                               /\ i > p => i - 1 \in DOMAIN order /\ order'[i] = order[i - 1]
  BY <1>1, <1>2
<1>4. order' \in Seq(Nodes)
  <2>1. \A i \in 1..(m + 1) : order'[i] \in Nodes
    BY <1>1, <1>3, TreeKeys
  <2>2. order' \in [1..(m + 1) -> Nodes]
    BY <1>2, <1>3, <2>1
  <2> QED
    BY <1>1, <2>2, SeqDef
<1>5. \A i \in DOMAIN order : order[i] # n
  BY DEF NodesOwned
<1>6. Sorted'
  <2> SUFFICES ASSUME NEW i \in 1..(m + 1), NEW j \in 1..(m + 1), i < j
               PROVE  key'[order'[i]] < key'[order'[j]]
    BY <1>3 DEF Sorted
  <2>1. \A x \in DOMAIN order : key'[order[x]] = key[order[x]] /\ key'[n] = k
    BY <1>5, TreeKeys DEF TypeOK
  <2>2. \A x \in DOMAIN order : (x < p => key[order[x]] < k) /\ (x >= p => k < key[order[x]])
    BY DEF Gap, p
  <2>3. CASE j < p
    BY <2>3, <1>1, <1>3, <2>1 DEF Sorted
  <2>4. CASE j = p
    BY <2>4, <1>1, <1>3, <2>1, <2>2
  <2>5. CASE i = p
    <3>1. j - 1 \in DOMAIN order /\ j - 1 >= p /\ order'[j] = order[j - 1] /\ order'[i] = n
      BY <2>5, <1>1, <1>3
    <3> QED
      BY <3>1, <2>1, <2>2
  <2>6. CASE i < p /\ j > p
    <3>1. i \in DOMAIN order /\ j - 1 \in DOMAIN order /\ i < j - 1
      BY <2>6, <1>1, <1>3
    <3> QED
      BY <2>6, <3>1, <1>3, <2>1 DEF Sorted
  <2>7. CASE i > p
    <3>1. i - 1 \in DOMAIN order /\ j - 1 \in DOMAIN order /\ i - 1 < j - 1
      BY <2>7, <1>1, <1>3
    <3> QED
      BY <2>7, <3>1, <1>1, <1>3, <2>1 DEF Sorted
  <2> QED
    BY <2>3, <2>4, <2>5, <2>6, <2>7, <1>1
<1>7. \A x \in Nodes : (\E i \in DOMAIN order' : order'[i] = x)
                       <=> (x = n \/ \E i \in DOMAIN order : order[i] = x)
  <2> SUFFICES ASSUME NEW x \in Nodes
               PROVE  (\E i \in DOMAIN order' : order'[i] = x)
                      <=> (x = n \/ \E i \in DOMAIN order : order[i] = x)
    OBVIOUS
  <2>1. x = n => \E i \in DOMAIN order' : order'[i] = x
    BY <1>1, <1>3
  <2>2. ASSUME NEW i \in DOMAIN order, order[i] = x
        PROVE  \E j \in DOMAIN order' : order'[j] = x
    <3>1. CASE i < p
      BY <3>1, <2>2, <1>1, <1>3
    <3>2. CASE i >= p
      <4>1. i + 1 \in 1..(m + 1) /\ i + 1 > p /\ (i + 1) - 1 = i
        BY <3>2, <1>1
      <4> QED
        BY <4>1, <1>3, <2>2
    <3> QED
      BY <3>1, <3>2, <1>1
  <2>3. ASSUME NEW j \in DOMAIN order', order'[j] = x
        PROVE  x = n \/ \E i \in DOMAIN order : order[i] = x
    BY <2>3, <1>1, <1>3
  <2> QED
    BY <2>1, <2>2, <2>3
<1>8. \A i, j \in DOMAIN order' : order'[i] = order'[j] => i = j
  <2> SUFFICES ASSUME NEW i \in 1..(m + 1), NEW j \in 1..(m + 1), order'[i] = order'[j], i < j
               PROVE  FALSE
    BY <1>1, <1>3
  <2>1. \A x \in DOMAIN order' : order'[x] \in Nodes /\ key'[order'[x]] \in Int
    <3>1. \A x \in 1..(m + 1) : order'[x] = n \/ \E y \in DOMAIN order : order'[x] = order[y]
      BY <1>1, <1>3
    <3>2. k \in Int
      BY KeysAssumption
    <3> QED
      BY <3>1, <3>2, <1>3, <1>5, TreeKeys DEF TypeOK
  <2> QED
    BY <1>3, <1>6, <2>1 DEF Sorted
<1>9. NodesOwned'
  <2>1. \A x \in Nodes : own'[x] = "tree" <=> \E i \in DOMAIN order' : order'[i] = x
    BY <1>7 DEF NodesOwned, TypeOK
  <2>2. \A x \in Nodes : own'[x] \in {"node", "tree"} <=> key'[x] # None
    BY KeysAssumption DEF NodesOwned, TypeOK
  <2> QED
    BY <2>1, <2>2, <1>8 DEF NodesOwned
<1> QED
  BY <1>4, <1>6, <1>9

\* Erasing a node of the tree, whether the caller gets the node or its value.
LEMMA Erased ==
    ASSUME TypeOK, Sorted, NodesOwned,
           NEW n \in Nodes, own[n] = "tree",
           RbErase(n),
           \/ TakeNode(n)
           \/ TakeValue(n)
    PROVE  /\ order' \in Seq(Nodes) /\ Sorted' /\ NodesOwned'
           /\ key' \in [Nodes -> Keys \cup {None}]
           /\ val' \in [Nodes -> Values \cup {None}]
           /\ own' \in [Nodes -> {"free", "reserved", "node", "tree"}]
           /\ \A x \in Nodes \ {n} : own'[x] = own[x]
<1> DEFINE p == Pos(n)
<1> DEFINE m == Len(order)
<1>1. m \in Nat /\ DOMAIN order = 1..m /\ p \in 1..m /\ order[p] = n
  BY PosOK DEF TypeOK
<1>2. order' = [i \in 1..(m - 1) |-> IF i < p THEN order[i] ELSE order[i + 1]]
  BY DEF RbErase
<1> HIDE DEF p
<1>3. /\ DOMAIN order' = 1..(m - 1)
      /\ \A i \in 1..(m - 1) : /\ i < p => i \in DOMAIN order /\ order'[i] = order[i]
                               /\ i >= p => i + 1 \in DOMAIN order /\ order'[i] = order[i + 1]
  BY <1>1, <1>2
<1>4. order' \in Seq(Nodes)
  <2>1. \A i \in 1..(m - 1) : order'[i] \in Nodes
    BY <1>1, <1>3, TreeKeys
  <2>2. order' \in [1..(m - 1) -> Nodes] /\ m - 1 \in Nat
    BY <1>1, <1>2, <1>3, <2>1
  <2> QED
    BY <2>2, SeqDef
<1>5. \A i, j \in DOMAIN order : order[i] = order[j] => i = j
  BY DEF NodesOwned
<1>6. \A x \in Nodes : (\E i \in DOMAIN order' : order'[i] = x)
                       <=> (x # n /\ \E i \in DOMAIN order : order[i] = x)
  <2> SUFFICES ASSUME NEW x \in Nodes
               PROVE  (\E i \in DOMAIN order' : order'[i] = x)
                      <=> (x # n /\ \E i \in DOMAIN order : order[i] = x)
    OBVIOUS
  <2>1. ASSUME NEW i \in DOMAIN order, order[i] = x, x # n
        PROVE  \E j \in DOMAIN order' : order'[j] = x
    <3>1. i # p
      BY <2>1, <1>1
    <3>2. CASE i < p
      <4>1. i \in 1..(m - 1)
        BY <3>2, <1>1
      <4> QED
        BY <4>1, <3>2, <1>3, <2>1
    <3>3. CASE i > p
      <4>1. i - 1 \in 1..(m - 1) /\ i - 1 >= p /\ (i - 1) + 1 = i
        BY <3>3, <1>1
      <4> QED
        BY <4>1, <1>3, <2>1
    <3> QED
      BY <3>1, <3>2, <3>3, <1>1
  <2>2. ASSUME NEW j \in DOMAIN order', order'[j] = x
        PROVE  x # n /\ \E i \in DOMAIN order : order[i] = x
    <3>1. PICK i \in DOMAIN order : i # p /\ order'[j] = order[i]
      BY <1>1, <1>3
    <3> QED
      BY <3>1, <2>2, <1>1, <1>5
  <2> QED
    BY <2>1, <2>2
<1>7. /\ \A x \in Nodes \ {n} : own'[x] = own[x] /\ key'[x] = key[x]
      /\ own'[n] # "tree" /\ (own'[n] \in {"node", "tree"} <=> key'[n] # None)
      /\ key' \in [Nodes -> Keys \cup {None}]
      /\ val' \in [Nodes -> Values \cup {None}]
      /\ own' \in [Nodes -> {"free", "reserved", "node", "tree"}]
  <2>1. key[n] # None
    BY DEF NodesOwned
  <2>2. CASE TakeNode(n)
    BY <2>1, <2>2 DEF TakeNode, TypeOK
  <2>3. CASE TakeValue(n)
    BY <2>3 DEF TakeValue, TypeOK
  <2> QED
    BY <2>2, <2>3
<1>8. Sorted'
  <2> SUFFICES ASSUME NEW i \in 1..(m - 1), NEW j \in 1..(m - 1), i < j
               PROVE  key'[order'[i]] < key'[order'[j]]
    BY <1>3 DEF Sorted
  <2>1. PICK a \in DOMAIN order, b \in DOMAIN order :
            a < b /\ a # p /\ b # p /\ order'[i] = order[a] /\ order'[j] = order[b]
    <3>1. CASE j < p
      <4>1. i \in DOMAIN order /\ j \in DOMAIN order /\ i # p /\ j # p /\ i < p
        BY <3>1, <1>1, <1>3
      <4> QED
        BY <4>1, <3>1, <1>3
    <3>2. CASE i < p /\ j >= p
      <4>1. i \in DOMAIN order /\ j + 1 \in DOMAIN order /\ i < j + 1 /\ j + 1 # p /\ i # p
        BY <3>2, <1>1, <1>3
      <4> QED
        BY <4>1, <3>2, <1>3
    <3>3. CASE i >= p
      <4>1. i + 1 \in DOMAIN order /\ j + 1 \in DOMAIN order /\ i + 1 < j + 1 /\ j + 1 # p /\ i + 1 # p
        BY <3>3, <1>1, <1>3
      <4> QED
        BY <4>1, <3>3, <1>1, <1>3
    <3> QED
      BY <3>1, <3>2, <3>3, <1>1
  <2>2. order[a] # n /\ order[b] # n
    BY <2>1, <1>1, <1>5
  <2> QED
    BY <2>1, <2>2, <1>7, TreeKeys DEF Sorted
<1>9. \A i, j \in DOMAIN order' : order'[i] = order'[j] => i = j
  <2> SUFFICES ASSUME NEW i \in 1..(m - 1), NEW j \in 1..(m - 1), order'[i] = order'[j]
               PROVE  i = j
    BY <1>3
  <2>1. CASE i < p /\ j < p
    BY <2>1, <1>3, <1>5
  <2>2. CASE i >= p /\ j >= p
    <3>1. i + 1 = j + 1
      BY <2>2, <1>3, <1>5
    <3> QED
      BY <3>1
  <2>3. CASE i < p /\ j >= p
    BY <2>3, <1>1, <1>3, <1>5
  <2>4. CASE i >= p /\ j < p
    BY <2>4, <1>1, <1>3, <1>5
  <2> QED
    BY <2>1, <2>2, <2>3, <2>4, <1>1
<1>10. NodesOwned'
  <2>1. \A x \in Nodes : own'[x] = "tree" <=> \E i \in DOMAIN order' : order'[i] = x
    BY <1>6, <1>7 DEF NodesOwned
  <2>2. \A x \in Nodes : own'[x] \in {"node", "tree"} <=> key'[x] # None
    BY <1>7 DEF NodesOwned
  <2> QED
    BY <2>1, <2>2, <1>9 DEF NodesOwned
<1> QED
  BY <1>4, <1>7, <1>8, <1>10

\* Putting a node with the same key in a node's place.
LEMMA Replaced ==
    ASSUME TypeOK, Sorted, NodesOwned,
           NEW i \in DOMAIN order,
           NEW n \in Nodes, own[n] = "node", key[n] = key[order[i]],
           Replace(order[i], n), UNCHANGED key
    PROVE  /\ order' \in Seq(Nodes) /\ Sorted' /\ NodesOwned'
           /\ own' \in [Nodes -> {"free", "reserved", "node", "tree"}]
<1>1. order' = [order EXCEPT ![i] = n] /\ own' = [own EXCEPT ![n] = "tree", ![order[i]] = "node"]
  BY PosOf DEF Replace, RbReplace
<1>2. order[i] \in Nodes /\ own[order[i]] = "tree" /\ order[i] # n
  BY TreeKeys
<1>3. order' \in Seq(Nodes) /\ DOMAIN order' = DOMAIN order
  BY <1>1 DEF TypeOK
<1>4. \A j \in DOMAIN order : order'[j] = IF j = i THEN n ELSE order[j]
  BY <1>1
<1>5. Sorted'
  BY <1>3, <1>4 DEF Sorted
<1>6. \A j \in DOMAIN order : order[j] # n
  BY TreeKeys
<1>7. NodesOwned'
  <2>1. \A x \in Nodes : own'[x] = "tree" <=> \E j \in DOMAIN order' : order'[j] = x
    <3> SUFFICES ASSUME NEW x \in Nodes
                 PROVE  own'[x] = "tree" <=> \E j \in DOMAIN order : order'[j] = x
      BY <1>3
    <3>1. CASE x = n
      BY <3>1, <1>1, <1>2, <1>4 DEF TypeOK
    <3>2. CASE x = order[i]
      <4>1. own'[x] = "node"
        BY <3>2, <1>1, <1>2 DEF TypeOK
      <4>2. \A j \in DOMAIN order : order'[j] # x
        BY <3>2, <1>2, <1>4 DEF NodesOwned
      <4> QED
        BY <4>1, <4>2
    <3>3. CASE x # n /\ x # order[i]
      <4>1. own'[x] = own[x]
        BY <3>3, <1>1 DEF TypeOK
      <4>2. \A j \in DOMAIN order : order'[j] = x <=> order[j] = x
        BY <3>3, <1>4
      <4> QED
        BY <4>1, <4>2 DEF NodesOwned
    <3> QED
      BY <3>1, <3>2, <3>3
  <2>2. \A j, k \in DOMAIN order' : order'[j] = order'[k] => j = k
    BY <1>3, <1>4, <1>6 DEF NodesOwned
  <2>3. \A x \in Nodes : own'[x] \in {"node", "tree"} <=> own[x] \in {"node", "tree"}
    BY <1>1, <1>2 DEF TypeOK
  <2>4. \A x \in Nodes : own'[x] \in {"node", "tree"} <=> key'[x] # None
    BY <2>3 DEF NodesOwned
  <2> QED
    BY <2>1, <2>2, <2>4 DEF NodesOwned
<1>8. own' \in [Nodes -> {"free", "reserved", "node", "tree"}]
  BY <1>1 DEF TypeOK
<1> QED
  BY <1>3, <1>5, <1>7, <1>8

-----------------------------------------------------------------------------
\* The types of the tree's variables.
TreeType ==
    /\ order \in Seq(Nodes)
    /\ key \in [Nodes -> Keys \cup {None}]
    /\ val \in [Nodes -> Values \cup {None}]
    /\ own \in [Nodes -> {"free", "reserved", "node", "tree"}]

\* A call that returns leaves no loop behind.
LEMMA ReturnStep ==
    ASSUME TypeOK, NEW p \in {"idle", "occupied", "cursor", "iter"}, NEW r, Return(p, r),
           TreeType', Sorted', NodesOwned',
           cur' \in Nodes \cup {None},
           p \in {"occupied", "cursor"} => cur' # None /\ own'[cur'] = "tree",
           p = "iter" => cur' = None \/ own'[cur'] = "tree"
    PROVE  IInv'
<1>1. pc' = p /\ pc' \notin Loops /\ pc' # "vacant" /\ pc' # "search" /\ pc' # "bound"
  BY DEF Return, Loops
<1>2. TypeOK'
  BY <1>1 DEF TypeOK, TreeType, Return, Calls, Views
<1>3. ViewInTree'
  BY <1>1 DEF ViewInTree
<1>4. LoopInv' /\ SearchInv' /\ VacantInv' /\ BoundInv'
  BY <1>1 DEF LoopInv, SearchInv, VacantInv, BoundInv
<1> QED
  BY <1>2, <1>3, <1>4 DEF IInv

\* A step that changes no key, no link and no owner keeps the tree as it is.
LEMMA SameTree ==
    ASSUME TypeOK, Sorted, NodesOwned, UNCHANGED <<order, key, own>>,
           val' \in [Nodes -> Values \cup {None}]
    PROVE  TreeType' /\ Sorted' /\ NodesOwned'
<1>1. TreeType'
  BY DEF TypeOK, TreeType
<1>2. Sorted'
  BY DEF Sorted
<1>3. NodesOwned'
  BY DEF NodesOwned
<1> QED
  BY <1>1, <1>2, <1>3

\* A step on an allocation that is not in the tree, outside the tree's calls.
LEMMA OutsideStep ==
    ASSUME IInv, Returned, NEW n \in Nodes, own[n] # "tree",
           NEW o \in {"free", "reserved", "node"},
           NEW k \in Keys \cup {None}, NEW v \in Values \cup {None},
           o = "node" <=> k # None,
           own' = [own EXCEPT ![n] = o],
           key' = [key EXCEPT ![n] = k],
           val' = [val EXCEPT ![n] = v],
           UNCHANGED <<order, pc, cur, loop>>
    PROVE  IInv'
<1> USE DEF IInv
<1>1. /\ \A x \in Nodes \ {n} : own'[x] = own[x] /\ key'[x] = key[x]
      /\ own'[n] = o /\ key'[n] = k
  BY DEF TypeOK
<1>2. \A i \in DOMAIN order : order[i] \in Nodes \ {n}
  BY TreeKeys
<1>3. TypeOK'
  BY DEF TypeOK, loop
<1>4. Sorted'
  BY <1>1, <1>2 DEF Sorted
<1>5. NodesOwned'
  <2>1. \A x \in Nodes : own'[x] = "tree" <=> own[x] = "tree"
    BY <1>1
  <2>2. \A x \in Nodes : own'[x] \in {"node", "tree"} <=> key'[x] # None
    BY <1>1 DEF NodesOwned
  <2> QED
    BY <2>1, <2>2 DEF NodesOwned
<1>6. ViewInTree'
  BY <1>1 DEF ViewInTree, TypeOK, loop
<1>7. LoopInv' /\ SearchInv' /\ BoundInv'
  BY DEF Returned, Loops, LoopInv, SearchInv, BoundInv
<1>8. VacantInv'
  <2> SUFFICES ASSUME pc = "vacant"
               PROVE  arg' \in Keys /\ LinkPos' \in 1..(Len(order') + 1) /\ Gap(LinkPos, arg)'
    BY DEF VacantInv
  <2>1. LinkPos' = LinkPos /\ arg' = arg
    BY DEF LinkPos, Pos, loop
  <2>2. \A i \in DOMAIN order : key'[order[i]] = key[order[i]]
    BY <1>1, <1>2
  <2> QED
    BY <2>1, <2>2 DEF VacantInv, Gap
<1> QED
  BY <1>3, <1>4, <1>5, <1>6, <1>7, <1>8

LEMMA AllocStep ==
    ASSUME IInv, NEW n \in Nodes,
           \/ Reserve(n) \/ IntoReservation(n) \/ FreeNode(n)
           \/ \E k \in Keys, v \in Values : IntoNode(n, k, v)
    PROVE  IInv'
<1>0. key[n] \in Keys \cup {None} /\ val[n] \in Values \cup {None}
  BY DEF IInv, TypeOK
<1>1. CASE Reserve(n)
  <2>1. key[n] = None
    BY <1>1 DEF Reserve, IInv, NodesOwned
  <2>2. key' = [key EXCEPT ![n] = None] /\ val' = [val EXCEPT ![n] = val[n]]
    BY <1>1, <2>1 DEF Reserve, IInv, TypeOK
  <2> QED
    BY <1>0, <1>1, <2>2, OutsideStep DEF Reserve
<1>2. CASE IntoReservation(n)
  BY <1>2, OutsideStep DEF IntoReservation
<1>3. CASE FreeNode(n)
  BY <1>3, OutsideStep DEF FreeNode
<1>4. ASSUME NEW k \in Keys, NEW v \in Values, IntoNode(n, k, v)
      PROVE  IInv'
  BY <1>4, OutsideStep, KeysAssumption DEF IntoNode
<1> QED
  BY <1>1, <1>2, <1>3, <1>4

-----------------------------------------------------------------------------
\* A loop begins with the whole tree.
LEMMA StartStep ==
    ASSUME IInv, NEW p \in Loops, NEW k \in Keys, Start(p, k),
           then' \in Calls, new' \in Nodes \cup {None},
           p = "search" /\ then' = "insert" => new' \in Nodes /\ own[new'] = "node" /\ key[new'] = k
    PROVE  IInv'
<1>1. Len(order) \in Nat /\ DOMAIN order = 1..Len(order)
  BY DEF IInv, TypeOK
<1>2. UNCHANGED <<order, key, val, own, cur>> /\ pc' = p /\ arg' = k /\ lo' = 1
      /\ hi' = Len(order) /\ parent' = None /\ child' = "root" /\ best' = None
  BY DEF Start
<1>3. TreeType' /\ Sorted' /\ NodesOwned'
  BY <1>2, SameTree DEF IInv, TypeOK
<1>4. TypeOK'
  BY <1>1, <1>2, <1>3 DEF TypeOK, IInv, TreeType
<1>5. ViewInTree' /\ VacantInv' /\ BoundInv'
  BY <1>2 DEF ViewInTree, VacantInv, BoundInv, Loops
<1>6. LoopInv'
  BY <1>1, <1>2 DEF LoopInv
<1>7. SearchInv'
  BY <1>2 DEF SearchInv
<1> QED
  BY <1>3, <1>4, <1>5, <1>6, <1>7 DEF IInv

LEMMA CallStep ==
    ASSUME IInv,
           \/ \E n \in Nodes : Insert(n)
           \/ \E call \in Calls, k \in Keys : Lookup(call, k)
           \/ \E k \in Keys : Get(k) \/ CursorLowerBound(k)
    PROVE  IInv'
<1>1. ASSUME NEW n \in Nodes, Insert(n)
      PROVE  IInv'
  <2>1. key[n] \in Keys
    BY <1>1 DEF Insert, IInv, TypeOK, NodesOwned
  <2> QED
    BY <1>1, <2>1, StartStep DEF Insert, Loops, Calls
<1>2. ASSUME NEW call \in Calls, NEW k \in Keys, Lookup(call, k)
      PROVE  IInv'
  BY <1>2, StartStep DEF Lookup, Loops, Calls
<1>3. ASSUME NEW k \in Keys, Get(k)
      PROVE  IInv'
  BY <1>3, StartStep DEF Get, Loops, IInv, TypeOK
<1>4. ASSUME NEW k \in Keys, CursorLowerBound(k)
      PROVE  IInv'
  BY <1>4, StartStep DEF CursorLowerBound, Loops, IInv, TypeOK
<1> QED
  BY <1>1, <1>2, <1>3, <1>4

\* An iteration that goes left or right: the half it leaves is on the right side.
LEMMA Halved ==
    ASSUME IInv, pc \in Loops, NEW i \in lo..hi,
           \/ arg < key[order[i]] /\ GoLeft(i)
           \/ arg > key[order[i]] /\ GoRight(i),
           UNCHANGED <<order, key, own, pc, arg>>
    PROVE  LoopInv' /\ lo' \in Nat /\ hi' \in Nat /\ i \in DOMAIN order
<1>1. /\ Len(order) \in Nat /\ DOMAIN order = 1..Len(order)
      /\ lo \in Nat /\ hi \in Nat /\ arg \in Keys /\ arg \in Int
      /\ lo >= 1 /\ lo <= hi + 1 /\ hi <= Len(order)
      /\ \A j \in DOMAIN order : (j < lo => key[order[j]] < arg) /\ (j > hi => arg < key[order[j]])
  BY KeysAssumption DEF IInv, TypeOK, LoopInv
<1>2. i \in DOMAIN order
  BY <1>1
<1>3. \A j \in DOMAIN order : key[order[j]] \in Int
  BY TreeKeys DEF IInv
<1>4. CASE arg < key[order[i]] /\ GoLeft(i)
  <2>1. lo' = lo /\ hi' = i - 1 /\ lo' >= 1 /\ lo' <= hi' + 1 /\ hi' <= Len(order) /\ hi' \in Nat
    BY <1>4, <1>1 DEF GoLeft
  <2>2. \A j \in DOMAIN order : j > i - 1 => arg < key[order[j]]
    BY <1>1, <1>2, <1>3, <1>4 DEF IInv, Sorted
  <2> QED
    BY <1>1, <1>2, <2>1, <2>2 DEF LoopInv
<1>5. CASE arg > key[order[i]] /\ GoRight(i)
  <2>1. hi' = hi /\ lo' = i + 1 /\ lo' >= 1 /\ lo' <= hi' + 1 /\ hi' <= Len(order) /\ lo' \in Nat
    BY <1>5, <1>1 DEF GoRight
  <2>2. \A j \in DOMAIN order : j < i + 1 => key[order[j]] < arg
    BY <1>1, <1>2, <1>3, <1>5 DEF IInv, Sorted
  <2> QED
    BY <1>1, <1>2, <2>1, <2>2 DEF LoopInv
<1> QED
  BY <1>4, <1>5

LEMMA DescendStep ==
    ASSUME IInv, NEW i \in DOMAIN order,
           Descend(i) \/ GetDescend(i) \/ BoundDescend(i)
    PROVE  IInv'
<1>1. /\ i \in lo..hi /\ pc \in Loops
      /\ \/ arg < key[order[i]] /\ GoLeft(i)
         \/ arg > key[order[i]] /\ GoRight(i)
      /\ UNCHANGED <<order, key, val, own, pc, then, arg, new, cur>>
  BY DEF Descend, GetDescend, BoundDescend, Loops
<1>2. LoopInv' /\ lo' \in Nat /\ hi' \in Nat
  BY <1>1, Halved
<1>3. TreeType' /\ Sorted' /\ NodesOwned'
  BY <1>1, SameTree DEF IInv, TypeOK
<1>4. order[i] \in Nodes /\ own[order[i]] = "tree"
  BY TreeKeys DEF IInv
<1>5. parent' \in Nodes \cup {None} /\ child' \in {"root", "left", "right"} /\ best' \in Nodes \cup {None}
  BY <1>4 DEF Descend, GetDescend, BoundDescend, IInv, TypeOK
<1>6. TypeOK'
  BY <1>1, <1>2, <1>3, <1>5 DEF TypeOK, TreeType, IInv
<1>7. ViewInTree' /\ VacantInv'
  BY <1>1 DEF ViewInTree, VacantInv, Loops
<1>8. SearchInv'
  <2> SUFFICES ASSUME pc = "search"
               PROVE  SearchInv'
    BY <1>1 DEF SearchInv
  <2>1. Descend(i)
    BY DEF GetDescend, BoundDescend
  <2>2. DOMAIN order = 1..Len(order) /\ lo \in Nat /\ hi \in Nat /\ i \in Nat
    BY DEF IInv, TypeOK
  <2>3. CASE arg < key[order[i]] /\ GoLeft(i) /\ child' = "left"
    <3>1. hi' = i - 1 /\ hi' < Len(order) /\ hi' + 1 = i
      BY <2>3, <2>2 DEF GoLeft
    <3> QED
      BY <3>1, <2>1, <2>3, <1>1 DEF SearchInv, Descend, IInv
  <2>4. CASE arg > key[order[i]] /\ GoRight(i) /\ child' = "right"
    <3>1. lo' = i + 1 /\ lo' > 1 /\ lo' - 1 = i
      BY <2>4, <2>2 DEF GoRight
    <3> QED
      BY <3>1, <2>1, <2>4, <1>1 DEF SearchInv, Descend, IInv
  <2> QED
    BY <2>1, <2>3, <2>4 DEF Descend
<1>9. BoundInv'
  BY <1>1, <1>4 DEF BoundInv, BoundDescend, Descend, GetDescend, IInv
<1> QED
  BY <1>2, <1>3, <1>6, <1>7, <1>8, <1>9 DEF IInv

\* Where raw_entry gives up is where the key belongs.
LEMMA AtNullGap ==
    ASSUME IInv, AtNull
    PROVE  /\ arg \in Keys
           /\ LinkPos \in 1..(Len(order) + 1)
           /\ Gap(LinkPos, arg)
           /\ parent # None => own[parent] = "tree"
<1>1. /\ Len(order) \in Nat /\ DOMAIN order = 1..Len(order)
      /\ lo \in Nat /\ hi \in Nat /\ arg \in Keys
      /\ lo >= 1 /\ lo = hi + 1 /\ hi <= Len(order)
      /\ \A j \in DOMAIN order : (j < lo => key[order[j]] < arg) /\ (j > hi => arg < key[order[j]])
  BY DEF IInv, TypeOK, LoopInv, AtNull, Loops
<1>2. LinkPos = lo /\ (parent # None => own[parent] = "tree")
  <2>1. CASE parent = None /\ lo = 1 /\ hi = Len(order)
    BY <2>1 DEF LinkPos
  <2>2. CASE child = "left" /\ hi < Len(order) /\ parent = order[hi + 1]
    <3>1. hi + 1 \in DOMAIN order
      BY <2>2, <1>1
    <3>2. Pos(parent) = hi + 1 /\ parent \in Nodes /\ own[parent] = "tree"
      BY <2>2, <3>1, PosOf, TreeKeys DEF IInv
    <3> QED
      BY <2>2, <3>2, <1>1, NoneAssumption DEF LinkPos
  <2>3. CASE child = "right" /\ lo > 1 /\ parent = order[lo - 1]
    <3>1. lo - 1 \in DOMAIN order
      BY <2>3, <1>1
    <3>2. Pos(parent) = lo - 1 /\ parent \in Nodes /\ own[parent] = "tree"
      BY <2>3, <3>1, PosOf, TreeKeys DEF IInv
    <3> QED
      BY <2>3, <3>2, <1>1, NoneAssumption DEF LinkPos
  <2> QED
    BY <2>1, <2>2, <2>3 DEF IInv, SearchInv, AtNull
<1>3. Gap(lo, arg)
  BY <1>1 DEF Gap
<1> QED
  BY <1>1, <1>2, <1>3

-----------------------------------------------------------------------------
\* The ends of raw_entry.
LEMMA InsertReplacesStep ==
    ASSUME IInv, NEW i \in DOMAIN order, InsertReplaces(i)
    PROVE  IInv'
<1>1. /\ new \in Nodes /\ own[new] = "node" /\ key[new] = key[order[i]]
      /\ Replace(order[i], new) /\ UNCHANGED <<key, val, cur>>
      /\ Return("idle", <<"insert", arg, val[order[i]]>>)
  BY DEF InsertReplaces, AtEqual, IInv, SearchInv
<1>2. TreeType' /\ Sorted' /\ NodesOwned'
  BY <1>1, Replaced DEF IInv, TypeOK, TreeType
<1> QED
  BY <1>1, <1>2, ReturnStep DEF IInv, TypeOK

LEMMA InsertLinksStep ==
    ASSUME IInv, InsertLinks
    PROVE  IInv'
<1>1. /\ AtNull /\ new \in Nodes /\ own[new] = "node" /\ key[new] = arg
      /\ RbLink(new) /\ own' = [own EXCEPT ![new] = "tree"]
      /\ UNCHANGED <<key, val, cur>>
      /\ Return("idle", <<"insert", arg, None>>)
  BY DEF InsertLinks, AtNull, IInv, SearchInv
<1>2. key' = [key EXCEPT ![new] = arg]
  BY <1>1 DEF IInv, TypeOK
<1>3. order' \in Seq(Nodes) /\ Sorted' /\ NodesOwned'
  BY <1>1, <1>2, AtNullGap, Linked DEF IInv
<1>4. TreeType'
  BY <1>1, <1>3 DEF TreeType, IInv, TypeOK
<1> QED
  BY <1>1, <1>3, <1>4, ReturnStep DEF IInv, TypeOK

LEMMA EntryOccupiedStep ==
    ASSUME IInv, NEW i \in DOMAIN order, EntryOccupied(i)
    PROVE  IInv'
<1>1. /\ UNCHANGED <<order, key, val, own>> /\ cur' = order[i]
      /\ Return("occupied", <<then, arg, val[order[i]]>>)
  BY DEF EntryOccupied, tree
<1>2. TreeType' /\ Sorted' /\ NodesOwned'
  BY <1>1, SameTree DEF IInv, TypeOK
<1>3. order[i] \in Nodes /\ own[order[i]] = "tree"
  BY TreeKeys DEF IInv
<1> QED
  BY <1>1, <1>2, <1>3, NoneAssumption, ReturnStep DEF IInv

LEMMA EntryVacantStep ==
    ASSUME IInv, EntryVacant
    PROVE  IInv'
<1>1. /\ AtNull /\ pc' = "vacant" /\ UNCHANGED <<order, key, val, own, cur, arg, parent, child>>
      /\ then' = "entry" /\ new' = None /\ lo' = 1 /\ hi' = 0 /\ best' = None
  BY DEF EntryVacant, Return
<1>2. TreeType' /\ Sorted' /\ NodesOwned'
  BY <1>1, SameTree DEF IInv, TypeOK
<1>3. TypeOK'
  BY <1>1, <1>2 DEF TypeOK, TreeType, IInv, Calls, Views
<1>4. LoopInv' /\ SearchInv' /\ BoundInv'
  BY <1>1 DEF LoopInv, SearchInv, BoundInv, Loops
<1>5. LinkPos' = LinkPos /\ Gap(LinkPos, arg)' = Gap(LinkPos, arg)
  BY <1>1 DEF LinkPos, Pos, Gap
<1>6. VacantInv' /\ ViewInTree'
  BY <1>1, <1>5, AtNullGap DEF VacantInv, ViewInTree
<1> QED
  BY <1>2, <1>3, <1>4, <1>6 DEF IInv

LEMMA RemoveFoundStep ==
    ASSUME IInv, NEW i \in DOMAIN order, RemoveFound(i)
    PROVE  IInv'
<1>1. order[i] \in Nodes /\ own[order[i]] = "tree"
  BY TreeKeys DEF IInv
<1>2. TreeType' /\ Sorted' /\ NodesOwned'
  BY <1>1, Erased DEF RemoveFound, IInv, TreeType
<1>3. Return("idle", <<then, arg, val[order[i]]>>) /\ cur' \in Nodes \cup {None}
  BY DEF RemoveFound, IInv, TypeOK
<1> QED
  BY <1>2, <1>3, ReturnStep DEF IInv

\* The calls that return and leave the tree and the view alone.
LEMMA NothingStep ==
    ASSUME IInv,
           \/ NotFound \/ GetMissing
           \/ \E i \in DOMAIN order : GetFound(i)
    PROVE  IInv'
<1>1. UNCHANGED <<order, key, val, own, cur>> /\ \E r : Return("idle", r)
  BY DEF NotFound, GetMissing, GetFound
<1>2. TreeType' /\ Sorted' /\ NodesOwned'
  BY <1>1, SameTree DEF IInv, TypeOK
<1> QED
  BY <1>1, <1>2, ReturnStep DEF IInv, TypeOK

-----------------------------------------------------------------------------
\* Entries.
LEMMA VacantInsertStep ==
    ASSUME IInv, NEW n \in Nodes, NEW v \in Values, VacantInsert(n, v)
    PROVE  IInv'
<1>1. arg \in Keys /\ LinkPos \in 1..(Len(order) + 1) /\ Gap(LinkPos, arg)
  BY DEF VacantInsert, IInv, VacantInv
<1>2. order' \in Seq(Nodes) /\ Sorted' /\ NodesOwned'
  BY <1>1, Linked DEF VacantInsert, IInv
<1>3. TreeType'
  BY <1>1, <1>2 DEF VacantInsert, IInv, TypeOK, TreeType
<1>4. Return("idle", <<"vacant_insert", arg, v>>) /\ cur' \in Nodes \cup {None}
  BY DEF VacantInsert, IInv, TypeOK
<1> QED
  BY <1>2, <1>3, <1>4, ReturnStep DEF IInv

\* A write to the value of a node, made through a view that stays.
LEMMA ValueStep ==
    ASSUME IInv, pc \in {"occupied", "cursor", "iter"}, UNCHANGED <<order, key, own, pc, loop>>,
           val' \in [Nodes -> Values \cup {None}],
           cur' \in Nodes \cup {None},
           pc \in {"occupied", "cursor"} => cur' = cur,
           pc = "iter" => cur' = None \/ own[cur'] = "tree"
    PROVE  IInv'
<1>1. TreeType' /\ Sorted' /\ NodesOwned'
  BY SameTree DEF IInv
<1>2. TypeOK'
  BY <1>1 DEF IInv, TypeOK, TreeType, loop
<1>3. ViewInTree'
  BY DEF IInv, ViewInTree
<1>4. LoopInv' /\ SearchInv' /\ VacantInv' /\ BoundInv'
  BY DEF LoopInv, SearchInv, VacantInv, BoundInv, Loops
<1> QED
  BY <1>1, <1>2, <1>3, <1>4 DEF IInv

LEMMA SetValueStep ==
    ASSUME IInv, NEW v \in Values, SetValue(v)
    PROVE  IInv'
<1>1. val' \in [Nodes -> Values \cup {None}] /\ cur' \in Nodes \cup {None}
  BY DEF SetValue, IInv, TypeOK
<1> QED
  BY <1>1, ValueStep DEF SetValue

LEMMA OccupiedRemoveStep ==
    ASSUME IInv, NEW name, OccupiedRemove(name)
    PROVE  IInv'
<1>1. cur \in Nodes /\ own[cur] = "tree"
  BY DEF OccupiedRemove, IInv, ViewInTree
<1>2. TreeType' /\ Sorted' /\ NodesOwned'
  BY <1>1, Erased DEF OccupiedRemove, IInv, TreeType
<1>3. Return("idle", <<name, key[cur], val[cur]>>) /\ cur' = None
  BY DEF OccupiedRemove
<1> QED
  BY <1>2, <1>3, ReturnStep DEF IInv

LEMMA DropViewStep ==
    ASSUME IInv, DropView
    PROVE  IInv'
<1>1. UNCHANGED <<order, key, val, own>> /\ cur' = None /\ Return("idle", <<"drop_view", None, None>>)
  BY DEF DropView, tree
<1>2. TreeType' /\ Sorted' /\ NodesOwned'
  BY <1>1, SameTree DEF IInv, TypeOK
<1> QED
  BY <1>1, <1>2, ReturnStep DEF IInv

-----------------------------------------------------------------------------
\* A cursor is made at a node of the tree, or there is none.
LEMMA CursorAtStep ==
    ASSUME IInv, NEW n \in Nodes \cup {None}, n # None => own[n] = "tree",
           NEW name, NEW a, CursorAt(n, name, a), UNCHANGED tree
    PROVE  IInv'
<1>1. UNCHANGED <<order, key, val, own>> /\ cur' = n
  BY DEF tree, CursorAt
<1>2. TreeType' /\ Sorted' /\ NodesOwned'
  BY <1>1, SameTree DEF IInv, TypeOK
<1>3. CASE n = None
  <2>1. Return("idle", <<name, a, KeyOf(n), ValOf(n)>>)
    BY <1>3 DEF CursorAt
  <2> QED
    BY <1>1, <1>2, <1>3, <2>1, ReturnStep DEF IInv
<1>4. CASE n # None
  <2>1. Return("cursor", <<name, a, KeyOf(n), ValOf(n)>>)
    BY <1>4 DEF CursorAt
  <2> QED
    BY <1>1, <1>2, <1>4, <2>1, ReturnStep DEF IInv
<1> QED
  BY <1>3, <1>4

\* What the C tree gives is null or a node of the tree, and not the node asked.
LEMMA NodeInTree ==
    ASSUME IInv, NEW i
    PROVE  Node(i) \in Nodes \cup {None} /\ (Node(i) # None => own[Node(i)] = "tree")
BY TreeKeys DEF IInv, Node

LEMMA NeighborInTree ==
    ASSUME IInv, cur \in Nodes, own[cur] = "tree", NEW dir
    PROVE  /\ Neighbor(dir) \in Nodes \cup {None}
           /\ Neighbor(dir) # None => own[Neighbor(dir)] = "tree"
           /\ Neighbor(dir) # cur
<1>1. Pos(cur) \in DOMAIN order /\ order[Pos(cur)] = cur /\ Pos(cur) \in Int
  BY PosOK DEF IInv, TypeOK
<1>2. \A i \in Int : i # Pos(cur) => Node(i) # cur
  BY <1>1, NoneAssumption DEF Node, IInv, NodesOwned
<1> QED
  BY <1>1, <1>2, NodeInTree DEF Neighbor, RbNext, RbPrev

LEMMA CursorStep ==
    ASSUME IInv,
           \/ CursorFront \/ CursorBack \/ BoundDone
           \/ \E i \in DOMAIN order : BoundEqual(i)
           \/ \E dir \in {"prev", "next"} : Move(dir)
    PROVE  IInv'
<1>1. CASE CursorFront
  BY <1>1, NodeInTree, CursorAtStep DEF CursorFront, RbFirst
<1>2. CASE CursorBack
  BY <1>2, NodeInTree, CursorAtStep DEF CursorBack, RbLast
<1>3. CASE BoundDone
  <2>1. best \in Nodes \cup {None} /\ (best # None => own[best] = "tree")
    BY <1>3 DEF BoundDone, IInv, TypeOK, BoundInv
  <2> QED
    BY <1>3, <2>1, CursorAtStep DEF BoundDone
<1>4. ASSUME NEW i \in DOMAIN order, BoundEqual(i)
      PROVE  IInv'
  <2>1. order[i] \in Nodes /\ own[order[i]] = "tree"
    BY TreeKeys DEF IInv
  <2> QED
    BY <1>4, <2>1, CursorAtStep DEF BoundEqual
<1>5. ASSUME NEW dir, Move(dir)
      PROVE  IInv'
  <2>1. cur \in Nodes /\ own[cur] = "tree"
    BY <1>5 DEF Move, IInv, ViewInTree
  <2> QED
    BY <1>5, <2>1, NeighborInTree, CursorAtStep DEF Move
<1> QED
  BY <1>1, <1>2, <1>3, <1>4, <1>5

LEMMA PeekMutStep ==
    ASSUME IInv, NEW dir, NEW v \in Values, PeekMut(dir, v)
    PROVE  IInv'
<1>1. cur \in Nodes /\ own[cur] = "tree" /\ val \in [Nodes -> Values \cup {None}]
  BY DEF PeekMut, IInv, ViewInTree, TypeOK
<1>2. Neighbor(dir) \in Nodes \cup {None}
  BY <1>1, NeighborInTree
<1>3. val' \in [Nodes -> Values \cup {None}]
  BY <1>1, <1>2 DEF PeekMut
<1> QED
  BY <1>1, <1>3, ValueStep DEF PeekMut

\* remove_prev, remove_next: the cursor's own node stays in the tree.
LEMMA RemoveNeighborStep ==
    ASSUME IInv, NEW dir, RemoveNeighbor(dir)
    PROVE  IInv'
<1>1. cur \in Nodes /\ own[cur] = "tree" /\ pc = "cursor" /\ UNCHANGED <<pc, cur, loop>>
  BY DEF RemoveNeighbor, IInv, ViewInTree
<1>2. /\ Neighbor(dir) \in Nodes \cup {None} /\ Neighbor(dir) # cur
      /\ Neighbor(dir) # None => own[Neighbor(dir)] = "tree"
  BY <1>1, NeighborInTree
<1>3. CASE Neighbor(dir) = None
  <2>1. UNCHANGED <<order, key, val, own>>
    BY <1>3 DEF RemoveNeighbor, tree
  <2>2. val' \in [Nodes -> Values \cup {None}] /\ cur' \in Nodes \cup {None}
    BY <1>1, <2>1 DEF IInv, TypeOK
  <2> QED
    BY <1>1, <2>1, <2>2, ValueStep
<1>4. CASE Neighbor(dir) # None
  <2>1. TreeType' /\ Sorted' /\ NodesOwned' /\ own'[cur] = "tree"
    BY <1>1, <1>2, <1>4, Erased DEF RemoveNeighbor, IInv, TreeType
  <2>2. TypeOK'
    BY <1>1, <2>1 DEF IInv, TypeOK, TreeType, loop
  <2>3. ViewInTree'
    BY <1>1, <2>1 DEF ViewInTree
  <2>4. LoopInv' /\ SearchInv' /\ VacantInv' /\ BoundInv'
    BY <1>1 DEF LoopInv, SearchInv, VacantInv, BoundInv, Loops
  <2> QED
    BY <2>1, <2>2, <2>3, <2>4 DEF IInv
<1> QED
  BY <1>3, <1>4

\* remove_current: the node the cursor goes to is another one of the tree.
LEMMA RemoveCurrentStep ==
    ASSUME IInv, RemoveCurrent
    PROVE  IInv'
<1> DEFINE r == <<"remove_current", key[cur], val[cur]>>
<1>1. cur \in Nodes /\ own[cur] = "tree"
  BY DEF RemoveCurrent, IInv, ViewInTree
<1>2. /\ Survivor \in Nodes \cup {None} /\ Survivor # cur
      /\ Survivor # None => own[Survivor] = "tree"
  BY <1>1, NeighborInTree DEF Survivor
<1>3. TreeType' /\ Sorted' /\ NodesOwned' /\ \A x \in Nodes \ {cur} : own'[x] = own[x]
  BY <1>1, Erased DEF RemoveCurrent, IInv, TreeType
<1>4. cur' = Survivor /\ Return(IF Survivor = None THEN "idle" ELSE "cursor", r)
  BY DEF RemoveCurrent
<1> HIDE DEF r
<1>5. CASE Survivor = None
  BY <1>2, <1>3, <1>4, <1>5, ReturnStep DEF IInv
<1>6. CASE Survivor # None
  <2>1. own'[cur'] = "tree" /\ cur' # None /\ Return("cursor", r)
    BY <1>2, <1>3, <1>4, <1>6
  <2> QED
    BY <1>2, <1>3, <1>4, <2>1, ReturnStep DEF IInv
<1> QED
  BY <1>5, <1>6

-----------------------------------------------------------------------------
\* Iterators and the destructor.
LEMMA IterStep ==
    ASSUME IInv, IterStart \/ \E v \in Values : IterNext(v)
    PROVE  IInv'
<1>1. CASE IterStart
  <2>1. UNCHANGED <<order, key, val, own>> /\ cur' = RbFirst /\ Return("iter", <<"iter", None, None>>)
    BY <1>1 DEF IterStart, tree
  <2>2. TreeType' /\ Sorted' /\ NodesOwned'
    BY <2>1, SameTree DEF IInv, TypeOK
  <2>3. cur' \in Nodes \cup {None} /\ (cur' = None \/ own'[cur'] = "tree")
    BY <2>1, NodeInTree DEF RbFirst
  <2> QED
    BY <2>1, <2>2, <2>3, ReturnStep DEF IInv
<1>2. ASSUME NEW v \in Values, IterNext(v)
      PROVE  IInv'
  <2>1. /\ pc = "iter" /\ UNCHANGED <<order, key, own, pc, loop>>
        /\ cur' = IF cur = None THEN None ELSE RbNext(cur)
        /\ val' = IF cur = None THEN val ELSE [val EXCEPT ![cur] = v]
    BY <1>2 DEF IterNext
  <2>2. val' \in [Nodes -> Values \cup {None}]
    BY <2>1 DEF IInv, TypeOK
  <2>3. cur' \in Nodes \cup {None} /\ (cur' = None \/ own[cur'] = "tree")
    BY <2>1, NodeInTree DEF RbNext
  <2> QED
    BY <2>1, <2>2, <2>3, ValueStep
<1> QED
  BY <1>1, <1>2

LEMMA DropTreeStep ==
    ASSUME IInv, DropTree
    PROVE  IInv'
<1>1. /\ order' = <<>> /\ UNCHANGED cur /\ Return("idle", <<"drop", None, None>>)
      /\ own' = [n \in Nodes |-> IF own[n] = "tree" THEN "free" ELSE own[n]]
      /\ key' = [n \in Nodes |-> IF own[n] = "tree" THEN None ELSE key[n]]
      /\ val' = [n \in Nodes |-> IF own[n] = "tree" THEN None ELSE val[n]]
  BY DEF DropTree
<1>2. TreeType'
  BY <1>1 DEF IInv, TypeOK, TreeType
<1>3. DOMAIN order' = {}
  BY <1>1
<1>4. Sorted'
  BY <1>3 DEF Sorted
<1>5. NodesOwned'
  <2>1. \A n \in Nodes : own'[n] # "tree"
    BY <1>1
  <2>2. \A n \in Nodes : own'[n] \in {"node", "tree"} <=> key'[n] # None
    BY <1>1 DEF IInv, NodesOwned
  <2> QED
    BY <1>3, <2>1, <2>2 DEF NodesOwned
<1> QED
  BY <1>1, <1>2, <1>4, <1>5, ReturnStep DEF IInv, TypeOK

-----------------------------------------------------------------------------
LEMMA InitHolds == Init => IInv
<1> SUFFICES ASSUME Init
             PROVE  IInv
  OBVIOUS
<1>1. order = <<>> /\ DOMAIN order = {} /\ pc = "idle"
  BY DEF Init
<1>2. TypeOK
  BY DEF Init, TypeOK, Calls, Views, Loops
<1>3. Sorted /\ NodesOwned /\ ViewInTree
  BY <1>1 DEF Init, Sorted, NodesOwned, ViewInTree
<1>4. LoopInv /\ SearchInv /\ VacantInv /\ BoundInv
  BY <1>1 DEF LoopInv, SearchInv, VacantInv, BoundInv, Loops
<1> QED
  BY <1>2, <1>3, <1>4 DEF IInv

LEMMA StutterStep ==
    ASSUME IInv, UNCHANGED vars
    PROVE  IInv'
<1>1. TypeOK' /\ Sorted' /\ NodesOwned' /\ ViewInTree'
  BY DEF IInv, TypeOK, Sorted, NodesOwned, ViewInTree, vars
<1>2. LoopInv' /\ SearchInv' /\ BoundInv'
  BY DEF IInv, LoopInv, SearchInv, BoundInv, vars
<1>3. VacantInv'
  BY DEF IInv, VacantInv, Gap, LinkPos, Pos, vars
<1> QED
  BY <1>1, <1>2, <1>3 DEF IInv

LEMMA NextStep ==
    ASSUME IInv, Next
    PROVE  IInv'
<1>1. CASE \E n \in Nodes : Reserve(n) \/ IntoReservation(n) \/ FreeNode(n) \/ Insert(n)
  BY <1>1, AllocStep, CallStep
<1>2. CASE \E n \in Nodes, k \in Keys, v \in Values : IntoNode(n, k, v)
  BY <1>2, AllocStep
<1>3. CASE \E call \in Calls, k \in Keys : Lookup(call, k)
  BY <1>3, CallStep
<1>4. CASE \E i \in DOMAIN order :
             \/ Descend(i) \/ InsertReplaces(i) \/ EntryOccupied(i) \/ RemoveFound(i)
             \/ GetDescend(i) \/ GetFound(i) \/ BoundDescend(i) \/ BoundEqual(i)
  BY <1>4, DescendStep, InsertReplacesStep, EntryOccupiedStep, RemoveFoundStep, NothingStep, CursorStep
<1>5. CASE InsertLinks \/ EntryVacant \/ NotFound \/ GetMissing \/ BoundDone
  BY <1>5, InsertLinksStep, EntryVacantStep, NothingStep, CursorStep
<1>6. CASE \E k \in Keys : Get(k) \/ CursorLowerBound(k)
  BY <1>6, CallStep
<1>7. CASE \E n \in Nodes, v \in Values : VacantInsert(n, v)
  BY <1>7, VacantInsertStep
<1>8. CASE \E v \in Values : SetValue(v) \/ IterNext(v)
  BY <1>8, SetValueStep, IterStep
<1>9. CASE \E name \in {"remove_node", "remove"} : OccupiedRemove(name)
  BY <1>9, OccupiedRemoveStep
<1>10. CASE DropView \/ CursorFront \/ CursorBack \/ RemoveCurrent \/ IterStart \/ DropTree
  BY <1>10, DropViewStep, CursorStep, RemoveCurrentStep, IterStep, DropTreeStep
<1>11. CASE \E dir \in {"prev", "next"} :
              \/ Move(dir) \/ RemoveNeighbor(dir)
              \/ \E v \in Values : PeekMut(dir, v)
  BY <1>11, CursorStep, RemoveNeighborStep, PeekMutStep
<1> QED
  BY <1>1, <1>2, <1>3, <1>4, <1>5, <1>6, <1>7, <1>8, <1>9, <1>10, <1>11 DEF Next

\* The inductive invariant: what every loop, entry and cursor of rbtree.rs knows
\* about the tree, in every state.
THEOREM Invariant == Spec => []IInv
<1>1. IInv /\ [Next]_vars => IInv'
  BY NextStep, StutterStep
<1> QED
  BY InitHolds, <1>1, PTL DEF Spec

\* Wherever raw_entry, cursor_lower_bound and the entries put a node, the keys of
\* the tree stay in strict order, for any keys and any tree.
THEOREM SortedAlways == Spec => []Sorted
<1>1. IInv => Sorted
  BY DEF IInv
<1> QED
  BY Invariant, <1>1, PTL

\* No call of the tree, its entries, cursors or iterators leaks a node, frees one
\* that is linked, or links one twice.
THEOREM NodesOwnedAlways == Spec => []NodesOwned
<1>1. IInv => NodesOwned
  BY DEF IInv
<1> QED
  BY Invariant, <1>1, PTL

\* The node pointer of a live entry, cursor or iterator is to a linked node.
THEOREM ViewInTreeAlways == Spec => []ViewInTree
<1>1. IInv => ViewInTree
  BY DEF IInv
<1> QED
  BY Invariant, <1>1, PTL

\* Order, ownership and views of the tree hold for any keys, nodes and shapes.
THEOREM TreeIsSound == Spec => []TreeInv
BY SortedAlways, NodesOwnedAlways, ViewInTreeAlways, PTL DEF TreeInv

-----------------------------------------------------------------------------
(* The tree behaves as the map of RBTreeSpec.tla.                          *)

\* Between the calls, while a loop runs and in a VacantEntry, no node is held.
CurInv == pc \notin {"occupied", "cursor", "iter"} => cur = None

\* A node that has a key has a value.
ValInv == \A n \in Nodes : key[n] # None => val[n] \in Values

\* cursor_lower_bound: the best match so far is the first node after the subtree.
BestInv == pc = "bound" => best = Node(hi + 1)

MInv == IInv /\ CurInv /\ ValInv /\ BestInv

LEMMA CurStep ==
    ASSUME CurInv, Next
    PROVE  CurInv'
<1> USE DEF CurInv, Return, Start, Loops, Views
<1>1. CASE \E n \in Nodes : Reserve(n) \/ IntoReservation(n) \/ FreeNode(n) \/ Insert(n)
  BY <1>1 DEF Reserve, IntoReservation, FreeNode, Insert
<1>2. CASE \E n \in Nodes, k \in Keys, v \in Values : IntoNode(n, k, v)
  BY <1>2 DEF IntoNode
<1>3. CASE \E call \in Calls, k \in Keys : Lookup(call, k)
  BY <1>3 DEF Lookup
<1>4. CASE \E i \in DOMAIN order :
              \/ Descend(i) \/ InsertReplaces(i) \/ EntryOccupied(i) \/ RemoveFound(i)
              \/ GetDescend(i) \/ GetFound(i) \/ BoundDescend(i) \/ BoundEqual(i)
  BY <1>4 DEF Descend, InsertReplaces, EntryOccupied, RemoveFound, GetDescend, GetFound,
              BoundDescend, BoundEqual, AtEqual, CursorAt
<1>5. CASE InsertLinks \/ EntryVacant \/ NotFound \/ GetMissing \/ BoundDone
  BY <1>5 DEF InsertLinks, EntryVacant, NotFound, GetMissing, BoundDone, AtNull, CursorAt
<1>6. CASE \E k \in Keys : Get(k) \/ CursorLowerBound(k)
  BY <1>6 DEF Get, CursorLowerBound
<1>7. CASE \E n \in Nodes, v \in Values : VacantInsert(n, v)
  BY <1>7 DEF VacantInsert
<1>8. CASE \E v \in Values : SetValue(v) \/ IterNext(v)
  BY <1>8 DEF SetValue, IterNext
<1>9. CASE \E name \in {"remove_node", "remove"} : OccupiedRemove(name)
  BY <1>9 DEF OccupiedRemove
<1>10. CASE DropView \/ CursorFront \/ CursorBack \/ RemoveCurrent \/ IterStart \/ DropTree
  BY <1>10 DEF DropView, CursorFront, CursorBack, RemoveCurrent, IterStart, DropTree, CursorAt
<1>11. CASE \E dir \in {"prev", "next"} :
               \/ Move(dir) \/ RemoveNeighbor(dir)
               \/ \E v \in Values : PeekMut(dir, v)
  BY <1>11 DEF Move, RemoveNeighbor, PeekMut, CursorAt
<1> QED
  BY <1>1, <1>2, <1>3, <1>4, <1>5, <1>6, <1>7, <1>8, <1>9, <1>10, <1>11 DEF Next

LEMMA BestStep ==
    ASSUME IInv, BestInv, Next
    PROVE  BestInv'
<1>0. Len(order) \in Nat /\ DOMAIN order = 1..Len(order) /\ hi \in Nat
  BY DEF IInv, TypeOK
<1>1. ASSUME NEW k \in Keys, CursorLowerBound(k)
      PROVE  BestInv'
  BY <1>0, <1>1 DEF CursorLowerBound, Start, BestInv, Node
<1>2. ASSUME NEW i \in DOMAIN order, BoundDescend(i)
      PROVE  BestInv'
  <2>1. i \in lo..hi /\ hi <= Len(order) /\ lo \in Nat /\ UNCHANGED order /\ pc = "bound" /\ i \in Int
    BY <1>0, <1>2 DEF BoundDescend, IInv, LoopInv, Loops, TypeOK
  <2>2. CASE hi' = hi /\ best' = best
    BY <1>2, <2>1, <2>2 DEF BestInv, Node
  <2>3. CASE hi' = i - 1 /\ best' = IF IsBetter(order[i]) THEN order[i] ELSE best
    <3>1. CASE best = None
      BY <3>1, <2>1, <2>3 DEF BestInv, IsBetter, Node
    <3>2. CASE best # None
      <4>1. hi + 1 \in DOMAIN order /\ best = order[hi + 1] /\ i < hi + 1
        BY <3>2, <2>1, <1>0 DEF BestInv, Node
      <4>2. key[order[i]] < key[best] /\ key[order[i]] \in Int /\ key[best] \in Int
        BY <4>1, TreeKeys DEF IInv, Sorted
      <4> QED
        BY <4>2, <3>2, <2>1, <2>3 DEF BestInv, IsBetter, Node
    <3> QED
      BY <3>1, <3>2
  <2> QED
    BY <1>2, <2>2, <2>3 DEF BoundDescend, GoLeft, GoRight
<1> USE DEF BestInv, Return, Start, Loops, Views
<1>3. CASE \E n \in Nodes : Reserve(n) \/ IntoReservation(n) \/ FreeNode(n) \/ Insert(n)
  BY <1>3 DEF Reserve, IntoReservation, FreeNode, Insert, loop, Node, Returned
<1>4. CASE \E n \in Nodes, k \in Keys, v \in Values : IntoNode(n, k, v)
  BY <1>4 DEF IntoNode, loop, Node, Returned
<1>5. CASE \E call \in Calls, k \in Keys : Lookup(call, k)
  BY <1>5 DEF Lookup
<1>6. CASE \E i \in DOMAIN order :
              \/ Descend(i) \/ InsertReplaces(i) \/ EntryOccupied(i) \/ RemoveFound(i)
              \/ GetDescend(i) \/ GetFound(i) \/ BoundEqual(i)
  BY <1>6 DEF Descend, InsertReplaces, EntryOccupied, RemoveFound, GetDescend, GetFound,
              BoundEqual, AtEqual, CursorAt
<1>7. CASE InsertLinks \/ EntryVacant \/ NotFound \/ GetMissing \/ BoundDone
  BY <1>7 DEF InsertLinks, EntryVacant, NotFound, GetMissing, BoundDone, AtNull, CursorAt
<1>8. CASE \E k \in Keys : Get(k)
  BY <1>8 DEF Get
<1>9. CASE \E n \in Nodes, v \in Values : VacantInsert(n, v)
  BY <1>9 DEF VacantInsert
<1>10. CASE \E v \in Values : SetValue(v) \/ IterNext(v)
  BY <1>10 DEF SetValue, IterNext
<1>11. CASE \E name \in {"remove_node", "remove"} : OccupiedRemove(name)
  BY <1>11 DEF OccupiedRemove
<1>12. CASE DropView \/ CursorFront \/ CursorBack \/ RemoveCurrent \/ IterStart \/ DropTree
  BY <1>12 DEF DropView, CursorFront, CursorBack, RemoveCurrent, IterStart, DropTree, CursorAt
<1>13. CASE \E dir \in {"prev", "next"} :
               \/ Move(dir) \/ RemoveNeighbor(dir)
               \/ \E v \in Values : PeekMut(dir, v)
  BY <1>13 DEF Move, RemoveNeighbor, PeekMut, CursorAt
<1> QED
  BY <1>1, <1>2, <1>3, <1>4, <1>5, <1>6, <1>7, <1>8, <1>9, <1>10, <1>11, <1>12, <1>13 DEF Next

LEMMA ValStep ==
    ASSUME IInv, ValInv, Next
    PROVE  ValInv'
<1>0. key \in [Nodes -> Keys \cup {None}] /\ val \in [Nodes -> Values \cup {None}]
  BY DEF IInv, TypeOK
<1>1. ASSUME UNCHANGED <<key, val>>
      PROVE  ValInv'
  BY <1>1 DEF ValInv
<1>2. ASSUME NEW n \in Nodes \cup {None}, NEW v \in Values, UNCHANGED key,
             val' = val \/ val' = [val EXCEPT ![n] = v]
      PROVE  ValInv'
  BY <1>0, <1>2 DEF ValInv
<1>3. ASSUME NEW n \in Nodes, NEW v \in Values, NEW k,
             key' = [key EXCEPT ![n] = k], val' = [val EXCEPT ![n] = v]
      PROVE  ValInv'
  BY <1>0, <1>3 DEF ValInv
<1>4. ASSUME NEW n \in Nodes, key' = [key EXCEPT ![n] = None], val' = [val EXCEPT ![n] = None]
      PROVE  ValInv'
  BY <1>0, <1>4 DEF ValInv
<1>5. ASSUME NEW n \in Nodes, TakeNode(n) \/ TakeValue(n)
      PROVE  ValInv'
  BY <1>1, <1>4, <1>5 DEF TakeNode, TakeValue
<1>6. CASE \E n \in Nodes : Reserve(n) \/ IntoReservation(n) \/ FreeNode(n) \/ Insert(n)
  BY <1>6, <1>1, <1>4 DEF Reserve, IntoReservation, FreeNode, Insert, Start
<1>7. CASE \E n \in Nodes, k \in Keys, v \in Values : IntoNode(n, k, v)
  BY <1>7, <1>3 DEF IntoNode
<1>8. CASE \E call \in Calls, k \in Keys : Lookup(call, k)
  BY <1>8, <1>1 DEF Lookup, Start
<1>9. CASE \E i \in DOMAIN order :
              \/ Descend(i) \/ InsertReplaces(i) \/ EntryOccupied(i)
              \/ GetDescend(i) \/ GetFound(i) \/ BoundDescend(i) \/ BoundEqual(i)
  BY <1>9, <1>1 DEF Descend, InsertReplaces, EntryOccupied, GetDescend, GetFound,
                    BoundDescend, BoundEqual, tree
<1>10. ASSUME NEW i \in DOMAIN order, RemoveFound(i)
       PROVE  ValInv'
  BY <1>10, <1>5, TreeKeys DEF RemoveFound, IInv
<1>11. CASE InsertLinks \/ EntryVacant \/ NotFound \/ GetMissing \/ BoundDone
  BY <1>11, <1>1 DEF InsertLinks, EntryVacant, NotFound, GetMissing, BoundDone, tree
<1>12. CASE \E k \in Keys : Get(k) \/ CursorLowerBound(k)
  BY <1>12, <1>1 DEF Get, CursorLowerBound, Start
<1>13. CASE \E n \in Nodes, v \in Values : VacantInsert(n, v)
  BY <1>13, <1>3 DEF VacantInsert
<1>14. CASE \E v \in Values : SetValue(v) \/ IterNext(v)
  BY <1>14, <1>2 DEF SetValue, IterNext, IInv, TypeOK
<1>15. CASE \E name \in {"remove_node", "remove"} : OccupiedRemove(name)
  BY <1>15, <1>5 DEF OccupiedRemove, IInv, ViewInTree
<1>16. CASE DropView \/ CursorFront \/ CursorBack \/ IterStart
  BY <1>16, <1>1 DEF DropView, CursorFront, CursorBack, IterStart, tree
<1>17. CASE RemoveCurrent
  BY <1>17, <1>5 DEF RemoveCurrent, IInv, ViewInTree
<1>18. CASE DropTree
  BY <1>18, <1>0 DEF DropTree, ValInv
<1>19. ASSUME NEW dir \in {"prev", "next"},
              Move(dir) \/ RemoveNeighbor(dir) \/ \E v \in Values : PeekMut(dir, v)
       PROVE  ValInv'
  <2>1. cur \in Nodes /\ own[cur] = "tree"
    BY <1>19 DEF Move, RemoveNeighbor, PeekMut, IInv, ViewInTree
  <2>2. Neighbor(dir) \in Nodes \cup {None}
    BY <2>1, NeighborInTree
  <2>3. CASE Move(dir)
    BY <2>3, <1>1 DEF Move, tree
  <2>4. CASE RemoveNeighbor(dir)
    BY <2>4, <2>2, <1>1, <1>5 DEF RemoveNeighbor, tree
  <2>5. CASE \E v \in Values : PeekMut(dir, v)
    BY <2>5, <2>2, <1>2 DEF PeekMut
  <2> QED
    BY <1>19, <2>3, <2>4, <2>5
<1> QED
  BY <1>6, <1>7, <1>8, <1>9, <1>10, <1>11, <1>12, <1>13, <1>14, <1>15, <1>16, <1>17, <1>18, <1>19
  DEF Next

LEMMA MapInvariant == Spec => []MInv
<1>1. Init => MInv
  BY InitHolds DEF MInv, CurInv, ValInv, BestInv, Init
<1>2. MInv /\ [Next]_vars => MInv'
  <2>1. ASSUME MInv, Next PROVE MInv'
    BY <2>1, NextStep, CurStep, ValStep, BestStep DEF MInv
  <2>2. ASSUME MInv, UNCHANGED vars PROVE MInv'
    BY <2>2, StutterStep DEF MInv, CurInv, ValInv, BestInv, Node, vars
  <2> QED
    BY <2>1, <2>2
<1> QED
  BY <1>1, <1>2, PTL DEF Spec

\* The node n of the tree has key k.
Holds(n, k) == own[n] = "tree" /\ key[n] = k

\* What Map is, without its CHOOSE.
MapFacts ==
    /\ DOMAIN Map = Keys /\ Map = [k \in Keys |-> Map[k]]
    /\ \A k \in Keys, n \in Nodes : Holds(n, k) => Map[k] = val[n] /\ Map[k] \in Values
    /\ \A k \in Keys : (\A n \in Nodes : ~Holds(n, k)) => Map[k] = None

\* Nodes of the tree have different keys.
LEMMA OneHolds ==
    ASSUME IInv, NEW k, NEW n \in Nodes, NEW m \in Nodes, Holds(n, k), Holds(m, k)
    PROVE  n = m
<1>1. PICK i \in DOMAIN order, j \in DOMAIN order : order[i] = n /\ order[j] = m
  BY DEF Holds, IInv, NodesOwned
<1>2. i \in Int /\ j \in Int /\ key[n] \in Int /\ key[m] \in Int /\ key[n] = key[m]
  BY <1>1, TreeKeys DEF IInv, TypeOK, Holds
<1>3. ~(i < j) /\ ~(j < i)
  BY <1>1, <1>2 DEF IInv, Sorted
<1> QED
  BY <1>1, <1>2, <1>3

LEMMA MapIs == MInv => MapFacts
<1> SUFFICES ASSUME MInv
             PROVE  MapFacts
  OBVIOUS
<1>1. DOMAIN Map = Keys /\ Map = [k \in Keys |-> Map[k]]
  BY DEF Map
<1>2. ASSUME NEW k \in Keys, NEW n \in Nodes, Holds(n, k)
      PROVE  Map[k] = val[n] /\ Map[k] \in Values
  <2> DEFINE S == {x \in Nodes : own[x] = "tree" /\ key[x] = k}
  <2>1. n \in S /\ \A x \in S : x = n
    BY <1>2, OneHolds DEF Holds, MInv
  <2>2. Map[k] = IF S = {} THEN None ELSE val[CHOOSE x \in S : TRUE]
    BY DEF Map
  <2> HIDE DEF S
  <2>3. Map[k] = val[n]
    BY <2>1, <2>2
  <2>4. key[n] # None
    BY <1>2 DEF Holds, MInv, IInv, NodesOwned
  <2> QED
    BY <2>3, <2>4 DEF MInv, ValInv
<1>3. ASSUME NEW k \in Keys, \A n \in Nodes : ~Holds(n, k)
      PROVE  Map[k] = None
  <2>1. {x \in Nodes : own[x] = "tree" /\ key[x] = k} = {}
    BY <1>3 DEF Holds
  <2> QED
    BY <2>1 DEF Map
<1> QED
  BY <1>1, <1>2, <1>3 DEF MapFacts

LEMMA MapIsNext == MInv' => MapFacts'
BY MapIs, PTL

\* What a step does to the owners and the values of keys is what it does to the map.
LEMMA MapSame ==
    ASSUME MInv, MInv',
           \A n \in Nodes, k \in Keys : Holds(n, k)' <=> Holds(n, k),
           \A n \in Nodes, k \in Keys : Holds(n, k) => val'[n] = val[n]
    PROVE  Map' = Map
<1>1. MapFacts /\ MapFacts'
  BY MapIs, MapIsNext
<1>2. ASSUME NEW k \in Keys
      PROVE  Map'[k] = Map[k]
  BY <1>1 DEF MapFacts
<1> QED
  BY <1>1, <1>2 DEF MapFacts

\* One key changes its value, or loses it.
LEMMA MapChange ==
    ASSUME MInv, MInv', NEW k \in Keys, NEW v,
           \A n \in Nodes, j \in Keys \ {k} : Holds(n, j)' <=> Holds(n, j),
           \A n \in Nodes, j \in Keys \ {k} : Holds(n, j) => val'[n] = val[n],
           \/ \E n \in Nodes : Holds(n, k)' /\ val'[n] = v
           \/ v = None /\ \A n \in Nodes : ~Holds(n, k)'
    PROVE  Map' = [Map EXCEPT ![k] = v]
<1>1. MapFacts /\ MapFacts'
  BY MapIs, MapIsNext
<1>2. Map'[k] = v
  <2>1. CASE \E n \in Nodes : Holds(n, k)' /\ val'[n] = v
    BY <2>1, <1>1 DEF MapFacts
  <2>2. CASE v = None /\ \A n \in Nodes : ~Holds(n, k)'
    BY <2>2, <1>1 DEF MapFacts
  <2> QED
    BY <2>1, <2>2
<1>3. ASSUME NEW j \in Keys, j # k
      PROVE  Map'[j] = Map[j]
  BY <1>1, <1>3 DEF MapFacts
<1> QED
  BY <1>1, <1>2, <1>3 DEF MapFacts

-----------------------------------------------------------------------------
\* The keys of the map are those in the order.
LEMMA PresentIs ==
    ASSUME MInv, NEW k
    PROVE  k \in Abstract!Present <=> \E i \in DOMAIN order : k = key[order[i]]
<1>1. MapFacts
  BY MapIs
<1>2. ASSUME NEW i \in DOMAIN order, k = key[order[i]]
      PROVE  k \in Abstract!Present
  <2>1. k \in Keys /\ order[i] \in Nodes /\ Holds(order[i], k)
    BY <1>2, TreeKeys DEF Holds, MInv, IInv
  <2>2. Map[k] \in Values
    BY <1>1, <2>1 DEF MapFacts
  <2> QED
    BY <2>1, <2>2, NoneAssumption DEF Abstract!Present
<1>3. ASSUME k \in Abstract!Present
      PROVE  \E i \in DOMAIN order : k = key[order[i]]
  <2>1. k \in Keys /\ Map[k] # None
    BY <1>3 DEF Abstract!Present
  <2>2. PICK n \in Nodes : Holds(n, k)
    BY <1>1, <2>1 DEF MapFacts
  <2> QED
    BY <2>2 DEF Holds, MInv, IInv, NodesOwned
<1> QED
  BY <1>2, <1>3

\* The least of the keys from a position on, and the greatest of those up to one.
LEMMA LeastFrom ==
    ASSUME MInv, NEW p \in Int, p >= 1, NEW S,
           \A x : x \in S <=> \E i \in DOMAIN order : i >= p /\ x = key[order[i]]
    PROVE  Abstract!Least(S) = KeyOf(Node(p))
<1>1. Len(order) \in Nat /\ DOMAIN order = 1..Len(order)
  BY DEF MInv, IInv, TypeOK
<1>2. CASE p \in DOMAIN order
  <2> DEFINE k == key[order[p]]
  <2>1. k \in S /\ KeyOf(Node(p)) = k
    BY <1>1, <1>2, TreeKeys, NoneAssumption DEF KeyOf, Node, MInv, IInv
  <2>2. \A x \in S : x \in Int /\ k <= x
    <3> SUFFICES ASSUME NEW i \in DOMAIN order, i >= p
                 PROVE  key[order[i]] \in Int /\ k <= key[order[i]]
      OBVIOUS
    <3>1. i = p \/ p < i
      BY <1>1
    <3> QED
      BY <1>2, <3>1, TreeKeys DEF MInv, IInv, Sorted
  <2> HIDE DEF k
  <2>3. \A x \in S : (\A y \in S : x <= y) => x = k
    BY <2>1, <2>2
  <2>4. Abstract!Min(S) = k
    BY <2>1, <2>2, <2>3 DEF Abstract!Min
  <2> QED
    BY <2>1, <2>4 DEF Abstract!Least
<1>3. CASE p \notin DOMAIN order
  <2>1. S = {}
    BY <1>1, <1>3
  <2> QED
    BY <2>1, <1>3 DEF Abstract!Least, KeyOf, Node
<1> QED
  BY <1>2, <1>3

LEMMA GreatestTo ==
    ASSUME MInv, NEW p \in Int, p <= Len(order), NEW S,
           \A x : x \in S <=> \E i \in DOMAIN order : i <= p /\ x = key[order[i]]
    PROVE  Abstract!Greatest(S) = KeyOf(Node(p))
<1>1. Len(order) \in Nat /\ DOMAIN order = 1..Len(order)
  BY DEF MInv, IInv, TypeOK
<1>2. CASE p \in DOMAIN order
  <2> DEFINE k == key[order[p]]
  <2>1. k \in S /\ KeyOf(Node(p)) = k
    BY <1>1, <1>2, TreeKeys, NoneAssumption DEF KeyOf, Node, MInv, IInv
  <2>2. \A x \in S : x \in Int /\ k >= x
    <3> SUFFICES ASSUME NEW i \in DOMAIN order, i <= p
                 PROVE  key[order[i]] \in Int /\ k >= key[order[i]]
      OBVIOUS
    <3>1. i = p \/ i < p
      BY <1>1
    <3> QED
      BY <1>2, <3>1, TreeKeys DEF MInv, IInv, Sorted
  <2> HIDE DEF k
  <2>3. \A x \in S : (\A y \in S : x >= y) => x = k
    BY <2>1, <2>2
  <2>4. Abstract!Max(S) = k
    BY <2>1, <2>2, <2>3 DEF Abstract!Max
  <2> QED
    BY <2>1, <2>4 DEF Abstract!Greatest
<1>3. CASE p \notin DOMAIN order
  <2>1. S = {}
    BY <1>1, <1>3
  <2> QED
    BY <2>1, <1>3 DEF Abstract!Greatest, KeyOf, Node
<1> QED
  BY <1>2, <1>3

-----------------------------------------------------------------------------
\* To the caller a running loop is no view, and no view has no key.
LEMMA IdleView == MInv => (pc \in {"idle"} \cup Loops => View = "idle" /\ ViewKey = None)
BY DEF MInv, CurInv, View, ViewKey, KeyOf, Loops

LEMMA IdleViewNext == MInv' => (pc \in {"idle"} \cup Loops => View = "idle" /\ ViewKey = None)'
BY IdleView, PTL

\* The key and the value of a node of the tree, or of no node.
LEMMA ValIs ==
    ASSUME MInv, NEW n \in Nodes \cup {None}, n # None => own[n] = "tree"
    PROVE  /\ Abstract!Val(KeyOf(n)) = ValOf(n)
           /\ KeyOf(n) = None <=> n = None
           /\ n # None => /\ KeyOf(n) = key[n] /\ key[n] \in Keys /\ key[n] \in Int /\ key[n] # None
                          /\ ValOf(n) = val[n] /\ Map[key[n]] = val[n] /\ val[n] \in Values
                          /\ Holds(n, key[n])
<1>1. CASE n = None
  BY <1>1 DEF KeyOf, ValOf, Abstract!Val
<1>2. CASE n # None
  <2>1. n \in Nodes /\ own[n] = "tree"
    BY <1>2
  <2>2. key[n] \in Keys /\ key[n] # None /\ key[n] \in Int
    <3>1. key[n] # None
      BY <2>1 DEF MInv, IInv, NodesOwned
    <3>2. key[n] \in Keys \cup {None}
      BY <2>1 DEF MInv, IInv, TypeOK
    <3> QED
      BY <3>1, <3>2, KeysAssumption
  <2>3. Holds(n, key[n])
    BY <2>1 DEF Holds
  <2>4. Map[key[n]] = val[n] /\ val[n] \in Values
    BY <2>1, <2>2, <2>3, MapIs DEF MapFacts
  <2> QED
    BY <1>2, <2>2, <2>3, <2>4 DEF KeyOf, ValOf, Abstract!Val
<1> QED
  BY <1>1, <1>2

\* A loop that found its key, and one that found there is none.
LEMMA FoundIs ==
    ASSUME MInv, NEW i \in DOMAIN order, arg = key[order[i]]
    PROVE  /\ order[i] \in Nodes /\ own[order[i]] = "tree" /\ order[i] # None
           /\ arg \in Keys /\ arg # None
           /\ Map[arg] = val[order[i]] /\ Map[arg] \in Values /\ Map[arg] # None
           /\ Holds(order[i], arg)
<1>1. order[i] \in Nodes /\ own[order[i]] = "tree" /\ order[i] # None
  BY TreeKeys, NoneAssumption DEF MInv, IInv
<1> QED
  BY <1>1, ValIs, NoneAssumption

LEMMA MissingIs ==
    ASSUME MInv, (pc \in Loops /\ lo > hi) \/ pc = "vacant"
    PROVE  /\ arg \in Keys /\ arg # None
           /\ \A n \in Nodes : ~Holds(n, arg)
           /\ Map[arg] = None
<1>1. Len(order) \in Nat /\ DOMAIN order = 1..Len(order) /\ lo \in Nat /\ hi \in Nat
  BY DEF MInv, IInv, TypeOK
<1>2. arg \in Keys /\ arg \in Int /\ \A i \in DOMAIN order : key[order[i]] < arg \/ arg < key[order[i]]
  <2>1. CASE pc \in Loops /\ lo > hi
    <3>1. \A i \in DOMAIN order : i < lo \/ i > hi
      BY <1>1, <2>1
    <3> QED
      BY <2>1, <3>1, KeysAssumption DEF MInv, IInv, LoopInv
  <2>2. CASE pc = "vacant"
    <3>1. \A i \in DOMAIN order : i < LinkPos \/ i >= LinkPos
      BY <1>1, <2>2 DEF MInv, IInv, VacantInv
    <3> QED
      BY <2>2, <3>1, KeysAssumption DEF MInv, IInv, VacantInv, Gap
  <2> QED
    BY <2>1, <2>2
<1>3. ASSUME NEW n \in Nodes, Holds(n, arg)
      PROVE  FALSE
  <2>1. PICK i \in DOMAIN order : order[i] = n
    BY <1>3 DEF Holds, MInv, IInv, NodesOwned
  <2>2. key[order[i]] = arg
    BY <1>3, <2>1 DEF Holds
  <2> QED
    BY <1>2, <2>2
<1>4. Map[arg] = None
  BY <1>2, <1>3, MapIs DEF MapFacts
<1> QED
  BY <1>2, <1>3, <1>4, KeysAssumption

\* The neighbours of a cursor and of an iterator are the nearest keys.
LEMMA NearestIs ==
    ASSUME MInv, pc \in {"cursor", "iter"}, cur # None
    PROVE  /\ cur \in Nodes /\ own[cur] = "tree" /\ ViewKey = key[cur]
           /\ Abstract!Nearest("next") = KeyOf(Neighbor("next"))
           /\ Abstract!Nearest("prev") = KeyOf(Neighbor("prev"))
           /\ Abstract!Above(ViewKey) = {} <=> Neighbor("next") = None
<1>1. cur \in Nodes /\ own[cur] = "tree" /\ ViewKey = key[cur]
  BY DEF MInv, IInv, ViewInTree, TypeOK, ViewKey, KeyOf
<1> DEFINE p == Pos(cur)
<1>2. /\ Len(order) \in Nat /\ DOMAIN order = 1..Len(order)
      /\ p \in 1..Len(order) /\ order[p] = cur
  BY <1>1, PosOK DEF MInv, IInv, TypeOK
<1> HIDE DEF p
<1>3. \A i \in DOMAIN order : /\ key[order[i]] > key[cur] <=> i >= p + 1
                              /\ key[order[i]] < key[cur] <=> i <= p - 1
  <2> SUFFICES ASSUME NEW i \in DOMAIN order
               PROVE  /\ key[order[i]] > key[cur] <=> i >= p + 1
                      /\ key[order[i]] < key[cur] <=> i <= p - 1
    OBVIOUS
  <2>1. key[order[i]] \in Int /\ key[cur] \in Int
    BY <1>2, TreeKeys DEF MInv, IInv
  <2>2. i < p => key[order[i]] < key[cur]
    BY <1>2 DEF MInv, IInv, Sorted
  <2>3. p < i => key[cur] < key[order[i]]
    BY <1>2 DEF MInv, IInv, Sorted
  <2> QED
    BY <1>2, <2>1, <2>2, <2>3
<1>4. \A x : x \in Abstract!Above(ViewKey) <=> \E i \in DOMAIN order : i >= p + 1 /\ x = key[order[i]]
  BY <1>1, <1>3, PresentIs DEF Abstract!Above
<1>5. \A x : x \in Abstract!Below(ViewKey) <=> \E i \in DOMAIN order : i <= p - 1 /\ x = key[order[i]]
  BY <1>1, <1>3, PresentIs DEF Abstract!Below
<1>6. p + 1 \in Int /\ p + 1 >= 1 /\ p - 1 \in Int /\ p - 1 <= Len(order)
  BY <1>2
<1>7. Abstract!Least(Abstract!Above(ViewKey)) = KeyOf(Node(p + 1))
  BY <1>4, <1>6, LeastFrom
<1>8. Abstract!Greatest(Abstract!Below(ViewKey)) = KeyOf(Node(p - 1))
  BY <1>5, <1>6, GreatestTo
<1>9. Neighbor("next") = Node(p + 1) /\ Neighbor("prev") = Node(p - 1)
  BY DEF Neighbor, RbNext, RbPrev, p
<1>10. Abstract!Above(ViewKey) = {} <=> Neighbor("next") = None
  <2>1. CASE p + 1 \in DOMAIN order
    <3>1. key[order[p + 1]] \in Abstract!Above(ViewKey) /\ Node(p + 1) = order[p + 1]
      BY <1>4, <1>6, <2>1 DEF Node
    <3>2. order[p + 1] # None
      BY <2>1, TreeKeys, NoneAssumption DEF MInv, IInv
    <3> QED
      BY <3>1, <3>2, <1>9
  <2>2. CASE p + 1 \notin DOMAIN order
    BY <1>2, <1>4, <1>9, <2>2 DEF Node
  <2> QED
    BY <2>1, <2>2
<1> QED
  BY <1>1, <1>7, <1>8, <1>9, <1>10 DEF Abstract!Nearest

\* Taking a node, or its key and value, out of the tree takes its key out of the map.
LEMMA MapErased ==
    ASSUME MInv, MInv', NEW n \in Nodes, own[n] = "tree", TakeNode(n) \/ TakeValue(n)
    PROVE  Map' = [Map EXCEPT ![key[n]] = None]
<1>0. key[n] \in Keys
  BY KeysAssumption DEF MInv, IInv, TypeOK, NodesOwned
<1> SUFFICES ASSUME NEW k \in Keys, k = key[n]
             PROVE  Map' = [Map EXCEPT ![k] = None]
  BY <1>0
<1>1. /\ own \in [Nodes -> {"free", "reserved", "node", "tree"}]
      /\ key \in [Nodes -> Keys \cup {None}] /\ val \in [Nodes -> Values \cup {None}]
  BY DEF MInv, IInv, TypeOK
<1>2. /\ own'[n] # "tree"
      /\ \A x \in Nodes \ {n} : own'[x] = own[x] /\ key'[x] = key[x] /\ val'[x] = val[x]
  BY <1>1 DEF TakeNode, TakeValue
<1>3. \A x \in Nodes, j \in Keys \ {k} : Holds(x, j)' <=> Holds(x, j)
  BY <1>2 DEF Holds
<1>4. \A x \in Nodes, j \in Keys \ {k} : Holds(x, j) => val'[x] = val[x]
  BY <1>2 DEF Holds
<1>5. \A x \in Nodes : ~Holds(x, k)'
  <2> SUFFICES ASSUME NEW x \in Nodes, own'[x] = "tree", key'[x] = k
               PROVE  FALSE
    BY DEF Holds
  <2>1. x # n /\ Holds(x, k) /\ Holds(n, k)
    BY <1>2 DEF Holds
  <2> QED
    BY <2>1, OneHolds DEF MInv
<1> QED
  BY <1>3, <1>4, <1>5, MapChange

\* Writing the value of a node of the tree.
LEMMA MapWritten ==
    ASSUME MInv, MInv', NEW n \in Nodes, own[n] = "tree", NEW v \in Values,
           val' = [val EXCEPT ![n] = v], UNCHANGED <<key, own>>
    PROVE  Map' = [Map EXCEPT ![key[n]] = v]
<1>0. key[n] \in Keys
  BY KeysAssumption DEF MInv, IInv, TypeOK, NodesOwned
<1> SUFFICES ASSUME NEW k \in Keys, k = key[n]
             PROVE  Map' = [Map EXCEPT ![k] = v]
  BY <1>0
<1>1. val \in [Nodes -> Values \cup {None}]
  BY DEF MInv, IInv, TypeOK
<1>2. \A x \in Nodes, j \in Keys \ {k} : Holds(x, j)' <=> Holds(x, j)
  BY DEF Holds
<1>3. \A x \in Nodes, j \in Keys \ {k} : Holds(x, j) => val'[x] = val[x]
  BY <1>1 DEF Holds
<1>4. Holds(n, k)' /\ val'[n] = v
  BY <1>1 DEF Holds
<1> QED
  BY <1>2, <1>3, <1>4, MapChange

\* A node comes into the tree with key k, in the place of the node that had it.
LEMMA MapPut ==
    ASSUME MInv, MInv', NEW n \in Nodes, own[n] # "tree", NEW k \in Keys, NEW v,
           own'[n] = "tree", key'[n] = k, val'[n] = v,
           \A x \in Nodes \ {n} : key'[x] = key[x] /\ val'[x] = val[x],
           \A x \in Nodes \ {n} : key[x] # k => (own'[x] = "tree" <=> own[x] = "tree")
    PROVE  Map' = [Map EXCEPT ![k] = v]
<1>1. ASSUME NEW x \in Nodes, NEW j \in Keys \ {k}
      PROVE  (Holds(x, j)' <=> Holds(x, j)) /\ (Holds(x, j) => val'[x] = val[x])
  <2>1. CASE x = n
    BY <2>1 DEF Holds
  <2>2. CASE x # n
    <3>1. key'[x] = key[x] /\ val'[x] = val[x] /\ (key[x] # k => (own'[x] = "tree" <=> own[x] = "tree"))
      BY <2>2
    <3>2. key[x] = j => key[x] # k
      OBVIOUS
    <3> QED
      BY <3>1, <3>2 DEF Holds
  <2> QED
    BY <2>1, <2>2
<1>2. Holds(n, k)' /\ val'[n] = v
  BY DEF Holds
<1> QED
  BY <1>1, <1>2, MapChange

-----------------------------------------------------------------------------
(* One lemma for the steps of each kind.                                   *)

LEMMA AbstractAlloc ==
    ASSUME MInv, MInv', NEW n \in Nodes,
           \/ Reserve(n) \/ IntoReservation(n) \/ FreeNode(n)
           \/ \E k \in Keys, v \in Values : IntoNode(n, k, v)
    PROVE  UNCHANGED Abstract!vars
<1>1. /\ own \in [Nodes -> {"free", "reserved", "node", "tree"}]
      /\ key \in [Nodes -> Keys \cup {None}] /\ val \in [Nodes -> Values \cup {None}]
  BY DEF MInv, IInv, TypeOK
<1>2. /\ own[n] # "tree" /\ own'[n] # "tree" /\ UNCHANGED <<order, pc, cur, op, arg>>
      /\ \A x \in Nodes \ {n} : own'[x] = own[x] /\ key'[x] = key[x] /\ val'[x] = val[x]
  BY <1>1 DEF Reserve, IntoReservation, FreeNode, IntoNode, loop
<1>3. Map' = Map
  BY <1>2, MapSame DEF Holds
<1>4. cur # None => cur \in Nodes \ {n}
  BY <1>2 DEF MInv, CurInv, IInv, ViewInTree, TypeOK
<1>5. View' = View /\ ViewKey' = ViewKey
  BY <1>2, <1>4 DEF View, ViewKey, KeyOf
<1> QED
  BY <1>2, <1>3, <1>5 DEF Abstract!vars

\* Steps that end no call: it starts, or its loop goes on.
LEMMA AbstractLoop ==
    ASSUME MInv, MInv', UNCHANGED <<key, val, own, cur, op>>,
           pc \in {"idle"} \cup Loops, pc' \in {"idle"} \cup Loops
    PROVE  UNCHANGED Abstract!vars
<1>1. Map' = Map
  BY DEF Map
<1> QED
  BY <1>1, IdleView, IdleViewNext DEF Abstract!vars

LEMMA AbstractStart ==
    ASSUME MInv, MInv',
           \/ \E n \in Nodes : Insert(n)
           \/ \E call \in Calls, k \in Keys : Lookup(call, k)
           \/ \E k \in Keys : Get(k) \/ CursorLowerBound(k)
    PROVE  UNCHANGED Abstract!vars
BY AbstractLoop DEF Insert, Lookup, Get, CursorLowerBound, Start, Loops

LEMMA AbstractDescend ==
    ASSUME MInv, MInv', NEW i \in DOMAIN order,
           Descend(i) \/ GetDescend(i) \/ BoundDescend(i)
    PROVE  UNCHANGED Abstract!vars
BY AbstractLoop DEF Descend, GetDescend, BoundDescend, Loops

LEMMA AbstractInsert ==
    ASSUME MInv, MInv', InsertLinks \/ \E i \in DOMAIN order : InsertReplaces(i)
    PROVE  Abstract!Next
<1>1. /\ pc = "search" /\ pc' = "idle" /\ UNCHANGED <<key, val>>
      /\ new \in Nodes /\ own[new] = "node" /\ key[new] = arg
  BY DEF InsertLinks, InsertReplaces, AtNull, AtEqual, Return, MInv, IInv, SearchInv
<1>2. View = "idle" /\ ViewKey = None /\ View' = "idle" /\ ViewKey' = None
  BY <1>1, IdleView, IdleViewNext DEF Loops
<1>3. /\ own \in [Nodes -> {"free", "reserved", "node", "tree"}]
      /\ val[new] \in Values
  BY <1>1 DEF MInv, IInv, TypeOK, ValInv, NodesOwned
<1>4. /\ arg \in Keys /\ arg # None /\ op' = <<"insert", arg, Map[arg]>>
      /\ own'[new] = "tree"
      /\ \A x \in Nodes \ {new} : key[x] # arg => (own'[x] = "tree" <=> own[x] = "tree")
  <2>1. CASE InsertLinks
    <3>1. arg \in Keys /\ arg # None /\ Map[arg] = None
      BY <2>1, MissingIs DEF InsertLinks, AtNull, Loops
    <3> QED
      BY <1>1, <1>3, <2>1, <3>1 DEF InsertLinks, Return
  <2>2. CASE \E i \in DOMAIN order : InsertReplaces(i)
    <3>1. PICK i \in DOMAIN order : InsertReplaces(i)
      BY <2>2
    <3>2. arg = key[order[i]]
      BY <3>1 DEF InsertReplaces, AtEqual
    <3>3. /\ order[i] \in Nodes /\ own[order[i]] = "tree"
          /\ arg \in Keys /\ arg # None /\ Map[arg] = val[order[i]]
      BY <3>2, FoundIs
    <3>4. own' = [own EXCEPT ![new] = "tree", ![order[i]] = "node"]
      BY <3>1 DEF InsertReplaces, Replace
    <3>5. own'[new] = "tree" /\ \A x \in Nodes \ {new, order[i]} : own'[x] = own[x]
      BY <1>1, <1>3, <3>3, <3>4
    <3> QED
      BY <3>1, <3>2, <3>3, <3>5 DEF InsertReplaces, Return
  <2> QED
    BY <2>1, <2>2
<1>5. PICK k \in Keys : k = arg
  BY <1>4
<1>6. PICK v \in Values : v = val[new]
  BY <1>3
<1>7. Map' = [Map EXCEPT ![k] = v]
  BY <1>1, <1>4, <1>5, <1>6, MapPut
<1>8. Abstract!Insert(k, v)
  BY <1>2, <1>4, <1>5, <1>7 DEF Abstract!Insert, Abstract!With, Abstract!Result, Abstract!Val
<1> QED
  BY <1>8 DEF Abstract!Next

LEMMA AbstractEntry ==
    ASSUME MInv, MInv', EntryVacant \/ \E i \in DOMAIN order : EntryOccupied(i)
    PROVE  Abstract!Next
<1>1. /\ pc = "search" /\ UNCHANGED <<order, key, val, own>>
      /\ arg \in Keys
  BY DEF EntryVacant, EntryOccupied, AtNull, AtEqual, tree, MInv, IInv, LoopInv, Loops
<1>2. View = "idle" /\ ViewKey = None /\ Map' = Map
  BY <1>1, IdleView DEF Loops, Map
<1>3. PICK k \in Keys : k = arg
  BY <1>1
<1>4. CASE EntryVacant
  <2>1. Map[k] = None /\ k # None
    BY <1>3, <1>4, MissingIs DEF EntryVacant, AtNull, Loops
  <2>2. View' = "vacant" /\ ViewKey' = k /\ op' = <<"entry", k, None>>
    BY <1>3, <1>4 DEF EntryVacant, Return, View, ViewKey, Loops
  <2>3. Abstract!Entry(k)
    BY <1>2, <2>1, <2>2 DEF Abstract!Entry, Abstract!Look, Abstract!Result, Abstract!Val
  <2> QED
    BY <2>3 DEF Abstract!Next
<1>5. ASSUME NEW i \in DOMAIN order, EntryOccupied(i)
      PROVE  Abstract!Next
  <2>1. arg = key[order[i]]
    BY <1>5 DEF EntryOccupied, AtEqual
  <2>2. order[i] # None /\ k # None /\ Map[k] = val[order[i]] /\ Map[k] # None
    BY <1>3, <2>1, FoundIs
  <2>3. View' = "occupied" /\ ViewKey' = k /\ op' = <<then, k, val[order[i]]>>
    BY <1>1, <1>3, <1>5, <2>1, <2>2 DEF EntryOccupied, Return, View, ViewKey, Loops, KeyOf
  <2>4. CASE then = "entry"
    <3>1. Abstract!Entry(k)
      BY <1>2, <2>2, <2>3, <2>4 DEF Abstract!Entry, Abstract!Look, Abstract!Result, Abstract!Val
    <3> QED
      BY <3>1 DEF Abstract!Next
  <2>5. CASE then = "find_mut"
    <3>1. Abstract!FindMut(k)
      BY <1>2, <2>2, <2>3, <2>5 DEF Abstract!FindMut, Abstract!Look, Abstract!Result, Abstract!Val
    <3> QED
      BY <3>1 DEF Abstract!Next
  <2> QED
    BY <1>5, <2>4, <2>5 DEF EntryOccupied
<1> QED
  BY <1>4, <1>5

LEMMA AbstractRemoveFound ==
    ASSUME MInv, MInv', NEW i \in DOMAIN order, RemoveFound(i)
    PROVE  Abstract!Next
<1>1. /\ pc = "search" /\ pc' = "idle" /\ arg = key[order[i]]
      /\ TakeNode(order[i]) \/ TakeValue(order[i])
      /\ then \in {"remove_node", "remove"} /\ op' = <<then, arg, val[order[i]]>>
  BY DEF RemoveFound, AtEqual, Return
<1>2. /\ order[i] \in Nodes /\ own[order[i]] = "tree"
      /\ arg \in Keys /\ arg # None /\ Map[arg] = val[order[i]]
  BY <1>1, FoundIs
<1>3. View = "idle" /\ ViewKey = None /\ View' = "idle" /\ ViewKey' = None
  BY <1>1, IdleView, IdleViewNext DEF Loops
<1>4. Map' = [Map EXCEPT ![key[order[i]]] = None]
  BY <1>1, <1>2, MapErased
<1>5. PICK k \in Keys, name \in {"remove_node", "remove"} : k = arg /\ name = then
  BY <1>1, <1>2
<1>6. Abstract!Remove(name, k)
  BY <1>1, <1>2, <1>3, <1>4, <1>5
  DEF Abstract!Remove, Abstract!Without, Abstract!Look, Abstract!Result, Abstract!Val
<1> QED
  BY <1>6 DEF Abstract!Next

LEMMA AbstractNotFound ==
    ASSUME MInv, MInv', NotFound
    PROVE  Abstract!Next
<1>1. /\ pc = "search" /\ pc' = "idle" /\ UNCHANGED <<key, val, own>>
      /\ then \in {"find_mut", "remove_node", "remove"} /\ op' = <<then, arg, None>>
  BY DEF NotFound, AtNull, Return
<1>2. arg \in Keys /\ arg # None /\ Map[arg] = None
  BY MissingIs DEF NotFound, AtNull, Loops
<1>3. View = "idle" /\ ViewKey = None /\ View' = "idle" /\ ViewKey' = None
  BY <1>1, IdleView, IdleViewNext DEF Loops
<1>4. Map' = Map /\ Map = [Map EXCEPT ![arg] = None]
  BY <1>1, <1>2, MapIs DEF Map, MapFacts
<1>5. PICK k \in Keys : k = arg
  BY <1>2
<1>6. CASE then = "find_mut"
  <2>1. Abstract!FindMut(k)
    BY <1>1, <1>2, <1>3, <1>4, <1>5, <1>6 DEF Abstract!FindMut, Abstract!Result, Abstract!Val
  <2> QED
    BY <2>1 DEF Abstract!Next
<1>7. CASE then \in {"remove_node", "remove"}
  <2>1. PICK name \in {"remove_node", "remove"} : name = then
    BY <1>7
  <2>2. Abstract!Remove(name, k)
    BY <1>1, <1>2, <1>3, <1>4, <1>5, <2>1
    DEF Abstract!Remove, Abstract!Without, Abstract!Look, Abstract!Result, Abstract!Val
  <2> QED
    BY <2>2 DEF Abstract!Next
<1> QED
  BY <1>1, <1>6, <1>7

LEMMA AbstractGet ==
    ASSUME MInv, MInv', GetMissing \/ \E i \in DOMAIN order : GetFound(i)
    PROVE  Abstract!Next
<1>1. pc = "get" /\ pc' = "idle" /\ UNCHANGED <<key, val, own>>
  BY DEF GetMissing, GetFound, Return
<1>2. arg \in Keys /\ arg # None /\ op' = <<"get", arg, Map[arg]>>
  <2>1. CASE GetMissing
    BY <2>1, MissingIs DEF GetMissing, Loops, Return
  <2>2. ASSUME NEW i \in DOMAIN order, GetFound(i)
        PROVE  arg \in Keys /\ arg # None /\ op' = <<"get", arg, Map[arg]>>
    BY <2>2, FoundIs DEF GetFound, Return
  <2> QED
    BY <2>1, <2>2
<1>3. View = "idle" /\ ViewKey = None /\ View' = "idle" /\ ViewKey' = None
  BY <1>1, IdleView, IdleViewNext DEF Loops
<1>4. Map' = Map
  BY <1>1 DEF Map
<1>5. PICK k \in Keys : k = arg
  BY <1>2
<1>6. Abstract!Get(k)
  BY <1>2, <1>3, <1>4, <1>5 DEF Abstract!Get, Abstract!Result, Abstract!Val
<1> QED
  BY <1>6 DEF Abstract!Next

LEMMA AbstractVacantInsert ==
    ASSUME MInv, MInv', NEW n \in Nodes, NEW v \in Values, VacantInsert(n, v)
    PROVE  Abstract!Next
<1>1. /\ pc = "vacant" /\ pc' = "idle" /\ own[n] = "reserved"
      /\ own' = [own EXCEPT ![n] = "tree"]
      /\ key' = [key EXCEPT ![n] = arg] /\ val' = [val EXCEPT ![n] = v]
      /\ op' = <<"vacant_insert", arg, v>>
  BY DEF VacantInsert, Return
<1>2. arg \in Keys /\ arg # None
  BY <1>1, MissingIs
<1>3. View = "vacant" /\ ViewKey = arg /\ View' = "idle" /\ ViewKey' = None
  BY <1>1, IdleViewNext DEF View, ViewKey, Loops
<1>4. PICK k \in Keys : k = arg
  BY <1>2
<1>5. /\ own \in [Nodes -> {"free", "reserved", "node", "tree"}]
      /\ key \in [Nodes -> Keys \cup {None}] /\ val \in [Nodes -> Values \cup {None}]
  BY DEF MInv, IInv, TypeOK
<1>6. Map' = [Map EXCEPT ![k] = v]
  BY <1>1, <1>4, <1>5, MapPut
<1>7. Abstract!VacantInsert(v)
  BY <1>1, <1>2, <1>3, <1>4, <1>6 DEF Abstract!VacantInsert, Abstract!With, Abstract!Look
<1> QED
  BY <1>7 DEF Abstract!Next

LEMMA AbstractSetValue ==
    ASSUME MInv, MInv', NEW v \in Values, SetValue(v)
    PROVE  Abstract!Next
<1>1. /\ pc \in {"occupied", "cursor"} /\ UNCHANGED <<key, own, pc, cur>>
      /\ val' = [val EXCEPT ![cur] = v] /\ op' = <<"set", key[cur], v>>
  BY DEF SetValue
<1>2. cur \in Nodes /\ own[cur] = "tree" /\ cur # None
  BY <1>1, NoneAssumption DEF MInv, IInv, ViewInTree
<1>3. KeyOf(cur) = key[cur] /\ key[cur] # None
  BY <1>2, ValIs
<1>4. View = pc /\ ViewKey = key[cur] /\ View' = View /\ ViewKey' = ViewKey
  BY <1>1, <1>2 DEF View, ViewKey, KeyOf, Loops
<1>5. Map' = [Map EXCEPT ![key[cur]] = v]
  BY <1>1, <1>2, MapWritten
<1>6. Abstract!SetValue(v)
  BY <1>1, <1>3, <1>4, <1>5 DEF Abstract!SetValue, Abstract!With
<1> QED
  BY <1>6 DEF Abstract!Next

LEMMA AbstractOccupiedRemove ==
    ASSUME MInv, MInv', NEW name \in {"remove_node", "remove"}, OccupiedRemove(name)
    PROVE  Abstract!Next
<1>1. /\ pc = "occupied" /\ pc' = "idle" /\ op' = <<name, key[cur], val[cur]>>
      /\ TakeNode(cur) \/ TakeValue(cur)
  BY DEF OccupiedRemove, Return
<1>2. cur \in Nodes /\ own[cur] = "tree" /\ cur # None
  BY <1>1, NoneAssumption DEF MInv, IInv, ViewInTree
<1>3. KeyOf(cur) = key[cur] /\ key[cur] \in Keys /\ key[cur] # None /\ Map[key[cur]] = val[cur]
  BY <1>2, ValIs
<1>4. View = "occupied" /\ ViewKey = key[cur] /\ View' = "idle" /\ ViewKey' = None
  BY <1>1, <1>3, IdleViewNext DEF View, ViewKey, Loops
<1>5. Map' = [Map EXCEPT ![key[cur]] = None]
  BY <1>1, <1>2, MapErased
<1>6. PICK k \in Keys : k = key[cur]
  BY <1>3
<1>7. Abstract!Remove(name, k)
  BY <1>1, <1>3, <1>4, <1>5, <1>6
  DEF Abstract!Remove, Abstract!Without, Abstract!Look, Abstract!Result, Abstract!Val
<1> QED
  BY <1>7 DEF Abstract!Next

LEMMA AbstractDropView ==
    ASSUME MInv, MInv', DropView
    PROVE  Abstract!Next
<1>1. /\ pc \in Views /\ pc' = "idle" /\ UNCHANGED <<key, val, own>>
      /\ op' = <<"drop_view", None, None>>
  BY DEF DropView, Return, tree
<1>2. View # "idle" /\ View' = "idle" /\ ViewKey' = None
  BY <1>1, IdleViewNext DEF View, Views, Loops
<1>3. Map' = Map
  BY <1>1 DEF Map
<1>4. Abstract!DropView
  BY <1>1, <1>2, <1>3 DEF Abstract!DropView, Abstract!Look
<1> QED
  BY <1>4 DEF Abstract!Next

\* A cursor at a node of the tree is a cursor at its key.
LEMMA AbstractCursorAt ==
    ASSUME MInv, NEW n, n \in Nodes \cup {None}, n # None => own[n] = "tree",
           NEW name, NEW a, CursorAt(n, name, a), UNCHANGED tree
    PROVE  Abstract!CursorAt(name, a, KeyOf(n))
<1>1. Abstract!Val(KeyOf(n)) = ValOf(n) /\ (KeyOf(n) = None <=> n = None)
  BY ValIs
<1>2. /\ UNCHANGED <<key, val, own>> /\ cur' = n
      /\ pc' = IF n = None THEN "idle" ELSE "cursor"
      /\ op' = <<name, a, KeyOf(n), ValOf(n)>>
  BY DEF CursorAt, Return, tree
<1>3. Map' = Map
  BY <1>2 DEF Map
<1>4. /\ View' = IF KeyOf(n) = None THEN "idle" ELSE "cursor"
      /\ ViewKey' = KeyOf(n)
  BY <1>1, <1>2 DEF View, ViewKey, KeyOf, Loops
<1> QED
  BY <1>1, <1>2, <1>3, <1>4 DEF Abstract!CursorAt, Abstract!Look

LEMMA AbstractMakeCursor ==
    ASSUME MInv, CursorFront \/ CursorBack
    PROVE  Abstract!Next
<1>1. Len(order) \in Nat /\ DOMAIN order = 1..Len(order) /\ UNCHANGED tree /\ pc = "idle"
  BY DEF MInv, IInv, TypeOK, CursorFront, CursorBack
<1>2. View = "idle"
  BY <1>1 DEF View, Loops
<1>3. CASE CursorFront
  <2>1. Abstract!Least(Abstract!Present) = KeyOf(Node(1))
    <3>1. \A x : x \in Abstract!Present <=> \E i \in DOMAIN order : i >= 1 /\ x = key[order[i]]
      BY <1>1, PresentIs
    <3> QED
      BY <3>1, LeastFrom
  <2>2. Node(1) \in Nodes \cup {None} /\ (Node(1) # None => own[Node(1)] = "tree")
    BY NodeInTree DEF MInv
  <2>3. Abstract!CursorAt("cursor_front", None, KeyOf(Node(1)))
    BY <1>1, <1>3, <2>2, AbstractCursorAt DEF CursorFront, RbFirst
  <2> QED
    BY <1>2, <2>1, <2>3 DEF Abstract!Next, Abstract!MakeCursor
<1>4. CASE CursorBack
  <2> DEFINE p == Len(order)
  <2>1. Abstract!Greatest(Abstract!Present) = KeyOf(Node(p))
    <3>1. \A x : x \in Abstract!Present <=> \E i \in DOMAIN order : i <= p /\ x = key[order[i]]
      BY <1>1, PresentIs
    <3> QED
      BY <1>1, <3>1, GreatestTo
  <2>2. Node(p) \in Nodes \cup {None} /\ (Node(p) # None => own[Node(p)] = "tree")
    BY NodeInTree DEF MInv
  <2>3. Abstract!CursorAt("cursor_back", None, KeyOf(Node(p)))
    BY <1>1, <1>4, <2>2, AbstractCursorAt DEF CursorBack, RbLast
  <2> QED
    BY <1>2, <2>1, <2>3 DEF Abstract!Next, Abstract!MakeCursor
<1> QED
  BY <1>3, <1>4

\* cursor_lower_bound ends at the first position with a key that is not smaller.
LEMMA AbstractBound ==
    ASSUME MInv, BoundDone \/ \E i \in DOMAIN order : BoundEqual(i)
    PROVE  Abstract!Next
<1>1. /\ Len(order) \in Nat /\ DOMAIN order = 1..Len(order) /\ lo \in Nat /\ hi \in Nat
      /\ UNCHANGED tree /\ pc = "bound" /\ arg \in Keys /\ arg \in Int
      /\ \A x \in DOMAIN order : key[order[x]] \in Int
  BY TreeKeys, KeysAssumption DEF MInv, IInv, TypeOK, BoundDone, BoundEqual, LoopInv, Loops
<1>2. PICK k \in Keys : k = arg
  BY <1>1
<1>3. PICK p \in Int : /\ p >= 1 /\ CursorAt(Node(p), "cursor_lower_bound", k)
                       /\ \A x \in DOMAIN order : key[order[x]] >= k <=> x >= p
  <2>1. CASE BoundDone
    <3>1. /\ lo > hi /\ CursorAt(Node(hi + 1), "cursor_lower_bound", k)
          /\ hi + 1 \in Int /\ hi + 1 >= 1
      BY <1>1, <1>2, <2>1 DEF BoundDone, MInv, BestInv
    <3>2. \A x \in DOMAIN order : (x < lo => key[order[x]] < k) /\ (x > hi => k < key[order[x]])
      BY <1>1, <1>2 DEF MInv, IInv, LoopInv, Loops
    <3>3. ASSUME NEW x \in DOMAIN order
          PROVE  key[order[x]] >= k <=> x >= hi + 1
      <4>1. CASE x > hi
        BY <1>1, <1>2, <3>2, <4>1
      <4>2. CASE x <= hi
        BY <1>1, <1>2, <3>1, <3>2, <4>2
      <4> QED
        BY <1>1, <4>1, <4>2
    <3> QED
      BY <3>1, <3>3
  <2>2. ASSUME NEW i \in DOMAIN order, BoundEqual(i)
        PROVE  /\ i \in Int /\ i >= 1 /\ CursorAt(Node(i), "cursor_lower_bound", k)
               /\ \A x \in DOMAIN order : key[order[x]] >= k <=> x >= i
    <3>1. k = key[order[i]] /\ CursorAt(Node(i), "cursor_lower_bound", k)
      BY <1>2, <2>2 DEF BoundEqual, Node
    <3>2. ASSUME NEW x \in DOMAIN order
          PROVE  key[order[x]] >= k <=> x >= i
      <4>1. x < i => key[order[x]] < k
        BY <3>1 DEF MInv, IInv, Sorted
      <4>2. i < x => k < key[order[x]]
        BY <3>1 DEF MInv, IInv, Sorted
      <4> QED
        BY <1>1, <1>2, <3>1, <4>1, <4>2
    <3> QED
      BY <1>1, <3>1, <3>2
  <2> QED
    BY <2>1, <2>2
<1>4. Abstract!Least({j \in Abstract!Present : j >= k}) = KeyOf(Node(p))
  <2> DEFINE S == {j \in Abstract!Present : j >= k}
  <2>1. \A x : x \in S <=> \E i \in DOMAIN order : i >= p /\ x = key[order[i]]
    BY <1>3, PresentIs
  <2> HIDE DEF S
  <2>2. Abstract!Least(S) = KeyOf(Node(p))
    BY <1>3, <2>1, LeastFrom
  <2> QED
    BY <2>2 DEF S
<1>5. Node(p) \in Nodes \cup {None} /\ (Node(p) # None => own[Node(p)] = "tree")
  BY NodeInTree DEF MInv
<1>6. Abstract!CursorAt("cursor_lower_bound", k, KeyOf(Node(p)))
  BY <1>1, <1>3, <1>5, AbstractCursorAt
<1>7. View = "idle"
  BY <1>1 DEF View, Loops
<1> QED
  BY <1>4, <1>6, <1>7 DEF Abstract!Next, Abstract!MakeCursor

\* The neighbour of a cursor.
LEMMA CursorNeighbor ==
    ASSUME MInv, pc = "cursor", NEW dir \in {"prev", "next"}
    PROVE  /\ cur # None /\ cur \in Nodes /\ own[cur] = "tree"
           /\ View = "cursor" /\ ViewKey = key[cur]
           /\ Neighbor(dir) \in Nodes \cup {None} /\ Neighbor(dir) # cur
           /\ Neighbor(dir) # None => own[Neighbor(dir)] = "tree"
           /\ Abstract!Nearest(dir) = KeyOf(Neighbor(dir))
<1>1. cur # None /\ cur \in Nodes /\ own[cur] = "tree"
  BY NoneAssumption DEF MInv, IInv, ViewInTree
<1>2. View = "cursor"
  BY DEF View, Loops
<1> QED
  BY <1>1, <1>2, NearestIs, NeighborInTree DEF MInv

LEMMA AbstractCursor ==
    ASSUME MInv, MInv', NEW dir \in {"prev", "next"},
           Move(dir) \/ RemoveNeighbor(dir) \/ \E v \in Values : PeekMut(dir, v)
    PROVE  Abstract!Next
<1> DEFINE n == Neighbor(dir)
<1>1. /\ cur # None /\ cur \in Nodes /\ own[cur] = "tree" /\ View = "cursor" /\ ViewKey = key[cur]
      /\ n \in Nodes \cup {None} /\ n # cur /\ (n # None => own[n] = "tree")
      /\ Abstract!Nearest(dir) = KeyOf(n)
  BY CursorNeighbor DEF Move, RemoveNeighbor, PeekMut
<1>2. /\ Abstract!Val(KeyOf(n)) = ValOf(n) /\ (KeyOf(n) = None <=> n = None)
      /\ n # None => KeyOf(n) = key[n]
  BY <1>1, ValIs
<1>3. CASE Move(dir)
  <2>1. Abstract!CursorAt("move", dir, KeyOf(n))
    BY <1>1, <1>3, AbstractCursorAt DEF Move
  <2> QED
    BY <1>1, <2>1 DEF Abstract!Next, Abstract!MoveCursor
<1>4. CASE RemoveNeighbor(dir)
  <2>1. /\ UNCHANGED <<pc, cur, key>> /\ op' = <<"remove", dir, KeyOf(n), ValOf(n)>>
        /\ n = None => UNCHANGED <<val, own>>
        /\ n # None => TakeNode(n)
    BY <1>4 DEF RemoveNeighbor, TakeNode, tree
  <2>2. View' = View /\ ViewKey' = ViewKey
    BY <1>1, <2>1 DEF View, ViewKey, KeyOf
  <2>3. Map' = Abstract!Without(KeyOf(n))
    <3>1. CASE n = None
      BY <1>2, <2>1, <3>1 DEF Map, Abstract!Without
    <3>2. CASE n # None
      BY <1>1, <1>2, <2>1, <3>2, MapErased DEF Abstract!Without
    <3> QED
      BY <3>1, <3>2
  <2>4. Abstract!RemoveNeighbor(dir)
    BY <1>1, <1>2, <2>1, <2>2, <2>3 DEF Abstract!RemoveNeighbor
  <2> QED
    BY <2>4 DEF Abstract!Next
<1>5. ASSUME NEW v \in Values, PeekMut(dir, v)
      PROVE  Abstract!Next
  <2>1. /\ UNCHANGED <<pc, cur, key, own>> /\ op' = <<"peek", dir, KeyOf(n), ValOf(n)>>
        /\ val' = IF n = None THEN val ELSE [val EXCEPT ![n] = v]
    BY <1>5 DEF PeekMut
  <2>2. View' = View /\ ViewKey' = ViewKey
    BY <1>1, <2>1 DEF View, ViewKey, KeyOf
  <2>3. Map' = Abstract!With(KeyOf(n), v)
    <3>1. CASE n = None
      BY <1>2, <2>1, <3>1 DEF Map, Abstract!With
    <3>2. CASE n # None
      BY <1>1, <1>2, <2>1, <3>2, MapWritten DEF Abstract!With
    <3> QED
      BY <3>1, <3>2
  <2>4. Abstract!Peek(dir, v)
    BY <1>1, <1>2, <2>1, <2>2, <2>3 DEF Abstract!Peek
  <2> QED
    BY <2>4 DEF Abstract!Next
<1> QED
  BY <1>3, <1>4, <1>5

LEMMA AbstractRemoveCurrent ==
    ASSUME MInv, MInv', RemoveCurrent
    PROVE  Abstract!Next
<1>1. /\ pc = "cursor" /\ TakeNode(cur) /\ cur' = Survivor
      /\ pc' = IF Survivor = None THEN "idle" ELSE "cursor"
      /\ op' = <<"remove_current", key[cur], val[cur]>> /\ UNCHANGED key
  BY DEF RemoveCurrent, Return, TakeNode
<1>2. /\ cur # None /\ cur \in Nodes /\ own[cur] = "tree" /\ View = "cursor" /\ ViewKey = key[cur]
      /\ Abstract!Nearest("next") = KeyOf(Neighbor("next"))
      /\ Abstract!Nearest("prev") = KeyOf(Neighbor("prev"))
      /\ Abstract!Above(ViewKey) = {} <=> Neighbor("next") = None
      /\ \A dir \in {"prev", "next"} : /\ Neighbor(dir) \in Nodes \cup {None}
                                       /\ Neighbor(dir) # None => own[Neighbor(dir)] = "tree"
  BY <1>1, CursorNeighbor, NearestIs
<1>3. /\ key[cur] \in Keys /\ key[cur] # None /\ Map[key[cur]] = val[cur]
  BY <1>2, ValIs
<1>4. KeyOf(Survivor) = None <=> Survivor = None
  BY <1>2, ValIs DEF Survivor
<1> DEFINE k == IF Abstract!Above(ViewKey) # {} THEN Abstract!Nearest("next") ELSE Abstract!Nearest("prev")
<1>5. k = KeyOf(Survivor)
  BY <1>2 DEF Survivor
<1>6. View' = (IF k = None THEN "idle" ELSE "cursor") /\ ViewKey' = k
  <2>1. ViewKey' = KeyOf(Survivor)
    BY <1>1 DEF ViewKey, KeyOf
  <2>2. View' = IF Survivor = None THEN "idle" ELSE "cursor"
    BY <1>1 DEF View, Loops
  <2> QED
    BY <1>4, <1>5, <2>1, <2>2
<1>7. Map' = [Map EXCEPT ![key[cur]] = None]
  BY <1>1, <1>2, MapErased
<1>8. Abstract!RemoveCurrent
  BY <1>1, <1>2, <1>3, <1>6, <1>7
  DEF Abstract!RemoveCurrent, Abstract!Without, Abstract!Look, Abstract!Result, Abstract!Val
<1> QED
  BY <1>8 DEF Abstract!Next

LEMMA AbstractIter ==
    ASSUME MInv, MInv', IterStart \/ \E v \in Values : IterNext(v)
    PROVE  Abstract!Next
<1>1. CASE IterStart
  <2>1. /\ pc = "idle" /\ pc' = "iter" /\ cur' = Node(1) /\ UNCHANGED <<key, val, own>>
        /\ op' = <<"iter", None, None>>
    BY <1>1 DEF IterStart, Return, tree, RbFirst
  <2>2. Abstract!Least(Abstract!Present) = KeyOf(Node(1))
    <3>1. \A x : x \in Abstract!Present <=> \E i \in DOMAIN order : i >= 1 /\ x = key[order[i]]
      BY PresentIs DEF MInv, IInv, TypeOK
    <3> QED
      BY <3>1, LeastFrom
  <2>3. View = "idle" /\ View' = "iter" /\ ViewKey' = KeyOf(Node(1))
    BY <2>1 DEF View, ViewKey, KeyOf, Loops
  <2>4. Map' = Map
    BY <2>1 DEF Map
  <2>5. Abstract!Iter
    BY <2>1, <2>2, <2>3, <2>4 DEF Abstract!Iter, Abstract!Look
  <2> QED
    BY <2>5 DEF Abstract!Next
<1>2. ASSUME NEW v \in Values, IterNext(v)
      PROVE  Abstract!Next
  <2>1. /\ pc = "iter" /\ UNCHANGED <<key, own, pc>>
        /\ cur' = IF cur = None THEN None ELSE RbNext(cur)
        /\ val' = IF cur = None THEN val ELSE [val EXCEPT ![cur] = v]
        /\ op' = <<"next", KeyOf(cur), ValOf(cur)>>
    BY <1>2 DEF IterNext
  <2>2. View = "iter" /\ View' = "iter" /\ ViewKey = KeyOf(cur) /\ ViewKey' = KeyOf(cur')
    BY <2>1 DEF View, ViewKey, KeyOf, Loops
  <2>3. CASE cur = None
    <3>1. KeyOf(cur) = None /\ KeyOf(cur') = None /\ ValOf(cur) = None
      BY <2>1, <2>3 DEF KeyOf, ValOf
    <3>2. Map' = Map
      BY <2>1, <2>3 DEF Map
    <3>3. Abstract!IterNext(v)
      BY <2>1, <2>2, <3>1, <3>2 DEF Abstract!IterNext, Abstract!With, Abstract!Result, Abstract!Val
    <3> QED
      BY <3>3 DEF Abstract!Next
  <2>4. CASE cur # None
    <3>1. cur \in Nodes /\ own[cur] = "tree" /\ Abstract!Nearest("next") = KeyOf(RbNext(cur))
      BY <2>1, <2>4, NearestIs DEF Neighbor
    <3>2. KeyOf(cur) = key[cur] /\ key[cur] # None /\ Abstract!Val(key[cur]) = ValOf(cur)
      BY <2>4, <3>1, ValIs
    <3>3. Map' = [Map EXCEPT ![key[cur]] = v]
      BY <2>1, <2>4, <3>1, MapWritten
    <3>4. Abstract!IterNext(v)
      BY <2>1, <2>2, <2>4, <3>1, <3>2, <3>3 DEF Abstract!IterNext, Abstract!With, Abstract!Result
    <3> QED
      BY <3>4 DEF Abstract!Next
  <2> QED
    BY <2>3, <2>4
<1> QED
  BY <1>1, <1>2

LEMMA AbstractDrop ==
    ASSUME MInv, MInv', DropTree
    PROVE  Abstract!Next
<1>1. /\ pc = "idle" /\ pc' = "idle" /\ op' = <<"drop", None, None>>
      /\ own' = [n \in Nodes |-> IF own[n] = "tree" THEN "free" ELSE own[n]]
  BY DEF DropTree, Return
<1>2. View = "idle" /\ ViewKey = None /\ View' = "idle" /\ ViewKey' = None
  BY <1>1, IdleView, IdleViewNext
<1>3. Map' = [k \in Keys |-> None]
  BY <1>1 DEF Map
<1>4. Abstract!Drop
  BY <1>1, <1>2, <1>3 DEF Abstract!Drop
<1> QED
  BY <1>4 DEF Abstract!Next

LEMMA AbstractInit == Init => Abstract!Init
BY DEF Init, Abstract!Init, Map, View, ViewKey, KeyOf, Loops

LEMMA AbstractStep == MInv /\ MInv' /\ [Next]_vars => [Abstract!Next]_(Abstract!vars)
<1> SUFFICES ASSUME MInv, MInv', [Next]_vars
             PROVE  Abstract!Next \/ UNCHANGED Abstract!vars
  OBVIOUS
<1>1. CASE \E n \in Nodes : Reserve(n) \/ IntoReservation(n) \/ FreeNode(n) \/ Insert(n)
  BY <1>1, AbstractAlloc, AbstractStart
<1>2. CASE \E n \in Nodes, k \in Keys, v \in Values : IntoNode(n, k, v)
  BY <1>2, AbstractAlloc
<1>3. CASE \E call \in Calls, k \in Keys : Lookup(call, k)
  BY <1>3, AbstractStart
<1>4. CASE \E i \in DOMAIN order :
              \/ Descend(i) \/ InsertReplaces(i) \/ EntryOccupied(i) \/ RemoveFound(i)
              \/ GetDescend(i) \/ GetFound(i) \/ BoundDescend(i) \/ BoundEqual(i)
  BY <1>4, AbstractDescend, AbstractInsert, AbstractEntry, AbstractRemoveFound, AbstractGet,
     AbstractBound
<1>5. CASE InsertLinks \/ EntryVacant \/ NotFound \/ GetMissing \/ BoundDone
  BY <1>5, AbstractInsert, AbstractEntry, AbstractNotFound, AbstractGet, AbstractBound
<1>6. CASE \E k \in Keys : Get(k) \/ CursorLowerBound(k)
  BY <1>6, AbstractStart
<1>7. CASE \E n \in Nodes, v \in Values : VacantInsert(n, v)
  BY <1>7, AbstractVacantInsert
<1>8. CASE \E v \in Values : SetValue(v) \/ IterNext(v)
  BY <1>8, AbstractSetValue, AbstractIter
<1>9. CASE \E name \in {"remove_node", "remove"} : OccupiedRemove(name)
  BY <1>9, AbstractOccupiedRemove
<1>10. CASE DropView \/ CursorFront \/ CursorBack \/ RemoveCurrent \/ IterStart \/ DropTree
  BY <1>10, AbstractDropView, AbstractMakeCursor, AbstractRemoveCurrent, AbstractIter, AbstractDrop
<1>11. CASE \E dir \in {"prev", "next"} :
               \/ Move(dir) \/ RemoveNeighbor(dir)
               \/ \E v \in Values : PeekMut(dir, v)
  BY <1>11, AbstractCursor
<1>12. CASE UNCHANGED vars
  BY <1>12 DEF vars, Abstract!vars, Map, View, ViewKey, KeyOf
<1> QED
  BY <1>1, <1>2, <1>3, <1>4, <1>5, <1>6, <1>7, <1>8, <1>9, <1>10, <1>11, <1>12 DEF Next

\* Whatever the keys, the number of nodes and the shapes of the tree, its calls,
\* entries, cursors and iterators behave as the ordered map of RBTreeSpec.tla.
THEOREM TreeRefines == Spec => ImplementsMap
BY MapInvariant, AbstractInit, AbstractStep, PTL DEF Spec, ImplementsMap, Abstract!Spec
=============================================================================
