------------------------------ MODULE ListArc ------------------------------
(***************************************************************************)
(* The references to one refcounted value: Arc and UniqueArc of            *)
(* rust/src/sync/arc.rs and ListArc of rust/src/list/arc.rs, whose promise *)
(* is that a value has at most one ListArc per list ID although threads    *)
(* clone, convert and drop their references at the same time. A reference  *)
(* lives in a slot and is used by the one thread that owns it; each atomic *)
(* operation on the refcount or on an AtomicTracker is a step of its own.  *)
(***************************************************************************)
EXTENDS Integers, FiniteSets

CONSTANTS
    Slots,        \* places for a reference to the value
    IDs,          \* the list IDs of the value
    Untracked,    \* the IDs of the `untracked` strategy; the others have an AtomicTracker
    NoSlot, NoID

ASSUME ArcDistinct ==
    /\ Untracked \subseteq IDs
    /\ NoSlot \notin Slots
    /\ {"none", "arc", "unique", "dropping", "or_drop", "zero", "freeing"} \cap (IDs \cup {NoID}) = {}
    /\ NoID \notin IDs

ASSUME SlotsFinite == IsFiniteSet(Slots)

VARIABLES
    count,        \* ArcInner::refcount
    live,         \* the ArcInner is allocated and its value is not dropped
    tracker,      \* tracker[id]: AtomicTracker::inner
    ref,          \* ref[s]: what slot s holds; a member of IDs is a ListArc of that ID
    want,         \* want[s]: the ID a running try_from_arc_or_drop or
                  \* try_from_arc_borrow will give s a ListArc of
    lender        \* lender[s]: the slot a running try_from_arc_borrow borrows

arcVars == <<count, live, tracker, ref, want, lender>>

ArcInit ==
    /\ count = 0
    /\ live = FALSE
    /\ tracker = [id \in IDs |-> FALSE]
    /\ ref = [s \in Slots |-> "none"]
    /\ want = [s \in Slots |-> NoID]
    /\ lender = [s \in Slots |-> NoSlot]

\* Slot s is empty, and no call will fill it.
Empty(s) == ref[s] = "none" /\ lender[s] = NoSlot
\* The owner of s may use its reference up: nothing borrows it.
Owns(s, kinds) == ref[s] \in kinds /\ want[s] = NoID /\ s \notin {lender[t] : t \in Slots}

-----------------------------------------------------------------------------
\* UniqueArc::new: a new value, its tracker not yet aware of a ListArc.
New(s) ==
    /\ ~live /\ \A t \in Slots : Empty(t)
    /\ live' = TRUE
    /\ count' = 1
    /\ tracker' = [id \in IDs |-> FALSE]
    /\ ref' = [ref EXCEPT ![s] = "unique"]
    /\ UNCHANGED <<want, lender>>

\* Arc::from(UniqueArc).
IntoShared(s) ==
    /\ Owns(s, {"unique"})
    /\ ref' = [ref EXCEPT ![s] = "arc"]
    /\ UNCHANGED <<count, live, tracker, want, lender>>

\* on_create_list_arc_from_unique, for AtomicTracker and for `untracked`.
OnCreate(ids) == tracker' = [id \in IDs |-> tracker[id] \/ id \in ids \ Untracked]

\* ListArc::from(UniqueArc).
FromUnique(s, id) ==
    /\ \/ Owns(s, {"unique"})
       \/ ref[s] = "unique" /\ want[s] = id
    /\ OnCreate({id})
    /\ ref' = [ref EXCEPT ![s] = id]
    /\ want' = [want EXCEPT ![s] = NoID]
    /\ UNCHANGED <<count, live, lender>>

\* pair_from_unique: build_assert!(ID != ID2).
PairFromUnique(s, t, id, id2) ==
    /\ Owns(s, {"unique"}) /\ Empty(t) /\ id # id2
    /\ OnCreate({id, id2})
    /\ count' = count + 1
    /\ ref' = [ref EXCEPT ![s] = id, ![t] = id2]
    /\ UNCHANGED <<live, want, lender>>

\* Arc::clone and ListArc::clone_arc.
Clone(s, t) ==
    /\ ref[s] \in {"arc"} \cup IDs /\ Empty(t)
    /\ count' = count + 1
    /\ ref' = [ref EXCEPT ![t] = "arc"]
    /\ UNCHANGED <<live, tracker, want, lender>>

-----------------------------------------------------------------------------
\* Mutant: a load and a store that do not look at the old value.
TryNewListArc_Unchecked(id) ==
    /\ id \notin Untracked
    /\ tracker' = [tracker EXCEPT ![id] = TRUE]

\* try_new_list_arc: the compare-and-exchange succeeds when the flag is false.
TryNewListArc(id) ==
    /\ id \notin Untracked
    /\ ~tracker[id]
    /\ tracker' = [tracker EXCEPT ![id] = TRUE]

\* try_from_arc; when the exchange fails the caller gets its Arc back.
TryFromArc(s, id) ==
    /\ Owns(s, {"arc"})
    /\ TryNewListArc(id)
    /\ ref' = [ref EXCEPT ![s] = id]
    /\ UNCHANGED <<count, live, want, lender>>

\* try_from_arc_borrow: first the exchange, then the clone into slot t.
TryFromArcBorrow(s, t, id) ==
    /\ ref[s] \in {"arc"} \cup IDs /\ Empty(t)
    /\ TryNewListArc(id)
    /\ want' = [want EXCEPT ![t] = id]
    /\ lender' = [lender EXCEPT ![t] = s]
    /\ UNCHANGED <<count, live, ref>>

\* Mutant: the temporary Arc is taken over instead of cloned.
BorrowClone_NotCounted(t) ==
    /\ lender[t] # NoSlot
    /\ ref' = [ref EXCEPT ![t] = want[t]]
    /\ want' = [want EXCEPT ![t] = NoID]
    /\ lender' = [lender EXCEPT ![t] = NoSlot]
    /\ UNCHANGED <<count, live, tracker>>

BorrowClone(t) ==
    /\ lender[t] # NoSlot
    /\ count' = count + 1
    /\ ref' = [ref EXCEPT ![t] = want[t]]
    /\ want' = [want EXCEPT ![t] = NoID]
    /\ lender' = [lender EXCEPT ![t] = NoSlot]
    /\ UNCHANGED <<live, tracker>>

\* try_from_arc_or_drop whose exchange fails goes on to into_unique_or_drop.
TryFromArcOrDrop(s, id) ==
    /\ Owns(s, {"arc"})
    /\ id \notin Untracked /\ tracker[id]
    /\ ref' = [ref EXCEPT ![s] = "or_drop"]
    /\ want' = [want EXCEPT ![s] = id]
    /\ UNCHANGED <<count, live, tracker, lender>>

\* into_unique_or_drop called by itself.
IntoUniqueOrDrop(s) ==
    /\ Owns(s, {"arc"})
    /\ ref' = [ref EXCEPT ![s] = "or_drop"]
    /\ UNCHANGED <<count, live, tracker, want, lender>>

\* Mutant: a count of one is taken for this thread's own.
DecUnique_OneIsMine(s) ==
    /\ ref[s] = "or_drop"
    /\ count' = count - 1
    /\ ref' = [ref EXCEPT ![s] = IF count' <= 1 THEN "zero" ELSE "none"]
    /\ want' = [want EXCEPT ![s] = IF count' <= 1 THEN @ ELSE NoID]
    /\ UNCHANGED <<live, tracker, lender>>

\* refcount_dec_and_test in into_unique_or_drop ...
DecUnique(s) ==
    /\ ref[s] = "or_drop"
    /\ count' = count - 1
    /\ ref' = [ref EXCEPT ![s] = IF count' = 0 THEN "zero" ELSE "none"]
    /\ want' = [want EXCEPT ![s] = IF count' = 0 THEN @ ELSE NoID]
    /\ UNCHANGED <<live, tracker, lender>>

\* ... and REFCOUNT_INIT(1), which makes the reference a UniqueArc.
ResetCount(s) ==
    /\ ref[s] = "zero"
    /\ count' = 1
    /\ ref' = [ref EXCEPT ![s] = "unique"]
    /\ UNCHANGED <<live, tracker, want, lender>>

-----------------------------------------------------------------------------
\* on_drop_list_arc: the flag is cleared and the ListArc is an Arc again.
OnDrop(id) == tracker' = [tracker EXCEPT ![id] = FALSE]

IntoArc(s) ==
    /\ Owns(s, IDs)
    /\ OnDrop(ref[s])
    /\ ref' = [ref EXCEPT ![s] = "arc"]
    /\ UNCHANGED <<count, live, want, lender>>

\* Drop for ListArc, then the drop of its Arc.
DropListArc(s) ==
    /\ Owns(s, IDs)
    /\ OnDrop(ref[s])
    /\ ref' = [ref EXCEPT ![s] = "dropping"]
    /\ UNCHANGED <<count, live, want, lender>>

DropArc(s) ==
    /\ Owns(s, {"arc", "unique", "dropping"})
    /\ count' = count - 1
    /\ ref' = [ref EXCEPT ![s] = IF count' = 0 THEN "freeing" ELSE "none"]
    /\ UNCHANGED <<live, tracker, want, lender>>

FreeValue(s) ==
    /\ ref[s] = "freeing"
    /\ live' = FALSE
    /\ ref' = [ref EXCEPT ![s] = "none"]
    /\ UNCHANGED <<count, tracker, want, lender>>

SlotStep(s) ==
    \/ New(s)
    \/ IntoShared(s)
    \/ \E id \in IDs : FromUnique(s, id) \/ TryFromArc(s, id) \/ TryFromArcOrDrop(s, id)
    \/ \E t \in Slots \ {s}, id \in IDs :
          \/ TryFromArcBorrow(s, t, id)
          \/ \E id2 \in IDs : PairFromUnique(s, t, id, id2)
    \/ \E t \in Slots \ {s} : Clone(s, t)
    \/ BorrowClone(s)
    \/ IntoUniqueOrDrop(s)
    \/ DecUnique(s)
    \/ ResetCount(s)
    \/ IntoArc(s)
    \/ DropListArc(s)
    \/ DropArc(s)
    \/ FreeValue(s)

ArcNext == \E s \in Slots : SlotStep(s)

ArcSpec == ArcInit /\ [][ArcNext]_arcVars

-----------------------------------------------------------------------------
(* Properties. *)

\* The counter and the flags keep their types.
ArcTypeOK ==
    /\ count \in Nat
    /\ live \in BOOLEAN
    /\ tracker \in [IDs -> BOOLEAN]
    /\ ref \in [Slots -> {"none", "arc", "unique", "dropping", "or_drop", "zero", "freeing"} \cup IDs]
    /\ want \in [Slots -> IDs \cup {NoID}]
    /\ lender \in [Slots -> Slots \cup {NoSlot}]

\* The slots whose reference owns one unit of the refcount.
Counted == {s \in Slots : ref[s] \notin {"none", "zero", "freeing"}}

\* The refcount is the number of references, so the value is freed by its last
\* reference, and never while another thread still has one or is about to clone it.
CountExact ==
    /\ count = Cardinality(Counted)
    /\ \A s \in Slots : ref[s] # "none" \/ lender[s] # NoSlot => live

\* A value that is alive still has a reference: when every thread calls
\* into_unique_or_drop or try_from_arc_or_drop, one of them is left with the value.
NothingLeaked == live => \E s \in Slots : ref[s] # "none"

\* The slots that have, or whose running call is going to have, the ListArc of id.
ListArcs(id) == {s \in Slots : ref[s] = id \/ (lender[s] # NoSlot /\ want[s] = id)}

\* The invariant of ListArc: no two for one value and ID, on any strategy.
OneListArc == \A id \in IDs : \A s, t \in ListArcs(id) : s = t

\* The invariant of AtomicTracker, in both directions: the flag is true while there
\* is a ListArc (otherwise a second one could be made), and false when there is none
\* (otherwise the value could never be put in a list again).
TrackerExact == \A id \in IDs \ Untracked : tracker[id] <=> ListArcs(id) # {}

\* A UniqueArc, or a call that saw the count reach zero, has the value to itself:
\* it writes the refcount and the tracker without synchronisation.
UniqueAlone ==
    \A s, t \in Slots :
        ref[s] \in {"unique", "zero", "freeing"} /\ t # s => Empty(t)

\* What a running call remembers: the ID it was asked for, and a lender that
\* cannot be used up before the clone.
CallsOK ==
    \A s \in Slots :
        /\ want[s] # NoID => lender[s] # NoSlot \/ ref[s] \in {"or_drop", "zero", "unique"}
        /\ lender[s] # NoSlot => /\ ref[s] = "none"
                                 /\ want[s] \in IDs \ Untracked
                                 /\ ref[lender[s]] \in {"arc"} \cup IDs
                                 /\ lender[s] # s

\* The refcount of arc.rs is exact and the value lives as long as it is counted:
\* the last reference frees it or keeps it.
CountInv == CountExact /\ NothingLeaked

\* There is one ListArc per ID, and the AtomicTracker of list/arc.rs knows of it.
TrackerInv == OneListArc /\ TrackerExact
=============================================================================
