------------------------------- MODULE PinInit -------------------------------
(***************************************************************************)
(* In-place initialisation of one value: the code pin_init!, try_pin_init!,*)
(* init! and try_init! expand to (rust/src/init/macros.rs), the array and  *)
(* chain initialisers (rust/src/init.rs), their guards                     *)
(* (rust/src/init/__internal.rs, rust/src/types.rs) and the places a value *)
(* is initialised in: Box and UniqueArc on the heap, StackInit on the      *)
(* stack (rust/src/alloc/kbox.rs, rust/src/init/__internal.rs).            *)
(*                                                                         *)
(* Field i, in the order of the initialiser, has Lens[i] elements, one     *)
(* unless it is initialised by [pin_]init_array_from_fn.  An element is    *)
(* initialised and dropped in one step.                                    *)
(***************************************************************************)
EXTENDS Integers, Sequences

CONSTANTS
    Lens,       \* the number of elements of each field
    Fallible,   \* the fields whose initialiser may fail
    Chained,    \* the fields initialised with chain or pin_chain
    DeclOrder   \* the fields in the order the struct declares them

ASSUME PinAssumption ==
    /\ Lens \in Seq(Nat \ {0})
    /\ Fallible \cup Chained \subseteq DOMAIN Lens
    /\ DeclOrder \in [DOMAIN Lens -> DOMAIN Lens]
    /\ \A i \in DOMAIN Lens : \E j \in DOMAIN Lens : DeclOrder[j] = i

VARIABLES
    place,      \* the memory, and whether its owner treats it as a value
    kind,       \* heap (Box, UniqueArc) or stack (StackInit)
    cell,       \* per element: raw memory or a live value
    mode,       \* what the thread that owns the place is doing
    at,         \* the field being initialised
    count,      \* init_count: the elements of that field initialised so far
    guards,     \* the DropGuards that exist, as fields
    todo,       \* the elements drop_in_place still has to drop
    keep        \* does the owner keep the memory after the drop?

pinvars == <<place, kind, cell, mode, at, count, guards, todo, keep>>

N == Len(Lens)

\* The first n elements of field i, and all elements of some fields.
Prefix(i, n) == {i} \X (1..n)
ElementsOf(fs) == UNION {Prefix(i, Lens[i]) : i \in fs}
Elements == ElementsOf(1..N)

\* The order elements are dropped in: a slice from its start; the fields of a
\* value as they are declared; locals, which the guards are, in the reverse of
\* the order they were created in.
DeclPos(i) == CHOOSE j \in 1..N : DeclOrder[j] = i
DropsBefore(d, e) ==
    IF d[1] = e[1] THEN d[2] < e[2]
    ELSE IF mode = "unwind" THEN d[1] > e[1] ELSE DeclPos(d[1]) < DeclPos(e[1])

NextToDrop(e) == e \in todo /\ \A d \in todo \ {e} : DropsBefore(e, d)

PinTypeOK ==
    /\ place \in {"none", "uninit", "value", "foreign"}
    /\ kind \in {"heap", "stack"}
    /\ cell \in [Elements -> {"raw", "live", "bad"}]
    /\ mode \in {"idle", "run", "unwind", "drop"}
    /\ at \in 1..(N + 1)
    /\ count \in Nat
    /\ guards \subseteq 1..N
    /\ todo \subseteq Elements
    /\ keep \in BOOLEAN

PinInitState ==
    /\ place = "none" /\ kind = "heap"
    /\ cell = [e \in Elements |-> "raw"]
    /\ mode = "idle" /\ at = 1 /\ count = 0
    /\ guards = {} /\ todo = {} /\ keep = FALSE

\* ptr::write over a live value loses it; dropping raw memory is worse.
Written(c, e) == [c EXCEPT ![e] = IF @ = "raw" THEN "live" ELSE "bad"]
Dropped(c, e) == [c EXCEPT ![e] = IF @ = "live" THEN "raw" ELSE "bad"]

-----------------------------------------------------------------------------
(* The place.                                                              *)

\* new_uninit, or StackInit::uninit, which cannot fail.
NewUninit(k) ==
    /\ place = "none" /\ mode = "idle"
    /\ place' = "uninit"
    /\ kind' = k
    /\ UNCHANGED <<cell, mode, at, count, guards, todo, keep>>

\* write_init, write_pin_init or StackInit::init calls the initialiser.
StartInit ==
    /\ place = "uninit" /\ mode = "idle"
    /\ mode' = "run"
    /\ at' = 1 /\ count' = 0 /\ guards' = {}
    /\ UNCHANGED <<place, kind, cell, todo, keep>>

\* The owner drops memory that holds no value: Box<MaybeUninit<T>>, or a
\* StackInit whose is_init is false.
DropUninit ==
    /\ place = "uninit" /\ mode = "idle"
    /\ place' = "none"
    /\ UNCHANGED <<kind, cell, mode, at, count, guards, todo, keep>>

\* The owner drops the value: Box::drop or the end of the scope of a StackInit,
\* and with k, drop_contents or StackInit::init on an initialised place, which
\* drop the value and keep the memory.
DropValue(k) ==
    /\ place = "value" /\ mode = "idle"
    /\ mode' = "drop"
    /\ todo' = Elements
    /\ keep' = k
    /\ UNCHANGED <<place, kind, cell, at, count, guards>>

\* The owner of a [pinned] Box gives the pointer to C, which keeps it and lends
\* the value out with borrow.
IntoForeign ==
    /\ place = "value" /\ kind = "heap" /\ mode = "idle"
    /\ place' = "foreign"
    /\ UNCHANGED <<kind, cell, mode, at, count, guards, todo, keep>>

\* from_foreign or try_from_foreign makes the Box again; a null pointer, which
\* was never a Box, gives None.
FromForeign ==
    /\ place = "foreign" /\ mode = "idle"
    /\ place' = "value"
    /\ UNCHANGED <<kind, cell, mode, at, count, guards, todo, keep>>

-----------------------------------------------------------------------------
(* The initialiser.                                                        *)

\* The closure of the next element of the current field returns Ok.
InitElement ==
    /\ mode = "run" /\ at <= N /\ count < Lens[at]
    /\ cell' = Written(cell, <<at, count + 1>>)
    /\ count' = count + 1
    /\ UNCHANGED <<place, kind, mode, at, guards, todo, keep>>

\* The field is initialised: init_count is dismissed and the macro creates the
\* field's DropGuard.
FieldDone ==
    /\ mode = "run" /\ at <= N /\ count = Lens[at]
    /\ guards' = guards \cup {at}
    /\ at' = at + 1 /\ count' = 0
    /\ UNCHANGED <<place, kind, cell, mode, todo, keep>>

\* What the DropGuards drop.
GuardDrops == ElementsOf(guards)

\* Mutant: init_count is incremented before the element is initialised.
InitErr_CountsEarly ==
    /\ mode = "run" /\ at <= N /\ at \in Fallible /\ count < Lens[at]
    /\ mode' = "unwind"
    /\ todo' = Prefix(at, count + 1) \cup GuardDrops
    /\ guards' = {}
    /\ UNCHANGED <<place, kind, cell, at, count, keep>>

\* An initialiser fails: init_count drops the elements before it, then the
\* guards of the fields before it are dropped as `?` leaves the closure.
InitErr ==
    /\ mode = "run" /\ at <= N /\ at \in Fallible /\ count < Lens[at]
    /\ mode' = "unwind"
    /\ todo' = Prefix(at, count) \cup GuardDrops
    /\ guards' = {}
    /\ UNCHANGED <<place, kind, cell, at, count, keep>>

\* What chain and pin_chain drop when their closure fails: the whole field,
\* which has no guard yet.
ChainDrops == Prefix(at, Lens[at])

\* The closure given to chain or pin_chain fails, and then the guards go.
ChainErr ==
    /\ mode = "run" /\ at <= N /\ at \in Chained /\ count = Lens[at]
    /\ mode' = "unwind"
    /\ todo' = ChainDrops \cup GuardDrops
    /\ guards' = {}
    /\ UNCHANGED <<place, kind, cell, at, count, keep>>

\* Every field is initialised: the guards are forgotten and the owner takes the
\* memory as a value (assume_init, is_init = true).
InitOk ==
    /\ mode = "run" /\ at = N + 1
    /\ place' = "value"
    /\ mode' = "idle" /\ guards' = {}
    /\ UNCHANGED <<kind, cell, at, count, todo, keep>>

-----------------------------------------------------------------------------
(* drop_in_place.                                                          *)

DropElement(e) ==
    /\ NextToDrop(e)
    /\ cell' = Dropped(cell, e)
    /\ todo' = todo \ {e}
    /\ UNCHANGED <<place, kind, mode, at, count, guards, keep>>

\* The error is returned: the heap memory is freed without dropping what is in
\* it, a StackInit stays, with is_init false.
UnwindDone ==
    /\ mode = "unwind" /\ todo = {}
    /\ mode' = "idle"
    /\ place' = IF kind = "heap" THEN "none" ELSE "uninit"
    /\ UNCHANGED <<kind, cell, at, count, guards, todo, keep>>

DropDone ==
    /\ mode = "drop" /\ todo = {}
    /\ mode' = "idle"
    /\ place' = IF keep THEN "uninit" ELSE "none"
    /\ UNCHANGED <<kind, cell, at, count, guards, todo, keep>>

PinNext ==
    \/ \E k \in {"heap", "stack"} : NewUninit(k)
    \/ StartInit \/ DropUninit \/ (\E k \in BOOLEAN : DropValue(k))
    \/ IntoForeign \/ FromForeign
    \/ InitElement \/ FieldDone \/ InitErr \/ ChainErr \/ InitOk
    \/ (\E e \in Elements : DropElement(e)) \/ UnwindDone \/ DropDone

PinSpec == PinInitState /\ [][PinNext]_pinvars

-----------------------------------------------------------------------------
(* Properties.                                                             *)

Live == {e \in Elements : cell[e] = "live"}

\* No element is dropped twice or before it was initialised, none is written
\* over while it is live, and none is left behind in memory the owner gives
\* back or takes as uninitialised, whichever initialiser failed; a value C keeps
\* a pointer to is whole.
DropsExact ==
    /\ \A e \in Elements : cell[e] # "bad"
    /\ mode = "idle" => Live = (IF place \in {"value", "foreign"} THEN Elements ELSE {})

\* While the initialiser runs or unwinds, a field is live only if every field
\* initialised before it is: a later field may refer to an earlier one, as long
\* as it lives.
EarlierOutlivesLater ==
    mode \in {"run", "unwind"} =>
        \A e \in Live, d \in Elements : d[1] < e[1] => d \in Live

\* What an initialiser has done is undone exactly once and in order, whatever
\* fails (init.rs, init/macros.rs).
InitInv == DropsExact /\ EarlierOutlivesLater
=============================================================================
