------------------------------- MODULE Locks -------------------------------
(***************************************************************************)
(* Locks and what they protect (sync/lock.rs, sync/locked_by.rs,           *)
(* sync/lock/global.rs).  A LockedBy holds data outside of a lock and      *)
(* remembers the address of the data inside it: whoever shows a reference  *)
(* to data at that address gets access.  Locks are freed and others made   *)
(* at the same address while the LockedBy lives on.                        *)
(*                                                                         *)
(* Address Global is a static lock, the others are memory.  The back ends, *)
(* mutex and spin lock, exclude each other's holders and differ in how     *)
(* they wait, which does not show here.                                    *)
(***************************************************************************)
EXTENDS Naturals, FiniteSets

CONSTANTS
    Holders,    \* threads
    Memory,     \* addresses where locks are made
    Global,     \* the static lock
    NoOne       \* neither thread nor address

ASSUME LocksAssumption == Global \notin Memory /\ NoOne \notin Memory \cup Holders \cup {Global}

Addresses == Memory \cup {Global}

VARIABLES
    inited,     \* addresses at which there is an initialised lock
    holder,     \* per address: the thread that owns the lock
    guards,     \* per thread: addresses of the locks it has a Guard of
    boundTo,    \* the LockedBy: address of its owner, NoOne if there is none
    refs        \* references to the data of the LockedBy and the GlobalLockedBy

lockedVars == <<inited, holder, guards, boundTo, refs>>

\* A reference: the data it is to, the thread that has it, the Guard it borrows
\* (of thread of, on lock via), and whether it is a &mut.
Ref == [data : {"LockedBy", "GlobalLockedBy"}, by : Holders, of : Holders,
        via : Addresses, mut : BOOLEAN]

LocksTypeOK ==
    /\ inited \subseteq Addresses
    /\ holder \in [Addresses -> Holders \cup {NoOne}]
    /\ guards \in [Holders -> SUBSET Addresses]
    /\ boundTo \in Memory \cup {NoOne}
    /\ refs \subseteq Ref

LocksInit ==
    /\ inited = {} /\ boundTo = NoOne
    /\ holder = [a \in Addresses |-> NoOne]
    /\ guards = [t \in Holders |-> {}]
    /\ refs = {}

\* References that borrow the Guard of thread h on lock a.
Borrows(h, a) == {r \in refs : r.of = h /\ r.via = a}

\* References to the data of the LockedBy, or of the GlobalLockedBy.
To(data) == {r \in refs : r.data = data}

LocksIdle == inited = {} /\ boundTo = NoOne

\* Backend::lock and try_lock, of a mutex or a spin lock, succeed only while
\* nobody holds the lock.
Unheld(a) == holder[a] = NoOne

-----------------------------------------------------------------------------
\* Lock::new, in place.
LockNew(a) ==
    /\ a \in Memory \ inited
    /\ inited' = inited \cup {a}
    /\ UNCHANGED <<holder, guards, boundTo, refs>>

\* GlobalLock::init, once, by the initialiser of the module; the caller's
\* promise is that it comes before every other use.
GlobalInit ==
    /\ Global \notin inited
    /\ inited' = inited \cup {Global}
    /\ UNCHANGED <<holder, guards, boundTo, refs>>

\* The lock is freed: no Guard borrows it.
LockFree(a) ==
    /\ a \in inited /\ \A t \in Holders : a \notin guards[t]
    /\ inited' = inited \ {a}
    /\ UNCHANGED <<holder, guards, boundTo, refs>>

\* B::lock, or a B::try_lock that succeeds, and Guard::new.  A thread takes
\* no lock it has.
LockLock(t, a) ==
    /\ a \in inited /\ Unheld(a)
    /\ holder' = [holder EXCEPT ![a] = t]
    /\ guards' = [guards EXCEPT ![t] = @ \cup {a}]
    /\ UNCHANGED <<inited, boundTo, refs>>

\* B::try_lock: None, and no guard, when the lock is taken.
TryLock(t, a) ==
    /\ a \in inited /\ a \notin guards[t] /\ Unheld(a)
    /\ guards' = [guards EXCEPT ![t] = @ \cup {a}]
    /\ holder' = [holder EXCEPT ![a] = t]
    /\ UNCHANGED <<inited, boundTo, refs>>

\* Guard::drop, when no reference is left that borrows the guard.
GuardDrop(t, a) ==
    /\ a \in guards[t]
    /\ Borrows(t, a) = {}
    /\ holder' = [holder EXCEPT ![a] = NoOne]
    /\ guards' = [guards EXCEPT ![t] = @ \ {a}]
    /\ UNCHANGED <<inited, boundTo, refs>>

-----------------------------------------------------------------------------
\* LockedBy::new: the address of the data inside the lock.
LockedByNew(a) ==
    /\ boundTo = NoOne /\ a \in inited
    /\ boundTo' = a
    /\ UNCHANGED <<inited, holder, guards, refs>>

\* Drop of the LockedBy: nobody borrows it.
LockedByDrop ==
    /\ boundTo # NoOne /\ To("LockedBy") = {}
    /\ boundTo' = NoOne
    /\ UNCHANGED <<inited, holder, guards, refs>>

\* Deref of the Guard of thread h on lock a lends a & of the data inside to any
\* thread (Guard is Sync), DerefMut a &mut: the borrow checker lets shared
\* borrows live side by side and a mutable one only alone.
Lends(h, a, mut) ==
    /\ a \in guards[h]
    /\ \A r \in Borrows(h, a) : ~r.mut /\ ~mut

Refer(data, t, h, a, mut) ==
    /\ refs' = refs \cup {[data |-> data, by |-> t, of |-> h, via |-> a, mut |-> mut]}
    /\ UNCHANGED <<inited, holder, guards, boundTo>>

\* LockedBy::access by thread t, shown a & to the data of lock a: panic, for
\* good, with another owner than the one of new.
Access(t, h, a) ==
    /\ boundTo # NoOne /\ Lends(h, a, FALSE)
    /\ a = boundTo
    /\ Refer("LockedBy", t, h, a, FALSE)

\* Mutant: the owner is not compared with the one of new.
AccessMut_AnyOwner(t, h, a) ==
    boundTo # NoOne /\ Lends(h, a, TRUE) /\ Refer("LockedBy", t, h, a, TRUE)

\* LockedBy::access_mut, shown a &mut.
AccessMut(t, h, a) ==
    /\ boundTo # NoOne /\ Lends(h, a, TRUE)
    /\ a = boundTo
    /\ Refer("LockedBy", t, h, a, TRUE)

\* GlobalLockedBy::as_ref and as_mut: the guard's type names the one lock.
GlobalAsRef(t, h) ==
    Lends(h, Global, FALSE) /\ Refer("GlobalLockedBy", t, h, Global, FALSE)

GlobalAsMut(t, h) ==
    Lends(h, Global, TRUE) /\ Refer("GlobalLockedBy", t, h, Global, TRUE)

\* The reference is used no more.
EndAccess(r) ==
    /\ refs' = refs \ {r}
    /\ UNCHANGED <<inited, holder, guards, boundTo>>

LocksStep ==
    \/ \E a \in Memory : LockNew(a) \/ LockFree(a) \/ LockedByNew(a)
    \/ GlobalInit \/ LockedByDrop
    \/ \E t \in Holders, a \in Addresses : LockLock(t, a) \/ TryLock(t, a) \/ GuardDrop(t, a)
    \/ \E t, h \in Holders, a \in Addresses : Access(t, h, a) \/ AccessMut(t, h, a)
    \/ \E t, h \in Holders : GlobalAsRef(t, h) \/ GlobalAsMut(t, h)
    \/ \E r \in refs : EndAccess(r)

-----------------------------------------------------------------------------
\* The data of a LockedBy, and of a GlobalLockedBy, has any number of readers or
\* one writer, and the lock that protects it is held as long as one of them is
\* there: also when the owner was freed and another lock made in its place
\* while the data lived on.
AccessExclusive ==
    /\ \A r, s \in refs : r.data = s.data /\ r.mut => s = r
    /\ \A r \in refs : holder[IF r.data = "LockedBy" THEN boundTo ELSE Global] = r.of

=============================================================================
