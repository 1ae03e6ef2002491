------------------------------ MODULE MqRequest ------------------------------
(***************************************************************************)
(* Ownership of a blk-mq request between the C block layer and a Rust      *)
(* driver: rust/src/block/mq/request.rs (the ARef reference count kept in  *)
(* the request's private data) and rust/src/block/mq/operations.rs (the    *)
(* callbacks blk-mq calls).                                                *)
(*                                                                         *)
(* Handles are the ARef<Request> values that may exist at one time; each   *)
(* is used by one thread at a time, so it stands for the thread using it.  *)
(* Contexts are the kernel contexts that may be inside queue_rq_callback   *)
(* at one time.  Every access to `refcount` is one atomic instruction (the *)
(* `fetch_update` loops take effect at their successful exchange).         *)
(***************************************************************************)
EXTENDS Integers, FiniteSets

CONSTANTS
    Requests,       \* the requests of one tag set
    Handles,        \* bound: the ARefs that may exist at one time
    Contexts,       \* bound: concurrent calls of queue_rq_callback
    NoRq, NoHandle, \* no request, no handle
    RefMax,         \* the largest value of the AtomicU64
    CleanErrors     \* does a driver that returns Err give its ARefs up first?

ASSUME HandlesAssumption == IsFiniteSet(Handles)
ASSUME NullAssumption == NoRq \notin Requests /\ NoHandle \notin Handles
ASSUME RefMaxAssumption ==
    RefMax \in Nat /\ RefMax >= 2 /\ Cardinality(Handles) + 1 < RefMax
ASSUME CleanErrorsAssumption == CleanErrors \in BOOLEAN

VARIABLES
    blk,        \* per request: what the block layer believes
    refcount,   \* per request: RequestDataWrapper.refcount
    st,         \* per handle: free, a local of the callback, held, ending
    rqOf,       \* per handle: the request it points to
    pc,         \* per context: where queue_rq_callback is
    crq,        \* per context: the request being queued
    carg,       \* per context: the ARef made for the driver
    live        \* per context: has the request not been ended since Dispatch

vars == <<blk, refcount, st, rqOf, pc, crq, carg, live>>

BlkStates == {"uninit", "idle", "requeue", "dispatch", "inflight"}
HandleStates == {"free", "arg", "held", "ending"}
CbStates == {"none", "store", "start", "driver"}

TypeOK ==
    /\ blk \in [Requests -> BlkStates]
    /\ refcount \in [Requests -> 0..RefMax]
    /\ st \in [Handles -> HandleStates]
    /\ rqOf \in [Handles -> Requests \cup {NoRq}]
    /\ pc \in [Contexts -> CbStates]
    /\ crq \in [Contexts -> Requests \cup {NoRq}]
    /\ carg \in [Contexts -> Handles \cup {NoHandle}]
    /\ live \in [Contexts -> BOOLEAN]

Init ==
    /\ blk = [r \in Requests |-> "uninit"]
    /\ refcount = [r \in Requests |-> 0]
    /\ st = [h \in Handles |-> "free"]
    /\ rqOf = [h \in Handles |-> NoRq]
    /\ pc = [c \in Contexts |-> "none"]
    /\ crq = [c \in Contexts |-> NoRq]
    /\ carg = [c \in Contexts |-> NoHandle]
    /\ live = [c \in Contexts |-> FALSE]

\* The ARefs to r in existence.
Refs(r) == {h \in Handles : rqOf[h] = r /\ st[h] \in {"arg", "held"}}

\* Handles that won the exchange of try_set_end and have yet to call
\* blk_mq_end_request.  Their ARef has been forgotten.
Enders(r) == {h \in Handles : rqOf[h] = r /\ st[h] = "ending"}

\* u64 arithmetic of the closures |x| x + 1 and |x| x - 1.
Inc(x) == IF x = RefMax THEN 0 ELSE x + 1
Dec(x) == IF x = 0 THEN RefMax ELSE x - 1

-----------------------------------------------------------------------------
(* The callbacks blk-mq calls.                                             *)

\* init_request_callback: the private data of a new request.
InitRequest(r) ==
    /\ blk[r] = "uninit"
    /\ blk' = [blk EXCEPT ![r] = "idle"]
    /\ refcount' = [refcount EXCEPT ![r] = 0]
    /\ UNCHANGED <<st, rqOf, pc, crq, carg, live>>

\* exit_request_callback: the tag set is freed; only unused requests are.
ExitRequest(r) ==
    /\ blk[r] = "idle"
    /\ blk' = [blk EXCEPT ![r] = "uninit"]
    /\ UNCHANGED <<refcount, st, rqOf, pc, crq, carg, live>>

\* The block layer hands r to the driver: it calls queue_rq_callback.
Dispatch(c, r) ==
    /\ pc[c] = "none"
    /\ blk[r] \in {"idle", "requeue"}
    /\ blk' = [blk EXCEPT ![r] = "dispatch"]
    /\ pc' = [pc EXCEPT ![c] = "store"]
    /\ crq' = [crq EXCEPT ![c] = r]
    /\ live' = [live EXCEPT ![c] = TRUE]
    /\ UNCHANGED <<refcount, st, rqOf, carg>>

\* store(2) and aref_from_raw.
QueueRqStore(c, h) ==
    /\ pc[c] = "store"
    /\ st[h] = "free"
    /\ refcount' = [refcount EXCEPT ![crq[c]] = 2]
    /\ st' = [st EXCEPT ![h] = "arg"]
    /\ rqOf' = [rqOf EXCEPT ![h] = crq[c]]
    /\ carg' = [carg EXCEPT ![c] = h]
    /\ pc' = [pc EXCEPT ![c] = "start"]
    /\ UNCHANGED <<blk, crq, live>>

\* start_unchecked, then T::queue_rq is entered and owns the ARef.
QueueRqStart(c) ==
    /\ pc[c] = "start"
    /\ blk' = [blk EXCEPT ![crq[c]] = "inflight"]
    /\ st' = [st EXCEPT ![carg[c]] = "held"]
    /\ carg' = [carg EXCEPT ![c] = NoHandle]
    /\ pc' = [pc EXCEPT ![c] = "driver"]
    /\ UNCHANGED <<refcount, rqOf, crq, live>>

\* T::queue_rq returned Ok: BLK_STS_OK, the driver keeps the request.
QueueRqOk(c) ==
    /\ pc[c] = "driver"
    /\ pc' = [pc EXCEPT ![c] = "none"]
    /\ crq' = [crq EXCEPT ![c] = NoRq]
    /\ live' = [live EXCEPT ![c] = FALSE]
    /\ UNCHANGED <<blk, refcount, st, rqOf, carg>>

\* T::queue_rq returned Err: to_blk_status makes the block layer take the
\* request back, to end it or (for a resource error) to queue it again.
QueueRqErr(c) ==
    /\ pc[c] = "driver"
    /\ CleanErrors => live[c] /\ Refs(crq[c]) = {} /\ Enders(crq[c]) = {}
    /\ \E back \in {"idle", "requeue"} : blk' = [blk EXCEPT ![crq[c]] = back]
    /\ pc' = [pc EXCEPT ![c] = "none"]
    /\ crq' = [crq EXCEPT ![c] = NoRq]
    /\ live' = [live EXCEPT ![c] = FALSE]
    /\ UNCHANGED <<refcount, st, rqOf, carg>>

-----------------------------------------------------------------------------
(* What a driver does with its ARefs.                                      *)

\* Mutant: the new ARef is not counted.
CloneRef_NotCounted(h, g) ==
    /\ st[h] = "held"
    /\ st[g] = "free"
    /\ st' = [st EXCEPT ![g] = "held"]
    /\ rqOf' = [rqOf EXCEPT ![g] = rqOf[h]]
    /\ UNCHANGED <<blk, refcount, pc, crq, carg, live>>

\* ARef::clone: inc_ref leaves a count of 0 alone.
CloneRef(h, g) ==
    /\ st[h] = "held"
    /\ st[g] = "free"
    /\ refcount' = [refcount EXCEPT ![rqOf[h]] = IF @ = 0 THEN @ ELSE Inc(@)]
    /\ st' = [st EXCEPT ![g] = "held"]
    /\ rqOf' = [rqOf EXCEPT ![g] = rqOf[h]]
    /\ UNCHANGED <<blk, pc, crq, carg, live>>

\* ARef::drop: dec_ref.
DropRef(h) ==
    /\ st[h] = "held"
    /\ refcount' = [refcount EXCEPT ![rqOf[h]] = Dec(@)]
    /\ st' = [st EXCEPT ![h] = "free"]
    /\ rqOf' = [rqOf EXCEPT ![h] = NoRq]
    /\ UNCHANGED <<blk, pc, crq, carg, live>>

\* end_ok, up to the compare_exchange(2, 0) of try_set_end.  When the count is
\* not 2 the ARef is returned to the caller: nothing changes.
TrySetEnd(h) ==
    /\ st[h] = "held"
    /\ refcount[rqOf[h]] = 2
    /\ refcount' = [refcount EXCEPT ![rqOf[h]] = 0]
    /\ st' = [st EXCEPT ![h] = "ending"]
    /\ UNCHANGED <<blk, rqOf, pc, crq, carg, live>>

\* end_ok, the call of blk_mq_end_request.
EndRequest(h) ==
    /\ st[h] = "ending"
    /\ blk' = [blk EXCEPT ![rqOf[h]] = "idle"]
    /\ st' = [st EXCEPT ![h] = "free"]
    /\ rqOf' = [rqOf EXCEPT ![h] = NoRq]
    /\ live' = [c \in Contexts |-> live[c] /\ crq[c] # rqOf[h]]
    /\ UNCHANGED <<refcount, pc, crq, carg>>

-----------------------------------------------------------------------------
Next ==
    \/ \E r \in Requests : InitRequest(r) \/ ExitRequest(r)
    \/ \E c \in Contexts, r \in Requests : Dispatch(c, r)
    \/ \E c \in Contexts, h \in Handles : QueueRqStore(c, h)
    \/ \E c \in Contexts : QueueRqStart(c) \/ QueueRqOk(c) \/ QueueRqErr(c)
    \/ \E h, g \in Handles : CloneRef(h, g)
    \/ \E h \in Handles : DropRef(h) \/ TrySetEnd(h) \/ EndRequest(h)

Spec == Init /\ [][Next]_vars

-----------------------------------------------------------------------------
(* Properties.                                                             *)

\* The count of a request the driver owns is one for being in flight plus one
\* for each ARef, and 0 from the moment end_ok has claimed it: whatever clones,
\* drops and failed ends interleave, request.rs never loses a reference.
RefcountExact ==
    \A r \in Requests :
        blk[r] = "inflight" =>
            refcount[r] = IF Enders(r) = {} THEN 1 + Cardinality(Refs(r)) ELSE 0

\* When end_ok is about to call blk_mq_end_request the request is in flight, no
\* ARef to it is left and nobody else is ending it: no request is handed back
\* twice or while it is still referenced.
EndExclusive ==
    \A h \in Handles :
        st[h] = "ending" => /\ blk[rqOf[h]] = "inflight"
                            /\ Refs(rqOf[h]) = {}
                            /\ Enders(rqOf[h]) = {h}

\* An ARef a driver holds always points to a request the block layer gave to it
\* and counts in it, so dec_ref never reaches 0 and inc_ref never finds 0 (the
\* two panics of request.rs under CONFIG_DEBUG_MISC are unreachable).
NoStaleRef ==
    \A h \in Handles :
        st[h] = "held" => blk[rqOf[h]] = "inflight" /\ refcount[rqOf[h]] >= 2

\* Counting, ending and holding a request together: what request.rs promises the
\* driver and the block layer at every moment.
RequestInv == TypeOK /\ RefcountExact /\ EndExclusive /\ NoStaleRef
=============================================================================
