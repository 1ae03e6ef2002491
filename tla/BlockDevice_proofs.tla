------------------------- MODULE BlockDevice_proofs -------------------------
(***************************************************************************)
(* For every number of requests, ARefs and contexts: a driver whose failed *)
(* queue_rq gives its ARefs up keeps the reference count exact, ends every *)
(* request alone and never holds an ARef to a request it does not own      *)
(* (MqRequest).  For every number of disks and Arcs on top of that: the    *)
(* requests of a driver with disks behave as MqRequest says, the tag set   *)
(* is freed once, and not before its last disk and request (BlockDevice).  *)
(***************************************************************************)
EXTENDS BlockDevice, FiniteSetTheorems, TLAPS

\* A handle points to a request exactly while it is in use.
HandleInv == \A h \in Handles : st[h] = "free" <=> rqOf[h] = NoRq

\* A request the block layer owns is neither referenced nor being ended.
QuietInv ==
    \A r \in Requests : blk[r] \in {"uninit", "idle", "requeue"} =>
        Refs(r) = {} /\ Enders(r) = {}

\* What a call of queue_rq_callback knows of the request it is queueing.
CallbackInv ==
    \A c \in Contexts :
        /\ pc[c] = "none" => crq[c] = NoRq /\ ~live[c]
        /\ pc[c] # "none" => crq[c] \in Requests
        /\ pc[c] \in {"store", "start"} => live[c] /\ blk[crq[c]] = "dispatch"
        /\ pc[c] = "driver" /\ live[c] => blk[crq[c]] = "inflight"
        /\ pc[c] = "store" => Refs(crq[c]) = {} /\ Enders(crq[c]) = {}
        /\ pc[c] = "start" => /\ carg[c] \in Handles
                              /\ st[carg[c]] = "arg"
                              /\ Refs(crq[c]) = {carg[c]}
                              /\ Enders(crq[c]) = {}
                              /\ refcount[crq[c]] = 2

\* One dispatch of a request at a time.
UniqueInv ==
    \A c, d \in Contexts : live[c] /\ live[d] /\ crq[c] = crq[d] => c = d

\* A request being dispatched, and an ARef not yet passed on, have a callback.
DispatchInv ==
    /\ \A r \in Requests : blk[r] = "dispatch" =>
          \E c \in Contexts : crq[c] = r /\ pc[c] \in {"store", "start"}
    /\ \A h \in Handles : st[h] = "arg" =>
          \E c \in Contexts : pc[c] = "start" /\ carg[c] = h

IInv ==
    /\ TypeOK
    /\ HandleInv
    /\ QuietInv
    /\ CallbackInv
    /\ UniqueInv
    /\ DispatchInv
    /\ RefcountExact
    /\ EndExclusive

-----------------------------------------------------------------------------
\* The ARefs of a request are finitely many, at most one per handle.
LEMMA RefsFinite ==
    \A r \in Requests : /\ IsFiniteSet(Refs(r))
                        /\ Cardinality(Refs(r)) \in Nat
                        /\ Cardinality(Refs(r)) <= Cardinality(Handles)
<1>1. ASSUME NEW r \in Requests PROVE Refs(r) \in SUBSET Handles
  BY DEF Refs
<1>2. QED
  BY <1>1, FS_Subset, FS_CardinalityType, HandlesAssumption

\* Init: no request is allocated and there is no ARef.
LEMMA InitHolds == Init => IInv
<1> SUFFICES ASSUME Init PROVE IInv
  OBVIOUS
<1>1. TypeOK
  BY RefMaxAssumption DEF Init, TypeOK, BlkStates, HandleStates, CbStates
<1>2. HandleInv /\ QuietInv
  BY DEF Init, HandleInv, QuietInv, Refs, Enders
<1>3. CallbackInv /\ UniqueInv /\ DispatchInv
  BY DEF Init, CallbackInv, UniqueInv, DispatchInv
<1>4. RefcountExact /\ EndExclusive
  BY DEF Init, RefcountExact, EndExclusive
<1>5. QED
  BY <1>1, <1>2, <1>3, <1>4 DEF IInv

\* An ARef the driver holds: its request is in flight, counted and not ending.
LEMMA HeldRef ==
    ASSUME IInv, NEW h \in Handles, st[h] = "held"
    PROVE  /\ rqOf[h] \in Requests
           /\ blk[rqOf[h]] = "inflight"
           /\ h \in Refs(rqOf[h])
           /\ Enders(rqOf[h]) = {}
           /\ refcount[rqOf[h]] = 1 + Cardinality(Refs(rqOf[h]))
           /\ refcount[rqOf[h]] >= 2
           /\ refcount[rqOf[h]] <= 1 + Cardinality(Handles)
<1>1. rqOf[h] \in Requests
  BY DEF IInv, HandleInv, TypeOK
<1>2. h \in Refs(rqOf[h])
  BY DEF Refs
<1>3. blk[rqOf[h]] \in {"dispatch", "inflight"}
  BY <1>1, <1>2 DEF IInv, QuietInv, TypeOK, BlkStates
<1>4. blk[rqOf[h]] # "dispatch"
  BY <1>1, <1>2 DEF IInv, DispatchInv, CallbackInv
<1>5. Enders(rqOf[h]) = {}
  BY <1>1, <1>2 DEF IInv, EndExclusive, Enders
<1>6. refcount[rqOf[h]] = 1 + Cardinality(Refs(rqOf[h]))
  BY <1>1, <1>3, <1>4, <1>5 DEF IInv, RefcountExact
<1>7. Cardinality(Refs(rqOf[h])) # 0
  BY <1>1, <1>2, RefsFinite, FS_EmptySet
<1>8. QED
  BY <1>1, <1>2, <1>3, <1>4, <1>5, <1>6, <1>7, RefsFinite, FS_CardinalityType, HandlesAssumption

\* A handle that is ending: its request is in flight and nobody else's.
LEMMA EndingRef ==
    ASSUME IInv, NEW h \in Handles, st[h] = "ending"
    PROVE  /\ rqOf[h] \in Requests
           /\ blk[rqOf[h]] = "inflight"
           /\ Refs(rqOf[h]) = {}
           /\ Enders(rqOf[h]) = {h}
  BY DEF IInv, HandleInv, TypeOK, EndExclusive

\* init_request_callback touches a request nobody refers to.
LEMMA InitRequestStep ==
    ASSUME IInv, NEW r \in Requests, InitRequest(r)
    PROVE  IInv'
<1>1. \A x \in Requests : Refs(x)' = Refs(x)
  BY DEF IInv, TypeOK, InitRequest, Refs
<1>2. \A x \in Requests : Enders(x)' = Enders(x)
  BY DEF IInv, TypeOK, InitRequest, Enders
<1>3. TypeOK'
  BY RefMaxAssumption DEF IInv, TypeOK, InitRequest, BlkStates,
     HandleStates, CbStates
<1>4. HandleInv' /\ UniqueInv'
  BY <1>1, <1>2 DEF IInv, TypeOK, InitRequest, HandleInv, UniqueInv
<1>5. QuietInv'
  BY <1>1, <1>2 DEF IInv, TypeOK, InitRequest, QuietInv
<1>6. CallbackInv'
  BY <1>1, <1>2 DEF IInv, TypeOK, InitRequest, CallbackInv
<1>7. DispatchInv'
  BY <1>1, <1>2 DEF IInv, TypeOK, InitRequest, DispatchInv
<1>8. RefcountExact'
  BY <1>1, <1>2 DEF IInv, TypeOK, InitRequest, RefcountExact
<1>9. EndExclusive'
  BY <1>1, <1>2 DEF IInv, TypeOK, InitRequest, EndExclusive, HandleInv
<1>10. QED
  BY <1>3, <1>4, <1>5, <1>6, <1>7, <1>8, <1>9 DEF IInv

\* exit_request_callback touches a request nobody refers to.
LEMMA ExitRequestStep ==
    ASSUME IInv, NEW r \in Requests, ExitRequest(r)
    PROVE  IInv'
<1>1. \A x \in Requests : Refs(x)' = Refs(x)
  BY DEF IInv, TypeOK, ExitRequest, Refs
<1>2. \A x \in Requests : Enders(x)' = Enders(x)
  BY DEF IInv, TypeOK, ExitRequest, Enders
<1>3. TypeOK'
  BY DEF IInv, TypeOK, ExitRequest, BlkStates, HandleStates, CbStates
<1>4. HandleInv' /\ UniqueInv'
  BY <1>1, <1>2 DEF IInv, TypeOK, ExitRequest, HandleInv, UniqueInv
<1>5. QuietInv'
  BY <1>1, <1>2 DEF IInv, TypeOK, ExitRequest, QuietInv
<1>6. CallbackInv'
  BY <1>1, <1>2 DEF IInv, TypeOK, ExitRequest, CallbackInv
<1>7. DispatchInv'
  BY <1>1, <1>2 DEF IInv, TypeOK, ExitRequest, DispatchInv
<1>8. RefcountExact'
  BY <1>1, <1>2 DEF IInv, TypeOK, ExitRequest, RefcountExact
<1>9. EndExclusive'
  BY <1>1, <1>2 DEF IInv, TypeOK, ExitRequest, EndExclusive, HandleInv
<1>10. QED
  BY <1>3, <1>4, <1>5, <1>6, <1>7, <1>8, <1>9 DEF IInv

\* A dispatched request is quiet and no other context is queueing it.
LEMMA DispatchStep ==
    ASSUME IInv, NEW c \in Contexts, NEW r \in Requests, Dispatch(c, r)
    PROVE  IInv'
<1>1. \A x \in Requests : Refs(x)' = Refs(x)
  BY DEF IInv, TypeOK, Dispatch, Refs
<1>2. \A x \in Requests : Enders(x)' = Enders(x)
  BY DEF IInv, TypeOK, Dispatch, Enders
<1>3. TypeOK'
  BY DEF IInv, TypeOK, Dispatch, BlkStates, HandleStates, CbStates
<1>4. HandleInv'
  BY <1>1, <1>2 DEF IInv, TypeOK, Dispatch, HandleInv
<1>5. QuietInv'
  BY <1>1, <1>2 DEF IInv, TypeOK, Dispatch, QuietInv
<1>6. CallbackInv'
  BY <1>1, <1>2, NullAssumption DEF IInv, TypeOK, Dispatch, CallbackInv,
     QuietInv
<1>7. \A d \in Contexts : live[d] => crq[d] # r
  BY <1>1, <1>2, NullAssumption DEF IInv, TypeOK, Dispatch, CallbackInv,
     CbStates
<1>8. UniqueInv'
  BY <1>7, <1>1, <1>2 DEF IInv, TypeOK, Dispatch, UniqueInv
<1>9. DispatchInv'
  BY <1>7, <1>1, <1>2 DEF IInv, TypeOK, Dispatch, DispatchInv, CallbackInv
<1>10. RefcountExact'
  BY <1>7, <1>1, <1>2 DEF IInv, TypeOK, Dispatch, RefcountExact
<1>11. EndExclusive'
  BY <1>7, <1>1, <1>2 DEF IInv, TypeOK, Dispatch, EndExclusive, HandleInv
<1>12. QED
  BY <1>3, <1>4, <1>5, <1>6, <1>8, <1>9, <1>10, <1>11 DEF IInv

\* The store(2) is exact because no ARef to the request exists.
LEMMA QueueRqStoreStep ==
    ASSUME IInv, NEW c \in Contexts, NEW h \in Handles, QueueRqStore(c, h)
    PROVE  IInv'
<1>1. crq[c] \in Requests
  BY DEF IInv, QueueRqStore, CallbackInv
<1>2. \A x \in Requests : Refs(x)' = IF x = crq[c] THEN {h} ELSE Refs(x)
  BY <1>1, NullAssumption DEF IInv, TypeOK, QueueRqStore, Refs, HandleInv,
     CallbackInv
<1>3. \A x \in Requests : Enders(x)' = Enders(x)
  BY <1>1, NullAssumption DEF IInv, TypeOK, QueueRqStore, Enders, HandleInv
<1>4. TypeOK'
  BY <1>1, RefMaxAssumption DEF IInv, TypeOK, QueueRqStore, BlkStates,
     HandleStates, CbStates, CallbackInv
<1>5. HandleInv' /\ UniqueInv'
  BY <1>1, <1>2, <1>3, NullAssumption DEF IInv, TypeOK, QueueRqStore,
     HandleInv, UniqueInv, CallbackInv
<1>6. QuietInv'
  BY <1>1, <1>2, <1>3 DEF IInv, TypeOK, QueueRqStore, QuietInv, CallbackInv
<1>7. \A d \in Contexts : d # c /\ live[d] => crq[d] # crq[c]
  BY <1>1, <1>2, <1>3 DEF IInv, TypeOK, QueueRqStore, UniqueInv, CallbackInv
<1>8. CallbackInv'
  BY <1>1, <1>7, <1>2, <1>3 DEF IInv, TypeOK, QueueRqStore, CallbackInv,
     HandleInv
<1>9. DispatchInv'
  BY <1>1, <1>7, <1>2, <1>3 DEF IInv, TypeOK, QueueRqStore, DispatchInv,
     CallbackInv
<1>10. RefcountExact'
  BY <1>1, <1>7, <1>2, <1>3 DEF IInv, TypeOK, QueueRqStore, RefcountExact,
     CallbackInv
<1>11. EndExclusive'
  BY <1>1, <1>7, <1>2, <1>3 DEF IInv, TypeOK, QueueRqStore, EndExclusive,
     HandleInv, CallbackInv
<1>12. QED
  BY <1>4, <1>5, <1>6, <1>8, <1>9, <1>10, <1>11 DEF IInv

\* The driver starts with one ARef and a count of 2.
LEMMA QueueRqStartStep ==
    ASSUME IInv, NEW c \in Contexts, QueueRqStart(c)
    PROVE  IInv'
<1>1. crq[c] \in Requests /\ carg[c] \in Handles /\ st[carg[c]] = "arg"
  BY DEF IInv, QueueRqStart, CallbackInv
<1>2. \A x \in Requests : Refs(x)' = Refs(x)
  BY <1>1 DEF IInv, TypeOK, QueueRqStart, Refs
<1>3. \A x \in Requests : Enders(x)' = Enders(x)
  BY <1>1 DEF IInv, TypeOK, QueueRqStart, Enders
<1>4. TypeOK'
  BY <1>1 DEF IInv, TypeOK, QueueRqStart, BlkStates, HandleStates, CbStates
<1>5. HandleInv' /\ UniqueInv'
  BY <1>1, <1>2, <1>3 DEF IInv, TypeOK, QueueRqStart, HandleInv, UniqueInv
<1>6. QuietInv'
  BY <1>1, <1>2, <1>3 DEF IInv, TypeOK, QueueRqStart, QuietInv
<1>7. \A d \in Contexts : d # c /\ live[d] => crq[d] # crq[c]
  BY <1>1, <1>2, <1>3 DEF IInv, TypeOK, QueueRqStart, UniqueInv, CallbackInv
<1>8. CallbackInv'
  BY <1>1, <1>7, <1>2, <1>3 DEF IInv, TypeOK, QueueRqStart, CallbackInv, Refs
<1>9. DispatchInv'
  BY <1>1, <1>7, <1>2, <1>3 DEF IInv, TypeOK, QueueRqStart, DispatchInv,
     CallbackInv
<1>10. RefcountExact'
  <2>1. Cardinality(Refs(crq[c])) = 1
    BY FS_Singleton DEF IInv, QueueRqStart, CallbackInv
  <2>2. refcount[crq[c]] = 2 /\ Enders(crq[c]) = {}
    BY DEF IInv, QueueRqStart, CallbackInv
  <2>3. QED
    BY <1>1, <1>2, <1>3, <2>1, <2>2 DEF IInv, TypeOK, QueueRqStart, RefcountExact
<1>11. EndExclusive'
  BY <1>1, <1>7, <1>2, <1>3 DEF IInv, TypeOK, QueueRqStart, EndExclusive,
     HandleInv, CallbackInv
<1>12. QED
  BY <1>4, <1>5, <1>6, <1>8, <1>9, <1>10, <1>11 DEF IInv

\* An Ok return leaves the request with the driver.
LEMMA QueueRqOkStep ==
    ASSUME IInv, NEW c \in Contexts, QueueRqOk(c)
    PROVE  IInv'
<1>1. \A x \in Requests : Refs(x)' = Refs(x)
  BY DEF IInv, TypeOK, QueueRqOk, Refs
<1>2. \A x \in Requests : Enders(x)' = Enders(x)
  BY DEF IInv, TypeOK, QueueRqOk, Enders
<1>3. TypeOK'
  BY DEF IInv, TypeOK, QueueRqOk, BlkStates, HandleStates, CbStates
<1>4. HandleInv' /\ QuietInv' /\ RefcountExact'
  BY <1>1, <1>2 DEF IInv, TypeOK, QueueRqOk, HandleInv, QuietInv,
     RefcountExact
<1>5. CallbackInv'
  BY <1>1, <1>2 DEF IInv, TypeOK, QueueRqOk, CallbackInv
<1>6. UniqueInv'
  BY <1>1, <1>2 DEF IInv, TypeOK, QueueRqOk, UniqueInv
<1>7. DispatchInv'
  BY <1>1, <1>2 DEF IInv, TypeOK, QueueRqOk, DispatchInv
<1>8. EndExclusive'
  BY <1>1, <1>2 DEF IInv, TypeOK, QueueRqOk, EndExclusive, HandleInv
<1>9. QED
  BY <1>3, <1>4, <1>5, <1>6, <1>7, <1>8 DEF IInv

\* An Err return gives back a request without ARefs.
LEMMA QueueRqErrStep ==
    ASSUME IInv, NEW c \in Contexts, CleanErrors, QueueRqErr(c)
    PROVE  IInv'
<1>1. \A x \in Requests : Refs(x)' = Refs(x)
  BY DEF IInv, TypeOK, QueueRqErr, Refs
<1>2. \A x \in Requests : Enders(x)' = Enders(x)
  BY DEF IInv, TypeOK, QueueRqErr, Enders
<1>3. TypeOK'
  BY DEF IInv, TypeOK, QueueRqErr, BlkStates, HandleStates, CbStates
<1>4. HandleInv'
  BY <1>1, <1>2 DEF IInv, TypeOK, QueueRqErr, HandleInv
<1>5. crq[c] \in Requests /\ Refs(crq[c]) = {} /\ Enders(crq[c]) = {} /\ live[c]
  BY <1>1, <1>2 DEF IInv, TypeOK, QueueRqErr, CallbackInv
<1>6. QuietInv'
  BY <1>5, <1>1, <1>2 DEF IInv, TypeOK, QueueRqErr, QuietInv
<1>7. CallbackInv'
  BY <1>5, <1>1, <1>2 DEF IInv, TypeOK, QueueRqErr, CallbackInv, UniqueInv
<1>8. UniqueInv'
  BY <1>5, <1>1, <1>2 DEF IInv, TypeOK, QueueRqErr, UniqueInv
<1>9. DispatchInv'
  BY <1>5, <1>1, <1>2 DEF IInv, TypeOK, QueueRqErr, DispatchInv, CallbackInv
<1>10. RefcountExact'
  BY <1>5, <1>1, <1>2 DEF IInv, TypeOK, QueueRqErr, RefcountExact
<1>11. EndExclusive'
  BY <1>5, <1>1, <1>2 DEF IInv, TypeOK, QueueRqErr, EndExclusive,
     HandleInv, Enders
<1>12. QED
  BY <1>3, <1>4, <1>6, <1>7, <1>8, <1>9, <1>10, <1>11 DEF IInv

\* A clone adds one ARef and one to the count.
LEMMA CloneRefStep ==
    ASSUME IInv, NEW h \in Handles, NEW g \in Handles, CloneRef(h, g)
    PROVE  IInv'
<1>1. rqOf[h] \in Requests
  BY HeldRef DEF CloneRef
<1>2. \A x \in Requests : Refs(x)' = IF x = rqOf[h] THEN Refs(x) \cup {g} ELSE Refs(x)
  BY <1>1, NullAssumption DEF IInv, TypeOK, CloneRef, Refs, HandleInv
<1>3. \A x \in Requests : Enders(x)' = Enders(x)
  BY <1>1, NullAssumption DEF IInv, TypeOK, CloneRef, Enders, HandleInv
<1>4. TypeOK'
  BY <1>1, HeldRef, RefMaxAssumption DEF IInv, TypeOK, CloneRef, BlkStates,
     HandleStates, CbStates, Inc
<1>5. HandleInv' /\ UniqueInv'
  BY <1>1, <1>2, <1>3, NullAssumption DEF IInv, TypeOK, CloneRef,
     HandleInv, UniqueInv
<1>6. QuietInv'
  BY <1>1, <1>2, <1>3, HeldRef DEF IInv, TypeOK, CloneRef, QuietInv
<1>7. CallbackInv'
  BY <1>1, <1>2, <1>3, HeldRef DEF IInv, TypeOK, CloneRef, CallbackInv,
     HandleInv
<1>8. DispatchInv'
  BY <1>1, <1>2, <1>3 DEF IInv, TypeOK, CloneRef, DispatchInv
<1>9. PICK q \in Requests : q = rqOf[h]
  BY <1>1
<1>10. Cardinality(Refs(q)') = Cardinality(Refs(q)) + 1
  <2>1. g \notin Refs(q) /\ Refs(q)' = Refs(q) \cup {g}
    BY <1>2, <1>9 DEF CloneRef, Refs
  <2>2. QED
    BY <2>1, RefsFinite, FS_AddElement
<1>11. refcount' = [refcount EXCEPT ![q] = refcount[q] + 1]
  <2>1. refcount[q] # 0 /\ refcount[q] # RefMax
    BY <1>9, HeldRef, RefMaxAssumption, FS_CardinalityType,
       HandlesAssumption DEF CloneRef
  <2>2. QED
    BY <1>9, <2>1 DEF CloneRef, Inc
<1>12. RefcountExact'
  <2> SUFFICES ASSUME NEW x \in Requests, (blk[x] = "inflight")'
               PROVE  (refcount[x] = IF Enders(x) = {}
                                     THEN 1 + Cardinality(Refs(x)) ELSE 0)'
    BY DEF RefcountExact
  <2>1. CASE x = q
    <3>1. refcount[q] = 1 + Cardinality(Refs(q)) /\ Enders(q) = {}
      BY <1>9, HeldRef DEF CloneRef
    <3>2. refcount'[q] = refcount[q] + 1
      BY <1>11 DEF IInv, TypeOK
    <3>3. QED
      BY <2>1, <3>1, <3>2, <1>3, <1>10, RefsFinite
  <2>2. CASE x # q
    BY <2>2, <1>2, <1>3, <1>9, <1>11 DEF IInv, TypeOK, CloneRef, RefcountExact
  <2>3. QED
    BY <2>1, <2>2
<1>13. EndExclusive'
  BY <1>1, <1>2, <1>3, HeldRef, EndingRef DEF IInv, TypeOK,
     CloneRef, EndExclusive, HandleInv
<1>14. QED
  BY <1>4, <1>5, <1>6, <1>7, <1>8, <1>12, <1>13 DEF IInv

\* A drop removes one ARef and one from the count.
LEMMA DropRefStep ==
    ASSUME IInv, NEW h \in Handles, DropRef(h)
    PROVE  IInv'
<1>1. rqOf[h] \in Requests
  BY HeldRef DEF DropRef
<1>2. \A x \in Requests : Refs(x)' = IF x = rqOf[h] THEN Refs(x) \ {h} ELSE Refs(x)
  BY <1>1, NullAssumption DEF IInv, TypeOK, DropRef, Refs
<1>3. \A x \in Requests : Enders(x)' = Enders(x)
  BY <1>1, NullAssumption DEF IInv, TypeOK, DropRef, Enders
<1>4. TypeOK'
  BY <1>1, HeldRef, RefMaxAssumption DEF IInv, TypeOK, DropRef, BlkStates,
     HandleStates, CbStates, Dec
<1>5. HandleInv' /\ UniqueInv'
  BY <1>1, <1>2, <1>3, NullAssumption DEF IInv, TypeOK, DropRef, HandleInv,
     UniqueInv
<1>6. QuietInv'
  BY <1>1, <1>2, <1>3 DEF IInv, TypeOK, DropRef, QuietInv
<1>7. CallbackInv'
  BY <1>1, <1>2, <1>3, HeldRef DEF IInv, TypeOK, DropRef, CallbackInv
<1>8. DispatchInv'
  BY <1>1, <1>2, <1>3 DEF IInv, TypeOK, DropRef, DispatchInv
<1>9. PICK q \in Requests : q = rqOf[h]
  BY <1>1
<1>10. Cardinality(Refs(q)') = Cardinality(Refs(q)) - 1
  <2>1. h \in Refs(q) /\ Refs(q)' = Refs(q) \ {h}
    BY <1>2, <1>9, HeldRef DEF DropRef
  <2>2. QED
    BY <2>1, RefsFinite, FS_RemoveElement
<1>11. refcount' = [refcount EXCEPT ![q] = refcount[q] - 1]
  <2>1. refcount[q] # 0
    BY <1>9, HeldRef DEF DropRef
  <2>2. QED
    BY <1>9, <2>1 DEF DropRef, Dec
<1>12. RefcountExact'
  <2> SUFFICES ASSUME NEW x \in Requests, (blk[x] = "inflight")'
               PROVE  (refcount[x] = IF Enders(x) = {}
                                     THEN 1 + Cardinality(Refs(x)) ELSE 0)'
    BY DEF RefcountExact
  <2>1. CASE x = q
    <3>1. refcount[q] = 1 + Cardinality(Refs(q)) /\ Enders(q) = {}
      BY <1>9, HeldRef DEF DropRef
    <3>2. refcount'[q] = refcount[q] - 1
      BY <1>11 DEF IInv, TypeOK
    <3>3. QED
      BY <2>1, <3>1, <3>2, <1>3, <1>10, RefsFinite
  <2>2. CASE x # q
    BY <2>2, <1>2, <1>3, <1>9, <1>11 DEF IInv, TypeOK, DropRef, RefcountExact
  <2>3. QED
    BY <2>1, <2>2
<1>13. EndExclusive'
  BY <1>1, <1>2, <1>3, HeldRef, EndingRef DEF IInv, TypeOK,
     DropRef, EndExclusive, HandleInv
<1>14. QED
  BY <1>4, <1>5, <1>6, <1>7, <1>8, <1>12, <1>13 DEF IInv

\* The exchange succeeds only for the last ARef.
LEMMA TrySetEndStep ==
    ASSUME IInv, NEW h \in Handles, TrySetEnd(h)
    PROVE  IInv'
<1>1. rqOf[h] \in Requests
  BY HeldRef DEF TrySetEnd
<1>2. \A x \in Requests : Refs(x)' = IF x = rqOf[h] THEN Refs(x) \ {h} ELSE Refs(x)
  BY <1>1, NullAssumption DEF IInv, TypeOK, TrySetEnd, Refs
<1>3. \A x \in Requests : Enders(x)' = IF x = rqOf[h] THEN {h} ELSE Enders(x)
  BY <1>1, HeldRef DEF IInv, TypeOK, TrySetEnd, Enders
<1>4. TypeOK'
  BY <1>1, RefMaxAssumption DEF IInv, TypeOK, TrySetEnd, BlkStates,
     HandleStates, CbStates
<1>5. HandleInv' /\ UniqueInv'
  BY <1>1, <1>2, <1>3, NullAssumption DEF IInv, TypeOK, TrySetEnd,
     HandleInv, UniqueInv
<1>6. QuietInv'
  BY <1>1, <1>2, <1>3, HeldRef DEF IInv, TypeOK, TrySetEnd, QuietInv
<1>7. CallbackInv'
  BY <1>1, <1>2, <1>3, HeldRef DEF IInv, TypeOK, TrySetEnd, CallbackInv
<1>8. DispatchInv'
  BY <1>1, <1>2, <1>3 DEF IInv, TypeOK, TrySetEnd, DispatchInv
<1>9. Cardinality(Refs(rqOf[h])) = 1
  BY <1>1, <1>2, <1>3, HeldRef, RefsFinite DEF IInv, TypeOK, TrySetEnd
<1>10. Refs(rqOf[h])' = {}
  BY <1>1, <1>9, <1>2, <1>3, HeldRef, RefsFinite, FS_Singleton DEF IInv,
     TypeOK, TrySetEnd
<1>11. RefcountExact'
  BY <1>1, <1>9, <1>10, <1>2, <1>3, HeldRef DEF IInv, TypeOK, TrySetEnd,
     RefcountExact
<1>12. EndExclusive'
  BY <1>1, <1>9, <1>10, <1>2, <1>3, HeldRef, EndingRef DEF IInv, TypeOK,
     TrySetEnd, EndExclusive, HandleInv
<1>13. QED
  BY <1>4, <1>5, <1>6, <1>7, <1>8, <1>11, <1>12 DEF IInv

\* The request handed back is quiet.
LEMMA EndRequestStep ==
    ASSUME IInv, NEW h \in Handles, EndRequest(h)
    PROVE  IInv'
<1>1. rqOf[h] \in Requests
  BY EndingRef DEF EndRequest
<1>2. \A x \in Requests : Refs(x)' = Refs(x)
  BY <1>1, NullAssumption DEF IInv, TypeOK, EndRequest, Refs
<1>3. \A x \in Requests : Enders(x)' = IF x = rqOf[h] THEN {} ELSE Enders(x)
  BY <1>1, EndingRef, NullAssumption DEF IInv, TypeOK, EndRequest, Enders
<1>4. TypeOK'
  BY <1>1 DEF IInv, TypeOK, EndRequest, BlkStates, HandleStates, CbStates
<1>5. HandleInv'
  BY <1>1, <1>2, <1>3, NullAssumption DEF IInv, TypeOK, EndRequest, HandleInv
<1>6. UniqueInv'
  BY <1>1, <1>2, <1>3 DEF IInv, TypeOK, EndRequest, UniqueInv
<1>7. QuietInv'
  BY <1>1, <1>2, <1>3, EndingRef DEF IInv, TypeOK, EndRequest, QuietInv
<1>8. CallbackInv'
  BY <1>1, <1>2, <1>3, EndingRef DEF IInv, TypeOK, EndRequest, CallbackInv
<1>9. DispatchInv'
  BY <1>1, <1>2, <1>3, EndingRef DEF IInv, TypeOK, EndRequest, DispatchInv
<1>10. RefcountExact'
  BY <1>1, <1>2, <1>3, EndingRef DEF IInv, TypeOK, EndRequest, RefcountExact
<1>11. EndExclusive'
  BY <1>1, <1>2, <1>3, EndingRef DEF IInv, TypeOK, EndRequest,
     EndExclusive, HandleInv, Enders
<1>12. QED
  BY <1>4, <1>5, <1>6, <1>7, <1>8, <1>9, <1>10, <1>11 DEF IInv

-----------------------------------------------------------------------------
\* Steps that change nothing.
LEMMA StutterStep ==
    ASSUME IInv, UNCHANGED vars
    PROVE  IInv'
  BY DEF IInv, vars, TypeOK, HandleInv, QuietInv, CallbackInv, UniqueInv,
     DispatchInv, RefcountExact, EndExclusive, Refs, Enders

\* Every callback and every operation on an ARef preserves the invariant.
LEMMA NextStep ==
    ASSUME IInv, CleanErrors, [Next]_vars
    PROVE  IInv'
  BY InitRequestStep, ExitRequestStep, DispatchStep, QueueRqStoreStep,
     QueueRqStartStep, QueueRqOkStep, QueueRqErrStep, CloneRefStep,
     DropRefStep, TrySetEndStep, EndRequestStep, StutterStep DEF Next

\* The strengthened invariant holds in every reachable state of a driver that
\* gives its ARefs up before it returns Err.
THEOREM Inductive == CleanErrors => (Spec => []IInv)
<1> SUFFICES ASSUME CleanErrors PROVE Spec => []IInv
  OBVIOUS
<1>1. IInv /\ [Next]_vars => IInv'
  BY NextStep
<1>2. QED
  BY InitHolds, <1>1, PTL DEF Spec

\* The state has its type: in particular no u64 wraps.
THEOREM TypeCorrect == CleanErrors => (Spec => []TypeOK)
<1>1. IInv => TypeOK
  BY DEF IInv
<1>2. QED
  BY Inductive, <1>1, PTL

\* The reference count of request.rs is exact, for every number of requests,
\* ARefs and contexts.
THEOREM CountIsExact == CleanErrors => (Spec => []RefcountExact)
<1>1. IInv => RefcountExact
  BY DEF IInv
<1>2. QED
  BY Inductive, <1>1, PTL

\* end_ok hands a request back once, alone and unreferenced.
THEOREM EndIsExclusive == CleanErrors => (Spec => []EndExclusive)
<1>1. IInv => EndExclusive
  BY DEF IInv
<1>2. QED
  BY Inductive, <1>1, PTL

\* An ARef of the driver is never stale: the panics of inc_ref and dec_ref are
\* unreachable.
THEOREM RefsAreLive == CleanErrors => (Spec => []NoStaleRef)
<1>1. IInv => NoStaleRef
  BY HeldRef DEF NoStaleRef
<1>2. QED
  BY Inductive, <1>1, PTL

\* What request.rs promises holds for every number of requests, ARefs and
\* contexts.
THEOREM RequestsAreSound == CleanErrors => (Spec => []RequestInv)
BY TypeCorrect, CountIsExact, EndIsExclusive, RefsAreLive, PTL DEF RequestInv

-----------------------------------------------------------------------------
(* Disks and the tag set (BlockDevice).                                    *)

\* The allocations of a tag set follow the phase of its construction or drop,
\* and Arcs of it exist only while it is ready.
PhaseInv ==
    /\ mem["ops"] = IF phase = "none" THEN "none" ELSE "live"
    /\ mem["set"] = IF phase \in {"none", "ops"} THEN "none" ELSE "live"
    /\ held > 0 \/ holds # {} => phase = "ready"

\* A disk under construction or deletion owns its Arc, and no other disk but an
\* added one does.
DiskInv ==
    \A d \in Disks :
        /\ disk[d] \in {"alloc", "named", "adding", "deleting"} => d \in holds
        /\ d \in holds => disk[d] \in {"alloc", "named", "adding", "added", "deleting"}

BInv == DTypeOK /\ PhaseInv /\ DiskInv

\* The two calls that wait for the block layer exist in the kernel.
Waits == {"del_gendisk", "blk_mq_free_tag_set"} \subseteq Resolved

\* No request is initialised without a tag set, and a disk in the VFS keeps it.
KeptInv ==
    /\ phase \in {"none", "ops"} => AllUninit
    /\ \A d \in Disks : disk[d] = "added" => d \in holds

\* A request out of the block layer's hands has a disk, and whatever has one
\* has one that was reachable and still owns its Arc.
IoInv ==
    /\ \A r \in Requests :
          /\ blk[r] \in {"requeue", "dispatch", "inflight"} => rdisk[r] # NoDisk
          /\ rdisk[r] # NoDisk => disk[rdisk[r]] \in {"adding", "added", "deleting"}
    /\ \A c \in Contexts :
          cdisk[c] # NoDisk => disk[cdisk[c]] \in {"adding", "added", "deleting"}

\* The strengthened invariant of a driver with disks.
DInv == IInv /\ BInv /\ KeptInv /\ IoInv

\* Every step of a driver with disks is a step of MqRequest, or none at all.
LEMMA DStepRefines ==
    ASSUME [DNext]_allvars
    PROVE  [Next]_vars
<1>1. CASE OpsAlloc \/ SetAlloc \/ AllocTagSetOk \/ AllocTagSetErr
  BY <1>1 DEF OpsAlloc, SetAlloc, AllocTagSetOk, AllocTagSetErr
<1>2. CASE \E r \in Requests : AllocTagSetInit(r) \/ ExitOne(r)
  BY <1>2 DEF AllocTagSetInit, ExitOne, Next
<1>3. CASE CloneTagSet \/ DropTagSet \/ TagSetFree
  BY <1>3 DEF CloneTagSet, DropTagSet, TagSetFree
<1>4. CASE \E d \in Disks : AllocDisk(d) \/ (\E n \in NameParts : WriteName(d, n))
                               \/ AddDisk(d) \/ AddDiskOk(d) \/ AddDiskErr(d)
                               \/ DropDisk(d) \/ DropDiskReturn(d)
  BY <1>4 DEF AllocDisk, WriteName, AddDisk, AddDiskOk, AddDiskErr, DropDisk, DropDiskReturn
<1>5. CASE \E c \in Contexts, r \in Requests, d \in Disks : SendRequest(c, r, d)
  BY <1>5 DEF SendRequest, Next
<1>6. CASE \E c \in Contexts : CallbackStep(c) \/ CallbackReturns(c)
  BY <1>6 DEF CallbackStep, CallbackReturns, Next
<1>7. CASE \E h \in Handles : DriverStep(h) \/ DriverEnds(h)
  BY <1>7 DEF DriverStep, DriverEnds, Next
<1>8. CASE UNCHANGED allvars
  BY <1>8 DEF allvars
<1>9. QED
  BY <1>1, <1>2, <1>3, <1>4, <1>5, <1>6, <1>7, <1>8 DEF DNext

\* So what request.rs promises holds of the requests of a driver with any number
\* of disks, whatever its errors and the order of its drops: the count is exact,
\* ends are exclusive and no ARef is stale, also while disks come and go.
THEOREM DiskRequestsAreSound == CleanErrors => (DSpec => []RequestInv)
<1>1. DInit => Init
  BY DEF DInit
<1>2. [DNext]_allvars => [Next]_vars
  BY DStepRefines
<1>3. QED
  BY <1>1, <1>2, RequestsAreSound, PTL DEF DSpec, Spec

-----------------------------------------------------------------------------
\* The bound of the driver's own Arcs, as arithmetic needs it.
LEMMA HeldBound == MaxHeld \in Nat /\ MaxHeld >= 1
  BY HeldAssumption

\* The number of Arcs is a number.
LEMMA HeldType ==
    ASSUME BInv
    PROVE  held \in 0..MaxHeld /\ held \in Nat /\ held <= MaxHeld
<1>1. held \in 0..MaxHeld
  BY DEF BInv, DTypeOK
<1>2. QED
  BY <1>1, HeldBound

\* Init: there is no tag set and no disk.
LEMMA BInitHolds == DInit => BInv
<1> SUFFICES ASSUME DInit PROVE BInv
  OBVIOUS
<1>1. DTypeOK
  BY HeldBound DEF DInit, DTypeOK, Phases, DiskStates
<1>2. PhaseInv /\ DiskInv
  BY DEF DInit, PhaseInv, DiskInv
<1>3. QED
  BY <1>1, <1>2 DEF BInv

\* An Arc is dropped, by the driver, by a build that fails or by GenDisk::drop:
\* the tag set is freed when it was the last one, and not before.
LEMMA ArcGone ==
    ASSUME BInv, phase = "ready", NEW n \in Nat, NEW hs \in SUBSET Disks,
           held' = n, holds' = hs, phase' = AfterDrop(n, hs), mem' = mem
    PROVE  PhaseInv'
  BY DEF BInv, PhaseInv, AfterDrop

\* TagSet::new, on its way to a tag set and on each of its error paths.
LEMMA NewStep ==
    ASSUME BInv, OpsAlloc \/ SetAlloc \/ AllocTagSetOk \/ AllocTagSetErr
    PROVE  BInv'
<1>1. CASE OpsAlloc
  <2>1. DTypeOK'
    BY <1>1 DEF BInv, DTypeOK, OpsAlloc, Phases
  <2>2. PhaseInv' /\ DiskInv'
    BY <1>1 DEF BInv, DTypeOK, OpsAlloc, PhaseInv, DiskInv
  <2>3. QED
    BY <2>1, <2>2 DEF BInv
<1>2. CASE SetAlloc
  <2>1. DTypeOK'
    BY <1>2 DEF BInv, DTypeOK, SetAlloc, Phases, PhaseInv, Kfree
  <2>2. PhaseInv' /\ DiskInv'
    BY <1>2 DEF BInv, DTypeOK, SetAlloc, PhaseInv, DiskInv, Kfree
  <2>3. QED
    BY <2>1, <2>2 DEF BInv
<1>3. CASE AllocTagSetOk
  <2>1. DTypeOK'
    <3>1. held' \in 0..MaxHeld
      BY <1>3, HeldBound DEF AllocTagSetOk
    <3>2. QED
      BY <1>3, <3>1 DEF BInv, DTypeOK, AllocTagSetOk, Phases
  <2>2. PhaseInv' /\ DiskInv'
    BY <1>3 DEF BInv, DTypeOK, AllocTagSetOk, PhaseInv, DiskInv
  <2>3. QED
    BY <2>1, <2>2 DEF BInv
<1>4. CASE AllocTagSetErr
  <2>1. DTypeOK'
    BY <1>4 DEF BInv, DTypeOK, AllocTagSetErr, Phases, PhaseInv, Kfree
  <2>2. PhaseInv' /\ DiskInv'
    BY <1>4 DEF BInv, DTypeOK, AllocTagSetErr, PhaseInv, DiskInv, Kfree
  <2>3. QED
    BY <2>1, <2>2 DEF BInv
<1>5. QED
  BY <1>1, <1>2, <1>3, <1>4

\* Arcs of the driver, and the PinnedDrop that the last one runs.
LEMMA ArcStep ==
    ASSUME BInv, CloneTagSet \/ DropTagSet \/ TagSetFree
    PROVE  BInv'
<1>1. CASE CloneTagSet
  <2>1. held' \in 0..MaxHeld /\ held > 0
    BY <1>1, HeldType, HeldBound DEF CloneTagSet
  <2>2. DTypeOK'
    BY <1>1, <2>1 DEF BInv, DTypeOK, CloneTagSet
  <2>3. PhaseInv' /\ DiskInv'
    BY <1>1, <2>1 DEF BInv, CloneTagSet, PhaseInv, DiskInv
  <2>4. QED
    BY <2>2, <2>3 DEF BInv
<1>2. CASE DropTagSet
  <2>0. held' \in 0..MaxHeld /\ held - 1 \in Nat
    BY <1>2, HeldType, HeldBound DEF DropTagSet
  <2>1. phase = "ready" /\ holds \in SUBSET Disks
    BY <1>2 DEF BInv, DTypeOK, PhaseInv, DropTagSet
  <2>2. DTypeOK'
    BY <1>2, <2>0, <2>1 DEF BInv, DTypeOK, DropTagSet, AfterDrop, Phases
  <2>3. PhaseInv'
    BY <1>2, <2>0, <2>1, ArcGone DEF DropTagSet
  <2>4. DiskInv'
    BY <1>2 DEF BInv, DropTagSet, DiskInv
  <2>5. QED
    BY <2>2, <2>3, <2>4 DEF BInv
<1>3. CASE TagSetFree
  <2>1. DTypeOK'
    BY <1>3 DEF BInv, DTypeOK, TagSetFree, Phases, PhaseInv, Kfree
  <2>2. PhaseInv' /\ DiskInv'
    BY <1>3 DEF BInv, DTypeOK, TagSetFree, PhaseInv, DiskInv, Kfree
  <2>3. QED
    BY <2>1, <2>2 DEF BInv
<1>4. QED
  BY <1>1, <1>2, <1>3

\* A disk that owns an Arc gives it up, by GiveUp or at the end of its drop.
LEMMA DiskGone ==
    ASSUME BInv, NEW d \in holds, NEW s \in {"added", "deleted", "leaked"},
           disk' = [disk EXCEPT ![d] = s], holds' = holds \ {d},
           phase' = AfterDrop(held, holds \ {d}),
           UNCHANGED <<mem, held, rdisk, cdisk>>
    PROVE  BInv'
<1>1. phase = "ready" /\ d \in Disks /\ held \in Nat
  BY HeldType DEF BInv, DTypeOK, PhaseInv
<1>2. DTypeOK'
  BY <1>1 DEF BInv, DTypeOK, AfterDrop, Phases, DiskStates
<1>3. PhaseInv'
  BY <1>1, ArcGone DEF BInv, DTypeOK
<1>4. DiskInv'
  BY <1>1 DEF BInv, DTypeOK, DiskInv
<1>5. QED
  BY <1>2, <1>3, <1>4 DEF BInv

\* A disk moves on and its Arc stays with it.
LEMMA DiskMoves ==
    ASSUME BInv, NEW d \in holds, NEW s \in {"named", "adding", "added", "deleting"},
           disk' = [disk EXCEPT ![d] = s],
           UNCHANGED <<phase, mem, held, holds, rdisk, cdisk>>
    PROVE  BInv'
<1>1. DTypeOK'
  BY DEF BInv, DTypeOK, DiskStates
<1>2. PhaseInv'
  BY DEF BInv, PhaseInv
<1>3. DiskInv'
  BY DEF BInv, DTypeOK, DiskInv
<1>4. QED
  BY <1>1, <1>2, <1>3 DEF BInv

\* GenDiskBuilder::build, each of its error returns, and GenDisk::drop.
LEMMA DiskStep ==
    ASSUME BInv, NEW d \in Disks,
           \/ AllocDisk(d) \/ (\E n \in NameParts : WriteName(d, n))
           \/ AddDisk(d) \/ AddDiskOk(d) \/ AddDiskErr(d)
           \/ DropDisk(d) \/ DropDiskReturn(d)
    PROVE  BInv'
<1>1. CASE AllocDisk(d)
  <2>0. held' \in 0..MaxHeld
    BY <1>1, HeldType, HeldBound DEF AllocDisk
  <2>1. DTypeOK'
    BY <1>1, <2>0 DEF BInv, DTypeOK, AllocDisk, DiskStates
  <2>2. PhaseInv'
    BY <1>1, HeldType DEF BInv, AllocDisk, PhaseInv
  <2>3. DiskInv'
    BY <1>1 DEF BInv, DTypeOK, AllocDisk, DiskInv
  <2>4. QED
    BY <2>1, <2>2, <2>3 DEF BInv
<1>2. ASSUME NEW n \in NameParts, WriteName(d, n) PROVE BInv'
  <2>1. d \in holds
    BY <1>2 DEF BInv, DiskInv, WriteName
  <2>2. CASE NameFits(n)
    BY <1>2, <2>1, <2>2, DiskMoves DEF WriteName
  <2>3. CASE ~NameFits(n)
    BY <1>2, <2>1, <2>3, DiskGone DEF WriteName, GiveUp
  <2>4. QED
    BY <2>2, <2>3
<1>3. CASE AddDisk(d) \/ AddDiskOk(d) \/ DropDisk(d)
  BY <1>3, DiskMoves DEF AddDisk, AddDiskOk, DropDisk, BInv, DiskInv
<1>4. CASE AddDiskErr(d)
  BY <1>4, DiskGone DEF AddDiskErr, GiveUp, BInv, DiskInv
<1>5. CASE DropDiskReturn(d)
  <2>1. CASE "del_gendisk" \in Resolved
    BY <1>5, <2>1, DiskGone DEF DropDiskReturn
  <2>2. CASE "del_gendisk" \notin Resolved
    <3>1. disk' = [disk EXCEPT ![d] = "added"]
      BY <1>5, <2>2 DEF DropDiskReturn, BInv, DTypeOK
    <3>2. QED
      BY <1>5, <2>2, <3>1, DiskGone DEF DropDiskReturn
  <2>3. QED
    BY <2>1, <2>2
<1>6. QED
  BY <1>1, <1>2, <1>3, <1>4, <1>5

\* Requests come and go without touching the tag set.
LEMMA RequestStep ==
    ASSUME BInv,
           \/ \E r \in Requests : AllocTagSetInit(r) \/ ExitOne(r)
           \/ \E c \in Contexts, r \in Requests, d \in Disks : SendRequest(c, r, d)
           \/ \E c \in Contexts : CallbackStep(c) \/ CallbackReturns(c)
           \/ \E h \in Handles : DriverStep(h) \/ DriverEnds(h)
    PROVE  BInv'
<1>1. UNCHANGED <<phase, mem, held, disk, holds>>
  BY DEF AllocTagSetInit, ExitOne, SendRequest, CallbackStep, CallbackReturns,
     DriverStep, DriverEnds, dvars
<1>2. rdisk' \in [Requests -> Disks \cup {NoDisk}]
  <2>1. UNCHANGED rdisk \/ ForgetEnded
        \/ \E r \in Requests, d \in Disks : rdisk' = [rdisk EXCEPT ![r] = d]
    BY DEF AllocTagSetInit, ExitOne, SendRequest, CallbackStep, CallbackReturns,
       DriverStep, DriverEnds, dvars
  <2>2. rdisk \in [Requests -> Disks \cup {NoDisk}]
    BY DEF BInv, DTypeOK
  <2>3. QED
    BY <2>1, <2>2 DEF ForgetEnded
<1>3. cdisk' \in [Contexts -> Disks \cup {NoDisk}]
  <2>1. \/ UNCHANGED cdisk
        \/ \E c \in Contexts, d \in Disks \cup {NoDisk} : cdisk' = [cdisk EXCEPT ![c] = d]
    BY DEF AllocTagSetInit, ExitOne, SendRequest, CallbackStep, CallbackReturns,
       DriverStep, DriverEnds, dvars
  <2>2. cdisk \in [Contexts -> Disks \cup {NoDisk}]
    BY DEF BInv, DTypeOK
  <2>3. QED
    BY <2>1, <2>2
<1>4. DTypeOK'
  BY <1>1, <1>2, <1>3 DEF BInv, DTypeOK
<1>5. PhaseInv' /\ DiskInv'
  BY <1>1 DEF BInv, PhaseInv, DiskInv
<1>6. QED
  BY <1>4, <1>5 DEF BInv

\* Every step keeps the phase, the allocations and the Arcs consistent.
LEMMA BStep ==
    ASSUME BInv, [DNext]_allvars
    PROVE  BInv'
<1>1. CASE UNCHANGED allvars
  BY <1>1 DEF allvars, dvars, BInv, DTypeOK, PhaseInv, DiskInv
<1>2. QED
  BY <1>1, NewStep, ArcStep, DiskStep, RequestStep DEF DNext

\* The allocations of a tag set are freed once and on every path, for every
\* number of disks, Arcs and requests and whatever symbols the kernel has.
THEOREM TagSetIsReleased == DSpec => []TagSetInv
<1>1. BInv /\ [DNext]_allvars => BInv'
  BY BStep
<1>2. BInv => TagSetInv
  BY DEF BInv, DTypeOK, PhaseInv, TagSetInv, TagSetReleased
<1>3. QED
  BY BInitHolds, <1>1, <1>2, PTL DEF DSpec

-----------------------------------------------------------------------------
\* Init: nothing is initialised, added or sent.
LEMMA DInitHolds == DInit => DInv
<1> SUFFICES ASSUME DInit PROVE DInv
  OBVIOUS
<1>1. IInv /\ BInv
  BY InitHolds, BInitHolds DEF DInit
<1>2. KeptInv
  BY DEF DInit, Init, KeptInv, AllUninit
<1>3. IoInv
  BY DEF DInit, Init, IoInv
<1>4. QED
  BY <1>1, <1>2, <1>3 DEF DInv

\* TagSet::new and the drop of a tag set: it goes when no request is left.
LEMMA SetStepKeeps ==
    ASSUME DInv, Waits,
           \/ OpsAlloc \/ SetAlloc \/ AllocTagSetOk \/ AllocTagSetErr
           \/ CloneTagSet \/ DropTagSet \/ TagSetFree
    PROVE  KeptInv' /\ IoInv'
<1>1. UNCHANGED <<vars, disk, holds, rdisk, cdisk>>
  BY DEF OpsAlloc, SetAlloc, AllocTagSetOk, AllocTagSetErr, CloneTagSet,
     DropTagSet, TagSetFree
<1>2. phase' \in {"none", "ops"} => AllUninit
  <2>1. CASE OpsAlloc \/ SetAlloc
    BY <2>1 DEF OpsAlloc, SetAlloc, DInv, KeptInv
  <2>2. CASE AllocTagSetOk \/ AllocTagSetErr
    BY <2>2 DEF AllocTagSetOk, AllocTagSetErr
  <2>3. CASE CloneTagSet \/ DropTagSet
    BY <2>3 DEF CloneTagSet, DropTagSet, AfterDrop, DInv, KeptInv
  <2>4. CASE TagSetFree
    BY <2>4 DEF TagSetFree, Waits
  <2>5. QED
    BY <2>1, <2>2, <2>3, <2>4
<1>3. KeptInv'
  BY <1>1, <1>2 DEF DInv, KeptInv, AllUninit, vars
<1>4. IoInv'
  BY <1>1 DEF DInv, IoInv, vars
<1>5. QED
  BY <1>3, <1>4

\* A disk that is given up or whose drop returns has no request left.
LEMMA DiskStepKeeps ==
    ASSUME DInv, Waits, NEW d \in Disks,
           \/ AllocDisk(d) \/ (\E n \in NameParts : WriteName(d, n))
           \/ AddDisk(d) \/ AddDiskOk(d) \/ AddDiskErr(d)
           \/ DropDisk(d) \/ DropDiskReturn(d)
    PROVE  KeptInv' /\ IoInv'
<1>1. UNCHANGED <<vars, rdisk, cdisk>> /\ phase' \in {phase, "free"}
  BY DEF AllocDisk, WriteName, AddDisk, AddDiskOk, AddDiskErr, DropDisk,
     DropDiskReturn, GiveUp, AfterDrop
<1>2. PICK s \in DiskStates : disk' = [disk EXCEPT ![d] = s]
  BY DEF AllocDisk, WriteName, AddDisk, AddDiskOk, AddDiskErr, DropDisk,
     DropDiskReturn, GiveUp, DiskStates, Waits
<1>3. disk \in [Disks -> DiskStates]
  BY DEF DInv, BInv, DTypeOK
<1>4. \/ s \in {"adding", "added", "deleting"}
      \/ \A r \in Requests : rdisk[r] # d
  <2>1. CASE AllocDisk(d) \/ \E n \in NameParts : WriteName(d, n)
    <3>1. disk[d] \in {"none", "alloc"}
      BY <2>1 DEF AllocDisk, WriteName
    <3>2. QED
      BY <3>1, DisksAssumption DEF DInv, IoInv
  <2>2. CASE AddDisk(d) \/ AddDiskOk(d) \/ DropDisk(d)
    BY <2>2, <1>2, <1>3 DEF AddDisk, AddDiskOk, DropDisk
  <2>3. CASE AddDiskErr(d) \/ DropDiskReturn(d)
    BY <2>3 DEF AddDiskErr, DropDiskReturn, Waits, Quiet
  <2>4. QED
    BY <2>1, <2>2, <2>3
<1>5. \/ s \in {"adding", "added", "deleting"}
      \/ \A c \in Contexts : cdisk[c] # d
  <2>1. CASE AllocDisk(d) \/ \E n \in NameParts : WriteName(d, n)
    <3>1. disk[d] \in {"none", "alloc"}
      BY <2>1 DEF AllocDisk, WriteName
    <3>2. QED
      BY <3>1, DisksAssumption DEF DInv, IoInv
  <2>2. CASE AddDisk(d) \/ AddDiskOk(d) \/ DropDisk(d)
    BY <2>2, <1>2, <1>3 DEF AddDisk, AddDiskOk, DropDisk
  <2>3. CASE AddDiskErr(d) \/ DropDiskReturn(d)
    BY <2>3 DEF AddDiskErr, DropDiskReturn, Waits, Quiet
  <2>4. QED
    BY <2>1, <2>2, <2>3
<1>6. \A e \in Disks : disk'[e] = "added" => e \in holds'
  <2>1. holds' \in {holds, holds \cup {d}, holds \ {d}}
    BY DEF AllocDisk, WriteName, AddDisk, AddDiskOk, AddDiskErr, DropDisk,
       DropDiskReturn, GiveUp
  <2>2. s = "added" => d \in holds'
    BY <1>2, <1>3 DEF AllocDisk, WriteName, AddDisk, AddDiskOk, AddDiskErr,
       DropDisk, DropDiskReturn, GiveUp, Waits, DInv, BInv, DiskInv
  <2>3. QED
    BY <1>2, <1>3, <2>1, <2>2 DEF DInv, KeptInv
<1>7. KeptInv'
  BY <1>1, <1>6 DEF DInv, KeptInv, AllUninit, vars
<1>8. IoInv'
  BY <1>1, <1>2, <1>3, <1>4, <1>5 DEF DInv, IoInv, vars
<1>9. QED
  BY <1>7, <1>8

\* A request is initialised or freed by the block layer, which owns it.
LEMMA InitExitKeeps ==
    ASSUME DInv, NEW r \in Requests, AllocTagSetInit(r) \/ ExitOne(r)
    PROVE  KeptInv' /\ IoInv'
<1>1. UNCHANGED dvars /\ phase \notin {"none", "ops"}
  BY DEF AllocTagSetInit, ExitOne
<1>2. \E s \in {"idle", "uninit"} : blk' = [blk EXCEPT ![r] = s]
  BY DEF AllocTagSetInit, ExitOne, InitRequest, ExitRequest
<1>3. KeptInv'
  BY <1>1 DEF DInv, KeptInv, dvars
<1>4. IoInv'
  BY <1>1, <1>2 DEF DInv, IoInv, dvars, IInv, TypeOK
<1>5. QED
  BY <1>3, <1>4

\* A request is sent to a disk in the VFS, or back to the one it has.
LEMMA SendKeeps ==
    ASSUME DInv, NEW c \in Contexts, NEW r \in Requests, NEW d \in Disks,
           SendRequest(c, r, d)
    PROVE  KeptInv' /\ IoInv'
<1>1. /\ UNCHANGED <<phase, disk, holds>>
      /\ blk[r] \in {"idle", "requeue"}
      /\ blk' = [blk EXCEPT ![r] = "dispatch"]
      /\ rdisk' = [rdisk EXCEPT ![r] = d]
      /\ cdisk' = [cdisk EXCEPT ![c] = d]
  BY DEF SendRequest, Dispatch
<1>2. disk[d] \in {"adding", "added", "deleting"}
  BY DisksAssumption DEF SendRequest, Reachable, DInv, IoInv
<1>3. KeptInv'
  BY <1>1 DEF DInv, KeptInv, AllUninit
<1>4. IoInv'
  BY <1>1, <1>2, DisksAssumption DEF DInv, IoInv, IInv, TypeOK, BInv, DTypeOK
<1>5. QED
  BY <1>3, <1>4

\* Inside a callback, and in the hands of a driver, a request keeps its disk.
LEMMA WorkKeeps ==
    ASSUME DInv,
           \/ \E c \in Contexts : CallbackStep(c)
           \/ \E h \in Handles : DriverStep(h)
    PROVE  KeptInv' /\ IoInv'
<1>1. UNCHANGED dvars
  BY DEF CallbackStep, DriverStep
<1>2. \/ UNCHANGED blk
      \/ \E r \in Requests : /\ blk[r] = "dispatch"
                             /\ blk' = [blk EXCEPT ![r] = "inflight"]
  BY DEF CallbackStep, DriverStep, QueueRqStore, QueueRqStart, CloneRef,
     DropRef, TrySetEnd, DInv, IInv, CallbackInv
<1>3. KeptInv'
  BY <1>1, <1>2 DEF DInv, KeptInv, AllUninit, dvars
<1>4. IoInv'
  BY <1>1, <1>2 DEF DInv, IoInv, dvars, IInv, TypeOK
<1>5. QED
  BY <1>3, <1>4

\* A callback returns or a request ends: the disk is forgotten only when the
\* block layer has the request back for good.
LEMMA ReturnKeeps ==
    ASSUME DInv, CleanErrors,
           \/ \E c \in Contexts : CallbackReturns(c)
           \/ \E h \in Handles : DriverEnds(h)
    PROVE  KeptInv' /\ IoInv'
<1>1. UNCHANGED <<phase, disk, holds>> /\ ForgetEnded
  BY DEF CallbackReturns, DriverEnds
<1>2. \/ UNCHANGED blk
      \/ \E r \in Requests, s \in {"idle", "requeue"} :
            blk[r] = "inflight" /\ blk' = [blk EXCEPT ![r] = s]
  <2>1. ASSUME NEW c \in Contexts, CallbackReturns(c)
        PROVE  \/ UNCHANGED blk
               \/ \E r \in Requests, s \in {"idle", "requeue"} :
                     blk[r] = "inflight" /\ blk' = [blk EXCEPT ![r] = s]
    BY <2>1 DEF CallbackReturns, QueueRqOk, QueueRqErr, DInv, IInv, CallbackInv
  <2>2. ASSUME NEW h \in Handles, DriverEnds(h)
        PROVE  \E r \in Requests : blk[r] = "inflight" /\ blk' = [blk EXCEPT ![r] = "idle"]
    BY <2>2, EndingRef DEF DriverEnds, EndRequest, DInv
  <2>3. QED
    BY <2>1, <2>2
<1>3. UNCHANGED cdisk \/ \E c \in Contexts : cdisk' = [cdisk EXCEPT ![c] = NoDisk]
  BY DEF CallbackReturns, DriverEnds
<1>4. KeptInv'
  BY <1>1, <1>2 DEF DInv, KeptInv, AllUninit
<1>5. IoInv'
  <2>1. \A c \in Contexts :
            cdisk'[c] # NoDisk => disk'[cdisk'[c]] \in {"adding", "added", "deleting"}
    BY <1>1, <1>3 DEF DInv, IoInv, BInv, DTypeOK
  <2>2. \A r \in Requests :
            blk'[r] \in {"requeue", "dispatch", "inflight"} =>
                rdisk'[r] = rdisk[r] /\ blk[r] \in {"requeue", "dispatch", "inflight"}
    BY <1>1, <1>2 DEF ForgetEnded, DInv, IInv, TypeOK
  <2>3. \A r \in Requests : rdisk'[r] \in {rdisk[r], NoDisk}
    BY <1>1 DEF ForgetEnded
  <2>4. QED
    BY <1>1, <2>1, <2>2, <2>3 DEF DInv, IoInv
<1>6. QED
  BY <1>4, <1>5

\* Every step of a driver with disks preserves the strengthened invariant.
LEMMA DStep ==
    ASSUME DInv, CleanErrors, Waits, [DNext]_allvars
    PROVE  DInv'
<1>1. IInv'
  BY DStepRefines, NextStep DEF DInv
<1>2. BInv'
  BY BStep DEF DInv
<1>3. KeptInv' /\ IoInv'
  <2>1. CASE UNCHANGED allvars
    BY <2>1 DEF allvars, vars, dvars, DInv, KeptInv, AllUninit, IoInv
  <2>2. QED
    BY <2>1, SetStepKeeps, DiskStepKeeps, InitExitKeeps, SendKeeps, WorkKeeps,
       ReturnKeeps DEF DNext
<1>4. QED
  BY <1>1, <1>2, <1>3 DEF DInv

\* The strengthened invariant holds in every reachable state of a driver that
\* gives its ARefs up before it returns Err, on a kernel with both calls.
THEOREM DInductive == CleanErrors /\ Waits => (DSpec => []DInv)
<1> SUFFICES ASSUME CleanErrors, Waits PROVE DSpec => []DInv
  OBVIOUS
<1>1. DInv /\ [DNext]_allvars => DInv'
  BY DStep
<1>2. QED
  BY DInitHolds, <1>1, PTL DEF DSpec

\* Nothing the block layer can still reach outlives the tag set: no order of
\* failures, drops and requests frees it early.
THEOREM QueueIsAlive == CleanErrors /\ Waits => (DSpec => []QueueAlive)
<1>1. DInv => QueueAlive
  <2> SUFFICES ASSUME DInv,
                      \/ \E d \in Disks : disk[d] \notin {"none", "deleted", "leaked"}
                      \/ \E r \in Requests : blk[r] # "uninit"
               PROVE  mem = [m \in {"ops", "set"} |-> "live"]
    BY DEF QueueAlive
  <2>1. phase \notin {"none", "ops"}
    <3>1. CASE \E d \in Disks : disk[d] \notin {"none", "deleted", "leaked"}
      BY <3>1 DEF DInv, BInv, DTypeOK, DiskStates, DiskInv, KeptInv, PhaseInv
    <3>2. CASE \E r \in Requests : blk[r] # "uninit"
      BY <3>2 DEF DInv, KeptInv, AllUninit
    <3>3. QED
      BY <3>1, <3>2
  <2>2. QED
    BY <2>1 DEF DInv, BInv, PhaseInv, DTypeOK
<1>2. QED
  BY DInductive, <1>1, PTL

\* When GenDisk::drop has returned or build has given a disk up, the disk has
\* no callback, no request and no ARef left.
THEOREM IoIsOver == CleanErrors /\ Waits => (DSpec => []NoIoAfterDrop)
<1>1. DInv => NoIoAfterDrop
  <2> SUFFICES ASSUME DInv PROVE NoIoAfterDrop
    OBVIOUS
  <2>1. \A d \in Disks : disk[d] \in {"adding", "added", "deleting"} => d \in holds
    BY DEF DInv, BInv, DiskInv, KeptInv
  <2>2. \A d \in Disks \ holds : Quiet(d)
    BY <2>1, DisksAssumption DEF DInv, IoInv, Quiet
  <2>3. ASSUME NEW h \in Handles, st[h] # "free" PROVE rdisk[rqOf[h]] \in holds
    <3>1. rqOf[h] \in Requests /\ (h \in Refs(rqOf[h]) \/ h \in Enders(rqOf[h]))
      BY <2>3 DEF DInv, IInv, HandleInv, TypeOK, HandleStates, Refs, Enders
    <3>2. blk[rqOf[h]] \in {"dispatch", "inflight"}
      BY <3>1 DEF DInv, IInv, QuietInv, TypeOK, BlkStates
    <3>3. rdisk[rqOf[h]] \in Disks /\ disk[rdisk[rqOf[h]]] \in {"adding", "added", "deleting"}
      BY <3>1, <3>2 DEF DInv, IoInv, BInv, DTypeOK
    <3>4. QED
      BY <2>1, <3>3
  <2>4. QED
    BY <2>2, <2>3 DEF NoIoAfterDrop
<1>2. QED
  BY DInductive, <1>1, PTL
=============================================================================
