------------------------------ MODULE WorkQueue ------------------------------
(***************************************************************************)
(* Ownership of work items: rust/src/workqueue.rs (Queue::enqueue,         *)
(* Queue::try_spawn, the RawWorkItem and WorkItemPointer implementations   *)
(* of Arc<T> and Pin<KBox<T>>), the reference count of rust/src/sync/      *)
(* arc.rs, and rs_queue_work_on of shim.c in front of the C workqueues.    *)
(*                                                                         *)
(* A work_struct is a pair of the item it is a field of and its ID.  It is *)
(* pending while it is in the list of a worker pool, whichever queue it    *)
(* was enqueued on.                                                        *)
(***************************************************************************)
EXTENDS Integers, SequencesExt

CONSTANTS
    Threads, Workers,   \* threads of drivers; kworkers
    PoolOf,             \* the pool a kworker belongs to
    ArcItems, BoxItems, \* items enqueued as Arc<T>; closures of try_spawn
    Ids,                \* the IDs of the Work<T, ID> fields of an ArcItem
    Queues,             \* the system queues the drivers use
    MaxArcs,            \* bound: Arcs to one item that exist at one time
    Resolved,           \* did rs_shim_init find queue_work_on?
    None

ASSUME ItemsAssumption == ArcItems \cap BoxItems = {} /\ None \notin ArcItems \cup BoxItems
ASSUME MaxArcsAssumption == MaxArcs \in Nat \ {0}
ASSUME FiniteAssumption == \A S \in {Threads, Workers, Ids} : IsFiniteSet(S)
ASSUME ResolvedAssumption == Resolved \in BOOLEAN

Items == ArcItems \cup BoxItems

\* impl_has_work!: raw_get_work(i, k) is the field with ID k of item i.
raw_get_work(i, k) == <<i, k>>
work_container_of(x) == x[1]
Works == {raw_get_work(i, k) : i \in ArcItems, k \in Ids}
            \cup {raw_get_work(i, 0) : i \in BoxItems}
Box(x) == work_container_of(x) \in BoxItems

ASSUME WorksAssumption == None \notin Works

\* The pools of workers behind system(), system_highpri() and the others; the
\* power-efficient ones are per-CPU unless a kernel parameter says otherwise.
Pool == [system |-> "normal", highpri |-> "high", long |-> "normal",
         unbound |-> "unbound", freezable |-> "normal",
         power_efficient |-> "normal", freezable_power_efficient |-> "normal"]
Pools == {Pool[q] : q \in Queues}

ASSUME PoolAssumption ==
    /\ Queues \subseteq DOMAIN Pool
    /\ PoolOf \in [Workers -> Pools] /\ \A p \in Pools : \E w \in Workers : PoolOf[w] = p

VARIABLES
    count,      \* per item: ArcInner.refcount (1 for a box), 0 once freed
    held,       \* per thread and item: how many Arcs (boxes) it owns
    raw,        \* per thread: the work_struct it is enqueueing
    list,       \* per pool: its worklist
    run,        \* per worker: the work_struct whose function it is in
    mine,       \* the workers whose run still owns the Arc or the box
    func,       \* the boxes whose closure has not been called
    ub          \* has unreachable_unchecked been reached?

vars == <<count, held, raw, list, run, mine, func, ub>>

Pending == UNION {Range(list[p]) : p \in Pools}
Running(x) == {w \in Workers : run[w] = x}

TypeOK ==
    /\ count \in [Items -> 0..MaxArcs]
    /\ held \in [Threads -> [Items -> 0..MaxArcs]]
    /\ raw \in [Threads -> Works \cup {None}]
    /\ list \in [Pools -> Seq(Works)]
    /\ run \in [Workers -> Works \cup {None}]
    /\ mine \subseteq Workers
    /\ func \subseteq BoxItems
    /\ ub \in BOOLEAN

Init ==
    /\ count = [i \in Items |-> 0]
    /\ held = [t \in Threads |-> [i \in Items |-> 0]]
    /\ raw = [t \in Threads |-> None]
    /\ list = [p \in Pools |-> <<>>]
    /\ run = [w \in Workers |-> None]
    /\ mine = {}
    /\ func = {}
    /\ ub = FALSE

-----------------------------------------------------------------------------
(* Threads.                                                                *)

\* Arc::pin_init of an item whose Work fields are initialised with Work::new.
NewArc(t, i) ==
    /\ raw[t] = None
    /\ count[i] = 0
    /\ count' = [count EXCEPT ![i] = 1]
    /\ held' = [held EXCEPT ![t][i] = 1]
    /\ UNCHANGED <<raw, list, run, mine, func, ub>>

\* try_spawn: KBox::pin_init of a ClosureWork with func: Some(func), and into
\* __enqueue with it.
TrySpawn(t, i) ==
    /\ raw[t] = None
    /\ count[i] = 0
    /\ count' = [count EXCEPT ![i] = 1]
    /\ func' = func \cup {i}
    /\ raw' = [raw EXCEPT ![t] = raw_get_work(i, 0)]
    /\ UNCHANGED <<held, list, run, mine, ub>>

\* Arc::clone, for thread u.
Clone(t, u, i) ==
    /\ raw[t] = None
    /\ held[t][i] > 0
    /\ count[i] < MaxArcs
    /\ count' = [count EXCEPT ![i] = @ + 1]
    /\ held' = [held EXCEPT ![u][i] = @ + 1]
    /\ UNCHANGED <<raw, list, run, mine, func, ub>>

\* Arc::drop: refcount_dec_and_test, freed at 0.
DropArc(t, i) ==
    /\ raw[t] = None
    /\ held[t][i] > 0
    /\ held' = [held EXCEPT ![t][i] = @ - 1]
    /\ count' = [count EXCEPT ![i] = @ - 1]
    /\ UNCHANGED <<raw, list, run, mine, func, ub>>

\* Queue::enqueue enters __enqueue: Arc::into_raw and raw_get_work.
IntoRaw(t, i, k) ==
    /\ raw[t] = None
    /\ held[t][i] > 0
    /\ held' = [held EXCEPT ![t][i] = @ - 1]
    /\ raw' = [raw EXCEPT ![t] = raw_get_work(i, k)]
    /\ UNCHANGED <<count, list, run, mine, func, ub>>

\* rs_queue_work_on returns false: the symbol is missing or x is pending.
Refused(x) == ~Resolved \/ x \in Pending

\* insert_work.
Inserted(q, x) == [list EXCEPT ![Pool[q]] = Append(@, x)]

\* Mutant: a work_struct is put on a list although it is pending on another.
QueueWorkOn_Twice(t, q) ==
    /\ raw[t] # None
    /\ Resolved /\ raw[t] \notin Range(list[Pool[q]])
    /\ list' = Inserted(q, raw[t])
    /\ raw' = [raw EXCEPT ![t] = None]
    /\ UNCHANGED <<count, held, run, mine, func, ub>>

\* queue_work_on returns true: the queue owns the pointer.
QueueWorkOn(t, q) ==
    /\ raw[t] # None
    /\ ~Refused(raw[t])
    /\ list' = Inserted(q, raw[t])
    /\ raw' = [raw EXCEPT ![t] = None]
    /\ UNCHANGED <<count, held, run, mine, func, ub>>

\* __enqueue after false: Err(Arc::from_raw) hands an Arc back, and for a box
\* the code goes on to unreachable_unchecked.
EnqueueRefused(t) ==
    /\ raw[t] # None
    /\ Refused(raw[t])
    /\ IF Box(raw[t])
          THEN ub' = TRUE /\ UNCHANGED held
          ELSE held' = [held EXCEPT ![t][work_container_of(raw[t])] = @ + 1] /\ UNCHANGED ub
    /\ raw' = [raw EXCEPT ![t] = None]
    /\ UNCHANGED <<count, list, run, mine, func>>

-----------------------------------------------------------------------------
(* Workers.                                                                *)

\* A worker takes the first work_struct no worker of its pool is running, clears
\* its pending bit and calls its function.
StartWork(w) ==
    LET p == PoolOf[w]
        Collides(x) == \E v \in Running(x) : PoolOf[v] = p
    IN  /\ run[w] = None
        /\ \E n \in DOMAIN list[p] :
              /\ ~Collides(list[p][n])
              /\ \A j \in 1..(n - 1) : Collides(list[p][j])
              /\ run' = [run EXCEPT ![w] = list[p][n]]
              /\ list' = [list EXCEPT ![p] = RemoveAt(@, n)]
        /\ mine' = mine \cup {w}
        /\ UNCHANGED <<count, held, raw, func, ub>>

\* T::run(arc) enqueues its own Arc, with one of its fields, on some queue.
RunRequeue(w, q, k) ==
    LET x == raw_get_work(work_container_of(run[w]), k)
    IN  /\ run[w] # None /\ ~Box(run[w]) /\ w \in mine
        /\ ~Refused(x)
        /\ list' = Inserted(q, x)
        /\ mine' = mine \ {w}
        /\ UNCHANGED <<count, held, raw, run, func, ub>>

\* Arc::run: T::run returns, and drops the Arc unless it gave it away.
RunArc(w) ==
    /\ run[w] # None /\ ~Box(run[w])
    /\ count' = IF w \in mine THEN [count EXCEPT ![work_container_of(run[w])] = @ - 1]
                ELSE count
    /\ run' = [run EXCEPT ![w] = None]
    /\ mine' = mine \ {w}
    /\ UNCHANGED <<held, raw, list, func, ub>>

\* ClosureWork::run takes the closure out of the box and calls it.
ClosureRun(w) ==
    /\ run[w] # None /\ Box(run[w])
    /\ work_container_of(run[w]) \in func
    /\ func' = func \ {work_container_of(run[w])}
    /\ UNCHANGED <<count, held, raw, list, run, mine, ub>>

\* Mutant: the box is dropped with the closure still in it.
RunBox_NotCalled(w) ==
    /\ run[w] # None /\ Box(run[w])
    /\ count' = [count EXCEPT ![work_container_of(run[w])] = @ - 1]
    /\ run' = [run EXCEPT ![w] = None]
    /\ mine' = mine \ {w}
    /\ UNCHANGED <<held, raw, list, func, ub>>

\* Pin<KBox>::run: when T::run returns the box is dropped.
RunBox(w) ==
    /\ run[w] # None /\ Box(run[w])
    /\ work_container_of(run[w]) \notin func
    /\ count' = [count EXCEPT ![work_container_of(run[w])] = @ - 1]
    /\ run' = [run EXCEPT ![w] = None]
    /\ mine' = mine \ {w}
    /\ UNCHANGED <<held, raw, list, func, ub>>

-----------------------------------------------------------------------------
Next ==
    \/ \E t \in Threads : (\E q \in Queues : QueueWorkOn(t, q)) \/ EnqueueRefused(t)
    \/ \E t \in Threads, i \in ArcItems :
          \/ NewArc(t, i) \/ DropArc(t, i)
          \/ (\E u \in Threads : Clone(t, u, i)) \/ (\E k \in Ids : IntoRaw(t, i, k))
    \/ \E t \in Threads, i \in BoxItems : TrySpawn(t, i)
    \/ \E w \in Workers :
          \/ StartWork(w) \/ RunArc(w) \/ ClosureRun(w) \/ RunBox(w)
          \/ \E q \in Queues, k \in Ids : RunRequeue(w, q, k)

\* Threads finish the calls they are in; workers take and finish work.
Fairness ==
    /\ \A t \in Threads : WF_vars((\E q \in Queues : QueueWorkOn(t, q)) \/ EnqueueRefused(t))
    /\ \A w \in Workers : /\ WF_vars(StartWork(w))
                          /\ WF_vars(RunArc(w) \/ ClosureRun(w) \/ RunBox(w))

Spec == Init /\ [][Next]_vars /\ Fairness

-----------------------------------------------------------------------------
(* Properties.                                                             *)

\* The owners of item i: the Arcs of a thread, the n-th of which is <<t, n>>, the
\* threads that turned theirs into a pointer, the pending work_structs, and the
\* workers whose run has not given its Arc or box away.
Of(x, i) == x # None /\ work_container_of(x) = i
Arcs(i) == {a \in Threads \X (1..MaxArcs) : a[2] <= held[a[1]][i]}
Enqueueing(i) == {t \in Threads : Of(raw[t], i)}
Enqueued(i) == {x \in Pending : Of(x, i)}
Executing(i) == {w \in mine : Of(run[w], i)}

\* The count of a live item is the number of Arcs that exist: those threads
\* hold or are enqueueing, one for each of its fields that is pending and one
\* for each worker in its run that has not given it away.  An item nobody owns
\* is freed and an item somebody owns is not, so the container_of and from_raw
\* of WorkItemPointer::run never see freed memory.
OwnersCounted ==
    \A i \in Items :
        count[i] = Cardinality(Arcs(i)) + Cardinality(Enqueueing(i))
                   + Cardinality(Enqueued(i)) + Cardinality(Executing(i))

\* A work_struct is pending in one place, and run by one worker of a pool at a
\* time; a box has one owner, so a closure of try_spawn cannot be called twice.
OnePlace ==
    /\ \A p, r \in Pools : IsInjective(list[p])
                           /\ (p # r => Range(list[p]) \cap Range(list[r]) = {})
    /\ \A x \in Works : \A v, w \in Running(x) : PoolOf[v] = PoolOf[w] => v = w
    /\ \A x \in Works : Box(x) =>
          /\ Cardinality(Running(x)) <= 1
          /\ x \in Pending => work_container_of(x) \in func /\ Running(x) = {}

\* A closure given to try_spawn is eventually called.
SpawnedIsCalled ==
    \A i \in BoxItems : (\E t \in Threads : raw[t] = raw_get_work(i, 0)) ~> i \notin func

\* Every owner of a work item of workqueue.rs is counted, and a work_struct is in
\* one place.
OwnershipInv == TypeOK /\ OnePlace /\ OwnersCounted
=============================================================================
