------------------------------- MODULE CondVar -------------------------------
(***************************************************************************)
(* Condition variables: rust/src/sync/condvar.rs over a Mutex, with        *)
(* Guard::do_unlocked of rust/src/sync/lock.rs.  The wait queue, the       *)
(* scheduler and the mutex of the kernel are external: a task on the wait  *)
(* queue is found by a notification if it sleeps, be it in                 *)
(* schedule_timeout or in the mutex.                                       *)
(*                                                                         *)
(* The threads are those of the documentation's example: consumers wait    *)
(* in a loop for a token, producers add one and notify.                    *)
(***************************************************************************)
EXTENDS Integers, FiniteSets

CONSTANTS
    Consumers,      \* threads that wait
    Timed,          \* those that use wait_interruptible_timeout, not wait
    Producers,      \* threads that notify
    MaxTokens,      \* bound: tokens not yet taken
    None

ASSUME ThreadsAssumption ==
    /\ IsFiniteSet(Consumers) /\ IsFiniteSet(Producers)
    /\ Timed \subseteq Consumers /\ Consumers \cap Producers = {}
    /\ None \notin Consumers \cup Producers
ASSUME TokensAssumption == MaxTokens \in Nat \ {0}

VARIABLES
    owner,      \* the thread that holds the mutex
    tokens,     \* the data the mutex protects
    pc,         \* per thread: where it is
    task,       \* per consumer: running, asleep in schedule_timeout or in the mutex
    queue,      \* the tasks on the wait queue
    ahead,      \* per task on the queue: the tasks before it
    sig,        \* consumers with a signal pending
    left,       \* per consumer: did schedule_timeout return more than 0?
    res         \* per consumer: what the wait returned

waitVars == <<owner, tokens, pc, task, queue, ahead, sig, left, res>>

Threads == Consumers \cup Producers

WaitTypeOK ==
    /\ owner \in Threads \cup {None}
    /\ tokens \in 0..MaxTokens
    /\ pc \in [Threads -> {"out", "check", "prepared", "sched", "relock", "finish",
                           "crit", "added", "notify", "leave"}]
    /\ task \in [Consumers -> {"run", "wait", "mutex"}]
    /\ queue \subseteq Consumers
    /\ ahead \in [Consumers -> SUBSET Consumers]
    /\ sig \subseteq Timed
    /\ left \in [Consumers -> BOOLEAN]
    /\ res \in [Consumers -> {"woken", "timeout", "signal"}]

WaitInit ==
    /\ owner = None
    /\ tokens = 0
    /\ pc = [t \in Threads |-> "out"]
    /\ task = [c \in Consumers |-> "run"]
    /\ queue = {}
    /\ ahead = [c \in Consumers |-> {}]
    /\ sig = {}
    /\ left = [c \in Consumers |-> FALSE]
    /\ res = [c \in Consumers |-> "woken"]

At(t, label) == pc[t] = label
Goto(t, label) == pc' = [pc EXCEPT ![t] = label]

\* The list of the wait queue: a new entry is its last one.
Enqueue(c) ==
    /\ queue' = queue \cup {c}
    /\ ahead' = [ahead EXCEPT ![c] = queue]

Dequeue(gone) ==
    /\ queue' = queue \ gone
    /\ ahead' = [c \in Consumers |-> IF c \in gone THEN {} ELSE ahead[c] \ gone]

-----------------------------------------------------------------------------
(* Consumers: let mut guard = lock(); while tokens == 0 { wait(guard) }.   *)

\* Lock::lock.
Lock(c) ==
    /\ At(c, "out") /\ owner = None
    /\ owner' = c
    /\ res' = [res EXCEPT ![c] = "woken"]
    /\ Goto(c, "check")
    /\ UNCHANGED <<tokens, task, queue, ahead, sig, left>>

\* The condition holds: the token is taken, the guard dropped.
Take(c) ==
    /\ At(c, "check") /\ tokens > 0
    /\ tokens' = tokens - 1
    /\ owner' = None
    /\ sig' = sig \ {c}
    /\ Goto(c, "out")
    /\ UNCHANGED <<task, queue, ahead, left, res>>

\* A caller that was told Timeout or Signal looks once more and leaves.
GiveUp(c) ==
    /\ At(c, "check") /\ tokens = 0
    /\ res[c] \in {"timeout", "signal"}
    /\ owner' = None
    /\ sig' = sig \ {c}
    /\ Goto(c, "out")
    /\ UNCHANGED <<tokens, task, queue, ahead, left, res>>

\* Mutant: the lock is released before the task is on the wait queue.
PrepareToWait_AfterUnlock(c) ==
    \/ /\ At(c, "check") /\ tokens = 0 /\ owner = c
       /\ res[c] = "woken"
       /\ owner' = None
       /\ UNCHANGED <<tokens, pc, task, queue, ahead, sig, left, res>>
    \/ /\ At(c, "check") /\ owner # c
       /\ Enqueue(c)
       /\ task' = [task EXCEPT ![c] = "wait"]
       /\ Goto(c, "sched")
       /\ UNCHANGED <<owner, tokens, sig, left, res>>

\* wait_internal: init_wait, prepare_to_wait_exclusive.
PrepareToWait(c) ==
    /\ At(c, "check") /\ tokens = 0
    /\ res[c] = "woken"
    /\ Enqueue(c)
    /\ task' = [task EXCEPT ![c] = "wait"]
    /\ Goto(c, "prepared")
    /\ UNCHANGED <<owner, tokens, sig, left, res>>

\* do_unlocked: B::unlock.
UnlockForWait(c) ==
    /\ At(c, "prepared")
    /\ owner' = None
    /\ Goto(c, "sched")
    /\ UNCHANGED <<tokens, task, queue, ahead, sig, left, res>>

\* schedule_timeout returns: the task was woken, or a signal was pending.
ScheduleReturns(c) ==
    /\ At(c, "sched")
    /\ task[c] = "run" \/ c \in sig
    /\ task' = [task EXCEPT ![c] = "run"]
    /\ left' = [left EXCEPT ![c] = TRUE]
    /\ Goto(c, "relock")
    /\ UNCHANGED <<owner, tokens, queue, ahead, sig, res>>

\* The timer fires first.  The task stays on the wait queue.
Timeout(c) ==
    /\ c \in Timed
    /\ At(c, "sched") /\ task[c] = "wait"
    /\ task' = [task EXCEPT ![c] = "run"]
    /\ left' = [left EXCEPT ![c] = FALSE]
    /\ Goto(c, "relock")
    /\ UNCHANGED <<owner, tokens, queue, ahead, sig, res>>

\* The _relock ScopeGuard: mutex_lock sleeps, uninterruptibly, ...
RelockSleep(c) ==
    /\ At(c, "relock") /\ task[c] = "run"
    /\ owner # None
    /\ task' = [task EXCEPT ![c] = "mutex"]
    /\ UNCHANGED <<owner, tokens, pc, queue, ahead, sig, left, res>>

\* ... or takes the mutex.
Relock(c) ==
    /\ At(c, "relock") /\ owner = None
    /\ owner' = c
    /\ task' = [task EXCEPT ![c] = "run"]
    /\ Goto(c, "finish")
    /\ UNCHANGED <<tokens, queue, ahead, sig, left, res>>

\* The match of wait_interruptible_timeout; wait returns nothing.
Result(c) ==
    CASE c \notin Timed -> "woken"
      [] c \in Timed /\ c \in sig -> "signal"
      [] c \in Timed /\ c \notin sig /\ left[c] -> "woken"
      [] c \in Timed /\ c \notin sig /\ ~left[c] -> "timeout"

\* Mutant: finish_wait is forgotten; only a notification takes tasks off.
FinishWait_Forgotten(c) ==
    /\ At(c, "finish")
    /\ res' = [res EXCEPT ![c] = Result(c)]
    /\ Goto(c, "check")
    /\ UNCHANGED <<owner, tokens, task, queue, ahead, sig, left>>

\* finish_wait, and the wait returns to its caller.
FinishWait(c) ==
    /\ At(c, "finish")
    /\ Dequeue({c})
    /\ res' = [res EXCEPT ![c] = Result(c)]
    /\ Goto(c, "check")
    /\ UNCHANGED <<owner, tokens, task, sig, left>>

\* A signal arrives; it ends an interruptible sleep.
SendSignal(c) ==
    /\ c \in Timed \ sig
    /\ sig' = sig \cup {c}
    /\ task' = IF task[c] = "wait" THEN [task EXCEPT ![c] = "run"] ELSE task
    /\ UNCHANGED <<owner, tokens, pc, queue, ahead, left, res>>

-----------------------------------------------------------------------------
(* Producers: add a token under the lock, notify with or without it.       *)

LockToAdd(p) ==
    /\ At(p, "out") /\ owner = None
    /\ tokens < MaxTokens
    /\ owner' = p
    /\ Goto(p, "crit")
    /\ UNCHANGED <<tokens, task, queue, ahead, sig, left, res>>

Add(p) ==
    /\ At(p, "crit")
    /\ tokens' = tokens + 1
    /\ Goto(p, "added")
    /\ UNCHANGED <<owner, task, queue, ahead, sig, left, res>>

\* The guard is dropped: Guard::drop, before or after the notification.
Unlock(p) ==
    /\ pc[p] \in {"added", "leave"}
    /\ owner' = None
    /\ Goto(p, IF pc[p] = "added" THEN "notify" ELSE "out")
    /\ UNCHANGED <<tokens, task, queue, ahead, sig, left, res>>

\* __wake_up: the queued tasks that sleep, the first of them, and its effect,
\* which takes the woken tasks off the queue.
Sleeping == {c \in queue : task[c] # "run"}
FirstSleeping == {c \in Sleeping : ahead[c] \cap Sleeping = {}}

WakeUp(woken) ==
    /\ task' = [c \in Consumers |-> IF c \in woken THEN "run" ELSE task[c]]
    /\ Dequeue(woken)

Notify(p, woken) ==
    /\ pc[p] \in {"added", "notify"}
    /\ WakeUp(woken)
    /\ Goto(p, IF pc[p] = "added" THEN "leave" ELSE "out")
    /\ UNCHANGED <<owner, tokens, sig, left, res>>

\* notify(1) and notify_sync.
NotifyOne(p) == Notify(p, FirstSleeping)

\* notify(0): a count of 0 never runs out.
NotifyAll(p) == Notify(p, Sleeping)

-----------------------------------------------------------------------------
WaitNext ==
    \/ \E c \in Consumers :
          \/ Lock(c) \/ Take(c) \/ GiveUp(c) \/ PrepareToWait(c) \/ UnlockForWait(c)
          \/ ScheduleReturns(c) \/ Timeout(c) \/ RelockSleep(c) \/ Relock(c)
          \/ FinishWait(c) \/ SendSignal(c)
    \/ \E p \in Producers :
          \/ LockToAdd(p) \/ Add(p) \/ Unlock(p) \/ NotifyOne(p) \/ NotifyAll(p)

\* A runnable thread runs and the mutex is handed to everyone who keeps
\* waiting for it; nobody has to signal, time out or ask for a token.
Fairness ==
    /\ \A c \in Consumers :
          /\ WF_waitVars(Take(c) \/ GiveUp(c) \/ PrepareToWait(c))
          /\ WF_waitVars(UnlockForWait(c) \/ ScheduleReturns(c) \/ FinishWait(c))
          /\ SF_waitVars(Relock(c))
    /\ \A p \in Producers :
          WF_waitVars(Add(p) \/ Unlock(p) \/ NotifyOne(p) \/ NotifyAll(p))

WaitSpec == WaitInit /\ [][WaitNext]_waitVars /\ Fairness

-----------------------------------------------------------------------------
(* Properties.                                                             *)

\* The wait_queue_entry is a local of wait_internal: no thread that has left it
\* is on the wait queue, and one that sleeps in schedule_timeout always is.
EntryOutlivesNothing ==
    \A c \in Consumers :
        /\ c \in queue => pc[c] \in {"prepared", "sched", "relock", "finish"}
        /\ At(c, "sched") /\ task[c] = "wait" => c \in queue

\* Threads on their way to look at the tokens or to notify.
Awake == {c \in Consumers : ~At(c, "out") /\ (At(c, "sched") => task[c] = "run" \/ c \in sig)}
Notifying == {p \in Producers : pc[p] \in {"added", "notify"}}

\* No wakeup is lost: while a thread sleeps, each token has a thread that will
\* look for it or a producer that has yet to notify.
NoLostWakeup ==
    \A c \in Consumers :
        At(c, "sched") /\ task[c] = "wait" /\ c \notin sig =>
            tokens <= Cardinality(Awake) + Cardinality(Notifying)

\* A thread that waits while there is a token is woken, or the tokens are taken.
WaiterServed ==
    \A c \in Consumers :
        At(c, "sched") /\ tokens > 0 ~> ~At(c, "sched") \/ tokens = 0

=============================================================================
