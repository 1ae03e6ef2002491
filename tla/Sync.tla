-------------------------------- MODULE Sync --------------------------------
(***************************************************************************)
(* The synchronisation primitives of a driver: a PollCondVar with waiters, *)
(* producers and epoll items, and locks with the data they protect.  The   *)
(* two share nothing, so their steps commute: each moves only while the    *)
(* other is at rest.                                                       *)
(***************************************************************************)
EXTENDS PollCondVar, Locks

syncVars == <<waitVars, pollVars, lockedVars>>

SyncTypeOK == WaitTypeOK /\ PollTypeOK /\ LocksTypeOK

SyncInit == WaitInit /\ PollInit /\ LocksInit

Resting == cv = "alive" /\ Unborrowed /\ (\A e \in EpollItems : item[e] = "off") /\ tokens = 0

\* A waiter or producer borrows the condition variable from start to end.
WaiterStep ==
    \E c \in Consumers :
        \/ cv = "alive" /\ Lock(c)
        \/ Take(c) \/ GiveUp(c) \/ PrepareToWait(c) \/ UnlockForWait(c)
        \/ ScheduleReturns(c) \/ Timeout(c) \/ RelockSleep(c) \/ Relock(c)
        \/ FinishWait(c) \/ SendSignal(c)

ProducerStep ==
    \E p \in Producers : (cv = "alive" /\ LockToAdd(p)) \/ Add(p) \/ Unlock(p)

SyncNext ==
    \/ /\ LocksIdle
       /\ \/ (WaiterStep \/ ProducerStep) /\ UNCHANGED pollVars
          \/ \E p \in Producers : NotifyPollers(p)
          \/ PollStep
       /\ UNCHANGED lockedVars
    \/ Resting /\ LocksStep /\ UNCHANGED <<waitVars, pollVars>>

SyncSpec == SyncInit /\ [][SyncNext]_syncVars /\ Fairness

-----------------------------------------------------------------------------
HoldsGuard(t) ==
    IF t \in Consumers THEN pc[t] \in {"check", "prepared", "finish"}
    ELSE pc[t] \in {"crit", "added", "leave"}

\* A thread that has a Guard in its hands owns the mutex, and nobody else
\* does: the wait gives it up and takes it again on every way out of the
\* sleep, a timeout and a signal included.
GuardOwns == \A t \in Threads : HoldsGuard(t) <=> owner = t

\* No wait queue holds an entry whose waiter has returned, and nobody follows a
\* pointer to a wait queue that is gone (condvar.rs, poll.rs).
WaitQueueInv == SyncTypeOK /\ EntryOutlivesNothing /\ PollHeadAlive

\* No notification is lost, to a waiter or to a poller.
NothingMissed == NoLostWakeup /\ PollNotMissed

\* A guard owns its lock, and what a lock protects in a LockedBy is lent to
\* readers or to one writer while the lock is held (lock.rs, locked_by.rs).
LocksExclude == GuardOwns /\ AccessExclusive
=============================================================================
