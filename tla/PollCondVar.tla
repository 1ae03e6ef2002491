---------------------------- MODULE PollCondVar ----------------------------
(***************************************************************************)
(* A condition variable that files can be polled on (sync/poll.rs): the    *)
(* driver's poll operation registers the caller's poll table, looks at the *)
(* tokens under the lock and answers.  The pollers are epoll items: they   *)
(* stay on the wait queue when the poll operation has returned, they do    *)
(* not hold the file, and they may be removed while the condition variable *)
(* is dropped.  Removing an item reads whead, the pointer to the wait      *)
(* queue, and follows it, inside one RCU read section.                     *)
(***************************************************************************)
EXTENDS CondVar

CONSTANT EpollItems      \* epoll items

VARIABLES
    cv,         \* the PollCondVar: alive, cleared of its pollers, or freed
    item,       \* per item: where epoll is with it
    polled,     \* items on the wait queue
    ready       \* items on epoll's ready list

pollVars == <<cv, item, polled, ready>>

PollTypeOK ==
    /\ cv \in {"alive", "cleared", "freed"}
    /\ item \in [EpollItems -> {"off", "registered", "watch", "recheck", "removing",
                           "orphan"}]
    /\ polled \subseteq EpollItems
    /\ ready \subseteq EpollItems

PollInit ==
    /\ cv = "alive"
    /\ item = [e \in EpollItems |-> "off"]
    /\ polled = {} /\ ready = {}

Move(e, from, to) == item[e] = from /\ item' = [item EXCEPT ![e] = to]

-----------------------------------------------------------------------------
(* The poll operation of the driver, called by epoll_ctl.  whead of an     *)
(* item is null once it is an orphan.                                      *)

\* PollTable::register_wait: the item goes on the wait queue, not exclusive.
RegisterWait(e) ==
    /\ cv = "alive" /\ Move(e, "off", "registered")
    /\ polled' = polled \cup {e}
    /\ UNCHANGED <<waitVars, cv, ready>>

\* Then the tokens, under the lock: an item that has one is ready at once.
PollTokens(e, from) ==
    /\ owner = None /\ Move(e, from, "watch")
    /\ ready' = IF tokens > 0 THEN ready \cup {e} ELSE ready
    /\ UNCHANGED <<waitVars, cv, polled>>

\* External: epoll_wait takes an item off the ready list and calls poll again,
\* without a table; the item goes back on the list if it has an event.
EpollWait(e) ==
    /\ e \in ready /\ cv = "alive" /\ Move(e, "watch", "recheck")
    /\ ready' = ready \ {e}
    /\ UNCHANGED <<waitVars, cv, polled>>

\* Every notification reaches all pollers, which are ahead of the exclusive
\* waiters on the queue.
NotifyPollers(p) ==
    /\ NotifyOne(p) \/ NotifyAll(p)
    /\ ready' = ready \cup polled
    /\ UNCHANGED <<cv, item, polled>>

-----------------------------------------------------------------------------
(* External: ep_unregister_pollwait.                                       *)

\* rcu_read_lock, and whead is loaded: null when pollfree came first.
RemoveItem(e) ==
    /\ \/ Move(e, "watch", "removing")
       \/ Move(e, "orphan", "off")
    /\ ready' = ready \ {e}
    /\ UNCHANGED <<waitVars, cv, polled>>

\* remove_wait_queue(whead), rcu_read_unlock.
RemoveUnlink(e) ==
    /\ Move(e, "removing", "off")
    /\ polled' = polled \ {e}
    /\ UNCHANGED <<waitVars, cv, ready>>

-----------------------------------------------------------------------------
(* Drop of the PollCondVar: nobody borrows it, so no wait, notification or *)
(* poll operation is under way.                                            *)
Unborrowed ==
    /\ \A t \in Threads : At(t, "out")
    /\ \A e \in EpollItems : item[e] \notin {"registered", "recheck"}

\* __wake_up_pollfree: every poller is woken, taken off, its whead set to null.
WakeUpPollfree ==
    /\ cv = "alive" /\ Unborrowed
    /\ cv' = "cleared"
    /\ polled' = {} /\ ready' = ready \cup polled
    /\ item' = [e \in EpollItems |-> IF item[e] = "watch" THEN "orphan" ELSE item[e]]
    /\ UNCHANGED waitVars

\* synchronize_rcu waits for the items that have loaded whead; then the memory
\* goes.
SynchronizeRcu ==
    /\ cv = "cleared" /\ \A e \in EpollItems : item[e] # "removing"
    /\ cv' = "freed"
    /\ UNCHANGED <<waitVars, item, polled, ready>>

\* A new one; the items of the old one are not on its queue.
NewPollCondVar ==
    /\ cv = "freed"
    /\ cv' = "alive"
    /\ UNCHANGED <<waitVars, item, polled, ready>>

PollStep ==
    \/ \E e \in EpollItems :
          \/ RegisterWait(e) \/ PollTokens(e, "registered") \/ PollTokens(e, "recheck")
          \/ EpollWait(e) \/ RemoveItem(e) \/ RemoveUnlink(e)
    \/ WakeUpPollfree \/ SynchronizeRcu \/ NewPollCondVar

-----------------------------------------------------------------------------
(* Properties.                                                             *)

\* The wait queue head outlives every use of it by epoll: an item that is
\* registered, or that has loaded whead and is about to take the lock behind
\* it, finds the condition variable in memory.
PollHeadAlive ==
    /\ polled # {} => cv = "alive"
    /\ \A e \in EpollItems : item[e] = "removing" => cv # "freed"

\* No poller misses a token: one that has looked and waits is on the ready
\* list while there is a token, or a producer is about to notify.
PollNotMissed ==
    \A e \in EpollItems :
        item[e] = "watch" /\ e \notin ready /\ tokens > 0 =>
            Notifying # {}

=============================================================================
