------------------------------ MODULE LongPoll ------------------------------
(***************************************************************************)
(* The long-poll of one license on one worker (routes/signals.py): a poll  *)
(* that finds nothing waits on an in-process notification queue            *)
(* (ws/connection.py), and reads the table again however it wakes.  The    *)
(* queue only shortens the wait; the table is the truth.  How rows are     *)
(* claimed and re-claimed is SignalQueue's; here a claim takes them all.   *)
(***************************************************************************)
EXTENDS FiniteSets, Integers

CONSTANTS PollSignals,  \* signals the license receives
          Pollers,      \* EAs of the license that long-poll this worker
          QueueSize,    \* maxsize = 64 of a notification queue
          MaxQueues     \* bound on queue objects created

ASSUME LongPollAssumption == QueueSize \in Nat \ {0} /\ MaxQueues \in Nat \ {0}

VARIABLES
    row,      \* row[s]: the signal in the table
    owed,     \* signals whose webhook has yet to notify
    told,     \* told[s]: the queue object its notification went to, 0 if none
    entry,    \* the license's entry in http_polling_clients
    key,      \* the queue object under the license's key, 0 if none
    made,     \* queue objects created so far
    items,    \* items[q]: notifications in queue object q
    poll,     \* poll[p]: where p's request stands
    queueOf,  \* queueOf[p]: the queue object p waits on
    late,     \* requests that registered more than HTTP_POLLING_TIMEOUT ago
    removed   \* the license was removed while a poller waited (history)

lpTable == <<row, owed, told>>
lpClient == <<entry, key, made>>
lpVars == <<lpTable, lpClient, items, poll, queueOf, late, removed>>

Queues == 1..MaxQueues

LpTypeOK ==
    /\ row \in [PollSignals -> {"absent", "pending", "claimed"}] /\ owed \subseteq PollSignals
    /\ told \in [PollSignals -> 0..MaxQueues]
    /\ entry \in {"none", "recent", "stale"}
    /\ made \in 0..MaxQueues /\ key \in 0..made /\ items \in [Queues -> 0..QueueSize]
    /\ poll \in [Pollers -> {"idle", "first", "empty", "waiting", "woken", "claimed"}]
    /\ queueOf \in [Pollers -> 0..made] /\ late \subseteq Pollers /\ removed \in BOOLEAN

LpInit ==
    /\ row = [s \in PollSignals |-> "absent"] /\ owed = {} /\ told = [s \in PollSignals |-> 0]
    /\ entry = "none" /\ key = 0 /\ made = 0 /\ items = [q \in Queues |-> 0]
    /\ poll = [p \in Pollers |-> "idle"] /\ queueOf = [p \in Pollers |-> 0]
    /\ late = {} /\ removed = FALSE

-----------------------------------------------------------------------------
\* queue_signal_async: the row is written on a thread, then the event loop
\* puts a notification into the license's queue, if it has one with room.  A
\* webhook on another worker writes the row and notifies its own queues.
Save(s) ==
    /\ row[s] = "absent" /\ row' = [row EXCEPT ![s] = "pending"] /\ owed' = owed \cup {s}
    /\ UNCHANGED <<told, lpClient, items, poll, queueOf, late, removed>>

\* Mutant: a full queue takes one more.
NotifyUnbounded(s) ==
    /\ s \in owed /\ owed' = owed \ {s} /\ key # 0 /\ told' = [told EXCEPT ![s] = key]
    /\ items' = [items EXCEPT ![key] = @ + 1]
    /\ UNCHANGED <<row, lpClient, poll, queueOf, late, removed>>

Notify(s) ==
    /\ s \in owed /\ owed' = owed \ {s}
    /\ \/ UNCHANGED <<told, items>>  \* the webhook ran on another worker
       \/ /\ key # 0 /\ told' = [told EXCEPT ![s] = key]
          /\ items' = [items EXCEPT ![key] = IF @ < QueueSize THEN @ + 1 ELSE @]
    /\ UNCHANGED <<row, lpClient, poll, queueOf, late, removed>>

\* get_pending_signals: the rows a request hands out, claimed on a thread.
Pending == {s \in PollSignals : row[s] = "pending"}

ClaimAll == row' = [s \in PollSignals |-> IF s \in Pending THEN "claimed" ELSE row[s]]

-----------------------------------------------------------------------------
\* longpoll_signals: register, claim, and answer what there is.
BeginPoll(p) ==
    /\ poll[p] = "idle" /\ poll' = [poll EXCEPT ![p] = "first"]
    /\ entry' = "recent" /\ late' = late \ {p}
    /\ UNCHANGED <<lpTable, key, made, items, queueOf, removed>>

FirstClaim(p) ==
    /\ poll[p] = "first" /\ ClaimAll
    /\ poll' = [poll EXCEPT ![p] = IF Pending # {} THEN "idle" ELSE "empty"]
    /\ UNCHANGED <<owed, told, lpClient, items, queueOf, late, removed>>

\* get_signal_queue, once the claim's thread has come back empty-handed.
Wait(p) ==
    /\ poll[p] = "empty" /\ (key = 0 => made < MaxQueues)
    /\ poll' = [poll EXCEPT ![p] = "waiting"]
    /\ key' = (IF key = 0 THEN made + 1 ELSE key)
    /\ made' = (IF key = 0 THEN made + 1 ELSE made)
    /\ queueOf' = [queueOf EXCEPT ![p] = key']
    /\ UNCHANGED <<lpTable, entry, items, late, removed>>

\* A notification, or the timeout, ends the wait; what has gathered is drained.
Wake(p) ==
    /\ poll[p] = "waiting" /\ poll' = [poll EXCEPT ![p] = "woken"]
    /\ items' = [items EXCEPT ![queueOf[p]] = 0]
    /\ UNCHANGED <<lpTable, lpClient, queueOf, late, removed>>

SecondClaim(p) ==
    /\ poll[p] = "woken" /\ ClaimAll /\ poll' = [poll EXCEPT ![p] = "claimed"]
    /\ UNCHANGED <<owed, told, lpClient, items, queueOf, late, removed>>

\* Mutant: the queue is drained after the claim as well.
DrainedAgain(p) == [items EXCEPT ![queueOf[p]] = 0]

AfterClaim(p) == items

Answer(p) ==
    /\ poll[p] = "claimed" /\ poll' = [poll EXCEPT ![p] = "idle"] /\ items' = AfterClaim(p)
    /\ UNCHANGED <<lpTable, lpClient, queueOf, late, removed>>

-----------------------------------------------------------------------------
\* 30 s pass since the license's last poll, and since p's.
GrowsStale ==
    /\ entry = "recent" /\ entry' = "stale" /\ late' = Pollers
    /\ UNCHANGED <<lpTable, key, made, items, poll, queueOf, removed>>

\* Mutant: an entry is dropped however recent it is.
OutdatedAlways == entry # "none"

Outdated == entry = "stale"

\* get_active_http_clients drops entries older than the polling timeout.
DropStale ==
    /\ Outdated /\ entry' = "none"
    /\ UNCHANGED <<lpTable, key, made, items, poll, queueOf, late, removed>>

\* prune_idle_signal_queues: the pruning task, the hourly cleanup, or the limit
\* of queues.  A poller that waits keeps the object, no longer under the key.
Prune ==
    /\ entry = "none" /\ key # 0 /\ key' = 0
    /\ UNCHANGED <<lpTable, entry, made, items, poll, queueOf, late, removed>>

\* cleanup_client_state, when the license is deleted or replaced.
CleanupClientState ==
    /\ ~removed /\ removed' = TRUE /\ entry' = "none" /\ key' = 0
    /\ UNCHANGED <<lpTable, made, items, poll, queueOf, late>>

LpNext ==
    \/ \E s \in PollSignals : Save(s) \/ Notify(s)
    \/ \E p \in Pollers : \/ BeginPoll(p) \/ FirstClaim(p) \/ Wait(p) \/ Wake(p)
                          \/ SecondClaim(p) \/ Answer(p)
    \/ GrowsStale \/ DropStale \/ Prune \/ CleanupClientState

LpSpec == LpInit /\ [][LpNext]_lpVars

-----------------------------------------------------------------------------
\* No lost wake-up: while a poller waits on the queue a signal's notification
\* went to and the signal is unclaimed, the notification is still there or
\* whoever drained it is on its way to the claim.
NoLostWakeup ==
    \A p \in Pollers, s \in PollSignals :
        poll[p] = "waiting" /\ row[s] = "pending" /\ told[s] = queueOf[p] =>
            items[queueOf[p]] > 0 \/ \E r \in Pollers : poll[r] = "woken"

\* A queue is taken away from under a waiting poller only when its license was
\* removed or it has waited longer than the polling timeout.
WaiterKeepsQueue ==
    \A p \in Pollers : poll[p] = "waiting" /\ queueOf[p] # key => p \in late \/ removed
=============================================================================
