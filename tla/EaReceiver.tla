----------------------------- MODULE EaReceiver -----------------------------
(***************************************************************************)
(* The MT5 Expert Advisor's receiving side: what an EA instance does with  *)
(* a copy of a trading signal, whichever transport brought it, until the   *)
(* broker has an order for it, it waits in the closed-market queue, or it  *)
(* is given up.  The instances of one terminal run on charts of their own  *)
(* and share the license, the lock files, the state file and the broker.   *)
(*                                                                         *)
(* A message carries one signal here; commands are the ones that open      *)
(* orders (IsQueueableCommandType), with InpEnableSignalQueue on.          *)
(***************************************************************************)
EXTENDS Integers, Sequences

CONSTANTS Signals,      \* signal ids
          EAs,          \* EA instances of one terminal and license
          NoSignal,     \* not a signal
          NoEA,         \* not an EA
          QueueMax,     \* SQ_MAX_SIZE = 100
          MaxRetries,   \* SQ_MAX_DRAIN_RETRIES = 120
          MaxQueueTime, \* SQ_MAX_QUEUE_TIME_SEC = 1800
          PerTick,      \* MAX_SIGNALS_PER_TICK = 50
          MemoryMax,    \* MAX_EXECUTED_SIGNALS = 500
          FileMax,      \* entries SaveExecutedSignal writes, 100
          FileFails,    \* whether opening the state file may fail
          MaxCopies,    \* bound on the copies of signals that arrive
          MaxRestarts   \* bound on crashes and restarts

ASSUME NothingAssumption == NoSignal \notin Signals /\ NoEA \notin EAs

ASSUME LimitAssumption ==
    /\ QueueMax \in Nat \ {0} /\ PerTick \in Nat \ {0} /\ MaxRetries \in Nat \ {0} /\ MaxQueueTime \in Nat
    /\ MemoryMax \in Nat \ {0} /\ FileMax \in Nat \ {0}
    /\ MaxCopies \in Nat /\ MaxRestarts \in Nat /\ FileFails \in BOOLEAN

VARIABLES
    market,     \* the symbol's session at the broker
    copies,     \* copies of signals that have arrived, at any instance
    task,       \* task[e]: where e stands in ExecuteCommand and its caller
    cursor,     \* cursor[e]: DrainSignalQueue's index, 0 outside of it
    drained,    \* drained[e]: drain_count, commands run by this drain
    queue,      \* queue[e]: g_signalQueue, in memory only
    lock,       \* lock[s]: who wrote the lock file of s
    memory,     \* memory[e]: g_executedSignals, oldest first
    file,       \* the state file, named after the license
    forgotten,  \* signals that newer ones pushed out of an instance's record
    positions,  \* positions[s]: open positions and orders that carry s
    orders,     \* orders[s]: orders ever placed for s
    refused,    \* signals an attempt ended for with a final error
    torn,       \* torn[s]: restarts that hit between an order for s and its record
    unguarded,  \* signals executed over another's lock file or without any
    restarts    \* restarts so far

broker == <<market, positions, orders, refused>>
disk == <<lock, file>>
history == <<torn, unguarded, restarts>>
loop == <<cursor, drained>>
record == <<memory, forgotten>>
vars == <<broker, disk, history, copies, task, loop, queue, record>>

Steps == {"idle", "lock", "create", "gate", "order", "save",
          "true", "false", "closed", "ackSave", "ackOnly"}
Origins == {"message", "first", "retry"}
Idle == [step |-> "idle", signal |-> NoSignal, from |-> "message"]

Items == [signal : Signals, retry : BOOLEAN, retries : 0 .. MaxRetries,
          age : 0 .. (MaxQueueTime + 1)]
Elements(q) == {q[i] : i \in DOMAIN q}

\* Every queue, buffer and file keeps within its limit and every counter
\* within its bound.
TypeOK ==
    /\ market \in {"closed", "auction", "open"}
    /\ copies \in 0 .. MaxCopies
    /\ task \in [EAs -> [step : Steps, signal : Signals \cup {NoSignal}, from : Origins]]
    /\ cursor \in [EAs -> 0 .. (QueueMax + 1)]
    /\ drained \in [EAs -> 0 .. PerTick]
    /\ queue \in [EAs -> Seq(Items)]
    /\ \A e \in EAs : Len(queue[e]) <= QueueMax
    /\ lock \in [Signals -> EAs \cup {NoEA}]
    /\ memory \in [EAs -> Seq(Signals)]
    /\ \A e \in EAs : Len(memory[e]) <= MemoryMax
    /\ file \in Seq(Signals) /\ Len(file) <= FileMax
    /\ forgotten \in SUBSET Signals
    /\ positions \in [Signals -> Nat]
    /\ orders \in [Signals -> Nat]
    /\ refused \in SUBSET Signals
    /\ torn \in [Signals -> 0 .. MaxRestarts]
    /\ unguarded \in SUBSET Signals
    /\ restarts \in 0 .. MaxRestarts

Init ==
    /\ market \in {"closed", "auction", "open"}
    /\ copies = 0
    /\ task = [e \in EAs |-> Idle]
    /\ cursor = [e \in EAs |-> 0]
    /\ drained = [e \in EAs |-> 0]
    /\ queue = [e \in EAs |-> <<>>]
    /\ lock = [s \in Signals |-> NoEA]
    /\ memory = [e \in EAs |-> <<>>]
    /\ file = <<>>
    /\ forgotten = {}
    /\ positions = [s \in Signals |-> 0]
    /\ orders = [s \in Signals |-> 0]
    /\ refused = {}
    /\ torn = [s \in Signals |-> 0]
    /\ unguarded = {}
    /\ restarts = 0

-----------------------------------------------------------------------------
(* The record of executed signals and the closed-market queue.             *)

\* IsSignalDuplicate.
Known(e, s) == s \in Elements(memory[e])

Newest(q, n) == SubSeq(q, IF Len(q) > n THEN Len(q) - n + 1 ELSE 1, Len(q))

\* SaveExecutedSignal: the circular buffer, and its newest part on disk; a file
\* that cannot be opened or copied stays as it was.
Remember(e, s) ==
    /\ memory' = [memory EXCEPT ![e] = Newest(Append(@, s), MemoryMax)]
    /\ forgotten' = forgotten \cup (Elements(memory[e]) \ Elements(memory'[e]))
    /\ \/ file' = Newest(memory'[e], FileMax)
       \/ FileFails /\ file' = file

\* OnInit tests whether the state file can be written by opening it to write,
\* which empties it, and LoadExecutedSignals then reads what is left: nothing,
\* or the whole file if it could be opened for reading only.
Recall(e) ==
    /\ \/ file' = <<>>
       \/ FileFails /\ file' = file
    /\ \/ memory' = [memory EXCEPT ![e] = file']
       \/ FileFails /\ memory' = [memory EXCEPT ![e] = <<>>]

\* Slip: the oldest item stays when the queue is full.
PushBeyond(q, s, retry) ==
    Append(q, [signal |-> s, retry |-> retry, retries |-> 0, age |-> 0])

\* CSignalQueue.Push: a full queue drops (and acknowledges) its oldest item.
Push(q, s, retry) ==
    Append(Newest(q, QueueMax - 1),
           [signal |-> s, retry |-> retry, retries |-> 0, age |-> 0])

\* CSignalQueue.Remove.
Without(q, i) == SubSeq(q, 1, i - 1) \o SubSeq(q, i + 1, Len(q))

\* CSignalQueue.IncrDrainRetries: the item stays in its place.
Again(q, i) == [q EXCEPT ![i].retries = @ + 1]

Goto(e, step) == task' = [task EXCEPT ![e].step = step]
Begin(e, s, from, step) ==
    task' = [task EXCEPT ![e] = [step |-> step, signal |-> s, from |-> from]]

\* ExecuteCommand's first checks: the record, then the lock file, which a
\* retry from the queue (from_queue) leaves out.
FirstStep(e, s, from) ==
    IF Known(e, s) THEN "true" ELSE IF from = "retry" THEN "gate" ELSE "lock"

-----------------------------------------------------------------------------
(* A copy arrives: PollForSignals and ProcessWSSignalsArray.               *)

Between(e) == task[e].step = "idle" /\ cursor[e] = 0

\* The WebSocket path looks at the record first; a poll does only when it
\* executes.  Either way a closed market sends the signal to the queue.
Receive(e, s, via) ==
    LET skip == via = "ws" /\ Known(e, s)
        queued == ~skip /\ market = "closed"
    IN  /\ Between(e)
        /\ copies < MaxCopies
        /\ copies' = copies + 1
        /\ Begin(e, s, "message", IF skip \/ queued THEN "ackOnly"
                                  ELSE FirstStep(e, s, "message"))
        /\ queue' = [queue EXCEPT ![e] = IF queued THEN Push(@, s, FALSE) ELSE @]
        /\ UNCHANGED <<broker, disk, history, loop, record>>

\* POST-CHECK: a failure on a closed market is queued for a retry; any other
\* outcome, a refusal too, is recorded once it is acknowledged.
AfterMessage(e) ==
    LET t == task[e]
        queued == t.step = "closed" \/ (t.step = "false" /\ market = "closed")
    IN  /\ t.step \in {"true", "false", "closed"} /\ t.from = "message"
        /\ queue' = [queue EXCEPT ![e] = IF queued THEN Push(@, t.signal, TRUE) ELSE @]
        /\ Goto(e, IF queued THEN "ackOnly" ELSE "ackSave")
        /\ UNCHANGED <<broker, disk, history, copies, loop, record>>

\* The acknowledgement goes out; it is recorded only if it got through.
Acknowledge(e) ==
    LET t == task[e]
    IN  /\ t.step \in {"ackSave", "ackOnly"}
        /\ \/ t.step = "ackSave" /\ Remember(e, t.signal)
           \/ UNCHANGED <<record, file>>
        /\ task' = [task EXCEPT ![e] = Idle]
        /\ UNCHANGED <<broker, lock, history, copies, loop, queue>>

-----------------------------------------------------------------------------
(* ExecuteCommand.                                                         *)

\* The lock file is looked for in one call and written in another.
CheckLock(e) ==
    /\ task[e].step = "lock"
    /\ Goto(e, IF lock[task[e].signal] = NoEA THEN "create" ELSE "true")
    /\ UNCHANGED <<broker, disk, history, copies, loop, queue, record>>

\* An instance goes on when the file cannot be opened.
CreateLock(e) ==
    LET s == task[e].signal
    IN  /\ task[e].step = "create"
        /\ \/ /\ lock' = [lock EXCEPT ![s] = e]
              /\ unguarded' = IF lock[s] = NoEA THEN unguarded ELSE unguarded \cup {s}
           \/ /\ lock' = lock
              /\ unguarded' = unguarded \cup {s}
        /\ Goto(e, "gate")
        /\ UNCHANGED <<broker, file, torn, restarts, copies, loop, queue, record>>

\* EA off, outside active hours, account protection, account filter,
\* pyramiding and position limits, invalid stops or volume, no margin.
Refuse(e) ==
    /\ task[e].step = "gate"
    /\ refused' = refused \cup {task[e].signal}
    /\ Goto(e, "false")
    /\ UNCHANGED <<market, positions, orders, disk, history, copies, loop, queue, record>>

\* Slip: no look at the broker before the order.
SkipScan(e) ==
    /\ task[e].step = "gate"
    /\ Goto(e, "order")
    /\ UNCHANGED <<broker, disk, history, copies, loop, queue, record>>

\* IsDuplicateSignalPosition: a position or order with this id is success.
Scan(e) ==
    /\ task[e].step = "gate"
    /\ Goto(e, IF positions[task[e].signal] > 0 THEN "save" ELSE "order")
    /\ UNCHANGED <<broker, disk, history, copies, loop, queue, record>>

\* The broker fills, rejects, or answers 10018 outside the open session.
PlaceOrder(e) ==
    LET s == task[e].signal
    IN  /\ task[e].step = "order"
        /\ \/ /\ market = "open"
              /\ orders' = [orders EXCEPT ![s] = @ + 1]
              /\ positions' = [positions EXCEPT ![s] = @ + 1]
              /\ Goto(e, "save")
              /\ UNCHANGED refused
           \/ /\ market = "open"
              /\ refused' = refused \cup {s}
              /\ Goto(e, "false")
              /\ UNCHANGED <<orders, positions>>
           \/ /\ market # "open"
              /\ Goto(e, "closed")
              /\ UNCHANGED <<orders, positions, refused>>
        /\ UNCHANGED <<market, disk, history, copies, loop, queue, record>>

\* Slip: the lock file is cleaned up with the command.
SaveAndUnlock(e) ==
    /\ task[e].step = "save"
    /\ lock' = [lock EXCEPT ![task[e].signal] = NoEA]
    /\ Remember(e, task[e].signal)
    /\ Goto(e, "true")
    /\ UNCHANGED <<broker, history, copies, loop, queue>>

\* A successful command is recorded before ExecuteCommand returns.
SaveExecuted(e) ==
    /\ task[e].step = "save"
    /\ Remember(e, task[e].signal)
    /\ Goto(e, "true")
    /\ UNCHANGED <<broker, lock, history, copies, loop, queue>>

-----------------------------------------------------------------------------
(* DrainSignalQueue, on the timer.                                         *)

StartDrain(e) ==
    /\ Between(e) /\ queue[e] # <<>>
    /\ cursor' = [cursor EXCEPT ![e] = 1]
    /\ drained' = [drained EXCEPT ![e] = 0]
    /\ UNCHANGED <<broker, disk, history, copies, task, queue, record>>

\* Slip: queued signals never expire.
NeverExpired(item) == FALSE

Expired(item) == item.age > MaxQueueTime

\* One turn of the loop: expire, pass over, or execute the item at the cursor.
DrainItem(e) ==
    LET i == cursor[e]
        item == queue[e][i]
    IN  /\ task[e].step = "idle" /\ i \in DOMAIN queue[e] /\ drained[e] < PerTick
        /\ \/ /\ Expired(item)
              /\ queue' = [queue EXCEPT ![e] = Without(@, i)]
              /\ UNCHANGED <<task, cursor>>
           \/ /\ ~Expired(item) /\ market = "closed"
              /\ cursor' = [cursor EXCEPT ![e] = i + 1]
              /\ UNCHANGED <<task, queue>>
           \/ /\ ~Expired(item) /\ market # "closed"
              /\ LET from == IF item.retry THEN "retry" ELSE "first"
                 IN  Begin(e, item.signal, from, FirstStep(e, item.signal, from))
              /\ UNCHANGED <<cursor, queue>>
        /\ UNCHANGED <<broker, disk, history, copies, drained, record>>

\* What became of the item: 10018 keeps it for another tick until its retries
\* are used up, anything else removes it, and success is recorded once more.
AfterDrain(e) ==
    LET t == task[e]
        i == cursor[e]
        again == t.step = "closed" /\ queue[e][i].retries + 1 < MaxRetries
    IN  /\ t.step \in {"true", "false", "closed"} /\ t.from # "message"
        /\ queue' = [queue EXCEPT ![e] = IF again THEN Again(@, i) ELSE Without(@, i)]
        /\ cursor' = [cursor EXCEPT ![e] = IF again THEN i + 1 ELSE i]
        /\ drained' = [drained EXCEPT ![e] = @ + 1]
        /\ IF t.step = "true" THEN Remember(e, t.signal) ELSE UNCHANGED <<record, file>>
        /\ task' = [task EXCEPT ![e] = Idle]
        /\ UNCHANGED <<broker, lock, history, copies>>

EndDrain(e) ==
    /\ task[e].step = "idle" /\ cursor[e] > 0
    /\ cursor[e] > Len(queue[e]) \/ drained[e] >= PerTick
    /\ cursor' = [cursor EXCEPT ![e] = 0]
    /\ drained' = [drained EXCEPT ![e] = 0]
    /\ UNCHANGED <<broker, disk, history, copies, task, queue, record>>

-----------------------------------------------------------------------------
(* Restarts and the world outside.                                         *)

\* The EA crashes or is reloaded: OnInit tests the state file, deletes every lock
\* file, its own or not, and loads its record; the queue and the running command
\* are gone.
Restart(e) ==
    /\ restarts < MaxRestarts
    /\ restarts' = restarts + 1
    /\ torn' = [s \in Signals |-> IF task[e].step = "save" /\ task[e].signal = s
                                  THEN torn[s] + 1 ELSE torn[s]]
    /\ lock' = [s \in Signals |-> NoEA]
    /\ Recall(e)
    /\ task' = [task EXCEPT ![e] = Idle]
    /\ cursor' = [cursor EXCEPT ![e] = 0]
    /\ drained' = [drained EXCEPT ![e] = 0]
    /\ queue' = [queue EXCEPT ![e] = <<>>]
    /\ UNCHANGED <<broker, forgotten, unguarded, copies>>

\* Sessions open through an auction, in which the broker answers 10018.
MarketMoves ==
    /\ market' = CASE market = "closed" -> "auction"
                   [] market = "auction" -> "open"
                   [] market = "open" -> "closed"
    /\ UNCHANGED <<positions, orders, refused, disk, history, copies, task, loop,
                   queue, record>>

\* A position ends: stop, target, another signal or the trader.
ClosePosition(s) ==
    /\ positions[s] > 0
    /\ positions' = [positions EXCEPT ![s] = @ - 1]
    /\ UNCHANGED <<market, orders, refused, disk, history, copies, task, loop,
                   queue, record>>

\* TimeCurrent moves on.
Tick ==
    /\ queue' = [e \in EAs |-> [i \in DOMAIN queue[e] |->
                    [queue[e][i] EXCEPT !.age = IF @ > MaxQueueTime THEN @ ELSE @ + 1]]]
    /\ UNCHANGED <<broker, disk, history, copies, task, loop, record>>

Execute(e) ==
    CheckLock(e) \/ CreateLock(e) \/ Refuse(e) \/ Scan(e) \/ PlaceOrder(e) \/ SaveExecuted(e)
Drain(e) == StartDrain(e) \/ DrainItem(e) \/ AfterDrain(e) \/ EndDrain(e)
Work(e) == Execute(e) \/ AfterMessage(e) \/ Acknowledge(e) \/ Drain(e)

Next ==
    \/ \E e \in EAs :
          \/ \E s \in Signals, via \in {"poll", "ws"} : Receive(e, s, via)
          \/ Work(e)
          \/ Restart(e)
    \/ \E s \in Signals : ClosePosition(s)
    \/ MarketMoves
    \/ Tick

Spec == Init /\ [][Next]_vars

\* The timer keeps firing, and quotes keep TimeCurrent moving.
LiveSpec == Spec /\ (\A e \in EAs : WF_vars(Work(e))) /\ WF_vars(Tick)

-----------------------------------------------------------------------------
(* Properties.                                                             *)

\* An instance alone on its license.
Alone == \A d, e \in EAs : d = e

\* "Idempotent execution": an instance alone on its license orders a signal once
\* between two of its starts, unless newer signals pushed it out of the record,
\* and never adds to a position of that signal, not even after a restart: however
\* many copies arrive by whatever transport, queued, retried or not.
OrdersExplained ==
    Alone => \A s \in Signals : /\ positions[s] <= 1
                                /\ s \notin forgotten => orders[s] <= 1 + restarts

\* "Restore executed signals from previous session": an instance alone on its
\* license orders a signal again only if a restart hit between an order and its
\* record, or newer signals pushed it out of the record.
RecordSurvivesRestart ==
    Alone => \A s \in Signals : s \notin forgotten => orders[s] <= 1 + torn[s]

\* Instances that share a license: without restarts, a signal is ordered at
\* most once unless two instances both passed the lock-file check before
\* either wrote the file, or one could not write it.
LockExcludes ==
    restarts = 0 => \A s \in Signals : s \notin unguarded => orders[s] <= 1

\* "Catches the residual cross-instance race that Layers 1-3 may miss": the
\* broker never holds two positions of one signal.
OnePositionPerSignal == \A s \in Signals : positions[s] <= 1

\* "Keep in queue and retry next OnTimer tick rather than silently dropping":
\* a signal on record as executed was ordered or finally refused.
RecordedWasHandled ==
    \A e \in EAs, s \in Signals : Known(e, s) => orders[s] > 0 \/ s \in refused

\* No signal waits for ever: what is in an EA's queue leaves it, executed,
\* refused, out of retries or expired, whatever the market does.
Queued(e, s) == \E item \in Elements(queue[e]) : item.signal = s
QueueSettles == \A e \in EAs, s \in Signals : Queued(e, s) ~> ~Queued(e, s)
=============================================================================
