--------------------------- MODULE WebhookIngest ---------------------------
(***************************************************************************)
(* From an alert to the server's answer: the two webhook services, the     *)
(* record that makes them idempotent, and the sender that repeats a        *)
(* request it heard no answer to.  An alert goes either to the queue path  *)
(* (routes/webhook.py, deliver_signal), which stores a row for the EAs, or *)
(* to the execute path (pinetunnel_webhook.py), which records a row and    *)
(* trades on the server's own MT5 terminal.                                *)
(*                                                                         *)
(* Each worker process runs one event loop.  The execute path never gives  *)
(* it up between its duplicate check and its answer; the queue path saves  *)
(* on a thread.  All requests fall inside one dedup window: SignalQueue    *)
(* has the window, and what becomes of a row after it was stored.          *)
(***************************************************************************)
EXTENDS FiniteSets, Integers

CONSTANTS Alerts,       \* alerts a strategy raises, each to one license
          QueueAlerts,  \* those sent to the queue path
          Requests,     \* HTTP requests, the sender's retries included
          Workers,      \* worker processes a deployment may run
          Backends,     \* the backends a deployment may choose
          NoAlert, NoWorker, NoRequest,  \* not an alert, a worker, a request
          MaxCrashes    \* bound on crashes of workers

ASSUME AlertAssumption == QueueAlerts \subseteq Alerts /\ NoAlert \notin Alerts

ASSUME NothingAssumption == NoWorker \notin Workers /\ NoRequest \notin Requests

ASSUME CrashAssumption == MaxCrashes \in Nat

VARIABLES
    running,     \* the deployment's worker processes (settings.server.workers)
    backend,     \* its database
    alert,       \* alert[r]: what request r carries
    worker,      \* worker[r]: the process that handles it
    step,        \* step[r]: where its handler stands
    result,      \* result[r]: what the handler answers
    heard,       \* requests whose answer reached the sender
    stored,      \* requests whose save_signal inserted a row
    busy,        \* busy[w]: the execute-path request that holds w's event loop
    acted,       \* requests that changed something at MT5
    unrecorded,  \* execute-path requests that went on without a record
    raced,       \* requests whose INSERT came after a twin's they had not seen
    crashes      \* crashes of workers so far

deployment == <<running, backend>>
request == <<alert, worker>>
history == <<unrecorded, raced>>
vars == <<deployment, request, step, result, heard, stored, busy, acted, history, crashes>>

\* Answers after which the sender has no reason to try again.
Final == {"queued", "duplicate", "executed", "failed", "rejected"}
Answers == Final \cup {"none", "unavailable", "error"}
Saving == {"saving", "checked"}
Steps == Saving \cup {"unsent", "arrived", "recorded", "replying", "done", "dead"}

OnQueuePath(r) == alert[r] \in QueueAlerts

TypeOK ==
    /\ running \in SUBSET Workers /\ backend \in Backends
    /\ alert \in [Requests -> Alerts \cup {NoAlert}]
    /\ worker \in [Requests -> Workers \cup {NoWorker}]
    /\ step \in [Requests -> Steps]
    /\ \A r \in Requests :
          step[r] # "unsent" => alert[r] \in Alerts /\ worker[r] \in running
    /\ result \in [Requests -> Answers]
    /\ heard \in SUBSET Requests
    /\ stored \in SUBSET Requests
    /\ busy \in [Workers -> Requests \cup {NoRequest}]
    /\ \A r \in Requests, w \in Workers :
          busy[w] = r => /\ worker[r] = w
                         /\ step[r] \in Saving \cup {"recorded", "replying"}
    /\ acted \in SUBSET Requests
    /\ unrecorded \in SUBSET Requests
    /\ raced \in SUBSET Requests
    /\ crashes \in 0 .. MaxCrashes

Init ==
    /\ running \in (SUBSET Workers) \ {{}}
    /\ backend \in Backends
    /\ alert = [r \in Requests |-> NoAlert]
    /\ worker = [r \in Requests |-> NoWorker]
    /\ step = [r \in Requests |-> "unsent"]
    /\ result = [r \in Requests |-> "none"]
    /\ heard = {} /\ stored = {} /\ acted = {} /\ unrecorded = {} /\ raced = {}
    /\ busy = [w \in Workers |-> NoRequest]
    /\ crashes = 0

-----------------------------------------------------------------------------
(* The sender: a first request for an alert, a double POST, or a retry     *)
(* unless a final answer to an earlier one was heard.                      *)

Settled(a) == \E r \in heard : alert[r] = a /\ result[r] \in Final

Send(r, a, w) ==
    /\ step[r] = "unsent"
    /\ w \in running
    /\ ~Settled(a)
    /\ step' = [step EXCEPT ![r] = "arrived"]
    /\ alert' = [alert EXCEPT ![r] = a]
    /\ worker' = [worker EXCEPT ![r] = w]
    /\ UNCHANGED <<deployment, result, heard, stored, busy, acted, history, crashes>>

-----------------------------------------------------------------------------
(* Both paths up to the row.                                               *)

LoopFree(r) == busy[worker[r]] \in {NoRequest, r}

\* The handler's outcome is known; the answer is still to be written.
Answer(r, a) ==
    /\ step' = [step EXCEPT ![r] = "replying"]
    /\ result' = [result EXCEPT ![r] = a]

\* Syntax, license, secret, symbol or the validator: nothing is stored.
Refuse(r) ==
    /\ step[r] = "arrived" /\ LoopFree(r)
    /\ Answer(r, "rejected")
    /\ UNCHANGED <<deployment, request, heard, stored, busy, acted, history, crashes>>

\* The queue path hands save_signal to a thread, the execute path calls it
\* on the event loop.
StartSave(r) ==
    /\ step[r] = "arrived" /\ LoopFree(r)
    /\ step' = [step EXCEPT ![r] = "saving"]
    /\ busy' = IF OnQueuePath(r) THEN busy ELSE [busy EXCEPT ![worker[r]] = r]
    /\ UNCHANGED <<deployment, request, result, heard, stored, acted, history, crashes>>

\* Slip: server_received_at is stamped on the execute path too.
DigestStamped(r) == <<alert[r], r>>

\* What signal_hash digests: the payload, and on the queue path also the time
\* deliver_signal received it, different for every request.
Digest(r) == IF OnQueuePath(r) THEN <<alert[r], r>> ELSE <<alert[r]>>

Twin(r) == \E q \in stored : q # r /\ Digest(q) = Digest(r)

\* SQLite: _write_lock lets one thread of the process check and insert.
LockFree(r) ==
    backend = "sqlite" =>
        \A q \in Requests : worker[q] = worker[r] => step[q] # "checked"

CheckTwin(r) ==
    /\ step[r] = "saving" /\ LockFree(r)
    /\ IF Twin(r)
       THEN Answer(r, "duplicate")
       ELSE step' = [step EXCEPT ![r] = "checked"] /\ UNCHANGED result
    /\ UNCHANGED <<deployment, request, heard, stored, busy, acted, history, crashes>>

Insert(r) ==
    /\ step[r] = "checked"
    /\ stored' = stored \cup {r}
    /\ raced' = IF Twin(r) THEN raced \cup {r} ELSE raced
    /\ IF OnQueuePath(r)
       THEN Answer(r, "queued")
       ELSE step' = [step EXCEPT ![r] = "recorded"] /\ UNCHANGED result
    /\ UNCHANGED <<deployment, request, heard, busy, acted, unrecorded, crashes>>

\* Slip: a failure after the insert, such as the notification's, is answered
\* like one of the save.
SaveFailsLate(r) ==
    /\ step[r] \in Saving \cup {"replying"}
    /\ OnQueuePath(r)
    /\ Answer(r, "unavailable")
    /\ UNCHANGED <<deployment, request, heard, stored, busy, acted, history, crashes>>

\* The database fails: "Please retry" for a RuntimeError, else a plain 500.
SaveFails(r) ==
    /\ step[r] \in Saving
    /\ OnQueuePath(r)
    /\ \E a \in {"unavailable", "error"} : Answer(r, a)
    /\ UNCHANGED <<deployment, request, heard, stored, busy, acted, history, crashes>>

-----------------------------------------------------------------------------
(* The execute path after its row.                                         *)

\* The record could not be written: proceed without it ("fail-open").
FailOpen(r) ==
    /\ step[r] \in Saving
    /\ ~OnQueuePath(r)
    /\ step' = [step EXCEPT ![r] = "recorded"]
    /\ unrecorded' = unrecorded \cup {r}
    /\ UNCHANGED <<deployment, request, result, heard, stored, busy, acted, raced, crashes>>

\* No MT5 manager (500), or it cannot connect (503).
Mt5Missing(r) ==
    /\ step[r] = "recorded"
    /\ \E a \in {"error", "unavailable"} : Answer(r, a)
    /\ UNCHANGED <<deployment, request, heard, stored, busy, acted, history, crashes>>

\* execute_pinetunnel_command; one of several steps at MT5 may have worked
\* even if the command failed or raised.
Execute(r) ==
    /\ step[r] = "recorded"
    /\ \/ /\ acted' = acted \cup {r}
          /\ \E a \in {"executed", "failed", "error"} : Answer(r, a)
       \/ /\ UNCHANGED acted
          /\ \E a \in {"failed", "error"} : Answer(r, a)
    /\ UNCHANGED <<deployment, request, heard, stored, busy, history, crashes>>

-----------------------------------------------------------------------------
(* Answers and crashes.                                                    *)

\* Slip: the execute path's answer leaves the event loop held.
ReplyHolding(r) ==
    /\ step[r] = "replying" /\ LoopFree(r)
    /\ step' = [step EXCEPT ![r] = "done"]
    /\ heard' \in {heard, heard \cup {r}}
    /\ UNCHANGED <<deployment, request, result, stored, busy, acted, history, crashes>>

\* The answer is sent; whether the sender still waits for it is open.
Reply(r) ==
    /\ step[r] = "replying" /\ LoopFree(r)
    /\ step' = [step EXCEPT ![r] = "done"]
    /\ heard' \in {heard, heard \cup {r}}
    /\ busy' = [busy EXCEPT ![worker[r]] = NoRequest]
    /\ UNCHANGED <<deployment, request, result, stored, acted, history, crashes>>

Live == {r \in Requests : step[r] \notin {"unsent", "done", "dead"}}

\* Slip: the worker comes back with its event loop still held.
CrashHolding(w) ==
    /\ w \in running /\ crashes < MaxCrashes
    /\ step' = [r \in Requests |-> IF r \in Live /\ worker[r] = w THEN "dead" ELSE step[r]]
    /\ crashes' = crashes + 1
    /\ UNCHANGED <<deployment, request, result, heard, stored, busy, acted, history>>

\* A worker dies with its requests and is restarted; the table stays.
Crash(w) ==
    /\ w \in running /\ crashes < MaxCrashes
    /\ step' = [r \in Requests |-> IF r \in Live /\ worker[r] = w THEN "dead" ELSE step[r]]
    /\ busy' = [busy EXCEPT ![w] = NoRequest]
    /\ crashes' = crashes + 1
    /\ UNCHANGED <<deployment, request, result, heard, stored, acted, history>>

Handle(r) ==
    \/ Refuse(r) \/ StartSave(r) \/ CheckTwin(r) \/ Insert(r) \/ SaveFails(r)
    \/ FailOpen(r) \/ Mt5Missing(r) \/ Execute(r) \/ Reply(r)

Next ==
    \/ \E r \in Requests, a \in Alerts, w \in Workers : Send(r, a, w)
    \/ \E r \in Requests : Handle(r)
    \/ \E w \in Workers : Crash(w)

\* The event loop and its threads run whatever can run.
Spec == Init /\ [][Next]_vars /\ \A r \in Requests : WF_vars(Handle(r))

-----------------------------------------------------------------------------
(* Properties.                                                             *)

Twins(q, r) == q # r /\ ~OnQueuePath(q) /\ ~OnQueuePath(r) /\ alert[q] = alert[r]

\* A double POST or a retry never trades twice: two requests of an
\* execute-path alert both act at MT5 only if the record of one could not be
\* written or its INSERT raced with the other's; and such a race takes two
\* worker processes, whatever the backend.
ExecutedOnce ==
    /\ \A q, r \in acted : Twins(q, r) => {q, r} \cap (unrecorded \cup raced) # {}
    /\ \A w \in Workers : running = {w} => raced = {}

\* The queue path's answers are kept: "queued" is said of a stored row only,
\* and after "Please retry", a 500 or a rejection the request left none
\* behind, so that repeating it is safe.
AnswersKept ==
    \A r \in Requests : (OnQueuePath(r) /\ step[r] = "done") =>
        (r \in stored <=> result[r] = "queued")

\* No request waits forever on the event loop, on the write lock or on the
\* execute-path request that holds the loop, unless its worker dies.
Answered == \A r \in Requests : step[r] = "arrived" ~> step[r] \in {"done", "dead"}

\* "A retry within the dedup window is detected and rejected; the EA never
\* sees it": one row for all the requests of an alert.
RetryIsRecognised ==
    \A q, r \in stored : (OnQueuePath(q) /\ alert[q] = alert[r]) => q = r

\* "Duplicate signal - already executed": when a request is answered so, one
\* of the alert's acted at MT5, or is still at it.
AlreadyExecuted ==
    \A r \in Requests :
        (result[r] = "duplicate" /\ ~OnQueuePath(r)) =>
            \E q \in acted \cup Live : q # r /\ alert[q] = alert[r]
=============================================================================
