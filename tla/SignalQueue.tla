---------------------------- MODULE SignalQueue ----------------------------
(***************************************************************************)
(* The signal_queue table: the persistent hand-over point between the      *)
(* webhook handlers, which save signals, and the EAs, which poll, receive  *)
(* pushes and acknowledge.  Both backends are modelled: SQLite, whose      *)
(* operations run one at a time under _write_lock, and PostgreSQL, whose   *)
(* duplicate check and insert see only committed rows.                     *)
(*                                                                         *)
(* The table's columns are functions of the signal id.  The clock is       *)
(* relative: age[s] is how long ago created_at was and claimAge[s] how     *)
(* long ago claimed_at was, each saturating beyond every threshold the     *)
(* code compares it with.                                                  *)
(***************************************************************************)
EXTENDS Integers, FiniteSets

CONSTANTS Signals,      \* signal ids (uuid4()[:8], a UNIQUE column)
          Licenses,     \* license keys
          Contents,     \* payloads, up to what signal_hash can tell apart
          EAs,          \* EA instances
          LicenseOf,    \* LicenseOf[e]: the license EA e runs with
          Backends,     \* the backends a deployment may choose
          DedupWindow,  \* duplicate_window_minutes = 5
          StaleClaim,   \* stale_claim_minutes = 5
          MaxAge,       \* max_age_minutes = 60
          StaleHours,   \* stale_hours = 24
          DaysToKeep,   \* days_to_keep = 7
          AgeCap,       \* ages of rows saturate here
          MaxFaults     \* bound on crashes and lost HTTP exchanges

ASSUME LicenseAssumption == LicenseOf \in [EAs -> Licenses]

ASSUME BackendAssumption == Backends \subseteq {"sqlite", "postgres"}

ASSUME WindowAssumption ==
    /\ DedupWindow \in Nat /\ StaleClaim \in Nat /\ MaxAge \in Nat
    /\ StaleHours \in Nat /\ DaysToKeep \in Nat /\ AgeCap \in Nat
    /\ DedupWindow < AgeCap /\ StaleClaim < AgeCap /\ MaxAge < AgeCap
    /\ StaleHours < AgeCap /\ DaysToKeep < AgeCap

ASSUME FaultAssumption == MaxFaults \in Nat

NotHeld == -1
Ages == 0 .. AgeCap
ClaimAges == 0 .. (StaleClaim + 1)

VARIABLES
    backend,    \* the backend this deployment runs on; never changes
    status,     \* the row's status, and what is left of it afterwards
    license,    \* license_key
    content,    \* what signal_hash digests
    age,        \* time since created_at
    claimAge,   \* time since claimed_at, 0 unless the row is claimed
    log,        \* the signal's row of ws_signal_log
    toLog,      \* acknowledged signals whose log update is still to run
    toPush,     \* saved signals whose WebSocket push is still to run
    held,       \* held[e][s]: time since e was handed s by a poll
    pushed,     \* pushed[e]: signals e received over its WebSocket
    alive,      \* the EA is running
    faults      \* crashes and lost exchanges so far

columns == <<status, license, content, age, claimAge>>
server == <<log, toLog, toPush>>
eaState == <<held, pushed, alive>>
vars == <<backend, columns, server, eaState, faults>>

\* A PostgreSQL transaction has checked for duplicates and not committed: it
\* is "inserting" a pending or "recording" an acknowledged row.  Rows that are
\* "aborted", "purged" or "removed" are not in the table.
InFlight == {"inserting", "recording"}
Statuses == InFlight \cup {"absent", "aborted", "pending", "claimed",
                           "acknowledged", "purged", "removed"}
Table == {s \in Signals : status[s] \in {"pending", "claimed", "acknowledged"}}
Open == {s \in Signals : status[s] \in {"pending", "claimed"}}
Copies(e) == pushed[e] \cup {s \in Signals : held[e][s] # NotHeld}
OfLicense(l) == {s \in Signals : license[s] = l}

TypeOK ==
    /\ backend \in Backends
    /\ status \in [Signals -> Statuses]
    /\ license \in [Signals -> Licenses]
    /\ content \in [Signals -> Contents]
    /\ age \in [Signals -> Ages]
    /\ claimAge \in [Signals -> ClaimAges]
    /\ log \in [Signals -> {"none", "logged", "delivered"}]
    /\ toLog \in SUBSET Signals
    /\ toPush \in SUBSET Signals
    /\ held \in [EAs -> [Signals -> ClaimAges \cup {NotHeld}]]
    /\ pushed \in [EAs -> SUBSET Signals]
    /\ alive \in [EAs -> BOOLEAN]
    /\ faults \in 0 .. MaxFaults

Init ==
    /\ backend \in Backends
    /\ status = [s \in Signals |-> "absent"]
    /\ license \in [Signals -> Licenses]
    /\ content \in [Signals -> Contents]
    /\ age = [s \in Signals |-> 0]
    /\ claimAge = [s \in Signals |-> 0]
    /\ log = [s \in Signals |-> "none"]
    /\ toLog = {}
    /\ toPush = {}
    /\ held = [e \in EAs |-> [s \in Signals |-> NotHeld]]
    /\ pushed = [e \in EAs |-> {}]
    /\ alive = [e \in EAs |-> TRUE]
    /\ faults = 0

-----------------------------------------------------------------------------
(* save_signal.                                                            *)

\* Slip: the window's last minute is left out.
IsDuplicateStrictly(s) ==
    \E r \in Table : /\ license[r] = license[s]
                     /\ content[r] = content[s]
                     /\ age[r] < DedupWindow

\* A row with this license and hash is still inside the dedup window.
IsDuplicate(s) ==
    \E r \in Table : /\ license[r] = license[s]
                     /\ content[r] = content[s]
                     /\ age[r] <= DedupWindow

\* ws_signal_log is written beside the row; a failure is only a warning.
LogPermanent(s) ==
    \E l \in {"none", "logged"} : log' = [log EXCEPT ![s] = l]

\* A saved queue-path signal is still to be pushed by deliver_signal.
AwaitPush(s, t) ==
    toPush' = IF t = "pending" THEN toPush \cup {s} ELSE toPush

\* SQLite: check, insert and commit under _write_lock.
SaveSignal(s, t) ==
    /\ backend = "sqlite"
    /\ status[s] = "absent"
    /\ ~IsDuplicate(s)
    /\ status' = [status EXCEPT ![s] = t]
    /\ LogPermanent(s)
    /\ AwaitPush(s, t)
    /\ UNCHANGED <<backend, license, content, age, claimAge, toLog, eaState, faults>>

\* PostgreSQL: INSERT ... WHERE NOT EXISTS sees the committed rows only.
BeginSave(s, t) ==
    /\ backend = "postgres"
    /\ status[s] = "absent"
    /\ ~IsDuplicate(s)
    /\ status' = [status EXCEPT ![s] = IF t = "pending" THEN "inserting" ELSE "recording"]
    /\ LogPermanent(s)
    /\ UNCHANGED <<backend, license, content, age, claimAge, toLog, toPush, eaState, faults>>

CommitSave(s) ==
    /\ status[s] \in InFlight
    /\ LET t == IF status[s] = "inserting" THEN "pending" ELSE "acknowledged"
       IN  /\ status' = [status EXCEPT ![s] = t]
           /\ AwaitPush(s, t)
    /\ UNCHANGED <<backend, license, content, age, claimAge, log, toLog, eaState, faults>>

\* The transaction fails; its log row is committed by a session of its own.
AbortSave(s) ==
    /\ status[s] \in InFlight
    /\ status' = [status EXCEPT ![s] = "aborted"]
    /\ UNCHANGED <<backend, license, content, age, claimAge, server, eaState, faults>>

-----------------------------------------------------------------------------
(* get_pending_signals_async.                                              *)

\* Slip: settled rows are claimed again.
ClaimableAgain(l) ==
    {s \in OfLicense(l) : status[s] \in {"pending", "acknowledged"} /\ age[s] <= MaxAge}

\* Pending rows of the license inside the age window.
Claimable(l) ==
    {s \in OfLicense(l) : status[s] = "pending" /\ age[s] <= MaxAge}

\* Slip: any claimed row counts as stale.
StaleClaimsAtOnce(l) == {s \in OfLicense(l) : status[s] = "claimed"}

\* Rows claimed so long ago that their EA is taken for dead.
StaleClaims(l) ==
    {s \in OfLicense(l) : status[s] = "claimed" /\ claimAge[s] > StaleClaim}

\* Slip: SQLite's way on both backends.
ReturnedPending(l) == Claimable(l)

\* Both backends re-claim stale rows, but only PostgreSQL's one statement
\* returns them: SQLite's first UPDATE has no RETURNING.
Returned(l) ==
    IF backend = "postgres" THEN Claimable(l) \cup StaleClaims(l) ELSE Claimable(l)

Claim(l) ==
    LET reclaimed == Claimable(l) \cup StaleClaims(l)
    IN  /\ status' = [s \in Signals |-> IF s \in reclaimed THEN "claimed" ELSE status[s]]
        /\ claimAge' = [s \in Signals |-> IF s \in reclaimed THEN 0 ELSE claimAge[s]]

\* An EA polls and receives the answer.
Poll(e) ==
    /\ alive[e]
    /\ Claim(LicenseOf[e])
    /\ held' = [held EXCEPT ![e] =
                   [s \in Signals |-> IF s \in Returned(LicenseOf[e]) THEN 0 ELSE @[s]]]
    /\ UNCHANGED <<backend, license, content, age, server, pushed, alive, faults>>

\* The claim is committed but the HTTP answer is lost.
PollLost(e) ==
    /\ alive[e]
    /\ faults < MaxFaults
    /\ Claim(LicenseOf[e])
    /\ faults' = faults + 1
    /\ UNCHANGED <<backend, license, content, age, server, held, pushed, alive>>

-----------------------------------------------------------------------------
(* The WebSocket push of deliver_signal, and acknowledgements.             *)

\* Whoever is connected receives a copy; the row stays as it is.
Push(s, R) ==
    /\ s \in toPush
    /\ \A e \in R : alive[e] /\ LicenseOf[e] = license[s]
    /\ toPush' = toPush \ {s}
    /\ pushed' = [e \in EAs |-> IF e \in R THEN pushed[e] \cup {s} ELSE pushed[e]]
    /\ UNCHANGED <<backend, columns, log, toLog, held, alive, faults>>

\* The EA is done with S and forgets its copies.
Release(e, S) ==
    /\ held' = [held EXCEPT ![e] = [s \in Signals |-> IF s \in S THEN NotHeld ELSE @[s]]]
    /\ pushed' = [pushed EXCEPT ![e] = @ \ S]

\* Slip: the synchronous acknowledge_signal, which knows pending rows only.
AcknowledgePending(l, S) ==
    status' = [s \in Signals |->
                  IF s \in S \cap OfLicense(l) /\ status[s] = "pending"
                  THEN "acknowledged" ELSE status[s]]

\* Slip: the log's execution_status is written to the queue row.
AcknowledgeDelivered(l, S) ==
    status' = [s \in Signals |->
                  IF s \in S \cap Open \cap OfLicense(l) THEN "delivered" ELSE status[s]]

\* acknowledge_signal_async and acknowledge_signals_batch_async.
Acknowledge(l, S) ==
    status' = [s \in Signals |->
                  IF s \in S \cap Open \cap OfLicense(l) THEN "acknowledged" ELSE status[s]]

\* A claim's age stops mattering with the claim.
SettledClaimAge ==
    claimAge' = [s \in Signals |-> IF status'[s] = "claimed" THEN claimAge[s] ELSE 0]

\* Over HTTP only the ids the UPDATE returned go to the permanent log.
AckHttp(e, S) ==
    /\ alive[e] /\ S # {} /\ S \subseteq Copies(e)
    /\ Acknowledge(LicenseOf[e], S)
    /\ SettledClaimAge
    /\ toLog' = toLog \cup (S \cap Open \cap OfLicense(LicenseOf[e]))
    /\ Release(e, S)
    /\ UNCHANGED <<backend, license, content, age, log, toPush, alive, faults>>

\* Over the WebSocket every id of the message does.
AckWs(e, S) ==
    /\ alive[e] /\ S # {} /\ S \subseteq Copies(e)
    /\ Acknowledge(LicenseOf[e], S)
    /\ SettledClaimAge
    /\ toLog' = toLog \cup S
    /\ Release(e, S)
    /\ UNCHANGED <<backend, license, content, age, log, toPush, alive, faults>>

\* The acknowledgement never reaches the server; the EA does not repeat it.
AckLost(e, S) ==
    /\ alive[e] /\ S # {} /\ S \subseteq Copies(e)
    /\ faults < MaxFaults
    /\ Release(e, S)
    /\ faults' = faults + 1
    /\ UNCHANGED <<backend, columns, server, alive>>

\* acknowledge_signal_log, a transaction of its own on a worker thread.
AckLog(s) ==
    /\ s \in toLog
    /\ log' = [log EXCEPT ![s] = IF @ = "logged" THEN "delivered" ELSE @]
    /\ toLog' = toLog \ {s}
    /\ UNCHANGED <<backend, columns, toPush, eaState, faults>>

-----------------------------------------------------------------------------
(* Retention, license removal, crashes and time.                           *)

Delete(S, mark) ==
    /\ status' = [s \in Signals |-> IF s \in S THEN mark ELSE status[s]]
    /\ age' = [s \in Signals |-> IF s \in S THEN 0 ELSE age[s]]
    /\ SettledClaimAge
    /\ UNCHANGED <<backend, license, content, server, eaState, faults>>

\* cleanup_old_signals runs two DELETEs, each its own transaction.
Expired == {s \in Table : /\ status[s] = "acknowledged"
                          /\ age[s] > DaysToKeep}
Orphaned == {s \in Open : age[s] > StaleHours}

CleanupAcknowledged == Expired # {} /\ Delete(Expired, "purged")
CleanupStale == Orphaned # {} /\ Delete(Orphaned, "purged")

\* delete_signals_by_license, when an admin deletes a license.
DeleteByLicense(l) ==
    /\ OfLicense(l) \cap Table # {}
    /\ Delete(OfLicense(l) \cap Table, "removed")

CrashEA(e) ==
    /\ alive[e]
    /\ faults < MaxFaults
    /\ alive' = [alive EXCEPT ![e] = FALSE]
    /\ Release(e, Signals)
    /\ faults' = faults + 1
    /\ UNCHANGED <<backend, columns, server>>

\* The server process restarts: inserts roll back, work it had not done yet
\* (pushes, log updates) is forgotten; the table stays.
RestartServer ==
    /\ faults < MaxFaults
    /\ status' = [s \in Signals |-> IF status[s] \in InFlight THEN "aborted" ELSE status[s]]
    /\ toPush' = {}
    /\ toLog' = {}
    /\ faults' = faults + 1
    /\ UNCHANGED <<backend, license, content, age, claimAge, log, eaState>>

RestartEA(e) ==
    /\ ~alive[e]
    /\ alive' = [alive EXCEPT ![e] = TRUE]
    /\ UNCHANGED <<backend, columns, server, held, pushed, faults>>

Older(a, cap) == IF a < cap THEN a + 1 ELSE a

\* One minute passes; statement_timeout (30 s) ends any insert before that.
Tick ==
    /\ \A s \in Signals : status[s] \notin InFlight
    /\ age' = [s \in Signals |-> IF s \in Table THEN Older(age[s], AgeCap) ELSE age[s]]
    /\ claimAge' = [s \in Signals |-> IF status[s] = "claimed"
                                      THEN Older(claimAge[s], StaleClaim + 1)
                                      ELSE claimAge[s]]
    /\ held' = [e \in EAs |-> [s \in Signals |->
                   IF held[e][s] = NotHeld THEN NotHeld
                   ELSE Older(held[e][s], StaleClaim + 1)]]
    /\ UNCHANGED <<backend, status, license, content, server, pushed,
                   alive, faults>>

Next ==
    \/ \E s \in Signals, t \in {"pending", "acknowledged"} :
          SaveSignal(s, t) \/ BeginSave(s, t)
    \/ \E s \in Signals : CommitSave(s) \/ AbortSave(s) \/ AckLog(s)
    \/ \E e \in EAs : Poll(e) \/ PollLost(e) \/ CrashEA(e) \/ RestartEA(e)
    \/ \E s \in Signals, R \in SUBSET EAs : Push(s, R)
    \/ \E e \in EAs, S \in SUBSET Signals : AckHttp(e, S) \/ AckWs(e, S) \/ AckLost(e, S)
    \/ CleanupAcknowledged
    \/ CleanupStale
    \/ \E l \in Licenses : DeleteByLicense(l)
    \/ RestartServer
    \/ Tick

Spec == Init /\ [][Next]_vars

\* EAs poll every second and restart within a minute: none passes while an EA
\* is down or rows wait that its next poll would return.
NothingToPoll == \A e \in EAs : alive[e] /\ Returned(LicenseOf[e]) = {}
TimelyPolls == Tick => NothingToPoll

Fairness ==
    /\ \A e \in EAs : WF_vars(Poll(e)) /\ WF_vars(RestartEA(e))
    /\ \A s \in Signals : WF_vars(CommitSave(s))
    /\ WF_vars(Tick /\ NothingToPoll)

TimelySpec == Init /\ [][Next /\ TimelyPolls]_vars /\ Fairness

-----------------------------------------------------------------------------
(* Properties.                                                             *)

\* save_signal promises one row per content and window: under SQLite's write
\* lock no two rows of a license with the same hash are both inside the
\* dedup window, however saves, polls, deletions and time interleave.
NoTwinInWindow ==
    backend = "sqlite" =>
        \A r, s \in Table :
            (r # s /\ license[r] = license[s] /\ content[r] = content[s])
                => (age[r] > DedupWindow \/ age[s] > DedupWindow)

\* A claim is exclusive until it goes stale: two EAs sharing a license never
\* both hold a copy of one signal that a poll handed them within
\* stale_claim_minutes, whatever was lost, crashed or re-claimed before.
OneFreshHolder ==
    \A s \in Signals, e, f \in EAs :
        (held[e][s] \in 0 .. StaleClaim /\ held[f][s] \in 0 .. StaleClaim) => e = f

\* The permanent log says "delivered" only of a signal whose queue row was
\* acknowledged (or is gone): the log is updated after the acknowledgement,
\* in another transaction, and over the WebSocket for every id of the message.
DeliveredLogHonest ==
    \A s \in Signals :
        log[s] = "delivered" => status[s] \in {"acknowledged", "purged", "removed"}

\* The table implements the promise of SignalLifecycle.
PhaseOf(s) ==
    CASE status[s] \in {"pending", "claimed"} -> "open"
      [] status[s] = "acknowledged" -> "settled"
      [] status[s] \in {"purged", "removed"} -> "dropped"
      [] OTHER -> "unsent"

Lifecycle == INSTANCE SignalLifecycle
    WITH Receivers <- EAs,
         phase <- [s \in Signals |-> PhaseOf(s)],
         copies <- [e \in EAs |-> Copies(e)]

ImplementsLifecycle == Lifecycle!Spec

\* "Also re-claims stale 'claimed' signals whose EA has crashed": a signal
\* inside the age window that no EA holds, pending or claimed by an EA that
\* lost it, reaches an EA again unless it is settled or its license deleted.
Due(s) == status[s] \in {"pending", "claimed"} /\ age[s] <= MaxAge
HeldBySome(s) == \E e \in EAs : s \in Copies(e)

Redelivered ==
    \A s \in Signals :
        Due(s) ~> (HeldBySome(s) \/ status[s] \in {"acknowledged", "removed"})
=============================================================================
