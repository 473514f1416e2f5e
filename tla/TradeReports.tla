---------------------------- MODULE TradeReports ----------------------------
(***************************************************************************)
(* What the EA reports of its trades (routes/trade_analytics.py): the      *)
(* trades table, the symbol's performance computed from it, and the signal *)
(* log, which the acknowledgements write too.  A handler runs without an   *)
(* await, so that workers, not requests, interleave.  One symbol; every    *)
(* attempt to trade has a signal of its own.  Numbers summed over trades   *)
(* are the sets of trades they are summed over.  The statistics a worker   *)
(* keeps in memory (license_stats, trade_reports) are left out.            *)
(***************************************************************************)
EXTENDS FiniteSets, Integers

CONSTANTS RpWorkers,   \* worker processes
          Trades,      \* attempts to trade, each for a signal
          Failing,     \* those the broker refuses
          RpRestarts,  \* bound on restarts of workers
          NoTrade

ASSUME TradeReportsAssumption == Failing \subseteq Trades /\ NoTrade \notin Trades /\ RpRestarts \in Nat

VARIABLES
    rpDb,      \* the database
    went,      \* went[t]: how far the EA is with t
    handling,  \* handling[w]: the trade whose report w handles, and where it stands
    logged,    \* rows of table trades
    tally,     \* tally[w]: trades the row w is about to write was computed from
    perf,      \* trades the symbol_performance row was computed from
    signalLog,  \* signalLog[t]: execution_status and acknowledged of t's signal
    restarts,  \* restarts of workers so far
    reported,  \* trades whose outcome reached the signal log (history)
    overtaken, \* a performance row went over a later one (history)
    unsummed   \* a write after a trade's row failed, or its worker died (history)

rpTables == <<logged, perf, signalLog>>
rpHistory == <<reported, overtaken, unsummed>>
rpVars == <<rpDb, went, handling, rpTables, tally, restarts, rpHistory>>

NoReport == [trade |-> NoTrade, step |-> "idle"]
Successes == logged \ Failing

RpTypeOK ==
    /\ rpDb \in {"sqlite", "postgres"}
    /\ went \in [Trades -> {"new", "queued", "reporting", "executed", "acked"}]
    /\ handling \in [RpWorkers -> [trade : Trades \cup {NoTrade},
                                   step : {"idle", "insert", "log", "perform", "upsert"}]]
    /\ logged \subseteq Trades /\ perf \subseteq Successes
    /\ tally \in [RpWorkers -> SUBSET Successes]
    /\ signalLog \in [Trades -> [status : {"pending", "delivered", "executed", "failed"},
                                 acknowledged : BOOLEAN]]
    /\ restarts \in 0..RpRestarts
    /\ reported \subseteq Trades /\ overtaken \in BOOLEAN /\ unsummed \in BOOLEAN

RpInit ==
    /\ rpDb \in {"sqlite", "postgres"}
    /\ went = [t \in Trades |-> "new"] /\ handling = [w \in RpWorkers |-> NoReport]
    /\ logged = {} /\ tally = [w \in RpWorkers |-> {}] /\ perf = {}
    /\ signalLog = [t \in Trades |-> [status |-> "pending", acknowledged |-> FALSE]]
    /\ restarts = 0 /\ reported = {} /\ overtaken = FALSE /\ unsummed = FALSE

-----------------------------------------------------------------------------
(* The EA.  It trades, reports, waits at most three seconds, and           *)
(* acknowledges the signal at the end of the tick; a signal whose market   *)
(* is closed it acknowledges first and trades later.                       *)

\* acknowledge_signal_log: what an acknowledgement leaves in the log.
Acknowledged(entry) ==
    IF entry.acknowledged THEN entry ELSE [status |-> "delivered", acknowledged |-> TRUE]

Acknowledge(t) ==
    /\ went[t] \in {"new", "executed"}
    /\ went' = [went EXCEPT ![t] = IF @ = "new" THEN "queued" ELSE "acked"]
    /\ signalLog' = [signalLog EXCEPT ![t] = Acknowledged(@)]
    /\ UNCHANGED <<rpDb, handling, logged, perf, tally, restarts, rpHistory>>

\* Without an answer in time, or with the report lost, the EA goes on.
GoOn(t) ==
    /\ went[t] = "reporting"
    /\ went' = [went EXCEPT ![t] = IF signalLog[t].acknowledged THEN "acked" ELSE "executed"]
    /\ UNCHANGED <<rpDb, handling, rpTables, tally, restarts, rpHistory>>

ReportLost(t) ==
    /\ went[t] \in {"new", "queued"} /\ went' = [went EXCEPT ![t] = "reporting"]
    /\ UNCHANGED <<rpDb, handling, rpTables, tally, restarts, rpHistory>>

\* The report reaches an idle worker.
Report(w, t) ==
    /\ went[t] \in {"new", "queued"} /\ handling[w] = NoReport
    /\ went' = [went EXCEPT ![t] = "reporting"]
    /\ handling' = [handling EXCEPT ![w] = [trade |-> t, step |-> "insert"]]
    /\ UNCHANGED <<rpDb, rpTables, tally, restarts, rpHistory>>

-----------------------------------------------------------------------------
(* log_trade, a transaction after the other; the failure of one is caught. *)

GoTo(w, s) == handling' = [handling EXCEPT ![w] = IF s = "idle" THEN NoReport ELSE [@ EXCEPT !.step = s]]

InsertTrade(w) ==
    /\ handling[w].step = "insert"
    /\ \/ logged' = logged \cup {handling[w].trade} /\ GoTo(w, "log")
       \/ logged' = logged /\ GoTo(w, "idle")
    /\ UNCHANGED <<rpDb, went, perf, signalLog, tally, restarts, rpHistory>>

\* _update_signal_execution, whatever the log says so far.
LogOutcome(w) ==
    LET t == handling[w].trade IN
    /\ handling[w].step = "log"
    /\ \/ /\ signalLog' = [signalLog EXCEPT ![t].status = IF t \in Failing THEN "failed" ELSE "executed"]
          /\ reported' = reported \cup {t}
       \/ UNCHANGED <<signalLog, reported>>
    /\ GoTo(w, IF t \in Failing THEN "idle" ELSE "perform")
    /\ UNCHANGED <<rpDb, went, logged, perf, tally, restarts, overtaken, unsummed>>

\* Mutant: the trades before this one.
SummedBefore(w) == Successes \ {handling[w].trade}

\* The trades the SELECT of the upsert sums.
Summed(w) == Successes

\* One statement: under SQLite's lock in one step.  PostgreSQL sums first and
\* writes the sums over what another worker may have written since.
Perform(w) ==
    /\ handling[w].step = "perform"
    /\ IF rpDb = "sqlite" THEN perf' = Summed(w) /\ tally' = tally /\ GoTo(w, "idle")
       ELSE perf' = perf /\ tally' = [tally EXCEPT ![w] = Summed(w)] /\ GoTo(w, "upsert")
    /\ UNCHANGED <<rpDb, went, logged, signalLog, restarts, rpHistory>>

Upsert(w) ==
    /\ handling[w].step = "upsert"
    /\ perf' = tally[w] /\ tally' = [tally EXCEPT ![w] = {}]
    /\ overtaken' = (overtaken \/ ~(perf \subseteq tally[w]))
    /\ GoTo(w, "idle")
    /\ UNCHANGED <<rpDb, went, logged, signalLog, restarts, reported, unsummed>>

PerformFails(w) ==
    /\ handling[w].step \in {"perform", "upsert"} /\ unsummed' = TRUE
    /\ tally' = [tally EXCEPT ![w] = {}] /\ GoTo(w, "idle")
    /\ UNCHANGED <<rpDb, went, rpTables, restarts, reported, overtaken>>

\* A worker dies with the report it handles.
RestartWorker(w) ==
    /\ restarts < RpRestarts /\ restarts' = restarts + 1
    /\ handling' = [handling EXCEPT ![w] = NoReport]
    /\ unsummed' = (unsummed \/ handling[w].step \in {"log", "perform", "upsert"})
    /\ tally' = [tally EXCEPT ![w] = {}]
    /\ UNCHANGED <<rpDb, went, rpTables, reported, overtaken>>

RpNext ==
    \/ \E t \in Trades : Acknowledge(t) \/ GoOn(t) \/ ReportLost(t)
    \/ \E w \in RpWorkers, t \in Trades : Report(w, t)
    \/ \E w \in RpWorkers :
          \/ InsertTrade(w) \/ LogOutcome(w) \/ Perform(w) \/ Upsert(w) \/ PerformFails(w)
          \/ RestartWorker(w)

RpSpec == RpInit /\ [][RpNext]_rpVars

-----------------------------------------------------------------------------
(* Properties.                                                             *)

\* Whatever workers log trades at once, once they are through the performance
\* row sums every successful trade in the table, on SQLite always, on
\* PostgreSQL unless one upsert overtook another; where a worker failed between
\* the row and the sum, nothing is promised until the next trade
\* (_update_symbol_performance).
PerformanceAdds ==
    (\A w \in RpWorkers : handling[w].step \notin {"log", "perform", "upsert"})
        => unsummed \/ overtaken \/ perf = Successes

\* "Update signal execution status in permanent log after EA reports result":
\* the outcome an EA reported stays the signal's status.  The acknowledgement
\* that follows the report writes 'delivered' over it.
OutcomeKept ==
    \A t \in reported : signalLog[t].status = IF t \in Failing THEN "failed" ELSE "executed"
=============================================================================
