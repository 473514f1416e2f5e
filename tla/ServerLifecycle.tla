-------------------------- MODULE ServerLifecycle --------------------------
(***************************************************************************)
(* A worker's life (config/lifespan.py): what starts in which order, what  *)
(* runs in the background, and how it is taken down; with the Telegram     *)
(* bot's start and stop (services/telegram/bot.py), which the boot task,   *)
(* the watchdog and the shutdown call, each await letting the others run,  *)
(* and the rate limiter's cleanup timer, which is a thread.                *)
(***************************************************************************)
EXTENDS FiniteSets, Integers, Sequences, SequencesExt

CONSTANTS MaxApps  \* bound on the bot's Application objects

ASSUME ServerLifecycleAssumption == MaxApps \in Nat \ {0}

VARIABLES
    phase,    \* where lifespan stands
    tasks,    \* background tasks that are alive
    open,     \* resources in use: redis, db, mt5
    app,      \* the bot's self.app, 0 for None
    started,  \* the bot's _started
    polling,  \* applications whose updater polls Telegram
    built,    \* applications built so far
    pc,       \* pc[p]: where the boot task's, or the watchdog's, start() is
    timer,    \* the rate limiter's cleanup timer
    overlapped, \* two starts have run at once (history)
    inflight    \* a start was under way when shutdown began, or a cleanup when
                \* the timer was stopped (history)

bot == <<app, started, polling, built, pc, overlapped>>
slVars == <<phase, tasks, open, bot, timer, inflight>>

Starters == {"boot", "watchdog"}

Boot == <<"services", "redis", "database", "mt5", "tasks", "bot", "reliability", "up">>

\* The shutdown's steps, in its order.
Shutdown == <<"monitor", "botstop", "connections", "subscriber", "sockets", "cancel",
              "timer", "redisclose", "dbclose", "mt5stop", "sessions", "stopped">>

Background == {"cleanup", "wscleanup", "tracker", "prune"}

SlTypeOK ==
    /\ phase \in ToSet(Boot) \cup ToSet(Shutdown) \cup {"failed"}
    /\ tasks \subseteq Background \cup {"subscriber", "watchdog", "monitor"}
    /\ open \subseteq {"redis", "db", "mt5"}
    /\ app \in 0..built /\ started \in BOOLEAN /\ polling \subseteq 1..built /\ built \in 0..MaxApps
    /\ pc \in [Starters -> {"idle", "begin", "clean", "init", "poll", "mark", "fail"}]
    /\ timer \in {"none", "armed", "running"}
    /\ overlapped \in BOOLEAN /\ inflight \in BOOLEAN

SlInit ==
    /\ phase = "services" /\ tasks = {} /\ open = {} /\ app = 0 /\ started = FALSE
    /\ polling = {} /\ built = 0 /\ pc = [p \in Starters |-> "idle"] /\ timer = "none"
    /\ overlapped = FALSE /\ inflight = FALSE

Follows(s, step) == s[(CHOOSE i \in DOMAIN s : s[i] = step) + 1]

-----------------------------------------------------------------------------
\* Startup.  Missing secrets, or a database that cannot be set up, end it; an
\* error of Redis or MT5 is logged and the server goes on without.
BootFails ==
    /\ phase \in {"services", "database"} /\ phase' = "failed"
    /\ UNCHANGED <<tasks, open, bot, timer, inflight>>

BootServices ==
    /\ phase = "services" /\ phase' = "redis"
    /\ UNCHANGED <<tasks, open, bot, timer, inflight>>

BootRedis ==
    /\ phase = "redis" /\ phase' = "database"
    /\ \/ UNCHANGED <<tasks, open>>                          \* no URL, or no answer to the ping
       \/ open' = open \cup {"redis"} /\ tasks' = tasks      \* the subscription failed
       \/ open' = open \cup {"redis"} /\ tasks' = tasks \cup {"subscriber"}
    /\ UNCHANGED <<bot, timer, inflight>>

BootDatabase ==
    /\ phase = "database" /\ phase' = "mt5" /\ open' = open \cup {"db"}
    /\ UNCHANGED <<tasks, bot, timer, inflight>>

\* MT5 is given 5 s on a thread; what the thread does later is not waited for.
BootMt5 ==
    /\ phase = "mt5" /\ phase' = "tasks"
    /\ open' \in {open, open \cup {"mt5"}}
    /\ UNCHANGED <<tasks, bot, timer, inflight>>

BootTasks ==
    /\ phase = "tasks" /\ phase' = "bot" /\ tasks' = tasks \cup Background /\ timer' = "armed"
    /\ UNCHANGED <<open, bot, inflight>>

\* With a token and an administrator: start() as a task of its own, and the watchdog.
BootBot ==
    /\ phase = "bot" /\ phase' = "reliability"
    /\ \/ UNCHANGED <<tasks, pc>>
       \/ tasks' = tasks \cup {"watchdog"} /\ pc' = [pc EXCEPT !["boot"] = "begin"]
    /\ UNCHANGED <<open, app, started, polling, built, overlapped, timer, inflight>>

BootReliability ==
    /\ phase = "reliability" /\ phase' = "up" /\ tasks' = tasks \cup {"monitor"}
    /\ UNCHANGED <<open, bot, timer, inflight>>

-----------------------------------------------------------------------------
\* start().  A previous application is taken down first, whatever that raises;
\* an updater that is not running raises when it is stopped.
Step(p, from, to) == pc[p] = from /\ pc' = [pc EXCEPT ![p] = to]

Rest == <<phase, tasks, open, timer, inflight>>

Overlaps(p) == overlapped' = (overlapped \/ \E q \in Starters \ {p} : pc[q] # "idle")

\* Mutant: the previous application is dropped and goes on polling.
TakeDownKept == polling

TakeDown == IF started THEN polling \ {app} ELSE polling

Begin(p) ==
    /\ Step(p, "begin", IF app = 0 THEN "init" ELSE "clean") /\ Overlaps(p)
    /\ IF app = 0 THEN built < MaxApps /\ built' = built + 1 /\ app' = built' ELSE UNCHANGED <<built, app>>
    /\ UNCHANGED <<started, polling, Rest>>

Clean(p) ==
    /\ Step(p, "clean", "init") /\ Overlaps(p) /\ polling' = TakeDown
    /\ started' = FALSE /\ built < MaxApps /\ built' = built + 1 /\ app' = built'
    /\ UNCHANGED Rest

\* initialize, delete_webhook, the commands, app.start: the last error counts.
Initialize(p) ==
    /\ \/ app # 0 /\ Step(p, "init", "poll")
       \/ Step(p, "init", "fail")
    /\ Overlaps(p) /\ UNCHANGED <<app, started, polling, built, Rest>>

\* start_polling, of what self.app is by now: an updater polls once.
StartPolling(p) ==
    /\ \/ app # 0 /\ app \notin polling /\ Step(p, "poll", "mark") /\ polling' = polling \cup {app}
       \/ Step(p, "poll", "fail") /\ UNCHANGED polling
    /\ Overlaps(p) /\ UNCHANGED <<app, started, built, Rest>>

Started(p) ==
    /\ Step(p, "mark", "idle") /\ started' = TRUE
    /\ UNCHANGED <<app, polling, built, overlapped, Rest>>

\* The failed application is stopped and forgotten; its updater is not asked.
StartFails(p) ==
    /\ Step(p, "fail", "idle") /\ started' = FALSE /\ app' = 0
    /\ UNCHANGED <<polling, built, overlapped, Rest>>

-----------------------------------------------------------------------------
\* The watchdog, every 60 s and more: a bot that has not started is started; one
\* whose updater has ended is stopped, which raises, and started.
Watch ==
    /\ "watchdog" \in tasks /\ pc["watchdog"] = "idle"
    /\ ~started \/ app = 0 \/ app \notin polling
    /\ pc' = [pc EXCEPT !["watchdog"] = "begin"]
    /\ UNCHANGED <<app, started, polling, built, overlapped, Rest>>

UpdaterEnds ==
    /\ app \in polling /\ started /\ polling' = polling \ {app}
    /\ UNCHANGED <<app, started, built, pc, overlapped, Rest>>

\* The timer thread: a run arms the next one, also when it was stopped meanwhile.
TimerFires ==
    /\ timer = "armed" /\ timer' = "running" /\ UNCHANGED <<phase, tasks, open, bot, inflight>>

TimerRearms ==
    /\ timer = "running" /\ timer' = "armed" /\ UNCHANGED <<phase, tasks, open, bot, inflight>>

-----------------------------------------------------------------------------
\* Mutant: the watchdog is cancelled with the other tasks, after the bot.
CancelledFirstNone == {}

CancelledFirst == {"watchdog"}

\* Cancelling reaches the watchdog at its await, before anything else happens:
\* also inside start(), whose handlers do not catch it.
Cancel(T) ==
    /\ tasks' = tasks \ T
    /\ pc' = IF "watchdog" \in T THEN [pc EXCEPT !["watchdog"] = "idle"] ELSE pc

BeginShutdown ==
    /\ phase = "up" /\ phase' = Head(Shutdown) /\ Cancel(CancelledFirst)
    /\ inflight' = (\E p \in Starters : pc[p] # "idle")
    /\ UNCHANGED <<open, app, started, polling, built, overlapped, timer>>

Advance(step) == phase = step /\ phase' = Follows(Shutdown, step)

StopMonitor ==
    /\ Advance("monitor") /\ tasks' = tasks \ {"monitor"}
    /\ UNCHANGED <<open, bot, timer, inflight>>

\* stop(): nothing unless _started; it raises where the updater has ended.
StopBot ==
    /\ Advance("botstop")
    /\ IF started /\ app \in polling THEN polling' = polling \ {app} /\ started' = FALSE
       ELSE UNCHANGED <<polling, started>>
    /\ UNCHANGED <<tasks, open, app, built, pc, overlapped, timer, inflight>>

CancelSubscriber ==
    /\ Advance("subscriber") /\ tasks' = tasks \ {"subscriber"}
    /\ UNCHANGED <<open, bot, timer, inflight>>

CancelBackground ==
    /\ Advance("cancel") /\ Cancel(Background \cup {"watchdog"})
    /\ UNCHANGED <<open, app, started, polling, built, overlapped, timer, inflight>>

StoppedTimer == IF timer = "armed" THEN "none" ELSE timer

StopTimer ==
    /\ Advance("timer") /\ timer' = StoppedTimer /\ inflight' = (inflight \/ timer = "running")
    /\ UNCHANGED <<tasks, open, bot>>

ClosedBy == [redisclose |-> "redis", dbclose |-> "db", mt5stop |-> "mt5"]

CloseResource(step) ==
    /\ Advance(step) /\ open' = open \ {ClosedBy[step]}
    /\ UNCHANGED <<tasks, bot, timer, inflight>>

\* Closing the connection manager, the sockets and the session store.
CloseQuietly(step) ==
    /\ Advance(step) /\ UNCHANGED <<tasks, open, bot, timer, inflight>>

SlNext ==
    \/ BootFails \/ BootServices \/ BootRedis \/ BootDatabase \/ BootMt5 \/ BootTasks \/ BootBot
    \/ BootReliability
    \/ \E p \in Starters : \/ Begin(p) \/ Clean(p) \/ Initialize(p) \/ StartPolling(p)
                           \/ Started(p) \/ StartFails(p)
    \/ Watch \/ UpdaterEnds \/ TimerFires \/ TimerRearms
    \/ BeginShutdown \/ StopMonitor \/ StopBot \/ CancelSubscriber
    \/ CancelBackground \/ StopTimer
    \/ \E step \in DOMAIN ClosedBy : CloseResource(step)
    \/ \E step \in {"connections", "sockets", "sessions"} : CloseQuietly(step)

SlSpec == SlInit /\ [][SlNext]_slVars

-----------------------------------------------------------------------------
\* Telegram refuses two that poll at once ("409 Conflict from dual polling"):
\* there are two only where the boot's start() and the watchdog's ran at once.
OnePoller == ~overlapped => Cardinality(polling) <= 1

\* Once the server has stopped the bot polls no more and no cleanup is due,
\* unless a start, or a cleanup, was under way when it was told to stop.
QuietAfterShutdown ==
    phase = "stopped" /\ ~inflight /\ ~overlapped => polling = {} /\ timer = "none"

=============================================================================
