# PineTunnel: a formal model

PineTunnel carries trading alerts from a charting service to MetaTrader. A
webhook server stores each alert as a signal; Expert Advisors (EAs) fetch or
receive it, place orders and acknowledge. Money is lost when a signal is executed
twice and when it is silently dropped, and both depend on the order in which
independent processes take small steps. This directory models that path and the
server and terminal around it in TLA+, checks it with TLC on small instances, and
proves the central invariants with TLAPS for every instance.

Paths are relative to the repository's `src/apps`; `server/` stands for
`src/apps/server/` and `EA` for `src/apps/ea/mt5/PineTunnel_EA.mq5`.

## 1. Inventory

| Component | State | Operations | What is hard | Module |
|---|---|---|---|---|
| Persistent queue (`server/db/sqlite.py`, `postgres.py`, `base.py`) | `signal_queue` rows, `ws_signal_log` | save with duplicate check, claim and stale re-claim, acknowledge, delete, clean up | concurrent savers and pollers, two backends, rows that outlive their EA, thresholds | SignalQueue |
| Webhook ingest (`server/routes/webhook.py`, `webhook/pipeline.py`, `webhook/pinetunnel_webhook.py`) | the dedup row | validate, save, push or trade, answer | retries, double POSTs, several workers, failure between record and trade | WebhookIngest |
| Parser, validator (`server/webhook/parser.py`, `validator.py`) | one message | take parameters, validate, write as a dictionary | explicit and legacy parameters in any order | PineParser |
| Long-poll (`server/routes/signals.py`, `ws/connection.py`) | notification queue per license | poll, wait, notify, prune | lost wake-ups, pruning under a waiter, full queues | LongPoll |
| WebSocket server (`server/ws/handler.py`) | connections, activity and rate tables | admit, register, push, Redis fan-out, idle timeout | lists changed across awaits, silent peers, racing handshakes | WsFanout |
| PTWebSocket DLL (`ea/dll/PTWebSocket`) | state, receive buffer, ring of frames | exports on the EA's thread, callbacks on WinHTTP's | flags that are atomic one by one, overflow, a chain of receives that sends interrupt | WsClient |
| EA, receiving side (`EA`) | closed-market queue, executed record, lock files | receive, queue, lock, scan, order, record, acknowledge, drain | several instances, crash between order and record, closed and auction markets | EaReceiver |
| EA update (`server/routes/ea_versions.py`, `ptwebsocket.cpp`) | three files, a script, a cached download | check, download, swap, restart | a stop between any two renames, locked files | EaUpdate |
| EA telemetry (`EA`, `PTWebSocketClient.mqh`, `server/ws/handler.py`) | snapshots, history, busy DLL | timer, send, save on a thread | frames refused while one is being sent, reconnects | Telemetry |
| Trade reports (`server/routes/trade_analytics.py`, `db/postgres.py`) | trades, symbol performance, signal log | report, log, sum, acknowledge | several workers, two writers of one status | TradeReports |
| Trader's dashboard (`server/services/telegram/mixins/user_dashboard.py`) | the page shown, stored positions, connections | list, confirm, close one or all, disconnect | confirmations that are stale when pressed, connections that come and go between sends | Dashboard |
| Server executor (`server/webhook/executor.py`, `services/mt5_service.py`, `risk_manager.py`) | the broker's positions and orders | open, close, partial close, cancel, modify, combined | the broker and other processes move between two calls | Trading |
| Licenses (`server/services/client_manager.py`, Telegram dialogs) | a JSON file, a cache per worker, dialogs | add, edit, expire, toggle, delete, verify | stale keys in dialogs, torn file, several writers, orphaned signals | Licenses |
| Rate limiter (`server/services/rate_limiter.py`) | two windows, a bucket, a block | ask, clean up, reset | three clocks that must agree | RateLimits |
| Middleware (`server/middleware/`) | buckets per endpoint | addresses, bucket, form of the request | the order, forgetful cleanup | HttpChain |
| Failed attempts (`server/middleware/security.py`, `routes/auth.py`) | Redis set and block key, memory | record, count, block | workers interleave between any two Redis calls | FailedAttempts |
| Server lifecycle (`server/config/lifespan.py`, `services/telegram/bot.py`) | tasks, resources, the bot | boot, watch, shut down | two starters of one bot, timers that re-arm themselves | ServerLifecycle |
| Sessions, replay store, metrics, encryption, CLI, MT4 EA, EA order operations | — | — | see section 7 | — |

How they interact: a request passes the middleware and the limiter; the webhook
handler parses it, saves a signal on a worker thread, pushes it to whatever
connections its license has and notifies long-polls. The table is the only state
that survives a server restart and the only thing claims are made on; a push
carries no claim. EAs acknowledge over either transport, report what they traded,
and send telemetry back. What correct means:

- queue: one row per content and window; a claim is exclusive while fresh; a
  settled signal stays settled; an unsettled one is delivered again when its EA is
  lost; the log agrees with the table;
- ingest: an answer says what happened; repeating a request does not repeat the
  trade; every request is answered; a signal says what its message says;
- transports: whoever is connected gets a push, a waiter is woken, a silent peer
  is dropped, a message is whole and in order, telemetry does not crowd out
  signals, and a duplicate or late copy is harmless;
- EA: an order per signal; a record only of what was handled; queues drain; an
  update never leaves a terminal without a working EA;
- administration: limits hold, failures block, changes survive a restart, a
  deleted license stays deleted, one bot polls, and nothing runs after shutdown.

## 2. Modules

```
SignalLifecycle          what the queue promises (abstract)
  ^ implements
SignalQueue              the table, its clients' copies, time, faults
  MCSignalQueue          instances for TLC
  SignalQueueProofs      invariants        <- SignalQueueRefinement
WebhookIngest            MCWebhookIngest
EaReceiver               MCEaReceiver, EaReceiverProofs

MCDelivery    = SignalQueue | WsFanout | LongPoll | Licenses        <- DeliveryProofs
MCTerminal    = EaReceiver | WsClient | Telemetry | EaUpdate        <- TerminalProofs
MCOperations  = WebhookIngest | RateLimits | HttpChain | FailedAttempts | PineParser
                | Trading | Dashboard | TradeReports | ServerLifecycle
                                         TradingProofs              <- OperationsProofs
ListLemmas               what the proofs need to know of lists
```

The last three put modules side by side: `part`, chosen at the start, says which
one moves, and the others keep their initial state. That is a sum, not a product:
these components share no variable, and what one hands to another is, on the
receiving side, an input that may come at any time. What WebhookIngest `stored` is
a `SaveSignal` of SignalQueue. What SignalQueue hands out or pushes is a copy that
`Receive` of EaReceiver takes in, any number of times, which is weaker than
anything SignalQueue promises. What Telemetry stores are the rows that `Store` of
Dashboard lets appear. A module's fairness is stated for its own part.

**SignalQueue.** One function per column, indexed by signal id. Time is relative:
`age` and `claimAge` say how long ago `created_at` and `claimed_at` were and stop
growing past the largest threshold, so the model is finite without a bound on
time. On SQLite `SaveSignal` checks and inserts in one step (`_write_lock`), on
PostgreSQL `BeginSave` and `CommitSave` are apart. `Poll` is
`get_pending_signals_async` with the answer delivered, `PollLost` the same with it
lost. `Acknowledge` is the UPDATE; the log entry follows in `AckLog`, from
`toLog`. `Push` delivers to any set of live EAs, before or after anything else.
Crashes of EAs and server, lost answers and lost acknowledgements are actions,
bounded by `MaxFaults`. An EA acknowledges only what it was given, by a poll or a
push: the code accepts any id of the license, and of the EA's own code this holds
(`EA:7148`, `EA:6338`). SQLite is modelled for a single worker process, the
default: `_write_lock` belongs to the process. WebhookIngest has several.

**WebhookIngest.** A request is sent, validated, saved, maybe executed and
answered; `step` says where its handler stands. `busy[w]` is the execute-path
request that holds worker `w`'s event loop: its handler never awaits anything that
gives the loop up. The queue path saves on a thread, so only its first and last
step need the loop. `Digest` is the heart: the hash covers everything but
`queued_at`, `timestamp` and `signal_id`, hence also the `server_received_at` that
`deliver_signal` has stamped, and not so on the execute path.

**WsFanout.** Code between two awaits is one step. `walk[t]` is a push under way:
the index into the live list, what it has found dead, and, as history, whom it
owes the message (`owed`) and whether another task removed a connection meanwhile
(`clean`). Peers close, break or fall silent; sends to a silent one succeed.
`Lacking` is the list without some of its members, given by what it is (the same
members in the same order) and not by how it is computed.

**LongPoll.** Queues are numbered as they are created, so that a waiter on a queue
that pruning replaced is told apart from one on the current queue.

**WsClient.** The frames arrive as parts; `OnReadComplete`, `OnSendComplete`,
`OnError` and `OnClose` interleave with the exports at every access to the shared
flags. The ring's operations are atomic (its mutex), the flags one by one. Messages
are numbered as the server sends them, so that order and wholeness can be said of
the ring. A close frame is a read of nothing: it ends the connection and queues what
the accumulator holds, the start of a message whose rest will not come
(`QueueRest`); `Begun` is the word for such a frame, `Whole` for a complete one.

**EaReceiver.** `task[e]` is the program counter of an instance inside
`ExecuteCommand` and its caller; MQL5 runs an EA on one thread, so an instance
interleaves with the others, the broker and the market, never with itself.
Sessions go closed, auction (open by the calendar, broker answers 10018), open.
`Restart` is OnInit after a crash at any point; its write test of the state file
empties the file before the record is read from it (`Recall`), so that a restarted
EA knows nothing, unless the test itself failed. `refused`, `torn`, `unguarded` and
`forgotten` are history: attempts that ended with a final error, crashes between an
order and its record, executions that passed a missing or foreign lock, and signals
whose record newer ones pushed out of memory.

**EaUpdate.** The three files `EA`, `EA_new` and `EA.bak` hold a release, a torn
copy or nothing. Terminal, machine and script stop between any two renames.

**Telemetry.** `OnTimer` tries to send what is due, and the DLL accepts any part
of it that its state allows: a frame is refused while the one before is being
sent, and the EA does not look at the result. The server saves each frame on a
thread and awaits it before it receives the next.

**TradeReports.** The EA trades, reports, and acknowledges at the end of the tick;
a signal whose market is closed it acknowledges first. `log_trade` is three
transactions. Sums over trades are the sets of trades they are taken over.

**Dashboard.** Pages with their buttons as they were when shown; a close request
walks the live list of connections as in WsFanout, ticket by ticket. The bot
handles one update at a time (`concurrent_updates(False)`), the connections move.

**Trading.** A command is a sequence of broker calls; between any two, positions
close, pending orders fill, and other processes trade and cut the same positions.
Positions are integers in steps of 0.01 lots, what a command has still to close is
in hundredths of a step: the code does not round a share before it sends it, and an
order of a fraction of a step is refused by the terminal (`Tradable`), which counts
as any refusal does. Rounding of floats is left out.

**Licenses.** A cache per worker, the file, and each dialog's stage with the key
it remembers. A write truncates, then writes; a crash may come in between. The
cascade that deletes a license's signals may fail, and the bot goes on (`CascadeFails`).

**RateLimits, HttpChain, FailedAttempts.** The code keeps deques of wall-clock
stamps, and all it asks of one is how many of its stamps are younger than a
constant. So a deque is a function from ages to counts, `minute[a]` the requests
that are at most `a` old; popping old stamps, appending one and the passing of a
tick are `YoungerOrEqual`, `WithOneMore` and `Aged`. FailedAttempts has each Redis
call as a step of its own.

**PineParser.** A message is a sequence of parameters; a value is an integer, a nan,
which `float()` takes and `int()` does not, or a word that neither takes. A nan
makes every comparison false, so each check is written as the code has it, by what
it rejects (`~Less`, `~AtMost`) or by what it demands. `SignalSound` compares what
the parser emits with `Says`, a definition that reads the whole message at once.

**ServerLifecycle.** Boot stages that may fail, the bot's `start()` with its awaits,
called by boot task and watchdog, and the shutdown sequence.

## 3. Runs

| Run | Instance | Shows |
|---|---|---|
| queue_safety | 2 signals of one content and license, 2 EAs, both backends, 1 fault (631 thousand states) | `TypeOK`, `NoTwinInWindow`, `OneFreshHolder`, `DeliveredLogHonest`, `ImplementsLifecycle` |
| delivery | table: 1 signal, 2 EAs, 2 faults, PostgreSQL. Push: 2 connections with a limit of 1, Redis. Long-poll: 2 signals, 2 pollers, queues of 1. Licenses: 2 keys, 1 worker, one dialog open at a time (518 thousand) | `DeliveryTypes`, `PushComplete`, `LimitHeld`, `NoLostWakeup`, `WaiterKeepsQueue`, `NoResurrection`, `RestartKeepsLicenses`, `NoOrphanSignals`, `Redelivered`, `SilentDropped` |
| terminal | 2 EAs, 1 signal, 2 copies. DLL: 5 parts, ring of 2. Telemetry: 2 positions, 2 connections. Update: 2 releases, 3 starts (483 thousand) | `TerminalTypes`, `LockExcludes`, `RingInOrder`, `RoomForSignals`, `WholeCopyKept`, `SnapshotsInOrder`, `QueueSettles`, `FramesKeepComing` |
| ea_single | 1 EA, 2 signals, 3 copies, 2 retries, a record of 2 (1 on disk), 1 restart (4.9 million) | `TypeOK`, `OrdersExplained` |
| operations | ingest: 2 requests, an alert per path, 1 or 2 workers, both backends, 2 crashes; the other parts as below (839 thousand) | `OperationsTypes`, `TypeOK`, `ExecutedOnce`, `AnswersKept`, `Answered`, `PassedWithinLimits`, `ServedWithinBucket`, `FailuresBlock`, `SignalSound`, `OnePoller`, `QuietAfterShutdown`, `CloseAllAsks`, `PerformanceAdds`, `StrategiesApart` |
| queue_redelivery_sqlite | 1 signal, SQLite | `Redelivered` fails |
| ingest_retry | 2 requests of one queue alert | `RetryIsRecognised` fails |
| ingest_executed | 2 requests of one execute alert | `AlreadyExecuted` fails |
| ea_restart | 1 EA, 1 signal, 2 copies, 1 restart | `RecordSurvivesRestart` fails |
| ea_twin | 2 EAs, 1 signal | `OnePositionPerSignal` fails |
| ea_auction | 1 EA, 1 signal | `RecordedWasHandled` fails |
| report_outcome | 2 trades, 2 workers | `OutcomeKept` fails |

Several properties hold only beside an opening the code leaves, and name it: the
history variable in them is set exactly where the opening was used, so that the
property says the opening is the only one. It does not say that the opening is
harmless or closed; these are open, and excluded:

- `PushComplete` and `CloseAllAsks` (`clean`): a removal during a push makes the
  push skip a connection. `LimitHeld` (`raced`): handshakes that race exceed it.
- `NoOrphanSignals` (`kept`, `revived`, `spoiled`): a failed deletion is swallowed,
  a webhook saves after the deletion what it had verified before.
  `RestartKeepsLicenses` (`spoiled`): a write fails, is cut short, or goes over
  another worker's.
- `OnePoller` (`overlapped`): two starts at once do leave two pollers.
  `QuietAfterShutdown` (`overlapped`, `inflight`): a start under way goes on, and a
  cleanup under way arms the limiter's timer again.
- `RingInOrder` (`overtaken`): a receive is started into a buffer still in use.
  `WholeCopyKept` (`cutShort`): a download ends early. `SnapshotsInOrder`
  (`overlapped`): two connections of a license save at the same time.
- `OrdersExplained` (`forgotten`, `restarts`), `LockExcludes` (`unguarded`, no
  restarts), `ExecutedOnce` (`raced`), `PassedWithinLimits` and `ServedWithinBucket`
  (evictions), `FailuresBlock` (`broken`), `PerformanceAdds` (a failed step, an
  overtaken upsert).

Bounds. Every conflict in the queue is between two rows or two EAs, so two of each
reach it; thresholds never invert the order of the code's (neighbours coincide), and
each is reached and passed; the refinement is checked in the same run, and proved
for every instance. In `delivery` one signal suffices, since redelivery is about a row and its
holders; a connection limit of 1 is exceeded by two racing handshakes; a
notification queue of 1 overflows on the second signal. Two requests are a request
and its retry or double POST, or one of each path on the same loop; the proofs cover
any number. In `ea_single` a queue of two fills, two retries are used up, an age of
`MaxQueueTime + 1` expires and a drain limit of one cuts a drain short; a record of
two, one of them on disk, is full after two signals, so that another pushes one out
(500 and 100 in the EA), and opening the state file may fail (`FileFails`), which is
what leaves it intact at a start; elsewhere the record holds all the copies can make and is
always saved. The DLL's ring of two is filled by two messages, one of them in two
fragments, and overflows with the third; half of it is one. In `operations` the
limiter allows 2 a minute, 3 an hour, a burst of 2, and blocks at the second
violation, so that each limit is hit first in some behaviour; the parser's values
are small numbers, a negative one, a nan and a word; beside the trading process,
which runs any command, a second one makes partial closes of buys whatever their
strategy while the first is at its buys (`CutBeside`), which is the pair that meets
on a position, while the theorem has any processes and commands; three attempts on two
workers reach a threshold of two with one to spare; four parameters of ten hold a
group's explicit, second explicit and legacy one; two positions, of which one or two
fit, distinguish oldest from newest; three connections let one be removed before, at
and behind a push's iterator; two trades on two workers overlap in every order; four
bot objects are two restarts by the watchdog beside the boot's. Where a bound stops
a component (all signal ids used, all starts spent) the deadlock check is off;
SignalQueue, WebhookIngest and the side-by-side runs stop legitimately. `ea_single`,
where the clock always ticks, is checked for deadlock.

Fairness, and why the code justifies it:

- `Redelivered`: EAs poll every second and restart within a minute, and a minute
  is the tick, so no tick passes while an EA is down or a poll would return
  something (`TimelyPolls`); PostgreSQL transactions commit, abort or are ended by
  `statement_timeout`. This is the polling EA: one that keeps a WebSocket open
  does not poll, and a push it misses waits until it falls back.
- `SilentDropped`: each worker's event loop runs what can run (`Serves`, `Walks`),
  the cleanup task comes round, and idleness grows with time.
- `Answered`: handlers, their threads and the event loop run whatever can run.
- `QueueSettles`: the EA's timer keeps firing and quotes keep `TimeCurrent`
  moving, without which nothing in the queue expires (a symbol with no ticks
  freezes it; the code says so in `OnTimer`).
- `FramesKeepComing`: WinHTTP calls back for what it accepted, the server's frames
  arrive, and the EA's timer polls (`WcFairness`); nothing is assumed of sends.

## 4. Findings

1. **An alert repeated on the queue path is queued twice** (`ingest_retry`).
   `server/webhook/pipeline.py:68` stamps the time of receipt before the data is
   hashed. README.md:264: "A retry within the dedup window is detected and
   rejected; the EA never sees it."
2. **A retry after a 503 is told "already executed"** (`ingest_executed`).
   `server/webhook/pinetunnel_webhook.py` records before it reaches MT5 and never
   takes the record back.
3. **SQLite never redelivers a lost signal** (`queue_redelivery_sqlite`).
   `server/db/sqlite.py:570` re-claims without RETURNING; PostgreSQL returns.
4. **A signal can be recorded as executed without an order** (`ea_auction`).
   Closed market, queue, drain into the auction (10018), next drain: its own lock
   file is taken for another instance's.
5. **Two instances can open one signal's position twice** (`ea_twin`): the broker
   scan meant to catch the lock file's race has the same gap.
6. **A restarted EA has forgotten what it executed** (`ea_restart`). OnInit's write
   test opens the state file with FILE_WRITE (`EA:2347`), which empties it, before
   LoadExecutedSignals reads it to "Restore executed signals from previous session"
   (`EA:2392`). What remains against a second order is the broker scan, which does
   not see a position that was closed.
7. **A reported outcome is overwritten with "delivered"** (`report_outcome`).
   The EA reports a trade before it acknowledges the signal, and
   `acknowledge_signal_log` (`server/db/base.py:348`) sets the status whatever it
   was, so failed executions vanish from the overview's recent failures.

Met while modelling, and modelled as the code has it:

- A push skips a connection when another task removes an earlier one from the list
  it is walking (`PushComplete` and `CloseAllAsks` except it); `skip_backpressured`
  is a parameter nobody passes.
- `float()` takes "nan", and a nan passes every check of the parser and of
  `validate_signal` that asks whether a value is bad: `lots`, `risk`, stops and
  prices may be one, and stop and target are then on no side of the price.
  `SignalSound` speaks of their order only where they are numbers.
- A close frame that comes within a fragmented message queues the part received,
  which the EA then reads as a message (`RingInOrder` says it is the last one).
- A failing `delete_signals_by_license` is logged at debug level and swallowed.
- A share of a position is sent to the terminal as it is computed, not rounded to
  the volume step; the order is refused where it is no multiple.
- Notifications are published to Redis, but `subscribe_to_signals` is never called:
  a long-poll on another worker waits out its timeout.
- The EA has no handler for `request_close` (it ends in the unknown-message branch,
  `EA:7010`), so the dashboard's close buttons ask what nobody answers. Its
  disconnect buttons close sockets that the EA opens again.
- `get_latest_open_positions` says "the most recent snapshot"; on PostgreSQL it
  returns every ticket ever reported, and an empty snapshot leaves no row.
- Initial-state and change snapshots are dropped without notice while a send is
  under way; a position that closes as another opens changes no count.
- Explicit volumes and stops are not read by the server executor; a combined
  command closes and does not open there (`executor.py:572`); a pending order is
  compared with "_buy_stop" and so never modified. `validate_signal` and
  `can_trade` are called by no request.
- The Redis limiter and one of the two failed-attempt trackers are wired to
  nothing. "After 20 failures" (`routes/auth.py`) is a threshold of 10.
- "Disconnect EA when deactivating": the sockets stay open. A re-keyed license
  leaves its rows and sockets under the old key.
- The update's restart counter is cleared by the script and by each OnInit, so its
  loop protection never trips; a torn `EA_new` is swapped in unchecked.
- `OnReadComplete` clears `m_readPending` before it has used the buffer; a failed
  send stores CONNECTED over a CLOSED of another thread.

## 5. Proofs

All theorems are of the specification, for every value of the constants that meets
the ASSUMEs beside them, and every leaf is checked by tlapm.

- `SignalQueueProofs`: `TypeCorrect`, `ClaimsAreExclusive`, `SqliteDeduplicates`,
  `LogIsHonest`. None of the three safety properties is inductive. The module's
  `IInv` adds what they rest on: only claimed or closed rows were ever handed out
  (`HandedOut`), a row's claim is at least as new as any holder's copy
  (`ClaimIsNewest`), copies and pushes are of stored rows of the EA's own license
  (`CopiesStored`), a log entry written or still to be written belongs to a closed
  row (`LogFollows`), and SQLite has no insert under way between two steps
  (`SqliteAtomic`). The only assumption on the thresholds is that the ages saturate
  beyond them.
- `SignalQueueRefinement`: `ImplementsPromise`. Initial states map to initial
  states; each action maps to one named step of SignalLifecycle or a stutter (a
  poll is a `Hand`, a cleanup a `Drop`, a re-claim nothing).
- `EaReceiverProofs`: `TypeCorrect`, `OrdersOnceBehindLock`, `OrdersAreExplained`.
  The first rests on `Structure`: a running command belongs to a message, outside of
  a drain, or to the item under the drain's cursor (`CommandHasOrigin`), and the
  file a restart reads fits the record (`RestartsCounted`). The second needs
  `OneRight`: while no instance restarts, at most one running command or queued
  retry may still order a signal. The right comes with the lock file (`CreateLock`),
  is handed from a failed command to the item it queues (`AfterMessage`), moves with
  the item when the queue shifts, and is spent by the order. Signals executed over
  another's lock file, or without any (`unguarded`), are excepted, as in the
  property. The third is about an instance alone on its license, whatever restarts:
  a command under way is never for a signal on record (`Unexecuted`), an order is
  placed only where the broker was just seen to hold nothing, and the order since the
  last start is on record or about to be (`Accounted`), or its signal is `forgotten`
  (`OrdersAccounted`); a start allows one more, for it empties the record, and only
  the broker scan stands behind it. The lock file plays no part in it, since OnInit
  deletes it.
- `DeliveryProofs`.
  - WsFanout: `PushesReachAll`, `LimitHolds`. A push owes only what lies ahead of
    its iterator (`OwedAhead`): appended connections come behind it, and a removal
    in the list it walks makes it unclean. Where no two handshakes overlapped there
    is room for the one between the check and its registration (`RoomForAdmitted`).
  - LongPoll: `LongPollTyped`, `WakeupsAreKept`, `WaitersKeepQueues`. The wake-up is
    kept of every announced row, waited for or not (`NotifiedOrClaiming`): only a
    poller on its way to the claim drains a queue. The other needs that an entry
    that is not recent has only late requests (`EntryOutlives`).
  - Licenses: `LicensesTyped`, `GoneStaysGone`, `ChangesSurvive`, `CascadeComplete`,
    for any number of workers, so for more than TLC's one. What the administrator's
    steps do to the licenses is said once (`Changes`), what the dialogs do to
    `user_data` once (`Turns`). A key that is gone cannot return because keys come
    from the counter only and none is known before it is issued (`OnlyIssued`). As
    long as no write went wrong, a worker that writes is alone and wrote last before
    (`WriterAlone`): so no restart can fall between a delete and its cascade
    unnoticed; a cascade that fails is named (`kept`).
  - `DeliveryTyped`: the types of the three, whichever of them moves.
- `OperationsProofs`.
  - WebhookIngest: `IngestTyped`, `TradesOnce`, `AnswersAreKept`. `ExecutedOnce` is
    the consequence of two facts: a request acts only recorded or unrecorded, and of
    two recorded twins one raced. The second half, no races in one process, needs
    `LoopHeld`: an execute-path request between its check and its insert holds the
    loop, so no twin is inserted meanwhile.
  - RateLimits: `PassesWithinLimits`. The two windows hold all that was allowed in
    them, unless the cap took it (`evicted`), and the bucket has paid for every
    request: `allowed[a] * Minute + tokens <= Full + a * MinuteLimit` for every age.
    Only the sum with the tokens is inductive.
  - HttpChain: `ServesWithinBucket`. A bucket that was not lost holds every request
    of the minute that was let by it.
  - FailedAttempts: `FailuresAlwaysBlock`. While Redis answered, as soon as as many
    failures as the threshold are recorded, the block outlasts each of them
    (`RedisKeepsUp`): whoever comes second to the count still sees the first, since
    a failure is added before it is counted (`RecordingIsPrompt`).
  - PineParser: `SignalsAreSound`. After each parameter, a group's type is the one
    explicit number read so far, nan included, and a legacy key holds the last number
    given for it (`AsRead`); no key belongs to two groups (`KeysApart`).
  - ServerLifecycle: `BotsPollAlone`, `StoppedIsQuiet`. While no two starts have run
    at once, a start that is past its beginning is alone, and an application polls
    only until the next is built (`StartsAreSerial`); none is left that could follow
    the bot's stop (`StopIsFinal`), since the watchdog is cancelled before it
    (`WatchdogsTime`), and the timer is not armed again once stopped
    (`TimerIsStopped`).
  - Dashboard: `EveryoneAsked`. A request that is still owed is owed to a connection
    that is up, and either its ticket's turn comes later or the connection lies ahead
    in this pass (`DbOwing`).
  - TradeReports: `ReportsTyped`, `SumsAddUp`. A successful trade the performance row
    misses is in the hands of a worker that has still to sum it, or has summed it and
    has still to write (`MissingAwaitsSum`), unless a step failed or one upsert
    overtook another.
  - `OperationsTyped`: the types of the limiter, the chain, the attempts, the parser,
    trading, the lifecycle, the dashboard and the reports, whichever of them moves.
- `TradingProofs`: `StrategiesStayApart`, an action property. What makes it follow is
  what a worker knows of its list (`JobSound`): a ticket still on it, if it is still a
  position, is of the command's side and strategy and has not grown; and of a partial
  close that has volume left, every listed position is refused or still on the list,
  in order. Tickets are unique and never reused (`TicketsUnique`), which is why a
  stale ticket can name nothing else.
- `TerminalProofs`.
  - WsClient: `FramesStayWhole`, `RoomIsLeft`. Whole messages in the
    ring need the accumulator to hold the parts of one message received so far, but
    for the one in the buffer (`AccAt`), that what the close frame queues is the last
    thing queued, that one callback at most reads the buffer
    (`OneReader`), and that the numbers rise from what was read through the ring to
    the accumulator (`InOrder`). `RoomForSignals` is inductive beside the types, as a
    frame of low priority is stored only below half and an overflow takes the oldest.
  - EaUpdate: `UpdateTyped`, `WholeCopyStays`. `EA_new` is torn only while it is
    written (`TornOnlyInWrite`), and once the terminal runs past the swap the EA or
    its backup is whole beside it (`WholeBesideNew`); the cache serves whole releases
    only (`ServesReleases`) and a terminal starts from a whole EA (`StartsWhole`).
  - Telemetry: `LatestIsLast`. What is being saved or on a wire was taken later than
    every row and earlier than what is behind it (`SavingIsLater`, `WireIsLater`),
    because an endpoint saves one frame at a time (`OneSave`).
  - `TerminalTyped`: the types of the three, whichever of them moves.

The theorems of parts that MCDelivery, MCTerminal and MCOperations run are about
each part's own specification; the three `...Typed` theorems of the compositions
show how they carry over: a step of the whole is a step of the part or leaves it
(`DeliveryStep`, `TerminalStep`), so the whole behaves for the part as its own
specification does. The assumptions are the ones in the modules, which the runs
evaluate: limits and windows are natural numbers in the code's order, ids and
nobody's id differ, the frames the server sends are messages in sequence.

Only model-checked are the liveness properties `Redelivered`, `SilentDropped`,
`Answered`, `QueueSettles` and `FramesKeepComing`, which are out of the prover's
reach. Every safety property of a passing run has its theorem.

## 6. Abstractions

- Contents are values that are equal when the hash is; the hash itself, JSON and
  wording are left out. Symbols and order parameters too: in EaReceiver an order is
  placed, refused, or answered 10018.
- EaReceiver covers commands that open orders, with `InpEnableSignalQueue` on, a
  message at a time. Close and modify commands, position limits, trailing stops and
  account protection appear as refusals. A failing `FileDelete` or `FileMove` is not
  modelled; a lock file or a state file that cannot be written is.
- FailedAttempts gives every failure its own member of the sorted set; in the code two
  failures with the same clock reading share one (`server/middleware/security.py:68`).
- Infinity, fractions and float rounding are left out of PineParser and Trading.
- A commit whose outcome is unknown to the server is not modelled.
- The retention cutoffs are local time against UTC timestamps; the model's
  thresholds stand for the shifted ones.
- Telemetry has PostgreSQL's tables; SQLite keeps one row per license and writes it
  over. Account statistics and health frames only keep the DLL busy.
- TradeReports has one symbol and a signal for each trade. A report's signal log
  row exists; close reports never reach the database and are left out.
- Dashboard has one license and one message of the chat; the page of an older
  message would lead to the same confirmations.

## 7. Not modelled

- The MT4 EA is a port of the MT5 EA with the same receiving side; EaReceiver was
  read from the MT5 source only.
- The EA's order operations (combined actions, partial closes, modifications,
  trailing) are sequential broker calls on one thread; the server's twin of these
  commands, with the same hazards and several processes, is Trading.
- Payload encryption and tokenising are pure computations ahead of what PineParser
  models; a failure is a refusal in WebhookIngest.
- Dashboard sessions are a key with a lifetime; the replay store is wired into no
  route; overviews, health checks and metrics only read.
- The command line tools, installers, migrations and the Pine script are
  configuration, run by one person at a time.

Worth doing next: the EA's combined actions beside Trading; a second worker in
Licenses' instance, whose properties the proofs cover for any number.
