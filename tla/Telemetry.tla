----------------------------- MODULE Telemetry ------------------------------
(***************************************************************************)
(* What the terminal reports over its WebSocket: the EA's timer and        *)
(* PTWebSocketClient.mqh send snapshots of the open positions and the      *)
(* trade history, ws/handler.py stores them.  One license, one EA that     *)
(* reconnects.  Account statistics and health go the same way, into tables *)
(* of their own: here their frames only keep the DLL busy.  The tables are *)
(* PostgreSQL's; SQLite keeps one row of a license and writes it over.     *)
(***************************************************************************)
EXTENDS FiniteSets, Integers, Sequences

CONSTANTS Tickets,   \* positions, numbered as they are opened
          Links,     \* connections, numbered as they are made
          MaxWrites, \* _MAX_WS_TELEMETRY_WRITES_PER_MINUTE
          MaxWire,   \* bound on frames under way on one connection
          MaxTaken   \* bound on snapshots sent

ASSUME TelemetryAssumption ==
    /\ Tickets \cup Links \subseteq Nat \ {0} /\ IsFiniteSet(Tickets)
    /\ {MaxWrites, MaxWire} \subseteq Nat \ {0} /\ MaxTaken \in Nat

VARIABLES
    held,      \* positions open at the terminal
    past,      \* positions closed: the deals of its history
    line,      \* the EA's connection, 0 if none
    begun,     \* g_wsInitialStateSent
    lastCount, \* g_wsLastPositionCount
    inFlight,  \* the DLL's state is SENDING
    snapshots, \* snapshots of the positions the DLL accepted
    session,   \* session[c]: where connection c stands
    wire,      \* wire[c]: telemetry frames not yet received
    saving,    \* saving[c]: frames of c's endpoint in the executor
    writes,    \* telemetry writes in the last minute
    rows,      \* ws_open_positions: a snapshot for each timestamp
    deals,     \* ws_trade_history
    overlapped \* a snapshot was saved while another connection's telemetry waited (history)

terminal == <<held, past>>
reporter == <<line, begun, lastCount, inFlight, snapshots>>
store == <<saving, writes, rows, deals, overlapped>>
tlVars == <<terminal, reporter, session, wire, store>>

Snapshots == [kind : {"positions"}, no : 1..MaxTaken, tickets : SUBSET Tickets]
Histories == [kind : {"history"}, no : {0}, tickets : SUBSET Tickets]
Frames == Snapshots \cup Histories

TlTypeOK ==
    /\ held \subseteq Tickets /\ past \subseteq Tickets /\ held \cap past = {}
    /\ line \in Links \cup {0} /\ begun \in BOOLEAN /\ inFlight \in BOOLEAN
    /\ lastCount \in 0..Cardinality(Tickets) /\ snapshots \in 0..MaxTaken
    /\ session \in [Links -> {"new", "up", "cut", "over"}]
    /\ wire \in [Links -> Seq(Frames)] /\ \A c \in Links : Len(wire[c]) <= MaxWire
    /\ saving \in [Links -> SUBSET Frames]
    /\ writes \in 0..MaxWrites /\ deals \subseteq Tickets
    /\ rows \in Seq(Snapshots) /\ \A i \in DOMAIN rows : rows[i].tickets # {}
    /\ overlapped \in BOOLEAN

TlInit ==
    /\ held = {} /\ past = {}
    /\ line = 0 /\ begun = FALSE /\ lastCount = 0 /\ inFlight = FALSE /\ snapshots = 0
    /\ session = [c \in Links |-> "new"] /\ wire = [c \in Links |-> <<>>]
    /\ saving = [c \in Links |-> {}] /\ writes = 0 /\ rows = <<>> /\ deals = {}
    /\ overlapped = FALSE

-----------------------------------------------------------------------------
(* The terminal.                                                           *)

Open(t) ==
    /\ t \notin held \cup past /\ \A u \in Tickets : u < t => u \in held \cup past
    /\ held' = held \cup {t}
    /\ UNCHANGED <<past, reporter, session, wire, store>>

Shut(t) ==
    /\ t \in held /\ held' = held \ {t} /\ past' = past \cup {t}
    /\ UNCHANGED <<reporter, session, wire, store>>

Dial(c) ==
    /\ line = 0 /\ session[c] = "new" /\ \A d \in Links : d < c => session[d] # "new"
    /\ line' = c /\ begun' = FALSE /\ inFlight' = FALSE
    /\ session' = [session EXCEPT ![c] = "up"]
    /\ UNCHANGED <<terminal, lastCount, snapshots, wire, store>>

\* The frames a tick tries to send, one SendString after the other.
InitialState == <<"stats", "positions", "history", "health">>
Periodic == {<<>>, <<"stats">>, <<"health">>}
Changes == IF Cardinality(held) # lastCount THEN <<"positions", "stats">> ELSE <<>>
TickSends == IF begun THEN {p \o Changes : p \in Periodic} \ {<<>>} ELSE {InitialState}

Snapshot == [kind |-> "positions", no |-> snapshots + 1, tickets |-> held]
History == [kind |-> "history", no |-> 0, tickets |-> past]

\* A frame, where it was accepted.
Sent(frame, accepted) == IF frame.kind \in accepted THEN <<frame>> ELSE <<>>

\* OnTimer.  The DLL refuses a frame while the one before is SENDING; whether
\* its completion comes in between is up to WinHTTP.  The EA does not look at
\* what SendString returns.
OnTimer ==
    /\ line # 0
    /\ \E A \in TickSends : \E J \in SUBSET DOMAIN A :
          LET accepted == {A[j] : j \in J} IN
          /\ inFlight \/ 1 \in J
          /\ wire' = [wire EXCEPT ![line] = @ \o Sent(Snapshot, accepted) \o Sent(History, accepted)]
          /\ snapshots' = IF "positions" \in accepted THEN snapshots + 1 ELSE snapshots
    /\ Len(wire'[line]) <= MaxWire /\ snapshots' <= MaxTaken
    /\ inFlight' = TRUE /\ begun' = TRUE /\ lastCount' = Cardinality(held)
    /\ UNCHANGED <<terminal, line, session, store>>

FrameSent ==
    /\ inFlight /\ inFlight' = FALSE
    /\ UNCHANGED <<terminal, line, begun, lastCount, snapshots, session, wire, store>>

\* The connection is lost, with the last of what was on it.
Drop(c) ==
    /\ session[c] = "up" /\ session' = [session EXCEPT ![c] = "cut"]
    /\ line' = 0
    /\ \E n \in 0..Len(wire[c]) : wire' = [wire EXCEPT ![c] = SubSeq(@, 1, n)]
    /\ UNCHANGED <<terminal, begun, lastCount, inFlight, snapshots, store>>

-----------------------------------------------------------------------------
(* The server's receive loop.  A save runs on a thread and is awaited, so  *)
(* that an endpoint has one save under way; what fails is logged.          *)

\* Mutant: the loop does not wait for the save.
AwaitedNever(c) == TRUE

Awaited(c) == saving[c] = {}

TakeFrame(c) ==
    LET f == Head(wire[c]) IN
    /\ session[c] \in {"up", "cut"} /\ wire[c] # <<>> /\ Awaited(c)
    /\ wire' = [wire EXCEPT ![c] = Tail(@)]
    /\ IF writes < MaxWrites
       THEN /\ writes' = writes + 1 /\ saving' = [saving EXCEPT ![c] = @ \cup {f}]
       ELSE UNCHANGED <<writes, saving>>
    /\ UNCHANGED <<terminal, reporter, session, rows, deals, overlapped>>

WriteAges ==
    /\ writes > 0 /\ writes' = writes - 1
    /\ UNCHANGED <<terminal, reporter, session, wire, saving, rows, deals, overlapped>>

\* save_ws_open_positions: no row for no position.
SavePositions(f) == rows' = (IF f.tickets = {} THEN rows ELSE Append(rows, f)) /\ deals' = deals

\* save_ws_trade_history: ON CONFLICT (license_key, ticket) DO NOTHING.
SaveHistory(f) == deals' = deals \cup f.tickets /\ rows' = rows

SaveEnds(c, f) ==
    /\ f \in saving[c] /\ saving' = [saving EXCEPT ![c] = @ \ {f}]
    /\ \/ f.kind = "positions" /\ SavePositions(f)
       \/ f.kind = "history" /\ SaveHistory(f)
       \/ UNCHANGED <<rows, deals>>
    /\ overlapped' = (overlapped \/ \E d \in Links \ {c} : saving[d] # {} \/ wire[d] # <<>>)
    /\ UNCHANGED <<terminal, reporter, session, wire, writes>>

\* The operator's cleanup_ws_telemetry: snapshots older than a time.
CleanUp ==
    /\ rows # <<>> /\ rows' = Tail(rows)
    /\ UNCHANGED <<terminal, reporter, session, wire, saving, writes, deals, overlapped>>

EndSession(c) ==
    /\ session[c] = "cut" /\ wire[c] = <<>> /\ saving[c] = {}
    /\ session' = [session EXCEPT ![c] = "over"]
    /\ UNCHANGED <<terminal, reporter, wire, store>>

TlNext ==
    \/ \E t \in Tickets : Open(t) \/ Shut(t)
    \/ \E c \in Links : Dial(c) \/ Drop(c) \/ TakeFrame(c) \/ EndSession(c)
    \/ \E c \in Links : \E f \in saving[c] : SaveEnds(c, f)
    \/ OnTimer \/ FrameSent \/ WriteAges \/ CleanUp

TlSpec == TlInit /\ [][TlNext]_tlVars

-----------------------------------------------------------------------------
(* Properties.                                                             *)

\* The snapshot stored last is the one taken last, so that the latest
\* timestamp shows the terminal's latest report, as long as no two connections of the
\* license had telemetry under way at once (the receive loop, save_ws_open_positions).
SnapshotsInOrder ==
    overlapped \/ \A i, j \in DOMAIN rows : i < j => rows[i].no < rows[j].no
=============================================================================
