------------------------------ MODULE WsFanout ------------------------------
(***************************************************************************)
(* The WebSocket connections of one license: how an EA is admitted, pushed *)
(* to and forgotten (ws/handler.py, WebSocketConnectionManager and         *)
(* websocket_endpoint), and how a signal reaches the other worker          *)
(* processes through Redis (config/lifespan.py, _ws_push_signal).          *)
(*                                                                         *)
(* A worker is one event loop: code between two awaits is one step.  A     *)
(* push walks the live list of connections and awaits every send, so any   *)
(* other task may change the list under it.                                *)
(***************************************************************************)
EXTENDS Integers, SequencesExt

CONSTANTS WsWorkers,    \* worker processes
          Conns,        \* connection attempts of the license's EAs
          WsMsgs,       \* messages pushed to the license
          Signals2All,  \* those that are signals, published to Redis too
          HomeOf,       \* HomeOf[c]: the worker that accepted c's socket
          RedisUp,      \* Redis is configured
          MaxConns,     \* _MAX_WS_CONNECTIONS_PER_LICENSE
          MaxConnects,  \* _MAX_WS_CONNECTS_PER_MINUTE
          NoConn

ASSUME WsFanoutAssumption ==
    /\ HomeOf \in [Conns -> WsWorkers] /\ NoConn \notin Conns
    /\ Signals2All \subseteq WsMsgs /\ RedisUp \in BOOLEAN
    /\ MaxConns \in Nat \ {0} /\ MaxConnects \in Nat \ {0}

VARIABLES
    endpoint,    \* endpoint[c]: where websocket_endpoint stands for c
    peer,      \* peer[c]: the other end is up; silent (the EA vanished, sends still succeed); down
    connections, \* connections[w]: the manager's list for the license
    listId,      \* listId[w]: which list object the license's key holds
    activity,    \* activity[c]: age of c's entry in _last_activity
    connects,    \* connects[w]: connections of the last minute
    closing,     \* connections the idle cleanup has a close task for
    walk,        \* walk[t]: a pass over the list in progress
    begun,      \* messages the webhook or the bot has begun to push
    inbox,       \* inbox[w]: what the worker's subscription holds
    raced        \* workers on which two handshakes overlapped (history)

lists == <<connections, listId>>
net == <<endpoint, peer>>
mail == <<begun, inbox>>
fanVars == <<net, lists, activity, connects, closing, walk, mail, raced>>

\* A push of message m is a walk; so are those of each worker's Redis listener.
Pushes == {<<"push", m>> : m \in WsMsgs}
Listeners == {<<"listen", w>> : w \in WsWorkers}
Tasks == Pushes \cup Listeners

NoWalk == [on |-> FALSE]

Occupants(w) == Range(connections[w])

\* A pass: where it is in the list it began with, at whom (nobody: its end), who
\* failed; whom it has still to try, unless the list lost a member (history).
FanPass == [on : {TRUE}, w : WsWorkers, msg : WsMsgs, list : Nat, i : Nat, at : Conns \cup {NoConn},
            dead : SUBSET Conns, owed : SUBSET Conns, clean : BOOLEAN]

FanTypeOK ==
    /\ endpoint \in [Conns -> {"new", "admitted", "loop", "ended"}]
    /\ peer \in [Conns -> {"up", "silent", "down"}]
    /\ connections \in [WsWorkers -> Seq(Conns)]
    /\ \A w \in WsWorkers : Occupants(w) \subseteq {c \in Conns : HomeOf[c] = w}
    /\ listId \in [WsWorkers -> Nat] /\ connects \in [WsWorkers -> Nat]
    /\ activity \in [Conns -> {"none", "fresh", "old"}]
    /\ closing \subseteq Conns /\ begun \subseteq WsMsgs
    /\ walk \in [Tasks -> FanPass \cup {NoWalk}] /\ raced \subseteq WsWorkers
    /\ inbox \in [WsWorkers -> Seq(WsMsgs)]

FanInit ==
    /\ endpoint = [c \in Conns |-> "new"] /\ peer = [c \in Conns |-> "up"]
    /\ connections = [w \in WsWorkers |-> <<>>] /\ listId = [w \in WsWorkers |-> 0]
    /\ activity = [c \in Conns |-> "none"] /\ connects = [w \in WsWorkers |-> 0]
    /\ closing = {} /\ walk = [t \in Tasks |-> NoWalk]
    /\ begun = {} /\ inbox = [w \in WsWorkers |-> <<>>]
    /\ raced = {}

-----------------------------------------------------------------------------
\* The list without some of its connections: there is one, in the same order.
Lacking(s, C) ==
    IF Range(s) \cap C = {} THEN {s}
    ELSE {r \in SetToSeqs(Range(s) \ C) : \A i, j \in DOMAIN r : i < j =>
            \E k, l \in DOMAIN s : k < l /\ r[i] = s[k] /\ r[j] = s[l]}

\* remove: an empty list loses its key, so that the next connection starts a new
\* list object.
RemoveFrom(w, C) ==
    \E s \in Lacking(connections[w], C) :
        /\ connections' = [connections EXCEPT ![w] = s]
        /\ listId' = [listId EXCEPT ![w] = IF connections[w] # <<>> /\ s = <<>> THEN @ + 1 ELSE @]

\* The passes over w's list that lose a member to a removal.
Disturbed(tasks, w, C) == {t \in Tasks : tasks[t].on /\ tasks[t].w = w /\ Occupants(w) \cap C # {}}

Disturb(tasks, w, C) ==
    [t \in Tasks |-> IF t \in Disturbed(tasks, w, C) THEN [tasks[t] EXCEPT !.clean = FALSE] ELSE tasks[t]]

-----------------------------------------------------------------------------
\* The handshake.  The license and origin checks may refuse; the limits read
\* what is registered now.
RefuseUpgrade(c) ==
    /\ endpoint[c] = "new" /\ endpoint' = [endpoint EXCEPT ![c] = "ended"]
    /\ UNCHANGED <<peer, lists, activity, connects, closing, walk, mail, raced>>

\* Mutant: the limit is off by one.
CheckRateLimitLate(w) == connects[w] < MaxConnects /\ Len(connections[w]) <= MaxConns

CheckRateLimit(w) == connects[w] < MaxConnects /\ Len(connections[w]) < MaxConns

Admit(c) ==
    LET w == HomeOf[c] IN
    /\ endpoint[c] = "new"
    /\ endpoint' = [endpoint EXCEPT ![c] = IF CheckRateLimit(w) THEN "admitted" ELSE "ended"]
    /\ raced' = IF CheckRateLimit(w) /\ \E d \in Conns : HomeOf[d] = w /\ endpoint[d] = "admitted"
                THEN raced \cup {w} ELSE raced
    /\ UNCHANGED <<peer, lists, activity, connects, closing, walk, mail>>

Add(s, c) == Append(s, c)

\* await websocket.accept(), then add; a socket that broke meanwhile raises.  The
\* Redis and database registrations and the version message that follow are
\* awaited and their failures caught: they only delay the loop.
Accept(c) ==
    LET w == HomeOf[c] IN
    /\ endpoint[c] = "admitted" /\ peer[c] # "down"
    /\ endpoint' = [endpoint EXCEPT ![c] = "loop"]
    /\ connections' = [connections EXCEPT ![w] = Add(@, c)]
    /\ connects' = [connects EXCEPT ![w] = @ + 1]
    /\ activity' = [activity EXCEPT ![c] = "fresh"]
    /\ UNCHANGED <<peer, listId, closing, walk, mail, raced>>

AcceptFails(c) ==
    /\ endpoint[c] = "admitted" /\ peer[c] = "down"
    /\ endpoint' = [endpoint EXCEPT ![c] = "ended"]
    /\ UNCHANGED <<peer, lists, activity, connects, closing, walk, mail, raced>>

\* Any message of the EA marks it active, also one the manager has forgotten.
ReceiveText(c) ==
    /\ endpoint[c] = "loop" /\ peer[c] = "up"
    /\ activity' = [activity EXCEPT ![c] = "fresh"]
    /\ UNCHANGED <<net, lists, connects, closing, walk, mail, raced>>

\* The receive, or after 15 s of silence the keepalive, meets a broken socket.
EndLoop(c) ==
    /\ endpoint[c] = "loop" /\ peer[c] = "down"
    /\ endpoint' = [endpoint EXCEPT ![c] = "ended"]
    /\ RemoveFrom(HomeOf[c], {c})
    /\ activity' = [activity EXCEPT ![c] = "none"]
    /\ walk' = Disturb(walk, HomeOf[c], {c})
    /\ UNCHANGED <<peer, connects, closing, mail, raced>>

-----------------------------------------------------------------------------
\* A pass over the list.  The iterator keeps the list object and a position:
\* a list object that lost its key is empty and ends the pass.
Reachable(t) == IF listId[walk[t].w] = walk[t].list THEN connections[walk[t].w] ELSE <<>>

Pass(w, m) ==
    [on |-> TRUE, w |-> w, msg |-> m, list |-> listId[w], i |-> 1, at |-> connections[w][1],
     dead |-> {}, owed |-> Occupants(w) \ {connections[w][1]}, clean |-> TRUE]

\* broadcast_signal_to_websocket, from the webhook's worker.  Lacking a
\* connection there nothing is sent; a signal is published all the same.
Ending(w, m) == [on |-> TRUE, w |-> w, msg |-> m, list |-> listId[w], i |-> 0, at |-> NoConn,
                 dead |-> {}, owed |-> {}, clean |-> TRUE]

Broadcast(m, w) ==
    /\ m \notin begun /\ begun' = begun \cup {m}
    /\ walk' = [walk EXCEPT ![<<"push", m>>] = IF connections[w] = <<>> THEN Ending(w, m)
                                               ELSE Pass(w, m)]
    /\ UNCHANGED <<net, lists, activity, connects, closing, inbox, raced>>

\* The listener takes the next message of its subscription.
Listen(w) ==
    /\ inbox[w] # <<>> /\ walk[<<"listen", w>>] = NoWalk
    /\ inbox' = [inbox EXCEPT ![w] = Tail(@)]
    /\ walk' = IF connections[w] = <<>> THEN walk
               ELSE [walk EXCEPT ![<<"listen", w>>] = Pass(w, Head(inbox[w]))]
    /\ UNCHANGED <<net, lists, activity, connects, closing, begun, raced>>

\* Mutant: the pass stops at the first send that raises.
GoesOnIfSent(t, sent) == sent /\ walk[t].i < Len(Reachable(t))

GoesOn(t, sent) == walk[t].i < Len(Reachable(t))

\* The pass after a send: at the next element as the list is now, or at its end.
AfterSend(t) ==
    LET c == walk[t].at
        sent == peer[c] # "down"
        next == Reachable(t)[walk[t].i + 1]
        dead == IF sent THEN walk[t].dead ELSE walk[t].dead \cup {c}
    IN  IF GoesOn(t, sent)
        THEN [walk[t] EXCEPT !.i = @ + 1, !.at = next, !.dead = dead, !.owed = @ \ {next}]
        ELSE [walk[t] EXCEPT !.at = NoConn, !.dead = dead]

\* The awaited send returns or raises, and the pass moves on.  The time it writes
\* was taken before the pass.
SendReturns(t) ==
    LET c == walk[t].at IN
    /\ walk[t].on /\ c # NoConn /\ walk' = [walk EXCEPT ![t] = AfterSend(t)]
    /\ activity' = IF peer[c] # "down" THEN [activity EXCEPT ![c] = "fresh"] ELSE activity
    /\ UNCHANGED <<net, lists, connects, closing, begun, inbox, raced>>

\* After the loop the dead are removed; then a push publishes its signal, and
\* every worker whose listener lives, the publisher's included, receives it.  A
\* Redis error ends a listener for good, or refuses the publication: both logged.
EndPass(t) ==
    LET w == walk[t].w
        D == walk[t].dead
        after == [walk EXCEPT ![t] = NoWalk]
    IN
    /\ walk[t].on /\ walk[t].at = NoConn
    /\ RemoveFrom(w, D)
    /\ activity' = [c \in Conns |-> IF c \in D THEN "none" ELSE activity[c]]
    /\ walk' = Disturb(after, w, D)
    /\ IF t \in Pushes /\ walk[t].msg \in Signals2All /\ RedisUp
       THEN \E V \in SUBSET WsWorkers :
               inbox' = [v \in WsWorkers |-> IF v \in V THEN Append(inbox[v], walk[t].msg)
                                             ELSE inbox[v]]
       ELSE inbox' = inbox
    /\ UNCHANGED <<net, connects, closing, begun, raced>>

-----------------------------------------------------------------------------
IdleOn(w) == {c \in Occupants(w) : activity[c] = "old"}

\* Mutant: the removed connection is not closed.
CleanupOpen(w) ==
    /\ IdleOn(w) # {} /\ RemoveFrom(w, IdleOn(w))
    /\ activity' = [c \in Conns |-> IF c \in IdleOn(w) THEN "none" ELSE activity[c]]
    /\ walk' = Disturb(walk, w, IdleOn(w))
    /\ UNCHANGED <<net, connects, closing, mail, raced>>

\* cleanup_stale: idle connections are removed now and closed by a task.
CleanupIdle(w) ==
    LET gone == IdleOn(w) IN
    /\ gone # {} /\ RemoveFrom(w, gone) /\ closing' = closing \cup gone
    /\ activity' = [c \in Conns |-> IF c \in gone THEN "none" ELSE activity[c]]
    /\ walk' = Disturb(walk, w, gone)
    /\ UNCHANGED <<net, connects, mail, raced>>

Close(c) ==
    /\ c \in closing /\ closing' = closing \ {c}
    /\ peer' = [peer EXCEPT ![c] = "down"]
    /\ UNCHANGED <<endpoint, lists, activity, connects, walk, mail, raced>>

\* The timestamps of the license leave the one-minute window; it matters when
\* they filled it.
MinutePasses(w) ==
    /\ connects[w] >= MaxConnects /\ connects' = [connects EXCEPT ![w] = 0]
    /\ UNCHANGED <<net, lists, activity, closing, walk, mail, raced>>

\* _WS_IDLE_TIMEOUT_SEC pass without a message or a successful send.
GrowsIdle(c) ==
    /\ activity[c] = "fresh" /\ endpoint[c] = "loop" /\ peer[c] # "down"
    /\ activity' = [activity EXCEPT ![c] = "old"]
    /\ UNCHANGED <<net, lists, connects, closing, walk, mail, raced>>

\* The EA or its network: vanishing without a word, or breaking off.
Vanish(c, how) ==
    /\ endpoint[c] \in {"admitted", "loop"} /\ peer[c] = "up" /\ peer' = [peer EXCEPT ![c] = how]
    /\ UNCHANGED <<endpoint, lists, activity, connects, closing, walk, mail, raced>>

FanNext ==
    \/ \E c \in Conns :
          \/ RefuseUpgrade(c) \/ Admit(c) \/ Accept(c) \/ AcceptFails(c)
          \/ ReceiveText(c) \/ EndLoop(c) \/ Close(c) \/ GrowsIdle(c)
          \/ \E how \in {"silent", "down"} : Vanish(c, how)
    \/ \E w \in WsWorkers : \/ Listen(w) \/ CleanupIdle(w)
                            \/ MinutePasses(w) \/ \E m \in WsMsgs : Broadcast(m, w)
    \/ \E t \in Tasks : SendReturns(t) \/ EndPass(t)

\* The event loop runs what is ready; the idle cleanup runs every 2 minutes.
Serves == \E c \in Conns : Accept(c) \/ AcceptFails(c) \/ EndLoop(c) \/ Close(c)
Walks == (\E w \in WsWorkers : Listen(w)) \/ (\E t \in Tasks : SendReturns(t) \/ EndPass(t))

FanFairness ==
    /\ WF_fanVars(Serves) /\ WF_fanVars(Walks)
    /\ \A c \in Conns : WF_fanVars(GrowsIdle(c))
    /\ \A w \in WsWorkers : WF_fanVars(CleanupIdle(w))

FanSpec == FanInit /\ [][FanNext]_fanVars /\ FanFairness

-----------------------------------------------------------------------------
\* Whom a pass's iterator still comes to.
Ahead(t) == {Reachable(t)[i] : i \in {j \in DOMAIN Reachable(t) : j > walk[t].i}}

\* Unless another task removed a connection while the push was going round,
\* everyone who was connected when it began has been tried or lies ahead of
\* its iterator (send_to_license walks the live list; its doc string promises
\* "all WebSocket connections for a license key").
PushComplete ==
    \A t \in Tasks : walk[t].on /\ walk[t].clean =>
        walk[t].owed \subseteq IF walk[t].at = NoConn THEN {} ELSE Ahead(t)

\* More connections than the limit only where two handshakes were between
\* _check_rate_limit and add at once.
LimitHeld == \A w \in WsWorkers : w \notin raced => Len(connections[w]) <= MaxConns

\* An EA that vanished without closing is dropped and its endpoint ends,
\* although sends to it go on succeeding.
SilentDropped ==
    \A c \in Conns : peer[c] = "silent" /\ endpoint[c] = "loop" ~>
                     endpoint[c] = "ended" /\ c \notin Occupants(HomeOf[c])
=============================================================================
