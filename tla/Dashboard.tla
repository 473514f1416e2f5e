----------------------------- MODULE Dashboard ------------------------------
(***************************************************************************)
(* The trader's Telegram dashboard (mixins/user_dashboard.py): it lists    *)
(* the positions the telemetry has stored, and sends close requests and    *)
(* closes connections.  One license, the worker the bot runs on, and a     *)
(* telemetry that may store any position at any time.  What a button does  *)
(* is awaited send by send, while connections come and go.                 *)
(***************************************************************************)
EXTENDS FiniteSets, Integers, SequencesExt

CONSTANTS DbTickets, \* positions
          DbLinks    \* connections, numbered as they are made

ASSUME DashboardAssumption ==
    DbTickets \cup DbLinks \subseteq Nat \ {0} /\ IsFiniteSet(DbTickets) /\ IsFiniteSet(DbLinks)

VARIABLES
    listed,  \* tickets with a row in ws_open_positions
    socket,  \* socket[c]: where connection c stands
    conns,   \* the license's list in ws_manager
    shown,   \* the page the trader's chat shows, with the tickets its buttons name
    walk,    \* the close requests the bot is sending
    closing  \* connections the bot has yet to close

dbBot == <<shown, walk, closing>>
dbVars == <<listed, socket, conns, dbBot>>

Page(what, tickets) == [what |-> what, tickets |-> tickets]
Menu == Page("menu", {})
NoWalk == [on |-> FALSE, todo |-> <<>>, i |-> 1, dead |-> {}, owed |-> {}, clean |-> TRUE]
PastEnd == Cardinality(DbLinks) + 1

DbTypeOK ==
    /\ listed \subseteq DbTickets /\ socket \in [DbLinks -> {"new", "up", "cut", "over"}]
    /\ conns \in Seq(DbLinks) /\ IsInjective(conns) /\ closing \in Seq(DbLinks)
    /\ shown \in [what : {"menu", "account", "trading", "kill", "close", "closeall", "disconnect"},
                  tickets : SUBSET DbTickets]
    /\ walk \in [on : BOOLEAN, todo : Seq(DbTickets), i : Nat \ {0}, dead : SUBSET DbLinks,
                 owed : SUBSET (DbTickets \X DbLinks), clean : BOOLEAN]

DbInit ==
    /\ listed = {} /\ socket = [c \in DbLinks |-> "new"] /\ conns = <<>>
    /\ shown = Menu /\ walk = NoWalk /\ closing = <<>>

-----------------------------------------------------------------------------
(* Around the bot.                                                         *)

Store(t) ==
    /\ t \notin listed /\ listed' = listed \cup {t}
    /\ UNCHANGED <<socket, conns, dbBot>>

\* cleanup_ws_telemetry, the operator's.
CleanUpRows(t) ==
    /\ t \in listed /\ listed' = listed \ {t}
    /\ UNCHANGED <<socket, conns, dbBot>>

Register(c) ==
    /\ socket[c] = "new" /\ \A d \in DbLinks : d < c => socket[d] # "new"
    /\ socket' = [socket EXCEPT ![c] = "up"] /\ conns' = Append(conns, c)
    /\ UNCHANGED <<listed, dbBot>>

\* A connection that goes is owed nothing more.
Sever(c) ==
    /\ socket[c] = "up" /\ socket' = [socket EXCEPT ![c] = "cut"]
    /\ walk' = [walk EXCEPT !.owed = {o \in @ : o[2] # c}]

Lose(c) == Sever(c) /\ UNCHANGED <<listed, conns, shown, closing>>

\* The list without some of its connections: there is one, in the same order.
Without(D) ==
    IF D \cap Range(conns) = {} THEN {conns}
    ELSE {s \in SetToSeqs(Range(conns) \ D) : \A i, j \in DOMAIN s : i < j =>
            \E k, l \in DOMAIN conns : k < l /\ s[i] = conns[k] /\ s[j] = conns[l]}

\* The endpoint ends and removes its connection.  A list that runs empty loses
\* its key, and ends the pass over it.
Deregister(c) ==
    /\ socket[c] = "cut" /\ socket' = [socket EXCEPT ![c] = "over"] /\ conns' \in Without({c})
    /\ walk' = IF walk.on /\ c \in Range(conns)
               THEN [walk EXCEPT !.clean = FALSE, !.i = IF conns' = <<>> THEN PastEnd ELSE @]
               ELSE walk
    /\ UNCHANGED <<listed, shown, closing>>

-----------------------------------------------------------------------------
(* The dashboard.                                                          *)

AtRest == walk = NoWalk /\ closing = <<>>

\* A button's page replaces the page it is on; a cancel leads back to one.
Show(page) ==
    /\ AtRest /\ shown' = page
    /\ UNCHANGED <<listed, socket, conns, walk, closing>>

ShowAccount == Show(Page("account", {}))
ShowTrading == Show(Page("trading", listed))
ShowKillSwitch == Show(Page("kill", listed))

\* The positions may be others than when the button was made.
ConfirmCloseAll ==
    /\ shown.what \in {"trading", "kill"} /\ shown.tickets # {}
    /\ Show(IF listed = {} THEN Menu ELSE Page("closeall", {}))

ConfirmClose(t) ==
    /\ shown.what = "trading" /\ t \in shown.tickets
    /\ Show(IF t \in listed THEN Page("close", {t}) ELSE Menu)

\* For one EA or, with one license, for all.  One that polls over HTTP counts as
\* connected too.
ConfirmDisconnect ==
    /\ shown.what \in {"account", "kill"}
    /\ \/ Show(Page("disconnect", {}))
       \/ conns = <<>> /\ Show(Menu)

Walk(tickets) ==
    [on |-> TRUE, todo |-> tickets, i |-> 1, dead |-> {}, clean |-> TRUE,
     owed |-> Range(tickets) \X {c \in Range(conns) : socket[c] = "up"}]

\* The positions are read again, newest first.
DoCloseAll ==
    /\ AtRest /\ shown.what = "closeall" /\ shown' = Menu
    /\ IF listed = {} THEN walk' = NoWalk
       ELSE \E s \in SetToSeqs(listed) :
              (\A i, j \in DOMAIN s : i < j => s[i] > s[j]) /\ walk' = Walk(s)
    /\ UNCHANGED <<listed, socket, conns, closing>>

\* The ticket of the button, listed still or not.
DoClose ==
    /\ AtRest /\ \E t \in shown.tickets :
          shown = Page("close", {t}) /\ walk' = Walk(<<t>>)
    /\ shown' = Menu
    /\ UNCHANGED <<listed, socket, conns, closing>>

\* Mutant: a send that fails ends the pass.
NextIndexEnds(failed) == IF failed THEN PastEnd ELSE walk.i + 1

NextIndex(failed) == walk.i + 1

\* request_close_position: send_to_license for one ticket.  A send into a lost
\* connection may still succeed.  The EA knows no message request_close.
SendRequest ==
    LET c == conns[walk.i] IN
    /\ walk.on /\ walk.i <= Len(conns)
    /\ \E failed \in BOOLEAN :
          /\ failed => socket[c] # "up"
          /\ walk' = [walk EXCEPT !.i = NextIndex(failed),
                                  !.dead = IF failed THEN @ \cup {c} ELSE @,
                                  !.owed = @ \ {<<Head(walk.todo), c>>}]
    /\ UNCHANGED <<listed, socket, conns, shown, closing>>

EndPass ==
    /\ walk.on /\ walk.i > Len(conns)
    /\ conns' \in Without(walk.dead)
    /\ walk' = [walk EXCEPT !.on = Len(walk.todo) > 1, !.todo = Tail(@), !.i = 1, !.dead = {}]
    /\ UNCHANGED <<listed, socket, shown, closing>>

\* The walk's result is shown.
ShowResult ==
    /\ ~walk.on /\ walk # NoWalk /\ walk' = NoWalk
    /\ UNCHANGED <<listed, socket, conns, shown, closing>>

\* The list as it is now is closed one by one; an EA that connects meanwhile,
\* or again, stays.
DoDisconnect ==
    /\ AtRest /\ shown.what = "disconnect" /\ shown' = Menu /\ closing' = conns
    /\ UNCHANGED <<listed, socket, conns, walk>>

CloseNext ==
    LET c == Head(closing) IN
    /\ closing # <<>> /\ closing' = Tail(closing)
    /\ IF socket[c] = "up" THEN Sever(c) ELSE UNCHANGED <<socket, walk>>
    /\ UNCHANGED <<listed, conns, shown>>

DbNext ==
    \/ \E t \in DbTickets : Store(t) \/ CleanUpRows(t) \/ ConfirmClose(t)
    \/ \E c \in DbLinks : Register(c) \/ Lose(c) \/ Deregister(c)
    \/ ShowAccount \/ ShowTrading \/ ShowKillSwitch \/ ConfirmCloseAll
    \/ ConfirmDisconnect \/ DoCloseAll \/ DoClose \/ SendRequest \/ EndPass \/ ShowResult \/ DoDisconnect \/ CloseNext

DbSpec == DbInit /\ [][DbNext]_dbVars

-----------------------------------------------------------------------------
(* Properties.                                                             *)

\* When the bot is through, every ticket it listed was sent to every connection
\* that was there from the first request to the last, whatever sends failed and
\* whoever connected in between; only a connection removed in the middle of a
\* pass makes send_to_license pass one over (_do_close_all_positions).
CloseAllAsks == ~walk.on /\ walk.clean => walk.owed = {}
=============================================================================
