------------------------------ MODULE Trading -------------------------------
(***************************************************************************)
(* Commands the server executes on its own MT5 account (webhook/executor.py *)
(* on services/mt5_service.py, sizes from services/risk_manager.py).  A    *)
(* command runs without an await, but every call goes to the terminal on   *)
(* its own, where the broker and the server's other processes change the   *)
(* same positions in between.  One symbol; positions in steps of 0.01      *)
(* lots, and what a command still has to close in hundredths of a step, so *)
(* that a share is what the code computes: it does not round it.           *)
(***************************************************************************)
EXTENDS Integers, Sequences, FiniteSets, SequencesExt

CONSTANTS TradeWorkers, \* server processes
          Tags,         \* order comments, which tell strategies apart
          NoTag,        \* a signal without a comment
          MaxTickets,   \* bound on orders and positions
          Percent,      \* risk= of a partial close
          MaxLots       \* the largest position the risk manager allows

ASSUME TradingAssumption ==
    /\ NoTag \in Tags /\ MaxTickets \in Nat /\ Percent \in Nat \ {0} /\ MaxLots \in Nat \ {0}

VARIABLES
    positions, \* at the broker: [ticket, side, vol, tag]
    pendings,  \* at the broker: [ticket, side, tag]
    tickets,   \* tickets given so far
    job        \* what each process is executing

trVars == <<positions, pendings, tickets, job>>

Sides == {"buy", "sell"}
Kinds == {"market", "pending", "closeAll", "close", "pct", "vol", "cancel", "sltp", "sltpPending",
          "combined", "combinedAll", "replace"}
Commands == [kind : Kinds, side : Sides, tag : Tags]
Volume == 1..(2 * MaxLots)

\* lists: sides still to be asked for; todo: what is still to be handled; left:
\* the volume still to be closed; failed: refused or gone; then: what follows
\* the closing; listed: what was found (history).
NoJob == [cmd |-> [kind |-> "market", side |-> "buy", tag |-> NoTag], busy |-> FALSE, lists |-> <<>>,
         todo |-> <<>>, left |-> 0, failed |-> {}, then |-> "nothing",
         listed |-> {}]

TrTypeOK ==
    /\ positions \subseteq [ticket : 1..MaxTickets, side : Sides, vol : Volume, tag : Tags]
    /\ pendings \subseteq [ticket : 1..MaxTickets, side : Sides, tag : Tags]
    /\ tickets \in 0..MaxTickets
    /\ job \in [TradeWorkers ->
                [cmd : Commands, busy : BOOLEAN, lists : Seq(Sides),
                 todo : Seq([ticket : 1..MaxTickets, vol : Nat]), left : Nat, failed : SUBSET (1..MaxTickets),
                 then : {"nothing", "order", "pending"}, listed : SUBSET (1..MaxTickets)]]

TrInit == positions = {} /\ pendings = {} /\ tickets = 0 /\ job = [w \in TradeWorkers |-> NoJob]

-----------------------------------------------------------------------------
\* "Determine open action": it asks whether the command ends in "openlong" or
\* "openshort", and the values of the combined commands do not.
FollowUp(kind) ==
    CASE kind = "market" -> "order"
      [] kind \in {"pending", "replace"} -> "pending"
      [] OTHER -> "nothing"

\* The sides whose positions or orders a command asks for.  SLTP of pending
\* orders compares their types with one that has a leading underscore.
Lists(cmd) ==
    CASE cmd.kind \in {"closeAll", "combinedAll"} -> <<"buy", "sell">>
      [] cmd.kind \in {"close", "combined", "pct", "vol", "cancel", "replace", "sltp"} -> <<cmd.side>>
      [] OTHER -> <<>>

\* execute_pinetunnel_command, execute_combined_action, execute_cancel_and_pending.
Dispatch(w, cmd) ==
    /\ ~job[w].busy
    /\ job' = [job EXCEPT ![w] =
                 [NoJob EXCEPT !.cmd = cmd, !.busy = TRUE, !.lists = Lists(cmd), !.then = FollowUp(cmd.kind)]]
    /\ UNCHANGED <<positions, pendings, tickets>>

\* Mutant: the comment is not looked at.
TaggedAny(cmd, p) == TRUE

\* "Filter by comment if provided"; cancelling and SLTP take no comment.
Tagged(cmd, p) == cmd.tag = NoTag \/ cmd.kind \in {"cancel", "replace", "sltp"} \/ p.tag = cmd.tag

\* get_positions and get_orders, filtered by side and comment.
Listed(cmd, side) ==
    LET cancels == cmd.kind \in {"cancel", "replace"}
        volume(p) == IF cancels THEN 0 ELSE p.vol
    IN  {[ticket |-> p.ticket, vol |-> volume(p)] :
           p \in {q \in (IF cancels THEN pendings ELSE positions) : q.side = side /\ Tagged(cmd, q)}}

\* Partial closes sort by ticket ("FIFO"), the others go by the terminal's order.
Sorted(s) == \A i, j \in DOMAIN s : i < j => s[i].ticket < s[j].ticket

Orderings(cmd, found) == {s \in SetToSeqs(found) : cmd.kind \in {"pct", "vol"} => Sorted(s)}

\* The volume of all, counted step by step.
Total(found) == Cardinality({u \in found \X Volume : u[2] <= u[1].vol})

Hundredths(steps) == 100 * steps

\* What there is to close: a share of the total, a volume, or all.
ToClose(cmd, found) ==
    CASE cmd.kind = "pct" -> Percent * Total(found)
      [] cmd.kind = "vol" -> Hundredths(1)
      [] OTHER -> Hundredths(Total(found))

List(w) ==
    /\ job[w].busy /\ job[w].todo = <<>> /\ job[w].lists # <<>>
    /\ LET cmd == job[w].cmd
           found == Listed(cmd, Head(job[w].lists))
       IN  \E s \in Orderings(cmd, found) :
             job' = [job EXCEPT ![w].lists = Tail(@), ![w].todo = s, ![w].left = ToClose(cmd, found),
                                ![w].listed = {p.ticket : p \in found}]
    /\ UNCHANGED <<positions, pendings, tickets>>

-----------------------------------------------------------------------------
Closes(cmd) == cmd.kind \in {"closeAll", "combinedAll", "close", "combined", "pct", "vol"}

\* Mutant: a position closed to its last step stays, with nothing in it.
CutLate(p, v) == IF v > Hundredths(p.vol) THEN {} ELSE {[p EXCEPT !.vol = @ - v \div 100]}

\* What is left of a position of which v was closed.
Cut(p, v) == IF v >= Hundredths(p.vol) THEN {} ELSE {[p EXCEPT !.vol = @ - v \div 100]}

\* "if volume > pos.volume: volume = pos.volume"; the terminal refuses a volume
\* that is no whole number of steps.
Tradable(p, v) == v >= Hundredths(p.vol) \/ v % 100 = 0

Remaining(left, v) == left - v

\* close_position_partial for the next of the list, with the volume it had in
\* the list; it asks the terminal for the position again, and is done with the
\* command where nothing is left to close.
ClosePartial(w) ==
    LET j == job[w]
        has == Hundredths(Head(j.todo).vol)
        want == IF has < j.left THEN has ELSE j.left
        open == {p \in positions : p.ticket = Head(j.todo).ticket}
    IN  /\ j.todo # <<>> /\ Closes(j.cmd) /\ j.left > 0
        /\ \/ \E p \in open :
                /\ Tradable(p, want)
                /\ positions' = (positions \ {p}) \cup Cut(p, want)
                /\ job' = [job EXCEPT ![w].todo = Tail(@), ![w].left = Remaining(@, want)]
           \/ /\ positions' = positions
              /\ job' = [job EXCEPT ![w].todo = Tail(@), ![w].failed = @ \cup {Head(j.todo).ticket}]
        /\ UNCHANGED <<pendings, tickets>>

Enough(w) ==
    /\ job[w].todo # <<>> /\ Closes(job[w].cmd) /\ job[w].left <= 0
    /\ job' = [job EXCEPT ![w].todo = <<>>]
    /\ UNCHANGED <<positions, pendings, tickets>>

\* cancel_order.
CancelOrder(w) ==
    /\ job[w].todo # <<>> /\ job[w].cmd.kind \in {"cancel", "replace"}
    /\ job' = [job EXCEPT ![w].todo = Tail(@)]
    /\ \/ pendings' = {o \in pendings : o.ticket # Head(job[w].todo).ticket}
       \/ pendings' = pendings
    /\ UNCHANGED <<positions, tickets>>

\* modify_position: the stops are not told apart here.
ModifyPosition(w) ==
    /\ job[w].todo # <<>> /\ job[w].cmd.kind = "sltp"
    /\ job' = [job EXCEPT ![w].todo = Tail(@)]
    /\ UNCHANGED <<positions, pendings, tickets>>

-----------------------------------------------------------------------------
\* calculate_position_size: rounded to the step and between the symbol's
\* minimum and the smaller of its and the manager's maximum.
Sized == 1..MaxLots

\* _calculate_volume and execute_market_order: 0.01 stands for "not sized yet"
\* and is then multiplied with a risk of up to 10.
Volumes == LET risk == 2 IN {IF v = 1 THEN risk ELSE v : v \in Sized} \cup {1}

ReadyFor(w, then) ==
    job[w].busy /\ job[w].todo = <<>> /\ job[w].lists = <<>> /\ job[w].then = then

\* The order is sent; the broker may refuse it.
Sent(w) == job' = [job EXCEPT ![w].then = "nothing"]

ExecuteOrder(w) ==
    /\ ReadyFor(w, "order") /\ Sent(w) /\ UNCHANGED pendings
    /\ \/ /\ tickets < MaxTickets /\ tickets' = tickets + 1
          /\ \E v \in Volumes :
                positions' = positions \cup
                    {[ticket |-> tickets', side |-> job[w].cmd.side, vol |-> v, tag |-> job[w].cmd.tag]}
       \/ UNCHANGED <<positions, tickets>>

PlacePendingOrder(w) ==
    /\ ReadyFor(w, "pending") /\ Sent(w) /\ UNCHANGED positions
    /\ \/ /\ tickets < MaxTickets /\ tickets' = tickets + 1
          /\ pendings' = pendings \cup
                {[ticket |-> tickets', side |-> job[w].cmd.side, tag |-> job[w].cmd.tag]}
       \/ UNCHANGED <<pendings, tickets>>

Done(w) ==
    /\ ReadyFor(w, "nothing") /\ job' = [job EXCEPT ![w] = NoJob]
    /\ UNCHANGED <<positions, pendings, tickets>>

-----------------------------------------------------------------------------
\* The broker: a stop or a target is hit, a pending order is filled.
BrokerCloses ==
    /\ \E p \in positions : positions' = positions \ {p}
    /\ UNCHANGED <<pendings, tickets, job>>

BrokerFills ==
    /\ \E o \in pendings, v \in Sized :
          /\ pendings' = pendings \ {o}
          /\ positions' = positions \cup {[ticket |-> o.ticket, side |-> o.side, vol |-> v, tag |-> o.tag]}
    /\ UNCHANGED <<tickets, job>>

Trade(w) ==
    \/ \E cmd \in Commands : Dispatch(w, cmd)
    \/ List(w) \/ ClosePartial(w) \/ Enough(w) \/ CancelOrder(w) \/ ModifyPosition(w)
    \/ ExecuteOrder(w) \/ PlacePendingOrder(w) \/ Done(w)

TrNext == BrokerCloses \/ BrokerFills \/ \E w \in TradeWorkers : Trade(w)

TrSpec == TrInit /\ [][TrNext]_trVars

-----------------------------------------------------------------------------
\* While the broker closes and fills, and other processes open, close and cut
\* the same positions, a command closes or cuts positions of its side and its
\* strategy only, and a partial close comes to a position only when every older
\* one it found is gone or was refused.
StrategiesApart ==
    [][\A w \in TradeWorkers : ClosePartial(w) => \A p \in positions \ positions' :
          LET cmd == job[w].cmd
          IN  /\ cmd.tag = NoTag \/ p.tag = cmd.tag
              /\ cmd.kind \in {"closeAll", "combinedAll"} \/ p.side = cmd.side
              /\ cmd.kind \in {"pct", "vol"} =>
                    \A q \in positions :
                        q.ticket \in job[w].listed /\ q.ticket < p.ticket => q.ticket \in job[w].failed]_trVars

=============================================================================
