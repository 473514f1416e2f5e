--------------------------- MODULE TradingProofs ----------------------------
(*****************************************************************************)
(* Trading's type invariant and StrategiesApart, for any workers, tags and   *)
(* lots.  What makes the second inductive is what a worker knows of the      *)
(* positions it listed before its first order was sent: whatever was opened, *)
(* closed or filled meanwhile, a ticket it still has to close is of its side *)
(* and its strategy, holds no more than it held then, and nothing older is   *)
(* left out.                                                                 *)
(*****************************************************************************)
EXTENDS Trading, ListLemmas

USE TradingAssumption


\* A ticket is one position's or one pending order's.
TicketsUnique ==
    /\ IsFiniteSet(positions) /\ IsFiniteSet(pendings)
    /\ \A p \in positions : p.ticket <= tickets
    /\ \A o \in pendings : o.ticket <= tickets
    /\ \A p, q \in positions : p.ticket = q.ticket => p = q
    /\ \A o, r \in pendings : o.ticket = r.ticket => o = r
    /\ \A p \in positions, o \in pendings : p.ticket # o.ticket

\* A command that closes both sides.
CloseAll(w) == job[w].cmd.kind \in {"closeAll", "combinedAll"}

\* What a position must be like to be closed by w's command.
Matches(w, p) ==
    /\ job[w].cmd.tag = NoTag \/ p.tag = job[w].cmd.tag
    /\ CloseAll(w) \/ p.side = job[w].cmd.side

\* A closing command asks for its side only; what it found were positions, of
\* its side and its strategy, which have not grown; and a partial close has
\* everything it found still before it, in order, that is not gone or refused.
JobSound(w) ==
    Closes(job[w].cmd) =>
        /\ \A i \in DOMAIN job[w].lists : CloseAll(w) \/ job[w].lists[i] = job[w].cmd.side
        /\ \A t \in job[w].listed : t <= tickets /\ \A o \in pendings : o.ticket # t
        /\ \A i \in DOMAIN job[w].todo : job[w].todo[i].ticket \in job[w].listed
        /\ \A i \in DOMAIN job[w].todo : \A p \in positions :
              p.ticket = job[w].todo[i].ticket => Matches(w, p) /\ p.vol <= job[w].todo[i].vol
        /\ job[w].cmd.kind \in {"pct", "vol"} =>
              /\ Sorted(job[w].todo)
              /\ job[w].left > 0 => \A q \in positions : q.ticket \in job[w].listed =>
                    q.ticket \in job[w].failed \/ \E i \in DOMAIN job[w].todo : job[w].todo[i].ticket = q.ticket

TrInv == TrTypeOK /\ TicketsUnique /\ \A w \in TradeWorkers : JobSound(w)

\* The records of TrTypeOK: what a list found, a worker's job, a position, an order.
TrItem == [ticket : 1..MaxTickets, vol : Nat]
TrJob == [cmd : Commands, busy : BOOLEAN, lists : Seq(Sides),
        todo : Seq(TrItem), left : Nat, failed : SUBSET (1..MaxTickets),
        then : {"nothing", "order", "pending"}, listed : SUBSET (1..MaxTickets)]
TrPosition == [ticket : 1..MaxTickets, side : Sides, vol : Volume, tag : Tags]
TrOrder == [ticket : 1..MaxTickets, side : Sides, tag : Tags]

\* A job with another list to handle, volume to close and refusals.
JobBut(w, todo, left, failed) == [job[w] EXCEPT !.todo = todo, !.left = left, !.failed = failed]

\* TrTypeOK in their terms.
LEMMA TrTypes == TrTypeOK <=> /\ positions \subseteq TrPosition /\ pendings \subseteq TrOrder
                              /\ tickets \in 0..MaxTickets /\ job \in [TradeWorkers -> TrJob]
  BY DEF TrTypeOK, TrJob, TrItem, TrPosition, TrOrder

\* A worker without a command has a job in its type.
LEMMA NoJobTyped == NoJob \in TrJob
<1>1. [kind |-> "market", side |-> "buy", tag |-> NoTag] \in Commands
  BY DEF Commands, Kinds, Sides
<1>2. <<>> \in Seq(Sides) /\ <<>> \in Seq(TrItem)
  OBVIOUS
<1>3. {} \in SUBSET (1..MaxTickets) /\ 0 \in Nat
  OBVIOUS
<1> QED
  BY <1>1, <1>2, <1>3 DEF NoJob, TrJob

\* Nothing is open and nobody has a command in the initial state.
LEMMA TrInitHolds == TrInit => TrInv
<1> SUFFICES ASSUME TrInit PROVE TrInv
  OBVIOUS
<1>1. NoJob \in TrJob
  BY NoJobTyped
<1>2. job \in [TradeWorkers -> TrJob] /\ \A w \in TradeWorkers : job[w] = NoJob
  BY <1>1 DEF TrInit
<1>3. positions \subseteq TrPosition /\ pendings \subseteq TrOrder /\ tickets \in 0..MaxTickets
  BY DEF TrInit
<1>4. TicketsUnique
  BY FS_EmptySet DEF TrInit, TicketsUnique
<1>5. \A w \in TradeWorkers : JobSound(w)
  <2> SUFFICES ASSUME NEW w \in TradeWorkers PROVE ~Closes(job[w].cmd)
    BY DEF JobSound
  <2>1. job[w].cmd.kind = "market"
    BY <1>2 DEF NoJob
  <2> QED
    BY <2>1 DEF Closes
<1> QED
  BY <1>2, <1>3, <1>4, <1>5, TrTypes DEF TrInv

\* Positions shrink, or are new, or were orders: none of that takes from a
\* command what it knows of those it found.
LEMMA WorldMoves ==
    ASSUME TrInv, TrTypeOK', NEW w \in TradeWorkers, tickets <= tickets',
           job'[w].cmd = job[w].cmd, job'[w].lists = job[w].lists, job'[w].todo = job[w].todo,
           job'[w].left = job[w].left, job'[w].failed = job[w].failed, job'[w].listed = job[w].listed,
           \A p \in positions' :
              \/ \E q \in positions : p.ticket = q.ticket /\ p.side = q.side /\ p.tag = q.tag /\ p.vol <= q.vol
              \/ p.ticket > tickets
              \/ \E o \in pendings : o.ticket = p.ticket,
           \A o \in pendings' : o \in pendings \/ o.ticket > tickets
    PROVE  JobSound(w)'
<1> SUFFICES ASSUME Closes(job[w].cmd) PROVE JobSound(w)'
  BY DEF JobSound
<1> DEFINE j == job[w]
<1>1. /\ j \in TrJob /\ positions \subseteq TrPosition /\ positions' \subseteq TrPosition
      /\ pendings \subseteq TrOrder /\ tickets \in Nat /\ tickets' \in Nat
  <2>1. j \in TrJob /\ positions \subseteq TrPosition /\ pendings \subseteq TrOrder
    BY DEF TrInv, TrTypeOK, TrPosition, TrOrder, TrJob, TrItem
  <2>2. positions' \subseteq TrPosition
    BY DEF TrTypeOK, TrPosition
  <2>3. tickets \in Nat /\ tickets' \in Nat
    BY DEF TrInv, TrTypeOK
  <2> QED
    BY <2>1, <2>2, <2>3
<1>2. /\ \A i \in DOMAIN j.lists : CloseAll(w) \/ j.lists[i] = j.cmd.side
      /\ \A t \in j.listed : t <= tickets /\ \A o \in pendings : o.ticket # t
      /\ \A i \in DOMAIN j.todo : j.todo[i].ticket \in j.listed
      /\ \A i \in DOMAIN j.todo : \A p \in positions :
              p.ticket = j.todo[i].ticket => Matches(w, p) /\ p.vol <= j.todo[i].vol
      /\ j.cmd.kind \in {"pct", "vol"} =>
              /\ Sorted(j.todo)
              /\ j.left > 0 => \A q \in positions : q.ticket \in j.listed =>
                    q.ticket \in j.failed \/ \E i \in DOMAIN j.todo : j.todo[i].ticket = q.ticket
  BY DEF TrInv, JobSound
<1>3. j.listed \subseteq 1..MaxTickets /\ \A i \in DOMAIN j.todo : j.todo[i] \in TrItem
  <2>1. j.todo \in Seq(TrItem) /\ j.listed \subseteq 1..MaxTickets
    BY <1>1 DEF TrJob
  <2> QED
    BY <2>1, ElementOfSeq, LenProperties
<1>4. \A t \in j.listed : t <= tickets' /\ \A o \in pendings' : o.ticket # t
  BY <1>1, <1>2, <1>3
<1>5. \A p \in positions' : p.ticket \in j.listed =>
        \E q \in positions : p.ticket = q.ticket /\ p.side = q.side /\ p.tag = q.tag /\ p.vol <= q.vol
  BY <1>1, <1>2, <1>3
<1>6. ASSUME NEW i \in DOMAIN j.todo, NEW p \in positions', p.ticket = j.todo[i].ticket
      PROVE  Matches(w, p)' /\ p.vol <= j.todo[i].vol
  <2>1. PICK q \in positions : p.ticket = q.ticket /\ p.side = q.side /\ p.tag = q.tag /\ p.vol <= q.vol
    BY <1>2, <1>5, <1>6
  <2>2. Matches(w, q) /\ q.vol <= j.todo[i].vol
    BY <1>2, <1>6, <2>1
  <2>3. p.vol \in Int /\ q.vol \in Int /\ j.todo[i].vol \in Int
    BY <1>1, <1>3 DEF TrPosition, Volume, TrItem
  <2> QED
    BY <1>1, <2>1, <2>2, <2>3 DEF Matches, CloseAll
<1>7. \A q \in positions' : q.ticket \in j.listed => \E r \in positions : r.ticket = q.ticket
  BY <1>5
<1>8. CloseAll(w)' = CloseAll(w)
  BY DEF CloseAll
<1>9. /\ job'[w].cmd = j.cmd /\ job'[w].lists = j.lists /\ job'[w].todo = j.todo
      /\ job'[w].left = j.left /\ job'[w].failed = j.failed /\ job'[w].listed = j.listed
  OBVIOUS
<1> HIDE DEF j
<1> QED
  BY <1>9, <1>2, <1>4, <1>6, <1>7, <1>8 DEF JobSound

-----------------------------------------------------------------------------
(* The steps of a worker.                                                  *)

\* The fields of a worker's job.
LEMMA JobFields ==
    ASSUME TrInv, NEW w \in TradeWorkers
    PROVE  /\ job \in [TradeWorkers -> TrJob] /\ job[w] \in TrJob
           /\ job[w].cmd \in Commands /\ job[w].busy \in BOOLEAN /\ job[w].lists \in Seq(Sides)
           /\ job[w].todo \in Seq(TrItem) /\ job[w].left \in Nat
           /\ job[w].failed \subseteq 1..MaxTickets /\ job[w].then \in {"nothing", "order", "pending"}
           /\ job[w].listed \subseteq 1..MaxTickets
<1>1. job \in [TradeWorkers -> TrJob]
  BY TrTypes DEF TrInv
<1>2. job[w] \in TrJob
  BY <1>1
<1> QED
  BY <1>1, <1>2 DEF TrJob

\* A step of one worker at the terminal, which the others only see there.
LEMMA StepOfOne ==
    ASSUME TrInv, NEW w \in TradeWorkers, NEW j \in TrJob, job' = [job EXCEPT ![w] = j],
           positions' \subseteq TrPosition, pendings' \subseteq TrOrder, tickets' \in 0..MaxTickets, tickets <= tickets',
           TicketsUnique', JobSound(w)',
           \A p \in positions' :
              \/ \E q \in positions : p.ticket = q.ticket /\ p.side = q.side /\ p.tag = q.tag /\ p.vol <= q.vol
              \/ p.ticket > tickets,
           \A o \in pendings' : o \in pendings \/ o.ticket > tickets
    PROVE  TrInv'
<1>1. job' \in [TradeWorkers -> TrJob] /\ \A v \in TradeWorkers \ {w} : job'[v] = job[v]
  BY JobFields
<1>2. TrTypeOK'
  BY <1>1, TrTypes DEF TrTypeOK, TrJob, TrPosition, TrOrder, TrItem
<1>3. ASSUME NEW v \in TradeWorkers \ {w} PROVE JobSound(v)'
  <2>1. job'[v] = job[v]
    BY <1>1
  <2> QED
    BY <1>2, <2>1, WorldMoves
<1> QED
  BY <1>2, <1>3 DEF TrInv

\* One step per action: a worker takes a command,
LEMMA DispatchStep == ASSUME TrInv, NEW w \in TradeWorkers, NEW cmd \in Commands, Dispatch(w, cmd) PROVE TrInv'
<1> DEFINE j == [NoJob EXCEPT !.cmd = cmd, !.busy = TRUE, !.lists = Lists(cmd), !.then = FollowUp(cmd.kind)]
<1>1. job' = [job EXCEPT ![w] = j] /\ UNCHANGED <<positions, pendings, tickets>>
  BY DEF Dispatch
<1>2. cmd.kind \in Kinds /\ cmd.side \in Sides
  BY DEF Commands
<1>3. /\ Lists(cmd) \in Seq(Sides)
      /\ cmd.kind \notin {"closeAll", "combinedAll"} => \A i \in DOMAIN Lists(cmd) : Lists(cmd)[i] = cmd.side
  <2>1. "buy" \in Sides /\ "sell" \in Sides
    BY DEF Sides
  <2>2. <<"buy", "sell">> \in Seq(Sides) /\ <<cmd.side>> \in Seq(Sides) /\ <<>> \in Seq(Sides)
    BY <1>2, <2>1
  <2>3. CASE cmd.kind \in {"closeAll", "combinedAll"}
    BY <2>2, <2>3 DEF Lists
  <2>4. CASE cmd.kind \in {"close", "combined", "pct", "vol", "cancel", "replace", "sltp"}
    <3>1. Lists(cmd) = <<cmd.side>>
      BY <2>4 DEF Lists
    <3> QED
      BY <2>2, <3>1
  <2>5. CASE cmd.kind \in {"market", "pending", "sltpPending"}
    <3>1. Lists(cmd) = <<>>
      BY <2>5 DEF Lists
    <3> QED
      BY <2>2, <3>1
  <2> QED
    BY <1>2, <2>3, <2>4, <2>5 DEF Kinds
<1>4. FollowUp(cmd.kind) \in {"nothing", "order", "pending"}
  BY <1>2 DEF FollowUp, Kinds
<1>5. /\ j.cmd = cmd /\ j.busy = TRUE /\ j.lists = Lists(cmd) /\ j.then = FollowUp(cmd.kind)
      /\ j.todo = <<>> /\ j.left = 0 /\ j.failed = {} /\ j.listed = {}
  BY DEF NoJob
<1>6. j \in TrJob
  BY <1>3, <1>4, NoJobTyped DEF TrJob
<1> HIDE DEF j
<1>7. job'[w] = j
  BY <1>1, JobFields
<1>8. JobSound(w)'
  BY <1>3, <1>5, <1>7 DEF JobSound, CloseAll, Sorted
<1>9. TicketsUnique'
  BY <1>1 DEF TrInv, TicketsUnique
<1>10. positions \subseteq TrPosition /\ pendings \subseteq TrOrder /\ tickets \in 0..MaxTickets
  BY TrTypes DEF TrInv
<1>11. \A p \in positions : p.vol \in Int
  BY <1>10 DEF TrPosition, Volume
<1>12. tickets <= tickets' /\ \A p \in positions' :
         \E q \in positions : p.ticket = q.ticket /\ p.side = q.side /\ p.tag = q.tag /\ p.vol <= q.vol
  BY <1>1, <1>10, <1>11
<1>13. positions' \subseteq TrPosition /\ pendings' \subseteq TrOrder /\ tickets' \in 0..MaxTickets
  BY <1>1, <1>10
<1>14. \A o \in pendings' : o \in pendings
  BY <1>1
<1> QED
  BY <1>1, <1>6, <1>8, <1>9, <1>12, <1>13, <1>14, StepOfOne

\* The volume to close is a number of lots.
LEMMA VolumeCounted ==
    ASSUME TrInv, NEW found, IsFiniteSet(found)
    PROVE  Total(found) \in Nat
<1>1. IsFiniteSet(Volume)
  BY FS_Interval DEF Volume
<1>2. IsFiniteSet(found \X Volume)
  BY <1>1, FS_Product
<1>3. IsFiniteSet({u \in found \X Volume : u[2] <= u[1].vol})
  BY <1>2, FS_Subset
<1> QED
  BY <1>3, FS_CardinalityType DEF Total

\* What a list finds: positions, or orders, of the side and the strategy.
LEMMA FoundOf ==
    ASSUME TrInv, NEW cmd \in Commands, NEW side \in Sides
    PROVE  /\ IsFiniteSet(Listed(cmd, side))
           /\ Listed(cmd, side) \subseteq TrItem
           /\ Closes(cmd) => \A f \in Listed(cmd, side) : \E p \in positions :
                 f = [ticket |-> p.ticket, vol |-> p.vol] /\ p.side = side /\ (cmd.tag = NoTag \/ p.tag = cmd.tag)
<1> DEFINE cancels == cmd.kind \in {"cancel", "replace"}
           from == IF cancels THEN pendings ELSE positions
           of == {q \in from : q.side = side /\ Tagged(cmd, q)}
           volume(p) == IF cancels THEN 0 ELSE p.vol
<1>1. positions \subseteq TrPosition /\ pendings \subseteq TrOrder
  BY TrTypes DEF TrInv
<1>2. Listed(cmd, side) = {[ticket |-> p.ticket, vol |-> volume(p)] : p \in of}
  BY DEF Listed
<1>3. IsFiniteSet(of)
  <2>1. IsFiniteSet(from)
    BY DEF TrInv, TicketsUnique
  <2> QED
    BY <2>1, FS_Subset
<1>4. IsFiniteSet(Listed(cmd, side))
  <2> DEFINE f == [p \in of |-> [ticket |-> p.ticket, vol |-> volume(p)]]
  <2>1. f \in Surjection(of, Listed(cmd, side))
    BY <1>2 DEF Surjection
  <2> QED
    BY <1>3, <2>1, FS_Surjection
<1>5. \A p \in of : p.ticket \in 1..MaxTickets /\ volume(p) \in Nat
  BY <1>1 DEF TrPosition, TrOrder, Volume
<1>6. Listed(cmd, side) \subseteq TrItem
  BY <1>2, <1>5 DEF TrItem
<1>7. Closes(cmd) => ~cancels /\ \A p \in positions : Tagged(cmd, p) <=> cmd.tag = NoTag \/ p.tag = cmd.tag
  BY DEF Closes, Tagged
<1> QED
  BY <1>2, <1>4, <1>6, <1>7

\* lists what it is to close,
LEMMA ListStep == ASSUME TrInv, NEW w \in TradeWorkers, List(w) PROVE TrInv'
<1> DEFINE cmd == job[w].cmd
           found == Listed(cmd, Head(job[w].lists))
<1>1. PICK s \in Orderings(cmd, found) :
        job' = [job EXCEPT ![w].lists = Tail(@), ![w].todo = s, ![w].left = ToClose(cmd, found),
                           ![w].listed = {p.ticket : p \in found}]
  BY DEF List
<1>2. UNCHANGED <<positions, pendings, tickets>> /\ job[w].lists # <<>>
  BY DEF List
<1>3. cmd \in Commands /\ Head(job[w].lists) \in Sides /\ Tail(job[w].lists) \in Seq(Sides)
  BY <1>2, JobFields
<1>4. /\ IsFiniteSet(found) /\ found \subseteq TrItem
      /\ Closes(cmd) => \A f \in found : \E p \in positions :
            /\ f = [ticket |-> p.ticket, vol |-> p.vol] /\ p.side = Head(job[w].lists)
            /\ cmd.tag = NoTag \/ p.tag = cmd.tag
  BY <1>3, FoundOf
<1>5. s \in Seq(found) /\ \A x \in found : \E i \in DOMAIN s : s[i] = x
  BY <1>4, ListsOf DEF Orderings
<1>6. ToClose(cmd, found) \in Nat
  <2>1. Total(found) \in Nat
    BY <1>4, VolumeCounted
  <2>2. Percent * Total(found) \in Nat /\ 100 * Total(found) \in Nat
    BY <2>1
  <2> QED
    BY <2>1, <2>2 DEF ToClose, Hundredths
<1> HIDE DEF found
<1>7. s \in Seq(TrItem) /\ {p.ticket : p \in found} \in SUBSET (1..MaxTickets)
  <2>3. s \in Seq(TrItem)
    BY <1>4, <1>5, WiderSeq
  <2>4. \A f \in found : f.ticket \in 1..MaxTickets
    BY <1>4 DEF TrItem
  <2> QED
    BY <2>3, <2>4
<1> DEFINE j == [job[w] EXCEPT !.lists = Tail(@), !.todo = s, !.left = ToClose(cmd, found),
                               !.listed = {p.ticket : p \in found}]
<1>8. job' = [job EXCEPT ![w] = j]
  BY <1>1, JobFields DEF TrJob
<1>9. j \in TrJob
  BY ZenonT(30), <1>3, <1>6, <1>7, JobFields DEF TrJob
<1>10. /\ j.cmd = cmd /\ j.lists = Tail(job[w].lists) /\ j.todo = s
       /\ j.failed = job[w].failed /\ j.listed = {p.ticket : p \in found}
  BY JobFields DEF TrJob
<1> HIDE DEF j
<1>11. job'[w] = j
  BY <1>8, JobFields
<1>12. ASSUME Closes(cmd) PROVE JobSound(w)'
  <2>1. /\ \A i \in DOMAIN job[w].lists : CloseAll(w) \/ job[w].lists[i] = cmd.side
    BY <1>12 DEF TrInv, JobSound
  <2>2. CloseAll(w) \/ Head(job[w].lists) = cmd.side
    BY <1>2, <2>1, JobFields
  <2>3. \A i \in DOMAIN j.lists : CloseAll(w) \/ j.lists[i] = cmd.side
    <3>1. \A i \in 1..Len(Tail(job[w].lists)) : Tail(job[w].lists)[i] = job[w].lists[i + 1] /\ i + 1 \in 1..Len(job[w].lists)
      BY <1>2, JobFields
    <3> QED
      BY <1>3, <1>10, <2>1, <3>1, JobFields
  <2>4. positions \subseteq TrPosition /\ pendings \subseteq TrOrder
    BY TrTypes DEF TrInv
  <2>5. \A t \in j.listed : t <= tickets /\ \A o \in pendings : o.ticket # t
    BY <1>4, <1>10, <1>12 DEF TrInv, TicketsUnique
  <2>6. \A i \in DOMAIN s : s[i] \in found
    BY <1>5, ElementOfSeq, LenProperties
  <2>7. \A i \in DOMAIN j.todo : j.todo[i].ticket \in j.listed
    BY <1>10, <2>6
  <2>8. ASSUME NEW i \in DOMAIN j.todo, NEW p \in positions, p.ticket = j.todo[i].ticket
        PROVE  Matches(w, p) /\ p.vol <= j.todo[i].vol
    <3>1. PICK q \in positions : /\ s[i] = [ticket |-> q.ticket, vol |-> q.vol] /\ q.side = Head(job[w].lists)
                                 /\ cmd.tag = NoTag \/ q.tag = cmd.tag
      BY <1>4, <1>10, <1>12, <2>6
    <3>2. p = q
      BY <1>10, <2>8, <3>1 DEF TrInv, TicketsUnique
    <3>3. p.vol \in Int
      BY <2>4 DEF TrPosition, Volume
    <3> QED
      BY <1>10, <2>2, <3>1, <3>2, <3>3 DEF Matches
  <2>9. cmd.kind \in {"pct", "vol"} => Sorted(s)
    BY DEF Orderings
  <2>10. \A q \in positions : q.ticket \in j.listed => \E i \in DOMAIN j.todo : j.todo[i].ticket = q.ticket
    BY <1>5, <1>10
  <2>11. CloseAll(w)' = CloseAll(w) /\ \A p \in positions : Matches(w, p) => Matches(w, p)'
    BY <1>10, <1>11 DEF CloseAll, Matches
  <2> QED
    BY ZenonT(30), <1>2, <1>10, <1>11, <2>3, <2>5, <2>7, <2>8, <2>9, <2>10, <2>11 DEF JobSound
<1>13. JobSound(w)'
  BY <1>10, <1>11, <1>12 DEF JobSound
<1>14. TicketsUnique'
  BY <1>2 DEF TrInv, TicketsUnique
<1>15. positions \subseteq TrPosition /\ pendings \subseteq TrOrder /\ tickets \in 0..MaxTickets
  BY TrTypes DEF TrInv
<1>16. \A p \in positions : p.vol \in Int
  BY <1>15 DEF TrPosition, Volume
<1>17. tickets <= tickets' /\ \A p \in positions' :
         \E q \in positions : p.ticket = q.ticket /\ p.side = q.side /\ p.tag = q.tag /\ p.vol <= q.vol
  BY <1>2, <1>15, <1>16
<1>18. positions' \subseteq TrPosition /\ pendings' \subseteq TrOrder /\ tickets' \in 0..MaxTickets
  BY <1>2, <1>15
<1>19. \A o \in pendings' : o \in pendings
  BY <1>2
<1> QED
  BY <1>8, <1>9, <1>13, <1>14, <1>17, <1>18, <1>19, StepOfOne
\* What is still to be handled, one step shorter; what of it is left open was
\* refused, or nothing is to be closed any more.
LEMMA TailStep ==
    ASSUME TrInv, NEW w \in TradeWorkers, NEW j \in TrJob, job' = [job EXCEPT ![w] = j], job[w].todo # <<>>,
           j.cmd = job[w].cmd, j.lists = job[w].lists, j.listed = job[w].listed, j.todo = Tail(job[w].todo),
           job[w].failed \subseteq j.failed,
           positions' \subseteq TrPosition, pendings' \subseteq pendings, tickets' = tickets, TicketsUnique',
           \A p \in positions' : \E q \in positions :
              p.ticket = q.ticket /\ p.side = q.side /\ p.tag = q.tag /\ p.vol <= q.vol,
           j.cmd.kind \in {"pct", "vol"} /\ j.left > 0 =>
              /\ job[w].left > 0
              /\ \A p \in positions' : p.ticket = Head(job[w].todo).ticket => p.ticket \in j.failed
    PROVE  TrInv'
<1>1. positions \subseteq TrPosition /\ pendings \subseteq TrOrder /\ tickets \in 0..MaxTickets
  BY TrTypes DEF TrInv
<1>2. /\ j.todo \in Seq(TrItem)
      /\ \A i \in 1..Len(j.todo) : j.todo[i] = job[w].todo[i + 1] /\ i + 1 \in 1..Len(job[w].todo)
      /\ \A i \in 1..Len(job[w].todo) : i = 1 \/ (i - 1 \in 1..Len(j.todo) /\ j.todo[i - 1] = job[w].todo[i])
      /\ \A i \in 1..Len(job[w].todo) : job[w].todo[i].vol \in Nat
      /\ DOMAIN j.todo = 1..Len(j.todo) /\ DOMAIN job[w].todo = 1..Len(job[w].todo)
      /\ Head(job[w].todo) = job[w].todo[1]
      /\ \A i \in 1..Len(j.todo) : i \in Nat
  <2> DEFINE s == job[w].todo
  <2>1. s \in Seq(TrItem) /\ s # <<>> /\ j.todo = Tail(s)
    BY JobFields
  <2> HIDE DEF s
  <2>2. /\ Tail(s) \in Seq(TrItem) /\ Head(s) = s[1]
        /\ DOMAIN s = 1..Len(s) /\ DOMAIN Tail(s) = 1..Len(Tail(s))
        /\ \A i \in DOMAIN s : i \in Nat /\ s[i] \in TrItem
        /\ \A i \in DOMAIN Tail(s) : i + 1 \in DOMAIN s /\ Tail(s)[i] = s[i + 1]
        /\ \A i \in DOMAIN s : i = 1 \/ (i - 1 \in DOMAIN Tail(s) /\ Tail(s)[i - 1] = s[i])
    BY <2>1, TailOf
  <2>3. \A i \in DOMAIN s : s[i].vol \in Nat
    BY <2>2 DEF TrItem
  <2> QED
    BY <2>1, <2>2, <2>3 DEF s
<1>3. job'[w] = j
  BY JobFields
<1>4. ASSUME Closes(j.cmd) PROVE JobSound(w)'
  <2>1. /\ \A i \in DOMAIN j.lists : CloseAll(w) \/ j.lists[i] = j.cmd.side
        /\ \A t \in j.listed : t <= tickets /\ \A o \in pendings : o.ticket # t
        /\ \A i \in 1..Len(job[w].todo) : job[w].todo[i].ticket \in j.listed
        /\ \A i \in 1..Len(job[w].todo) : \A p \in positions :
              p.ticket = job[w].todo[i].ticket => Matches(w, p) /\ p.vol <= job[w].todo[i].vol
        /\ j.cmd.kind \in {"pct", "vol"} =>
              /\ Sorted(job[w].todo)
              /\ job[w].left > 0 => \A q \in positions : q.ticket \in j.listed =>
                    q.ticket \in job[w].failed \/ \E i \in 1..Len(job[w].todo) : job[w].todo[i].ticket = q.ticket
    <3>1. JobSound(w) /\ Closes(job[w].cmd)
      BY <1>4 DEF TrInv
    <3>2. DOMAIN job[w].todo = 1..Len(job[w].todo)
      BY <1>2
    <3> QED
      BY <3>1, <3>2 DEF JobSound
  <2>2. CloseAll(w)' = CloseAll(w)
    BY <1>3 DEF CloseAll
  <2>3. \A i \in 1..Len(j.todo) : j.todo[i].ticket \in j.listed
    BY <1>2, <2>1
  <2>4. ASSUME NEW i \in 1..Len(j.todo), NEW p \in positions', p.ticket = j.todo[i].ticket
        PROVE  Matches(w, p)' /\ p.vol <= j.todo[i].vol
    <3>1. PICK q \in positions : p.ticket = q.ticket /\ p.side = q.side /\ p.tag = q.tag /\ p.vol <= q.vol
      OBVIOUS
    <3>2. j.todo[i] = job[w].todo[i + 1] /\ i + 1 \in 1..Len(job[w].todo) /\ j.todo[i].vol \in Nat
      BY <1>2
    <3>3. Matches(w, q) /\ q.vol <= j.todo[i].vol
      BY <2>1, <2>4, <3>1, <3>2
    <3>4. p.vol \in Int /\ q.vol \in Int
      BY <1>1 DEF TrPosition, Volume
    <3> QED
      BY <1>3, <2>2, <3>1, <3>2, <3>3, <3>4 DEF Matches
  <2>5. ASSUME j.cmd.kind \in {"pct", "vol"} PROVE Sorted(j.todo)
    <3>1. Sorted(job[w].todo)
      BY <2>1, <2>5
    <3>2. ASSUME NEW a \in 1..Len(j.todo), NEW b \in 1..Len(j.todo), a < b PROVE j.todo[a].ticket < j.todo[b].ticket
      <4>1. a + 1 < b + 1 /\ a + 1 \in DOMAIN job[w].todo /\ b + 1 \in DOMAIN job[w].todo
        BY <3>2, <1>2
      <4>2. job[w].todo[a + 1].ticket < job[w].todo[b + 1].ticket
        BY <3>1, <4>1 DEF Sorted
      <4> QED
        BY <1>2, <4>2
    <3> QED
      BY <1>2, <3>2 DEF Sorted
  <2>6. ASSUME j.cmd.kind \in {"pct", "vol"}, j.left > 0, NEW p \in positions', p.ticket \in j.listed
        PROVE  p.ticket \in j.failed \/ \E i \in 1..Len(j.todo) : j.todo[i].ticket = p.ticket
    <3>1. PICK q \in positions : p.ticket = q.ticket
      OBVIOUS
    <3>2. p.ticket \in job[w].failed \/ \E i \in 1..Len(job[w].todo) : job[w].todo[i].ticket = p.ticket
      BY <2>1, <2>6, <3>1
    <3>3. ASSUME NEW i \in 1..Len(job[w].todo), job[w].todo[i].ticket = p.ticket
          PROVE  p.ticket \in j.failed \/ \E k \in 1..Len(j.todo) : j.todo[k].ticket = p.ticket
      <4>1. CASE i = 1
        BY <1>2, <2>6, <3>3, <4>1
      <4>2. CASE i # 1
        <5>1. i - 1 \in 1..Len(j.todo) /\ j.todo[i - 1] = job[w].todo[i]
          BY <1>2, <4>2
        <5> QED
          BY <3>3, <5>1
      <4> QED
        BY <4>1, <4>2
    <3> QED
      BY <3>2, <3>3
  <2>7. \A t \in j.listed : t <= tickets' /\ \A o \in pendings' : o.ticket # t
    BY <2>1
  <2>8. DOMAIN j.todo = 1..Len(j.todo)
    BY <1>2
  <2>11. job'[w] = j
    BY <1>3
  <2>9. /\ \A i \in DOMAIN j.lists : CloseAll(w)' \/ j.lists[i] = j.cmd.side
        /\ \A i \in DOMAIN j.todo : j.todo[i].ticket \in j.listed
        /\ \A i \in DOMAIN j.todo : \A p \in positions' :
              p.ticket = j.todo[i].ticket => Matches(w, p)' /\ p.vol <= j.todo[i].vol
    BY <2>1, <2>2, <2>3, <2>4, <2>8
  <2>10. j.cmd.kind \in {"pct", "vol"} =>
              /\ Sorted(j.todo)
              /\ j.left > 0 => \A q \in positions' : q.ticket \in j.listed =>
                    q.ticket \in j.failed \/ \E i \in DOMAIN j.todo : j.todo[i].ticket = q.ticket
    BY <2>5, <2>6, <2>8
  <2>12. \A i \in DOMAIN job'[w].lists : CloseAll(w)' \/ job'[w].lists[i] = job'[w].cmd.side
    BY <2>9, <2>11
  <2>13. \A t \in job'[w].listed : t <= tickets' /\ \A o \in pendings' : o.ticket # t
    BY <2>7, <2>11
  <2>14. /\ \A i \in DOMAIN job'[w].todo : job'[w].todo[i].ticket \in job'[w].listed
         /\ \A i \in DOMAIN job'[w].todo : \A p \in positions' :
              p.ticket = job'[w].todo[i].ticket => Matches(w, p)' /\ p.vol <= job'[w].todo[i].vol
    BY <2>9, <2>11
  <2>17. /\ job'[w].todo = j.todo /\ job'[w].left = j.left /\ job'[w].listed = j.listed
         /\ job'[w].failed = j.failed /\ job'[w].cmd = j.cmd
    BY <2>11
  <2>18. job'[w].cmd.kind \in {"pct", "vol"} => Sorted(job'[w].todo)
    BY <2>10, <2>11, <2>17 DEF Sorted
  <2>15. job'[w].cmd.kind \in {"pct", "vol"} =>
              /\ job'[w].left > 0 => \A q \in positions' : q.ticket \in job'[w].listed =>
                    q.ticket \in job'[w].failed \/ \E i \in DOMAIN job'[w].todo : job'[w].todo[i].ticket = q.ticket
    <3> SUFFICES ASSUME job'[w].cmd.kind \in {"pct", "vol"}, job'[w].left > 0,
                        NEW q \in positions', q.ticket \in job'[w].listed
                 PROVE  q.ticket \in job'[w].failed \/ \E i \in DOMAIN job'[w].todo : job'[w].todo[i].ticket = q.ticket
      OBVIOUS
    <3>1. q.ticket \in j.failed \/ \E i \in DOMAIN j.todo : j.todo[i].ticket = q.ticket
      BY <2>10, <2>17
    <3> QED
      BY <2>17, <3>1
  <2>16. Sorted(job[w].todo)' <=> Sorted(job'[w].todo)
    BY DEF Sorted
  <2> QED
    BY <2>12, <2>13, <2>14, <2>15, <2>16, <2>18 DEF JobSound
<1>5. JobSound(w)'
  BY <1>3, <1>4 DEF JobSound
<1>6. tickets <= tickets' /\ tickets' \in 0..MaxTickets /\ pendings' \subseteq TrOrder
  BY <1>1
<1> QED
  BY <1>5, <1>6, StepOfOne

\* The fields of a job that another list, volume and refusals were put in.
LEMMA JobWith ==
    ASSUME TrInv, NEW w \in TradeWorkers, NEW todo \in Seq(TrItem),
           NEW left \in Nat, NEW failed \in SUBSET (1..MaxTickets)
    PROVE  LET j == JobBut(w, todo, left, failed)
           IN  /\ j \in TrJob /\ j.cmd = job[w].cmd /\ j.lists = job[w].lists /\ j.listed = job[w].listed
               /\ j.todo = todo /\ j.left = left /\ j.failed = failed
<1>1. job[w] \in TrJob
  BY JobFields
<1> QED
  BY <1>1 DEF TrJob, JobBut

\* closes from the oldest on,
LEMMA ClosePartialStep == ASSUME TrInv, NEW w \in TradeWorkers, ClosePartial(w) PROVE TrInv'
<1> DEFINE jw == job[w]
           head == Head(jw.todo)
           has == Hundredths(head.vol)
           want == IF has < jw.left THEN has ELSE jw.left
<1>1. /\ jw.todo # <<>> /\ Closes(jw.cmd) /\ jw.left > 0 /\ jw.left \in Nat /\ UNCHANGED <<pendings, tickets>>
      /\ Tail(jw.todo) \in Seq(TrItem) /\ head \in TrItem
      /\ head = jw.todo[1] /\ 1 \in DOMAIN jw.todo
  <2>1. /\ jw.todo # <<>> /\ Closes(jw.cmd) /\ jw.left > 0 /\ UNCHANGED <<pendings, tickets>>
    BY DEF ClosePartial
  <2>2. jw.todo \in Seq(TrItem) /\ jw.left \in Nat
    BY JobFields
  <2> QED
    BY <2>1, <2>2, TailOf
<1>2. positions \subseteq TrPosition /\ pendings \subseteq TrOrder
  BY TrTypes DEF TrInv
<1>3. \A p \in positions : p.vol \in Nat
  BY <1>2 DEF TrPosition, Volume
<1>4. ASSUME NEW p \in positions, p.ticket = head.ticket, positions' = (positions \ {p}) \cup Cut(p, want),
             job' = [job EXCEPT ![w].todo = Tail(@), ![w].left = Remaining(@, want)]
      PROVE  TrInv'
  <2> DEFINE j == JobBut(w, Tail(jw.todo), jw.left - want, jw.failed)
  <2>1. job' = [job EXCEPT ![w] = j]
    BY <1>4, JobFields DEF TrJob, JobBut, Remaining
  <2>2. want \in Nat /\ jw.left - want \in Nat
    <3>1. has \in Nat
      BY <1>1 DEF TrItem, Hundredths
    <3> HIDE DEF has
    <3> QED
      BY <1>1, <3>1
  <2>3. jw.failed \in SUBSET (1..MaxTickets)
    BY JobFields
  <2>4. /\ j \in TrJob /\ j.cmd = jw.cmd /\ j.lists = jw.lists /\ j.listed = jw.listed /\ j.todo = Tail(jw.todo)
        /\ j.failed = jw.failed /\ j.left = jw.left - want
    <3> DEFINE t == Tail(jw.todo)
               l == jw.left - want
               f == jw.failed
    <3>1. t \in Seq(TrItem) /\ l \in Nat /\ f \in SUBSET (1..MaxTickets)
      BY <1>1, <2>2, <2>3
    <3> HIDE DEF t, l, f
    <3>2. LET k == JobBut(w, t, l, f) IN
          /\ k \in TrJob /\ k.cmd = job[w].cmd /\ k.lists = job[w].lists /\ k.listed = job[w].listed
          /\ k.todo = t /\ k.left = l /\ k.failed = f
      BY <3>1, JobWith
    <3> QED
      BY <3>2 DEF t, l, f
  <2>5. p.vol <= head.vol
    BY <1>1, <1>4 DEF TrInv, JobSound
  <2>6. \A c \in Cut(p, want) :
          /\ c \in TrPosition /\ c.ticket = p.ticket /\ c.side = p.side /\ c.tag = p.tag /\ c.vol <= p.vol
          /\ want < 100 * p.vol
    <3> SUFFICES ASSUME want < 100 * p.vol
                 PROVE  LET c == [p EXCEPT !.vol = @ - want \div 100]
                        IN  c \in TrPosition /\ c.ticket = p.ticket /\ c.side = p.side /\ c.tag = p.tag /\ c.vol <= p.vol
      <4>1. p.vol \in Nat /\ want \in Nat
        BY <1>3, <2>2
      <4> HIDE DEF want
      <4>2. want >= 100 * p.vol => Cut(p, want) = {}
        BY DEF Cut, Hundredths
      <4>3. ~(want >= 100 * p.vol) => want < 100 * p.vol /\ Cut(p, want) = {[p EXCEPT !.vol = @ - want \div 100]}
        BY <4>1 DEF Cut, Hundredths
      <4> QED
        BY <4>2, <4>3
    <3>1. p \in TrPosition
      BY <1>2
    <3> HIDE DEF want
    <3>2. want \div 100 \in Nat /\ want \div 100 < p.vol
      BY <1>3, <2>2
    <3>3. p.vol - want \div 100 \in Volume
      BY <3>1, <3>2 DEF TrPosition, Volume
    <3>4. p.vol - want \div 100 <= p.vol
      BY <1>3, <3>2
    <3> QED
      BY <3>1, <3>3, <3>4 DEF TrPosition
  <2>7. \A c, d \in Cut(p, want) : c = d
    BY DEF Cut
  <2>8. IsFiniteSet(Cut(p, want))
    BY FS_EmptySet, FS_AddElement, FS_Singleton DEF Cut
  <2> HIDE DEF j, want
  <2>9. TicketsUnique'
    <3>1. IsFiniteSet(positions')
      <4>1. IsFiniteSet(positions \ {p})
        BY FS_Difference DEF TrInv, TicketsUnique
      <4> QED
        BY <1>4, <2>8, <4>1, FS_Union
    <3> QED
      BY <1>1, <1>4, <2>6, <2>7, <3>1 DEF TrInv, TicketsUnique
  <2>10. \A r \in positions' : \E q \in positions :
            r.ticket = q.ticket /\ r.side = q.side /\ r.tag = q.tag /\ r.vol <= q.vol
    BY <1>3, <1>4, <2>6
  <2>11. ASSUME j.left > 0, NEW r \in positions', r.ticket = head.ticket PROVE FALSE
    <3>1. r \notin positions \ {p}
      BY <1>4, <2>11 DEF TrInv, TicketsUnique
    <3>2. want < 100 * p.vol
      BY <1>4, <2>6, <3>1
    <3>3. jw.left - want > 0
      BY <2>4, <2>11
    <3>4. has = 100 * head.vol /\ head.vol \in Nat
      BY <1>1 DEF TrItem, Hundredths
    <3>5. want = has \/ (want = jw.left /\ ~(has < jw.left))
      BY DEF want
    <3> HIDE DEF has
    <3>6. p.vol \in Nat
      BY <1>3
    <3> QED
      BY SMTT(20), <1>1, <2>5, <3>2, <3>3, <3>4, <3>5, <3>6
  <2>12. positions' \subseteq TrPosition
    BY <1>2, <1>4, <2>6
  <2> QED
    BY <1>1, <2>1, <2>4, <2>9, <2>10, <2>11, <2>12, TailStep
<1>5. ASSUME positions' = positions,
             job' = [job EXCEPT ![w].todo = Tail(@), ![w].failed = @ \cup {Head(jw.todo).ticket}]
      PROVE  TrInv'
  <2> DEFINE j == JobBut(w, Tail(jw.todo), jw.left, jw.failed \cup {head.ticket})
  <2>1. job' = [job EXCEPT ![w] = j]
    BY <1>5, JobFields DEF TrJob, JobBut
  <2>2. jw.failed \cup {head.ticket} \in SUBSET (1..MaxTickets)
    BY <1>1, JobFields DEF TrItem
  <2>3. /\ j \in TrJob /\ j.cmd = jw.cmd /\ j.lists = jw.lists /\ j.listed = jw.listed /\ j.todo = Tail(jw.todo)
        /\ j.failed = jw.failed \cup {head.ticket} /\ j.left = jw.left
    <3> DEFINE t == Tail(jw.todo)
               l == jw.left
               f == jw.failed \cup {head.ticket}
    <3>1. t \in Seq(TrItem) /\ l \in Nat /\ f \in SUBSET (1..MaxTickets)
      BY <1>1, <2>2
    <3> HIDE DEF t, l, f
    <3>2. LET k == JobBut(w, t, l, f) IN
          /\ k \in TrJob /\ k.cmd = job[w].cmd /\ k.lists = job[w].lists /\ k.listed = job[w].listed
          /\ k.todo = t /\ k.left = l /\ k.failed = f
      BY <3>1, JobWith
    <3> QED
      BY <3>2 DEF t, l, f
  <2> HIDE DEF j, want
  <2>4. TicketsUnique'
    BY <1>1, <1>5 DEF TrInv, TicketsUnique
  <2>5. \A r \in positions' : \E q \in positions :
            r.ticket = q.ticket /\ r.side = q.side /\ r.tag = q.tag /\ r.vol <= q.vol
    BY <1>3, <1>5
  <2>6. \A r \in positions' : r.ticket = head.ticket => r.ticket \in j.failed
    BY <2>3
  <2>7. positions' \subseteq TrPosition
    BY <1>2, <1>5
  <2> QED
    BY <1>1, <2>1, <2>3, <2>4, <2>5, <2>6, <2>7, TailStep
<1> QED
  BY <1>4, <1>5 DEF ClosePartial

\* A worker's step that changes nothing at the terminal, or cancels there.
LEMMA TodoOnly ==
    ASSUME TrInv, NEW w \in TradeWorkers, job[w].todo # <<>>, ~Closes(job[w].cmd),
           job' = [job EXCEPT ![w].todo = Tail(@)],
           positions' = positions, pendings' \subseteq pendings, tickets' = tickets
    PROVE  TrInv'
<1> DEFINE j == JobBut(w, Tail(job[w].todo), job[w].left, job[w].failed)
<1>1. job' = [job EXCEPT ![w] = j]
  BY JobFields DEF TrJob, JobBut
<1>2. Tail(job[w].todo) \in Seq(TrItem)
  <2>1. job[w].todo \in Seq(TrItem)
    BY JobFields
  <2> QED
    BY <2>1, TailOf
<1>3. job[w].left \in Nat /\ job[w].failed \in SUBSET (1..MaxTickets)
  BY JobFields
<1>4. /\ j \in TrJob /\ j.cmd = job[w].cmd /\ j.lists = job[w].lists /\ j.listed = job[w].listed
      /\ j.todo = Tail(job[w].todo) /\ j.failed = job[w].failed /\ j.left = job[w].left
  <2> DEFINE t == Tail(job[w].todo)
             l == job[w].left
             f == job[w].failed
  <2>1. t \in Seq(TrItem) /\ l \in Nat /\ f \in SUBSET (1..MaxTickets)
    BY <1>2, <1>3
  <2> HIDE DEF t, l, f
  <2>2. LET k == JobBut(w, t, l, f) IN
        /\ k \in TrJob /\ k.cmd = job[w].cmd /\ k.lists = job[w].lists /\ k.listed = job[w].listed
        /\ k.todo = t /\ k.left = l /\ k.failed = f
    BY <2>1, JobWith
  <2> QED
    BY <2>2 DEF t, l, f
<1> HIDE DEF j
<1>5. positions \subseteq TrPosition
  BY TrTypes DEF TrInv
<1>6. \A p \in positions : p.vol <= p.vol
  BY <1>5 DEF TrPosition, Volume
<1>7. TicketsUnique'
  <2>1. IsFiniteSet(pendings')
    BY FS_Subset DEF TrInv, TicketsUnique
  <2> QED
    BY <2>1 DEF TrInv, TicketsUnique
<1>8. j.cmd.kind \notin {"pct", "vol"}
  BY <1>4 DEF Closes
<1> QED
  BY <1>1, <1>4, <1>5, <1>6, <1>7, <1>8, TailStep

\* cancels an order,
LEMMA CancelOrderStep == ASSUME TrInv, NEW w \in TradeWorkers, CancelOrder(w) PROVE TrInv'
<1>1. ~Closes(job[w].cmd)
  BY DEF CancelOrder, Closes
<1>2. pendings' \subseteq pendings
  BY DEF CancelOrder
<1> QED
  BY <1>1, <1>2, TodoOnly DEF CancelOrder

\* modifies a position,
LEMMA ModifyPositionStep == ASSUME TrInv, NEW w \in TradeWorkers, ModifyPosition(w) PROVE TrInv'
<1>1. ~Closes(job[w].cmd)
  BY DEF ModifyPosition, Closes
<1> QED
  BY <1>1, TodoOnly DEF ModifyPosition

\* has closed enough,
LEMMA EnoughStep == ASSUME TrInv, NEW w \in TradeWorkers, Enough(w) PROVE TrInv'
<1> DEFINE j == JobBut(w, <<>>, job[w].left, job[w].failed)
<1>1. job' = [job EXCEPT ![w] = j] /\ UNCHANGED <<positions, pendings, tickets>> /\ job[w].left <= 0
  BY JobFields DEF TrJob, JobBut, Enough
<1>2. <<>> \in Seq(TrItem) /\ job[w].left \in Nat /\ job[w].failed \in SUBSET (1..MaxTickets)
  BY JobFields
<1>3. /\ j \in TrJob /\ j.cmd = job[w].cmd /\ j.lists = job[w].lists /\ j.listed = job[w].listed /\ j.todo = <<>>
      /\ j.failed = job[w].failed /\ j.left = job[w].left
  <2> DEFINE t == <<>>
             l == job[w].left
             f == job[w].failed
  <2>1. t \in Seq(TrItem) /\ l \in Nat /\ f \in SUBSET (1..MaxTickets)
    BY <1>2
  <2> HIDE DEF t, l, f
  <2>2. LET k == JobBut(w, t, l, f) IN
        /\ k \in TrJob /\ k.cmd = job[w].cmd /\ k.lists = job[w].lists /\ k.listed = job[w].listed
        /\ k.todo = t /\ k.left = l /\ k.failed = f
    BY <2>1, JobWith
  <2> QED
    BY <2>2 DEF t, l, f
<1> HIDE DEF j
<1>4. job'[w] = j
  BY <1>1, JobFields
<1>5. JobSound(w)'
  <2>1. JobSound(w)
    BY DEF TrInv
  <2>2. ~(j.left > 0)
    BY <1>1, <1>3, JobFields
  <2>3. CloseAll(w)' = CloseAll(w)
    BY <1>3, <1>4 DEF CloseAll
  <2> QED
    BY <1>1, <1>3, <1>4, <2>1, <2>2, <2>3 DEF JobSound, Sorted
<1>6. TicketsUnique'
  BY <1>1 DEF TrInv, TicketsUnique
<1>7. positions \subseteq TrPosition /\ pendings \subseteq TrOrder /\ tickets \in 0..MaxTickets
  BY TrTypes DEF TrInv
<1>8. \A p \in positions : p.vol <= p.vol
  BY <1>7 DEF TrPosition, Volume
<1>9. tickets <= tickets' /\ positions' \subseteq TrPosition /\ pendings' \subseteq TrOrder /\ tickets' \in 0..MaxTickets
  BY <1>1, <1>7
<1> QED
  BY <1>1, <1>3, <1>5, <1>6, <1>8, <1>9, StepOfOne

\* A worker's job done, or its order sent: nothing of what it knows changes.
\* A job with another flag and another thing to do.
JobFlag(w, busy, then) == [job[w] EXCEPT !.busy = busy, !.then = then]

\* Its fields.
LEMMA JobFlags ==
    ASSUME TrInv, NEW w \in TradeWorkers, NEW busy \in BOOLEAN, NEW then \in {"nothing", "order", "pending"}
    PROVE  LET k == JobFlag(w, busy, then)
           IN  /\ k \in TrJob /\ k.cmd = job[w].cmd /\ k.lists = job[w].lists /\ k.listed = job[w].listed
               /\ k.todo = job[w].todo /\ k.failed = job[w].failed /\ k.left = job[w].left
<1>1. job[w] \in TrJob
  BY JobFields
<1> QED
  BY <1>1 DEF TrJob, JobFlag

\* What the terminal does with one worker's order or on its own.
LEMMA AtTheTerminal ==
    ASSUME TrInv, NEW w \in TradeWorkers, NEW busy \in BOOLEAN, NEW then \in {"nothing", "order", "pending"},
           job' = [job EXCEPT ![w] = JobFlag(w, busy, then)],
           positions' \subseteq TrPosition, pendings' \subseteq TrOrder, tickets' \in 0..MaxTickets, tickets <= tickets',
           TicketsUnique',
           \A p \in positions' : p \in positions \/ p.ticket > tickets,
           \A o \in pendings' : o \in pendings \/ o.ticket > tickets
    PROVE  TrInv'
<1> DEFINE k == JobFlag(w, busy, then)
<1>1. /\ k \in TrJob /\ k.cmd = job[w].cmd /\ k.lists = job[w].lists /\ k.listed = job[w].listed
      /\ k.todo = job[w].todo /\ k.failed = job[w].failed /\ k.left = job[w].left
  BY JobFlags
<1>2. job' = [job EXCEPT ![w] = k]
  OBVIOUS
<1> HIDE DEF k
<1>3. job'[w] = k /\ job' \in [TradeWorkers -> TrJob]
  BY <1>1, <1>2, JobFields
<1>4. TrTypeOK'
  BY <1>3, TrTypes DEF TrTypeOK, TrJob, TrItem, TrPosition, TrOrder
<1>5. positions \subseteq TrPosition
  BY TrTypes DEF TrInv
<1>6. \A p \in positions : p.vol <= p.vol
  BY <1>5 DEF TrPosition, Volume
<1>7. \A p \in positions' :
        \/ \E q \in positions : p.ticket = q.ticket /\ p.side = q.side /\ p.tag = q.tag /\ p.vol <= q.vol
        \/ p.ticket > tickets
  BY <1>6
<1>8. JobSound(w)'
  BY <1>1, <1>3, <1>4, <1>7, WorldMoves
<1> QED
  BY <1>1, <1>2, <1>7, <1>8, StepOfOne

\* opens a position,
LEMMA ExecuteOrderStep == ASSUME TrInv, NEW w \in TradeWorkers, ExecuteOrder(w) PROVE TrInv'
<1> DEFINE k == JobFlag(w, job[w].busy, "nothing")
<1>1. positions \subseteq TrPosition /\ pendings \subseteq TrOrder /\ tickets \in 0..MaxTickets
  BY TrTypes DEF TrInv
<1>2. job' = [job EXCEPT ![w] = k] /\ pendings' = pendings /\ job[w].busy \in BOOLEAN
  BY JobFields DEF ExecuteOrder, Sent, TrJob, JobFlag
<1>3. job[w].cmd.side \in Sides /\ job[w].cmd.tag \in Tags
  <2>1. job[w].cmd \in Commands
    BY JobFields
  <2> QED
    BY <2>1 DEF Commands
<1> HIDE DEF k
<1>4. CASE UNCHANGED <<positions, tickets>>
  <2>1. TicketsUnique'
    BY <1>2, <1>4 DEF TrInv, TicketsUnique
  <2>2. tickets <= tickets' /\ positions' \subseteq TrPosition /\ pendings' \subseteq TrOrder /\ tickets' \in 0..MaxTickets
    BY <1>1, <1>2, <1>4
  <2> QED
    BY <1>2, <1>4, <2>1, <2>2, AtTheTerminal DEF k
<1>5. ASSUME tickets < MaxTickets, tickets' = tickets + 1, NEW v \in Volumes,
             positions' = positions \cup
                {[ticket |-> tickets', side |-> job[w].cmd.side, vol |-> v, tag |-> job[w].cmd.tag]}
      PROVE  TrInv'
  <2> DEFINE p == [ticket |-> tickets', side |-> job[w].cmd.side, vol |-> v, tag |-> job[w].cmd.tag]
  <2>1. v \in Volume
    BY DEF Volumes, Sized, Volume
  <2>2. tickets' \in 1..MaxTickets /\ tickets < tickets'
    BY <1>1, <1>5
  <2>3. p \in TrPosition /\ p.ticket = tickets'
    BY <1>3, <2>1, <2>2 DEF TrPosition
  <2>4. positions' = positions \cup {p}
    BY <1>5
  <2> HIDE DEF p
  <2>5. IsFiniteSet(positions')
    BY <2>4, FS_AddElement DEF TrInv, TicketsUnique
  <2>6. /\ \A q \in positions : q.ticket <= tickets /\ q.ticket \in Int
        /\ \A o \in pendings : o.ticket <= tickets /\ o.ticket \in Int
    BY <1>1 DEF TrInv, TicketsUnique, TrPosition, TrOrder
  <2>7. TicketsUnique'
    BY <1>1, <1>2, <2>2, <2>3, <2>4, <2>5, <2>6 DEF TrInv, TicketsUnique
  <2>8. positions' \subseteq TrPosition /\ pendings' \subseteq TrOrder /\ tickets' \in 0..MaxTickets /\ tickets <= tickets'
    BY <1>1, <1>2, <2>2, <2>3, <2>4
  <2>9. \A q \in positions' : q \in positions \/ q.ticket > tickets
    BY <2>2, <2>3, <2>4
  <2> QED
    BY <1>2, <2>7, <2>8, <2>9, AtTheTerminal DEF k
<1> QED
  BY <1>4, <1>5 DEF ExecuteOrder

\* places an order,
LEMMA PlacePendingOrderStep == ASSUME TrInv, NEW w \in TradeWorkers, PlacePendingOrder(w) PROVE TrInv'
<1> DEFINE k == JobFlag(w, job[w].busy, "nothing")
<1>1. positions \subseteq TrPosition /\ pendings \subseteq TrOrder /\ tickets \in 0..MaxTickets
  BY TrTypes DEF TrInv
<1>2. job' = [job EXCEPT ![w] = k] /\ positions' = positions /\ job[w].busy \in BOOLEAN
  BY JobFields DEF PlacePendingOrder, Sent, TrJob, JobFlag
<1>3. job[w].cmd.side \in Sides /\ job[w].cmd.tag \in Tags
  <2>1. job[w].cmd \in Commands
    BY JobFields
  <2> QED
    BY <2>1 DEF Commands
<1> HIDE DEF k
<1>4. CASE UNCHANGED <<pendings, tickets>>
  <2>1. TicketsUnique'
    BY <1>2, <1>4 DEF TrInv, TicketsUnique
  <2>2. tickets <= tickets' /\ positions' \subseteq TrPosition /\ pendings' \subseteq TrOrder /\ tickets' \in 0..MaxTickets
    BY <1>1, <1>2, <1>4
  <2> QED
    BY <1>2, <1>4, <2>1, <2>2, AtTheTerminal DEF k
<1>5. CASE /\ tickets < MaxTickets /\ tickets' = tickets + 1
           /\ pendings' = pendings \cup {[ticket |-> tickets', side |-> job[w].cmd.side, tag |-> job[w].cmd.tag]}
  <2> DEFINE o == [ticket |-> tickets', side |-> job[w].cmd.side, tag |-> job[w].cmd.tag]
  <2>1. tickets' \in 1..MaxTickets /\ tickets < tickets'
    BY <1>1, <1>5
  <2>2. o \in TrOrder /\ o.ticket = tickets'
    BY <1>3, <2>1 DEF TrOrder
  <2>3. pendings' = pendings \cup {o}
    BY <1>5
  <2> HIDE DEF o
  <2>4. IsFiniteSet(pendings')
    BY <2>3, FS_AddElement DEF TrInv, TicketsUnique
  <2>5. /\ \A q \in positions : q.ticket <= tickets /\ q.ticket \in Int
        /\ \A r \in pendings : r.ticket <= tickets /\ r.ticket \in Int
    BY <1>1 DEF TrInv, TicketsUnique, TrPosition, TrOrder
  <2>6. TicketsUnique'
    BY <1>1, <1>2, <2>1, <2>2, <2>3, <2>4, <2>5 DEF TrInv, TicketsUnique
  <2>7. positions' \subseteq TrPosition /\ pendings' \subseteq TrOrder /\ tickets' \in 0..MaxTickets /\ tickets <= tickets'
    BY <1>1, <1>2, <2>1, <2>2, <2>3
  <2>8. \A r \in pendings' : r \in pendings \/ r.ticket > tickets
    BY <2>1, <2>2, <2>3
  <2> QED
    BY <1>2, <2>6, <2>7, <2>8, AtTheTerminal DEF k
<1> QED
  BY <1>4, <1>5 DEF PlacePendingOrder

\* or is done.
LEMMA DoneStep == ASSUME TrInv, NEW w \in TradeWorkers, Done(w) PROVE TrInv'
<1>1. positions \subseteq TrPosition /\ pendings \subseteq TrOrder /\ tickets \in 0..MaxTickets
  BY TrTypes DEF TrInv
<1>2. job' = [job EXCEPT ![w] = NoJob] /\ UNCHANGED <<positions, pendings, tickets>>
  BY DEF Done
<1>3. job'[w] = NoJob
  BY <1>2, JobFields
<1>4. JobSound(w)'
  <2>1. NoJob.cmd.kind = "market"
    BY DEF NoJob
  <2> QED
    BY <1>3, <2>1 DEF JobSound, Closes
<1>5. TicketsUnique'
  BY <1>2 DEF TrInv, TicketsUnique
<1>6. \A p \in positions : p.vol <= p.vol
  BY <1>1 DEF TrPosition, Volume
<1>7. tickets <= tickets' /\ positions' \subseteq TrPosition /\ pendings' \subseteq TrOrder /\ tickets' \in 0..MaxTickets
  BY <1>1, <1>2
<1> QED
  BY <1>2, <1>4, <1>5, <1>6, <1>7, NoJobTyped, StepOfOne

\* What the broker does on its own.
LEMMA BrokerSteps == ASSUME TrInv, BrokerCloses \/ BrokerFills PROVE TrInv'
<1>1. positions \subseteq TrPosition /\ pendings \subseteq TrOrder /\ tickets \in 0..MaxTickets
      /\ tickets' = tickets /\ job' = job
  BY TrTypes DEF TrInv, BrokerCloses, BrokerFills
<1>2. \A q \in positions : q.vol <= q.vol
  BY <1>1 DEF TrPosition, Volume
<1>3. /\ positions' \subseteq TrPosition /\ pendings' \subseteq pendings /\ TicketsUnique'
      /\ \A p \in positions' : p \in positions \/ \E o \in pendings : o.ticket = p.ticket
  <2>1. CASE BrokerCloses
    <3>1. PICK p \in positions : positions' = positions \ {p}
      BY <2>1 DEF BrokerCloses
    <3>2. IsFiniteSet(positions')
      BY <3>1, FS_Subset DEF TrInv, TicketsUnique
    <3> QED
      BY <1>1, <2>1, <3>1, <3>2 DEF BrokerCloses, TrInv, TicketsUnique
  <2>2. CASE BrokerFills
    <3>1. PICK o \in pendings, v \in Sized :
            /\ pendings' = pendings \ {o}
            /\ positions' = positions \cup {[ticket |-> o.ticket, side |-> o.side, vol |-> v, tag |-> o.tag]}
      BY <2>2 DEF BrokerFills
    <3> DEFINE p == [ticket |-> o.ticket, side |-> o.side, vol |-> v, tag |-> o.tag]
    <3>2. p \in TrPosition /\ p.ticket = o.ticket
      BY <1>1 DEF TrPosition, TrOrder, Sized, Volume
    <3>3. positions' = positions \cup {p}
      BY <3>1
    <3> HIDE DEF p
    <3>4. IsFiniteSet(positions') /\ IsFiniteSet(pendings')
      BY <3>1, <3>3, FS_AddElement, FS_Subset DEF TrInv, TicketsUnique
    <3>5. TicketsUnique'
      BY <1>1, <3>1, <3>2, <3>3, <3>4 DEF TrInv, TicketsUnique
    <3> QED
      BY <1>1, <3>1, <3>2, <3>3, <3>5
  <2> QED
    BY <2>1, <2>2
<1>4. TrTypeOK'
  BY <1>1, <1>3, TrTypes DEF TrTypeOK, TrJob, TrItem, TrPosition, TrOrder, TrInv
<1>5. \A p \in positions' :
        \/ \E q \in positions : p.ticket = q.ticket /\ p.side = q.side /\ p.tag = q.tag /\ p.vol <= q.vol
        \/ \E o \in pendings : o.ticket = p.ticket
  BY <1>2, <1>3
<1>6. tickets <= tickets' /\ \A o \in pendings' : o \in pendings
  BY <1>1, <1>3
<1>7. \A w \in TradeWorkers : JobSound(w)'
  BY <1>1, <1>4, <1>5, <1>6, WorldMoves
<1> QED
  BY <1>3, <1>4, <1>7 DEF TrInv

\* The types of this module, tickets that are one position's or one order's,
\* and what every worker knows of the positions it found hold in every state.
THEOREM TrInvariance == TrSpec => []TrInv
<1>1. TrInv /\ [TrNext]_trVars => TrInv'
  <2> SUFFICES ASSUME TrInv, [TrNext]_trVars PROVE TrInv'
    OBVIOUS
  <2>1. CASE UNCHANGED trVars
    <3>1. TrTypeOK' /\ TicketsUnique'
      BY <2>1 DEF trVars, TrInv, TrTypeOK, TicketsUnique
    <3>2. \A w \in TradeWorkers : JobSound(w)'
      BY <2>1 DEF trVars, TrInv, JobSound, Matches, CloseAll
    <3> QED
      BY <3>1, <3>2 DEF TrInv
  <2>2. CASE BrokerCloses \/ BrokerFills
    BY <2>2, BrokerSteps
  <2>3. ASSUME NEW w \in TradeWorkers, Trade(w) PROVE TrInv'
    BY <2>3, DispatchStep, ListStep, ClosePartialStep, EnoughStep, CancelOrderStep, ModifyPositionStep,
       ExecuteOrderStep, PlacePendingOrderStep, DoneStep DEF Trade
  <2> QED
    BY <2>1, <2>2, <2>3 DEF TrNext
<1> QED
  BY <1>1, TrInitHolds, PTL DEF TrSpec

\* A command closes positions of its side and its strategy only, and a partial
\* close passes over an older one only where that is gone or was refused.
THEOREM StrategiesStayApart == TrSpec => StrategiesApart
<1> DEFINE Apart(w) == \A p \in positions \ positions' :
          LET cmd == job[w].cmd
          IN  /\ cmd.tag = NoTag \/ p.tag = cmd.tag
              /\ cmd.kind \in {"closeAll", "combinedAll"} \/ p.side = cmd.side
              /\ cmd.kind \in {"pct", "vol"} =>
                    \A q \in positions :
                        q.ticket \in job[w].listed /\ q.ticket < p.ticket => q.ticket \in job[w].failed
<1>1. ASSUME TrInv, NEW w \in TradeWorkers, ClosePartial(w), NEW p \in positions \ positions'
      PROVE  LET cmd == job[w].cmd
             IN  /\ cmd.tag = NoTag \/ p.tag = cmd.tag
                 /\ cmd.kind \in {"closeAll", "combinedAll"} \/ p.side = cmd.side
                 /\ cmd.kind \in {"pct", "vol"} =>
                       \A q \in positions :
                           q.ticket \in job[w].listed /\ q.ticket < p.ticket => q.ticket \in job[w].failed
  <2> DEFINE s == job[w].todo
  <2>1. s # <<>> /\ Closes(job[w].cmd) /\ job[w].left > 0 /\ p.ticket = Head(s).ticket
    BY <1>1 DEF ClosePartial
  <2>2. s \in Seq(TrItem)
    BY <1>1, JobFields
  <2> HIDE DEF s
  <2>3. /\ Head(s) = s[1] /\ 1 \in DOMAIN s /\ \A i \in DOMAIN s : i \in Nat /\ s[i] \in TrItem
        /\ \A i \in DOMAIN s : i = 1 \/ i > 1
    <3>1. DOMAIN s = 1..Len(s)
      BY <2>1, <2>2, TailOf
    <3> QED
      BY <2>1, <2>2, <3>1, TailOf
  <2>4. JobSound(w)
    BY <1>1 DEF TrInv
  <2>5. Matches(w, p)
    BY <2>1, <2>3, <2>4 DEF JobSound, s
  <2>6. ASSUME job[w].cmd.kind \in {"pct", "vol"}, NEW q \in positions, q.ticket \in job[w].listed, q.ticket < p.ticket
        PROVE  q.ticket \in job[w].failed
    <3>1. /\ Sorted(s)
          /\ q.ticket \in job[w].failed \/ \E i \in DOMAIN s : s[i].ticket = q.ticket
      BY <2>1, <2>4, <2>6 DEF JobSound, s
    <3>2. ASSUME NEW i \in DOMAIN s, s[i].ticket = q.ticket PROVE FALSE
      <4>1. p.ticket <= q.ticket
        BY <2>1, <2>3, <3>1, <3>2 DEF Sorted, TrItem
      <4>2. p.ticket \in Int /\ q.ticket \in Int
        BY <2>1, <2>3, <3>2 DEF TrItem
      <4> QED
        BY <2>6, <4>1, <4>2
    <3> QED
      BY <3>1, <3>2
  <2> QED
    BY <2>5, <2>6 DEF Matches, CloseAll
<1>2. TrInv /\ [TrNext]_trVars => [\A w \in TradeWorkers : ClosePartial(w) => Apart(w)]_trVars
  BY <1>1
<1> QED
  BY <1>2, TrInvariance, PTL DEF TrSpec, StrategiesApart

HIDE TradingAssumption
=============================================================================
