--------------------------- MODULE DeliveryProofs ---------------------------
(*****************************************************************************)
(* What the ways of a signal to its EA promise: the WebSocket push           *)
(* (WsFanout), the long-poll (LongPoll) and the licenses that own the        *)
(* signals (Licenses), each for any values of its constants, and at the end  *)
(* their types as they run side by side in MCDelivery; the table itself is   *)
(* in SignalQueueProofs.                                                     *)
(*****************************************************************************)
EXTENDS MCDelivery, ListLemmas

-----------------------------------------------------------------------------
(*****************************************************************************)
(* WsFanout                                                                  *)
(* A push owes whom it has not tried only what lies ahead of its iterator in *)
(* the list it walks, unless another task took somebody out of that list     *)
(* meanwhile; and where no two handshakes overlapped there is room for the   *)
(* one between the check and its registration.                               *)
(*****************************************************************************)

USE WsFanoutAssumption

\* Where no two handshakes overlapped there is room for the one that is between
\* the check and its registration.
RoomForAdmitted ==
    \A w \in WsWorkers \ raced :
        /\ Len(connections[w]) <= MaxConns
        /\ \A c \in Conns : HomeOf[c] = w /\ endpoint[c] = "admitted" =>
              /\ Len(connections[w]) < MaxConns
              /\ \A d \in Conns : HomeOf[d] = w /\ endpoint[d] = "admitted" => d = c

\* What a push still owes lies ahead of its iterator.
OwedAhead(t) ==
    walk[t].on /\ walk[t].clean => walk[t].owed \subseteq IF walk[t].at = NoConn THEN {} ELSE Ahead(t)

\* What the two theorems need in the state before.
FanInv == FanTypeOK /\ RoomForAdmitted /\ \A t \in Tasks : OwedAhead(t)

\* A task walks or does not, and what a walk's record holds.
LEMMA PassFields ==
    ASSUME FanTypeOK, NEW t \in Tasks
    PROVE  /\ walk[t].on \in BOOLEAN /\ ~walk[t].on => walk[t] = NoWalk
           /\ walk[t].on => /\ walk[t] \in FanPass /\ walk[t].w \in WsWorkers /\ walk[t].msg \in WsMsgs
                            /\ walk[t].list \in Nat /\ walk[t].i \in Nat /\ walk[t].at \in Conns \cup {NoConn}
                            /\ walk[t].dead \subseteq Conns /\ walk[t].owed \subseteq Conns
                            /\ walk[t].clean \in BOOLEAN
<1>1. walk[t] \in FanPass \cup {NoWalk}
  BY DEF FanTypeOK
<1>2. NoWalk.on = FALSE
  BY DEF NoWalk
<1>3. walk[t] \in FanPass => walk[t].on = TRUE
  BY DEF FanPass
<1> QED
  BY <1>1, <1>2, <1>3 DEF FanPass

\* A list of connections: its members and its length.
LEMMA ListFacts ==
    ASSUME FanTypeOK, NEW w \in WsWorkers
    PROVE  /\ connections[w] \in Seq(Conns) /\ Len(connections[w]) \in Nat
           /\ DOMAIN connections[w] = 1..Len(connections[w]) /\ Occupants(w) \subseteq Conns
           /\ \A i \in DOMAIN connections[w] : connections[w][i] \in Conns /\ connections[w][i] \in Occupants(w)
<1>1. connections[w] \in Seq(Conns)
  BY DEF FanTypeOK
<1>2. Len(connections[w]) \in Nat /\ DOMAIN connections[w] = 1..Len(connections[w])
  BY <1>1, LenProperties
<1>3. \A i \in DOMAIN connections[w] : connections[w][i] \in Conns
  BY <1>1, <1>2, ElementOfSeq
<1> QED
  BY <1>1, <1>2, <1>3 DEF Occupants, Range

\* What is left of a list when some members are removed is no longer than it.
LEMMA LackingOf ==
    ASSUME NEW s \in Seq(Conns), NEW C, NEW r \in Lacking(s, C)
    PROVE  /\ r \in Seq(Conns) /\ Range(r) \subseteq Range(s) /\ Len(r) <= Len(s)
           /\ Range(s) \cap C = {} => r = s
<1>1. CASE Range(s) \cap C = {}
  <2>1. r = s
    BY <1>1 DEF Lacking
  <2>2. Len(s) \in Nat
    BY LenProperties
  <2> QED
    BY <2>1, <2>2
<1>2. CASE Range(s) \cap C # {}
  <2> DEFINE R == Range(s) \ C
  <2>1. r \in SetToSeqs(R)
    BY <1>2 DEF Lacking
  <2>2. Len(s) \in Nat /\ DOMAIN s = 1..Len(s)
    BY LenProperties
  <2>3. \A i \in DOMAIN s : s[i] \in Conns
    BY <2>2, ElementOfSeq
  <2>4. R \subseteq Conns /\ R \subseteq Range(s) /\ \A x \in R : \E i \in 1..Len(s) : s[i] = x
    BY <2>2, <2>3 DEF Range
  <2>5. IsFiniteSet(1..Len(s)) /\ Cardinality(1..Len(s)) = Len(s)
    <3> DEFINE n == Len(s)
    <3>1. n \in Nat
      BY <2>2
    <3> HIDE DEF n
    <3>2. IsFiniteSet(1..n) /\ Cardinality(1..n) = n
      BY <3>1, UpTo
    <3> QED
      BY <3>2 DEF n
  <2>6. IsFiniteSet(Range(s))
    <3>1. s \in Surjection(1..Len(s), Range(s))
      BY <2>2 DEF Surjection, Range
    <3> QED
      BY <2>5, <3>1, FS_Surjection
  <2>7. IsFiniteSet(R)
    BY <2>4, <2>6, FS_Subset
  <2> HIDE DEF R
  <2>8. /\ r \in Seq(R) /\ \A i, j \in DOMAIN r : r[i] = r[j] => i = j
    BY <2>1, <2>7, ListsOf
  <2>9. r \in Seq(Conns)
    BY <2>4, <2>8, WiderSeq
  <2>10. Len(r) \in Nat /\ DOMAIN r = 1..Len(r) /\ \A i \in DOMAIN r : r[i] \in R
    BY <2>8, ElementOfSeq, LenProperties
  <2>11. Range(r) \subseteq Range(s)
    BY <2>4, <2>10 DEF Range
  <2>12. Len(r) <= Len(s)
    <3> DEFINE f == [i \in 1..Len(r) |-> CHOOSE k \in 1..Len(s) : s[k] = r[i]]
    <3>1. \A i \in 1..Len(r) : f[i] \in 1..Len(s) /\ s[f[i]] = r[i]
      BY <2>4, <2>10
    <3>2. \A i, j \in 1..Len(r) : f[i] = f[j] => i = j
      BY <2>8, <2>10, <3>1
    <3>3. f \in [1..Len(r) -> 1..Len(s)]
      BY <3>1
    <3> HIDE DEF f
    <3>4. f \in Injection(1..Len(r), 1..Len(s))
      BY <3>2, <3>3 DEF Injection, IsInjective
    <3>5. IsFiniteSet(1..Len(r)) /\ Cardinality(1..Len(r)) = Len(r)
      <4> DEFINE n == Len(r)
      <4>1. n \in Nat
        BY <2>10
      <4> HIDE DEF n
      <4>2. IsFiniteSet(1..n) /\ Cardinality(1..n) = n
        BY <4>1, UpTo
      <4> QED
        BY <4>2 DEF n
    <3>6. Cardinality(1..Len(r)) <= Cardinality(1..Len(s))
      BY <2>5, <3>4, FS_Injection
    <3> QED
      BY <2>5, <3>5, <3>6
  <2> QED
    BY <1>2, <2>9, <2>11, <2>12
<1> QED
  BY <1>1, <1>2

\* A removal shortens one list, unless none of its members is meant.
LEMMA Removal ==
    ASSUME FanTypeOK, NEW w \in WsWorkers, NEW C, RemoveFrom(w, C)
    PROVE  /\ connections' \in [WsWorkers -> Seq(Conns)] /\ listId' \in [WsWorkers -> Nat]
           /\ \A v \in WsWorkers : Len(connections'[v]) <= Len(connections[v]) /\ Occupants(v)' \subseteq Occupants(v)
           /\ \A v \in WsWorkers : v # w \/ Occupants(w) \cap C = {} =>
                connections'[v] = connections[v] /\ listId'[v] = listId[v]
<1>1. PICK s \in Lacking(connections[w], C) :
        /\ connections' = [connections EXCEPT ![w] = s]
        /\ listId' = [listId EXCEPT ![w] = IF connections[w] # <<>> /\ s = <<>> THEN @ + 1 ELSE @]
  BY DEF RemoveFrom
<1> DEFINE old == connections[w]
<1>2. old \in Seq(Conns) /\ connections \in [WsWorkers -> Seq(Conns)] /\ listId \in [WsWorkers -> Nat]
  BY DEF FanTypeOK
<1>3. s \in Lacking(old, C) /\ Range(old) = Occupants(w)
  BY <1>1 DEF Occupants
<1> HIDE DEF old
<1>4. /\ s \in Seq(Conns) /\ Range(s) \subseteq Range(old) /\ Len(s) <= Len(old)
      /\ Range(old) \cap C = {} => s = old
  BY <1>2, <1>3, LackingOf
<1>5. connections' \in [WsWorkers -> Seq(Conns)] /\ listId' \in [WsWorkers -> Nat]
  BY SMTT(20), <1>1, <1>2, <1>4
<1>6. connections'[w] = s /\ \A v \in WsWorkers \ {w} : connections'[v] = connections[v] /\ listId'[v] = listId[v]
  BY <1>1, <1>2
<1>7. ASSUME NEW v \in WsWorkers
      PROVE  Len(connections'[v]) <= Len(connections[v]) /\ Occupants(v)' \subseteq Occupants(v)
  <2>1. CASE v = w
    BY <1>3, <1>4, <1>6, <2>1 DEF Occupants, old
  <2>2. CASE v # w
    BY <1>6, <2>2, ListFacts DEF Occupants
  <2> QED
    BY <2>1, <2>2
<1>8. Occupants(w) \cap C = {} => connections'[w] = connections[w] /\ listId'[w] = listId[w]
  BY <1>1, <1>2, <1>3, <1>4, <1>6 DEF old
<1> QED
  BY <1>5, <1>6, <1>7, <1>8

\* The room is kept when nobody is admitted and no list grows.
LEMMA RoomKept ==
    ASSUME FanInv, \A v \in WsWorkers : Len(connections'[v]) <= Len(connections[v]),
           connections' \in [WsWorkers -> Seq(Conns)],
           raced' = raced, \A c \in Conns : endpoint'[c] = "admitted" => endpoint[c] = "admitted"
    PROVE  RoomForAdmitted'
<1> SUFFICES ASSUME NEW w \in WsWorkers \ raced
             PROVE  /\ Len(connections'[w]) <= MaxConns
                    /\ \A c \in Conns : HomeOf[c] = w /\ endpoint'[c] = "admitted" =>
                         /\ Len(connections'[w]) < MaxConns
                         /\ \A d \in Conns : HomeOf[d] = w /\ endpoint'[d] = "admitted" => d = c
  BY DEF RoomForAdmitted
<1>1. Len(connections'[w]) \in Nat /\ Len(connections[w]) \in Nat
  <2>1. connections'[w] \in Seq(Conns) /\ connections[w] \in Seq(Conns)
    BY DEF FanInv, FanTypeOK
  <2> QED
    BY <2>1, LenProperties
<1>2. Len(connections[w]) <= MaxConns
  BY DEF FanInv, RoomForAdmitted
<1>3. MaxConns \in Nat
  OBVIOUS
<1> QED
  BY <1>1, <1>2, <1>3 DEF FanInv, RoomForAdmitted

\* A pass that stays where it is owes what it owed, if its list lost nobody.
LEMMA StillAhead ==
    ASSUME FanInv, NEW t \in Tasks, walk'[t] = walk[t],
           walk[t].on => connections'[walk[t].w] = connections[walk[t].w] /\ listId'[walk[t].w] = listId[walk[t].w]
    PROVE  OwedAhead(t)'
<1>1. OwedAhead(t)
  BY DEF FanInv
<1>2. walk[t].on => Ahead(t)' = Ahead(t)
  BY DEF Ahead, Reachable
<1> QED
  BY <1>1, <1>2 DEF OwedAhead

\* A removal leaves every pass its debt, or marks it as disturbed.
LEMMA RemovalAhead ==
    ASSUME FanInv, NEW w \in WsWorkers, NEW C, RemoveFrom(w, C), NEW tasks \in [Tasks -> FanPass \cup {NoWalk}],
           walk' = Disturb(tasks, w, C), \A u \in Tasks : tasks[u] = walk[u] \/ tasks[u] = NoWalk
    PROVE  walk' \in [Tasks -> FanPass \cup {NoWalk}] /\ \A u \in Tasks : OwedAhead(u)'
<1>1. NoWalk.on = FALSE
  BY DEF NoWalk
<1>2. ASSUME NEW u \in Tasks PROVE walk'[u] \in FanPass \cup {NoWalk} /\ OwedAhead(u)'
  <2>1. CASE u \in Disturbed(tasks, w, C)
    <3>1. tasks[u] \in FanPass
      BY <1>1, <2>1 DEF Disturbed
    <3>2. walk'[u] = [tasks[u] EXCEPT !.clean = FALSE]
      BY <2>1 DEF Disturb
    <3>3. walk'[u] \in FanPass /\ walk'[u].clean = FALSE
      BY ZenonT(60), <3>1, <3>2 DEF FanPass
    <3> QED
      BY <3>3 DEF OwedAhead
  <2>2. CASE u \notin Disturbed(tasks, w, C)
    <3>1. walk'[u] = tasks[u]
      BY <2>2 DEF Disturb
    <3>2. CASE tasks[u] = NoWalk
      BY <1>1, <3>1, <3>2 DEF OwedAhead
    <3>3. CASE tasks[u] = walk[u]
      <4>1. walk[u].on => walk[u].w \in WsWorkers /\ (walk[u].w # w \/ Occupants(w) \cap C = {})
        BY <2>2, <3>3, PassFields DEF Disturbed, FanInv
      <4>2. walk[u].on => connections'[walk[u].w] = connections[walk[u].w] /\ listId'[walk[u].w] = listId[walk[u].w]
        BY <4>1, Removal DEF FanInv
      <4>3. OwedAhead(u)'
        BY <3>1, <3>3, <4>2, StillAhead
      <4> QED
        BY <3>1, <4>3
    <3> QED
      BY <3>2, <3>3
  <2> QED
    BY <2>1, <2>2
<1> QED
  BY <1>2 DEF Disturb

\* The steps that leave the lists and the passes alone, and admit nobody.
LEMMA QuietFan ==
    ASSUME FanInv, FanTypeOK', UNCHANGED <<connections, listId, walk, raced>>,
           \A c \in Conns : endpoint'[c] = "admitted" => endpoint[c] = "admitted"
    PROVE  FanInv'
<1>1. \A v \in WsWorkers : Len(connections'[v]) <= Len(connections[v])
  BY ListFacts DEF FanInv
<1>2. RoomForAdmitted'
  BY <1>1, RoomKept DEF FanInv, FanTypeOK
<1>3. \A t \in Tasks : OwedAhead(t)'
  BY StillAhead
<1> QED
  BY <1>2, <1>3 DEF FanInv

\* Nobody is connected in the initial state.
LEMMA FanInitHolds == FanInit => FanInv
<1> SUFFICES ASSUME FanInit PROVE FanInv
  OBVIOUS
<1>1. <<>> \in Seq(Conns) /\ <<>> \in Seq(WsMsgs) /\ Len(<<>>) = 0 /\ Range(<<>>) = {}
  BY DEF Range
<1>2. \A w \in WsWorkers : connections[w] = <<>>
  BY DEF FanInit
<1>3. FanTypeOK
  BY <1>1, <1>2 DEF FanInit, FanTypeOK, Occupants
<1>4. RoomForAdmitted
  BY <1>1, <1>2 DEF FanInit, RoomForAdmitted
<1>5. \A t \in Tasks : OwedAhead(t)
  BY DEF FanInit, OwedAhead, NoWalk
<1> QED
  BY <1>3, <1>4, <1>5 DEF FanInv

\* Steps that change neither the lists nor the passes.
LEMMA QuietSteps ==
    ASSUME FanInv, NEW c \in Conns,
           \/ RefuseUpgrade(c) \/ AcceptFails(c) \/ ReceiveText(c) \/ Close(c) \/ GrowsIdle(c)
           \/ \E how \in {"silent", "down"} : Vanish(c, how)
    PROVE  FanInv'
<1>1. /\ UNCHANGED <<connections, listId, connects, walk, begun, inbox, raced>>
      /\ closing' \subseteq closing
      /\ \/ endpoint' = endpoint \/ endpoint' = [endpoint EXCEPT ![c] = "ended"]
      /\ \/ peer' = peer \/ \E how \in {"silent", "down"} : peer' = [peer EXCEPT ![c] = how]
      /\ \/ activity' = activity \/ \E since \in {"fresh", "old"} : activity' = [activity EXCEPT ![c] = since]
  BY DEF RefuseUpgrade, AcceptFails, ReceiveText, Close, GrowsIdle, Vanish, net, lists, mail
<1>2. Occupants(c)' = Occupants(c) /\ \A w \in WsWorkers : Occupants(w)' = Occupants(w)
  BY <1>1 DEF Occupants
<1>3. FanTypeOK'
  <2>1. endpoint' \in [Conns -> {"new", "admitted", "loop", "ended"}]
    BY ZenonT(60), <1>1 DEF FanInv, FanTypeOK
  <2>2. peer' \in [Conns -> {"up", "silent", "down"}]
    BY ZenonT(60), <1>1 DEF FanInv, FanTypeOK
  <2>3. activity' \in [Conns -> {"none", "fresh", "old"}]
    BY ZenonT(60), <1>1 DEF FanInv, FanTypeOK
  <2> QED
    BY <1>1, <1>2, <2>1, <2>2, <2>3 DEF FanInv, FanTypeOK
<1>4. \A d \in Conns : endpoint'[d] = "admitted" => endpoint[d] = "admitted"
  BY <1>1 DEF FanInv, FanTypeOK
<1> QED
  BY <1>1, <1>3, <1>4, QuietFan

\* A minute passes on a worker.
LEMMA MinuteStep == ASSUME FanInv, NEW w \in WsWorkers, MinutePasses(w) PROVE FanInv'
<1>1. UNCHANGED <<endpoint, peer, connections, listId, activity, closing, walk, begun, inbox, raced>>
      /\ connects' = [connects EXCEPT ![w] = 0]
  BY DEF MinutePasses, net, lists, mail
<1>2. \A v \in WsWorkers : Occupants(v)' = Occupants(v)
  BY <1>1 DEF Occupants
<1>3. FanTypeOK'
  <2>1. connects' \in [WsWorkers -> Nat]
    BY <1>1 DEF FanInv, FanTypeOK
  <2> QED
    BY <1>1, <1>2, <2>1 DEF FanInv, FanTypeOK
<1> QED
  BY <1>1, <1>3, QuietFan

\* A handshake passes the check, or does not.
LEMMA AdmitStep == ASSUME FanInv, NEW c \in Conns, Admit(c) PROVE FanInv'
<1> DEFINE w == HomeOf[c]
<1>1. /\ UNCHANGED <<peer, connections, listId, activity, connects, closing, walk, begun, inbox>>
      /\ endpoint[c] = "new"
      /\ endpoint' = [endpoint EXCEPT ![c] = IF CheckRateLimit(w) THEN "admitted" ELSE "ended"]
      /\ raced' = IF CheckRateLimit(w) /\ \E d \in Conns : HomeOf[d] = w /\ endpoint[d] = "admitted"
                  THEN raced \cup {w} ELSE raced
  BY DEF Admit, lists, mail
<1>2. w \in WsWorkers
  OBVIOUS
<1>3. \A v \in WsWorkers : Occupants(v)' = Occupants(v)
  BY <1>1 DEF Occupants
<1>4. FanTypeOK'
  BY <1>1, <1>2, <1>3 DEF FanInv, FanTypeOK
<1>5. \A t \in Tasks : OwedAhead(t)'
  BY <1>1, StillAhead
<1>6. CASE ~CheckRateLimit(w)
  <2>1. raced' = raced /\ endpoint' = [endpoint EXCEPT ![c] = "ended"]
    BY <1>1, <1>6
  <2>2. \A d \in Conns : endpoint'[d] = "admitted" => endpoint[d] = "admitted"
    BY <2>1 DEF FanInv, FanTypeOK
  <2> QED
    BY <1>1, <1>4, <2>1, <2>2, QuietFan
<1>7. CASE CheckRateLimit(w)
  <2>1. endpoint' = [endpoint EXCEPT ![c] = "admitted"] /\ Len(connections[w]) < MaxConns
    BY <1>1, <1>7 DEF CheckRateLimit
  <2>2. endpoint'[c] = "admitted" /\ \A d \in Conns \ {c} : endpoint'[d] = endpoint[d]
    BY <2>1 DEF FanInv, FanTypeOK
  <2>3. ASSUME NEW v \in WsWorkers \ raced'
        PROVE  /\ Len(connections'[v]) <= MaxConns
               /\ \A d \in Conns : HomeOf[d] = v /\ endpoint'[d] = "admitted" =>
                    /\ Len(connections'[v]) < MaxConns
                    /\ \A e \in Conns : HomeOf[e] = v /\ endpoint'[e] = "admitted" => e = d
    <3>1. v \in WsWorkers \ raced
      BY <1>1, <2>3
    <3>2. v = w => \A d \in Conns : HomeOf[d] = w => endpoint[d] # "admitted"
      BY <1>1, <1>7, <2>3
    <3>3. connections' = connections
      BY <1>1
    <3>4. CASE v = w
      <4>1. Len(connections[v]) <= MaxConns
        BY <3>1 DEF FanInv, RoomForAdmitted
      <4> QED
        BY <2>1, <2>2, <3>2, <3>3, <3>4, <4>1
    <3>5. CASE v # w
      <4>1. \A d \in Conns : HomeOf[d] = v => endpoint'[d] = endpoint[d]
        BY <2>2, <3>5
      <4> QED
        BY <3>1, <3>3, <4>1 DEF FanInv, RoomForAdmitted
    <3> QED
      BY <3>4, <3>5
  <2>4. RoomForAdmitted'
    BY <2>3 DEF RoomForAdmitted
  <2> QED
    BY <1>4, <1>5, <2>4 DEF FanInv
<1> QED
  BY <1>6, <1>7

\* The connection is registered at the end of its worker's list.
LEMMA AcceptStep == ASSUME FanInv, NEW c \in Conns, Accept(c) PROVE FanInv'
<1> DEFINE w == HomeOf[c]
           s == connections[w]
           r == Append(s, c)
<1>1. /\ UNCHANGED <<peer, listId, closing, walk, begun, inbox, raced>>
      /\ endpoint[c] = "admitted" /\ endpoint' = [endpoint EXCEPT ![c] = "loop"]
      /\ connections' = [connections EXCEPT ![w] = r]
      /\ connects' = [connects EXCEPT ![w] = @ + 1] /\ activity' = [activity EXCEPT ![c] = "fresh"]
  BY DEF Accept, Add, mail
<1>2. w \in WsWorkers /\ s \in Seq(Conns)
  BY DEF FanInv, FanTypeOK
<1>3. /\ r \in Seq(Conns) /\ Len(r) = Len(s) + 1 /\ Len(s) \in Nat /\ DOMAIN s = 1..Len(s) /\ DOMAIN r = 1..Len(r)
      /\ \A i \in DOMAIN s : i \in DOMAIN r /\ r[i] = s[i] /\ i \in Nat
      /\ Range(r) = Range(s) \cup {c}
  <2> HIDE DEF s
  <2>1. /\ r \in Seq(Conns) /\ Len(r) = Len(s) + 1 /\ Len(s) \in Nat
        /\ \A i \in 1..Len(s) : r[i] = s[i]
        /\ r[Len(s) + 1] = c
    BY <1>2, AppendProperties, LenProperties
  <2>2. DOMAIN s = 1..Len(s) /\ DOMAIN r = 1..Len(s) + 1
    BY <1>2, <2>1, LenProperties
  <2>3. \A i \in DOMAIN r : i \in DOMAIN s \/ i = Len(s) + 1
    BY <2>1, <2>2
  <2>4. \A i \in DOMAIN s : i \in DOMAIN r /\ i \in Nat
    BY <2>1, <2>2
  <2>5. Len(s) + 1 \in DOMAIN r
    BY <2>1, <2>2
  <2> HIDE DEF r
  <2>6. Range(r) = Range(s) \cup {c}
    BY <2>1, <2>2, <2>3, <2>4, <2>5 DEF Range
  <2> QED
    BY <2>1, <2>2, <2>4, <2>6
<1> HIDE DEF r
<1>4. connections'[w] = r /\ \A v \in WsWorkers \ {w} : connections'[v] = connections[v]
  BY <1>1, <1>2 DEF FanInv, FanTypeOK
<1>5. FanTypeOK'
  <2>1. connections' \in [WsWorkers -> Seq(Conns)]
    BY <1>1, <1>2, <1>3 DEF FanInv, FanTypeOK
  <2>2. ASSUME NEW v \in WsWorkers PROVE Occupants(v)' \subseteq {d \in Conns : HomeOf[d] = v}
    <3>1. Occupants(v) \subseteq {d \in Conns : HomeOf[d] = v}
      BY DEF FanInv, FanTypeOK
    <3>2. CASE v = w
      <4>1. Occupants(v)' = Occupants(v) \cup {c}
        BY <1>3, <1>4, <3>2 DEF Occupants
      <4> QED
        BY <3>1, <3>2, <4>1
    <3>3. CASE v # w
      BY <1>4, <3>1, <3>3 DEF Occupants
    <3> QED
      BY <3>2, <3>3
  <2>3. connects' \in [WsWorkers -> Nat]
    BY <1>1, <1>2 DEF FanInv, FanTypeOK
  <2>4. endpoint' \in [Conns -> {"new", "admitted", "loop", "ended"}] /\ activity' \in [Conns -> {"none", "fresh", "old"}]
    BY <1>1 DEF FanInv, FanTypeOK
  <2> QED
    BY <1>1, <2>1, <2>2, <2>3, <2>4 DEF FanInv, FanTypeOK
<1>6. endpoint'[c] = "loop" /\ \A d \in Conns \ {c} : endpoint'[d] = endpoint[d]
  BY <1>1 DEF FanInv, FanTypeOK
<1>7. RoomForAdmitted'
  <2> SUFFICES ASSUME NEW v \in WsWorkers \ raced
               PROVE  /\ Len(connections'[v]) <= MaxConns
                      /\ \A d \in Conns : HomeOf[d] = v /\ endpoint'[d] = "admitted" =>
                           /\ Len(connections'[v]) < MaxConns
                           /\ \A e \in Conns : HomeOf[e] = v /\ endpoint'[e] = "admitted" => e = d
    BY <1>1 DEF RoomForAdmitted
  <2>1. CASE v = w
    <3>1. Len(s) < MaxConns /\ \A d \in Conns : HomeOf[d] = w /\ endpoint[d] = "admitted" => d = c
      BY <1>1, <2>1 DEF FanInv, RoomForAdmitted
    <3>2. MaxConns \in Nat
      OBVIOUS
    <3>3. Len(connections'[v]) <= MaxConns
      BY <1>3, <1>4, <2>1, <3>1, <3>2
    <3>4. \A d \in Conns : HomeOf[d] = v => endpoint'[d] # "admitted"
      BY <1>6, <2>1, <3>1
    <3> QED
      BY <3>3, <3>4
  <2>2. CASE v # w
    <3>1. \A d \in Conns : HomeOf[d] = v => endpoint'[d] = endpoint[d]
      BY <1>6, <2>2
    <3> QED
      BY <1>4, <2>2, <3>1 DEF FanInv, RoomForAdmitted
  <2> QED
    BY <2>1, <2>2
<1>8. ASSUME NEW t \in Tasks PROVE OwedAhead(t)'
  <2>1. OwedAhead(t) /\ walk' = walk /\ listId' = listId
    BY <1>1 DEF FanInv
  <2>2. CASE walk[t].on /\ walk[t].w = w /\ listId[w] = walk[t].list
    <3>1. Reachable(t) = s /\ Reachable(t)' = r
      BY <1>4, <2>1, <2>2 DEF Reachable
    <3>2. Ahead(t) \subseteq Ahead(t)'
      BY SMTT(20), <1>3, <2>1, <3>1 DEF Ahead
    <3> QED
      BY <2>1, <3>2 DEF OwedAhead
  <2>3. CASE walk[t].on /\ ~(walk[t].w = w /\ listId[w] = walk[t].list)
    <3>1. walk[t].w \in WsWorkers
      BY <2>3, PassFields DEF FanInv
    <3>2. Reachable(t)' = Reachable(t)
      BY <1>4, <2>1, <2>3, <3>1 DEF Reachable
    <3>3. Ahead(t)' = Ahead(t)
      BY <2>1, <3>2 DEF Ahead
    <3> QED
      BY <2>1, <3>3 DEF OwedAhead
  <2>4. CASE ~walk[t].on
    BY <2>1, <2>4 DEF OwedAhead
  <2> QED
    BY <2>2, <2>3, <2>4
<1> QED
  BY <1>5, <1>7, <1>8 DEF FanInv

\* What a step that removes from one list has in common.
LEMMA RemovalStep ==
    ASSUME FanInv, NEW w \in WsWorkers, NEW C, RemoveFrom(w, C),
           endpoint' \in [Conns -> {"new", "admitted", "loop", "ended"}], peer' = peer, raced' = raced,
           \A c \in Conns : endpoint'[c] = "admitted" => endpoint[c] = "admitted",
           connects' = connects, begun' = begun, closing' \subseteq Conns,
           activity' \in [Conns -> {"none", "fresh", "old"}],
           inbox' \in [WsWorkers -> Seq(WsMsgs)],
           NEW tasks \in [Tasks -> FanPass \cup {NoWalk}],
           walk' = Disturb(tasks, w, C), \A u \in Tasks : tasks[u] = walk[u] \/ tasks[u] = NoWalk
    PROVE  FanInv'
<1>1. /\ connections' \in [WsWorkers -> Seq(Conns)] /\ listId' \in [WsWorkers -> Nat]
      /\ \A v \in WsWorkers : Len(connections'[v]) <= Len(connections[v]) /\ Occupants(v)' \subseteq Occupants(v)
  BY Removal DEF FanInv
<1>2. \A v \in WsWorkers : Occupants(v)' \subseteq {d \in Conns : HomeOf[d] = v}
  BY <1>1 DEF FanInv, FanTypeOK
<1>3. walk' \in [Tasks -> FanPass \cup {NoWalk}] /\ \A u \in Tasks : OwedAhead(u)'
  BY RemovalAhead
<1>4. FanTypeOK'
  BY <1>1, <1>2, <1>3 DEF FanInv, FanTypeOK
<1>5. RoomForAdmitted'
  BY <1>1, RoomKept
<1> QED
  BY <1>3, <1>4, <1>5 DEF FanInv

\* The receive loop of a broken socket ends,
LEMMA EndLoopStep == ASSUME FanInv, NEW c \in Conns, EndLoop(c) PROVE FanInv'
<1> DEFINE w == HomeOf[c]
<1>1. /\ endpoint' = [endpoint EXCEPT ![c] = "ended"] /\ RemoveFrom(w, {c})
      /\ activity' = [activity EXCEPT ![c] = "none"] /\ walk' = Disturb(walk, w, {c})
      /\ UNCHANGED <<peer, connects, closing, begun, inbox, raced>>
  BY DEF EndLoop, mail
<1>2. w \in WsWorkers /\ walk \in [Tasks -> FanPass \cup {NoWalk}]
  BY DEF FanInv, FanTypeOK
<1>3. \A d \in Conns : endpoint'[d] = "admitted" => endpoint[d] = "admitted"
  BY <1>1 DEF FanInv, FanTypeOK
<1>4. /\ endpoint' \in [Conns -> {"new", "admitted", "loop", "ended"}] /\ closing' \subseteq Conns
      /\ activity' \in [Conns -> {"none", "fresh", "old"}] /\ inbox' \in [WsWorkers -> Seq(WsMsgs)]
  BY <1>1 DEF FanInv, FanTypeOK
<1> HIDE DEF w
<1> QED
  BY <1>1, <1>2, <1>3, <1>4, RemovalStep

\* idle connections are removed,
LEMMA CleanupIdleStep == ASSUME FanInv, NEW w \in WsWorkers, CleanupIdle(w) PROVE FanInv'
<1> DEFINE C == IdleOn(w)
<1>1. /\ RemoveFrom(w, C) /\ closing' = closing \cup C /\ walk' = Disturb(walk, w, C)
      /\ activity' = [c \in Conns |-> IF c \in C THEN "none" ELSE activity[c]]
      /\ UNCHANGED <<endpoint, peer, connects, begun, inbox, raced>>
  BY DEF CleanupIdle, net, mail
<1>2. C \subseteq Conns
  BY ListFacts DEF IdleOn, FanInv
<1> HIDE DEF C
<1>3. walk \in [Tasks -> FanPass \cup {NoWalk}] /\ endpoint' = endpoint
  BY <1>1 DEF FanInv, FanTypeOK
<1>4. /\ endpoint' \in [Conns -> {"new", "admitted", "loop", "ended"}] /\ closing' \subseteq Conns
      /\ inbox' \in [WsWorkers -> Seq(WsMsgs)]
  BY <1>1, <1>2 DEF FanInv, FanTypeOK
<1>5. activity' \in [Conns -> {"none", "fresh", "old"}]
  BY <1>1 DEF FanInv, FanTypeOK
<1> QED
  BY <1>1, <1>3, <1>4, <1>5, RemovalStep

\* and those a pass found dead when it ends.
LEMMA EndPassStep == ASSUME FanInv, NEW t \in Tasks, EndPass(t) PROVE FanInv'
<1> DEFINE w == walk[t].w
           D == walk[t].dead
           after == [walk EXCEPT ![t] = NoWalk]
<1>1. /\ walk[t].on /\ RemoveFrom(w, D) /\ walk' = Disturb(after, w, D)
      /\ activity' = [c \in Conns |-> IF c \in D THEN "none" ELSE activity[c]]
      /\ UNCHANGED <<endpoint, peer, connects, closing, begun, raced>>
  BY DEF EndPass, net
<1>2. w \in WsWorkers /\ walk[t].msg \in WsMsgs
  BY <1>1, PassFields DEF FanInv
<1>3. walk \in [Tasks -> FanPass \cup {NoWalk}]
  BY DEF FanInv, FanTypeOK
<1>4. after \in [Tasks -> FanPass \cup {NoWalk}] /\ \A u \in Tasks : after[u] = walk[u] \/ after[u] = NoWalk
  BY <1>3
<1>5. inbox' \in [WsWorkers -> Seq(WsMsgs)]
  <2>1. inbox \in [WsWorkers -> Seq(WsMsgs)]
    BY DEF FanInv, FanTypeOK
  <2>2. \A v \in WsWorkers : Append(inbox[v], walk[t].msg) \in Seq(WsMsgs)
    BY <1>2, <2>1, AppendProperties
  <2>3. \/ inbox' = inbox
        \/ \E V \in SUBSET WsWorkers : inbox' = [v \in WsWorkers |-> IF v \in V THEN Append(inbox[v], walk[t].msg)
                                                                     ELSE inbox[v]]
    BY DEF EndPass
  <2> QED
    BY <2>1, <2>2, <2>3
<1>6. activity' \in [Conns -> {"none", "fresh", "old"}]
  BY <1>1 DEF FanInv, FanTypeOK
<1>7. endpoint' = endpoint /\ endpoint' \in [Conns -> {"new", "admitted", "loop", "ended"}] /\ closing' \subseteq Conns
  BY <1>1 DEF FanInv, FanTypeOK
<1> HIDE DEF w, D, after
<1> QED
  BY <1>1, <1>2, <1>4, <1>5, <1>6, <1>7, RemovalStep

\* What a step that only moves passes, and says what they owe, has in common.
LEMMA WalkStep ==
    ASSUME FanInv, UNCHANGED <<endpoint, peer, connections, listId, connects, closing, raced>>,
           activity' \in [Conns -> {"none", "fresh", "old"}], begun' \subseteq WsMsgs,
           inbox' \in [WsWorkers -> Seq(WsMsgs)],
           NEW t \in Tasks, NEW pass \in FanPass \cup {NoWalk}, walk' = [walk EXCEPT ![t] = pass], OwedAhead(t)'
    PROVE  FanInv'
<1>1. walk \in [Tasks -> FanPass \cup {NoWalk}]
  BY DEF FanInv, FanTypeOK
<1>2. \A v \in WsWorkers : Occupants(v)' = Occupants(v)
  BY DEF Occupants
<1>3. FanTypeOK'
  BY <1>1, <1>2 DEF FanInv, FanTypeOK
<1>4. \A v \in WsWorkers : Len(connections'[v]) <= Len(connections[v])
  BY ListFacts DEF FanInv
<1>5. RoomForAdmitted'
  BY <1>4, RoomKept DEF FanInv, FanTypeOK
<1>6. ASSUME NEW u \in Tasks PROVE OwedAhead(u)'
  <2>1. CASE u = t
    BY <2>1
  <2>2. CASE u # t
    <3>1. walk'[u] = walk[u]
      BY <1>1, <2>2
    <3> QED
      BY <3>1, StillAhead
  <2> QED
    BY <2>1, <2>2
<1> QED
  BY <1>3, <1>5, <1>6 DEF FanInv

\* A pass that begins at the first of a list owes the rest.
LEMMA PassBegins ==
    ASSUME FanInv, NEW w \in WsWorkers, NEW m \in WsMsgs, NEW t \in Tasks, connections[w] # <<>>,
           UNCHANGED <<connections, listId>>, walk'[t] = Pass(w, m)
    PROVE  Pass(w, m) \in FanPass /\ OwedAhead(t)'
<1> DEFINE s == connections[w]
<1>1. s \in Seq(Conns) /\ s # <<>>
  BY DEF FanInv, FanTypeOK
<1>2. s[1] \in Conns /\ DOMAIN s = 1..Len(s) /\ Len(s) \in Nat /\ Occupants(w) \subseteq Conns
  BY <1>1, TailOf, ListFacts DEF FanInv
<1>3. listId[w] \in Nat
  BY DEF FanInv, FanTypeOK
<1>4. Pass(w, m) \in FanPass
  BY <1>2, <1>3 DEF Pass, FanPass
<1>5. Reachable(t)' = s /\ walk'[t].i = 1
  BY DEF Pass, Reachable
<1>6. Occupants(w) \ {s[1]} \subseteq Ahead(t)'
  <2> SUFFICES ASSUME NEW c \in Occupants(w), c # s[1] PROVE c \in Ahead(t)'
    OBVIOUS
  <2>1. PICK i \in DOMAIN s : s[i] = c
    BY DEF Occupants, Range
  <2>2. i > 1
    BY <1>2, <2>1
  <2> HIDE DEF s
  <2> QED
    BY <1>5, <2>1, <2>2 DEF Ahead
<1>7. walk'[t].owed = Occupants(w) \ {s[1]} /\ walk'[t].at = s[1] /\ s[1] # NoConn
  BY <1>2 DEF Pass
<1> QED
  BY <1>4, <1>6, <1>7 DEF OwedAhead

\* A message is pushed,
LEMMA BroadcastStep == ASSUME FanInv, NEW w \in WsWorkers, NEW m \in WsMsgs, Broadcast(m, w) PROVE FanInv'
<1> DEFINE t == <<"push", m>>
           pass == IF connections[w] = <<>> THEN Ending(w, m) ELSE Pass(w, m)
<1>1. /\ begun' = begun \cup {m} /\ walk' = [walk EXCEPT ![t] = pass]
      /\ UNCHANGED <<endpoint, peer, connections, listId, activity, connects, closing, inbox, raced>>
  BY DEF Broadcast, net, lists
<1>2. t \in Tasks
  BY DEF Tasks, Pushes
<1>3. /\ begun' \subseteq WsMsgs /\ activity' \in [Conns -> {"none", "fresh", "old"}]
      /\ inbox' \in [WsWorkers -> Seq(WsMsgs)] /\ listId[w] \in Nat
  BY <1>1 DEF FanInv, FanTypeOK
<1> HIDE DEF t
<1>4. walk'[t] = pass
  BY <1>1, <1>2 DEF FanInv, FanTypeOK
<1>5. pass \in FanPass \cup {NoWalk} /\ OwedAhead(t)'
  <2>1. CASE connections[w] = <<>>
    <3>1. pass = Ending(w, m)
      BY <2>1
    <3>2. Ending(w, m) \in FanPass
      BY <1>3 DEF Ending, FanPass
    <3>3. Ending(w, m).owed = {}
      BY DEF Ending
    <3> QED
      BY <1>4, <3>1, <3>2, <3>3 DEF OwedAhead
  <2>2. CASE connections[w] # <<>>
    <3>1. walk'[t] = Pass(w, m) /\ connections' = connections /\ listId' = listId /\ pass = Pass(w, m)
      BY <1>1, <1>4, <2>2
    <3> QED
      BY <1>2, <2>2, <3>1, PassBegins
  <2> QED
    BY <2>1, <2>2
<1> HIDE DEF pass
<1> QED
  BY <1>1, <1>2, <1>3, <1>5, WalkStep

\* a worker's listener takes one from Redis,
LEMMA ListenStep == ASSUME FanInv, NEW w \in WsWorkers, Listen(w) PROVE FanInv'
<1> DEFINE t == <<"listen", w>>
           m == Head(inbox[w])
           pass == IF connections[w] = <<>> THEN walk[t] ELSE Pass(w, m)
<1>1. /\ inbox[w] # <<>> /\ inbox' = [inbox EXCEPT ![w] = Tail(@)]
      /\ walk' = IF connections[w] = <<>> THEN walk ELSE [walk EXCEPT ![t] = Pass(w, m)]
      /\ UNCHANGED <<endpoint, peer, connections, listId, activity, connects, closing, begun, raced>>
  BY DEF Listen, net, lists
<1>2. t \in Tasks
  BY DEF Tasks, Listeners
<1>3. inbox[w] \in Seq(WsMsgs) /\ inbox \in [WsWorkers -> Seq(WsMsgs)]
  BY DEF FanInv, FanTypeOK
<1>4. m \in WsMsgs /\ Tail(inbox[w]) \in Seq(WsMsgs)
  <2> DEFINE s == inbox[w]
  <2>1. s \in Seq(WsMsgs) /\ s # <<>>
    BY <1>1, <1>3
  <2> HIDE DEF s
  <2>2. Head(s) \in WsMsgs /\ Tail(s) \in Seq(WsMsgs)
    BY <2>1, TailOf
  <2> QED
    BY <2>2 DEF s
<1>5. inbox' \in [WsWorkers -> Seq(WsMsgs)]
  BY <1>1, <1>3, <1>4
<1>6. begun' \subseteq WsMsgs /\ activity' \in [Conns -> {"none", "fresh", "old"}]
  BY <1>1 DEF FanInv, FanTypeOK
<1>7. walk' = [walk EXCEPT ![t] = pass] /\ walk \in [Tasks -> FanPass \cup {NoWalk}]
  BY <1>1, <1>2 DEF FanInv, FanTypeOK
<1> HIDE DEF t, m
<1>8. walk'[t] = pass
  BY <1>2, <1>7
<1>9. pass \in FanPass \cup {NoWalk} /\ OwedAhead(t)'
  <2>1. CASE connections[w] = <<>>
    <3>1. walk'[t] = walk[t] /\ pass = walk[t] /\ connections' = connections /\ listId' = listId
      BY <1>1, <1>8, <2>1
    <3> QED
      BY <1>2, <1>7, <3>1, StillAhead
  <2>2. CASE connections[w] # <<>>
    <3>1. walk'[t] = Pass(w, m) /\ connections' = connections /\ listId' = listId /\ pass = Pass(w, m)
      BY <1>1, <1>8, <2>2
    <3> QED
      BY <1>2, <1>4, <2>2, <3>1, PassBegins
  <2> QED
    BY <2>1, <2>2
<1> HIDE DEF pass
<1> QED
  BY <1>1, <1>2, <1>5, <1>6, <1>7, <1>9, WalkStep

\* and a send returns or raises.
LEMMA SendReturnsStep == ASSUME FanInv, NEW t \in Tasks, SendReturns(t) PROVE FanInv'
<1> DEFINE c == walk[t].at
           sent == peer[c] # "down"
           s == Reachable(t)
           next == s[walk[t].i + 1]
           dead == IF sent THEN walk[t].dead ELSE walk[t].dead \cup {c}
           pass == AfterSend(t)
<1>1. /\ walk[t].on /\ c # NoConn /\ walk' = [walk EXCEPT ![t] = pass]
      /\ activity' = IF sent THEN [activity EXCEPT ![c] = "fresh"] ELSE activity
      /\ UNCHANGED <<endpoint, peer, connections, listId, connects, closing, begun, inbox, raced>>
  <2>1. walk \in [Tasks -> FanPass \cup {NoWalk}]
    BY DEF FanInv, FanTypeOK
  <2>2. walk[t].on /\ c # NoConn
    BY DEF SendReturns
  <2>3. walk' = [walk EXCEPT ![t] = pass]
    BY DEF SendReturns
  <2>4. activity' = IF sent THEN [activity EXCEPT ![c] = "fresh"] ELSE activity
    BY DEF SendReturns
  <2>5. UNCHANGED <<endpoint, peer, connections, listId, connects, closing, begun, inbox, raced>>
    BY DEF SendReturns, net, lists
  <2> QED
    BY <2>2, <2>3, <2>4, <2>5
<1>2. /\ walk[t] \in FanPass /\ walk[t].w \in WsWorkers /\ walk[t].i \in Nat /\ c \in Conns
      /\ walk[t].dead \subseteq Conns /\ walk[t].owed \subseteq Conns
  BY <1>1, PassFields DEF FanInv
<1>3. s \in Seq(Conns) /\ Len(s) \in Nat /\ DOMAIN s = 1..Len(s) /\ \A i \in DOMAIN s : s[i] \in Conns
  <2>1. s \in Seq(Conns)
    BY <1>2 DEF Reachable, FanInv, FanTypeOK
  <2> HIDE DEF s
  <2> QED
    BY <2>1, LenProperties, ElementOfSeq
<1>4. walk[t].i < Len(s) =>
        pass = [walk[t] EXCEPT !.i = @ + 1, !.at = next, !.dead = dead, !.owed = @ \ {next}]
  BY DEF AfterSend, GoesOn
<1>14. ~(walk[t].i < Len(s)) => pass = [walk[t] EXCEPT !.at = NoConn, !.dead = dead]
  BY DEF AfterSend, GoesOn
<1>5. walk[t].i < Len(s) => walk[t].i + 1 \in DOMAIN s /\ next \in Conns
  BY <1>2, <1>3
<1>6. dead \subseteq Conns
  BY <1>2
<1>7. Reachable(t)' = IF listId[walk'[t].w] = walk'[t].list THEN connections[walk'[t].w] ELSE <<>>
  BY <1>1 DEF Reachable
<1>8. walk'[t] = pass
  BY <1>1 DEF FanInv, FanTypeOK
<1>9. OwedAhead(t)
  BY DEF FanInv
<1>10. Ahead(t) = {s[i] : i \in {j \in DOMAIN s : j > walk[t].i}}
  BY DEF Ahead
<1>11. c \in Conns /\ walk[t].on = TRUE
  BY <1>2 DEF FanPass
<1> HIDE DEF c, dead
<1>12. pass \in FanPass /\ OwedAhead(t)'
  <2>1. CASE walk[t].i < Len(s)
    <3>1. pass = [walk[t] EXCEPT !.i = @ + 1, !.at = next, !.dead = dead, !.owed = @ \ {next}]
      BY <1>4, <2>1
    <3> HIDE DEF next, pass, s
    <3>2. pass \in FanPass
      <4>1. walk[t].i + 1 \in Nat /\ next \in Conns \cup {NoConn} /\ walk[t].owed \ {next} \in SUBSET Conns
            /\ dead \in SUBSET Conns
        BY <1>2, <1>5, <1>6, <2>1
      <4> QED
        BY <1>2, <3>1, <4>1 DEF FanPass
    <3>3. /\ pass.i = walk[t].i + 1 /\ pass.at = next /\ pass.owed = walk[t].owed \ {next} /\ pass.w = walk[t].w
          /\ pass.list = walk[t].list /\ pass.clean = walk[t].clean
      BY <1>2, <3>1 DEF FanPass
    <3>4. Reachable(t)' = s
      BY <1>7, <1>8, <3>3 DEF Reachable, s
    <3>5. Ahead(t)' = {s[i] : i \in {j \in DOMAIN s : j > walk[t].i + 1}}
      BY <1>8, <3>3, <3>4 DEF Ahead
    <3>6. Ahead(t) \ {next} \subseteq Ahead(t)'
      <4> SUFFICES ASSUME NEW i \in DOMAIN s, i > walk[t].i, s[i] # next PROVE i > walk[t].i + 1
        BY <1>10, <3>5
      <4>1. i # walk[t].i + 1
        BY DEF next
      <4> QED
        BY <1>2, <1>3, <4>1
    <3>7. walk[t].clean => walk[t].owed \subseteq Ahead(t)
      BY <1>1, <1>9, <1>11 DEF OwedAhead, c
    <3>8. next \in Conns /\ next # NoConn
      BY <1>5, <2>1
    <3> QED
      BY <1>8, <3>2, <3>3, <3>6, <3>7, <3>8 DEF OwedAhead
  <2>2. CASE ~(walk[t].i < Len(s))
    <3>1. pass = [walk[t] EXCEPT !.at = NoConn, !.dead = dead]
      BY <1>14, <2>2
    <3> HIDE DEF pass, s
    <3>2. pass \in FanPass
      BY <1>2, <1>6, <3>1 DEF FanPass
    <3>3. pass.at = NoConn /\ pass.owed = walk[t].owed /\ pass.clean = walk[t].clean
      BY <1>2, <3>1 DEF FanPass
    <3>4. Ahead(t) = {}
      BY <1>2, <1>3, <1>10, <2>2
    <3>5. walk[t].clean => walk[t].owed = {}
      BY <1>1, <1>9, <1>11, <3>4 DEF OwedAhead, c
    <3> QED
      BY <1>8, <3>2, <3>3, <3>5 DEF OwedAhead
  <2> QED
    BY <2>1, <2>2
<1>13. /\ activity' \in [Conns -> {"none", "fresh", "old"}] /\ begun' \subseteq WsMsgs
       /\ inbox' \in [WsWorkers -> Seq(WsMsgs)]
  <2> HIDE DEF sent
  <2> QED
    BY <1>1, <1>11 DEF FanInv, FanTypeOK
<1> HIDE DEF pass
<1> QED
  BY <1>1, <1>12, <1>13, WalkStep

\* One step of any task.
LEMMA FanStep == FanInv /\ [FanNext]_fanVars => FanInv'
<1> SUFFICES ASSUME FanInv, [FanNext]_fanVars PROVE FanInv'
  OBVIOUS
<1>1. CASE UNCHANGED fanVars
  <2>1. /\ UNCHANGED <<endpoint, peer, connections, listId, activity, connects, closing, walk, begun, inbox, raced>>
    BY <1>1 DEF fanVars, net, lists, mail
  <2>2. \A v \in WsWorkers : Occupants(v)' = Occupants(v)
    BY <2>1 DEF Occupants
  <2>3. FanTypeOK'
    BY <2>1, <2>2 DEF FanInv, FanTypeOK
  <2> QED
    BY <2>1, <2>3, QuietFan
<1>2. ASSUME NEW c \in Conns, \/ RefuseUpgrade(c) \/ Admit(c) \/ Accept(c) \/ AcceptFails(c)
                              \/ ReceiveText(c) \/ EndLoop(c) \/ Close(c) \/ GrowsIdle(c)
                              \/ \E how \in {"silent", "down"} : Vanish(c, how)
      PROVE  FanInv'
  BY <1>2, QuietSteps, AdmitStep, AcceptStep, EndLoopStep
<1>3. ASSUME NEW w \in WsWorkers, \/ Listen(w) \/ CleanupIdle(w) \/ MinutePasses(w)
                                  \/ \E m \in WsMsgs : Broadcast(m, w)
      PROVE  FanInv'
  BY <1>3, ListenStep, CleanupIdleStep, MinuteStep, BroadcastStep
<1>4. ASSUME NEW t \in Tasks, SendReturns(t) \/ EndPass(t) PROVE FanInv'
  BY <1>4, SendReturnsStep, EndPassStep
<1> QED
  BY <1>1, <1>2, <1>3, <1>4 DEF FanNext

\* It holds in every state, whatever is fair.
LEMMA FanAlways == FanInit /\ [][FanNext]_fanVars => []FanInv
  BY FanInitHolds, FanStep, PTL

\* The types of the connections and the passes, room for whoever was admitted, and
\* passes that owe what lies ahead, in every state.
THEOREM FanInvariance == FanSpec => []FanInv
  BY FanAlways, PTL DEF FanSpec

\* Unless another task removed a connection meanwhile, a push tries everyone who
\* was connected when it began (send_to_license walks the live list).
THEOREM PushesReachAll == FanSpec => []PushComplete
<1>1. FanInv => PushComplete
  BY DEF FanInv, OwedAhead, PushComplete
<1> QED
  BY <1>1, FanInvariance, PTL

\* A worker has more connections of a license than the limit only where two
\* handshakes were between the check and the registration at once.
THEOREM LimitHolds == FanSpec => []LimitHeld
<1>1. FanInv => LimitHeld
  BY DEF FanInv, RoomForAdmitted, LimitHeld
<1> QED
  BY <1>1, FanInvariance, PTL

HIDE WsFanoutAssumption

-----------------------------------------------------------------------------
(*****************************************************************************)
(* LongPoll                                                                  *)
(* A notification is drained only by a poller that goes on to claim.         *)
(*****************************************************************************)

USE LongPollAssumption DEF Queues

\* No notification precedes its row, or goes to a queue not made yet.
ToldOfRows ==
    \A s \in PollSignals :
        /\ row[s] = "absent" => s \notin owed /\ told[s] = 0
        /\ told[s] <= made

\* A poller waits on a queue object.
WaitsOnQueue == \A p \in Pollers : poll[p] = "waiting" => queueOf[p] # 0

\* A notification is drained only by a poller on its way to the claim, be
\* anyone still waiting on the queue or not.
NotifiedOrClaiming ==
    \A s \in PollSignals :
        row[s] = "pending" /\ told[s] # 0 =>
            items[told[s]] > 0 \/ \E r \in Pollers : poll[r] = "woken"

\* The license's entry outlives a request by the polling timeout.
EntryOutlives ==
    entry # "recent" => \A p \in Pollers : poll[p] = "idle" \/ p \in late \/ removed

\* What the theorems need in the state before.
LpInv ==
    /\ LpTypeOK /\ ToldOfRows /\ WaitsOnQueue
    /\ NotifiedOrClaiming /\ EntryOutlives /\ WaiterKeepsQueue

-----------------------------------------------------------------------------
\* Nothing is told in the initial state.
LEMMA LpInitHolds == LpInit => LpInv
<1> SUFFICES ASSUME LpInit PROVE LpInv
  OBVIOUS
<1>1. LpTypeOK
  <2>1. /\ row \in [PollSignals -> {"absent", "pending", "claimed"}]
        /\ told \in [PollSignals -> 0..MaxQueues] /\ items \in [1..MaxQueues -> 0..QueueSize]
        /\ poll \in [Pollers -> {"idle", "first", "empty", "waiting", "woken", "claimed"}]
    BY DEF LpInit
  <2>2. made \in 0..MaxQueues /\ key \in 0..made /\ queueOf \in [Pollers -> 0..made]
    BY DEF LpInit
  <2> QED
    BY <2>1, <2>2 DEF LpInit, LpTypeOK
<1> QED
  BY <1>1 DEF LpInit, LpInv, ToldOfRows, WaitsOnQueue, NotifiedOrClaiming, EntryOutlives, WaiterKeepsQueue

\* A claim leaves nothing pending and no row absent that was there.
LEMMA LpClaimFacts ==
    ASSUME LpTypeOK, ClaimAll
    PROVE  /\ row' \in [PollSignals -> {"absent", "pending", "claimed"}]
           /\ \A s \in PollSignals : row'[s] # "pending" /\ (row'[s] = "absent" <=> row[s] = "absent")
  BY DEF LpTypeOK, ClaimAll, Pending

-----------------------------------------------------------------------------
(* The types and the two facts that follow a single variable.              *)

\* The types, after each step.
LEMMA LpTypeStep == LpTypeOK /\ [LpNext]_lpVars => LpTypeOK'
<1> SUFFICES ASSUME LpTypeOK, [LpNext]_lpVars PROVE LpTypeOK'
  OBVIOUS
<1>1. ASSUME NEW s \in PollSignals, Save(s) PROVE LpTypeOK'
  BY <1>1 DEF LpTypeOK, Save, lpClient
<1>2. ASSUME NEW s \in PollSignals, Notify(s) PROVE LpTypeOK'
  <2>1. CASE UNCHANGED <<told, items>>
    BY <1>2, <2>1 DEF LpTypeOK, Notify, lpClient
  <2>2. CASE /\ key # 0 /\ told' = [told EXCEPT ![s] = key]
             /\ items' = [items EXCEPT ![key] = IF @ < QueueSize THEN @ + 1 ELSE @]
    <3>1. key \in 1..MaxQueues /\ items[key] \in 0..QueueSize
      BY <2>2 DEF LpTypeOK
    <3>2. told' \in [PollSignals -> 0..MaxQueues]
      BY <2>2, <3>1 DEF LpTypeOK
    <3>3. items' \in [1..MaxQueues -> 0..QueueSize]
      BY <2>2, <3>1 DEF LpTypeOK
    <3> QED
      BY <1>2, <3>2, <3>3 DEF LpTypeOK, Notify, lpClient
  <2> QED
    BY <1>2, <2>1, <2>2 DEF Notify
<1>3. ASSUME NEW p \in Pollers, BeginPoll(p) PROVE LpTypeOK'
  BY <1>3 DEF LpTypeOK, BeginPoll, lpTable
<1>4. ASSUME NEW p \in Pollers, FirstClaim(p) PROVE LpTypeOK'
  BY <1>4, LpClaimFacts DEF LpTypeOK, FirstClaim, lpClient
<1>5. ASSUME NEW p \in Pollers, Wait(p) PROVE LpTypeOK'
  <2>1. made' \in 0..MaxQueues /\ key' \in 0..made' /\ made <= made'
    <3>1. CASE key = 0
      BY <1>5, <3>1 DEF LpTypeOK, Wait
    <3>2. CASE key # 0
      BY <1>5, <3>2 DEF LpTypeOK, Wait
    <3> QED
      BY <3>1, <3>2
  <2>2. queueOf' \in [Pollers -> 0..made']
    BY <1>5, <2>1 DEF LpTypeOK, Wait
  <2>3. poll' \in [Pollers -> {"idle", "first", "empty", "waiting", "woken", "claimed"}]
    BY <1>5 DEF LpTypeOK, Wait
  <2>4. UNCHANGED <<row, owed, told, entry, items, late, removed>>
    BY <1>5 DEF Wait, lpTable
  <2> QED
    BY <2>1, <2>2, <2>3, <2>4 DEF LpTypeOK
<1>6. ASSUME NEW p \in Pollers, Wake(p) PROVE LpTypeOK'
  <2>1. items' \in [1..MaxQueues -> 0..QueueSize]
    <3>1. items' = [items EXCEPT ![queueOf[p]] = 0] /\ items \in [1..MaxQueues -> 0..QueueSize]
      BY <1>6 DEF LpTypeOK, Wake
    <3>2. 0 \in 0..QueueSize
      OBVIOUS
    <3> QED
      BY <3>1, <3>2, Zenon
  <2>2. poll' \in [Pollers -> {"idle", "first", "empty", "waiting", "woken", "claimed"}]
    BY <1>6 DEF LpTypeOK, Wake
  <2> QED
    BY <1>6, <2>1, <2>2 DEF LpTypeOK, Wake, lpTable, lpClient
<1>7. ASSUME NEW p \in Pollers, SecondClaim(p) PROVE LpTypeOK'
  BY <1>7, LpClaimFacts DEF LpTypeOK, SecondClaim, lpClient
<1>8. ASSUME NEW p \in Pollers, Answer(p) PROVE LpTypeOK'
  BY <1>8 DEF LpTypeOK, Answer, AfterClaim, lpTable, lpClient
<1>9. CASE GrowsStale \/ DropStale \/ Prune \/ CleanupClientState
  <2>1. CASE GrowsStale \/ DropStale
    BY <2>1 DEF LpTypeOK, GrowsStale, DropStale, lpTable
  <2>2. CASE Prune
    BY <2>2 DEF LpTypeOK, Prune, lpTable
  <2>3. CASE CleanupClientState
    BY <2>3 DEF LpTypeOK, CleanupClientState, lpTable
  <2> QED
    BY <1>9, <2>1, <2>2, <2>3
<1>10. CASE UNCHANGED lpVars
  BY <1>10 DEF LpTypeOK, lpVars, lpTable, lpClient
<1> QED
  BY <1>1, <1>2, <1>3, <1>4, <1>5, <1>6, <1>7, <1>8, <1>9, <1>10 DEF LpNext

\* Only rows of the table are announced.
LEMMA LpToldStep == LpInv /\ [LpNext]_lpVars => ToldOfRows'
<1> SUFFICES ASSUME LpInv, [LpNext]_lpVars PROVE ToldOfRows'
  OBVIOUS
<1> USE DEF LpInv, LpTypeOK, ToldOfRows
<1>1. ASSUME NEW s \in PollSignals, Save(s) PROVE ToldOfRows'
  BY <1>1 DEF Save, lpClient
<1>2. ASSUME NEW s \in PollSignals, Notify(s) PROVE ToldOfRows'
  BY <1>2 DEF Notify, lpClient
<1>3. ASSUME NEW p \in Pollers, FirstClaim(p) \/ SecondClaim(p) PROVE ToldOfRows'
  BY <1>3, LpClaimFacts DEF FirstClaim, SecondClaim, lpClient
<1>4. ASSUME NEW p \in Pollers, Wait(p) PROVE ToldOfRows'
  BY <1>4 DEF Wait, lpTable
<1>5. ASSUME NEW p \in Pollers, BeginPoll(p) \/ Wake(p) \/ Answer(p) PROVE ToldOfRows'
  BY <1>5 DEF BeginPoll, Wake, Answer, lpTable, lpClient
<1>6. CASE GrowsStale \/ DropStale \/ Prune \/ CleanupClientState
  BY <1>6 DEF GrowsStale, DropStale, Prune, CleanupClientState, lpTable
<1>7. CASE UNCHANGED lpVars
  BY <1>7 DEF lpVars, lpTable, lpClient
<1> QED
  BY <1>1, <1>2, <1>3, <1>4, <1>5, <1>6, <1>7 DEF LpNext

\* A waiter waits on a queue that was made.
LEMMA LpQueueStep == LpInv /\ [LpNext]_lpVars => WaitsOnQueue'
<1> SUFFICES ASSUME LpInv, [LpNext]_lpVars PROVE WaitsOnQueue'
  OBVIOUS
<1> USE DEF LpInv, LpTypeOK, WaitsOnQueue
<1>1. ASSUME NEW p \in Pollers, Wait(p) PROVE WaitsOnQueue'
  BY <1>1 DEF Wait
<1>2. ASSUME NEW p \in Pollers, BeginPoll(p) \/ FirstClaim(p) \/ Wake(p) \/ SecondClaim(p) \/ Answer(p)
      PROVE  WaitsOnQueue'
  BY <1>2 DEF BeginPoll, FirstClaim, Wake, SecondClaim, Answer
<1>3. ASSUME NEW s \in PollSignals, Save(s) \/ Notify(s) PROVE WaitsOnQueue'
  BY <1>3 DEF Save, Notify
<1>4. CASE GrowsStale \/ DropStale \/ Prune \/ CleanupClientState
  BY <1>4 DEF GrowsStale, DropStale, Prune, CleanupClientState
<1>5. CASE UNCHANGED lpVars
  BY <1>5 DEF lpVars
<1> QED
  BY <1>1, <1>2, <1>3, <1>4, <1>5 DEF LpNext

-----------------------------------------------------------------------------
(* The wake-up.                                                            *)

\* A wake-up is kept or its drainer goes on to claim.
LEMMA LpWakeupStep == LpInv /\ [LpNext]_lpVars => NotifiedOrClaiming'
<1> SUFFICES ASSUME LpInv, [LpNext]_lpVars PROVE NotifiedOrClaiming'
  OBVIOUS
<1> USE DEF LpInv, LpTypeOK, NotifiedOrClaiming
<1>1. ASSUME NEW s \in PollSignals, Save(s) PROVE NotifiedOrClaiming'
  \* a row that was absent has no notification
  BY <1>1 DEF Save, ToldOfRows
<1>2. ASSUME NEW s \in PollSignals, Notify(s) PROVE NotifiedOrClaiming'
  <2>1. CASE UNCHANGED <<told, items>>
    BY <1>2, <2>1 DEF Notify
  <2>2. CASE /\ key # 0 /\ told' = [told EXCEPT ![s] = key]
             /\ items' = [items EXCEPT ![key] = IF @ < QueueSize THEN @ + 1 ELSE @]
    <3>1. key \in 1..MaxQueues /\ items'[key] > 0
      BY <2>2
    <3>2. \A q \in 1..MaxQueues : items[q] > 0 => items'[q] > 0
      BY <2>2
    <3>3. \A t \in PollSignals : told'[t] = key \/ told'[t] = told[t]
      BY <2>2
    <3> QED
      BY SMTT(20), <1>2, <3>1, <3>2, <3>3 DEF Notify
  <2> QED
    BY <1>2, <2>1, <2>2 DEF Notify
<1>3. ASSUME NEW p \in Pollers, FirstClaim(p) \/ SecondClaim(p) PROVE NotifiedOrClaiming'
  BY <1>3, LpClaimFacts DEF FirstClaim, SecondClaim
<1>4. ASSUME NEW p \in Pollers, Wake(p) PROVE NotifiedOrClaiming'
  \* whoever drains the queue is woken
  BY <1>4 DEF Wake
<1>5. ASSUME NEW p \in Pollers, BeginPoll(p) \/ Wait(p) \/ Answer(p) PROVE NotifiedOrClaiming'
  <2>1. UNCHANGED <<row, told, items>>
    BY <1>5 DEF BeginPoll, Wait, Answer, AfterClaim, lpTable
  <2>2. \A r \in Pollers : poll[r] = "woken" => poll'[r] = "woken"
    BY <1>5 DEF BeginPoll, Wait, Answer
  <2> QED
    BY <2>1, <2>2
<1>6. CASE GrowsStale \/ DropStale \/ Prune \/ CleanupClientState
  BY <1>6 DEF GrowsStale, DropStale, Prune, CleanupClientState, lpTable
<1>7. CASE UNCHANGED lpVars
  BY <1>7 DEF lpVars, lpTable
<1> QED
  BY <1>1, <1>2, <1>3, <1>4, <1>5, <1>6, <1>7 DEF LpNext

-----------------------------------------------------------------------------
(* The queue under the poller.                                             *)

\* An entry that is not recent has late requests only.
LEMMA LpEntryStep == LpInv /\ [LpNext]_lpVars => EntryOutlives'
<1> SUFFICES ASSUME LpInv, [LpNext]_lpVars PROVE EntryOutlives'
  OBVIOUS
<1> USE DEF LpInv, LpTypeOK, EntryOutlives
<1>1. ASSUME NEW s \in PollSignals, Save(s) \/ Notify(s) PROVE EntryOutlives'
  BY <1>1 DEF Save, Notify, lpClient
<1>2. ASSUME NEW p \in Pollers, BeginPoll(p) PROVE EntryOutlives'
  BY <1>2 DEF BeginPoll
<1>3. ASSUME NEW p \in Pollers, FirstClaim(p) \/ Wait(p) \/ Wake(p) \/ SecondClaim(p) \/ Answer(p)
      PROVE  EntryOutlives'
  <2>1. UNCHANGED <<entry, late, removed>>
    BY <1>3 DEF FirstClaim, Wait, Wake, SecondClaim, Answer, lpClient
  <2>2. \A r \in Pollers : poll[r] = "idle" => poll'[r] = "idle"
    BY <1>3 DEF FirstClaim, Wait, Wake, SecondClaim, Answer
  <2> QED
    BY <2>1, <2>2
<1>4. CASE GrowsStale \/ DropStale \/ Prune \/ CleanupClientState
  BY <1>4 DEF GrowsStale, DropStale, Outdated, Prune, CleanupClientState
<1>5. CASE UNCHANGED lpVars
  BY <1>5 DEF lpVars, lpClient
<1> QED
  BY <1>1, <1>2, <1>3, <1>4, <1>5 DEF LpNext

\* So pruning leaves the queue to its waiter.
LEMMA LpKeepsStep == LpInv /\ [LpNext]_lpVars => WaiterKeepsQueue'
<1> SUFFICES ASSUME LpInv, [LpNext]_lpVars PROVE WaiterKeepsQueue'
  OBVIOUS
<1> USE DEF LpInv, LpTypeOK, WaiterKeepsQueue
<1>1. ASSUME NEW s \in PollSignals, Save(s) \/ Notify(s) PROVE WaiterKeepsQueue'
  BY <1>1 DEF Save, Notify, lpClient
<1>2. ASSUME NEW p \in Pollers, Wait(p) PROVE WaiterKeepsQueue'
  <2>1. /\ queueOf'[p] = key' /\ UNCHANGED <<late, removed>> /\ (key # 0 => key' = key)
        /\ \A r \in Pollers \ {p} : poll'[r] = poll[r] /\ queueOf'[r] = queueOf[r]
    BY <1>2 DEF Wait
  \* a waiter whose key is gone has lost its queue before
  <2> QED
    BY <2>1 DEF WaitsOnQueue
<1>3. ASSUME NEW p \in Pollers, BeginPoll(p) \/ FirstClaim(p) \/ Wake(p) \/ SecondClaim(p) \/ Answer(p)
      PROVE  WaiterKeepsQueue'
  <2>1. UNCHANGED <<key, queueOf, removed>> /\ late \subseteq late' \cup {p}
    BY <1>3 DEF BeginPoll, FirstClaim, Wake, SecondClaim, Answer, lpClient
  <2>2. \A r \in Pollers : poll'[r] = "waiting" => r # p /\ poll[r] = "waiting"
    BY <1>3 DEF BeginPoll, FirstClaim, Wake, SecondClaim, Answer
  <2> QED
    BY <2>1, <2>2
<1>4. CASE GrowsStale \/ DropStale
  BY <1>4 DEF GrowsStale, DropStale
<1>5. CASE Prune
  \* no entry: every request is late, or the license is gone
  BY <1>5 DEF Prune, EntryOutlives
<1>6. CASE CleanupClientState
  BY <1>6 DEF CleanupClientState
<1>7. CASE UNCHANGED lpVars
  BY <1>7 DEF lpVars, lpClient
<1> QED
  BY <1>1, <1>2, <1>3, <1>4, <1>5, <1>6, <1>7 DEF LpNext

-----------------------------------------------------------------------------
\* The five facts about waiters and queues, in every state.
LEMMA LpInvariance == LpSpec => []LpInv
<1>1. LpInv /\ [LpNext]_lpVars => LpInv'
  <2>1. LpInv => LpTypeOK
    BY DEF LpInv
  <2> QED
    BY <2>1, LpTypeStep, LpToldStep, LpQueueStep, LpWakeupStep, LpEntryStep, LpKeepsStep DEF LpInv
<1> QED
  BY LpInitHolds, <1>1, PTL DEF LpSpec

\* The state keeps its types: a notification queue never holds more than its
\* size, and a request waits on a queue that was made (ws/connection.py).
THEOREM LongPollTyped == LpSpec => []LpTypeOK
<1>1. LpInv => LpTypeOK
  BY DEF LpInv
<1> QED
  BY LpInvariance, <1>1, PTL

\* While a poller waits on the queue an unclaimed signal was announced in, the
\* announcement is there or a claim is about to be made (longpoll_signals).
THEOREM WakeupsAreKept == LpSpec => []NoLostWakeup
<1>1. LpInv => NoLostWakeup
  BY DEF LpInv, NotifiedOrClaiming, WaitsOnQueue, NoLostWakeup
<1> QED
  BY LpInvariance, <1>1, PTL

\* Pruning takes a queue only from a poller that has waited longer than the
\* polling timeout, or whose license is gone (prune_idle_signal_queues).
THEOREM WaitersKeepQueues == LpSpec => []WaiterKeepsQueue
<1>1. LpInv => WaiterKeepsQueue
  BY DEF LpInv
<1> QED
  BY LpInvariance, <1>1, PTL

HIDE LongPollAssumption DEF Queues

-----------------------------------------------------------------------------
(*****************************************************************************)
(* Licenses                                                                  *)
(* What an administrator's step does to the licenses is said once, by        *)
(* Changes; what the dialogs do beside that, by DialogTypes.                 *)
(*****************************************************************************)

USE LicensesAssumption DEF Keys, Idle, NoCascade, Ready

\* LicTypeOK's part of the dialogs,
DialogTypes ==
    /\ stage \in [LicWorkers -> [add : Stages.add, edit : Stages.edit, term : Stages.term]]
    /\ draft \in [LicWorkers -> BOOLEAN]
    /\ editKey \in [LicWorkers -> {0} \cup Keys] /\ expKey \in [LicWorkers -> {0} \cup Keys]

\* and that of the licenses.
LicenseTypes ==
    /\ file \in LicenseMaps /\ torn \in BOOLEAN /\ cache \in [LicWorkers -> LicenseMaps]
    /\ writing \in [LicWorkers -> {Idle, NoCascade} \cup Keys]
    /\ issued \in 0..MaxLics /\ passed \subseteq 1..issued
    /\ rows \subseteq Keys /\ hooks \in [LicWorkers -> SUBSET Keys]
    /\ gone \in [LicWorkers -> SUBSET Keys] /\ deleted \subseteq Keys /\ revived \subseteq Keys
    /\ kept \subseteq Keys /\ author \in LicWorkers /\ spoiled \in BOOLEAN

\* No key is known, or gone, before it was issued.
OnlyIssued ==
    /\ DOMAIN file \subseteq 1..issued
    /\ \A w \in LicWorkers : DOMAIN cache[w] \cup gone[w] \subseteq 1..issued

\* Unless one write went wrong, who writes is alone and wrote last before.
WriterAlone == ~spoiled => \A w \in LicWorkers : ~Ready(w) => torn /\ w = author

\* What the theorems need in the state before.
LicInv ==
    /\ LicenseTypes /\ DialogTypes /\ OnlyIssued /\ WriterAlone
    /\ NoResurrection /\ RestartKeepsLicenses /\ NoOrphanSignals

-----------------------------------------------------------------------------
(* The data.                                                               *)

\* What a set of licenses with their statuses is.
LEMMA LicMaps ==
    ASSUME NEW f
    PROVE  f \in LicenseMaps <=> \E K \in SUBSET Keys : f \in [K -> LicStatuses]
  BY DEF LicenseMaps

\* Its keys and its statuses.
LEMMA LicMapDomain ==
    ASSUME NEW f \in LicenseMaps
    PROVE  DOMAIN f \subseteq Keys /\ \A k \in DOMAIN f : f[k] \in LicStatuses
<1>1. PICK K \in SUBSET Keys : f \in [K -> LicStatuses]
  BY LicMaps
<1> QED
  BY <1>1

-----------------------------------------------------------------------------
(* The steps, sorted by what they disturb.                                 *)

\* What w's change of the licenses does: a write begins, keys come from those
\* newly issued, those that go are remembered, and one may be deleted.
Changes(w) ==
    /\ Ready(w) /\ torn' = TRUE /\ UNCHANGED <<file, author, passed, rows, hooks, revived, kept>>
    /\ spoiled' = (spoiled \/ author # w \/ \E v \in LicWorkers \ {w} : ~Ready(v))
    /\ writing' \in [LicWorkers -> {Idle, NoCascade} \cup Keys] /\ writing'[w] # Idle
    /\ \A v \in LicWorkers \ {w} :
          writing'[v] = writing[v] /\ cache'[v] = cache[v] /\ gone'[v] = gone[v]
    /\ issued' \in 0..MaxLics /\ issued <= issued'
    /\ cache' \in [LicWorkers -> LicenseMaps]
    /\ DOMAIN cache'[w] \subseteq DOMAIN cache[w] \cup (issued + 1)..issued'
    /\ gone' \in [LicWorkers -> SUBSET Keys]
    /\ gone'[w] \subseteq gone[w] \cup (DOMAIN cache[w] \ DOMAIN cache'[w])
    /\ deleted' \subseteq Keys /\ deleted' \subseteq deleted \cup {writing'[w]}

Buttons(w) ==
    \/ BulkDeactivateExpired(w) \/ BulkActivateAll(w) \/ AddConfirm(w)
    \/ \E k \in Keys : \/ DeleteLicense(w, k) \/ EditValue(w, k) \/ ExpiryValue(w, k)
                       \/ \E st \in LicStatuses : Toggle(w, k, st)

Dialogs(w) ==
    \/ AddStart(w) \/ AddName(w) \/ AddEmail(w) \/ AddFeatures(w) \/ AddExpiry(w) \/ AddRefused(w)
    \/ EditStart(w) \/ EditField(w) \/ EditRefused(w) \/ ExpiryStart(w) \/ ExpiryRefused(w)
    \/ \E d \in {"add", "edit", "term"} : CancelConversation(w, d) \/ ConversationEnds(w, d)
    \/ \E k \in Keys : EditPick(w, k) \/ ExpiryPick(w, k)

\* The steps: an administrator's, a dialog's, a write's end, a restart, the clock and the traffic.
LEMMA LicActions ==
    ASSUME LicNext
    PROVE  \/ \E w \in LicWorkers : Dump(w) \/ Restart(w) \/ Buttons(w) \/ Dialogs(w)
           \/ \E k \in Keys : Expires(k)
           \/ \E w \in LicWorkers, k \in Keys : Verify(w, k) \/ SaveVerified(w, k) \/ PollClaims(w, k)
  BY DEF LicNext, Buttons, Dialogs

\* A write begins.
LEMMA TruncateFacts ==
    ASSUME LicenseTypes, NEW w \in LicWorkers, NEW then \in {NoCascade} \cup Keys, Truncate(w, then)
    PROVE  /\ torn' = TRUE /\ UNCHANGED <<file, author>>
           /\ spoiled' = (spoiled \/ author # w \/ \E v \in LicWorkers \ {w} : ~Ready(v))
           /\ writing' \in [LicWorkers -> {Idle, NoCascade} \cup Keys] /\ writing'[w] = then /\ then # Idle
           /\ \A v \in LicWorkers \ {w} : writing'[v] = writing[v]
  BY DEF LicenseTypes, Truncate

\* A step that keeps the keys of w's copy, or takes some away.
LEMMA CacheFacts ==
    ASSUME LicenseTypes, NEW w \in LicWorkers, NEW K \in SUBSET Keys, NEW f \in [K -> LicStatuses],
           cache' = [cache EXCEPT ![w] = f]
    PROVE  /\ cache' \in [LicWorkers -> LicenseMaps] /\ cache'[w] = f /\ DOMAIN cache'[w] = K
           /\ \A v \in LicWorkers \ {w} : cache'[v] = cache[v]
<1>1. f \in LicenseMaps /\ DOMAIN f = K
  BY LicMaps
<1> QED
  BY <1>1 DEF LicenseTypes

\* A worker's copy is one of license keys.
LEMMA CopyFacts ==
    ASSUME LicenseTypes, NEW w \in LicWorkers
    PROVE  /\ DOMAIN cache[w] \in SUBSET Keys
           /\ cache[w] \in [DOMAIN cache[w] -> LicStatuses]
<1>1. cache[w] \in LicenseMaps
  BY DEF LicenseTypes
<1>2. PICK K \in SUBSET Keys : cache[w] \in [K -> LicStatuses]
  BY <1>1, LicMaps
<1> QED
  BY <1>2

\* A change that replaces no key, given what it makes of w's copy.
LEMMA PlainChange ==
    ASSUME LicenseTypes, NEW w \in LicWorkers, Ready(w), Truncate(w, NoCascade),
           UNCHANGED <<passed, licSignals, gone>>,
           cache' \in [LicWorkers -> LicenseMaps], \A v \in LicWorkers \ {w} : cache'[v] = cache[v],
           issued' \in 0..MaxLics, issued <= issued',
           DOMAIN cache'[w] \subseteq DOMAIN cache[w] \cup (issued + 1)..issued'
    PROVE  Changes(w)
<1>1. /\ torn' = TRUE /\ UNCHANGED <<file, author>>
      /\ spoiled' = (spoiled \/ author # w \/ \E v \in LicWorkers \ {w} : ~Ready(v))
      /\ writing' \in [LicWorkers -> {Idle, NoCascade} \cup Keys] /\ writing'[w] # Idle
      /\ \A v \in LicWorkers \ {w} : writing'[v] = writing[v]
  BY TruncateFacts
<1>2. /\ UNCHANGED <<passed, rows, hooks, revived, kept>>
      /\ gone' = gone /\ gone \in [LicWorkers -> SUBSET Keys]
      /\ deleted' = deleted /\ deleted \subseteq Keys
  BY DEF licSignals, LicenseTypes
<1> QED
  BY <1>1, <1>2 DEF Changes

\* What every administrator's button does to the licenses.
LEMMA ButtonFacts ==
    ASSUME LicenseTypes, OnlyIssued, NEW w \in LicWorkers, Buttons(w)
    PROVE  Changes(w)
<1> DEFINE K == DOMAIN cache[w]
<1>1. K \in SUBSET Keys /\ cache[w] \in [K -> LicStatuses]
  BY CopyFacts
<1>2. ASSUME NEW k \in Keys, NEW st \in LicStatuses, Toggle(w, k, st) PROVE Changes(w)
  <2>1. cache' = [cache EXCEPT ![w] = [cache[w] EXCEPT ![k] = st]]
    BY <1>2 DEF Toggle
  <2>2. [cache[w] EXCEPT ![k] = st] \in [K -> LicStatuses]
    BY <1>1
  <2>3. /\ cache' \in [LicWorkers -> LicenseMaps] /\ DOMAIN cache'[w] = K
        /\ \A v \in LicWorkers \ {w} : cache'[v] = cache[v]
    BY <1>1, <2>1, <2>2, CacheFacts
  <2>4. Ready(w) /\ Truncate(w, NoCascade) /\ UNCHANGED <<issued, passed, licSignals, gone>>
    BY <1>2 DEF Toggle
  <2>5. issued' \in 0..MaxLics /\ issued <= issued'
    BY <2>4 DEF LicenseTypes
  <2> QED
    BY <2>3, <2>4, <2>5, PlainChange
<1>3. CASE BulkDeactivateExpired(w)
  <2> DEFINE lapsed == {k \in DOMAIN cache[w] \cap passed : cache[w][k] = "active"}
             f == [k \in K |-> IF k \in lapsed THEN "inactive" ELSE cache[w][k]]
  <2>1. cache' = [cache EXCEPT ![w] = f]
    BY <1>3 DEF BulkDeactivateExpired
  <2>2. f \in [K -> LicStatuses]
    BY <1>1 DEF LicStatuses
  <2>3. /\ cache' \in [LicWorkers -> LicenseMaps] /\ DOMAIN cache'[w] = K
        /\ \A v \in LicWorkers \ {w} : cache'[v] = cache[v]
    BY <1>1, <2>1, <2>2, CacheFacts
  <2>4. Ready(w) /\ Truncate(w, NoCascade) /\ UNCHANGED <<issued, passed, licSignals, gone>>
    BY <1>3 DEF BulkDeactivateExpired
  <2>5. issued' \in 0..MaxLics /\ issued <= issued'
    BY <2>4 DEF LicenseTypes
  <2> QED
    BY <2>3, <2>4, <2>5, PlainChange
<1>4. CASE BulkActivateAll(w)
  <2> DEFINE f == [k \in K |-> "active"]
  <2>1. cache' = [cache EXCEPT ![w] = f]
    BY <1>4 DEF BulkActivateAll
  <2>2. f \in [K -> LicStatuses]
    BY <1>1 DEF LicStatuses
  <2>3. /\ cache' \in [LicWorkers -> LicenseMaps] /\ DOMAIN cache'[w] = K
        /\ \A v \in LicWorkers \ {w} : cache'[v] = cache[v]
    BY <1>1, <2>1, <2>2, CacheFacts
  <2>4. Ready(w) /\ Truncate(w, NoCascade) /\ UNCHANGED <<issued, passed, licSignals, gone>>
    BY <1>4 DEF BulkActivateAll
  <2>5. issued' \in 0..MaxLics /\ issued <= issued'
    BY <2>4 DEF LicenseTypes
  <2> QED
    BY <2>3, <2>4, <2>5, PlainChange
<1>5. CASE AddConfirm(w)
  <2> DEFINE f == [k \in K \cup {issued'} |-> IF k = issued' THEN "active" ELSE cache[w][k]]
  <2>1. /\ cache' = [cache EXCEPT ![w] = f] /\ issued' = issued + 1 /\ issued' \in 0..MaxLics
        /\ issued' \in Keys /\ issued' \in (issued + 1)..issued'
    BY <1>5 DEF AddConfirm, LicenseTypes
  <2>2. K \cup {issued'} \in SUBSET Keys /\ f \in [K \cup {issued'} -> LicStatuses]
    BY <1>1, <2>1 DEF LicStatuses
  <2>3. /\ cache' \in [LicWorkers -> LicenseMaps] /\ DOMAIN cache'[w] = K \cup {issued'}
        /\ \A v \in LicWorkers \ {w} : cache'[v] = cache[v]
    BY <2>1, <2>2, CacheFacts
  <2> HIDE DEF f
  <2>4. issued <= issued'
    BY <2>1 DEF LicenseTypes
  <2>5. Ready(w) /\ Truncate(w, NoCascade) /\ UNCHANGED <<passed, licSignals, gone>>
    BY <1>5 DEF AddConfirm, Moves
  <2>6. DOMAIN cache'[w] \subseteq DOMAIN cache[w] \cup (issued + 1)..issued'
    BY <2>1, <2>3
  <2> QED
    BY <2>1, <2>3, <2>4, <2>5, <2>6, PlainChange
<1>6. ASSUME NEW k \in Keys, DeleteLicense(w, k) PROVE Changes(w)
  <2> DEFINE f == [j \in K \ {k} |-> cache[w][j]]
  <2>1. cache' = [cache EXCEPT ![w] = f]
    BY <1>6 DEF DeleteLicense, Restrict
  <2>2. K \ {k} \in SUBSET Keys /\ f \in [K \ {k} -> LicStatuses]
    BY <1>1
  <2>3. /\ cache' \in [LicWorkers -> LicenseMaps] /\ DOMAIN cache'[w] = K \ {k}
        /\ \A v \in LicWorkers \ {w} : cache'[v] = cache[v]
    BY <2>1, <2>2, CacheFacts
  <2>4. /\ gone' = [gone EXCEPT ![w] = @ \cup {k}] /\ k \in K /\ deleted' = deleted \cup {k}
        /\ issued' = issued
    BY <1>6 DEF DeleteLicense, Has
  <2>5. /\ gone' \in [LicWorkers -> SUBSET Keys] /\ gone'[w] = gone[w] \cup {k}
        /\ \A v \in LicWorkers \ {w} : gone'[v] = gone[v]
    BY <2>4 DEF LicenseTypes
  <2>6. UNCHANGED <<passed, rows, hooks, revived, kept>> /\ Ready(w) /\ Truncate(w, k)
    BY <1>6 DEF DeleteLicense
  <2>7. /\ torn' = TRUE /\ UNCHANGED <<file, author>>
        /\ spoiled' = (spoiled \/ author # w \/ \E v \in LicWorkers \ {w} : ~Ready(v))
        /\ writing' \in [LicWorkers -> {Idle, NoCascade} \cup Keys] /\ writing'[w] = k /\ k # Idle
        /\ \A v \in LicWorkers \ {w} : writing'[v] = writing[v]
    BY <2>6, TruncateFacts
  <2>8. deleted' \subseteq Keys /\ issued' \in 0..MaxLics /\ issued <= issued'
    BY <2>4 DEF LicenseTypes
  <2> QED
    BY <2>3, <2>4, <2>5, <2>6, <2>7, <2>8 DEF Changes
<1>7. ASSUME NEW k \in Keys, EditValue(w, k) PROVE Changes(w)
  <2> DEFINE f == [j \in K \cup {k} |-> IF j \in K THEN cache[w][j] ELSE "active"]
  <2>1. cache' = [cache EXCEPT ![w] = f] /\ k \in K
    BY <1>7 DEF EditValue, Editable, Has
  <2>2. K \cup {k} = K /\ f \in [K -> LicStatuses]
    BY <1>1, <2>1
  <2>3. /\ cache' \in [LicWorkers -> LicenseMaps] /\ DOMAIN cache'[w] = K
        /\ \A v \in LicWorkers \ {w} : cache'[v] = cache[v]
    BY <1>1, <2>1, <2>2, CacheFacts
  <2>4. Ready(w) /\ Truncate(w, NoCascade) /\ UNCHANGED <<issued, passed, licSignals, gone>>
    BY <1>7 DEF EditValue, Moves
  <2>5. issued' \in 0..MaxLics /\ issued <= issued'
    BY <2>4 DEF LicenseTypes
  <2> QED
    BY <2>3, <2>4, <2>5, PlainChange
<1>8. ASSUME NEW k \in Keys, ExpiryValue(w, k) PROVE Changes(w)
  <2> DEFINE L == (K \ {k}) \cup {issued'}
             f == [j \in L |-> IF j = issued' THEN cache[w][k] ELSE cache[w][j]]
  <2>1. /\ cache' = [cache EXCEPT ![w] = f] /\ k \in K /\ issued' = issued + 1 /\ issued' \in 0..MaxLics
        /\ issued' \in Keys /\ issued' \in (issued + 1)..issued' /\ issued <= issued'
    BY <1>8 DEF ExpiryValue, Has, LicenseTypes
  <2>2. L \in SUBSET Keys /\ f \in [L -> LicStatuses]
    BY <1>1, <2>1
  <2>3. /\ cache' \in [LicWorkers -> LicenseMaps] /\ DOMAIN cache'[w] = L
        /\ \A v \in LicWorkers \ {w} : cache'[v] = cache[v]
    BY <2>1, <2>2, CacheFacts
  <2> HIDE DEF f
  <2>4. UNCHANGED <<passed, licSignals>> /\ Ready(w) /\ Truncate(w, NoCascade)
        /\ gone' = [gone EXCEPT ![w] = @ \cup {k}]
    BY <1>8 DEF ExpiryValue, Moves
  <2>5. /\ gone' \in [LicWorkers -> SUBSET Keys] /\ gone'[w] = gone[w] \cup {k}
        /\ \A v \in LicWorkers \ {w} : gone'[v] = gone[v]
    BY <2>4 DEF LicenseTypes
  <2>6. /\ torn' = TRUE /\ UNCHANGED <<file, author>>
        /\ spoiled' = (spoiled \/ author # w \/ \E v \in LicWorkers \ {w} : ~Ready(v))
        /\ writing' \in [LicWorkers -> {Idle, NoCascade} \cup Keys] /\ writing'[w] # Idle
        /\ \A v \in LicWorkers \ {w} : writing'[v] = writing[v]
    BY <2>4, TruncateFacts
  <2>7. UNCHANGED <<rows, hooks, revived, kept>> /\ deleted' = deleted /\ deleted \subseteq Keys
    BY <2>4 DEF licSignals, LicenseTypes
  \* the new key is none of the old ones
  <2>8. k # issued' /\ k \in K \ L /\ L \subseteq K \cup (issued + 1)..issued'
    BY <2>1 DEF OnlyIssued, LicenseTypes
  <2> HIDE DEF L
  <2> QED
    BY <2>1, <2>3, <2>4, <2>5, <2>6, <2>7, <2>8 DEF Changes
<1> QED
  BY <1>2, <1>3, <1>4, <1>5, <1>6, <1>7, <1>8 DEF Buttons

-----------------------------------------------------------------------------
(* The dialogs.                                                            *)

\* A dialog goes on to one of its stages.
LEMMA DialogMoves ==
    ASSUME DialogTypes, NEW w \in LicWorkers, NEW d \in {"add", "edit", "term"}, NEW from,
           NEW to \in Stages[d], Moves(w, d, from, to)
    PROVE  stage' \in [LicWorkers -> [add : Stages.add, edit : Stages.edit, term : Stages.term]]
<1>1. stage' = [stage EXCEPT ![w][d] = to]
  BY DEF Moves
<1>2. CASE d = "add"
  BY <1>1, <1>2 DEF DialogTypes, Stages
<1>3. CASE d = "edit"
  BY <1>1, <1>3 DEF DialogTypes, Stages
<1>4. CASE d = "term"
  BY <1>1, <1>4 DEF DialogTypes, Stages
<1> QED
  BY <1>2, <1>3, <1>4

\* What a dialog may do with user_data.
Stores(w, d) ==
    \/ SameData \/ Forget(w)
    \/ d = "add" /\ \E x \in BOOLEAN : Keeps(w, d, x)
    \/ d # "add" /\ \E x \in {0} \cup Keys : Keeps(w, d, x)

\* What a dialog remembers is a key or nothing.
LEMMA StoresTyped ==
    ASSUME DialogTypes, NEW w \in LicWorkers, NEW d \in {"add", "edit", "term"}, Stores(w, d)
    PROVE  /\ draft' \in [LicWorkers -> BOOLEAN]
           /\ editKey' \in [LicWorkers -> {0} \cup Keys] /\ expKey' \in [LicWorkers -> {0} \cup Keys]
<1> DEFINE Typed == /\ draft' \in [LicWorkers -> BOOLEAN]
                    /\ editKey' \in [LicWorkers -> {0} \cup Keys]
                    /\ expKey' \in [LicWorkers -> {0} \cup Keys]
<1>1. CASE SameData
  BY <1>1 DEF SameData, DialogTypes
<1>2. CASE Forget(w)
  BY <1>2 DEF Forget, DialogTypes
<1>3. ASSUME d = "add", NEW x \in BOOLEAN, Keeps(w, d, x) PROVE Typed
  BY <1>3 DEF Keeps, DialogTypes
<1>4. ASSUME d # "add", NEW x \in {0} \cup Keys, Keeps(w, d, x) PROVE Typed
  BY <1>4 DEF Keeps, DialogTypes
<1> QED
  BY <1>1, <1>2, <1>3, <1>4 DEF Stores

\* A step of a dialog, by where it moves and what it keeps.
Turns(w, d, to) == to \in Stages[d] /\ (\E from : Moves(w, d, from, to)) /\ Stores(w, d)

\* So a turn keeps the types,
LEMMA TurnsTyped ==
    ASSUME DialogTypes, NEW w \in LicWorkers, NEW d \in {"add", "edit", "term"}, NEW to, Turns(w, d, to)
    PROVE  DialogTypes'
  BY DialogMoves, StoresTyped DEF Turns, DialogTypes

\* and every step of a dialog is a turn that changes no license.
LEMMA DialogFacts ==
    ASSUME DialogTypes, NEW w \in LicWorkers, Dialogs(w)
    PROVE  NothingElse /\ DialogTypes'
<1>1. CASE AddStart(w) \/ AddName(w) \/ AddEmail(w) \/ AddFeatures(w) \/ AddExpiry(w) \/ AddRefused(w)
  <2>1. \E to : Turns(w, "add", to)
    BY <1>1 DEF AddStart, AddName, AddEmail, AddFeatures, AddExpiry, AddRefused, Starts, Turns, Stores, Stages
  <2>2. NothingElse
    BY <1>1 DEF AddStart, AddName, AddEmail, AddFeatures, AddExpiry, AddRefused
  <2> QED
    BY <2>1, <2>2, TurnsTyped
<1>2. CASE EditStart(w) \/ EditField(w) \/ EditRefused(w)
  <2>1. \E to : Turns(w, "edit", to)
    BY <1>2 DEF EditStart, EditField, EditRefused, Starts, Turns, Stores, Stages
  <2>2. NothingElse
    BY <1>2 DEF EditStart, EditField, EditRefused
  <2> QED
    BY <2>1, <2>2, TurnsTyped
<1>3. CASE ExpiryStart(w) \/ ExpiryRefused(w)
  <2>1. \E to : Turns(w, "term", to)
    BY <1>3 DEF ExpiryStart, ExpiryRefused, Starts, Turns, Stores, Stages
  <2>2. NothingElse
    BY <1>3 DEF ExpiryStart, ExpiryRefused
  <2> QED
    BY <2>1, <2>2, TurnsTyped
<1>4. ASSUME NEW k \in Keys, EditPick(w, k) PROVE NothingElse /\ DialogTypes'
  <2>1. \E to : Turns(w, "edit", to)
    BY <1>4 DEF EditPick, Turns, Stores, Stages
  <2> QED
    BY <1>4, <2>1, TurnsTyped DEF EditPick
<1>5. ASSUME NEW k \in Keys, ExpiryPick(w, k) PROVE NothingElse /\ DialogTypes'
  <2>1. \E to : Turns(w, "term", to)
    BY <1>5 DEF ExpiryPick, Turns, Stores, Stages
  <2> QED
    BY <1>5, <2>1, TurnsTyped DEF ExpiryPick
<1>6. ASSUME NEW d \in {"add", "edit", "term"}, CancelConversation(w, d) \/ ConversationEnds(w, d)
      PROVE  NothingElse /\ DialogTypes'
  <2>1. "none" \in Stages[d] /\ \E from : Moves(w, d, from, "none")
    <3>1. "none" \in Stages[d]
      BY DEF Stages
    <3>2. Moves(w, d, Stages[d] \ {"none"}, "none")
      BY <1>6 DEF CancelConversation, ConversationEnds
    <3> QED
      BY <3>1, <3>2
  <2>2. Stores(w, d)
    BY <1>6 DEF CancelConversation, ConversationEnds, Stores
  <2>3. Turns(w, d, "none")
    BY <2>1, <2>2 DEF Turns
  <2> QED
    BY <1>6, <2>3, TurnsTyped DEF CancelConversation, ConversationEnds
<1> QED
  BY <1>1, <1>2, <1>3, <1>4, <1>5, <1>6 DEF Dialogs

\* An administrator's button ends a dialog or leaves the dialogs alone.
LEMMA ButtonDialogs ==
    ASSUME DialogTypes, NEW w \in LicWorkers, Buttons(w)
    PROVE  DialogTypes'
<1>1. CASE BulkDeactivateExpired(w) \/ BulkActivateAll(w)
  BY <1>1 DEF BulkDeactivateExpired, BulkActivateAll, licDialog, DialogTypes
<1>2. CASE AddConfirm(w)
  <2>1. Turns(w, "add", "none")
    BY <1>2 DEF AddConfirm, Turns, Stores, Stages
  <2> QED
    BY <2>1, TurnsTyped
<1>3. ASSUME NEW k \in Keys, DeleteLicense(w, k) PROVE DialogTypes'
  BY <1>3 DEF DeleteLicense, licDialog, DialogTypes
<1>4. ASSUME NEW k \in Keys, NEW st \in LicStatuses, Toggle(w, k, st) PROVE DialogTypes'
  BY <1>4 DEF Toggle, licDialog, DialogTypes
<1>5. ASSUME NEW k \in Keys, EditValue(w, k) PROVE DialogTypes'
  <2>1. Turns(w, "edit", "none")
    BY <1>5 DEF EditValue, Turns, Stores, Stages
  <2> QED
    BY <2>1, TurnsTyped
<1>6. ASSUME NEW k \in Keys, ExpiryValue(w, k) PROVE DialogTypes'
  <2>1. Turns(w, "term", "none")
    BY <1>6 DEF ExpiryValue, Turns, Stores, Stages
  <2> QED
    BY <2>1, TurnsTyped
<1> QED
  BY <1>1, <1>2, <1>3, <1>4, <1>5, <1>6 DEF Buttons

-----------------------------------------------------------------------------
(* The invariant.                                                          *)

\* The file and its copies are the same in the initial state.
LEMMA LicInitHolds == LicInit => LicInv
<1> SUFFICES ASSUME LicInit PROVE LicInv
  OBVIOUS
<1>1. file \in LicenseMaps /\ DOMAIN file = {1} /\ {1} \subseteq Keys
  <2>1. {1} \in SUBSET Keys /\ file \in [{1} -> LicStatuses]
    BY DEF LicInit, LicStatuses
  <2> QED
    BY <2>1, LicMaps
<1>2. LicenseTypes
  <2>1. /\ cache \in [LicWorkers -> LicenseMaps] /\ hooks \in [LicWorkers -> SUBSET Keys]
        /\ gone \in [LicWorkers -> SUBSET Keys] /\ writing \in [LicWorkers -> {Idle, NoCascade} \cup Keys]
    BY <1>1 DEF LicInit
  <2>2. issued \in 0..MaxLics
    BY DEF LicInit
  <2> QED
    BY <1>1, <2>1, <2>2 DEF LicInit, LicenseTypes
<1>3. DialogTypes
  BY DEF LicInit, DialogTypes, Closed, Stages
<1>4. OnlyIssued /\ WriterAlone /\ NoResurrection /\ RestartKeepsLicenses /\ NoOrphanSignals
  BY <1>1 DEF LicInit, OnlyIssued, WriterAlone, NoResurrection, RestartKeepsLicenses, NoOrphanSignals
<1> QED
  BY <1>2, <1>3, <1>4 DEF LicInv

\* A button writes the file and adds or takes a key of its worker.
LEMMA ButtonStep ==
    ASSUME LicInv, NEW w \in LicWorkers, Buttons(w)
    PROVE  LicInv'
<1>1. Changes(w) /\ DialogTypes'
  BY ButtonFacts, ButtonDialogs DEF LicInv
<1>2. LicenseTypes'
  <2>1. spoiled' \in BOOLEAN /\ passed' \subseteq 1..issued'
    BY <1>1 DEF Changes, LicInv, LicenseTypes
  <2> QED
    BY <1>1, <2>1 DEF Changes, LicInv, LicenseTypes
<1>3. OnlyIssued'
  <2>1. 1..issued \subseteq 1..issued' /\ (issued + 1)..issued' \subseteq 1..issued'
    BY <1>1 DEF Changes, LicInv, LicenseTypes
  <2>2. DOMAIN cache'[w] \subseteq 1..issued' /\ gone'[w] \subseteq 1..issued'
    BY <1>1, <2>1 DEF Changes, LicInv, OnlyIssued
  <2>3. \A v \in LicWorkers \ {w} : DOMAIN cache'[v] \cup gone'[v] \subseteq 1..issued'
    BY <1>1, <2>1 DEF Changes, LicInv, OnlyIssued
  <2>4. DOMAIN file' \subseteq 1..issued'
    BY <1>1, <2>1 DEF Changes, LicInv, OnlyIssued
  <2> QED
    BY <2>2, <2>3, <2>4 DEF OnlyIssued
<1>4. WriterAlone'
  BY <1>1 DEF Changes, WriterAlone
<1>5. NoResurrection'
  \* what comes into w's copy was never issued before
  <2>1. gone'[w] \cap DOMAIN cache'[w] = {}
    <3>1. gone[w] \cap (issued + 1)..issued' = {}
      BY DEF LicInv, OnlyIssued, LicenseTypes
    <3> QED
      BY <1>1, <3>1 DEF Changes, LicInv, NoResurrection
  <2> QED
    BY <1>1, <2>1 DEF Changes, LicInv, NoResurrection
<1>6. RestartKeepsLicenses'
  BY <1>1 DEF Changes, RestartKeepsLicenses
<1>7. NoOrphanSignals'
  <2>1. \A k \in deleted' \cap rows' : k \in deleted \cap rows \/ k = writing'[w]
    BY <1>1 DEF Changes
  <2>2. writing[w] \notin Keys /\ rows \subseteq Keys
    BY <1>1 DEF Changes, LicInv, LicenseTypes
  <2>3. \A k \in rows, v \in LicWorkers : writing[v] = k => writing'[v] = k
    BY <1>1, <2>2 DEF Changes
  <2>4. spoiled => spoiled'
    BY <1>1 DEF Changes
  <2> QED
    BY <1>1, <2>1, <2>3, <2>4 DEF Changes, LicInv, NoOrphanSignals
<1> QED
  BY <1>1, <1>2, <1>3, <1>4, <1>5, <1>6, <1>7 DEF LicInv

\* A dialog changes no license.
LEMMA DialogStep ==
    ASSUME LicInv, NEW w \in LicWorkers, Dialogs(w)
    PROVE  LicInv'
<1>1. NothingElse /\ DialogTypes'
  BY DialogFacts DEF LicInv
<1> QED
  BY <1>1 DEF NothingElse, licDisk, licSignals, LicInv, LicenseTypes, OnlyIssued, WriterAlone,
     NoResurrection, RestartKeepsLicenses, NoOrphanSignals

\* A write ends, and a delete goes on to its cascade.
LEMMA DumpStep ==
    ASSUME LicInv, NEW w \in LicWorkers, Dump(w)
    PROVE  LicInv'
<1>1. /\ ~Ready(w) /\ writing' = [writing EXCEPT ![w] = Idle] /\ author' = w
      /\ \/ rows' = rows \ {writing[w]} /\ kept' = kept
         \/ writing[w] \in rows /\ rows' = rows /\ kept' = kept \cup {writing[w]}
      /\ UNCHANGED <<cache, issued, passed, licDialog, hooks, gone, deleted, revived>>
      /\ \/ file' = cache[w] /\ torn' = FALSE /\ spoiled' = spoiled
         \/ file' = file /\ torn' = TRUE /\ spoiled' = TRUE
  BY DEF Dump, Cascade, CascadeFails
<1>2. writing'[w] = Idle /\ \A v \in LicWorkers \ {w} : writing'[v] = writing[v]
  BY <1>1 DEF LicInv, LicenseTypes
<1>3. LicenseTypes'
  <2>1. cache[w] \in LicenseMaps /\ writing' \in [LicWorkers -> {Idle, NoCascade} \cup Keys]
    BY <1>1 DEF LicInv, LicenseTypes
  <2>2. file' \in LicenseMaps /\ torn' \in BOOLEAN /\ spoiled' \in BOOLEAN
    BY <1>1, <2>1 DEF LicInv, LicenseTypes
  <2>3. rows' \subseteq Keys /\ kept' \subseteq Keys
    BY <1>1 DEF LicInv, LicenseTypes
  <2> QED
    BY <1>1, <2>1, <2>2, <2>3 DEF LicInv, LicenseTypes
<1>4. OnlyIssued' /\ NoResurrection'
  BY <1>1 DEF LicInv, OnlyIssued, NoResurrection
<1>5. WriterAlone'
  BY <1>1, <1>2 DEF LicInv, WriterAlone
<1>6. RestartKeepsLicenses'
  BY <1>1 DEF RestartKeepsLicenses
<1>7. NoOrphanSignals'
  <2>1. \A k \in rows', v \in LicWorkers : writing[v] = k => writing'[v] = k \/ k \in kept'
    BY <1>1, <1>2
  <2>2. /\ rows' \subseteq rows /\ (spoiled => spoiled') /\ kept \subseteq kept'
        /\ UNCHANGED <<deleted, revived>>
    BY <1>1 DEF LicInv, LicenseTypes
  <2> QED
    BY <2>1, <2>2 DEF LicInv, NoOrphanSignals
<1>8. DialogTypes'
  BY <1>1 DEF LicInv, DialogTypes, licDialog
<1> QED
  BY <1>3, <1>4, <1>5, <1>6, <1>7, <1>8 DEF LicInv

\* A restart reads the file.
LEMMA RestartStep ==
    ASSUME LicInv, NEW w \in LicWorkers, Restart(w)
    PROVE  LicInv'
<1>1. /\ cache' = [cache EXCEPT ![w] = Loaded] /\ writing' = [writing EXCEPT ![w] = Idle]
      /\ spoiled' = (spoiled \/ torn) /\ gone' = [gone EXCEPT ![w] = {}]
      /\ UNCHANGED <<file, torn, author, issued, passed, rows, deleted, revived, kept>>
  BY DEF Restart
<1>2. Loaded \in LicenseMaps /\ DOMAIN Loaded \subseteq DOMAIN file
  <2>1. [k \in {} |-> "active"] \in [{} -> LicStatuses]
    OBVIOUS
  <2>2. [k \in {} |-> "active"] \in LicenseMaps /\ DOMAIN [k \in {} |-> "active"] = {}
    BY <2>1, LicMaps
  <2> QED
    BY <2>2 DEF Loaded, LicInv, LicenseTypes
<1>3. /\ cache'[w] = Loaded /\ writing'[w] = Idle /\ gone'[w] = {}
      /\ \A v \in LicWorkers \ {w} :
            cache'[v] = cache[v] /\ writing'[v] = writing[v] /\ gone'[v] = gone[v]
  BY <1>1 DEF LicInv, LicenseTypes
<1>4. DialogTypes'
  BY DEF Restart, LicInv, DialogTypes, Closed, Stages
<1>5. LicenseTypes'
  <2>1. hooks' \in [LicWorkers -> SUBSET Keys]
    BY DEF Restart, LicInv, LicenseTypes
  <2> QED
    BY <1>1, <1>2, <2>1 DEF LicInv, LicenseTypes
<1>6. OnlyIssued' /\ NoResurrection'
  BY <1>1, <1>2, <1>3 DEF LicInv, OnlyIssued, NoResurrection
<1>7. WriterAlone'
  BY <1>1, <1>3 DEF LicInv, WriterAlone
<1>8. RestartKeepsLicenses'
  BY <1>1, <1>3 DEF LicInv, RestartKeepsLicenses, Loaded
<1>9. NoOrphanSignals'
  \* while the file is whole no cascade is under way
  <2>1. ~spoiled' => \A v \in LicWorkers : writing[v] = Idle
    BY <1>1 DEF LicInv, LicenseTypes, WriterAlone
  <2> QED
    BY <1>1, <2>1 DEF LicInv, LicenseTypes, NoOrphanSignals
<1> QED
  BY <1>4, <1>5, <1>6, <1>7, <1>8, <1>9 DEF LicInv

\* The signals of a license, and time.
LEMMA SignalSteps ==
    ASSUME LicInv, NEW w \in LicWorkers, NEW k \in Keys,
           Verify(w, k) \/ SaveVerified(w, k) \/ PollClaims(w, k)
    PROVE  LicInv'
<1>1. UNCHANGED <<licDisk, cache, issued, passed, licDialog, deleted, kept, gone>>
  BY DEF Verify, SaveVerified, PollClaims
<1>2. /\ rows' \subseteq Keys /\ revived' \subseteq Keys /\ revived \subseteq revived'
      /\ hooks' \in [LicWorkers -> SUBSET Keys]
      /\ \A j \in rows' \ rows : j \in deleted => j \in revived'
  BY DEF Verify, SaveVerified, PollClaims, LicInv, LicenseTypes
<1>3. NoOrphanSignals'
  BY <1>1, <1>2 DEF licDisk, LicInv, NoOrphanSignals
<1> QED
  BY <1>1, <1>2, <1>3 DEF licDisk, licDialog, LicInv, LicenseTypes, DialogTypes, OnlyIssued, WriterAlone,
     NoResurrection, RestartKeepsLicenses

\* An expiry takes no key.
LEMMA ExpiresStep ==
    ASSUME LicInv, NEW k \in Keys, Expires(k)
    PROVE  LicInv'
<1>1. UNCHANGED <<licDisk, cache, issued, licDialog, licSignals, gone>> /\ passed' \subseteq 1..issued
  BY DEF Expires, LicInv, LicenseTypes
<1> QED
  BY <1>1 DEF licDisk, licDialog, licSignals, LicInv, LicenseTypes, DialogTypes, OnlyIssued, WriterAlone,
     NoResurrection, RestartKeepsLicenses, NoOrphanSignals

\* The three promises with what they rest on, in every state.
LEMMA LicInvariance == LicSpec => []LicInv
<1>1. LicInv /\ [LicNext]_licVars => LicInv'
  <2> SUFFICES ASSUME LicInv, [LicNext]_licVars PROVE LicInv'
    OBVIOUS
  <2>1. CASE LicNext
    BY <2>1, LicActions, ButtonStep, DialogStep, DumpStep, RestartStep, SignalSteps, ExpiresStep
  <2>2. CASE UNCHANGED licVars
    BY <2>2 DEF licVars, licDisk, licDialog, licSignals, LicInv, LicenseTypes, DialogTypes, OnlyIssued,
       WriterAlone, NoResurrection, RestartKeepsLicenses, NoOrphanSignals
  <2> QED
    BY <2>1, <2>2
<1> QED
  BY LicInitHolds, <1>1, PTL DEF LicSpec

\* The file, the copies and the dialogs keep their types, and no more keys are
\* issued than the bound (services/client_manager.py).
THEOREM LicensesTyped == LicSpec => []LicTypeOK
<1>1. LicInv => LicTypeOK
  BY DEF LicInv, LicenseTypes, DialogTypes, LicTypeOK
<1> QED
  BY LicInvariance, <1>1, PTL

\* A license a worker deleted or replaced never comes back into its copy,
\* whatever dialogs are open about it (mixins/conversations.py).
THEOREM GoneStaysGone == LicSpec => []NoResurrection
<1>1. LicInv => NoResurrection
  BY DEF LicInv
<1> QED
  BY LicInvariance, <1>1, PTL

\* What the last writer changed is in the file, and a restart reads it back
\* (_save_to_file, _load_from_file), unless a write went wrong.
THEOREM ChangesSurvive == LicSpec => []RestartKeepsLicenses
<1>1. LicInv => RestartKeepsLicenses
  BY DEF LicInv
<1> QED
  BY LicInvariance, <1>1, PTL

\* A deleted license's signals go with it, unless their deletion failed or a
\* webhook that had verified the license saved after it (_cascade_delete_license):
\* no interleaving of workers, dialogs and restarts leaves one behind otherwise.
THEOREM CascadeComplete == LicSpec => []NoOrphanSignals
<1>1. LicInv => NoOrphanSignals
  BY DEF LicInv
<1> QED
  BY LicInvariance, <1>1, PTL

HIDE LicensesAssumption DEF Keys, Idle, NoCascade, Ready

-----------------------------------------------------------------------------
(*****************************************************************************)
(* The parts side by side                                                    *)
(*****************************************************************************)

\* Every variable, of which each part has its own.
delVars == <<part, vars, fanVars, lpVars, licVars>>

\* A step of the whole is one of a part or leaves it as it was.
LEMMA DeliveryStep ==
    ASSUME [MCNext]_delVars
    PROVE  /\ [FanNext]_fanVars
           /\ [LpNext]_lpVars
           /\ [LicNext]_licVars
<1>1. [FanNext]_fanVars
  BY DEF MCNext, delVars
<1>2. [LpNext]_lpVars
  BY DEF MCNext, delVars
<1>3. [LicNext]_licVars
  BY DEF MCNext, delVars
<1> QED
  BY <1>1, <1>2, <1>3

\* Each part keeps its types whatever the others do: MCSpec behaves, for each of
\* them, as its own specification.
THEOREM DeliveryTyped == MCSpec => []DeliveryTypes
<1>1. MCInit => FanInit /\ LpInit /\ LicInit
  BY DEF MCInit
<1>2. MCInit /\ [][MCNext]_delVars => FanInit /\ [][FanNext]_fanVars /\ LpSpec /\ LicSpec
  BY <1>1, DeliveryStep, PTL DEF LpSpec, LicSpec
<1>3. FanInv => FanTypeOK
  BY DEF FanInv
<1>4. FanTypeOK /\ LpTypeOK /\ LicTypeOK => DeliveryTypes
  BY DEF DeliveryTypes
<1>5. MCSpec => MCInit /\ [][MCNext]_delVars
  BY PTL DEF MCSpec, delVars
<1> QED
  BY <1>2, <1>3, <1>4, <1>5, FanAlways, LongPollTyped, LicensesTyped, PTL
=============================================================================
