------------------------- MODULE SignalQueueProofs -------------------------
(***************************************************************************)
(* Proofs about SignalQueue, for any signals, licenses, EAs and thresholds *)
(* that satisfy the named assumptions.                                     *)
(***************************************************************************)
EXTENDS SignalQueue, TLAPS

USE DEF columns, server, eaState, vars

-----------------------------------------------------------------------------
(* Types.                                                                  *)

\* The types in the initial state,
LEMMA TypeInit == Init => TypeOK
<1> SUFFICES ASSUME Init PROVE TypeOK
    OBVIOUS
<1>1. 0 \in Ages /\ 0 \in ClaimAges /\ 0 \in 0 .. MaxFaults
    BY WindowAssumption, FaultAssumption DEF Ages, ClaimAges
<1> QED
    BY <1>1 DEF Init, TypeOK, Statuses, NotHeld

\* A saturating counter stays within its cap.
LEMMA OlderType ==
    ASSUME NEW cap \in Nat, NEW a \in 0 .. cap
    PROVE  Older(a, cap) \in 0 .. cap /\ Older(a, cap) >= a
BY DEF Older

\* and after each step: a save,
LEMMA TypeSave ==
    ASSUME TypeOK, NEW s \in Signals, NEW t \in {"pending", "acknowledged"},
           SaveSignal(s, t) \/ BeginSave(s, t) \/ CommitSave(s) \/ AbortSave(s)
    PROVE  TypeOK'
<1>1. CASE SaveSignal(s, t)
    BY <1>1 DEF SaveSignal, LogPermanent, AwaitPush, TypeOK, Statuses
<1>2. CASE BeginSave(s, t)
    BY <1>2 DEF BeginSave, LogPermanent, TypeOK, Statuses, InFlight
<1>3. CASE CommitSave(s)
    BY <1>3 DEF CommitSave, AwaitPush, TypeOK, Statuses
<1>4. CASE AbortSave(s)
    BY <1>4 DEF AbortSave, TypeOK, Statuses
<1> QED
    BY <1>1, <1>2, <1>3, <1>4

\* a claim,
LEMMA TypeClaim ==
    ASSUME TypeOK, NEW l \in Licenses, Claim(l)
    PROVE  status' \in [Signals -> Statuses] /\ claimAge' \in [Signals -> ClaimAges]
BY WindowAssumption DEF Claim, TypeOK, Statuses, ClaimAges

\* a poll,
LEMMA TypePoll ==
    ASSUME TypeOK, NEW e \in EAs, Poll(e) \/ PollLost(e)
    PROVE  TypeOK'
<1>1. LicenseOf[e] \in Licenses /\ 0 \in ClaimAges
    BY LicenseAssumption, WindowAssumption DEF ClaimAges
<1>2. status' \in [Signals -> Statuses] /\ claimAge' \in [Signals -> ClaimAges]
    BY <1>1, TypeClaim DEF Poll, PollLost
<1>3. CASE Poll(e)
    BY <1>1, <1>2, <1>3 DEF Poll, TypeOK
<1>4. CASE PollLost(e)
  <2>1. faults' \in 0 .. MaxFaults
      BY <1>4, FaultAssumption DEF PollLost, TypeOK
  <2> QED
      BY <1>2, <1>4, <2>1 DEF PollLost, TypeOK
<1> QED
    BY <1>3, <1>4

\* copies that are let go,
LEMMA TypeRelease ==
    ASSUME TypeOK, NEW e \in EAs, NEW S \in SUBSET Signals, Release(e, S)
    PROVE  /\ held' \in [EAs -> [Signals -> ClaimAges \cup {NotHeld}]]
           /\ pushed' \in [EAs -> SUBSET Signals]
BY DEF Release, TypeOK

\* rows that are settled,
LEMMA TypeSettle ==
    ASSUME TypeOK, NEW l \in Licenses, NEW S \in SUBSET Signals,
           Acknowledge(l, S), SettledClaimAge
    PROVE  status' \in [Signals -> Statuses] /\ claimAge' \in [Signals -> ClaimAges]
BY WindowAssumption DEF Acknowledge, SettledClaimAge, TypeOK, Statuses, ClaimAges

\* an acknowledgement,
LEMMA TypeAck ==
    ASSUME TypeOK, NEW e \in EAs, NEW S \in SUBSET Signals,
           AckHttp(e, S) \/ AckWs(e, S) \/ AckLost(e, S)
    PROVE  TypeOK'
<1>1. LicenseOf[e] \in Licenses
    BY LicenseAssumption
<1>2. /\ held' \in [EAs -> [Signals -> ClaimAges \cup {NotHeld}]]
      /\ pushed' \in [EAs -> SUBSET Signals]
    BY TypeRelease DEF AckHttp, AckWs, AckLost
<1>3. CASE AckHttp(e, S) \/ AckWs(e, S)
  <2>1. status' \in [Signals -> Statuses] /\ claimAge' \in [Signals -> ClaimAges]
      BY <1>1, <1>3, TypeSettle DEF AckHttp, AckWs
  <2>2. toLog' \in SUBSET Signals
      BY <1>3 DEF AckHttp, AckWs, TypeOK
  <2> QED
      BY <1>2, <1>3, <2>1, <2>2 DEF AckHttp, AckWs, TypeOK
<1>4. CASE AckLost(e, S)
  <2>1. faults' \in 0 .. MaxFaults
      BY <1>4, FaultAssumption DEF AckLost, TypeOK
  <2> QED
      BY <1>2, <1>4, <2>1 DEF AckLost, TypeOK
<1> QED
    BY <1>3, <1>4

\* a deletion,
LEMMA TypeDelete ==
    ASSUME TypeOK, NEW S \in SUBSET Signals, NEW mark \in {"purged", "removed"},
           Delete(S, mark)
    PROVE  TypeOK'
<1>1. 0 \in Ages /\ 0 \in ClaimAges
    BY WindowAssumption DEF Ages, ClaimAges
<1>2. status' \in [Signals -> Statuses] /\ age' \in [Signals -> Ages]
    BY <1>1 DEF Delete, TypeOK, Statuses
<1>3. claimAge' \in [Signals -> ClaimAges]
    BY <1>1 DEF Delete, SettledClaimAge, TypeOK
<1> QED
    BY <1>2, <1>3 DEF Delete, TypeOK

\* a crash or restart,
LEMMA TypeRestart ==
    ASSUME TypeOK, NEW e \in EAs, CrashEA(e) \/ RestartEA(e) \/ RestartServer
    PROVE  TypeOK'
<1>1. CASE CrashEA(e)
  <2>1. faults' \in 0 .. MaxFaults
      BY <1>1, FaultAssumption DEF CrashEA, TypeOK
  <2>2. /\ held' \in [EAs -> [Signals -> ClaimAges \cup {NotHeld}]]
        /\ pushed' \in [EAs -> SUBSET Signals]
      BY <1>1, TypeRelease DEF CrashEA
  <2> QED
      BY <1>1, <2>1, <2>2 DEF CrashEA, TypeOK
<1>2. CASE RestartEA(e)
    BY <1>2 DEF RestartEA, TypeOK
<1>3. CASE RestartServer
  <2>1. faults' \in 0 .. MaxFaults
      BY <1>3, FaultAssumption DEF RestartServer, TypeOK
  <2> QED
      BY <1>3, <2>1 DEF RestartServer, TypeOK, Statuses
<1> QED
    BY <1>1, <1>2, <1>3

\* and a tick.
LEMMA TypeTick ==
    ASSUME TypeOK, Tick
    PROVE  TypeOK'
<1>1. AgeCap \in Nat /\ StaleClaim + 1 \in Nat
    BY WindowAssumption
<1>2. age' \in [Signals -> Ages]
    BY <1>1, OlderType DEF Tick, TypeOK, Ages
<1>3. claimAge' \in [Signals -> ClaimAges]
    BY <1>1, OlderType DEF Tick, TypeOK, ClaimAges
<1>4. held' \in [EAs -> [Signals -> ClaimAges \cup {NotHeld}]]
  <2> SUFFICES ASSUME NEW e \in EAs, NEW s \in Signals, held[e][s] # NotHeld
               PROVE  Older(held[e][s], StaleClaim + 1) \in ClaimAges
      BY DEF Tick
  <2> QED
      BY <1>1, OlderType DEF TypeOK, ClaimAges
<1> QED
    BY <1>2, <1>3, <1>4 DEF Tick, TypeOK

\* So the types are kept.
LEMMA TypeStep == TypeOK /\ [Next]_vars => TypeOK'
<1> SUFFICES ASSUME TypeOK, [Next]_vars PROVE TypeOK'
    OBVIOUS
<1>1. CASE UNCHANGED vars
    BY <1>1 DEF TypeOK
<1>2. CASE \E s \in Signals, t \in {"pending", "acknowledged"} :
              SaveSignal(s, t) \/ BeginSave(s, t)
    BY <1>2, TypeSave
<1>3. CASE \E s \in Signals : CommitSave(s) \/ AbortSave(s)
    BY <1>3, TypeSave
<1>4. CASE \E s \in Signals : AckLog(s)
    BY <1>4 DEF AckLog, TypeOK
<1>5. CASE \E e \in EAs : Poll(e) \/ PollLost(e)
    BY <1>5, TypePoll
<1>6. CASE \E e \in EAs : CrashEA(e) \/ RestartEA(e)
    BY <1>6, TypeRestart
<1>7. CASE \E s \in Signals, R \in SUBSET EAs : Push(s, R)
    BY <1>7 DEF Push, TypeOK
<1>8. CASE \E e \in EAs, S \in SUBSET Signals :
              AckHttp(e, S) \/ AckWs(e, S) \/ AckLost(e, S)
    BY <1>8, TypeAck
<1>9. CASE CleanupAcknowledged \/ CleanupStale
    BY <1>9, TypeDelete DEF CleanupAcknowledged, CleanupStale, Expired, Orphaned, Table, Open
<1>10. CASE \E l \in Licenses : DeleteByLicense(l)
    BY <1>10, TypeDelete DEF DeleteByLicense, OfLicense, Table
<1>11. CASE RestartServer
  <2>1. faults' \in 0 .. MaxFaults
      BY <1>11, FaultAssumption DEF RestartServer, TypeOK
  <2> QED
      BY <1>11, <2>1 DEF RestartServer, TypeOK, Statuses
<1>12. CASE Tick
    BY <1>12, TypeTick
<1> QED
    BY <1>1, <1>2, <1>3, <1>4, <1>5, <1>6, <1>7, <1>8, <1>9, <1>10, <1>11, <1>12 DEF Next

\* Every row, copy and counter keeps its type, for all constants.
THEOREM TypeCorrect == Spec => []TypeOK
<1>1. Init => TypeOK
    BY TypeInit
<1>2. TypeOK /\ [Next]_vars => TypeOK'
    BY TypeStep
<1> QED
    BY <1>1, <1>2, PTL DEF Spec

-----------------------------------------------------------------------------
(* The inductive invariant.                                                *)

Closed == {"acknowledged", "purged", "removed"}
Stored == Closed \cup {"pending", "claimed"}

\* Only claimed rows were ever handed out by a poll.
HandedOut ==
    \A e \in EAs, s \in Signals :
        held[e][s] # NotHeld => status[s] \in Closed \cup {"claimed"}

\* The row's claim is the newest one: no holder's copy is younger.
ClaimIsNewest ==
    \A e \in EAs, s \in Signals :
        status[s] = "claimed" /\ held[e][s] # NotHeld => claimAge[s] <= held[e][s]

\* What an EA holds, or is about to be pushed, is in the table or was.
CopiesStored ==
    /\ \A e \in EAs : \A s \in Copies(e) :
          status[s] \in Stored /\ license[s] = LicenseOf[e]
    /\ \A s \in toPush : status[s] \in Stored

\* The log is updated only for signals acknowledged before.
LogFollows ==
    \A s \in Signals :
        s \in toLog \/ log[s] = "delivered" => status[s] \in Closed

\* SQLite's inserts are over before anyone else sees the connection.
SqliteAtomic == backend = "sqlite" => \A s \in Signals : status[s] \notin InFlight

IInv == /\ TypeOK
        /\ HandedOut /\ ClaimIsNewest /\ OneFreshHolder
        /\ CopiesStored /\ LogFollows
        /\ SqliteAtomic /\ NoTwinInWindow

USE DEF Closed, Stored

\* Nothing was stored or handed out in the initial state.
LEMMA InvInit == Init => IInv
<1> SUFFICES ASSUME Init PROVE IInv
    OBVIOUS
<1>1. TypeOK
    BY TypeInit
<1>2. HandedOut /\ ClaimIsNewest /\ OneFreshHolder
    BY <1>1, WindowAssumption
    DEF Init, HandedOut, ClaimIsNewest, OneFreshHolder, NotHeld
<1>3. CopiesStored /\ LogFollows
    BY <1>1 DEF Init, CopiesStored, LogFollows, Copies, NotHeld
<1>4. SqliteAtomic /\ NoTwinInWindow
    BY DEF Init, SqliteAtomic, NoTwinInWindow, Table, InFlight
<1> QED
    BY <1>1, <1>2, <1>3, <1>4 DEF IInv

\* A save touches one row that nobody holds yet.
LEMMA SaveKeeps ==
    ASSUME IInv, NEW s \in Signals, NEW t \in {"pending", "acknowledged"},
           SaveSignal(s, t) \/ BeginSave(s, t) \/ CommitSave(s) \/ AbortSave(s)
    PROVE  IInv'
<1>1. TypeOK /\ TypeOK'
    BY TypeSave DEF IInv
<1>2. /\ status[s] \in InFlight \cup {"absent"}
      /\ \A r \in Signals : r # s => status'[r] = status[r]
      /\ status'[s] \in InFlight \cup {"pending", "acknowledged", "aborted"}
      /\ UNCHANGED <<backend, license, content, age, claimAge, toLog, eaState>>
    BY <1>1 DEF SaveSignal, BeginSave, CommitSave, AbortSave, TypeOK, InFlight
<1>3. HandedOut' /\ ClaimIsNewest' /\ OneFreshHolder'
    BY <1>1, <1>2 DEF IInv, HandedOut, ClaimIsNewest, OneFreshHolder, TypeOK, InFlight
<1>4. CopiesStored'
  <2>1. \A e \in EAs : Copies(e)' = Copies(e) /\ s \notin Copies(e)
      BY <1>2 DEF IInv, CopiesStored, Copies, InFlight
  <2>2. ASSUME NEW e \in EAs, NEW r \in Copies(e)
        PROVE  status'[r] \in Stored /\ license'[r] = LicenseOf[e]
    <3>1. r \in Signals /\ r # s
        BY <1>1, <2>1 DEF Copies, TypeOK
    <3>2. status[r] \in Stored /\ license[r] = LicenseOf[e]
        BY DEF IInv, CopiesStored
    <3> QED
        BY <1>2, <3>1, <3>2
  <2>3. \A r \in toPush' : status'[r] \in Stored
    <3>1. CASE BeginSave(s, t) \/ AbortSave(s)
        BY <1>1, <1>2, <3>1 DEF IInv, CopiesStored, BeginSave, AbortSave, TypeOK, InFlight
    <3>2. CASE SaveSignal(s, t)
        BY <1>1, <1>2, <3>2 DEF IInv, CopiesStored, SaveSignal, AwaitPush, TypeOK
    <3>3. CASE CommitSave(s)
        BY <1>1, <1>2, <3>3 DEF IInv, CopiesStored, CommitSave, AwaitPush, TypeOK
    <3> QED
        BY <3>1, <3>2, <3>3
  <2> QED
      BY <2>1, <2>2, <2>3 DEF CopiesStored
<1>5. LogFollows'
  <2>1. \A r \in Signals : log'[r] = "delivered" => log[r] = "delivered"
      BY <1>1 DEF SaveSignal, BeginSave, CommitSave, AbortSave, LogPermanent, TypeOK
  <2> QED
      BY <1>1, <1>2, <2>1 DEF IInv, LogFollows, InFlight
<1>6. SqliteAtomic'
    BY <1>1 DEF IInv, SqliteAtomic, SaveSignal, BeginSave, CommitSave, AbortSave, TypeOK, InFlight
<1>7. NoTwinInWindow'
  <2>1. CASE SaveSignal(s, t)
    <3>1. Table' = Table \cup {s} /\ s \notin Table
        BY <1>1, <2>1 DEF SaveSignal, Table, TypeOK
    <3>2. \A r \in Table : license[r] = license[s] /\ content[r] = content[s]
                              => age[r] > DedupWindow
        BY <1>1, <2>1, WindowAssumption DEF SaveSignal, IsDuplicate, Table, TypeOK, Ages
    <3> QED
        BY <1>2, <3>1, <3>2 DEF IInv, NoTwinInWindow
  <2>2. CASE ~SaveSignal(s, t)
      BY <1>2, <2>2 DEF IInv, SqliteAtomic, NoTwinInWindow, BeginSave, CommitSave, AbortSave
  <2> QED
      BY <2>1, <2>2
<1> QED
    BY <1>1, <1>3, <1>4, <1>5, <1>6, <1>7 DEF IInv

\* A poll hands out rows nobody holds, or whose holders' copies are stale.
LEMMA PollKeeps ==
    ASSUME IInv, NEW e \in EAs, Poll(e) \/ PollLost(e)
    PROVE  IInv'
<1> DEFINE l == LicenseOf[e]
           fresh == Claimable(l)
           stale == StaleClaims(l)
<1>1. TypeOK /\ TypeOK'
    BY TypePoll DEF IInv
<1>2. /\ \A s \in Signals : status'[s] = IF s \in fresh \cup stale THEN "claimed" ELSE status[s]
      /\ \A s \in Signals : claimAge'[s] = IF s \in fresh \cup stale THEN 0 ELSE claimAge[s]
      /\ UNCHANGED <<backend, license, content, age, log, toLog, toPush, pushed>>
    BY DEF Poll, PollLost, Claim
<1>3. /\ fresh \subseteq Signals /\ stale \subseteq Signals
      /\ \A s \in fresh : status[s] = "pending" /\ license[s] = l
      /\ \A s \in stale : status[s] = "claimed" /\ license[s] = l /\ claimAge[s] > StaleClaim
    BY DEF Claimable, StaleClaims, OfLicense
<1>4. Returned(l) \subseteq fresh \cup stale
    BY DEF Returned
<1>5. \A f \in EAs, s \in Signals :
         held'[f][s] # held[f][s] => f = e /\ s \in fresh \cup stale /\ held'[f][s] = 0
    BY <1>1, <1>4 DEF Poll, PollLost, TypeOK
<1>6. HandedOut'
    BY <1>2, <1>3, <1>5 DEF IInv, HandedOut
<1>7. ClaimIsNewest'
    BY <1>1, <1>2, <1>3, <1>5 DEF IInv, ClaimIsNewest, TypeOK, ClaimAges, NotHeld
<1>8. OneFreshHolder'
  <2>1. \A f \in EAs, s \in Signals : s \in fresh \cup stale => held[f][s] \notin 0 .. StaleClaim
    <3>1. \A f \in EAs, s \in fresh : held[f][s] = NotHeld
        BY <1>3 DEF IInv, HandedOut
    <3>2. \A f \in EAs, s \in stale : held[f][s] = NotHeld \/ held[f][s] > StaleClaim
        BY <1>1, <1>3, WindowAssumption DEF IInv, ClaimIsNewest, TypeOK, ClaimAges, NotHeld
    <3> QED
        BY <3>1, <3>2, WindowAssumption DEF NotHeld
  <2> QED
      BY <1>5, <2>1 DEF IInv, OneFreshHolder
<1>9. CopiesStored'
    BY <1>1, <1>2, <1>3, <1>5 DEF IInv, CopiesStored, Copies, NotHeld, TypeOK
<1>10. LogFollows' /\ SqliteAtomic'
    BY <1>2, <1>3 DEF IInv, LogFollows, SqliteAtomic, InFlight
<1>11. NoTwinInWindow'
  <2>1. Table' = Table
      BY <1>2, <1>3 DEF Table
  <2> QED
      BY <1>2, <2>1 DEF IInv, NoTwinInWindow
<1> QED
    BY <1>1, <1>6, <1>7, <1>8, <1>9, <1>10, <1>11 DEF IInv

\* A push hands out a stored row and changes nothing else.
LEMMA PushKeeps ==
    ASSUME IInv, NEW s \in Signals, NEW R \in SUBSET EAs, Push(s, R)
    PROVE  IInv'
<1>1. TypeOK /\ TypeOK'
    BY DEF IInv, Push, TypeOK
<1>2. UNCHANGED <<backend, status, license, content, age, claimAge, log, toLog, held>>
    BY DEF Push
<1>3. /\ HandedOut' /\ ClaimIsNewest' /\ OneFreshHolder'
      /\ LogFollows' /\ SqliteAtomic' /\ NoTwinInWindow'
    BY <1>2 DEF IInv, HandedOut, ClaimIsNewest, OneFreshHolder, LogFollows,
                SqliteAtomic, NoTwinInWindow, Table
<1>4. CopiesStored'
  <2>1. status[s] \in Stored
      BY DEF IInv, CopiesStored, Push
  <2>2. ASSUME NEW e \in EAs, NEW r \in Copies(e)'
        PROVE  r \in Copies(e) \/ (r = s /\ license[s] = LicenseOf[e])
      BY <1>1, <2>2 DEF Push, Copies, TypeOK
  <2>3. \A e \in EAs : \A r \in Copies(e)' : status[r] \in Stored /\ license[r] = LicenseOf[e]
      BY <2>1, <2>2 DEF IInv, CopiesStored
  <2> QED
      BY <1>2, <2>3 DEF IInv, CopiesStored, Push
<1> QED
    BY <1>1, <1>3, <1>4 DEF IInv

\* What an EA forgets, nobody else notices.
LEMMA ReleaseShrinks ==
    ASSUME TypeOK, NEW e \in EAs, NEW S \in SUBSET Signals, Release(e, S)
    PROVE  /\ \A f \in EAs, s \in Signals : held'[f][s] = held[f][s] \/ held'[f][s] = NotHeld
           /\ \A f \in EAs : Copies(f)' \subseteq Copies(f)
<1>1. \A f \in EAs, s \in Signals : held'[f][s] = held[f][s] \/ held'[f][s] = NotHeld
    BY DEF Release, TypeOK
<1>2. \A f \in EAs : pushed'[f] \subseteq pushed[f]
    BY DEF Release, TypeOK
<1> QED
    BY <1>1, <1>2 DEF Copies

\* Rows only close and copies only shrink: what a release, an acknowledgement
\* or a deletion does to the invariant.
LEMMA ClosingKeeps ==
    ASSUME IInv, TypeOK',
           \A s \in Signals : \/ status'[s] = status[s] /\ claimAge'[s] = claimAge[s]
                              \/ status'[s] = status[s] /\ status[s] # "claimed"
                              \/ status'[s] \in Closed /\ status[s] \in Stored,
           \A f \in EAs, s \in Signals : held'[f][s] = held[f][s] \/ held'[f][s] = NotHeld,
           \A f \in EAs : Copies(f)' \subseteq Copies(f),
           toPush' \subseteq toPush,
           license' = license, backend' = backend
    PROVE  /\ HandedOut' /\ ClaimIsNewest' /\ OneFreshHolder'
           /\ CopiesStored' /\ SqliteAtomic'
<1>1. TypeOK
    BY DEF IInv
<1>2. \A s \in Signals : status[s] \in Stored => status'[s] \in Stored
    OBVIOUS
<1>3. HandedOut'
    BY DEF IInv, HandedOut
<1>4. ClaimIsNewest'
    BY DEF IInv, ClaimIsNewest
<1>5. OneFreshHolder'
    BY WindowAssumption DEF IInv, OneFreshHolder, NotHeld
<1>6. CopiesStored'
  <2>1. ASSUME NEW e \in EAs, NEW s \in Copies(e)'
        PROVE  status'[s] \in Stored /\ license'[s] = LicenseOf[e]
    <3>1. s \in Copies(e) /\ s \in Signals
        BY <1>1, <2>1 DEF Copies, TypeOK
    <3> QED
        BY <1>2, <3>1 DEF IInv, CopiesStored
  <2>2. \A s \in toPush' : status'[s] \in Stored
      BY <1>1, <1>2 DEF IInv, CopiesStored, TypeOK
  <2> QED
      BY <2>1, <2>2 DEF CopiesStored
<1>7. SqliteAtomic'
    BY DEF IInv, SqliteAtomic, InFlight
<1> QED
    BY <1>3, <1>4, <1>5, <1>6, <1>7

\* An acknowledgement closes open rows of the EA's license and, in the log,
\* names rows it has copies of: those are stored.
LEMMA AckKeeps ==
    ASSUME IInv, NEW e \in EAs, NEW S \in SUBSET Signals,
           AckHttp(e, S) \/ AckWs(e, S) \/ AckLost(e, S)
    PROVE  IInv'
<1>1. TypeOK /\ TypeOK'
    BY TypeAck DEF IInv
<1>2. /\ \A f \in EAs, s \in Signals : held'[f][s] = held[f][s] \/ held'[f][s] = NotHeld
      /\ \A f \in EAs : Copies(f)' \subseteq Copies(f)
    BY <1>1, ReleaseShrinks DEF AckHttp, AckWs, AckLost
<1>3. UNCHANGED <<backend, license, content, age, log, toPush>>
    BY DEF AckHttp, AckWs, AckLost
<1>4. CASE AckLost(e, S)
  <2>1. UNCHANGED <<status, claimAge, toLog>>
      BY <1>4 DEF AckLost
  <2>2. HandedOut' /\ ClaimIsNewest' /\ OneFreshHolder' /\ CopiesStored' /\ SqliteAtomic'
      BY <1>1, <1>2, <1>3, <2>1, ClosingKeeps
  <2>3. LogFollows' /\ NoTwinInWindow'
      BY <1>3, <2>1 DEF IInv, LogFollows, NoTwinInWindow, Table
  <2> QED
      BY <1>1, <2>2, <2>3 DEF IInv
<1>5. CASE AckHttp(e, S) \/ AckWs(e, S)
  <2> DEFINE acked == S \cap Open \cap OfLicense(LicenseOf[e])
  <2>1. \A s \in Signals : status'[s] = IF s \in acked THEN "acknowledged" ELSE status[s]
      BY <1>5 DEF AckHttp, AckWs, Acknowledge
  <2>2. \A s \in acked : status[s] \in {"pending", "claimed"}
      BY DEF Open
  <2>3. \A s \in Signals : claimAge'[s] = IF status'[s] = "claimed" THEN claimAge[s] ELSE 0
      BY <1>5 DEF AckHttp, AckWs, SettledClaimAge
  <2>4. HandedOut' /\ ClaimIsNewest' /\ OneFreshHolder' /\ CopiesStored' /\ SqliteAtomic'
    <3>1. \A s \in Signals : \/ status'[s] = status[s] /\ claimAge'[s] = claimAge[s]
                             \/ status'[s] = status[s] /\ status[s] # "claimed"
                             \/ status'[s] \in Closed /\ status[s] \in Stored
        BY <2>1, <2>2, <2>3
    <3> QED
        BY <1>1, <1>2, <1>3, <3>1, ClosingKeeps
  <2>5. LogFollows'
    <3>1. ASSUME NEW s \in S PROVE status'[s] \in Closed
      <4>1. status[s] \in Stored /\ license[s] = LicenseOf[e]
          BY <1>5 DEF IInv, CopiesStored, AckHttp, AckWs
      <4> QED
          BY <2>1, <4>1 DEF Open, OfLicense
    <3>2. \A s \in Signals : status[s] \in Closed => status'[s] \in Closed
        BY <2>1
    <3>3. toLog' \subseteq toLog \cup S
        BY <1>5 DEF AckHttp, AckWs
    <3> QED
        BY <1>3, <3>1, <3>2, <3>3 DEF IInv, LogFollows
  <2>6. NoTwinInWindow'
    <3>1. Table' = Table
        BY <2>1, <2>2 DEF Table
    <3> QED
        BY <1>3, <3>1 DEF IInv, NoTwinInWindow
  <2> QED
      BY <1>1, <2>4, <2>5, <2>6 DEF IInv
<1> QED
    BY <1>4, <1>5

\* The log update of an acknowledged signal.
LEMMA AckLogKeeps ==
    ASSUME IInv, NEW s \in Signals, AckLog(s)
    PROVE  IInv'
<1>1. TypeOK /\ TypeOK'
    BY DEF IInv, AckLog, TypeOK
<1>2. UNCHANGED <<backend, status, license, content, age, claimAge, toPush, held, pushed>>
    BY DEF AckLog
<1>3. /\ HandedOut' /\ ClaimIsNewest' /\ OneFreshHolder' /\ CopiesStored'
      /\ SqliteAtomic' /\ NoTwinInWindow'
    BY <1>2 DEF IInv, HandedOut, ClaimIsNewest, OneFreshHolder, CopiesStored, Copies,
                SqliteAtomic, NoTwinInWindow, Table
<1>4. LogFollows'
    BY <1>1, <1>2 DEF IInv, LogFollows, AckLog, TypeOK
<1> QED
    BY <1>1, <1>3, <1>4 DEF IInv

\* Retention and license removal close rows and take them off the table.
LEMMA DeleteKeeps ==
    ASSUME IInv, NEW S \in SUBSET Table, NEW mark \in {"purged", "removed"},
           Delete(S, mark)
    PROVE  IInv'
<1>1. TypeOK /\ TypeOK'
    BY TypeDelete DEF IInv, Table
<1>2. /\ \A s \in Signals : status'[s] = IF s \in S THEN mark ELSE status[s]
      /\ \A s \in Signals : claimAge'[s] = IF status'[s] = "claimed" THEN claimAge[s] ELSE 0
      /\ \A s \in Signals : age'[s] = IF s \in S THEN 0 ELSE age[s]
      /\ UNCHANGED <<backend, license, content, log, toLog, toPush, held, pushed>>
    BY DEF Delete, SettledClaimAge
<1>3. \A s \in S : status[s] \in Stored
    BY DEF Table
<1>4. HandedOut' /\ ClaimIsNewest' /\ OneFreshHolder' /\ CopiesStored' /\ SqliteAtomic'
  <2>1. \A s \in Signals : \/ status'[s] = status[s] /\ claimAge'[s] = claimAge[s]
                           \/ status'[s] = status[s] /\ status[s] # "claimed"
                           \/ status'[s] \in Closed /\ status[s] \in Stored
      BY <1>2, <1>3
  <2>2. \A f \in EAs : Copies(f)' \subseteq Copies(f)
      BY <1>2 DEF Copies
  <2> QED
      BY <1>1, <1>2, <2>1, <2>2, ClosingKeeps
<1>5. LogFollows'
    BY <1>2 DEF IInv, LogFollows
<1>6. NoTwinInWindow'
  <2>1. Table' = Table \ S
      BY <1>2 DEF Table
  <2>2. \A s \in Table \ S : s \in Signals /\ age'[s] = age[s]
      BY <1>2 DEF Table
  <2> QED
      BY <1>2, <2>1, <2>2 DEF IInv, NoTwinInWindow
<1> QED
    BY <1>1, <1>4, <1>5, <1>6 DEF IInv

\* Crashes forget copies, inserts and background work; rows stay.
LEMMA RestartKeeps ==
    ASSUME IInv, NEW e \in EAs, CrashEA(e) \/ RestartEA(e)
    PROVE  IInv'
<1>1. TypeOK /\ TypeOK'
    BY TypeRestart DEF IInv
<1>2. UNCHANGED <<backend, columns, log, toLog, toPush>>
    BY DEF CrashEA, RestartEA
<1>3. /\ \A f \in EAs, s \in Signals : held'[f][s] = held[f][s] \/ held'[f][s] = NotHeld
      /\ \A f \in EAs : Copies(f)' \subseteq Copies(f)
  <2>1. CASE CrashEA(e)
      BY <1>1, <2>1, ReleaseShrinks DEF CrashEA
  <2>2. CASE RestartEA(e)
      BY <2>2 DEF RestartEA, Copies
  <2> QED
      BY <2>1, <2>2
<1>4. HandedOut' /\ ClaimIsNewest' /\ OneFreshHolder' /\ CopiesStored' /\ SqliteAtomic'
    BY <1>1, <1>2, <1>3, ClosingKeeps
<1>5. LogFollows' /\ NoTwinInWindow'
    BY <1>2 DEF IInv, LogFollows, NoTwinInWindow, Table
<1> QED
    BY <1>1, <1>4, <1>5 DEF IInv

\* A restart of the server drops what it was about to push and to log.
LEMMA ServerRestartKeeps ==
    ASSUME IInv, TypeOK', RestartServer
    PROVE  IInv'
<1>1. /\ \A s \in Signals : status'[s] = IF status[s] \in InFlight THEN "aborted" ELSE status[s]
      /\ toPush' = {} /\ toLog' = {}
      /\ UNCHANGED <<backend, license, content, age, claimAge, log, held, pushed>>
    BY DEF RestartServer
<1>2. HandedOut' /\ ClaimIsNewest' /\ OneFreshHolder'
    BY <1>1 DEF IInv, HandedOut, ClaimIsNewest, OneFreshHolder, InFlight
<1>3. CopiesStored'
  <2>1. \A e \in EAs : Copies(e)' = Copies(e) /\ Copies(e) \subseteq Signals
      BY <1>1 DEF IInv, TypeOK, Copies
  <2>2. \A s \in Signals : status[s] \in Stored => status'[s] \in Stored
      BY <1>1 DEF InFlight
  <2>3. \A e \in EAs : \A s \in Copies(e) : status'[s] \in Stored /\ license[s] = LicenseOf[e]
      BY <2>1, <2>2 DEF IInv, CopiesStored
  <2> QED
      BY <1>1, <2>1, <2>3 DEF CopiesStored
<1>4. LogFollows' /\ SqliteAtomic'
    BY <1>1 DEF IInv, LogFollows, SqliteAtomic, InFlight
<1>5. NoTwinInWindow'
  <2>1. Table' = Table
      BY <1>1 DEF Table, InFlight
  <2> QED
      BY <1>1, <2>1 DEF IInv, NoTwinInWindow
<1> QED
    BY <1>2, <1>3, <1>4, <1>5 DEF IInv

\* Saturating counters keep their order.
LEMMA OlderMonotone ==
    ASSUME NEW cap \in Nat, NEW a \in 0 .. cap, NEW b \in 0 .. cap, a <= b
    PROVE  Older(a, cap) <= Older(b, cap)
BY DEF Older

\* Claims and copies age together; rows only leave the dedup window.
LEMMA TickKeeps ==
    ASSUME IInv, Tick
    PROVE  IInv'
<1> DEFINE cap == StaleClaim + 1
<1>1. TypeOK /\ TypeOK' /\ cap \in Nat
    BY TypeTick, WindowAssumption DEF IInv
<1>2. /\ \A s \in Signals : claimAge'[s] = IF status[s] = "claimed"
                                           THEN Older(claimAge[s], cap) ELSE claimAge[s]
      /\ \A e \in EAs, s \in Signals :
            held'[e][s] = IF held[e][s] = NotHeld THEN NotHeld ELSE Older(held[e][s], cap)
      /\ \A s \in Signals : age'[s] = IF s \in Table THEN Older(age[s], AgeCap) ELSE age[s]
      /\ UNCHANGED <<backend, status, license, content, log, toLog, toPush, pushed>>
    BY DEF Tick
<1>3. \A e \in EAs, s \in Signals : held[e][s] # NotHeld => held[e][s] \in 0 .. cap
    BY <1>1 DEF TypeOK, ClaimAges
<1>4. \A s \in Signals : claimAge[s] \in 0 .. cap
    BY <1>1 DEF TypeOK, ClaimAges
<1>5. \A e \in EAs, s \in Signals :
         /\ held'[e][s] = NotHeld <=> held[e][s] = NotHeld
         /\ held[e][s] # NotHeld => held'[e][s] >= held[e][s]
    BY <1>1, <1>2, <1>3, OlderType DEF NotHeld
<1>6. HandedOut'
    BY <1>2, <1>5 DEF IInv, HandedOut
<1>7. ClaimIsNewest'
  <2> SUFFICES ASSUME NEW e \in EAs, NEW s \in Signals, status[s] = "claimed",
                      held[e][s] # NotHeld
               PROVE  Older(claimAge[s], cap) <= Older(held[e][s], cap)
      BY <1>2, <1>5 DEF ClaimIsNewest
  <2>1. claimAge[s] <= held[e][s]
      BY DEF IInv, ClaimIsNewest
  <2> HIDE DEF cap
  <2> QED
      BY <1>1, <1>3, <1>4, <2>1, OlderMonotone
<1>8. OneFreshHolder'
  <2>1. \A e \in EAs, s \in Signals :
           held'[e][s] \in 0 .. StaleClaim => held[e][s] \in 0 .. StaleClaim
      BY <1>3, <1>5, WindowAssumption DEF NotHeld
  <2> QED
      BY <2>1 DEF IInv, OneFreshHolder
<1>9. CopiesStored'
  <2>1. \A e \in EAs : Copies(e)' = Copies(e)
      BY <1>2, <1>5 DEF Copies
  <2> QED
      BY <1>2, <2>1 DEF IInv, CopiesStored
<1>10. LogFollows' /\ SqliteAtomic'
    BY <1>2 DEF IInv, LogFollows, SqliteAtomic
<1>11. NoTwinInWindow'
  <2>1. Table' = Table
      BY <1>2 DEF Table
  <2>2. ASSUME NEW s \in Table, age[s] > DedupWindow PROVE age'[s] > DedupWindow
    <3>1. s \in Signals /\ age[s] \in 0 .. AgeCap /\ age'[s] = Older(age[s], AgeCap)
        BY <1>1, <1>2 DEF TypeOK, Ages, Table
    <3>2. age'[s] >= age[s]
        BY <3>1, OlderType, WindowAssumption
    <3> QED
        BY <2>2, <3>1, <3>2, OlderType, WindowAssumption
  <2> QED
      BY <1>2, <2>1, <2>2 DEF IInv, NoTwinInWindow
<1> QED
    BY <1>1, <1>6, <1>7, <1>8, <1>9, <1>10, <1>11 DEF IInv

\* So every step keeps all of it.
LEMMA InvStep == IInv /\ [Next]_vars => IInv'
<1> SUFFICES ASSUME IInv, [Next]_vars PROVE IInv'
    OBVIOUS
<1>1. CASE UNCHANGED vars
    BY <1>1 DEF IInv, TypeOK, HandedOut, ClaimIsNewest, OneFreshHolder, CopiesStored,
                Copies, LogFollows, SqliteAtomic, NoTwinInWindow, Table
<1>2. CASE \E s \in Signals, t \in {"pending", "acknowledged"} :
              SaveSignal(s, t) \/ BeginSave(s, t)
    BY <1>2, SaveKeeps
<1>3. CASE \E s \in Signals : CommitSave(s) \/ AbortSave(s)
    BY <1>3, SaveKeeps
<1>4. CASE \E s \in Signals : AckLog(s)
    BY <1>4, AckLogKeeps
<1>5. CASE \E e \in EAs : Poll(e) \/ PollLost(e)
    BY <1>5, PollKeeps
<1>6. CASE \E e \in EAs : CrashEA(e) \/ RestartEA(e)
    BY <1>6, RestartKeeps
<1>7. CASE \E s \in Signals, R \in SUBSET EAs : Push(s, R)
    BY <1>7, PushKeeps
<1>8. CASE \E e \in EAs, S \in SUBSET Signals :
              AckHttp(e, S) \/ AckWs(e, S) \/ AckLost(e, S)
    BY <1>8, AckKeeps
<1>9. CASE CleanupAcknowledged \/ CleanupStale
    BY <1>9, DeleteKeeps DEF CleanupAcknowledged, CleanupStale, Expired, Orphaned, Table, Open
<1>10. CASE \E l \in Licenses : DeleteByLicense(l)
    BY <1>10, DeleteKeeps DEF DeleteByLicense
<1>11. CASE RestartServer
    BY <1>11, TypeStep, ServerRestartKeeps DEF IInv
<1>12. CASE Tick
    BY <1>12, TickKeeps
<1> QED
    BY <1>1, <1>2, <1>3, <1>4, <1>5, <1>6, <1>7, <1>8, <1>9, <1>10, <1>11, <1>12 DEF Next

\* The strengthening is an invariant.
LEMMA Invariance == Spec => []IInv
<1>1. Init => IInv
    BY InvInit
<1>2. IInv /\ [Next]_vars => IInv'
    BY InvStep
<1> QED
    BY <1>1, <1>2, PTL DEF Spec

\* However many EAs share a license, whatever is lost, restarted or re-claimed:
\* no two of them hold copies of one signal that polls handed out within
\* stale_claim_minutes of now.
THEOREM ClaimsAreExclusive == Spec => []OneFreshHolder
<1>1. IInv => OneFreshHolder
    BY DEF IInv
<1> QED
    BY <1>1, Invariance, PTL

\* Under SQLite's write lock no license ever has two rows with the same hash
\* inside the dedup window.
THEOREM SqliteDeduplicates == Spec => []NoTwinInWindow
<1>1. IInv => NoTwinInWindow
    BY DEF IInv
<1> QED
    BY <1>1, Invariance, PTL

\* The permanent log never says "delivered" of a signal that is still open, on
\* either backend, over HTTP or WebSocket, across server restarts.
THEOREM LogIsHonest == Spec => []DeliveredLogHonest
<1>1. IInv => DeliveredLogHonest
    BY DEF IInv, LogFollows, DeliveredLogHonest
<1> QED
    BY <1>1, Invariance, PTL
=============================================================================
