----------------------- MODULE SignalQueueRefinement -----------------------
(***************************************************************************)
(* The proof that SignalQueue implements SignalLifecycle: under the map of *)
(* INSTANCE Lifecycle, every step of the table is a step of the promise or *)
(* changes nothing the promise speaks of.                                  *)
(***************************************************************************)
EXTENDS SignalQueueProofs

USE DEF columns, server, eaState, vars, Closed, Stored

phases == [s \in Signals |-> PhaseOf(s)]
travelling == [e \in EAs |-> Copies(e)]

\* The phases by the row's status.
LEMMA PhaseByStatus ==
    ASSUME NEW s \in Signals
    PROVE  /\ status[s] \in {"pending", "claimed"} => phases[s] = "open"
           /\ status[s] = "acknowledged" => phases[s] = "settled"
           /\ status[s] \in {"purged", "removed"} => phases[s] = "dropped"
           /\ status[s] \in InFlight \cup {"absent", "aborted"} => phases[s] = "unsent"
BY DEF phases, PhaseOf, Open, InFlight

\* The phase a status stands for, in the state after.
LEMMA PhaseByStatusNext ==
    ASSUME NEW s \in Signals
    PROVE  /\ status'[s] \in {"pending", "claimed"} => phases'[s] = "open"
           /\ status'[s] = "acknowledged" => phases'[s] = "settled"
           /\ status'[s] \in {"purged", "removed"} => phases'[s] = "dropped"
           /\ status'[s] \in InFlight \cup {"absent", "aborted"} => phases'[s] = "unsent"
BY DEF phases, PhaseOf, Open, InFlight

\* A row whose status does not change keeps its phase.
LEMMA SamePhase ==
    ASSUME NEW s \in Signals, status'[s] = status[s]
    PROVE  phases'[s] = phases[s]
BY DEF phases, PhaseOf, Open

\* Equal copies in both states.
LEMMA SameCopies ==
    ASSUME UNCHANGED <<held, pushed>>
    PROVE  travelling' = travelling
BY DEF travelling, Copies

\* An empty table promises nothing yet.
LEMMA RefInit == Init => Lifecycle!Init
<1> SUFFICES ASSUME Init PROVE Lifecycle!Init
    OBVIOUS
<1>1. phases = [s \in Signals |-> "unsent"]
    BY DEF Init, phases, PhaseOf, Open
<1>2. travelling = [e \in EAs |-> {}]
    BY DEF Init, travelling, Copies, NotHeld
<1> QED
    BY <1>1, <1>2 DEF Lifecycle!Init, phases, travelling

\* The row becomes visible, open or settled.
LEMMA RefAccept ==
    ASSUME TypeOK, NEW s \in Signals, NEW t \in {"pending", "acknowledged"},
           SaveSignal(s, t) \/ CommitSave(s)
    PROVE  Lifecycle!Accept(s)
<1>1. /\ status[s] \in InFlight \cup {"absent"}
      /\ status'[s] \in {"pending", "acknowledged"}
      /\ \A r \in Signals : r # s => status'[r] = status[r]
      /\ UNCHANGED <<held, pushed>>
    BY DEF SaveSignal, CommitSave, TypeOK
<1>2. phases[s] = "unsent" /\ phases'[s] \in {"open", "settled"}
    BY <1>1, PhaseByStatus, PhaseByStatusNext
<1>3. \A r \in Signals : r # s => phases'[r] = phases[r]
    BY <1>1, SamePhase
<1>4. phases' = [phases EXCEPT ![s] = phases'[s]]
    BY <1>3 DEF phases
<1> QED
    BY <1>1, <1>2, <1>4, SameCopies DEF Lifecycle!Accept, phases, travelling

\* Inserts that only begin or fail, log updates, restarts and time.
LEMMA RefStutter ==
    ASSUME \A s \in Signals : \/ status'[s] = status[s]
                              \/ /\ status[s] \in InFlight \cup {"absent"}
                                 /\ status'[s] \in InFlight \cup {"aborted"}
                              \/ /\ status[s] \in {"pending", "claimed"}
                                 /\ status'[s] = "claimed"
    PROVE  phases' = phases
<1>1. \A s \in Signals : phases'[s] = phases[s]
    BY PhaseByStatus, PhaseByStatusNext, SamePhase
<1> QED
    BY <1>1 DEF phases

\* A poll hands out what it claims.
LEMMA RefPoll ==
    ASSUME TypeOK, NEW e \in EAs, Poll(e)
    PROVE  /\ Lifecycle!Hand(e, Returned(LicenseOf[e]))
           /\ Returned(LicenseOf[e]) \in SUBSET Lifecycle!In("open")
<1> DEFINE S == Returned(LicenseOf[e])
<1>1. \A s \in S : s \in Signals /\ status[s] \in {"pending", "claimed"}
    BY DEF Returned, Claimable, StaleClaims, OfLicense
<1>2. S \subseteq Lifecycle!In("open")
    BY <1>1, PhaseByStatus DEF Lifecycle!In, phases
<1>3. phases' = phases
  <2>1. \A s \in Signals : \/ status'[s] = status[s]
                           \/ /\ status[s] \in {"pending", "claimed"}
                              /\ status'[s] = "claimed"
      BY DEF Poll, Claim, Claimable, StaleClaims, OfLicense
  <2> QED
      BY <2>1, RefStutter
<1>4. travelling' = [travelling EXCEPT ![e] = @ \cup S]
  <2>1. \A f \in EAs : f # e => Copies(f)' = Copies(f)
      BY DEF Poll, Copies, TypeOK
  <2>2. Copies(e)' = Copies(e) \cup S
    <3>1. \A s \in Signals : held'[e][s] = IF s \in S THEN 0 ELSE held[e][s]
        BY DEF Poll, TypeOK
    <3> QED
        BY <1>1, <3>1 DEF Poll, Copies, NotHeld
  <2> QED
      BY <2>1, <2>2 DEF travelling
<1> QED
    BY <1>2, <1>3, <1>4 DEF Lifecycle!Hand, phases, travelling

\* A push hands out a copy.
LEMMA RefPush ==
    ASSUME IInv, NEW s \in Signals, NEW R \in SUBSET EAs, Push(s, R)
    PROVE  Lifecycle!Push(s, R)
<1>1. phases[s] # "unsent"
  <2>1. status[s] \in Stored
      BY DEF IInv, CopiesStored, Push
  <2> QED
      BY <2>1, PhaseByStatus
<1>2. phases' = phases
  <2>1. status' = status
      BY DEF Push
  <2> QED
      BY <2>1, RefStutter
<1>3. \A e \in EAs : Copies(e)' = IF e \in R THEN Copies(e) \cup {s} ELSE Copies(e)
    BY DEF Push, Copies
<1>4. travelling' = [e \in EAs |-> IF e \in R THEN travelling[e] \cup {s} ELSE travelling[e]]
    BY <1>3 DEF travelling
<1> QED
    BY <1>1, <1>2, <1>4 DEF Lifecycle!Push, phases, travelling

\* A release takes exactly S from the EA's copies.
LEMMA RefRelease ==
    ASSUME TypeOK, NEW e \in EAs, NEW S \in SUBSET Signals, Release(e, S)
    PROVE  travelling' = [travelling EXCEPT ![e] = @ \ S]
<1>1. \A f \in EAs : f # e => Copies(f)' = Copies(f)
    BY DEF Release, Copies, TypeOK
<1>2. Copies(e)' = Copies(e) \ S
  <2>1. pushed'[e] = pushed[e] \ S
      BY DEF Release, TypeOK
  <2>2. \A s \in Signals : held'[e][s] = IF s \in S THEN NotHeld ELSE held[e][s]
      BY DEF Release, TypeOK
  <2> QED
      BY <2>1, <2>2 DEF Copies
<1> QED
    BY <1>1, <1>2 DEF travelling

\* An acknowledgement settles.
LEMMA RefSettle ==
    ASSUME IInv, NEW e \in EAs, NEW S \in SUBSET Signals,
           AckHttp(e, S) \/ AckWs(e, S)
    PROVE  Lifecycle!Settle(e, S) /\ S \in SUBSET travelling[e]
<1>1. S \subseteq travelling[e] /\ \A s \in S : license[s] = LicenseOf[e]
    BY DEF IInv, CopiesStored, AckHttp, AckWs, travelling
<1>2. \A s \in Signals : status'[s] = IF s \in S /\ status[s] \in {"pending", "claimed"}
                                      THEN "acknowledged" ELSE status[s]
    BY <1>1 DEF AckHttp, AckWs, Acknowledge, Open, OfLicense
<1>3. phases' = [s \in Signals |-> IF s \in S /\ phases[s] = "open"
                                   THEN "settled" ELSE phases[s]]
  <2>1. \A s \in Signals : phases[s] = "open" <=> status[s] \in {"pending", "claimed"}
      BY DEF phases, PhaseOf, Open
  <2>2. ASSUME NEW s \in Signals
        PROVE  phases'[s] = IF s \in S /\ phases[s] = "open" THEN "settled" ELSE phases[s]
      BY <1>2, <2>1, PhaseByStatusNext, SamePhase
  <2> QED
      BY <2>2 DEF phases
<1>4. travelling' = [travelling EXCEPT ![e] = @ \ S]
    BY RefRelease DEF IInv, AckHttp, AckWs
<1> QED
    BY <1>1, <1>3, <1>4 DEF Lifecycle!Settle, phases, travelling

\* Copies whose acknowledgement is lost, or that die with their EA, are let go.
LEMMA RefForget ==
    ASSUME TypeOK, NEW e \in EAs, NEW S \in SUBSET Signals,
           AckLost(e, S) \/ (CrashEA(e) /\ S = Copies(e))
    PROVE  Lifecycle!Forget(e, S) /\ S \in SUBSET travelling[e]
<1>1. phases' = phases
  <2>1. status' = status
      BY DEF AckLost, CrashEA
  <2> QED
      BY <2>1, RefStutter
<1>2. S \subseteq travelling[e]
    BY DEF AckLost, travelling
<1>3. travelling' = [travelling EXCEPT ![e] = @ \ S]
  <2>1. CASE AckLost(e, S)
      BY <2>1, RefRelease DEF AckLost
  <2>2. CASE CrashEA(e) /\ S = Copies(e)
    <3>1. travelling' = [travelling EXCEPT ![e] = @ \ Signals]
        BY <2>2, RefRelease DEF CrashEA
    <3>2. travelling[e] \ Signals = travelling[e] \ S
        BY <2>2 DEF travelling, Copies, TypeOK
    <3> QED
        BY <3>1, <3>2
  <2> QED
      BY <2>1, <2>2
<1> QED
    BY <1>1, <1>2, <1>3 DEF Lifecycle!Forget, phases, travelling

\* A deletion drops.
LEMMA RefDrop ==
    ASSUME TypeOK, NEW S \in SUBSET Table, NEW mark \in {"purged", "removed"},
           Delete(S, mark)
    PROVE  Lifecycle!Drop(S) /\ S \in SUBSET (Lifecycle!In("open") \cup Lifecycle!In("settled"))
<1>1. \A s \in Signals : status'[s] = IF s \in S THEN mark ELSE status[s]
    BY DEF Delete
<1>2. S \subseteq Lifecycle!In("open") \cup Lifecycle!In("settled")
  <2>1. ASSUME NEW s \in S PROVE s \in Signals /\ phases[s] \in {"open", "settled"}
      BY PhaseByStatus DEF Table
  <2> QED
      BY <2>1 DEF Lifecycle!In, phases
<1>3. phases' = [s \in Signals |-> IF s \in S THEN "dropped" ELSE phases[s]]
  <2>1. ASSUME NEW s \in Signals
        PROVE  phases'[s] = IF s \in S THEN "dropped" ELSE phases[s]
      BY <1>1, PhaseByStatusNext, SamePhase
  <2> QED
      BY <2>1 DEF phases
<1> QED
    BY <1>2, <1>3, SameCopies DEF Lifecycle!Drop, Delete, phases, travelling

\* Every step is one of the promise or a stutter.
LEMMA RefStep == IInv /\ [Next]_vars => [Lifecycle!Next]_(Lifecycle!vars)
<1> SUFFICES ASSUME IInv, [Next]_vars PROVE Lifecycle!Next \/ UNCHANGED Lifecycle!vars
    BY DEF Lifecycle!vars
<1> TypeOK
    BY DEF IInv
<1>0. phases' = phases /\ travelling' = travelling => UNCHANGED Lifecycle!vars
    BY DEF Lifecycle!vars, phases, travelling
<1>1. ASSUME \/ UNCHANGED vars \/ Tick
             \/ \E s \in Signals : AckLog(s)
             \/ \E e \in EAs : RestartEA(e)
      PROVE  UNCHANGED Lifecycle!vars
  <2>1. status' = status /\ \A e \in EAs : Copies(e)' = Copies(e)
    <3>1. CASE Tick
        BY <3>1 DEF Tick, Copies, TypeOK, ClaimAges, Older, NotHeld
    <3>2. CASE ~Tick
        BY <1>1, <3>2 DEF AckLog, RestartEA, Copies
    <3> QED
        BY <3>1, <3>2
  <2>2. travelling' = travelling
      BY <2>1 DEF travelling
  <2> QED
      BY <1>0, <2>1, <2>2, RefStutter
<1>2. ASSUME NEW s \in Signals, NEW t \in {"pending", "acknowledged"},
             SaveSignal(s, t) \/ CommitSave(s)
      PROVE  Lifecycle!Next
    BY <1>2, RefAccept DEF Lifecycle!Next, Lifecycle!Change, Lifecycle!Accept
<1>3. ASSUME NEW s \in Signals, NEW t \in {"pending", "acknowledged"},
             BeginSave(s, t) \/ AbortSave(s)
      PROVE  UNCHANGED Lifecycle!vars
  <2>1. \A r \in Signals : \/ status'[r] = status[r]
                           \/ /\ status[r] \in InFlight \cup {"absent"}
                              /\ status'[r] \in InFlight \cup {"aborted"}
      BY <1>3 DEF BeginSave, AbortSave, TypeOK, InFlight
  <2>2. UNCHANGED <<held, pushed>>
      BY <1>3 DEF BeginSave, AbortSave
  <2> QED
      BY <1>0, <2>1, <2>2, RefStutter, SameCopies
<1>4. ASSUME NEW e \in EAs, Poll(e)
      PROVE  Lifecycle!Next
    BY <1>4, RefPoll DEF Lifecycle!Next, Lifecycle!Travel, Lifecycle!Hand
<1>5. ASSUME NEW e \in EAs, PollLost(e)
      PROVE  UNCHANGED Lifecycle!vars
  <2>1. \A s \in Signals : \/ status'[s] = status[s]
                           \/ /\ status[s] \in {"pending", "claimed"}
                              /\ status'[s] = "claimed"
      BY <1>5 DEF PollLost, Claim, Claimable, StaleClaims, OfLicense
  <2>2. UNCHANGED <<held, pushed>>
      BY <1>5 DEF PollLost
  <2> QED
      BY <1>0, <2>1, <2>2, RefStutter, SameCopies
<1>6. ASSUME NEW s \in Signals, NEW R \in SUBSET EAs, Push(s, R)
      PROVE  Lifecycle!Next
    BY <1>6, RefPush DEF Lifecycle!Next, Lifecycle!Travel, Lifecycle!Push
<1>7. ASSUME NEW e \in EAs, NEW S \in SUBSET Signals, AckHttp(e, S) \/ AckWs(e, S)
      PROVE  Lifecycle!Next
    BY <1>7, RefSettle DEF Lifecycle!Next, travelling
<1>8. ASSUME NEW e \in EAs, NEW S \in SUBSET Signals,
             AckLost(e, S) \/ (CrashEA(e) /\ S = Copies(e))
      PROVE  Lifecycle!Next
  <2>1. Lifecycle!Forget(e, S) /\ S \in SUBSET travelling[e]
      BY <1>8, RefForget
  <2> QED
      BY <2>1 DEF Lifecycle!Next, Lifecycle!Travel, Lifecycle!Forget, travelling
<1>9. ASSUME NEW e \in EAs, CrashEA(e)
      PROVE  Lifecycle!Next
  <2>1. Copies(e) \in SUBSET Signals
      BY DEF Copies, TypeOK
  <2> QED
      BY <1>8, <1>9, <2>1
<1>10. ASSUME CleanupAcknowledged \/ CleanupStale \/ \E l \in Licenses : DeleteByLicense(l)
       PROVE  Lifecycle!Next
  <2>1. PICK S \in SUBSET Table, mark \in {"purged", "removed"} : Delete(S, mark)
      BY <1>10 DEF CleanupAcknowledged, CleanupStale, DeleteByLicense,
                   Expired, Orphaned, Table, Open
  <2> QED
      BY <2>1, RefDrop DEF Lifecycle!Next, Lifecycle!Change, Lifecycle!Drop
<1>11. ASSUME RestartServer
       PROVE  UNCHANGED Lifecycle!vars
  <2>1. \A s \in Signals : \/ status'[s] = status[s]
                           \/ /\ status[s] \in InFlight \cup {"absent"}
                              /\ status'[s] \in InFlight \cup {"aborted"}
      BY <1>11 DEF RestartServer
  <2>2. UNCHANGED <<held, pushed>>
      BY <1>11 DEF RestartServer
  <2> QED
      BY <1>0, <2>1, <2>2, RefStutter, SameCopies
<1>12. CASE \E s \in Signals : CommitSave(s) \/ AbortSave(s) \/ AckLog(s)
    BY <1>1, <1>2, <1>3, <1>12
<1>13. CASE \E s \in Signals, t \in {"pending", "acknowledged"} :
               SaveSignal(s, t) \/ BeginSave(s, t)
    BY <1>2, <1>3, <1>13
<1>14. CASE \E e \in EAs : Poll(e) \/ PollLost(e) \/ CrashEA(e) \/ RestartEA(e)
    BY <1>1, <1>4, <1>5, <1>9, <1>14
<1>15. CASE \E e \in EAs, S \in SUBSET Signals :
               AckHttp(e, S) \/ AckWs(e, S) \/ AckLost(e, S)
    BY <1>7, <1>8, <1>15
<1> QED
    BY <1>1, <1>6, <1>10, <1>11, <1>12, <1>13, <1>14, <1>15 DEF Next

\* The table keeps the promise: accepted signals travel, are settled at most
\* once and never reopen, and a poll hands out open signals only, on both
\* backends, through crashes, lost exchanges, retention and restarts.
THEOREM ImplementsPromise == Spec => ImplementsLifecycle
<1>1. Init => Lifecycle!Init
    BY RefInit
<1>2. IInv /\ [Next]_vars => [Lifecycle!Next]_(Lifecycle!vars)
    BY RefStep
<1> QED
    BY <1>1, <1>2, Invariance, PTL DEF Spec, ImplementsLifecycle, Lifecycle!Spec
=============================================================================
