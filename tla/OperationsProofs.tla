-------------------------- MODULE OperationsProofs --------------------------
(*****************************************************************************)
(* What the server's parts promise, each for any values of its constants:    *)
(* WebhookIngest, RateLimits, HttpChain, FailedAttempts, PineParser,         *)
(* ServerLifecycle, Dashboard and TradeReports, a section each with the      *)
(* invariant that makes the promise inductive (Trading's: TradingProofs).    *)
(* At the end the parts side by side, as MCOperations runs them, each keep   *)
(* their types.                                                              *)
(*****************************************************************************)
EXTENDS MCOperations, TradingProofs

-----------------------------------------------------------------------------
(*****************************************************************************)
(* WebhookIngest                                                             *)
(* ExecutedOnce follows from what the record tells: a request acts only      *)
(* once it is recorded or has given up on its record, and of two recorded    *)
(* twins one raced.  That one process is free of races is the event loop's   *)
(* doing: from its duplicate check to its answer an execute-path request     *)
(* holds it, so no twin can be inserted in between.                          *)
(*****************************************************************************)

USE AlertAssumption, NothingAssumption, CrashAssumption

\* What an execute-path request does from its duplicate check to its answer.
Handling == Saving \cup {"recorded"}

\* An execute-path request holds its worker's event loop.
LoopHeld == \A r \in Requests :
    (step[r] \in Handling /\ ~OnQueuePath(r)) => busy[worker[r]] = r

\* Requests not sent yet have left no trace.
NoTrace == \A r \in Requests :
    step[r] = "unsent" => r \notin stored \cup acted

\* Only execute-path requests act, with a record or without.
ActsOnRecord ==
    /\ \A r \in acted : ~OnQueuePath(r) /\ r \in stored \cup unrecorded
    /\ \A r \in Requests :
          step[r] = "recorded" => ~OnQueuePath(r) /\ r \in stored \cup unrecorded

\* Of two recorded twins one raced.
TwinsRaced == \A q, r \in stored : Twins(q, r) => {q, r} \cap raced # {}

\* A lone worker's duplicate check is still right when it inserts.
NoRaceAlone == \A w \in Workers : running = {w} =>
    /\ raced = {}
    /\ \A r \in Requests :
          step[r] = "checked" => \A q \in stored : ~Twins(q, r)

\* The queue path stores its row together with its answer.
StoredWithAnswer == \A r \in Requests : OnQueuePath(r) =>
    /\ step[r] \in {"arrived", "saving", "checked"} => r \notin stored
    /\ step[r] \in {"replying", "done"} => (r \in stored <=> result[r] = "queued")

\* What the three properties need in the state before.
WiInv == /\ TypeOK /\ LoopHeld /\ NoTrace /\ ActsOnRecord
         /\ TwinsRaced /\ NoRaceAlone /\ StoredWithAnswer

\* Only execute-path requests of one alert share a digest: the queue path's
\* differ by the time they were received at.
LEMMA TwinsOnly ==
    ASSUME NEW r \in Requests
    PROVE  Twin(r) <=> \E q \in stored : Twins(q, r)
<1>1. ASSUME NEW q PROVE (q # r /\ Digest(q) = Digest(r)) <=> Twins(q, r)
  <2>1. CASE OnQueuePath(q)
    BY <2>1 DEF Digest, Twins
  <2>2. CASE ~OnQueuePath(q) /\ OnQueuePath(r)
    BY <2>2 DEF Digest, Twins
  <2>3. CASE ~OnQueuePath(q) /\ ~OnQueuePath(r)
    BY <2>3 DEF Digest, Twins
  <2> QED
    BY <2>1, <2>2, <2>3
<1> QED
  BY <1>1 DEF Twin

\* No request was sent in the initial state.
LEMMA WiInitHolds == Init => WiInv
  BY DEF Init, WiInv, TypeOK, LoopHeld, NoTrace, ActsOnRecord, TwinsRaced,
         NoRaceAlone, StoredWithAnswer, Steps, Saving, Handling, Answers, Final

\* The types; a busy loop is always held by a live request of that worker.
LEMMA WiTypeStep == TypeOK /\ [Next]_vars => TypeOK'
<1> SUFFICES ASSUME TypeOK, [Next]_vars PROVE TypeOK'
  OBVIOUS
<1> USE DEF TypeOK, Steps, Saving, Answers, Final, deployment, request, history
<1>1. ASSUME NEW r \in Requests, NEW a \in Alerts, NEW w \in Workers, Send(r, a, w)
      PROVE  TypeOK'
  BY <1>1 DEF Send
<1>2. ASSUME NEW r \in Requests, Refuse(r) PROVE TypeOK'
  BY <1>2 DEF Refuse, Answer
<1>3. ASSUME NEW r \in Requests, StartSave(r) PROVE TypeOK'
  BY <1>3 DEF StartSave, LoopFree
<1>4. ASSUME NEW r \in Requests, CheckTwin(r) PROVE TypeOK'
  BY <1>4 DEF CheckTwin, Answer
<1>5. ASSUME NEW r \in Requests, Insert(r) PROVE TypeOK'
  BY <1>5 DEF Insert, Answer
<1>6. ASSUME NEW r \in Requests, SaveFails(r) PROVE TypeOK'
  BY <1>6 DEF SaveFails, Answer
<1>7. ASSUME NEW r \in Requests, FailOpen(r) PROVE TypeOK'
  BY <1>7 DEF FailOpen
<1>8. ASSUME NEW r \in Requests, Mt5Missing(r) PROVE TypeOK'
  BY <1>8 DEF Mt5Missing, Answer
<1>9. ASSUME NEW r \in Requests, Execute(r) PROVE TypeOK'
  BY <1>9 DEF Execute, Answer
<1>10. ASSUME NEW r \in Requests, Reply(r) PROVE TypeOK'
  BY <1>10 DEF Reply, LoopFree
<1>11. ASSUME NEW w \in Workers, Crash(w) PROVE TypeOK'
  BY <1>11 DEF Crash, Live
<1>12. CASE UNCHANGED vars
  BY <1>12 DEF vars, deployment, request, history
<1> QED
  BY <1>1, <1>2, <1>3, <1>4, <1>5, <1>6, <1>7, <1>8, <1>9, <1>10, <1>11, <1>12 DEF Next, Handle

\* Whoever takes or frees a loop found it free or its own.
LEMMA LoopStep == TypeOK /\ LoopHeld /\ [Next]_vars => LoopHeld'
<1> SUFFICES ASSUME TypeOK, LoopHeld, [Next]_vars PROVE LoopHeld'
  OBVIOUS
<1> USE DEF LoopHeld, TypeOK, Handling, Saving, OnQueuePath, deployment, request
<1>1. ASSUME NEW r \in Requests, NEW a \in Alerts, NEW w \in Workers, Send(r, a, w)
      PROVE  LoopHeld'
  BY <1>1 DEF Send
<1>2. ASSUME NEW r \in Requests, Refuse(r) PROVE LoopHeld'
  BY <1>2 DEF Refuse, Answer
<1>3. ASSUME NEW r \in Requests, StartSave(r) PROVE LoopHeld'
  BY <1>3 DEF StartSave, LoopFree
<1>4. ASSUME NEW r \in Requests, CheckTwin(r) PROVE LoopHeld'
  BY <1>4 DEF CheckTwin, Answer
<1>5. ASSUME NEW r \in Requests, Insert(r) PROVE LoopHeld'
  BY <1>5 DEF Insert, Answer
<1>6. ASSUME NEW r \in Requests, SaveFails(r) PROVE LoopHeld'
  BY <1>6 DEF SaveFails, Answer
<1>7. ASSUME NEW r \in Requests, FailOpen(r) PROVE LoopHeld'
  BY <1>7 DEF FailOpen
<1>8. ASSUME NEW r \in Requests, Mt5Missing(r) PROVE LoopHeld'
  BY <1>8 DEF Mt5Missing, Answer
<1>9. ASSUME NEW r \in Requests, Execute(r) PROVE LoopHeld'
  BY <1>9 DEF Execute, Answer
<1>10. ASSUME NEW r \in Requests, Reply(r) PROVE LoopHeld'
  BY <1>10 DEF Reply, LoopFree
<1>11. ASSUME NEW w \in Workers, Crash(w) PROVE LoopHeld'
  BY <1>11 DEF Crash, Live
<1>12. CASE UNCHANGED vars
  BY <1>12 DEF vars, deployment, request, history
<1> QED
  BY <1>1, <1>2, <1>3, <1>4, <1>5, <1>6, <1>7, <1>8, <1>9, <1>10, <1>11, <1>12 DEF Next, Handle

\* A trace is left by requests that were sent.
LEMMA TraceStep == TypeOK /\ NoTrace /\ [Next]_vars => NoTrace'
<1> SUFFICES ASSUME TypeOK, NoTrace, [Next]_vars PROVE NoTrace'
  OBVIOUS
<1> USE DEF NoTrace, TypeOK, Saving, deployment, request
<1>1. ASSUME NEW r \in Requests, NEW a \in Alerts, NEW w \in Workers, Send(r, a, w)
      PROVE  NoTrace'
  BY <1>1 DEF Send
<1>2. ASSUME NEW r \in Requests, Refuse(r) PROVE NoTrace'
  BY <1>2 DEF Refuse, Answer
<1>3. ASSUME NEW r \in Requests, StartSave(r) PROVE NoTrace'
  BY <1>3 DEF StartSave
<1>4. ASSUME NEW r \in Requests, CheckTwin(r) PROVE NoTrace'
  BY <1>4 DEF CheckTwin, Answer
<1>5. ASSUME NEW r \in Requests, Insert(r) PROVE NoTrace'
  BY <1>5 DEF Insert, Answer
<1>6. ASSUME NEW r \in Requests, SaveFails(r) PROVE NoTrace'
  BY <1>6 DEF SaveFails, Answer
<1>7. ASSUME NEW r \in Requests, FailOpen(r) PROVE NoTrace'
  BY <1>7 DEF FailOpen
<1>8. ASSUME NEW r \in Requests, Mt5Missing(r) PROVE NoTrace'
  BY <1>8 DEF Mt5Missing, Answer
<1>9. ASSUME NEW r \in Requests, Execute(r) PROVE NoTrace'
  BY <1>9 DEF Execute, Answer
<1>10. ASSUME NEW r \in Requests, Reply(r) PROVE NoTrace'
  BY <1>10 DEF Reply
<1>11. ASSUME NEW w \in Workers, Crash(w) PROVE NoTrace'
  BY <1>11 DEF Crash, Live
<1>12. CASE UNCHANGED vars
  BY <1>12 DEF vars, deployment, request, history
<1> QED
  BY <1>1, <1>2, <1>3, <1>4, <1>5, <1>6, <1>7, <1>8, <1>9, <1>10, <1>11, <1>12 DEF Next, Handle

\* A recorded request stays recorded.
LEMMA ActsStep == TypeOK /\ NoTrace /\ ActsOnRecord /\ [Next]_vars => ActsOnRecord'
<1> SUFFICES ASSUME TypeOK, NoTrace, ActsOnRecord, [Next]_vars PROVE ActsOnRecord'
  OBVIOUS
<1> USE DEF ActsOnRecord, NoTrace, TypeOK, Saving, OnQueuePath, deployment, request, history
<1>1. ASSUME NEW r \in Requests, NEW a \in Alerts, NEW w \in Workers, Send(r, a, w)
      PROVE  ActsOnRecord'
  BY <1>1 DEF Send
<1>2. ASSUME NEW r \in Requests, Refuse(r) PROVE ActsOnRecord'
  BY <1>2 DEF Refuse, Answer
<1>3. ASSUME NEW r \in Requests, StartSave(r) PROVE ActsOnRecord'
  BY <1>3 DEF StartSave
<1>4. ASSUME NEW r \in Requests, CheckTwin(r) PROVE ActsOnRecord'
  BY <1>4 DEF CheckTwin, Answer
<1>5. ASSUME NEW r \in Requests, Insert(r) PROVE ActsOnRecord'
  BY <1>5 DEF Insert, Answer
<1>6. ASSUME NEW r \in Requests, SaveFails(r) PROVE ActsOnRecord'
  BY <1>6 DEF SaveFails, Answer
<1>7. ASSUME NEW r \in Requests, FailOpen(r) PROVE ActsOnRecord'
  BY <1>7 DEF FailOpen
<1>8. ASSUME NEW r \in Requests, Mt5Missing(r) PROVE ActsOnRecord'
  BY <1>8 DEF Mt5Missing, Answer
<1>9. ASSUME NEW r \in Requests, Execute(r) PROVE ActsOnRecord'
  BY <1>9 DEF Execute, Answer
<1>10. ASSUME NEW r \in Requests, Reply(r) PROVE ActsOnRecord'
  BY <1>10 DEF Reply
<1>11. ASSUME NEW w \in Workers, Crash(w) PROVE ActsOnRecord'
  BY <1>11 DEF Crash, Live
<1>12. CASE UNCHANGED vars
  BY <1>12 DEF vars, deployment, request, history
<1> QED
  BY <1>1, <1>2, <1>3, <1>4, <1>5, <1>6, <1>7, <1>8, <1>9, <1>10, <1>11, <1>12 DEF Next, Handle

\* Insert notices the twins it finds.
LEMMA TwinsStep == TypeOK /\ NoTrace /\ TwinsRaced /\ [Next]_vars => TwinsRaced'
<1> SUFFICES ASSUME TypeOK, NoTrace, TwinsRaced, [Next]_vars PROVE TwinsRaced'
  OBVIOUS
<1> USE DEF TwinsRaced, NoTrace, TypeOK, Twins, OnQueuePath, deployment, request, history
<1>1. ASSUME NEW r \in Requests, NEW a \in Alerts, NEW w \in Workers, Send(r, a, w)
      PROVE  TwinsRaced'
  BY <1>1 DEF Send
<1>2. ASSUME NEW r \in Requests, Refuse(r) PROVE TwinsRaced'
  BY <1>2 DEF Refuse, Answer
<1>3. ASSUME NEW r \in Requests, StartSave(r) PROVE TwinsRaced'
  BY <1>3 DEF StartSave
<1>4. ASSUME NEW r \in Requests, CheckTwin(r) PROVE TwinsRaced'
  BY <1>4 DEF CheckTwin, Answer
<1>5. ASSUME NEW r \in Requests, Insert(r) PROVE TwinsRaced'
  <2>1. /\ stored' = stored \cup {r}
        /\ raced' = IF Twin(r) THEN raced \cup {r} ELSE raced
        /\ alert' = alert
    BY <1>5 DEF Insert
  <2>2. ASSUME NEW q \in stored', NEW s \in stored', Twins(q, s)'
        PROVE  ({q, s} \cap raced # {})'
    <3>1. Twins(q, s) /\ Twins(s, q)
      BY <2>1, <2>2
    <3>2. CASE q \in stored /\ s \in stored
      BY <2>1, <3>1, <3>2
    <3>3. CASE q = r /\ s \in stored
      BY <2>1, <3>1, <3>3, TwinsOnly
    <3>4. CASE s = r /\ q \in stored
      BY <2>1, <3>1, <3>4, TwinsOnly
    <3> QED
      BY <2>1, <2>2, <3>1, <3>2, <3>3, <3>4
  <2> QED
    BY <2>2
<1>6. ASSUME NEW r \in Requests, SaveFails(r) PROVE TwinsRaced'
  BY <1>6 DEF SaveFails, Answer
<1>7. ASSUME NEW r \in Requests, FailOpen(r) PROVE TwinsRaced'
  BY <1>7 DEF FailOpen
<1>8. ASSUME NEW r \in Requests, Mt5Missing(r) PROVE TwinsRaced'
  BY <1>8 DEF Mt5Missing, Answer
<1>9. ASSUME NEW r \in Requests, Execute(r) PROVE TwinsRaced'
  BY <1>9 DEF Execute, Answer
<1>10. ASSUME NEW r \in Requests, Reply(r) PROVE TwinsRaced'
  BY <1>10 DEF Reply
<1>11. ASSUME NEW w \in Workers, Crash(w) PROVE TwinsRaced'
  BY <1>11 DEF Crash
<1>12. CASE UNCHANGED vars
  BY <1>12 DEF vars, deployment, request, history
<1> QED
  BY <1>1, <1>2, <1>3, <1>4, <1>5, <1>6, <1>7, <1>8, <1>9, <1>10, <1>11, <1>12 DEF Next, Handle

\* Two twins cannot both be past their check: one loop cannot be held twice.
LEMMA AloneStep == TypeOK /\ LoopHeld /\ NoTrace /\ NoRaceAlone /\ [Next]_vars => NoRaceAlone'
<1> SUFFICES ASSUME TypeOK, LoopHeld, NoTrace, NoRaceAlone, [Next]_vars PROVE NoRaceAlone'
  OBVIOUS
<1> USE DEF NoRaceAlone, LoopHeld, NoTrace, TypeOK, Handling, Saving, Twins, OnQueuePath, deployment, request, history
<1>1. ASSUME NEW r \in Requests, NEW a \in Alerts, NEW w \in Workers, Send(r, a, w)
      PROVE  NoRaceAlone'
  BY <1>1 DEF Send
<1>2. ASSUME NEW r \in Requests, Refuse(r) PROVE NoRaceAlone'
  BY <1>2 DEF Refuse, Answer
<1>3. ASSUME NEW r \in Requests, StartSave(r) PROVE NoRaceAlone'
  BY <1>3 DEF StartSave
<1>4. ASSUME NEW r \in Requests, CheckTwin(r) PROVE NoRaceAlone'
  BY <1>4, TwinsOnly DEF CheckTwin, Answer
<1>5. ASSUME NEW r \in Requests, Insert(r) PROVE NoRaceAlone'
  BY <1>5, TwinsOnly DEF Insert, Answer
<1>6. ASSUME NEW r \in Requests, SaveFails(r) PROVE NoRaceAlone'
  BY <1>6 DEF SaveFails, Answer
<1>7. ASSUME NEW r \in Requests, FailOpen(r) PROVE NoRaceAlone'
  BY <1>7 DEF FailOpen
<1>8. ASSUME NEW r \in Requests, Mt5Missing(r) PROVE NoRaceAlone'
  BY <1>8 DEF Mt5Missing, Answer
<1>9. ASSUME NEW r \in Requests, Execute(r) PROVE NoRaceAlone'
  BY <1>9 DEF Execute, Answer
<1>10. ASSUME NEW r \in Requests, Reply(r) PROVE NoRaceAlone'
  BY <1>10 DEF Reply
<1>11. ASSUME NEW w \in Workers, Crash(w) PROVE NoRaceAlone'
  BY <1>11 DEF Crash, Live
<1>12. CASE UNCHANGED vars
  BY <1>12 DEF vars, deployment, request, history
<1> QED
  BY <1>1, <1>2, <1>3, <1>4, <1>5, <1>6, <1>7, <1>8, <1>9, <1>10, <1>11, <1>12 DEF Next, Handle

\* Nothing is stored after the answer is known.
LEMMA StoredStep == TypeOK /\ NoTrace /\ ActsOnRecord /\ StoredWithAnswer /\ [Next]_vars => StoredWithAnswer'
<1> SUFFICES ASSUME TypeOK, NoTrace, ActsOnRecord, StoredWithAnswer, [Next]_vars PROVE StoredWithAnswer'
  OBVIOUS
<1> USE DEF StoredWithAnswer, NoTrace, ActsOnRecord, TypeOK, Saving, OnQueuePath, deployment, request, history
<1>1. ASSUME NEW r \in Requests, NEW a \in Alerts, NEW w \in Workers, Send(r, a, w)
      PROVE  StoredWithAnswer'
  BY <1>1 DEF Send
<1>2. ASSUME NEW r \in Requests, Refuse(r) PROVE StoredWithAnswer'
  BY <1>2 DEF Refuse, Answer
<1>3. ASSUME NEW r \in Requests, StartSave(r) PROVE StoredWithAnswer'
  BY <1>3 DEF StartSave
<1>4. ASSUME NEW r \in Requests, CheckTwin(r) PROVE StoredWithAnswer'
  BY <1>4 DEF CheckTwin, Answer
<1>5. ASSUME NEW r \in Requests, Insert(r) PROVE StoredWithAnswer'
  BY <1>5 DEF Insert, Answer
<1>6. ASSUME NEW r \in Requests, SaveFails(r) PROVE StoredWithAnswer'
  BY <1>6 DEF SaveFails, Answer
<1>7. ASSUME NEW r \in Requests, FailOpen(r) PROVE StoredWithAnswer'
  BY <1>7 DEF FailOpen
<1>8. ASSUME NEW r \in Requests, Mt5Missing(r) PROVE StoredWithAnswer'
  BY <1>8 DEF Mt5Missing, Answer
<1>9. ASSUME NEW r \in Requests, Execute(r) PROVE StoredWithAnswer'
  BY <1>9 DEF Execute, Answer
<1>10. ASSUME NEW r \in Requests, Reply(r) PROVE StoredWithAnswer'
  BY <1>10 DEF Reply
<1>11. ASSUME NEW w \in Workers, Crash(w) PROVE StoredWithAnswer'
  BY <1>11 DEF Crash, Live
<1>12. CASE UNCHANGED vars
  BY <1>12 DEF vars, deployment, request, history
<1> QED
  BY <1>1, <1>2, <1>3, <1>4, <1>5, <1>6, <1>7, <1>8, <1>9, <1>10, <1>11, <1>12 DEF Next, Handle

\* The requests' records, races and loops are sound in every state.
THEOREM WiInvariance == Spec => []WiInv
<1>1. WiInv /\ [Next]_vars => WiInv'
  BY WiTypeStep, LoopStep, TraceStep, ActsStep, TwinsStep, AloneStep, StoredStep DEF WiInv
<1> QED
  BY WiInitHolds, <1>1, PTL DEF Spec

\* Every variable keeps its type, and an event loop is only ever held by a
\* request its worker is still handling.
THEOREM IngestTyped == Spec => []TypeOK
<1>1. WiInv => TypeOK
  BY DEF WiInv
<1> QED
  BY WiInvariance, <1>1, PTL

\* A double POST or retry trades twice only without a record or in a race, and
\* a deployment of one worker process has no races.
THEOREM TradesOnce == Spec => []ExecutedOnce
<1>1. WiInv => ExecutedOnce
  <2> SUFFICES ASSUME WiInv PROVE ExecutedOnce
    OBVIOUS
  <2>1. ASSUME NEW q \in acted, NEW r \in acted, Twins(q, r)
        PROVE  {q, r} \cap (unrecorded \cup raced) # {}
    <3>1. CASE q \in unrecorded \/ r \in unrecorded
      BY <3>1
    <3>2. CASE q \in stored /\ r \in stored
      BY <2>1, <3>2 DEF WiInv, TwinsRaced
    <3> QED
      BY <3>1, <3>2 DEF WiInv, ActsOnRecord
  <2> QED
    BY <2>1 DEF WiInv, NoRaceAlone, ExecutedOnce
<1> QED
  BY WiInvariance, <1>1, PTL

\* What the queue path answers is what the table has.
THEOREM AnswersAreKept == Spec => []AnswersKept
<1>1. WiInv => AnswersKept
  BY DEF WiInv, StoredWithAnswer, AnswersKept
<1> QED
  BY WiInvariance, <1>1, PTL

HIDE AlertAssumption
HIDE NothingAssumption
HIDE CrashAssumption
-----------------------------------------------------------------------------
(*****************************************************************************)
(* RateLimits                                                                *)
(*****************************************************************************)

USE RateLimitsAssumption

\* More requests are at most b old than are at most a old, if b is older; the
\* minute's and the hour's window hold every request that was allowed in
\* them, unless the cap took them, and the bucket has paid for each.
RlGrowing(s) == \A a, b \in Ages : a <= b => s[a] <= s[b]

RlInv ==
    /\ RlTypeOK /\ RlGrowing(minute) /\ RlGrowing(hour)
    /\ ~evicted => /\ \A a \in 0..Minute : allowed[a] <= minute[a]
                   /\ \A a \in 0..Hour : allowed[a] <= hour[a]
    /\ \A a \in Ages : allowed[a] * Minute + tokens <= Full + a * MinuteLimit

\* The limits and the ages.
LEMMA RlNumbers ==
    /\ MinuteLimit \in Nat \ {0} /\ HourLimit \in Nat \ {0} /\ Burst \in Nat \ {0} /\ Minute \in Nat \ {0}
    /\ BlockAt \in Nat \ {0} /\ BlockTime \in Nat \ {0} /\ DecayEvery \in Nat \ {0}
    /\ Hour \in Nat /\ Minute < Hour /\ Full \in Nat /\ Minute \in Ages /\ Hour \in Ages /\ Hour + 1 \in Ages
    /\ 0..Minute \subseteq Ages /\ 0..Hour \subseteq Ages /\ Ages \subseteq Nat /\ 0 \in Ages
  BY DEF Full, Ages

\* Nothing is counted and the bucket is full in the initial state.
LEMMA RlInitHolds == RlInit => RlInv
<1> SUFFICES ASSUME RlInit PROVE RlInv
  OBVIOUS
<1>1. RlTypeOK
  <2>1. Nobody \in [Ages -> 0..MinuteLimit] /\ Nobody \in [Ages -> 0..HourLimit] /\ Nobody \in [Ages -> Nat]
    BY RlNumbers DEF Nobody
  <2>2. tokens \in 0..Full /\ block \in -1..BlockTime /\ violations \in 0..ViolationCap /\ goodAge \in Ages
    BY RlNumbers DEF RlInit, ViolationCap
  <2> QED
    BY <2>1, <2>2 DEF RlInit, RlTypeOK
<1>2. \A a \in Ages : minute[a] = 0 /\ hour[a] = 0 /\ allowed[a] = 0
  BY DEF RlInit, Nobody
<1>3. \A a \in Ages : a * MinuteLimit \in Nat
  BY RlNumbers
<1>4. \A a \in Ages : allowed[a] * Minute + tokens <= Full + a * MinuteLimit
  BY <1>2, <1>3, RlNumbers DEF RlInit
<1> QED
  BY <1>1, <1>2, <1>4, RlNumbers DEF RlInv, RlGrowing

\* What is popped of the two windows was not counted any more.
LEMMA LiveWindows ==
    ASSUME RlTypeOK, RlGrowing(minute), RlGrowing(hour)
    PROVE  /\ RlGrowing(LiveMinute) /\ RlGrowing(LiveHour)
           /\ LiveMinute \in [Ages -> 0..MinuteLimit] /\ LiveHour \in [Ages -> 0..HourLimit]
           /\ \A a \in 0..Minute : LiveMinute[a] = minute[a]
           /\ \A a \in 0..Hour : LiveHour[a] = hour[a]
<1>1. minute \in [Ages -> 0..MinuteLimit] /\ hour \in [Ages -> 0..HourLimit]
  BY DEF RlTypeOK
<1>2. LiveMinute = [a \in Ages |-> IF a < Minute THEN minute[a] ELSE minute[Minute]]
  BY DEF LiveMinute, YoungerOrEqual
<1>3. LiveHour = [a \in Ages |-> IF a < Hour THEN hour[a] ELSE hour[Hour]]
  BY DEF LiveHour, YoungerOrEqual
<1>4. RlGrowing(LiveMinute)
  BY <1>1, <1>2, RlNumbers DEF RlGrowing
<1>5. RlGrowing(LiveHour)
  BY <1>1, <1>3, RlNumbers DEF RlGrowing
<1> QED
  BY <1>1, <1>2, <1>3, <1>4, <1>5, RlNumbers

\* The penalties keep their ranges.
LEMMA PenaltyTypes ==
    ASSUME RlTypeOK
    PROVE  /\ CountAfterBlock \in 0..ViolationCap
           /\ Violate(CountAfterBlock) => violations' \in 0..ViolationCap /\ block' \in -1..BlockTime
           /\ Decayed(CountAfterBlock) \in 0..ViolationCap
<1>1. violations \in 0..ViolationCap /\ ViolationCap \in Nat /\ goodAge \in Nat
  BY RlNumbers DEF RlTypeOK, ViolationCap, Ages
<1>2. CountAfterBlock \in 0..ViolationCap
  BY <1>1 DEF CountAfterBlock
<1>3. Violate(CountAfterBlock) => violations' \in 0..ViolationCap /\ block' \in -1..BlockTime
  BY <1>1, <1>2, RlNumbers DEF Violate
<1>4. Decayed(CountAfterBlock) \in 0..ViolationCap
  <2>1. goodAge \div DecayEvery \in Nat
    BY <1>1, RlNumbers
  <2> QED
    BY <1>1, <1>2, <2>1 DEF Decayed
<1> QED
  BY <1>2, <1>3, <1>4

\* A window that has room for one more.
LEMMA CountedRequest ==
    ASSUME RlTypeOK, RlGrowing(minute), RlGrowing(hour), WindowOpen, CountRequest
    PROVE  /\ minute' \in [Ages -> 0..MinuteLimit] /\ hour' \in [Ages -> 0..HourLimit]
           /\ RlGrowing(minute)' /\ RlGrowing(hour)'
           /\ \A a \in 0..Minute : minute'[a] = minute[a] + 1
           /\ \A a \in 0..Hour : hour'[a] = hour[a] + 1
<1>1. LiveMinute[Hour + 1] < MinuteLimit /\ LiveHour[Hour + 1] < HourLimit
  BY DEF WindowOpen, Held
<1>2. /\ minute' = [a \in Ages |-> LiveMinute[a] + 1]
      /\ hour' = [a \in Ages |-> LiveHour[a] + 1]
  BY DEF CountRequest, WithOneMore
<1>3. /\ LiveMinute \in [Ages -> 0..MinuteLimit] /\ LiveHour \in [Ages -> 0..HourLimit]
      /\ \A a \in 0..Minute : LiveMinute[a] = minute[a]
      /\ \A a \in 0..Hour : LiveHour[a] = hour[a]
      /\ \A a, b \in Ages : a <= b => LiveMinute[a] <= LiveMinute[b] /\ LiveHour[a] <= LiveHour[b]
  BY LiveWindows DEF RlGrowing
<1>4. \A a \in Ages : a <= Hour + 1
  BY RlNumbers DEF Ages
<1>5. \A a \in Ages : LiveMinute[a] < MinuteLimit /\ LiveHour[a] < HourLimit
  BY <1>1, <1>3, <1>4, RlNumbers
<1>6. minute' \in [Ages -> 0..MinuteLimit] /\ hour' \in [Ages -> 0..HourLimit]
  BY <1>2, <1>3, <1>5, RlNumbers
<1>7. RlGrowing(minute)' /\ RlGrowing(hour)'
  BY <1>2, <1>3, RlNumbers DEF RlGrowing
<1> QED
  BY <1>2, <1>3, <1>6, <1>7, RlNumbers

\* A refusal by the windows or the bucket pops old stamps only.
LEMMA RefuseStep == ASSUME RlInv, RefuseWindow \/ RefuseBucket PROVE RlInv'
<1>1. RlTypeOK /\ RlGrowing(minute) /\ RlGrowing(hour)
  BY DEF RlInv
<1>2. /\ minute' \in [Ages -> 0..MinuteLimit] /\ hour' \in [Ages -> 0..HourLimit]
      /\ RlGrowing(minute)' /\ RlGrowing(hour)'
      /\ \A a \in 0..Minute : minute'[a] \in Int /\ minute'[a] >= minute[a]
      /\ \A a \in 0..Hour : hour'[a] \in Int /\ hour'[a] >= hour[a]
  <2>1. minute \in [Ages -> 0..MinuteLimit] /\ hour \in [Ages -> 0..HourLimit]
    BY <1>1 DEF RlTypeOK
  <2>2. CASE RefuseWindow
    <3>1. minute' = LiveMinute /\ hour' = LiveHour
      BY <2>2 DEF RefuseWindow
    <3> QED
      BY <1>1, <2>1, <3>1, LiveWindows, RlNumbers DEF RlGrowing
  <2>3. CASE RefuseBucket
    <3>1. WindowOpen /\ CountRequest
      BY <2>3 DEF RefuseBucket
    <3> QED
      BY <1>1, <2>1, <3>1, CountedRequest, RlNumbers
  <2> QED
    BY <2>2, <2>3
<1>3. violations' \in 0..ViolationCap /\ block' \in -1..BlockTime /\ UNCHANGED <<tokens, goodAge, allowed, evicted>>
  BY <1>1, PenaltyTypes DEF RefuseWindow, RefuseBucket, rlHistory
<1>4. RlTypeOK'
  BY <1>1, <1>2, <1>3 DEF RlTypeOK
<1>5. \A a \in Ages : minute[a] \in Int /\ hour[a] \in Int /\ allowed[a] \in Int
  BY <1>1 DEF RlTypeOK
<1>6. ~evicted' => /\ \A a \in 0..Minute : allowed'[a] <= minute'[a]
                   /\ \A a \in 0..Hour : allowed'[a] <= hour'[a]
  BY <1>2, <1>3, <1>5, RlNumbers DEF RlInv
<1> QED
  BY <1>2, <1>3, <1>4, <1>6 DEF RlInv

\* A request that passes is counted in both windows and paid for.
LEMMA AllowStep == ASSUME RlInv, Allow PROVE RlInv'
<1>1. RlTypeOK /\ RlGrowing(minute) /\ RlGrowing(hour)
  BY DEF RlInv
<1>2. /\ minute' \in [Ages -> 0..MinuteLimit] /\ hour' \in [Ages -> 0..HourLimit]
      /\ RlGrowing(minute)' /\ RlGrowing(hour)'
      /\ \A a \in 0..Minute : minute'[a] = minute[a] + 1
      /\ \A a \in 0..Hour : hour'[a] = hour[a] + 1
  BY <1>1, CountedRequest DEF Allow
<1>3. /\ tokens >= Minute /\ tokens' = tokens - Minute /\ evicted' = evicted
      /\ allowed' = [a \in Ages |-> allowed[a] + 1] /\ goodAge' = 0
      /\ violations' = Decayed(CountAfterBlock) /\ block' \in {-1, block}
  BY DEF Allow, WithOneMore
<1>4. /\ minute \in [Ages -> 0..MinuteLimit] /\ hour \in [Ages -> 0..HourLimit] /\ allowed \in [Ages -> Nat]
      /\ tokens \in 0..Full /\ block \in -1..BlockTime /\ evicted \in BOOLEAN
  BY <1>1 DEF RlTypeOK
<1>5. RlTypeOK'
  <2>1. tokens' \in 0..Full /\ goodAge' \in Ages /\ allowed' \in [Ages -> Nat]
    BY <1>3, <1>4, RlNumbers
  <2>2. violations' \in 0..ViolationCap /\ block' \in -1..BlockTime
    BY <1>1, <1>3, <1>4, PenaltyTypes, RlNumbers
  <2> QED
    BY <1>2, <1>3, <1>4, <2>1, <2>2 DEF RlTypeOK
<1>6. ~evicted' => /\ \A a \in 0..Minute : allowed'[a] <= minute'[a]
                   /\ \A a \in 0..Hour : allowed'[a] <= hour'[a]
  BY <1>2, <1>3, <1>4, RlNumbers DEF RlInv
<1>7. ASSUME NEW a \in Ages PROVE allowed'[a] * Minute + tokens' <= Full + a * MinuteLimit
  <2>1. allowed[a] * Minute + tokens <= Full + a * MinuteLimit
    BY DEF RlInv
  <2>2. allowed[a] \in Nat /\ allowed'[a] = allowed[a] + 1
    BY <1>3, <1>4
  <2>3. (allowed[a] + 1) * Minute = allowed[a] * Minute + Minute
    BY <2>2, RlNumbers
  <2>4. allowed[a] * Minute \in Int /\ a * MinuteLimit \in Int
    BY <2>2, RlNumbers
  <2> QED
    BY <1>3, <1>4, <2>1, <2>2, <2>3, <2>4, RlNumbers
<1> QED
  BY <1>2, <1>5, <1>6, <1>7 DEF RlInv

\* An unblock changes no count; a reset forgets them all.
LEMMA AdminSteps == ASSUME RlInv, Unblock \/ Reset PROVE RlInv'
<1>1. CASE Unblock
  <2>1. block' \in -1..BlockTime
    BY <1>1, RlNumbers DEF Unblock
  <2> QED
    BY <1>1, <2>1 DEF Unblock, windows, rlHistory, RlInv, RlTypeOK, RlGrowing
<1>2. CASE Reset
  <2>1. /\ minute' = Nobody /\ hour' = Nobody /\ tokens' = Full /\ allowed' = Nobody /\ evicted' = FALSE
        /\ block' = -1 /\ violations' = 0 /\ goodAge' = goodAge
    BY <1>2 DEF Reset
  <2>2. Nobody \in [Ages -> 0..MinuteLimit] /\ Nobody \in [Ages -> 0..HourLimit] /\ Nobody \in [Ages -> Nat]
        /\ \A a \in Ages : Nobody[a] = 0
    BY RlNumbers DEF Nobody
  <2>3. RlTypeOK'
    <3>1. tokens' \in 0..Full /\ block' \in -1..BlockTime /\ violations' \in 0..ViolationCap
      BY <2>1, RlNumbers DEF ViolationCap
    <3> QED
      BY <2>1, <2>2, <3>1 DEF RlInv, RlTypeOK
  <2>4. \A a \in Ages : a * MinuteLimit \in Nat
    BY RlNumbers
  <2>5. \A a \in Ages : allowed'[a] * Minute + tokens' <= Full + a * MinuteLimit
    BY <2>1, <2>2, <2>4, RlNumbers
  <2>6. RlGrowing(minute)' /\ RlGrowing(hour)'
    <3>1. RlGrowing(Nobody)
      BY DEF RlGrowing, Nobody
    <3> QED
      BY <2>1, <3>1 DEF RlGrowing
  <2>7. /\ \A a \in 0..Minute : allowed'[a] <= minute'[a]
        /\ \A a \in 0..Hour : allowed'[a] <= hour'[a]
    BY <2>1, <2>2, RlNumbers
  <2> QED
    BY <2>3, <2>5, <2>6, <2>7 DEF RlInv
<1> QED
  BY <1>1, <1>2

\* The cleanup drops nothing that counts, unless its cap does.
LEMMA RlCleanupStep == ASSUME RlInv, Cleanup PROVE RlInv'
<1>1. RlTypeOK /\ RlGrowing(minute) /\ RlGrowing(hour)
  BY DEF RlInv
<1>2. /\ minute' \in {LiveMinute, Nobody} /\ hour' \in {LiveHour, Nobody}
      /\ evicted' = (evicted \/ minute' # LiveMinute \/ hour' # LiveHour)
      /\ violations' = CountAfterBlock /\ block' \in {-1, block} /\ UNCHANGED <<tokens, goodAge, allowed>>
  BY DEF Cleanup
<1>3. /\ Nobody \in [Ages -> 0..MinuteLimit] /\ Nobody \in [Ages -> 0..HourLimit] /\ RlGrowing(Nobody)
  BY RlNumbers DEF Nobody, RlGrowing
<1>4. minute' \in [Ages -> 0..MinuteLimit] /\ hour' \in [Ages -> 0..HourLimit] /\ RlGrowing(minute)' /\ RlGrowing(hour)'
  <2>1. RlGrowing(LiveMinute) /\ RlGrowing(LiveHour)
    BY <1>1, LiveWindows
  <2> QED
    BY <1>1, <1>2, <1>3, <2>1, LiveWindows DEF RlGrowing
<1>5. RlTypeOK'
  <2>1. block' \in -1..BlockTime /\ violations' \in 0..ViolationCap
    BY <1>1, <1>2, PenaltyTypes, RlNumbers DEF RlTypeOK
  <2> QED
    BY <1>1, <1>2, <1>4, <2>1 DEF RlTypeOK
<1>6. ~evicted' => /\ \A a \in 0..Minute : allowed'[a] <= minute'[a]
                   /\ \A a \in 0..Hour : allowed'[a] <= hour'[a]
  BY <1>1, <1>2, LiveWindows DEF RlInv
<1> QED
  BY <1>2, <1>4, <1>5, <1>6 DEF RlInv

\* Everything grows a tick older and the bucket is refilled.
LEMMA RlTickStep == ASSUME RlInv, Tick PROVE RlInv'
<1>1. /\ minute \in [Ages -> 0..MinuteLimit] /\ hour \in [Ages -> 0..HourLimit] /\ allowed \in [Ages -> Nat]
      /\ tokens \in 0..Full /\ block \in -1..BlockTime /\ evicted \in BOOLEAN /\ goodAge \in Ages
  BY DEF RlInv, RlTypeOK
<1>2. /\ minute' = [a \in Ages |-> IF a = 0 THEN 0 ELSE minute[a - 1]]
      /\ hour' = [a \in Ages |-> IF a = 0 THEN 0 ELSE hour[a - 1]]
      /\ allowed' = [a \in Ages |-> IF a = 0 THEN 0 ELSE allowed[a - 1]]
      /\ tokens' = Refilled /\ evicted' = (evicted /\ allowed' # Nobody) /\ violations' = violations
      /\ goodAge' = (IF goodAge > Hour THEN goodAge ELSE goodAge + 1)
      /\ block' = (IF block > 0 THEN block - 1 ELSE block)
  BY DEF Tick, Aged
<1>3. \A a \in Ages : a # 0 => a - 1 \in Ages
  BY RlNumbers DEF Ages
<1>4. RlTypeOK'
  <2>1. minute' \in [Ages -> 0..MinuteLimit] /\ hour' \in [Ages -> 0..HourLimit] /\ allowed' \in [Ages -> Nat]
    BY <1>1, <1>2, <1>3, RlNumbers
  <2>2. tokens' \in 0..Full
    BY <1>1, <1>2, RlNumbers DEF Refilled
  <2>3. goodAge' \in Ages /\ block' \in -1..BlockTime
    BY <1>1, <1>2, RlNumbers DEF Ages
  <2>4. evicted' \in BOOLEAN /\ violations' \in 0..ViolationCap
    BY <1>2 DEF RlInv, RlTypeOK
  <2> QED
    BY <2>1, <2>2, <2>3, <2>4 DEF RlTypeOK
<1>5. RlGrowing(minute)' /\ RlGrowing(hour)'
  <2>1. \A a, b \in Ages : a <= b => minute[a] <= minute[b] /\ hour[a] <= hour[b]
    BY DEF RlInv, RlGrowing
  <2>2. \A a, b \in Ages : a <= b /\ a # 0 => a - 1 <= b - 1 /\ b # 0
    BY RlNumbers
  <2> QED
    BY <1>1, <1>2, <1>3, <2>1, <2>2, RlNumbers DEF RlGrowing
<1>6. \A a \in Ages : a # 0 => a - 1 <= Hour /\ (a <= Minute => a - 1 \in 0..Minute) /\ a - 1 \in 0..Hour
  BY RlNumbers DEF Ages
<1>7. ~evicted' => /\ \A a \in 0..Minute : allowed'[a] <= minute'[a]
                   /\ \A a \in 0..Hour : allowed'[a] <= hour'[a]
  <2>1. CASE evicted
    <3>1. ~evicted' => \A a \in Ages : allowed'[a] = 0
      BY <1>2, <2>1 DEF Nobody
    <3>2. \A a \in Ages : minute'[a] >= 0 /\ hour'[a] >= 0
      BY <1>4, RlNumbers DEF RlTypeOK
    <3> QED
      BY <3>1, <3>2, RlNumbers
  <2>2. CASE ~evicted
    <3>1. /\ \A a \in 0..Minute : allowed[a] <= minute[a]
          /\ \A a \in 0..Hour : allowed[a] <= hour[a]
      BY <2>2 DEF RlInv
    <3> QED
      BY <1>2, <1>6, <3>1, RlNumbers
  <2> QED
    BY <2>1, <2>2
<1>8. ASSUME NEW a \in Ages PROVE allowed'[a] * Minute + tokens' <= Full + a * MinuteLimit
  <2>1. tokens' <= tokens + MinuteLimit /\ tokens' <= Full /\ tokens' \in Int
    BY <1>1, <1>2, RlNumbers DEF Refilled
  <2>2. CASE a = 0
    BY <1>2, <2>1, <2>2, RlNumbers
  <2>3. CASE a # 0
    <3>1. allowed[a - 1] * Minute + tokens <= Full + (a - 1) * MinuteLimit
      BY <1>3, <2>3 DEF RlInv
    <3>2. allowed'[a] = allowed[a - 1] /\ allowed[a - 1] \in Nat /\ a \in Nat
      BY <1>1, <1>2, <1>3, <2>3, RlNumbers
    <3>3. (a - 1) * MinuteLimit + MinuteLimit = a * MinuteLimit
      BY <3>2, RlNumbers
    <3>4. allowed[a - 1] * Minute \in Int /\ a * MinuteLimit \in Int /\ (a - 1) * MinuteLimit \in Int
      BY <3>2, RlNumbers
    <3> QED
      BY <1>1, <2>1, <3>1, <3>2, <3>3, <3>4, RlNumbers
  <2> QED
    BY <2>2, <2>3
<1> QED
  BY <1>4, <1>5, <1>7, <1>8 DEF RlInv

\* The limiter's types, windows that hold what they count, and a bucket that has
\* paid for every request, in every state.
THEOREM RlInvariance == RlSpec => []RlInv
<1>1. RlInv /\ [RlNext]_rlVars => RlInv'
  <2> SUFFICES ASSUME RlInv, [RlNext]_rlVars PROVE RlInv'
    OBVIOUS
  <2>1. CASE UNCHANGED rlVars \/ RefuseBlocked
    BY <2>1 DEF rlVars, windows, penalty, rlHistory, RefuseBlocked, RlInv, RlTypeOK, RlGrowing
  <2> QED
    BY <2>1, RefuseStep, AllowStep, AdminSteps, RlCleanupStep, RlTickStep DEF RlNext
<1> QED
  BY <1>1, RlInitHolds, PTL DEF RlSpec

\* The limiter lets no more by in a minute or an hour than its limits, and in any
\* stretch no more than a full bucket and what it gains meanwhile.
THEOREM PassesWithinLimits == RlSpec => []PassedWithinLimits
<1>1. RlInv => PassedWithinLimits
  <2> SUFFICES ASSUME RlInv PROVE PassedWithinLimits
    OBVIOUS
  <2>1. /\ minute \in [Ages -> 0..MinuteLimit] /\ hour \in [Ages -> 0..HourLimit] /\ allowed \in [Ages -> Nat]
        /\ tokens \in 0..Full
    BY DEF RlInv, RlTypeOK
  <2>2. ~evicted => allowed[Minute] <= minute[Minute] /\ allowed[Hour] <= hour[Hour]
    BY RlNumbers DEF RlInv
  <2>3. ~evicted => allowed[Minute] <= MinuteLimit /\ allowed[Hour] <= HourLimit
    BY <2>1, <2>2, RlNumbers
  <2>4. ASSUME NEW a \in Ages PROVE allowed[a] * Minute <= Full + a * MinuteLimit
    <3>1. allowed[a] * Minute \in Int /\ a * MinuteLimit \in Int
      BY <2>1, RlNumbers
    <3> QED
      BY <2>1, <3>1, RlNumbers DEF RlInv
  <2> QED
    BY <2>3, <2>4 DEF PassedWithinLimits
<1> QED
  BY <1>1, RlInvariance, PTL

HIDE RateLimitsAssumption
-----------------------------------------------------------------------------
(*****************************************************************************)
(* HttpChain                                                                 *)
(*****************************************************************************)

USE HttpChainAssumption

\* A bucket that was not lost holds every request that was let by in the minute.
HcInv ==
    /\ HcTypeOK
    /\ \A b \in Buckets :
          /\ \A a, c \in HttpAges : a <= c => bucket[b][a] <= bucket[b][c]
          /\ b \notin lostBucket => \A a \in 0..(HttpWindow - 1) : served[b][a] <= bucket[b][a]

\* The limit, the window and the ages.
LEMMA HcNumbers ==
    /\ HttpLimit \in Nat \ {0} /\ HttpWindow \in Nat \ {0} /\ HttpAges \subseteq Nat
    /\ HttpWindow \in HttpAges /\ HttpWindow + 1 \in HttpAges /\ HttpWindow - 1 \in HttpAges /\ 0 \in HttpAges
    /\ \A a \in HttpAges : a <= HttpWindow + 1 /\ (a # 0 => a - 1 \in HttpAges)
    /\ 0..(HttpWindow - 1) \subseteq HttpAges
  BY DEF HttpAges

\* An empty bucket.
LEMMA NoStampsTyped ==
    /\ NoStamps \in [HttpAges -> 0..HttpLimit] /\ NoStamps \in [HttpAges -> Nat]
    /\ \A a \in HttpAges : NoStamps[a] = 0
  BY HcNumbers DEF NoStamps

\* The buckets are empty in the initial state.
LEMMA HcInitHolds == HcInit => HcInv
<1> SUFFICES ASSUME HcInit PROVE HcInv
  OBVIOUS
<1>1. HcTypeOK /\ \A b \in Buckets : bucket[b] = NoStamps /\ served[b] = NoStamps
  BY NoStampsTyped DEF HcInit, HcTypeOK
<1>2. \A b \in Buckets : \A a, c \in HttpAges : a <= c => bucket[b][a] <= bucket[b][c]
  BY <1>1, NoStampsTyped
<1>3. \A b \in Buckets : \A a \in 0..(HttpWindow - 1) : served[b][a] <= bucket[b][a]
  BY <1>1, NoStampsTyped, HcNumbers
<1> QED
  BY <1>1, <1>2, <1>3 DEF HcInv

\* The stamps that are left when the old ones are popped.
LEMMA LiveOf ==
    ASSUME HcInv, NEW b \in Buckets
    PROVE  LET s == LiveStamps(b)
           IN  /\ s \in [HttpAges -> 0..HttpLimit] /\ \A a \in 0..(HttpWindow - 1) : s[a] = bucket[b][a]
               /\ \A a, c \in HttpAges : a <= c => s[a] <= s[c]
<1>1. bucket[b] \in [HttpAges -> 0..HttpLimit] /\ \A a, c \in HttpAges : a <= c => bucket[b][a] <= bucket[b][c]
  BY DEF HcInv, HcTypeOK
<1>2. LiveStamps(b) = [a \in HttpAges |-> bucket[b][IF a < HttpWindow THEN a ELSE HttpWindow - 1]]
  BY HcNumbers DEF LiveStamps, Younger
<1>3. \A a \in HttpAges : LiveStamps(b)[a] = IF a < HttpWindow THEN bucket[b][a] ELSE bucket[b][HttpWindow - 1]
  BY <1>2
<1>4. LiveStamps(b) \in [HttpAges -> 0..HttpLimit]
  BY <1>1, <1>2, HcNumbers
<1>5. \A a, c \in HttpAges : a <= c => LiveStamps(b)[a] <= LiveStamps(b)[c]
  BY <1>1, <1>3, HcNumbers
<1>6. \A a \in 0..(HttpWindow - 1) : LiveStamps(b)[a] = bucket[b][a]
  BY <1>3, HcNumbers
<1> QED
  BY <1>4, <1>5, <1>6

\* A request arrives at its bucket.
LEMMA ArriveStep == ASSUME HcInv, NEW r \in HttpRequests, Arrive(r) PROVE HcInv'
<1> DEFINE b == BucketOf(r)
           s == LiveStamps(b)
           room == s[HttpWindow + 1] < HttpLimit
<1>1. b \in Buckets
  BY DEF BucketOf, Buckets
<1>2. /\ bucket' = [bucket EXCEPT ![b] = IF room THEN Stamped(s) ELSE s]
      /\ served' = (IF room /\ HeadersInOrder(r) THEN [served EXCEPT ![b] = Stamped(@)] ELSE served)
      /\ lostBucket' = lostBucket
  BY DEF Arrive
<1>3. /\ s \in [HttpAges -> 0..HttpLimit] /\ \A a \in 0..(HttpWindow - 1) : s[a] = bucket[b][a]
      /\ \A a, c \in HttpAges : a <= c => s[a] <= s[c]
  BY <1>1, LiveOf
<1>4. /\ bucket \in [Buckets -> [HttpAges -> 0..HttpLimit]] /\ served \in [Buckets -> [HttpAges -> Nat]]
      /\ lostBucket \subseteq Buckets
  BY DEF HcInv, HcTypeOK
<1> HIDE DEF s, b
<1>5. Stamped(s) = [a \in HttpAges |-> s[a] + 1] /\ Stamped(served[b]) = [a \in HttpAges |-> served[b][a] + 1]
  BY DEF Stamped
<1>6. bucket'[b] \in [HttpAges -> 0..HttpLimit] /\ bucket'[b] = (IF room THEN Stamped(s) ELSE s)
  <2>1. room => \A a \in HttpAges : s[a] < HttpLimit
    BY <1>3, HcNumbers
  <2> QED
    BY <1>1, <1>2, <1>3, <1>4, <1>5, <2>1, HcNumbers
<1>7. served'[b] \in [HttpAges -> Nat] /\ \A a \in HttpAges : served'[b][a] <= served[b][a] + (IF room THEN 1 ELSE 0)
  BY <1>1, <1>2, <1>4, <1>5
<1>8. \A c \in Buckets : c # b => bucket'[c] = bucket[c] /\ served'[c] = served[c]
  BY <1>2, <1>4
<1>9. HcTypeOK'
  <2>1. bucket' \in [Buckets -> [HttpAges -> 0..HttpLimit]]
    BY <1>1, <1>2, <1>4, <1>6
  <2>2. served' \in [Buckets -> [HttpAges -> Nat]]
    BY <1>1, <1>2, <1>4, <1>5
  <2> QED
    BY <1>2, <1>4, <2>1, <2>2 DEF HcTypeOK
<1>10. \A a, c \in HttpAges : a <= c => bucket'[b][a] <= bucket'[b][c]
  BY <1>3, <1>5, <1>6, HcNumbers
<1>11. b \notin lostBucket => \A a \in 0..(HttpWindow - 1) : served'[b][a] <= bucket'[b][a]
  <2> SUFFICES ASSUME b \notin lostBucket, NEW a \in 0..(HttpWindow - 1) PROVE served'[b][a] <= bucket'[b][a]
    OBVIOUS
  <2>1. a \in HttpAges /\ served[b][a] <= s[a]
    BY <1>1, <1>3, HcNumbers DEF HcInv
  <2>2. served[b][a] \in Int /\ s[a] \in Int /\ served'[b][a] \in Int
    BY <1>1, <1>3, <1>4, <1>7, <2>1
  <2>3. bucket'[b][a] = s[a] + (IF room THEN 1 ELSE 0)
    BY <1>5, <1>6, <2>1, <2>2
  <2> QED
    BY <1>7, <2>1, <2>2, <2>3
<1> QED
  BY <1>2, <1>8, <1>9, <1>10, <1>11 DEF HcInv

\* The cleanup drops idle buckets, and what the cap takes is noted.
LEMMA CleanupHttpStep == ASSUME HcInv, NEW C \in SUBSET Buckets, CleanupHttp(C) PROVE HcInv'
<1>1. /\ bucket' = [b \in Buckets |-> IF b \in C \/ IdleBucket(b) THEN NoStamps ELSE bucket[b]]
      /\ lostBucket' = lostBucket \cup C /\ served' = served
  BY DEF CleanupHttp
<1>2. /\ bucket \in [Buckets -> [HttpAges -> 0..HttpLimit]] /\ served \in [Buckets -> [HttpAges -> Nat]]
      /\ lostBucket \subseteq Buckets
  BY DEF HcInv, HcTypeOK
<1>3. HcTypeOK'
  BY <1>1, <1>2, NoStampsTyped DEF HcTypeOK
<1>4. ASSUME NEW b \in Buckets
      PROVE  /\ \A a, c \in HttpAges : a <= c => bucket'[b][a] <= bucket'[b][c]
             /\ b \notin lostBucket' => \A a \in 0..(HttpWindow - 1) : served'[b][a] <= bucket'[b][a]
  <2>1. /\ \A a, c \in HttpAges : a <= c => bucket[b][a] <= bucket[b][c]
        /\ b \notin lostBucket => \A a \in 0..(HttpWindow - 1) : served[b][a] <= bucket[b][a]
    BY DEF HcInv
  <2>2. CASE b \in C
    BY <1>1, <2>2, NoStampsTyped
  <2>3. CASE b \notin C /\ ~IdleBucket(b)
    BY <1>1, <2>1, <2>3
  <2>4. CASE b \notin C /\ IdleBucket(b)
    <3>1. bucket'[b] = NoStamps /\ bucket[b][HttpWindow] = 0
      BY <1>1, <2>4 DEF IdleBucket
    <3>2. \A a \in 0..(HttpWindow - 1) : bucket[b][a] <= 0
      BY <2>1, <3>1, HcNumbers
    <3>3. b \notin lostBucket => \A a \in 0..(HttpWindow - 1) : served[b][a] <= 0
      BY <1>2, <2>1, <3>2, HcNumbers
    <3> QED
      BY <1>1, <3>1, <3>3, NoStampsTyped, HcNumbers
  <2> QED
    BY <2>2, <2>3, <2>4
<1> QED
  BY <1>3, <1>4 DEF HcInv

\* Everything grows a tick older.
LEMMA HttpTickStep == ASSUME HcInv, HttpTick PROVE HcInv'
<1>1. /\ bucket \in [Buckets -> [HttpAges -> 0..HttpLimit]] /\ served \in [Buckets -> [HttpAges -> Nat]]
      /\ lostBucket \subseteq Buckets
  BY DEF HcInv, HcTypeOK
<1>2. /\ bucket' = [b \in Buckets |-> [a \in HttpAges |-> IF a = 0 THEN 0 ELSE bucket[b][a - 1]]]
      /\ served' = [b \in Buckets |-> [a \in HttpAges |-> IF a = 0 THEN 0 ELSE served[b][a - 1]]]
      /\ lostBucket' = {b \in lostBucket : served'[b] # NoStamps}
  BY DEF HttpTick, HttpOlder
<1>3. HcTypeOK'
  <2>1. bucket' \in [Buckets -> [HttpAges -> 0..HttpLimit]]
    BY <1>1, <1>2, HcNumbers
  <2>2. served' \in [Buckets -> [HttpAges -> Nat]]
    BY <1>1, <1>2, HcNumbers
  <2> QED
    BY <1>1, <1>2, <2>1, <2>2 DEF HcTypeOK
<1>4. ASSUME NEW b \in Buckets
      PROVE  /\ \A a, c \in HttpAges : a <= c => bucket'[b][a] <= bucket'[b][c]
             /\ b \notin lostBucket' => \A a \in 0..(HttpWindow - 1) : served'[b][a] <= bucket'[b][a]
  <2>1. /\ \A a, c \in HttpAges : a <= c => bucket[b][a] <= bucket[b][c]
        /\ b \notin lostBucket => \A a \in 0..(HttpWindow - 1) : served[b][a] <= bucket[b][a]
    BY DEF HcInv
  <2>2. /\ \A a \in HttpAges : bucket'[b][a] = IF a = 0 THEN 0 ELSE bucket[b][a - 1]
        /\ \A a \in HttpAges : served'[b][a] = IF a = 0 THEN 0 ELSE served[b][a - 1]
        /\ \A a \in HttpAges : bucket[b][a] \in Nat /\ served[b][a] \in Nat
    BY <1>1, <1>2, HcNumbers
  <2>3. \A a, c \in HttpAges : a <= c => bucket'[b][a] <= bucket'[b][c]
    <3> SUFFICES ASSUME NEW a \in HttpAges, NEW c \in HttpAges, a <= c, a # 0 PROVE bucket'[b][a] <= bucket'[b][c]
      BY <2>2, HcNumbers
    <3>1. c # 0 /\ a - 1 <= c - 1 /\ a - 1 \in HttpAges /\ c - 1 \in HttpAges
      BY HcNumbers
    <3> QED
      BY <2>1, <2>2, <3>1
  <2>4. b \in lostBucket /\ b \notin lostBucket' => \A a \in 0..(HttpWindow - 1) : served'[b][a] <= bucket'[b][a]
    <3>1. b \in lostBucket /\ b \notin lostBucket' => \A a \in HttpAges : served'[b][a] = 0
      BY <1>2, NoStampsTyped
    <3>2. \A a \in HttpAges : bucket'[b][a] >= 0
      BY <2>2, HcNumbers
    <3> QED
      BY <3>1, <3>2, HcNumbers
  <2>5. b \notin lostBucket => \A a \in 0..(HttpWindow - 1) : served'[b][a] <= bucket'[b][a]
    <3> SUFFICES ASSUME b \notin lostBucket, NEW a \in 0..(HttpWindow - 1), a # 0 PROVE served'[b][a] <= bucket'[b][a]
      BY <2>2, HcNumbers
    <3>1. a - 1 \in 0..(HttpWindow - 1)
      BY HcNumbers
    <3> QED
      BY <2>1, <2>2, <3>1, HcNumbers
  <2> QED
    BY <2>3, <2>4, <2>5
<1> QED
  BY <1>3, <1>4 DEF HcInv

\* The chain's types, and buckets that hold what they let by, in every state.
THEOREM HcInvariance == HcSpec => []HcInv
<1>1. HcInv /\ [HcNext]_hcVars => HcInv'
  <2> SUFFICES ASSUME HcInv, [HcNext]_hcVars PROVE HcInv'
    OBVIOUS
  <2>1. CASE UNCHANGED hcVars
    BY <2>1 DEF hcVars, HcInv, HcTypeOK
  <2> QED
    BY <2>1, ArriveStep, CleanupHttpStep, HttpTickStep DEF HcNext
<1> QED
  BY <1>1, HcInitHolds, PTL DEF HcSpec

\* A bucket lets no more by in a minute than its limit, unless the cap cost the
\* client its bucket.
THEOREM ServesWithinBucket == HcSpec => []ServedWithinBucket
<1>1. HcInv => ServedWithinBucket
  <2> SUFFICES ASSUME HcInv, NEW b \in Buckets, b \notin lostBucket PROVE served[b][HttpWindow - 1] <= HttpLimit
    BY DEF ServedWithinBucket
  <2>1. HttpWindow - 1 \in 0..(HttpWindow - 1) /\ HttpWindow - 1 \in HttpAges
    BY HcNumbers
  <2>2. served[b][HttpWindow - 1] <= bucket[b][HttpWindow - 1]
    BY <2>1 DEF HcInv
  <2>3. bucket[b][HttpWindow - 1] \in 0..HttpLimit /\ served[b][HttpWindow - 1] \in Nat
    BY <2>1 DEF HcInv, HcTypeOK
  <2> QED
    BY <2>2, <2>3, HcNumbers
<1> QED
  BY <1>1, HcInvariance, PTL

HIDE HttpChainAssumption
-----------------------------------------------------------------------------
(*****************************************************************************)
(* FailedAttempts                                                            *)
(*****************************************************************************)

USE FailedAttemptsAssumption

\* What Redis counts of the attempts whose recording is over.
Recorded == {a \in Recent(scored) : tried[a] = "done"}

\* A request whose failure is being recorded failed at this very time; one that
\* is counted in Redis was added before.
RecordingIsPrompt ==
    \A a \in Attempts :
        /\ tried[a] \in {"failed", "added", "full", "local"} => age[a] = 0
        /\ tried[a] = "done" => age[a] >= 0
        /\ tried[a] \in {"added", "full"} => a \in scored

\* While Redis was never lost, no failure is counted on the side, and as soon as
\* as many as the limit are recorded the block is up for as long as each of them.
RedisKeepsUp ==
    WithRedis /\ ~broken =>
        /\ \A a \in Attempts : tried[a] # "local"
        /\ Cardinality(Recorded) >= FailAt => \A a \in Recorded : blockKey >= FailBlock - age[a]

\* What FailuresBlock needs in the state before.
FaInv == FaTypeOK /\ IsFiniteSet(scored) /\ RecordingIsPrompt /\ RedisKeepsUp

\* Nothing failed yet in the initial state.
LEMMA FaInitHolds == FaInit => FaInv
<1> SUFFICES ASSUME FaInit PROVE FaInv
  OBVIOUS
<1>1. FaTypeOK
  <2>1. FailBlock \in Nat /\ -1 \in -1..FailBlock /\ 0 \in 0..FailBlock
    OBVIOUS
  <2>2. age \in [Attempts -> -1..FailBlock] /\ localBlock \in [FaWorkers -> -1..FailBlock]
    BY <2>1 DEF FaInit
  <2> QED
    BY <2>1, <2>2 DEF FaInit, FaTypeOK
<1>2. scored = {} /\ Recorded = {} /\ IsFiniteSet(scored) /\ Cardinality(Recorded) = 0
  BY FS_EmptySet DEF FaInit, Recorded, Recent
<1>3. \A a \in Attempts : tried[a] = "new"
  BY DEF FaInit
<1>4. RecordingIsPrompt
  BY <1>3 DEF RecordingIsPrompt
<1>5. RedisKeepsUp
  BY <1>2, <1>3 DEF RedisKeepsUp
<1> QED
  BY <1>1, <1>2, <1>4, <1>5 DEF FaInv

\* Of a request that is not recorded before or after, nothing changes in Redis'
\* view of those that are.
LEMMA VerifySteps ==
    ASSUME FaInv, NEW a \in Attempts, NEW valid \in BOOLEAN, VerifyRequest(a, valid)
    PROVE  FaInv'
<1>1. UNCHANGED <<at, scored, blockKey, broken>> /\ tried[a] = "new"
  BY DEF VerifyRequest, faShared
<1>2. PICK s \in {"refused", "served", "failed"} :
        /\ tried' = [tried EXCEPT ![a] = s]
        /\ IF s = "failed" THEN age' = [age EXCEPT ![a] = 0] ELSE age' = age
  BY DEF VerifyRequest, FaInv, FaTypeOK
<1>3. localBlock' \in [FaWorkers -> -1..FailBlock]
  BY DEF VerifyRequest, ForgetBlock, FaInv, FaTypeOK
<1>4. localTries' \in [FaWorkers -> SUBSET Attempts]
  BY DEF VerifyRequest, FaInv, FaTypeOK
<1>5. age' \in [Attempts -> -1..FailBlock]
  BY <1>2 DEF FaInv, FaTypeOK
<1>6. tried' \in [Attempts -> {"new", "failed", "added", "full", "local", "done", "served", "refused"}]
  BY <1>2 DEF FaInv, FaTypeOK
<1>7. FaTypeOK'
  BY <1>1, <1>3, <1>4, <1>5, <1>6 DEF FaInv, FaTypeOK
<1>8. /\ tried'[a] = s /\ \A b \in Attempts \ {a} : tried'[b] = tried[b] /\ age'[b] = age[b]
      /\ s = "failed" => age'[a] = 0
  BY <1>2 DEF FaInv, FaTypeOK
<1>9. Recorded' = Recorded /\ a \notin Recorded
  BY <1>1, <1>8 DEF Recorded, Recent, FaInv, FaTypeOK
<1>10. RecordingIsPrompt'
  BY <1>1, <1>8 DEF RecordingIsPrompt, FaInv
<1>11. RedisKeepsUp'
  BY <1>1, <1>8, <1>9 DEF RedisKeepsUp, FaInv, Recorded, Recent, FaTypeOK
<1> QED
  BY <1>1, <1>7, <1>10, <1>11 DEF FaInv

\* A failure is added to Redis's set.
LEMMA AddStep ==
    ASSUME FaInv, NEW a \in Attempts, Add(a)
    PROVE  FaInv'
<1>1. UNCHANGED <<at, age, blockKey, localTries, localBlock, broken>> /\ tried[a] = "failed" /\ scored' = scored \cup {a}
  BY DEF Add, faLocal
<1>2. tried' = [tried EXCEPT ![a] = "added"]
  BY DEF Add
<1>3. FaTypeOK'
  BY <1>1, <1>2 DEF FaInv, FaTypeOK
<1>4. Recorded' = Recorded
  BY <1>1, <1>2 DEF Recorded, Recent, FaInv, FaTypeOK
<1>5. IsFiniteSet(scored')
  BY <1>1, FS_AddElement DEF FaInv
<1>6. RecordingIsPrompt'
  BY <1>1, <1>2 DEF FaInv, RecordingIsPrompt, FaTypeOK
<1>7. RedisKeepsUp'
  BY <1>1, <1>2, <1>4 DEF FaInv, RedisKeepsUp, FaTypeOK
<1> QED
  BY <1>3, <1>5, <1>6, <1>7 DEF FaInv

\* It is counted with the recent ones.
LEMMA CountStep ==
    ASSUME FaInv, NEW a \in Attempts, Count(a)
    PROVE  FaInv'
<1>1. UNCHANGED <<at, age, blockKey, localTries, localBlock, broken>> /\ tried[a] = "added" /\ scored' = Recent(scored)
  BY DEF Count, faLocal
<1>2. tried' = [tried EXCEPT ![a] = IF Cardinality(Recent(scored)) >= FailAt THEN "full" ELSE "done"]
  BY DEF Count, Counted
<1>3. FaTypeOK'
  <2>1. scored' \subseteq Attempts
    BY <1>1 DEF FaInv, FaTypeOK, Recent
  <2>2. tried' \in [Attempts -> {"new", "failed", "added", "full", "local", "done", "served", "refused"}]
    BY <1>2 DEF FaInv, FaTypeOK
  <2> QED
    BY <1>1, <2>1, <2>2 DEF FaInv, FaTypeOK
<1>4. IsFiniteSet(Recent(scored)) /\ IsFiniteSet(scored')
  BY <1>1, FS_Subset DEF FaInv, Recent
<1>5. RecordingIsPrompt'
  <2>1. \A b \in Attempts : tried'[b] \in {"added", "full"} => b \in Recent(scored)
    BY <1>1, <1>2 DEF FaInv, RecordingIsPrompt, FaTypeOK, Recent
  <2> QED
    BY <1>1, <1>2, <2>1 DEF FaInv, RecordingIsPrompt, FaTypeOK
<1>6. RedisKeepsUp'
  <2>1. Recorded' \subseteq Recent(scored)
    BY <1>1 DEF Recorded, Recent
  <2>2. CASE Cardinality(Recent(scored)) >= FailAt
    <3>1. Recorded' = Recorded
      BY <1>1, <1>2, <2>2 DEF Recorded, Recent, FaInv, FaTypeOK
    <3> QED
      BY <1>1, <1>2, <2>2, <3>1 DEF FaInv, RedisKeepsUp, FaTypeOK
  <2>3. CASE ~(Cardinality(Recent(scored)) >= FailAt)
    <3>1. Cardinality(Recorded') <= Cardinality(Recent(scored)) /\ IsFiniteSet(Recorded')
      BY <2>1, <1>4, FS_Subset
    <3>2. Cardinality(Recorded') \in Nat /\ Cardinality(Recent(scored)) \in Nat
      BY <3>1, <1>4, FS_CardinalityType
    <3>3. ~(Cardinality(Recorded') >= FailAt)
      BY <3>1, <3>2, <2>3
    <3>4. \A b \in Attempts : tried'[b] = "local" => tried[b] = "local"
      BY <1>2 DEF FaInv, FaTypeOK
    <3> QED
      BY <1>1, <3>3, <3>4 DEF FaInv, RedisKeepsUp
  <2> QED
    BY <2>2, <2>3
<1> QED
  BY <1>3, <1>4, <1>5, <1>6 DEF FaInv

\* The block is set.
LEMMA SetBlockStep ==
    ASSUME FaInv, NEW a \in Attempts, SetBlock(a)
    PROVE  FaInv'
<1>1. UNCHANGED <<at, age, scored, localTries, localBlock, broken>> /\ tried[a] = "full" /\ blockKey' = FailBlock
  BY DEF SetBlock, faLocal
<1>2. tried' = [tried EXCEPT ![a] = "done"]
  BY DEF SetBlock
<1>3. FaTypeOK'
  BY <1>1, <1>2 DEF FaInv, FaTypeOK
<1>4. RecordingIsPrompt'
  BY <1>1, <1>2 DEF FaInv, RecordingIsPrompt, FaTypeOK
<1>5. \A b \in Attempts : tried'[b] = "done" => age'[b] >= 0
  BY <1>4 DEF RecordingIsPrompt
<1>6. Recorded' \subseteq Attempts /\ \A b \in Recorded' : tried'[b] = "done"
  BY <1>1 DEF Recorded, Recent, FaInv, FaTypeOK
<1>7. \A b \in Recorded' : blockKey' >= FailBlock - age'[b]
  BY <1>1, <1>5, <1>6 DEF FaInv, FaTypeOK
<1>8. \A b \in Attempts : tried'[b] = "local" => tried[b] = "local"
  BY <1>2 DEF FaInv, FaTypeOK
<1> QED
  BY <1>1, <1>3, <1>4, <1>7, <1>8 DEF FaInv, RedisKeepsUp

\* Redis raises.
LEMMA RaiseStep ==
    ASSUME FaInv, NEW a \in Attempts, RedisRaises(a)
    PROVE  FaInv'
<1>1. UNCHANGED <<at, age, scored, blockKey, localTries, localBlock>> /\ tried[a] \in {"failed", "added", "full"}
  BY DEF RedisRaises, faLocal, faShared
<1>2. tried' = [tried EXCEPT ![a] = "local"] /\ broken' = (broken \/ WithRedis)
  BY DEF RedisRaises
<1>3. tried' \in [Attempts -> {"new", "failed", "added", "full", "local", "done", "served", "refused"}]
  BY <1>2 DEF FaInv, FaTypeOK
<1>4. broken' \in BOOLEAN /\ (WithRedis => broken')
  BY <1>2 DEF FaInv, FaTypeOK
<1>5. FaTypeOK'
  BY <1>1, <1>3, <1>4 DEF FaInv, FaTypeOK
<1>6. RecordingIsPrompt'
  BY <1>1, <1>2 DEF FaInv, RecordingIsPrompt, FaTypeOK
<1> QED
  BY <1>1, <1>4, <1>5, <1>6 DEF FaInv, RedisKeepsUp

\* A failure is recorded in the memory of its worker.
LEMMA LocalStep ==
    ASSUME FaInv, NEW a \in Attempts, RecordLocally(a)
    PROVE  FaInv'
<1>1. UNCHANGED <<at, age, scored, blockKey, broken>> /\ tried[a] = "local"
  BY DEF RecordLocally, faShared
<1>2. tried' = [tried EXCEPT ![a] = "done"]
  BY DEF RecordLocally
<1>3. localTries' \in [FaWorkers -> SUBSET Attempts]
  BY DEF RecordLocally, FaInv, FaTypeOK, Recent
<1>4. localBlock' \in [FaWorkers -> -1..FailBlock]
  BY DEF RecordLocally, FaInv, FaTypeOK
<1>5. FaTypeOK'
  BY <1>1, <1>2, <1>3, <1>4 DEF FaInv, FaTypeOK
<1>6. RecordingIsPrompt'
  BY <1>1, <1>2 DEF FaInv, RecordingIsPrompt, FaTypeOK
<1>7. RedisKeepsUp'
  BY <1>1 DEF FaInv, RedisKeepsUp
<1> QED
  BY <1>1, <1>5, <1>6, <1>7 DEF FaInv

\* A worker's memory is cleaned up.
LEMMA CleanupStep ==
    ASSUME FaInv, NEW w \in FaWorkers, CleanupTries(w)
    PROVE  FaInv'
<1>1. UNCHANGED <<tried, at, age, scored, blockKey, broken>>
  BY DEF CleanupTries, faShared
<1>2. localTries' \in [FaWorkers -> SUBSET Attempts] /\ localBlock' \in [FaWorkers -> -1..FailBlock]
  BY DEF CleanupTries, ForgetBlock, FaInv, FaTypeOK
<1>3. FaTypeOK'
  BY <1>1, <1>2 DEF FaInv, FaTypeOK
<1> QED
  BY <1>1, <1>3 DEF FaInv, RecordingIsPrompt, RedisKeepsUp, Recorded, Recent

\* Time passes only while no recording is under way.
LEMMA TickStep ==
    ASSUME FaInv, FaTick
    PROVE  FaInv'
<1>1. UNCHANGED <<tried, at, scored, localTries, broken>>
  BY DEF FaTick
<1>2. age' \in [Attempts -> -1..FailBlock] /\ \A a \in Attempts : age'[a] = IF age[a] \in {-1, FailBlock} THEN age[a] ELSE age[a] + 1
  BY DEF FaTick, FaInv, FaTypeOK
<1>3. blockKey' \in 0..FailBlock /\ blockKey' >= blockKey - 1
  BY DEF FaTick, FaInv, FaTypeOK
<1>4. localBlock' \in [FaWorkers -> -1..FailBlock]
  BY DEF FaTick, FaInv, FaTypeOK
<1>5. FaTypeOK'
  BY <1>1, <1>2, <1>3, <1>4 DEF FaInv, FaTypeOK
<1>6. RecordingIsPrompt'
  BY <1>1, <1>2 DEF FaTick, FaInv, RecordingIsPrompt, FaTypeOK
<1>7. Recorded' \subseteq Recorded /\ \A a \in Recorded' : age'[a] = age[a] + 1
  <2>1. \A a \in Attempts : age'[a] < FailBlock => age[a] < FailBlock
    BY <1>2 DEF FaInv, FaTypeOK
  <2>2. \A a \in Attempts : age'[a] < FailBlock /\ tried[a] = "done" => age'[a] = age[a] + 1
    BY <1>2 DEF FaInv, FaTypeOK, RecordingIsPrompt
  <2> QED
    BY <1>1, <2>1, <2>2 DEF Recorded, Recent, FaInv, FaTypeOK
<1>8. ASSUME Cardinality(Recorded') >= FailAt PROVE Cardinality(Recorded) >= FailAt
  <2>1. IsFiniteSet(Recorded)
    BY FS_Subset DEF FaInv, Recorded, Recent
  <2>2. Cardinality(Recorded') <= Cardinality(Recorded) /\ IsFiniteSet(Recorded')
    BY <1>7, <2>1, FS_Subset
  <2>3. Cardinality(Recorded') \in Nat /\ Cardinality(Recorded) \in Nat
    BY <2>1, <2>2, FS_CardinalityType
  <2> QED
    BY <1>8, <2>2, <2>3
<1>9. Recorded \subseteq Attempts
  BY DEF Recorded, Recent, FaInv, FaTypeOK
<1>10. RedisKeepsUp'
  BY <1>1, <1>2, <1>3, <1>7, <1>8, <1>9 DEF FaInv, RedisKeepsUp, FaTypeOK
<1> QED
  BY <1>1, <1>5, <1>6, <1>10 DEF FaInv

\* The attempts' types, and a block that Redis holds as long as it is due, in
\* every state.
THEOREM FaInvariance == FaSpec => []FaInv
<1>1. FaInit => FaInv
  BY FaInitHolds
<1>2. FaInv /\ [FaNext]_faVars => FaInv'
  <2> SUFFICES ASSUME FaInv, [FaNext]_faVars PROVE FaInv'
    OBVIOUS
  <2>1. CASE FaNext
    BY <2>1, VerifySteps, AddStep, CountStep, SetBlockStep, RaiseStep, LocalStep, CleanupStep, TickStep DEF FaNext
  <2>2. CASE UNCHANGED faVars
    BY <2>2 DEF faVars, faShared, faLocal, FaInv, FaTypeOK, RecordingIsPrompt, RedisKeepsUp, Recorded, Recent
  <2> QED
    BY <2>1, <2>2
<1> QED
  BY <1>1, <1>2, PTL DEF FaSpec

\* As many recorded failures as the limit block the sender at every worker, as
\* long as Redis was reached.
THEOREM FailuresAlwaysBlock == FaSpec => []FailuresBlock
<1>1. FaInv => FailuresBlock
  <2> SUFFICES ASSUME FaInv, WithRedis, ~broken, Cardinality(Recorded) >= FailAt
               PROVE  blockKey > 0
    BY DEF FailuresBlock, Recorded
  <2>1. Recorded # {}
    BY FS_EmptySet
  <2>2. PICK a \in Recorded : TRUE
    BY <2>1
  <2>3. a \in Attempts /\ age[a] < FailBlock /\ age[a] \in -1..FailBlock /\ blockKey \in 0..FailBlock
    BY DEF FaInv, FaTypeOK, Recorded, Recent
  <2> QED
    BY <2>2, <2>3 DEF FaInv, RedisKeepsUp
<1> QED
  BY <1>1, FaInvariance, PTL

HIDE FailedAttemptsAssumption
-----------------------------------------------------------------------------
(*****************************************************************************)
(* PineParser                                                                *)
(*****************************************************************************)

USE PineParserAssumption

\* What the two dictionaries hold while nothing was refused: a group's type is
\* its one explicit number, and a legacy key the last number given for it.
AsRead(g) ==
    LET typed == Numbers(Explicit[g])  plain == Numbers({Legacy[g]})
    IN  /\ \A i, k \in typed : i = k
        /\ types[g] = "" => typed = {}
        /\ types[g] # "" => types[g] \in Explicit[g] /\ \E i \in typed : fields[types[g]] = message[i].value
        /\ plain = {} => fields[Legacy[g]] = None
        /\ plain # {} => \E i \in plain : fields[Legacy[g]] = message[i].value /\ \A k \in plain : k <= i

\* ... unless a conflict stopped the parser.
PpInv == PpTypeOK /\ (outcome # "conflict" => \A g \in Groups : AsRead(g))

\* A key is one group's, and explicit or legacy there.
LEMMA KeysApart ==
    /\ \A g \in Groups : Explicit[g] \subseteq ParamKeys \ {""} /\ Legacy[g] \in ParamKeys
    /\ \A g, h \in Groups : g # h => Explicit[g] \cap Explicit[h] = {} /\ Legacy[g] # Legacy[h]
    /\ \A g, h \in Groups : Legacy[g] \notin Explicit[h]
    /\ \A g \in Groups : {"atr_timeframe", "atr_period"} \cap (Explicit[g] \cup {Legacy[g]}) = {}
<1>1. /\ Explicit["vol"] = {"lots", "usd", "risk_bal_pct"} /\ Explicit["sl"] = {"sl_points", "sl_price"}
      /\ Explicit["tp"] = {"tp_points", "tp_price"} /\ Explicit["entry"] = {"entry_price", "entry_points"}
  BY DEF Explicit
<1>2. Legacy["vol"] = "risk" /\ Legacy["sl"] = "sl" /\ Legacy["tp"] = "tp" /\ Legacy["entry"] = "pending"
  BY DEF Legacy
<1>3. \A g \in Groups : g = "vol" \/ g = "sl" \/ g = "tp" \/ g = "entry"
  BY DEF Groups
<1>4. \A g \in Groups : Explicit[g] \subseteq ParamKeys /\ Legacy[g] \in ParamKeys
  <2> SUFFICES ASSUME NEW g \in Groups PROVE Explicit[g] \subseteq ParamKeys /\ Legacy[g] \in ParamKeys
    OBVIOUS
  <2>1. Explicit[g] \in {Explicit[h] : h \in Groups} /\ Legacy[g] \in {Legacy[h] : h \in Groups}
    OBVIOUS
  <2>2. Explicit[g] \subseteq UNION {Explicit[h] : h \in Groups}
    BY <2>1
  <2>3. UNION {Explicit[h] : h \in Groups} \subseteq ParamKeys /\ {Legacy[h] : h \in Groups} \subseteq ParamKeys
    <3> DEFINE U == UNION {Explicit[h] : h \in Groups}
               L == {Legacy[h] : h \in Groups}
    <3>1. ParamKeys = U \cup L \cup Others
      BY DEF ParamKeys
    <3> HIDE DEF U, L
    <3>2. U \subseteq ParamKeys /\ L \subseteq ParamKeys
      BY <3>1
    <3> QED
      BY <3>2 DEF U, L
  <2> QED
    BY <2>1, <2>2, <2>3, Zenon
<1>5. \A g \in Groups : "" \notin Explicit[g]
  <2>1. "" \notin Explicit["vol"] /\ "" \notin Explicit["sl"] /\ "" \notin Explicit["tp"] /\ "" \notin Explicit["entry"]
    BY <1>1
  <2> QED
    BY <1>3, <2>1
<1>6. \A g, h \in Groups : Legacy[g] \notin Explicit[h]
  BY <1>1, <1>2, <1>3
<1>7. \A g, h \in Groups : g # h => Legacy[g] # Legacy[h]
  BY <1>2, <1>3
<1>8. \A g, h \in Groups : g # h => Explicit[g] \cap Explicit[h] = {}
  BY <1>1, <1>3
<1>9. \A g \in Groups : {"atr_timeframe", "atr_period"} \cap (Explicit[g] \cup {Legacy[g]}) = {}
  BY <1>1, <1>2, <1>3
<1> QED
  BY <1>4, <1>5, <1>6, <1>7, <1>8, <1>9

\* Of a group's keys, everything is read that float() takes.
LEMMA GroupsRead ==
    ASSUME NEW g \in Groups, NEW p, p.key \in Explicit[g] \/ p.key = Legacy[g]
    PROVE  Read(p) <=> p.value # Word
<1>1. p.key # "atr_timeframe" /\ p.key # "atr_period"
  BY KeysApart
<1> QED
  BY <1>1 DEF Read

\* Nothing is read in the initial state.
LEMMA PpInitHolds == PpInit => PpInv
<1> SUFFICES ASSUME PpInit PROVE PpInv
  OBVIOUS
<1>1. PpTypeOK
  <2>1. message = <<>> /\ message \in Seq(Params) /\ Len(message) <= MaxParams
    <3>1. message = <<>>
      BY DEF PpInit
    <3>2. <<>> \in Seq(Params) /\ Len(<<>>) = 0
      OBVIOUS
    <3> QED
      BY <3>1, <3>2
  <2>2. fields \in [ParamKeys -> {None} \cup {p.value : p \in Params}] /\ types \in [Groups -> ParamKeys \cup {""}]
    BY DEF PpInit
  <2> QED
    BY <2>1, <2>2 DEF PpInit, PpTypeOK
<1>2. \A keys : Numbers(keys) = {}
  <2>1. DOMAIN message = {}
    <3>1. message = <<>>
      BY DEF PpInit
    <3>2. DOMAIN <<>> = {}
      OBVIOUS
    <3> QED
      BY <3>1, <3>2
  <2> QED
    BY <2>1 DEF Numbers
<1>3. \A g \in Groups : AsRead(g)
  BY <1>2, KeysApart DEF PpInit, AsRead
<1> QED
  BY <1>1, <1>3 DEF PpInv

\* A parameter more keeps the types,
LEMMA TakeTypes == ASSUME PpTypeOK, NEW p \in Params, Take(p) PROVE PpTypeOK'
<1>1. message' = Append(message, p) /\ message' \in Seq(Params) /\ Len(message') <= MaxParams
  <2>1. message' = Append(message, p) /\ Len(message) < MaxParams
    BY DEF Take
  <2>2. message \in Seq(Params) /\ Len(message) \in Nat
    BY LenProperties DEF PpTypeOK
  <2> QED
    BY <2>1, <2>2, AppendProperties
<1>2. p.key \in ParamKeys
  OBVIOUS
<1>3. fields' \in [ParamKeys -> {None} \cup {q.value : q \in Params}]
  BY ZenonT(30) DEF Take, PpTypeOK
<1>4. types' \in [Groups -> ParamKeys \cup {""}]
  BY <1>2 DEF Take, PpTypeOK
<1>5. outcome' \in {"parsing", "conflict", "refused", "accepted"} /\ command' \in ParserCommands
  BY DEF Take, PpTypeOK
<1> QED
  BY <1>1, <1>3, <1>4, <1>5 DEF PpTypeOK

\* and what was read of the message so far.
LEMMA TakeStep == ASSUME PpInv, NEW p \in Params, Take(p) PROVE PpInv'
<1>1. PpTypeOK /\ PpTypeOK'
  BY TakeTypes DEF PpInv
<1> DEFINE n == Len(message) + 1
<1>2. /\ message \in Seq(Params) /\ message' = Append(message, p) /\ Len(message) \in Nat
      /\ DOMAIN message = 1..Len(message) /\ DOMAIN message' = 1..n
      /\ message'[n] = p /\ \A i \in 1..Len(message) : message'[i] = message[i]
  <2>1. message' = Append(message, p)
    BY DEF Take
  <2>2. message \in Seq(Params) /\ Len(message) \in Nat /\ DOMAIN message = 1..Len(message)
    BY <1>1, LenProperties DEF PpTypeOK
  <2> QED
    BY <2>1, <2>2, AppendProperties, LenProperties
<1>3. ASSUME NEW keys
      PROVE  /\ p.key \in keys /\ p.value # Word => Numbers(keys)' = Numbers(keys) \cup {n}
             /\ ~(p.key \in keys /\ p.value # Word) => Numbers(keys)' = Numbers(keys)
             /\ \A i \in Numbers(keys) : i \in 1..Len(message) /\ message'[i] = message[i] /\ i < n
  <2>1. \A i \in 1..n : i = n \/ i \in 1..Len(message)
    BY <1>2
  <2> QED
    BY <1>2, <2>1 DEF Numbers
<1>4. ASSUME outcome' # "conflict", NEW g \in Groups PROVE AsRead(g)'
  <2> HIDE DEF n
  <2> DEFINE typed == Numbers(Explicit[g])
             plain == Numbers({Legacy[g]})
  <2>1. outcome # "conflict" /\ ~\E h \in GroupOf(p.key) : Seen(h)
    BY <1>4 DEF Take
  <2>2. /\ \A i, k \in typed : i = k
        /\ types[g] = "" => typed = {}
        /\ types[g] # "" => types[g] \in Explicit[g] /\ \E i \in typed : fields[types[g]] = message[i].value
        /\ plain = {} => fields[Legacy[g]] = None
        /\ plain # {} => \E i \in plain : fields[Legacy[g]] = message[i].value /\ \A k \in plain : k <= i
    BY <2>1 DEF PpInv, AsRead
  <2>3. fields \in [ParamKeys -> {None} \cup {q.value : q \in Params}] /\ types \in [Groups -> ParamKeys \cup {""}]
    BY <1>1 DEF PpTypeOK
  <2>4. p.key \in ParamKeys
    OBVIOUS
  <2>5. CASE ~Read(p)
    <3>1. UNCHANGED <<fields, types>> /\ typed' = typed /\ plain' = plain
      <4>1. UNCHANGED <<fields, types>>
        BY <2>1, <2>5 DEF Take
      <4>2. p.key \in Explicit[g] \/ p.key = Legacy[g] => p.value = Word
        BY <2>5, GroupsRead
      <4> QED
        BY <1>3, <4>1, <4>2
    <3>2. \A i \in typed \cup plain : message'[i] = message[i]
      BY <1>3
    <3> HIDE DEF typed, plain
    <3> QED
      BY <2>2, <3>1, <3>2 DEF AsRead, typed, plain
  <2>6. CASE Read(p)
    <3>1. /\ fields' = [fields EXCEPT ![p.key] = p.value]
          /\ types' = [h \in Groups |-> IF h \in GroupOf(p.key) THEN p.key ELSE types[h]]
      BY <2>1, <2>6 DEF Take
    <3>2. fields'[p.key] = p.value /\ \A k \in ParamKeys : k # p.key => fields'[k] = fields[k]
      BY <2>3, <2>4, <3>1
    <3>3. \A i \in typed \cup plain : message'[i] = message[i] /\ i \in Int /\ i < n
      BY <1>3
    <3>4. n \in Int /\ message'[n] = p
      BY <1>2 DEF n
    <3>5. CASE p.key \in Explicit[g]
      <4>1. types[g] = "" /\ types'[g] = p.key /\ p.key # "" /\ p.key # Legacy[g]
        BY <2>1, <3>1, <3>5, KeysApart DEF GroupOf, Seen
      <4>2. typed' = {n} /\ plain' = plain
        BY <1>3, <2>2, <2>6, <3>5, <4>1, GroupsRead
      <4>3. fields'[Legacy[g]] = fields[Legacy[g]]
        BY <3>2, <4>1, KeysApart
      <4> HIDE DEF typed, plain
      <4> QED
        BY <2>2, <3>2, <3>3, <3>4, <3>5, <4>1, <4>2, <4>3 DEF AsRead, typed, plain
    <3>6. CASE p.key = Legacy[g]
      <4>1. types'[g] = types[g] /\ p.key \notin Explicit[g]
        BY <3>1, <3>6, KeysApart DEF GroupOf
      <4>2. typed' = typed /\ plain' = plain \cup {n}
        BY <1>3, <2>6, <3>6, <4>1, GroupsRead
      <4>3. types[g] # "" => fields'[types[g]] = fields[types[g]]
        BY <2>2, <3>2, <4>1, KeysApart
      <4>4. fields'[Legacy[g]] = message'[n].value
        BY <3>2, <3>4, <3>6
      <4>5. n \in plain' /\ \A k \in plain' : k <= n
        <5>1. \A k \in plain : k <= n
          BY <3>3, <3>4
        <5>2. n <= n
          BY <3>4
        <5> HIDE DEF plain
        <5> QED
          BY <4>2, <5>1, <5>2
      <4> HIDE DEF typed, plain
      <4> QED
        BY <2>2, <3>3, <4>1, <4>2, <4>3, <4>4, <4>5 DEF AsRead, typed, plain
    <3>7. CASE p.key \notin Explicit[g] /\ p.key # Legacy[g]
      <4>1. types'[g] = types[g]
        BY <3>1, <3>7 DEF GroupOf
      <4>2. typed' = typed /\ plain' = plain
        BY <1>3, <3>7
      <4>3. types[g] # "" => fields'[types[g]] = fields[types[g]]
        BY <2>2, <3>2, <3>7, KeysApart
      <4>4. fields'[Legacy[g]] = fields[Legacy[g]]
        BY <3>2, <3>7, KeysApart
      <4> HIDE DEF typed, plain
      <4> QED
        BY <2>2, <3>3, <4>1, <4>2, <4>3, <4>4 DEF AsRead, typed, plain
    <3> QED
      BY <3>5, <3>6, <3>7
  <2> QED
    BY <2>5, <2>6
<1> QED
  BY <1>1, <1>4 DEF PpInv

\* The parser's types, and what its dictionaries hold of the message, in every state.
THEOREM PpInvariance == PpSpec => []PpInv
<1>1. PpInv /\ [PpNext]_ppVars => PpInv'
  <2> SUFFICES ASSUME PpInv, [PpNext]_ppVars PROVE PpInv'
    OBVIOUS
  <2>1. CASE UNCHANGED ppVars \/ Finish
    <3>1. UNCHANGED <<command, message, fields, types>> /\ outcome' \in {outcome, "refused", "accepted"}
          /\ (outcome' # "conflict" => outcome # "conflict")
      BY <2>1 DEF ppVars, Finish
    <3>2. PpTypeOK'
      BY <3>1 DEF PpInv, PpTypeOK
    <3>3. \A g \in Groups : AsRead(g)' <=> AsRead(g)
      BY <3>1 DEF AsRead, Numbers
    <3> QED
      BY <3>1, <3>2, <3>3 DEF PpInv
  <2> QED
    BY <2>1, TakeStep DEF PpNext
<1> QED
  BY <1>1, PpInitHolds, PTL DEF PpSpec

\* An accepted signal says what its message says, and what the validator lets
\* through has its stop and its target on the two sides of the price, as long as
\* none of the three is a nan.
THEOREM SignalsAreSound == PpSpec => []SignalSound
<1>1. PpInv => SignalSound
  <2> SUFFICES ASSUME PpInv, outcome = "accepted" PROVE ParsedAsWritten /\ NotCrossed
    BY DEF SignalSound
  <2>1. ASSUME NEW g \in Groups PROVE Says(g, Emitted(g)) /\ \A i, k \in Numbers(Explicit[g]) : i = k
    <3>1. AsRead(g)
      BY DEF PpInv
    <3> QED
      BY <3>1 DEF AsRead, Says, Emitted
  <2>2. NotCrossed
    <3> DEFINE sl == Emitted("sl")
               tp == Emitted("tp")
               price == Emitted("entry")
    <3> SUFFICES ASSUME Valid, sl \in Int, tp \in Int, price \in Int \cup {None}
                 PROVE  (command \in Buys => sl < tp) /\ (command \in Sells => tp < sl)
      BY DEF NotCrossed
    <3>1. \A a, b \in Int : AtMost(a, b) <=> a <= b
      BY DEF AtMost
    <3>2. command \in Buys => command \notin Sells
      BY DEF Buys, Sells
    <3>3. sl # None /\ tp # None
      OBVIOUS
    <3>4. command \in Buys \cup Sells =>
             /\ price = None => Below(sl, tp)
             /\ price # None => Below(sl, price) /\ Below(price, tp)
      BY <3>3 DEF Valid
    <3> HIDE DEF sl, tp, price
    <3>5. CASE price = None
      BY <3>1, <3>2, <3>4, <3>5 DEF Below
    <3>6. CASE price \in Int /\ price # None
      BY <3>1, <3>2, <3>4, <3>6 DEF Below
    <3> QED
      BY <3>5, <3>6
  <2> QED
    BY <2>1, <2>2 DEF ParsedAsWritten
<1> QED
  BY <1>1, PpInvariance, PTL

HIDE PineParserAssumption
-----------------------------------------------------------------------------
(*****************************************************************************)
(* ServerLifecycle                                                           *)
(*****************************************************************************)

USE ServerLifecycleAssumption

\* The phases before the bot runs, those of the shutdown, and those of them after
\* the timer was stopped.
BeforeBot == {"services", "redis", "database", "mt5", "tasks", "bot", "failed"}
Stopping == {"monitor", "botstop", "connections", "subscriber", "sockets", "cancel",
             "timer", "redisclose", "dbclose", "mt5stop", "sessions", "stopped"}
TimerGone == {"redisclose", "dbclose", "mt5stop", "sessions", "stopped"}

\* The watchdog is there from the start of the bot to the start of the shutdown.
WatchdogsTime ==
    /\ phase \in BeforeBot => "watchdog" \notin tasks /\ pc = [p \in Starters |-> "idle"]
    /\ phase \in Stopping => "watchdog" \notin tasks /\ pc["watchdog"] = "idle"

\* While no two starts have run at once: one that is past its beginning is
\* alone, an application polls only until the next is built, and one that polls
\* without having been marked as started is about to be, or was cut off by the
\* shutdown and will not be followed.
StartsAreSerial ==
    /\ polling \subseteq {app}
    /\ pc["watchdog"] \notin {"idle", "begin"} => pc["boot"] = "idle"
    /\ \A p \in Starters : pc[p] \in {"init", "poll", "fail"} => polling = {}
    /\ polling # {} /\ ~started =>
         \/ \E p \in Starters : pc[p] = "mark"
         \/ phase \in Stopping /\ pc["boot"] = "idle"

\* No start is left that could follow the bot's stop.
StopIsFinal ==
    phase \in Stopping /\ ~inflight =>
        /\ pc["boot"] = "idle"
        /\ polling # {} => started /\ phase \in {"monitor", "botstop"}

\* The session timer is not armed again once it was stopped.
TimerIsStopped == phase \in TimerGone /\ ~inflight => timer = "none"

\* What OnePoller and QuietAfterShutdown need in the state before.
SlInv ==
    /\ SlTypeOK /\ WatchdogsTime /\ TimerIsStopped
    /\ ~overlapped => StartsAreSerial /\ StopIsFinal

\* Where a start can be.
PcValues == {"idle", "begin", "clean", "init", "poll", "mark", "fail"}

\* The phases, listed, and what follows each.
LEMMA PhasesListed == ToSet(Boot) \cup ToSet(Shutdown) \cup {"failed"} = BeforeBot \cup {"reliability", "up"} \cup Stopping
<1>1. \A x : x \in ToSet(Boot) <=> x \in {"services", "redis", "database", "mt5", "tasks", "bot", "reliability", "up"}
  <2>1. DOMAIN Boot = 1..8
    BY DEF Boot
  <2> QED
    BY <2>1 DEF ToSet, Boot
<1>2. \A x : x \in ToSet(Shutdown) <=> x \in Stopping
  <2>1. DOMAIN Shutdown = 1..12
    BY DEF Shutdown
  <2> QED
    BY <2>1 DEF ToSet, Shutdown, Stopping
<1> QED
  BY <1>1, <1>2 DEF BeforeBot

\* What follows each step of the shutdown.
LEMMA PhaseOrder ==
    /\ Follows(Shutdown, "monitor") = "botstop"
    /\ Follows(Shutdown, "botstop") = "connections"
    /\ Follows(Shutdown, "connections") = "subscriber"
    /\ Follows(Shutdown, "subscriber") = "sockets"
    /\ Follows(Shutdown, "sockets") = "cancel"
    /\ Follows(Shutdown, "cancel") = "timer"
    /\ Follows(Shutdown, "timer") = "redisclose"
    /\ Follows(Shutdown, "redisclose") = "dbclose"
    /\ Follows(Shutdown, "dbclose") = "mt5stop"
    /\ Follows(Shutdown, "mt5stop") = "sessions"
    /\ Follows(Shutdown, "sessions") = "stopped"
<1>1. DOMAIN Shutdown = 1..12
  BY DEF Shutdown
<1>2. ASSUME NEW i \in 1..11, NEW j \in 1..12, Shutdown[j] = Shutdown[i] PROVE j = i
  BY <1>2 DEF Shutdown
<1>3. ASSUME NEW i \in 1..11 PROVE Follows(Shutdown, Shutdown[i]) = Shutdown[i + 1]
  <2>1. (CHOOSE j \in DOMAIN Shutdown : Shutdown[j] = Shutdown[i]) = i
    <3>1. \E j \in DOMAIN Shutdown : Shutdown[j] = Shutdown[i]
      BY <1>1
    <3> QED
      BY <3>1, <1>1, <1>2
  <2> QED
    BY <2>1 DEF Follows
<1> QED
  BY <1>3 DEF Shutdown

\* Nothing runs in the initial state.
LEMMA SlInitHolds == SlInit => SlInv
<1> SUFFICES ASSUME SlInit PROVE SlInv
  OBVIOUS
<1>1. SlTypeOK
  <2>1. phase \in ToSet(Boot) \cup ToSet(Shutdown) \cup {"failed"}
    BY PhasesListed DEF SlInit, BeforeBot
  <2>2. app \in 0..built /\ built \in 0..MaxApps
    BY DEF SlInit
  <2>3. pc \in [Starters -> {"idle", "begin", "clean", "init", "poll", "mark", "fail"}]
    BY DEF SlInit
  <2> QED
    BY <2>1, <2>2, <2>3 DEF SlInit, SlTypeOK
<1>2. WatchdogsTime /\ TimerIsStopped
  BY DEF SlInit, WatchdogsTime, TimerIsStopped, Stopping, TimerGone
<1>3. StartsAreSerial /\ StopIsFinal
  BY DEF SlInit, StartsAreSerial, StopIsFinal, Stopping, Starters
<1> QED
  BY <1>1, <1>2, <1>3 DEF SlInv

\* The steps of the boot sequence that leave the bot alone.
\* The steps of the startup but that of the bot.
BootStep == BootFails \/ BootServices \/ BootRedis \/ BootDatabase \/ BootMt5 \/ BootTasks \/ BootReliability

\* The boot stages before and after the bot.
LEMMA BootSteps == ASSUME SlInv, BootStep PROVE SlInv'
<1>1. UNCHANGED <<app, started, polling, built, pc, overlapped, inflight>>
  BY DEF BootStep, BootFails, BootServices, BootRedis, BootDatabase, BootMt5, BootTasks, BootReliability, bot
<1>2. phase \in BeforeBot \cup {"reliability"} /\ phase' \in BeforeBot \cup {"up"} /\ (phase' \in BeforeBot => phase \in BeforeBot)
  BY DEF BootStep, BootFails, BootServices, BootRedis, BootDatabase, BootMt5, BootTasks, BootReliability, BeforeBot
<1>3. tasks' \subseteq tasks \cup Background \cup {"subscriber", "monitor"}
  BY DEF BootStep, BootFails, BootServices, BootRedis, BootDatabase, BootMt5, BootTasks, BootReliability
<1>4. open' \subseteq open \cup {"redis", "db", "mt5"} /\ timer' \in {timer, "armed"}
  BY DEF BootStep, BootFails, BootServices, BootRedis, BootDatabase, BootMt5, BootTasks, BootReliability
<1>5. phase \notin Stopping /\ phase' \notin Stopping /\ phase' \notin TimerGone
  BY <1>2 DEF BeforeBot, Stopping, TimerGone
<1>6. SlTypeOK'
  BY <1>1, <1>2, <1>3, <1>4, PhasesListed DEF SlInv, SlTypeOK
<1>7. WatchdogsTime'
  BY <1>1, <1>2, <1>3, <1>5 DEF SlInv, WatchdogsTime, Background
<1> QED
  BY <1>1, <1>5, <1>6, <1>7 DEF SlInv, TimerIsStopped, StartsAreSerial, StopIsFinal

\* The boot starts the bot's task and the watchdog.
LEMMA BotStep == ASSUME SlInv, BootBot PROVE SlInv'
<1>1. /\ phase = "bot" /\ phase' = "reliability" /\ UNCHANGED <<open, app, started, polling, built, overlapped, timer, inflight>>
      /\ \/ UNCHANGED <<tasks, pc>>
         \/ tasks' = tasks \cup {"watchdog"} /\ pc' = [pc EXCEPT !["boot"] = "begin"]
  BY DEF BootBot
<1>2. SlTypeOK'
  BY <1>1, PhasesListed DEF SlInv, SlTypeOK, Starters
<1>3. /\ phase' \notin Stopping /\ phase' \notin TimerGone /\ phase' \notin BeforeBot
      /\ phase \notin Stopping
  BY <1>1 DEF BeforeBot, Stopping, TimerGone
<1>4. pc = [p \in Starters |-> "idle"]
  BY <1>1 DEF SlInv, WatchdogsTime, BeforeBot
<1>5. ~overlapped => StartsAreSerial'
  BY <1>1, <1>3, <1>4 DEF SlInv, StartsAreSerial, Starters
<1> QED
  BY <1>1, <1>2, <1>3, <1>5 DEF SlInv, TimerIsStopped, StopIsFinal, WatchdogsTime

-----------------------------------------------------------------------------
(* start().                                                                *)

\* A step of a start leaves the rest of the server alone, and where starts stay
\* apart the other one is idle.
LEMMA StartFrame ==
    ASSUME SlInv, NEW p \in Starters, UNCHANGED Rest,
           pc[p] # "idle", NEW s \in PcValues, pc' = [pc EXCEPT ![p] = s]
    PROVE  /\ UNCHANGED <<phase, tasks, open, timer, inflight>>
           /\ phase \notin BeforeBot /\ (phase \in Stopping => p = "boot")
           /\ pc' \in [Starters -> PcValues] /\ pc'[p] = s
           /\ \A q \in Starters \ {p} : pc'[q] = pc[q]
           /\ WatchdogsTime' /\ TimerIsStopped'
<1>1. UNCHANGED <<phase, tasks, open, timer, inflight>>
  BY DEF Rest
<1>2. phase \notin BeforeBot /\ (phase \in Stopping => p = "boot")
  BY DEF SlInv, WatchdogsTime, Starters
<1>3. pc' \in [Starters -> PcValues] /\ pc'[p] = s /\ \A q \in Starters \ {p} : pc'[q] = pc[q]
  BY DEF SlInv, SlTypeOK, PcValues
<1> QED
  BY <1>1, <1>2, <1>3 DEF SlInv, WatchdogsTime, TimerIsStopped, Starters

\* Two starts that do not run at once are not both past their beginning.
LEMMA StartsAlone ==
    ASSUME SlInv, NEW p \in Starters, Overlaps(p), ~overlapped'
    PROVE  ~overlapped /\ \A q \in Starters \ {p} : pc[q] = "idle"
  BY DEF Overlaps

\* A start begins,
LEMMA BeginStep == ASSUME SlInv, NEW p \in Starters, Begin(p) PROVE SlInv'
<1>1. /\ pc[p] = "begin" /\ pc' = [pc EXCEPT ![p] = IF app = 0 THEN "init" ELSE "clean"]
      /\ Overlaps(p) /\ UNCHANGED <<started, polling>> /\ UNCHANGED Rest
      /\ IF app = 0 THEN built < MaxApps /\ built' = built + 1 /\ app' = built' ELSE UNCHANGED <<built, app>>
  BY DEF Begin, Step
<1>2. PICK s \in PcValues : s = IF app = 0 THEN "init" ELSE "clean"
  BY DEF PcValues
<1>3. pc' = [pc EXCEPT ![p] = s]
  BY <1>1, <1>2
<1>4. /\ UNCHANGED <<phase, tasks, open, timer, inflight>> /\ WatchdogsTime' /\ TimerIsStopped'
      /\ pc' \in [Starters -> PcValues] /\ pc'[p] = s /\ \A q \in Starters \ {p} : pc'[q] = pc[q]
      /\ phase \in Stopping => p = "boot"
  BY <1>1, <1>3, StartFrame
<1>5. overlapped' \in BOOLEAN
  BY <1>1 DEF Overlaps, SlInv, SlTypeOK
<1>6. SlTypeOK'
  BY <1>1, <1>4, <1>5 DEF SlInv, SlTypeOK, PcValues
<1>7. ASSUME ~overlapped' PROVE StartsAreSerial' /\ StopIsFinal'
  <2>1. ~overlapped /\ \A q \in Starters \ {p} : pc[q] = "idle"
    BY <1>1, <1>7, StartsAlone
  <2>2. StartsAreSerial /\ StopIsFinal
    BY <2>1 DEF SlInv
  <2>3. app = 0 => polling = {}
    BY <2>2 DEF StartsAreSerial, SlInv, SlTypeOK
  <2>4. polling' = {} \/ (app' = app /\ polling' \subseteq {app'})
    BY <2>2, <2>3, <1>1 DEF StartsAreSerial
  <2>5. polling' # {} => started'
    <3>1. polling # {} => started
      BY <2>1, <2>2, <1>1, <1>4 DEF StartsAreSerial, Starters
    <3> QED
      BY <3>1, <1>1
  <2>6. StartsAreSerial'
    BY <1>1, <1>2, <1>4, <2>1, <2>3, <2>4, <2>5 DEF StartsAreSerial, Starters
  <2>7. StopIsFinal'
    BY <1>1, <1>4, <2>2 DEF StopIsFinal
  <2> QED
    BY <2>6, <2>7
<1> QED
  BY <1>4, <1>6, <1>7 DEF SlInv

\* stops the application before,
LEMMA CleanStep == ASSUME SlInv, NEW p \in Starters, Clean(p) PROVE SlInv'
<1>1. /\ pc[p] = "clean" /\ pc' = [pc EXCEPT ![p] = "init"] /\ Overlaps(p) /\ UNCHANGED Rest
      /\ polling' = (IF started THEN polling \ {app} ELSE polling) /\ started' = FALSE
      /\ built < MaxApps /\ built' = built + 1 /\ app' = built'
  BY DEF Clean, Step, TakeDown
<1>2. "init" \in PcValues
  BY DEF PcValues
<1>4. /\ UNCHANGED <<phase, tasks, open, timer, inflight>> /\ WatchdogsTime' /\ TimerIsStopped'
      /\ pc' \in [Starters -> PcValues] /\ pc'[p] = "init" /\ \A q \in Starters \ {p} : pc'[q] = pc[q]
      /\ phase \in Stopping => p = "boot"
  BY <1>1, <1>2, StartFrame
<1>5. overlapped' \in BOOLEAN
  BY <1>1 DEF Overlaps, SlInv, SlTypeOK
<1>6. SlTypeOK'
  <2>1. built' \in 0..MaxApps /\ app' \in 0..built'
    BY <1>1 DEF SlInv, SlTypeOK
  <2>2. polling' \subseteq 1..built'
    BY <1>1 DEF SlInv, SlTypeOK
  <2> QED
    BY <1>1, <1>4, <1>5, <2>1, <2>2 DEF SlInv, SlTypeOK, PcValues
<1>7. ASSUME ~overlapped' PROVE StartsAreSerial' /\ StopIsFinal'
  <2>1. ~overlapped /\ \A q \in Starters \ {p} : pc[q] = "idle"
    BY <1>1, <1>7, StartsAlone
  <2>2. StartsAreSerial /\ StopIsFinal
    BY <2>1 DEF SlInv
  <2>3. polling # {} => started
    BY <2>1, <2>2, <1>1, <1>4 DEF StartsAreSerial, Starters
  <2>4. polling' = {}
    BY <2>2, <2>3, <1>1 DEF StartsAreSerial
  <2>5. StartsAreSerial'
    BY <1>1, <1>4, <2>1, <2>4 DEF StartsAreSerial, Starters
  <2>6. StopIsFinal'
    BY <1>1, <1>4, <2>2, <2>4 DEF StopIsFinal
  <2> QED
    BY <2>5, <2>6
<1> QED
  BY <1>4, <1>6, <1>7 DEF SlInv

\* builds the next,
LEMMA InitializeStep == ASSUME SlInv, NEW p \in Starters, Initialize(p) PROVE SlInv'
<1>1. PICK s \in {"poll", "fail"} :
        pc[p] = "init" /\ pc' = [pc EXCEPT ![p] = s] /\ Overlaps(p)
        /\ UNCHANGED <<app, started, polling, built>> /\ UNCHANGED Rest
  BY DEF Initialize, Step
<1>2. s \in PcValues
  BY DEF PcValues
<1>4. /\ UNCHANGED <<phase, tasks, open, timer, inflight>> /\ WatchdogsTime' /\ TimerIsStopped'
      /\ pc' \in [Starters -> PcValues] /\ pc'[p] = s /\ \A q \in Starters \ {p} : pc'[q] = pc[q]
      /\ phase \in Stopping => p = "boot"
  BY <1>1, <1>2, StartFrame
<1>5. overlapped' \in BOOLEAN
  BY <1>1 DEF Overlaps, SlInv, SlTypeOK
<1>6. SlTypeOK'
  BY <1>1, <1>4, <1>5 DEF SlInv, SlTypeOK, PcValues
<1>7. ASSUME ~overlapped' PROVE StartsAreSerial' /\ StopIsFinal'
  <2>1. ~overlapped /\ \A q \in Starters \ {p} : pc[q] = "idle"
    BY <1>1, <1>7, StartsAlone
  <2>2. StartsAreSerial /\ StopIsFinal
    BY <2>1 DEF SlInv
  <2>3. polling' = {}
    BY <2>2, <1>1 DEF StartsAreSerial
  <2>4. StartsAreSerial'
    BY <1>1, <1>4, <2>1, <2>3 DEF StartsAreSerial, Starters
  <2>5. StopIsFinal'
    BY <1>1, <1>4, <2>2, <2>3 DEF StopIsFinal
  <2> QED
    BY <2>4, <2>5
<1> QED
  BY <1>4, <1>6, <1>7 DEF SlInv

\* polls with it,
LEMMA PollStep == ASSUME SlInv, NEW p \in Starters, StartPolling(p) PROVE SlInv'
<1>1. PICK s \in {"mark", "fail"} :
        /\ pc[p] = "poll" /\ pc' = [pc EXCEPT ![p] = s] /\ Overlaps(p)
        /\ UNCHANGED <<app, started, built>> /\ UNCHANGED Rest
        /\ IF s = "mark" THEN app # 0 /\ polling' = polling \cup {app} ELSE polling' = polling
  BY DEF StartPolling, Step
<1>2. s \in PcValues
  BY DEF PcValues
<1>4. /\ UNCHANGED <<phase, tasks, open, timer, inflight>> /\ WatchdogsTime' /\ TimerIsStopped'
      /\ pc' \in [Starters -> PcValues] /\ pc'[p] = s /\ \A q \in Starters \ {p} : pc'[q] = pc[q]
      /\ phase \in Stopping => p = "boot"
  BY <1>1, <1>2, StartFrame
<1>5. overlapped' \in BOOLEAN
  BY <1>1 DEF Overlaps, SlInv, SlTypeOK
<1>6. SlTypeOK'
  <2>1. app # 0 => app \in 1..built
    BY DEF SlInv, SlTypeOK
  <2>2. polling' \subseteq polling \cup {app} /\ (app # 0 \/ polling' = polling)
    BY <1>1
  <2>3. polling' \subseteq 1..built
    BY <2>1, <2>2 DEF SlInv, SlTypeOK
  <2> QED
    BY <1>1, <1>4, <1>5, <2>3 DEF SlInv, SlTypeOK, PcValues
<1>7. ASSUME ~overlapped' PROVE StartsAreSerial' /\ StopIsFinal'
  <2>1. ~overlapped /\ \A q \in Starters \ {p} : pc[q] = "idle"
    BY <1>1, <1>7, StartsAlone
  <2>2. StartsAreSerial /\ StopIsFinal
    BY <2>1 DEF SlInv
  <2>3. polling = {}
    BY <2>2, <1>1 DEF StartsAreSerial
  <2>4. polling' \subseteq {app'} /\ (polling' # {} => pc'[p] = "mark")
    BY <1>1, <1>4, <2>3
  <2>5. StartsAreSerial'
    BY <1>1, <1>4, <2>1, <2>4 DEF StartsAreSerial, Starters
  <2>6. StopIsFinal'
    BY <1>1, <1>4, <2>2 DEF StopIsFinal
  <2> QED
    BY <2>5, <2>6
<1> QED
  BY <1>4, <1>6, <1>7 DEF SlInv

\* and ends.
LEMMA EndSteps == ASSUME SlInv, NEW p \in Starters, Started(p) \/ StartFails(p) PROVE SlInv'
<1>1. /\ pc[p] \in {"mark", "fail"} /\ pc' = [pc EXCEPT ![p] = "idle"] /\ UNCHANGED Rest
      /\ UNCHANGED <<polling, built, overlapped>>
      /\ IF pc[p] = "mark" THEN started' = TRUE /\ app' = app ELSE started' = FALSE /\ app' = 0
  BY DEF Started, StartFails, Step
<1>2. "idle" \in PcValues
  BY DEF PcValues
<1>4. /\ UNCHANGED <<phase, tasks, open, timer, inflight>> /\ WatchdogsTime' /\ TimerIsStopped'
      /\ pc' \in [Starters -> PcValues] /\ pc'[p] = "idle" /\ \A q \in Starters \ {p} : pc'[q] = pc[q]
      /\ phase \in Stopping => p = "boot"
  BY <1>1, <1>2, StartFrame
<1>6. SlTypeOK'
  <2>1. app' \in {0, app} /\ started' \in BOOLEAN
    BY <1>1
  <2>2. app' \in 0..built'
    BY <1>1, <2>1 DEF SlInv, SlTypeOK
  <2> QED
    BY <1>1, <1>4, <2>1, <2>2 DEF SlInv, SlTypeOK, PcValues
<1>7. ASSUME ~overlapped' PROVE StartsAreSerial' /\ StopIsFinal'
  <2>1. ~overlapped
    BY <1>1, <1>7
  <2>2. StartsAreSerial /\ StopIsFinal
    BY <2>1 DEF SlInv
  <2>3. polling' # {} => started' /\ app' = app
    BY <1>1, <2>2 DEF StartsAreSerial
  <2>4. polling' \subseteq {app'}
    BY <1>1, <2>2, <2>3 DEF StartsAreSerial
  <2>5. \A q \in Starters : pc'[q] \in {"init", "poll", "fail"} => polling' = {}
    BY <1>1, <1>4, <2>2 DEF StartsAreSerial
  <2>6. pc'["watchdog"] \notin {"idle", "begin"} => pc'["boot"] = "idle"
    BY <1>4, <2>2 DEF StartsAreSerial, Starters
  <2>7. StartsAreSerial'
    BY <2>3, <2>4, <2>5, <2>6 DEF StartsAreSerial
  <2>8. StopIsFinal'
    BY <1>1, <1>4, <2>2 DEF StopIsFinal
  <2> QED
    BY <2>7, <2>8
<1> QED
  BY <1>4, <1>6, <1>7 DEF SlInv

-----------------------------------------------------------------------------
(* The watchdog, the updater and the timer.                                *)

\* What the watchdog, the bot's updater and the timer do.
LEMMA WatchStep == ASSUME SlInv, Watch PROVE SlInv'
<1>1. /\ "watchdog" \in tasks /\ pc["watchdog"] = "idle" /\ UNCHANGED Rest
      /\ pc' = [pc EXCEPT !["watchdog"] = "begin"]
      /\ UNCHANGED <<app, started, polling, built, overlapped>>
  BY DEF Watch
<1>2. UNCHANGED <<phase, tasks, open, timer, inflight>>
  BY <1>1 DEF Rest
<1>3. phase \notin BeforeBot /\ phase \notin Stopping
  BY <1>1 DEF SlInv, WatchdogsTime
<1>4. pc' \in [Starters -> PcValues] /\ pc'["watchdog"] = "begin" /\ pc'["boot"] = pc["boot"]
  BY <1>1 DEF SlInv, SlTypeOK, Starters, PcValues
<1>5. SlTypeOK'
  BY <1>1, <1>2, <1>4 DEF SlInv, SlTypeOK, PcValues
<1>6. ~overlapped => StartsAreSerial'
  BY <1>1, <1>2, <1>3, <1>4 DEF SlInv, StartsAreSerial, Starters
<1> QED
  BY <1>1, <1>2, <1>3, <1>5, <1>6 DEF SlInv, WatchdogsTime, TimerIsStopped, StopIsFinal

\* The updater ends by itself.
LEMMA UpdaterStep == ASSUME SlInv, UpdaterEnds PROVE SlInv'
<1>1. UNCHANGED <<phase, tasks, open, timer, inflight, app, started, built, pc, overlapped>>
      /\ polling' = polling \ {app} /\ started
  BY DEF UpdaterEnds, Rest
<1>2. SlTypeOK'
  BY <1>1 DEF SlInv, SlTypeOK
<1>3. ~overlapped => StartsAreSerial' /\ StopIsFinal'
  BY <1>1 DEF SlInv, StartsAreSerial, StopIsFinal
<1> QED
  BY <1>1, <1>2, <1>3 DEF SlInv, WatchdogsTime, TimerIsStopped

\* The timer fires and is armed again.
LEMMA TimerSteps == ASSUME SlInv, TimerFires \/ TimerRearms PROVE SlInv'
<1>1. UNCHANGED <<phase, tasks, open, inflight, app, started, polling, built, pc, overlapped>>
      /\ timer # "none" /\ timer' \in {"armed", "running"}
  BY DEF TimerFires, TimerRearms, bot
<1>2. SlTypeOK'
  BY <1>1 DEF SlInv, SlTypeOK
<1> QED
  BY <1>1, <1>2 DEF SlInv, WatchdogsTime, TimerIsStopped, StartsAreSerial, StopIsFinal

-----------------------------------------------------------------------------
(* The shutdown.                                                           *)

\* The shutdown begins,
LEMMA ShutdownBegins == ASSUME SlInv, BeginShutdown PROVE SlInv'
<1>1. /\ phase = "up" /\ phase' = "monitor"
      /\ tasks' = tasks \ {"watchdog"} /\ pc' = [pc EXCEPT !["watchdog"] = "idle"]
      /\ inflight' = (\E p \in Starters : pc[p] # "idle")
      /\ UNCHANGED <<open, app, started, polling, built, overlapped, timer>>
  BY DEF BeginShutdown, Cancel, CancelledFirst, Shutdown
<1>2. pc' \in [Starters -> PcValues] /\ pc'["watchdog"] = "idle" /\ pc'["boot"] = pc["boot"]
  BY <1>1 DEF SlInv, SlTypeOK, Starters, PcValues
<1>3. phase' \in Stopping /\ phase' \notin BeforeBot /\ phase' \notin TimerGone /\ phase \notin Stopping
  BY <1>1 DEF Stopping, BeforeBot, TimerGone
<1>4. SlTypeOK'
  <2>1. phase' \in ToSet(Boot) \cup ToSet(Shutdown) \cup {"failed"}
    BY <1>3, PhasesListed
  <2>2. inflight' \in BOOLEAN
    BY <1>1
  <2> QED
    BY <1>1, <1>2, <2>1, <2>2 DEF SlInv, SlTypeOK, PcValues
<1>5. WatchdogsTime' /\ TimerIsStopped'
  BY <1>1, <1>2, <1>3 DEF WatchdogsTime, TimerIsStopped
<1>6. ASSUME ~overlapped PROVE StartsAreSerial' /\ StopIsFinal'
  <2>1. StartsAreSerial
    BY <1>6 DEF SlInv
  <2>2. polling # {} /\ ~started => \E p \in Starters : pc[p] = "mark"
    BY <2>1, <1>3 DEF StartsAreSerial
  <2>3. StartsAreSerial'
    BY <1>1, <1>2, <1>3, <2>1, <2>2 DEF StartsAreSerial, Starters
  <2>4. ~inflight' => pc["boot"] = "idle" /\ (polling # {} => started)
    BY <1>1, <2>2 DEF Starters
  <2>5. StopIsFinal'
    BY <1>1, <1>2, <2>4 DEF StopIsFinal
  <2> QED
    BY <2>3, <2>5
<1> QED
  BY <1>1, <1>4, <1>5, <1>6 DEF SlInv

\* What a later step of the shutdown has in common: the phase goes on, and no
\* start begins.
LEMMA ShutdownFrame ==
    ASSUME SlInv, NEW ph \in Stopping \ {"stopped"}, Advance(ph), UNCHANGED <<app, built, overlapped>>,
           tasks' \subseteq tasks, open' \subseteq open, timer' \in {"none", "armed", "running"}, inflight' \in BOOLEAN,
           pc' \in {pc, [pc EXCEPT !["watchdog"] = "idle"]},
           started' \in BOOLEAN, polling' \subseteq polling
    PROVE  /\ phase = ph /\ phase \in Stopping /\ phase' \in Stopping /\ phase' \notin BeforeBot
           /\ pc' = pc /\ WatchdogsTime' /\ SlTypeOK'
<1>1. phase = ph /\ phase' = Follows(Shutdown, ph)
  BY DEF Advance
<1>2. phase' \in Stopping
  BY <1>1, PhaseOrder DEF Stopping
<1>3. phase' \notin BeforeBot
  BY <1>2 DEF Stopping, BeforeBot
<1>4. "watchdog" \notin tasks /\ pc["watchdog"] = "idle"
  BY <1>1 DEF SlInv, WatchdogsTime
<1>5. pc' = pc
  BY <1>4 DEF SlInv, SlTypeOK
<1>6. WatchdogsTime'
  BY <1>3, <1>4, <1>5 DEF WatchdogsTime
<1>7. SlTypeOK'
  <2>1. phase' \in ToSet(Boot) \cup ToSet(Shutdown) \cup {"failed"}
    BY <1>2, PhasesListed
  <2> QED
    BY <1>5, <2>1 DEF SlInv, SlTypeOK
<1> QED
  BY <1>1, <1>2, <1>3, <1>5, <1>6, <1>7

\* stops the bot,
LEMMA StopBotStep == ASSUME SlInv, StopBot PROVE SlInv'
<1>1. /\ Advance("botstop") /\ UNCHANGED <<tasks, open, app, built, pc, overlapped, timer, inflight>>
      /\ IF started /\ app \in polling THEN polling' = polling \ {app} /\ started' = FALSE
         ELSE UNCHANGED <<polling, started>>
  BY DEF StopBot
<1>2. "botstop" \in Stopping \ {"stopped"}
  BY DEF Stopping
<1>3. started' \in BOOLEAN /\ polling' \subseteq polling /\ timer' \in {"none", "armed", "running"} /\ inflight' \in BOOLEAN
  BY <1>1 DEF SlInv, SlTypeOK
<1>4. phase = "botstop" /\ phase \in Stopping /\ phase' \in Stopping /\ WatchdogsTime' /\ SlTypeOK'
  BY <1>1, <1>2, <1>3, ShutdownFrame
<1>5. phase' = "connections"
  BY <1>1, <1>4, PhaseOrder DEF Advance
<1>6. TimerIsStopped'
  BY <1>5 DEF TimerIsStopped, TimerGone
<1>7. ASSUME ~overlapped PROVE StartsAreSerial' /\ StopIsFinal'
  <2>1. StartsAreSerial /\ StopIsFinal
    BY <1>7 DEF SlInv
  <2>2. polling' = {} \/ (UNCHANGED <<polling, started>> /\ ~started)
    BY <1>1, <2>1 DEF StartsAreSerial
  <2>3. StartsAreSerial'
    BY <1>1, <1>4, <2>1, <2>2 DEF StartsAreSerial
  <2>4. StopIsFinal'
    BY <1>1, <1>4, <2>1, <2>2 DEF StopIsFinal
  <2> QED
    BY <2>3, <2>4
<1> QED
  BY <1>1, <1>4, <1>6, <1>7 DEF SlInv

\* and stops the timer.
LEMMA StopTimerStep == ASSUME SlInv, StopTimer PROVE SlInv'
<1>1. /\ Advance("timer") /\ UNCHANGED <<tasks, open, app, started, polling, built, pc, overlapped>>
      /\ timer' = (IF timer = "armed" THEN "none" ELSE timer) /\ inflight' = (inflight \/ timer = "running")
  BY DEF StopTimer, StoppedTimer, bot
<1>2. "timer" \in Stopping \ {"stopped"}
  BY DEF Stopping
<1>3. timer' \in {"none", "armed", "running"} /\ inflight' \in BOOLEAN /\ started' \in BOOLEAN
  BY <1>1 DEF SlInv, SlTypeOK
<1>4. phase = "timer" /\ phase \in Stopping /\ phase' \in Stopping /\ WatchdogsTime' /\ SlTypeOK'
  BY <1>1, <1>2, <1>3, ShutdownFrame
<1>5. TimerIsStopped'
  BY <1>1 DEF TimerIsStopped, SlInv, SlTypeOK
<1>6. ASSUME ~overlapped PROVE StartsAreSerial' /\ StopIsFinal'
  <2>1. StartsAreSerial /\ StopIsFinal
    BY <1>6 DEF SlInv
  <2>2. StartsAreSerial'
    BY <1>1, <1>4, <2>1 DEF StartsAreSerial
  <2>3. ~inflight' => ~inflight
    BY <1>1 DEF SlInv, SlTypeOK
  <2>4. StopIsFinal'
    BY <1>1, <1>4, <2>1, <2>3 DEF StopIsFinal
  <2> QED
    BY <2>2, <2>4
<1> QED
  BY <1>1, <1>4, <1>5, <1>6 DEF SlInv

\* The steps that leave the bot, the timer and what was under way alone.
LEMMA QuietSteps ==
    ASSUME SlInv, NEW ph \in Stopping \ {"stopped", "botstop", "timer"}, Advance(ph),
           UNCHANGED <<app, started, polling, built, overlapped, timer, inflight>>,
           pc' \in {pc, [pc EXCEPT !["watchdog"] = "idle"]},
           tasks' \subseteq tasks, open' \subseteq open
    PROVE  SlInv'
<1>1. timer' \in {"none", "armed", "running"} /\ inflight' \in BOOLEAN /\ started' \in BOOLEAN /\ polling' \subseteq polling
  BY DEF SlInv, SlTypeOK
<1>2. phase = ph /\ phase \in Stopping /\ phase' \in Stopping /\ pc' = pc /\ WatchdogsTime' /\ SlTypeOK'
  BY <1>1, ShutdownFrame
<1>3. phase' \in TimerGone => phase \in TimerGone
  BY <1>2, PhaseOrder DEF Advance, Stopping, TimerGone
<1>4. phase \in {"monitor", "botstop"} => phase' \in {"monitor", "botstop"}
  BY <1>2, PhaseOrder DEF Advance
<1>5. TimerIsStopped'
  BY <1>3 DEF SlInv, TimerIsStopped
<1>6. ~overlapped => StartsAreSerial' /\ StopIsFinal'
  BY <1>2, <1>4 DEF SlInv, StartsAreSerial, StopIsFinal
<1> QED
  BY <1>2, <1>5, <1>6 DEF SlInv

\* Every step of the shutdown after its first.
LEMMA ShutdownSteps ==
    ASSUME SlInv,
           StopMonitor \/ CancelSubscriber \/ CancelBackground
           \/ (\E ph \in DOMAIN ClosedBy : CloseResource(ph))
           \/ \E ph \in {"connections", "sockets", "sessions"} : CloseQuietly(ph)
    PROVE  SlInv'
<1>1. {"monitor", "subscriber", "cancel", "redisclose", "dbclose", "mt5stop", "connections", "sockets", "sessions"}
        \subseteq Stopping \ {"stopped", "botstop", "timer"}
  BY DEF Stopping
<1>2. CASE StopMonitor
  BY <1>1, <1>2, QuietSteps DEF StopMonitor, bot
<1>3. CASE CancelSubscriber
  BY <1>1, <1>3, QuietSteps DEF CancelSubscriber, bot
<1>4. CASE CancelBackground
  BY <1>1, <1>4, QuietSteps DEF CancelBackground, Cancel
<1>5. CASE \E ph \in DOMAIN ClosedBy : CloseResource(ph)
  <2>1. PICK ph \in {"redisclose", "dbclose", "mt5stop"} : CloseResource(ph)
    BY <1>5 DEF ClosedBy
  <2> QED
    BY <1>1, <2>1, QuietSteps DEF CloseResource, bot
<1>6. CASE \E ph \in {"connections", "sockets", "sessions"} : CloseQuietly(ph)
  BY <1>1, <1>6, QuietSteps DEF CloseQuietly, bot
<1> QED
  BY <1>2, <1>3, <1>4, <1>5, <1>6

\* The worker's types, starts that do not meet, and a stop that is final, in
\* every state.
THEOREM SlInvariance == SlSpec => []SlInv
<1>1. SlInit => SlInv
  BY SlInitHolds
<1>2. SlInv /\ [SlNext]_slVars => SlInv'
  <2> SUFFICES ASSUME SlInv, [SlNext]_slVars PROVE SlInv'
    OBVIOUS
  <2>1. CASE SlNext
    BY <2>1, BootSteps, BotStep, BeginStep, CleanStep, InitializeStep, PollStep, EndSteps, WatchStep, UpdaterStep,
       TimerSteps, ShutdownBegins, StopBotStep, StopTimerStep, ShutdownSteps DEF SlNext, BootStep
  <2>2. CASE UNCHANGED slVars
    BY <2>2 DEF slVars, bot, SlInv, SlTypeOK, WatchdogsTime, TimerIsStopped, StartsAreSerial, StopIsFinal
  <2> QED
    BY <2>1, <2>2
<1> QED
  BY <1>1, <1>2, PTL DEF SlSpec

\* At most one application of the bot polls for updates, unless two starts
\* ran at once.
THEOREM BotsPollAlone == SlSpec => []OnePoller
<1>1. SlInv => OnePoller
  <2> SUFFICES ASSUME SlInv, ~overlapped PROVE Cardinality(polling) <= 1
    BY DEF OnePoller
  <2>1. polling \subseteq {app}
    BY DEF SlInv, StartsAreSerial
  <2>2. IsFiniteSet({app}) /\ Cardinality({app}) = 1
    BY FS_Singleton
  <2> QED
    BY <2>1, <2>2, FS_Subset
<1> QED
  BY <1>1, SlInvariance, PTL

\* Nothing of the worker runs when the shutdown is through, unless it cut a
\* start or a pass of the timer off.
THEOREM StoppedIsQuiet == SlSpec => []QuietAfterShutdown
<1>1. SlInv => QuietAfterShutdown
  BY DEF SlInv, StopIsFinal, TimerIsStopped, QuietAfterShutdown, Stopping, TimerGone
<1> QED
  BY <1>1, SlInvariance, PTL

HIDE ServerLifecycleAssumption
-----------------------------------------------------------------------------
(*****************************************************************************)
(* Dashboard                                                                 *)
(*****************************************************************************)

USE DashboardAssumption

\* A ticket and a connection that are still owed a request: the connection is up,
\* and either the ticket's turn comes later, or the connection's in this pass.
DbOwing(o) ==
    /\ socket[o[2]] = "up" /\ o[2] \notin walk.dead
    /\ \/ o[2] \in Range(conns) /\ \E i \in DOMAIN walk.todo : i > 1 /\ walk.todo[i] = o[1]
       \/ o[1] = Head(walk.todo) /\ \E k \in DOMAIN conns : k >= walk.i /\ conns[k] = o[2]

\* What CloseAllAsks needs in the state before.
DbInv ==
    /\ DbTypeOK /\ \A k \in DOMAIN conns : socket[conns[k]] # "new"
    /\ walk.on => walk.todo # <<>>
    /\ walk.clean => IF walk.on THEN \A o \in walk.owed : DbOwing(o) ELSE walk.owed = {}

\* The records of a walk.
DbWalks == [on : BOOLEAN, todo : Seq(DbTickets), i : Nat \ {0}, dead : SUBSET DbLinks,
             owed : SUBSET (DbTickets \X DbLinks), clean : BOOLEAN]

\* The fields of a walk.
LEMMA DbWalkFields ==
    ASSUME DbTypeOK
    PROVE  /\ walk \in DbWalks /\ walk.on \in BOOLEAN /\ walk.todo \in Seq(DbTickets) /\ walk.i \in Nat \ {0}
           /\ walk.dead \subseteq DbLinks /\ walk.owed \subseteq DbTickets \X DbLinks /\ walk.clean \in BOOLEAN
<1>1. walk \in DbWalks
  BY DEF DbTypeOK, DbWalks
<1> QED
  BY <1>1 DEF DbWalks

\* No walk is one of them.
LEMMA DbNoWalk == NoWalk \in DbWalks
<1>1. <<>> \in Seq(DbTickets) /\ 1 \in Nat \ {0}
  OBVIOUS
<1> QED
  BY <1>1 DEF NoWalk, DbWalks

\* Nobody is connected and nothing is walked in the initial state.
LEMMA DbInitHolds == DbInit => DbInv
<1> SUFFICES ASSUME DbInit PROVE DbInv
  OBVIOUS
<1>1. conns = <<>> /\ closing = <<>> /\ listed = {} /\ walk = NoWalk /\ shown = Menu
  BY DEF DbInit
<1>2. <<>> \in Seq(DbLinks) /\ IsInjective(<<>>)
  BY DEF IsInjective
<1>3. socket \in [DbLinks -> {"new", "up", "cut", "over"}]
  BY DEF DbInit
<1>4. shown \in [what : {"menu", "account", "trading", "kill", "close", "closeall", "disconnect"}, tickets : SUBSET DbTickets]
  BY <1>1 DEF Menu, Page
<1>5. DbTypeOK
  BY <1>1, <1>2, <1>3, <1>4, DbNoWalk DEF DbTypeOK, DbWalks
<1>6. ~walk.on /\ walk.owed = {}
  BY <1>1 DEF NoWalk
<1>7. DOMAIN conns = {}
  BY <1>1
<1> QED
  BY <1>5, <1>6, <1>7 DEF DbInv

\* The list without some of its connections holds the others, each once.
LEMMA WithoutSome ==
    ASSUME DbTypeOK, NEW D, NEW s \in Without(D)
    PROVE  s \in Seq(DbLinks) /\ IsInjective(s) /\ Range(s) = Range(conns) \ D
<1>1. conns \in Seq(DbLinks) /\ IsInjective(conns)
  BY DEF DbTypeOK
<1>2. CASE D \cap Range(conns) = {}
  <2>1. s = conns
    BY <1>2 DEF Without
  <2> QED
    BY <1>1, <1>2, <2>1
<1>3. CASE D \cap Range(conns) # {}
  <2> DEFINE R == Range(conns) \ D
  <2>1. s \in SetToSeqs(R)
    BY <1>3 DEF Without
  <2>2. R \subseteq DbLinks
    <3>1. \A i \in DOMAIN conns : conns[i] \in DbLinks
      BY <1>1, ElementOfSeq, LenProperties
    <3> QED
      BY <3>1 DEF Range
  <2>3. IsFiniteSet(R)
    BY <2>2, FS_Subset
  <2> HIDE DEF R
  <2>4. /\ s \in Seq(R) /\ \A x \in R : \E i \in DOMAIN s : s[i] = x
        /\ \A i, j \in DOMAIN s : s[i] = s[j] => i = j
    BY <2>1, <2>3, ListsOf
  <2>5. s \in Seq(DbLinks)
    BY <2>2, <2>4, WiderSeq
  <2>6. \A i \in DOMAIN s : s[i] \in R
    BY <2>4, ElementOfSeq, LenProperties
  <2>7. Range(s) = R
    BY <2>4, <2>6 DEF Range
  <2> QED
    BY <2>4, <2>5, <2>7 DEF IsInjective, R
<1> QED
  BY <1>2, <1>3

\* What happens around the bot, and what only the chat's page shows of it.
LEMMA AroundStep ==
    ASSUME DbInv, listed' \subseteq DbTickets, UNCHANGED <<socket, conns, walk, closing>>,
           shown' \in [what : {"menu", "account", "trading", "kill", "close", "closeall", "disconnect"},
                       tickets : SUBSET DbTickets]
    PROVE  DbInv'
<1>1. DbTypeOK'
  BY DEF DbInv, DbTypeOK
<1>2. \A o : DbOwing(o)' <=> DbOwing(o)
  BY DEF DbOwing
<1> QED
  BY <1>1, <1>2 DEF DbInv

\* Rows are stored and cleaned up.
LEMMA RowSteps == ASSUME DbInv, NEW t \in DbTickets, Store(t) \/ CleanUpRows(t) PROVE DbInv'
<1>1. listed' \subseteq DbTickets /\ UNCHANGED <<socket, conns, shown, walk, closing>>
  BY DEF Store, CleanUpRows, dbBot, DbInv, DbTypeOK
<1>2. shown' \in [what : {"menu", "account", "trading", "kill", "close", "closeall", "disconnect"},
                   tickets : SUBSET DbTickets]
  BY <1>1 DEF DbInv, DbTypeOK
<1> QED
  BY <1>1, <1>2, AroundStep

\* A page is shown.
LEMMA PageSteps ==
    ASSUME DbInv, \/ ShowAccount \/ ShowTrading \/ ShowKillSwitch \/ ConfirmCloseAll \/ ConfirmDisconnect
                  \/ \E t \in DbTickets : ConfirmClose(t)
    PROVE  DbInv'
<1> DEFINE PageType == [what : {"menu", "account", "trading", "kill", "close", "closeall", "disconnect"},
                        tickets : SUBSET DbTickets]
<1>1. listed \subseteq DbTickets
  BY DEF DbInv, DbTypeOK
<1>2. \E page \in PageType : Show(page)
  BY <1>1 DEF ShowAccount, ShowTrading, ShowKillSwitch, ConfirmCloseAll, ConfirmDisconnect, ConfirmClose, Page, Menu
<1>3. UNCHANGED <<listed, socket, conns, walk, closing>> /\ shown' \in PageType
  BY <1>2 DEF Show
<1> QED
  BY <1>1, <1>3, AroundStep

\* A connection joins at the end of the list.
LEMMA RegisterStep == ASSUME DbInv, NEW c \in DbLinks, Register(c) PROVE DbInv'
<1>1. /\ socket[c] = "new" /\ socket' = [socket EXCEPT ![c] = "up"] /\ conns' = Append(conns, c)
      /\ UNCHANGED <<listed, shown, walk, closing>>
  BY DEF Register, dbBot
<1>2. conns \in Seq(DbLinks) /\ IsInjective(conns) /\ socket \in [DbLinks -> {"new", "up", "cut", "over"}]
  BY DEF DbInv, DbTypeOK
<1> DEFINE n == Len(conns) + 1
<1>3. /\ conns' \in Seq(DbLinks) /\ DOMAIN conns = 1..Len(conns) /\ DOMAIN conns' = 1..n /\ Len(conns) \in Nat
      /\ conns'[n] = c /\ \A k \in 1..Len(conns) : conns'[k] = conns[k] /\ conns[k] \in DbLinks
  BY <1>1, <1>2, AppendProperties, LenProperties, ElementOfSeq
<1>4. \A k \in 1..n : k = n \/ k \in 1..Len(conns)
  BY <1>3
<1> HIDE DEF n
<1>5. \A k \in DOMAIN conns : conns[k] # c
  BY <1>1 DEF DbInv
<1>6. IsInjective(conns)'
  BY <1>2, <1>3, <1>4, <1>5 DEF IsInjective
<1>7. socket' \in [DbLinks -> {"new", "up", "cut", "over"}]
  BY <1>1, <1>2
<1>8. DbTypeOK'
  BY <1>1, <1>3, <1>6, <1>7 DEF DbInv, DbTypeOK
<1>9. \A k \in DOMAIN conns' : socket'[conns'[k]] # "new"
  BY <1>1, <1>2, <1>3, <1>4, <1>5 DEF DbInv
<1>10. DOMAIN conns \subseteq DOMAIN conns' /\ \A k \in DOMAIN conns : conns'[k] = conns[k]
  BY <1>3 DEF n
<1>11. Range(conns) \subseteq Range(conns')
  BY <1>10 DEF Range
<1>12. walk.owed \subseteq DbTickets \X DbLinks
  BY DbWalkFields DEF DbInv
<1>13. ASSUME NEW o \in walk.owed, DbOwing(o) PROVE DbOwing(o)'
  <2>1. o[2] \in DbLinks
    BY <1>12
  <2>2. socket'[o[2]] = "up"
    BY <1>1, <1>2, <1>13, <2>1 DEF DbOwing
  <2> QED
    BY <1>1, <1>10, <1>11, <1>13, <2>2 DEF DbOwing
<1> QED
  BY <1>1, <1>8, <1>9, <1>13 DEF DbInv

\* A connection that goes, in the middle of a walk or not, is owed nothing more.
LEMMA SeverStep ==
    ASSUME DbInv, NEW c \in DbLinks, Sever(c), UNCHANGED <<listed, conns, shown>>, closing' \in Seq(DbLinks)
    PROVE  DbInv'
<1>1. /\ socket[c] = "up" /\ socket' = [socket EXCEPT ![c] = "cut"]
      /\ walk' = [walk EXCEPT !.owed = {o \in walk.owed : o[2] # c}]
  BY DEF Sever
<1>2. walk \in DbWalks /\ walk.owed \subseteq DbTickets \X DbLinks /\ socket \in [DbLinks -> {"new", "up", "cut", "over"}]
  BY DbWalkFields DEF DbInv, DbTypeOK
<1>3. /\ walk' \in DbWalks /\ walk'.owed = {o \in walk.owed : o[2] # c} /\ walk'.on = walk.on
      /\ walk'.todo = walk.todo /\ walk'.i = walk.i /\ walk'.dead = walk.dead /\ walk'.clean = walk.clean
  BY <1>1, <1>2 DEF DbWalks
<1>4. socket' \in [DbLinks -> {"new", "up", "cut", "over"}] /\ \A d \in DbLinks : d # c => socket'[d] = socket[d]
  BY <1>1, <1>2
<1>5. DbTypeOK'
  BY <1>3, <1>4 DEF DbInv, DbTypeOK, DbWalks
<1>6. \A k \in DOMAIN conns : conns[k] \in DbLinks
  BY ElementOfSeq, LenProperties DEF DbInv, DbTypeOK
<1>7. \A k \in DOMAIN conns' : socket'[conns'[k]] # "new"
  <2>1. \A k \in DOMAIN conns : socket'[conns[k]] = "cut" \/ socket'[conns[k]] = socket[conns[k]]
    BY <1>1, <1>2, <1>4, <1>6
  <2> QED
    BY <2>1 DEF DbInv
<1>8. ASSUME NEW o \in walk'.owed, DbOwing(o) PROVE DbOwing(o)'
  <2>1. o[2] \in DbLinks /\ o[2] # c
    BY <1>2, <1>3
  <2> QED
    BY <1>3, <1>4, <1>8, <2>1 DEF DbOwing
<1> QED
  BY <1>3, <1>5, <1>7, <1>8 DEF DbInv

\* A connection leaves the list: the pass under way is not clean any more.
LEMMA DeregisterStep == ASSUME DbInv, NEW c \in DbLinks, Deregister(c) PROVE DbInv'
<1>1. /\ socket[c] = "cut" /\ socket' = [socket EXCEPT ![c] = "over"] /\ conns' \in Without({c})
      /\ walk' = (IF walk.on /\ c \in Range(conns)
                  THEN [walk EXCEPT !.clean = FALSE, !.i = IF conns' = <<>> THEN PastEnd ELSE walk.i]
                  ELSE walk)
      /\ UNCHANGED <<listed, shown, closing>>
  BY DEF Deregister
<1>2. /\ walk \in DbWalks /\ walk.owed \subseteq DbTickets \X DbLinks
      /\ socket \in [DbLinks -> {"new", "up", "cut", "over"}] /\ conns \in Seq(DbLinks)
  BY DbWalkFields DEF DbInv, DbTypeOK
<1>3. conns' \in Seq(DbLinks) /\ IsInjective(conns') /\ Range(conns') = Range(conns) \ {c}
  BY <1>1, WithoutSome DEF DbInv
<1>4. socket' \in [DbLinks -> {"new", "up", "cut", "over"}] /\ \A d \in DbLinks : d # c => socket'[d] = socket[d]
  BY <1>1, <1>2
<1>5. PastEnd \in Nat \ {0}
  BY FS_CardinalityType DEF PastEnd
<1>6. walk' \in DbWalks
  BY <1>1, <1>2, <1>5 DEF DbWalks
<1>7. DbTypeOK'
  BY <1>1, <1>3, <1>4, <1>6 DEF DbInv, DbTypeOK, DbWalks
<1>8. \A k \in DOMAIN conns' : socket'[conns'[k]] # "new"
  <2>1. \A k \in DOMAIN conns' : conns'[k] \in Range(conns) /\ conns'[k] # c
    BY <1>3 DEF Range
  <2>2. \A d \in Range(conns) : d \in DbLinks /\ socket[d] # "new"
    BY <1>2, ElementOfSeq, LenProperties DEF DbInv, Range
  <2> QED
    BY <1>4, <2>1, <2>2
<1>9. CASE walk.on /\ c \in Range(conns)
  <2>1. walk'.clean = FALSE /\ walk'.todo = walk.todo /\ walk'.on = walk.on
    BY <1>1, <1>2, <1>9 DEF DbWalks
  <2> QED
    BY <1>7, <1>8, <2>1 DEF DbInv
<1>10. CASE ~walk.on
  <2>1. walk' = walk
    BY <1>1, <1>10
  <2> QED
    BY <1>7, <1>8, <1>10, <2>1 DEF DbInv
<1>11. CASE c \notin Range(conns)
  <2>1. walk' = walk /\ conns' = conns
    BY <1>1, <1>11 DEF Without
  <2>2. ASSUME NEW o \in walk.owed, DbOwing(o) PROVE DbOwing(o)'
    <3>1. socket'[o[2]] = "up"
      BY <1>1, <1>2, <1>4, <2>2 DEF DbOwing
    <3> QED
      BY <2>1, <2>2, <3>1 DEF DbOwing
  <2> QED
    BY <1>7, <1>8, <2>1, <2>2 DEF DbInv
<1> QED
  BY <1>9, <1>10, <1>11

\* A walk that begins owes each of its tickets to each connection that is up.
LEMMA WalkBegins ==
    ASSUME DbInv, NEW s \in Seq(DbTickets), s # <<>>, walk' = Walk(s), shown' = Menu,
           UNCHANGED <<listed, socket, conns, closing>>
    PROVE  DbInv'
<1> DEFINE up == {c \in Range(conns) : socket[c] = "up"}
<1>1. \A i \in DOMAIN s : s[i] \in DbTickets
  BY ElementOfSeq, LenProperties
<1>2. \A k \in DOMAIN conns : conns[k] \in DbLinks
  BY ElementOfSeq, LenProperties DEF DbInv, DbTypeOK
<1>3. Range(s) \X up \in SUBSET (DbTickets \X DbLinks)
  BY <1>1, <1>2 DEF Range
<1>4. walk' = [on |-> TRUE, todo |-> s, i |-> 1, dead |-> {}, clean |-> TRUE, owed |-> Range(s) \X up]
  BY DEF Walk
<1> HIDE DEF up
<1>5. walk' \in DbWalks
  BY <1>3, <1>4 DEF DbWalks
<1>6. shown' \in [what : {"menu", "account", "trading", "kill", "close", "closeall", "disconnect"}, tickets : SUBSET DbTickets]
  BY DEF Menu, Page
<1>7. DbTypeOK'
  BY <1>5, <1>6 DEF DbInv, DbTypeOK, DbWalks
<1>8. ASSUME NEW o \in walk'.owed PROVE DbOwing(o)'
  <2>1. o[1] \in Range(s) /\ o[2] \in Range(conns) /\ socket[o[2]] = "up"
    BY <1>4 DEF up
  <2>2. PICK i \in DOMAIN s : s[i] = o[1]
    BY <2>1 DEF Range
  <2>3. PICK k \in DOMAIN conns : conns[k] = o[2]
    BY <2>1 DEF Range
  <2>4. DOMAIN s = 1..Len(s) /\ DOMAIN conns = 1..Len(conns) /\ Head(s) = s[1]
    BY TailOf, LenProperties DEF DbInv, DbTypeOK
  <2>5. k >= 1 /\ (i = 1 \/ i > 1)
    BY <2>4
  <2>6. walk'.todo = s /\ walk'.i = 1 /\ walk'.dead = {}
    BY <1>4
  <2> QED
    BY <2>1, <2>2, <2>3, <2>4, <2>5, <2>6 DEF DbOwing
<1> QED
  BY <1>4, <1>7, <1>8 DEF DbInv

\* A confirmed close owes every connection its tickets.
LEMMA DoCloseSteps == ASSUME DbInv, DoCloseAll \/ DoClose PROVE DbInv'
<1>1. listed \subseteq DbTickets /\ shown.tickets \subseteq DbTickets
  BY DEF DbInv, DbTypeOK
<1>2. CASE DoCloseAll
  <2>1. CASE listed = {}
    <3>1. walk' = NoWalk /\ shown' = Menu /\ UNCHANGED <<listed, socket, conns, closing>> /\ walk = NoWalk
      BY <1>2, <2>1 DEF DoCloseAll, AtRest
    <3>2. shown' \in [what : {"menu", "account", "trading", "kill", "close", "closeall", "disconnect"},
                       tickets : SUBSET DbTickets]
      BY <3>1 DEF Menu, Page
    <3> QED
      BY <1>1, <3>1, <3>2, AroundStep
  <2>2. CASE listed # {}
    <3>1. PICK s \in SetToSeqs(listed) : walk' = Walk(s)
      BY <1>2, <2>2 DEF DoCloseAll
    <3>2. IsFiniteSet(listed)
      BY <1>1, FS_Subset
    <3>3. s \in Seq(listed) /\ \A t \in listed : \E i \in DOMAIN s : s[i] = t
      BY <3>1, <3>2, ListsOf
    <3>4. s \in Seq(DbTickets) /\ s # <<>>
      BY <1>1, <2>2, <3>3, WiderSeq
    <3> QED
      BY <1>2, <3>1, <3>4, WalkBegins DEF DoCloseAll
  <2> QED
    BY <2>1, <2>2
<1>3. CASE DoClose
  <2>1. PICK t \in shown.tickets : walk' = Walk(<<t>>)
    BY <1>3 DEF DoClose
  <2>2. <<t>> \in Seq(DbTickets) /\ <<t>> # <<>>
    BY <1>1
  <2> QED
    BY <1>3, <2>1, <2>2, WalkBegins DEF DoClose
<1> QED
  BY <1>2, <1>3

\* A request is sent, or its connection found dead.
LEMMA SendRequestStep == ASSUME DbInv, SendRequest PROVE DbInv'
<1> DEFINE c == conns[walk.i]
<1>1. PICK failed \in BOOLEAN :
        /\ failed => socket[c] # "up"
        /\ walk' = [walk EXCEPT !.i = walk.i + 1, !.dead = IF failed THEN walk.dead \cup {c} ELSE walk.dead,
                                !.owed = walk.owed \ {<<Head(walk.todo), c>>}]
  BY DEF SendRequest, NextIndex
<1>2. walk.on /\ walk.i <= Len(conns) /\ UNCHANGED <<listed, socket, conns, shown, closing>>
  BY DEF SendRequest
<1>3. /\ walk \in DbWalks /\ walk.i \in Nat \ {0} /\ walk.owed \subseteq DbTickets \X DbLinks /\ walk.dead \subseteq DbLinks
  BY DbWalkFields DEF DbInv
<1>4. c \in DbLinks /\ walk.i \in DOMAIN conns /\ \A k \in DOMAIN conns : k \in Int
  <2>1. conns \in Seq(DbLinks) /\ Len(conns) \in Nat /\ DOMAIN conns = 1..Len(conns)
    BY LenProperties DEF DbInv, DbTypeOK
  <2>2. walk.i \in 1..Len(conns)
    BY <1>2, <1>3, <2>1
  <2> QED
    BY <2>1, <2>2, ElementOfSeq
<1> HIDE DEF c
<1>5. /\ walk' \in DbWalks /\ walk'.i = walk.i + 1 /\ walk'.dead = (IF failed THEN walk.dead \cup {c} ELSE walk.dead)
      /\ walk'.owed = walk.owed \ {<<Head(walk.todo), c>>}
      /\ walk'.on = walk.on /\ walk'.todo = walk.todo /\ walk'.clean = walk.clean
  <2>1. walk.i + 1 \in Nat \ {0} /\ walk.owed \ {<<Head(walk.todo), c>>} \in SUBSET (DbTickets \X DbLinks)
        /\ (IF failed THEN walk.dead \cup {c} ELSE walk.dead) \in SUBSET DbLinks
    BY <1>3, <1>4
  <2> QED
    BY <1>1, <1>3, <2>1 DEF DbWalks
<1>6. DbTypeOK'
  BY <1>2, <1>5 DEF DbInv, DbTypeOK, DbWalks
<1>7. ASSUME NEW o \in walk'.owed, DbOwing(o) PROVE DbOwing(o)'
  <2>1. o # <<Head(walk.todo), c>> /\ o \in DbTickets \X DbLinks
    BY <1>3, <1>5
  <2>2. o[2] \notin walk'.dead /\ socket'[o[2]] = "up"
    BY <1>1, <1>2, <1>5, <1>7 DEF DbOwing
  <2>3. CASE o[2] \in Range(conns) /\ \E i \in DOMAIN walk.todo : i > 1 /\ walk.todo[i] = o[1]
    BY <1>2, <1>5, <2>2, <2>3 DEF DbOwing
  <2>4. CASE o[1] = Head(walk.todo) /\ \E k \in DOMAIN conns : k >= walk.i /\ conns[k] = o[2]
    <3>1. PICK k \in DOMAIN conns : k >= walk.i /\ conns[k] = o[2]
      BY <2>4
    <3>2. o[2] # c
      BY <2>1, <2>4
    <3>3. k # walk.i
      BY <3>1, <3>2 DEF c
    <3>4. k >= walk.i + 1
      BY <1>3, <1>4, <3>1, <3>3
    <3> QED
      BY <1>2, <1>5, <2>2, <2>4, <3>1, <3>4 DEF DbOwing
  <2> QED
    BY <1>7, <2>3, <2>4 DEF DbOwing
<1> QED
  BY <1>2, <1>5, <1>6, <1>7 DEF DbInv

\* A pass ends and the next ticket has its turn.
LEMMA EndPassStep == ASSUME DbInv, EndPass PROVE DbInv'
<1>1. /\ walk.on /\ walk.i > Len(conns) /\ conns' \in Without(walk.dead) /\ UNCHANGED <<listed, socket, shown, closing>>
      /\ walk' = [walk EXCEPT !.on = Len(walk.todo) > 1, !.todo = Tail(walk.todo), !.i = 1, !.dead = {}]
  BY DEF EndPass
<1>2. walk \in DbWalks /\ walk.todo \in Seq(DbTickets) /\ walk.todo # <<>> /\ walk.i \in Nat
  BY <1>1, DbWalkFields DEF DbInv
<1>3. conns' \in Seq(DbLinks) /\ IsInjective(conns') /\ Range(conns') = Range(conns) \ walk.dead
  BY <1>1, WithoutSome DEF DbInv
<1> DEFINE s == walk.todo
<1>4. s \in Seq(DbTickets) /\ s # <<>>
  BY <1>2
<1> HIDE DEF s
<1>5. /\ Tail(s) \in Seq(DbTickets) /\ DOMAIN s = 1..Len(s) /\ DOMAIN Tail(s) = 1..Len(Tail(s))
      /\ \A i \in DOMAIN s : i = 1 \/ (i - 1 \in DOMAIN Tail(s) /\ Tail(s)[i - 1] = s[i])
      /\ \A i \in DOMAIN s : i \in Nat
  BY <1>4, TailOf
<1>6. Len(s) \in Nat /\ Len(Tail(s)) = Len(s) - 1
  BY <1>4, LenProperties, HeadTailProperties
<1>7. /\ walk' \in DbWalks /\ walk'.on = (Len(s) > 1) /\ walk'.todo = Tail(s) /\ walk'.i = 1 /\ walk'.dead = {}
      /\ walk'.owed = walk.owed /\ walk'.clean = walk.clean
  <2>1. (Len(s) > 1) \in BOOLEAN /\ 1 \in Nat \ {0} /\ {} \in SUBSET DbLinks
    OBVIOUS
  <2> QED
    BY <1>1, <1>2, <1>5, <2>1 DEF DbWalks, s
<1>8. DbTypeOK'
  BY <1>1, <1>3, <1>7 DEF DbInv, DbTypeOK, DbWalks
<1>9. \A k \in DOMAIN conns' : socket'[conns'[k]] # "new"
  BY ZenonT(60), <1>1, <1>3 DEF DbInv, Range
<1>10. walk'.on => walk'.todo # <<>>
  <2>1. walk'.on => Len(s) > 1
    BY <1>7
  <2>2. Len(s) > 1 => 2 \in DOMAIN s /\ DOMAIN Tail(s) # {}
    <3>1. Len(s) > 1 => 2 \in DOMAIN s
      BY <1>5, <1>6
    <3> QED
      BY <1>5, <3>1
  <2>3. DOMAIN <<>> = {}
    OBVIOUS
  <2> QED
    BY <1>7, <2>1, <2>2, <2>3
<1>11. DOMAIN conns = 1..Len(conns) /\ DOMAIN conns' = 1..Len(conns')
  BY <1>3, LenProperties DEF DbInv, DbTypeOK
<1>12. ASSUME NEW o \in walk.owed, DbOwing(o)
       PROVE  /\ socket[o[2]] = "up" /\ o[2] \in Range(conns')
              /\ \E i \in DOMAIN Tail(s) : Tail(s)[i] = o[1]
  <2>1. ~\E k \in DOMAIN conns : k >= walk.i
    <3>1. \A k \in DOMAIN conns : k <= Len(conns) /\ k \in Int /\ Len(conns) \in Int
      BY <1>11
    <3> QED
      BY <1>1, <1>2, <3>1
  <2>2. o[2] \in Range(conns) /\ \E i \in DOMAIN s : i > 1 /\ s[i] = o[1]
    BY <1>12, <2>1 DEF DbOwing, s
  <2>3. socket[o[2]] = "up" /\ o[2] \in Range(conns')
    BY <1>3, <1>12, <2>2 DEF DbOwing
  <2>4. PICK i \in DOMAIN s : i > 1 /\ s[i] = o[1]
    BY <2>2
  <2>5. i - 1 \in DOMAIN Tail(s) /\ Tail(s)[i - 1] = o[1]
    BY <1>5, <2>4
  <2> QED
    BY <2>3, <2>5
<1>13. ASSUME walk'.clean, walk'.on, NEW o \in walk'.owed PROVE DbOwing(o)'
  <2>1. DbOwing(o)
    BY <1>1, <1>7, <1>13 DEF DbInv
  <2>2. /\ socket[o[2]] = "up" /\ o[2] \in Range(conns') /\ \E i \in DOMAIN Tail(s) : Tail(s)[i] = o[1]
    BY <1>7, <1>12, <2>1
  <2>3. PICK i \in DOMAIN Tail(s) : Tail(s)[i] = o[1]
    BY <2>2
  <2>4. PICK k \in DOMAIN conns' : conns'[k] = o[2]
    BY <2>2 DEF Range
  <2>5. Head(Tail(s)) = Tail(s)[1] /\ (i = 1 \/ i > 1) /\ k >= 1
    BY <1>5, <1>11
  <2> QED
    BY <1>1, <1>7, <2>2, <2>3, <2>4, <2>5 DEF DbOwing
<1>14. ASSUME walk'.clean, ~walk'.on PROVE walk'.owed = {}
  <2>1. DOMAIN Tail(s) = {}
    <3>1. ~(Len(s) > 1)
      BY <1>7, <1>14
    <3>2. Len(Tail(s)) <= 0
      BY <1>6, <3>1
    <3> QED
      BY <1>5, <1>6, <3>2
  <2>2. \A o \in walk.owed : DbOwing(o)
    BY <1>1, <1>7, <1>14 DEF DbInv
  <2> QED
    BY <1>7, <1>12, <2>1, <2>2
<1> QED
  BY <1>8, <1>9, <1>10, <1>13, <1>14 DEF DbInv

\* The result is shown, or connections are closed.
LEMMA LastSteps == ASSUME DbInv, ShowResult \/ DoDisconnect \/ CloseNext PROVE DbInv'
<1>1. CASE ShowResult
  <2>1. walk' = NoWalk /\ UNCHANGED <<listed, socket, conns, shown, closing>>
    BY <1>1 DEF ShowResult
  <2>2. DbTypeOK'
    BY <2>1, DbNoWalk DEF DbInv, DbTypeOK, DbWalks
  <2>3. ~walk'.on /\ walk'.owed = {}
    BY <2>1 DEF NoWalk
  <2> QED
    BY <2>1, <2>2, <2>3 DEF DbInv
<1>2. CASE DoDisconnect
  <2>1. shown' = Menu /\ closing' = conns /\ UNCHANGED <<listed, socket, conns, walk>>
    BY <1>2 DEF DoDisconnect
  <2>2. shown' \in [what : {"menu", "account", "trading", "kill", "close", "closeall", "disconnect"},
                     tickets : SUBSET DbTickets]
    BY <2>1 DEF Menu, Page
  <2>3. DbTypeOK'
    BY <2>1, <2>2 DEF DbInv, DbTypeOK
  <2>4. \A o : DbOwing(o)' <=> DbOwing(o)
    BY <2>1 DEF DbOwing
  <2> QED
    BY <2>1, <2>3, <2>4 DEF DbInv
<1>3. CASE CloseNext
  <2>1. closing \in Seq(DbLinks) /\ closing # <<>> /\ closing' = Tail(closing) /\ UNCHANGED <<listed, conns, shown>>
    BY <1>3 DEF CloseNext, DbInv, DbTypeOK
  <2>2. Head(closing) \in DbLinks /\ closing' \in Seq(DbLinks)
    BY <2>1, TailOf
  <2>3. CASE socket[Head(closing)] = "up"
    BY <1>3, <2>1, <2>2, <2>3, SeverStep DEF CloseNext
  <2>4. CASE socket[Head(closing)] # "up"
    <3>1. UNCHANGED <<listed, socket, conns, shown, walk>>
      BY <1>3, <2>1, <2>4 DEF CloseNext
    <3>2. DbTypeOK'
      BY <2>2, <3>1 DEF DbInv, DbTypeOK
    <3>3. \A o : DbOwing(o)' <=> DbOwing(o)
      BY <3>1 DEF DbOwing
    <3> QED
      BY <3>1, <3>2, <3>3 DEF DbInv
  <2> QED
    BY <2>3, <2>4
<1> QED
  BY <1>1, <1>2, <1>3

\* The dashboard's types, and what a walk still owes, in every state.
THEOREM DbInvariance == DbSpec => []DbInv
<1>1. DbInv /\ [DbNext]_dbVars => DbInv'
  <2> SUFFICES ASSUME DbInv, [DbNext]_dbVars PROVE DbInv'
    OBVIOUS
  <2>1. CASE UNCHANGED dbVars
    <3>1. UNCHANGED <<listed, socket, conns, shown, walk, closing>>
      BY <2>1 DEF dbVars, dbBot
    <3>2. DbTypeOK'
      BY <3>1 DEF DbInv, DbTypeOK
    <3>3. \A o : DbOwing(o)' <=> DbOwing(o)
      BY <3>1 DEF DbOwing
    <3> QED
      BY <3>1, <3>2, <3>3 DEF DbInv
  <2>2. ASSUME NEW c \in DbLinks, Lose(c) PROVE DbInv'
    <3>1. closing' \in Seq(DbLinks) /\ Sever(c) /\ UNCHANGED <<listed, conns, shown>>
      BY <2>2 DEF Lose, DbInv, DbTypeOK
    <3> QED
      BY <3>1, SeverStep
  <2> QED
    BY <2>1, <2>2, RowSteps, PageSteps, RegisterStep, DeregisterStep, DoCloseSteps, SendRequestStep, EndPassStep,
       LastSteps DEF DbNext
<1> QED
  BY <1>1, DbInitHolds, PTL DEF DbSpec

\* When the bot is through, every ticket it listed was sent to every connection
\* that was there all the time, unless one was removed in the middle of a pass.
THEOREM EveryoneAsked == DbSpec => []CloseAllAsks
<1>1. DbInv => CloseAllAsks
  BY DEF DbInv, CloseAllAsks
<1> QED
  BY <1>1, DbInvariance, PTL

HIDE DashboardAssumption
-----------------------------------------------------------------------------
(*****************************************************************************)
(* TradeReports                                                              *)
(*****************************************************************************)

USE TradeReportsAssumption

\* A worker past the insert handles a trade, and sums only one that went through.
ReportOfTrade ==
    \A w \in RpWorkers :
        /\ handling[w].step # "idle" => handling[w].trade \in Trades
        /\ handling[w].step \in {"perform", "upsert"} => handling[w].trade \notin Failing

\* A successful trade the performance row misses is in the hands of a worker
\* that sums after the trade was inserted, or has summed it and has to write.
MissingAwaitsSum ==
    unsummed \/ overtaken \/
    \A t \in Successes \ perf : \E w \in RpWorkers :
        \/ handling[w].step \in {"log", "perform"} /\ handling[w].trade = t
        \/ handling[w].step = "upsert" /\ t \in tally[w]

RpInv == RpTypeOK /\ ReportOfTrade /\ MissingAwaitsSum

-----------------------------------------------------------------------------
\* The reports are in their types and of trades in the initial state.
LEMMA RpInitHolds == RpInit => RpInv
<1> SUFFICES ASSUME RpInit PROVE RpInv
  OBVIOUS
<1>1. logged = {} /\ perf = {} /\ Successes = {}
  BY DEF RpInit, Successes
<1>2. RpTypeOK
  <2>1. /\ went \in [Trades -> {"new", "queued", "reporting", "executed", "acked"}]
        /\ signalLog \in [Trades -> [status : {"pending", "delivered", "executed", "failed"},
                                     acknowledged : BOOLEAN]]
        /\ handling \in [RpWorkers -> [trade : Trades \cup {NoTrade},
                                       step : {"idle", "insert", "log", "perform", "upsert"}]]
    BY DEF RpInit, NoReport
  <2>2. tally \in [RpWorkers -> SUBSET Successes]
    BY <1>1 DEF RpInit
  <2>3. restarts \in 0..RpRestarts
    BY DEF RpInit
  <2> QED
    BY <1>1, <2>1, <2>2, <2>3 DEF RpInit, RpTypeOK
<1>3. \A w \in RpWorkers : handling[w].step = "idle"
  BY DEF RpInit, NoReport
<1> QED
  BY <1>1, <1>2, <1>3 DEF RpInv, ReportOfTrade, MissingAwaitsSum

\* What one step of a worker's handler leaves of it.
LEMMA GoToFacts ==
    ASSUME RpTypeOK, NEW w \in RpWorkers, NEW s, GoTo(w, s)
    PROVE  /\ \A v \in RpWorkers : v # w => handling'[v] = handling[v]
           /\ handling'[w] = IF s = "idle" THEN NoReport ELSE [trade |-> handling[w].trade, step |-> s]
  BY DEF GoTo, RpTypeOK

\* A worker's handler goes on to one of its steps.
LEMMA GoToTyped ==
    ASSUME RpTypeOK, NEW w \in RpWorkers, NEW s \in {"idle", "insert", "log", "perform", "upsert"}, GoTo(w, s)
    PROVE  handling' \in [RpWorkers -> [trade : Trades \cup {NoTrade},
                                        step : {"idle", "insert", "log", "perform", "upsert"}]]
  BY DEF GoTo, RpTypeOK, NoReport

-----------------------------------------------------------------------------
(* The steps.                                                              *)

\* The EA's side of a report.
LEMMA EaSteps ==
    ASSUME RpInv, NEW t \in Trades, Acknowledge(t) \/ GoOn(t) \/ ReportLost(t)
    PROVE  RpInv'
<1>1. UNCHANGED <<rpDb, handling, logged, perf, tally, restarts, reported, overtaken, unsummed>>
  BY DEF Acknowledge, GoOn, ReportLost, rpTables, rpHistory
<1>2. went' \in [Trades -> {"new", "queued", "reporting", "executed", "acked"}]
  BY DEF RpInv, RpTypeOK, Acknowledge, GoOn, ReportLost
<1>3. signalLog' \in [Trades -> [status : {"pending", "delivered", "executed", "failed"},
                                 acknowledged : BOOLEAN]]
  <2>1. CASE Acknowledge(t)
    <3>1. signalLog' = [signalLog EXCEPT ![t] = Acknowledged(signalLog[t])]
      BY <2>1 DEF Acknowledge
    <3>2. Acknowledged(signalLog[t]) \in [status : {"pending", "delivered", "executed", "failed"},
                                          acknowledged : BOOLEAN]
      BY DEF RpInv, RpTypeOK, Acknowledged
    <3> QED
      BY <3>1, <3>2 DEF RpInv, RpTypeOK
  <2>2. CASE GoOn(t) \/ ReportLost(t)
    BY <2>2 DEF RpInv, RpTypeOK, GoOn, ReportLost, rpTables
  <2> QED
    BY <2>1, <2>2
<1>4. RpTypeOK'
  BY <1>1, <1>2, <1>3 DEF RpInv, RpTypeOK, Successes
<1> QED
  BY <1>1, <1>4 DEF RpInv, ReportOfTrade, MissingAwaitsSum, Successes

\* A worker takes a report.
LEMMA ReportStep ==
    ASSUME RpInv, NEW w \in RpWorkers, NEW t \in Trades, Report(w, t)
    PROVE  RpInv'
<1>1. UNCHANGED <<logged, perf, tally, overtaken, unsummed>>
  BY DEF Report, rpTables, rpHistory
<1>2. /\ \A v \in RpWorkers : v # w => handling'[v] = handling[v]
      /\ handling'[w] = [trade |-> t, step |-> "insert"] /\ handling[w].step = "idle"
  BY DEF Report, RpInv, RpTypeOK, NoReport
<1>3. RpTypeOK'
  BY DEF RpInv, RpTypeOK, Report, Successes, rpTables, rpHistory
<1>4. ReportOfTrade'
  BY <1>2 DEF RpInv, ReportOfTrade
<1>5. MissingAwaitsSum'
  BY <1>1, <1>2 DEF RpInv, MissingAwaitsSum, Successes
<1> QED
  BY <1>3, <1>4, <1>5 DEF RpInv

\* It inserts the trade,
LEMMA InsertStep ==
    ASSUME RpInv, NEW w \in RpWorkers, InsertTrade(w)
    PROVE  RpInv'
<1>1. UNCHANGED <<rpDb, went, perf, signalLog, tally, restarts, reported, overtaken, unsummed>>
  BY DEF InsertTrade, rpHistory
<1>2. CASE logged' = logged \cup {handling[w].trade} /\ GoTo(w, "log")
  <2>1. handling[w].trade \in Trades
    BY DEF InsertTrade, RpInv, ReportOfTrade
  <2>2. RpTypeOK'
    BY <1>1, <1>2, <2>1, GoToTyped DEF RpInv, RpTypeOK, Successes
  <2>3. /\ \A v \in RpWorkers : v # w => handling'[v] = handling[v]
        /\ handling'[w] = [trade |-> handling[w].trade, step |-> "log"]
    BY <1>2, GoToFacts DEF RpInv
  <2>4. ReportOfTrade'
    BY <2>1, <2>3 DEF RpInv, ReportOfTrade
  <2>5. MissingAwaitsSum'
    BY <1>1, <1>2, <2>3 DEF RpInv, MissingAwaitsSum, Successes, InsertTrade
  <2> QED
    BY <2>2, <2>4, <2>5 DEF RpInv
<1>3. CASE logged' = logged /\ GoTo(w, "idle")
  <2>1. RpTypeOK'
    BY <1>1, <1>3, GoToTyped DEF RpInv, RpTypeOK, Successes
  <2>2. /\ \A v \in RpWorkers : v # w => handling'[v] = handling[v]
        /\ handling'[w] = NoReport
    BY <1>3, GoToFacts DEF RpInv
  <2>3. ReportOfTrade'
    BY <2>2 DEF RpInv, ReportOfTrade, NoReport
  <2>4. MissingAwaitsSum'
    BY <1>1, <1>3, <2>2 DEF RpInv, MissingAwaitsSum, Successes, InsertTrade
  <2> QED
    BY <2>1, <2>3, <2>4 DEF RpInv
<1> QED
  BY <1>2, <1>3 DEF InsertTrade

\* writes the signal's outcome,
LEMMA LogStep ==
    ASSUME RpInv, NEW w \in RpWorkers, LogOutcome(w)
    PROVE  RpInv'
<1> DEFINE t == handling[w].trade
           next == IF t \in Failing THEN "idle" ELSE "perform"
<1>1. t \in Trades /\ handling[w].step = "log"
  BY DEF LogOutcome, RpInv, ReportOfTrade
<1>2. UNCHANGED <<rpDb, went, logged, perf, tally, restarts, overtaken, unsummed>> /\ GoTo(w, next)
  BY DEF LogOutcome
<1>3. signalLog' \in [Trades -> [status : {"pending", "delivered", "executed", "failed"},
                                 acknowledged : BOOLEAN]]
      /\ reported' \subseteq Trades
  BY <1>1 DEF LogOutcome, RpInv, RpTypeOK
<1>4. RpTypeOK'
  BY <1>2, <1>3, GoToTyped DEF RpInv, RpTypeOK, Successes
<1>5. /\ \A v \in RpWorkers : v # w => handling'[v] = handling[v]
      /\ handling'[w] = IF t \in Failing THEN NoReport ELSE [trade |-> t, step |-> "perform"]
  BY <1>2, GoToFacts DEF RpInv
<1>6. ReportOfTrade'
  BY <1>1, <1>5 DEF RpInv, ReportOfTrade, NoReport
<1>7. MissingAwaitsSum'
  BY <1>1, <1>2, <1>5 DEF RpInv, MissingAwaitsSum, Successes
<1> QED
  BY <1>4, <1>6, <1>7 DEF RpInv

\* sums the trades it sees,
LEMMA PerformStep ==
    ASSUME RpInv, NEW w \in RpWorkers, Perform(w)
    PROVE  RpInv'
<1>1. UNCHANGED <<rpDb, went, logged, signalLog, restarts, reported, overtaken, unsummed>>
      /\ handling[w].step = "perform"
  BY DEF Perform, rpHistory
<1>2. CASE rpDb = "sqlite"
  <2>1. perf' = Successes /\ tally' = tally /\ GoTo(w, "idle")
    BY <1>2 DEF Perform, Summed
  <2>2. RpTypeOK'
    BY <1>1, <2>1, GoToTyped DEF RpInv, RpTypeOK, Successes
  <2>3. /\ \A v \in RpWorkers : v # w => handling'[v] = handling[v]
        /\ handling'[w] = NoReport
    BY <2>1, GoToFacts DEF RpInv
  <2>4. ReportOfTrade' /\ MissingAwaitsSum'
    BY <1>1, <2>1, <2>3 DEF RpInv, ReportOfTrade, MissingAwaitsSum, Successes, NoReport
  <2> QED
    BY <2>2, <2>4 DEF RpInv
<1>3. CASE rpDb # "sqlite"
  <2>1. perf' = perf /\ tally' = [tally EXCEPT ![w] = Successes] /\ GoTo(w, "upsert")
    BY <1>3 DEF Perform, Summed
  <2>2. RpTypeOK'
    BY <1>1, <2>1, GoToTyped DEF RpInv, RpTypeOK, Successes
  <2>3. /\ \A v \in RpWorkers : v # w => handling'[v] = handling[v]
        /\ handling'[w] = [trade |-> handling[w].trade, step |-> "upsert"]
    BY <2>1, GoToFacts DEF RpInv
  <2>4. ReportOfTrade'
    BY <1>1, <2>3 DEF RpInv, ReportOfTrade
  <2>5. tally'[w] = Successes
    BY <2>1 DEF RpInv, RpTypeOK
  <2>6. MissingAwaitsSum'
    BY <1>1, <2>1, <2>3, <2>5 DEF MissingAwaitsSum, Successes
  <2> QED
    BY <2>2, <2>4, <2>6 DEF RpInv
<1> QED
  BY <1>2, <1>3

\* and writes the sum.
LEMMA UpsertStep ==
    ASSUME RpInv, NEW w \in RpWorkers, Upsert(w)
    PROVE  RpInv'
<1>1. /\ UNCHANGED <<rpDb, went, logged, signalLog, restarts, reported, unsummed>>
      /\ perf' = tally[w] /\ tally' = [tally EXCEPT ![w] = {}]
      /\ overtaken' = (overtaken \/ ~(perf \subseteq tally[w]))
      /\ GoTo(w, "idle") /\ handling[w].step = "upsert"
  BY DEF Upsert
<1>2. RpTypeOK'
  BY <1>1, GoToTyped DEF RpInv, RpTypeOK, Successes
<1>3. /\ \A v \in RpWorkers : v # w => handling'[v] = handling[v] /\ tally'[v] = tally[v]
      /\ handling'[w] = NoReport
  BY ZenonT(60), <1>1, GoToFacts DEF RpInv, RpTypeOK
<1>4. ReportOfTrade'
  BY <1>3 DEF RpInv, ReportOfTrade, NoReport
<1>5. ASSUME ~unsummed, ~overtaken, perf \subseteq tally[w], NEW t \in Successes \ tally[w]
      PROVE  \E v \in RpWorkers :
                 \/ handling'[v].step \in {"log", "perform"} /\ handling'[v].trade = t
                 \/ handling'[v].step = "upsert" /\ t \in tally'[v]
  <2>1. PICK v \in RpWorkers :
            \/ handling[v].step \in {"log", "perform"} /\ handling[v].trade = t
            \/ handling[v].step = "upsert" /\ t \in tally[v]
    BY <1>5 DEF RpInv, MissingAwaitsSum
  <2>2. v # w
    BY <1>1, <1>5, <2>1
  <2> QED
    BY <1>3, <2>1, <2>2
<1>6. MissingAwaitsSum'
  BY <1>1, <1>5 DEF RpInv, RpTypeOK, MissingAwaitsSum, Successes
<1> QED
  BY <1>2, <1>4, <1>6 DEF RpInv

\* A worker whose sum fails, or which dies past the insert, leaves the trade
\* unsummed; one that dies before has inserted nothing.
LEMMA FailureSteps ==
    ASSUME RpInv, NEW w \in RpWorkers, PerformFails(w) \/ RestartWorker(w)
    PROVE  RpInv'
<1>1. /\ UNCHANGED <<rpDb, went, logged, perf, signalLog, reported, overtaken>>
      /\ restarts' \in 0..RpRestarts /\ tally' = [tally EXCEPT ![w] = {}]
      /\ handling' = [handling EXCEPT ![w] = NoReport]
      /\ unsummed' = (unsummed \/ handling[w].step \in {"log", "perform", "upsert"})
  <2>1. CASE PerformFails(w)
    BY <2>1 DEF RpInv, RpTypeOK, PerformFails, GoTo, rpTables
  <2>2. CASE RestartWorker(w)
    BY <2>2 DEF RpInv, RpTypeOK, RestartWorker, rpTables
  <2> QED
    BY <2>1, <2>2
<1>2. /\ \A v \in RpWorkers : v # w => handling'[v] = handling[v] /\ tally'[v] = tally[v]
      /\ handling'[w] = NoReport
  BY <1>1 DEF RpInv, RpTypeOK
<1>3. RpTypeOK'
  BY <1>1 DEF RpInv, RpTypeOK, Successes, NoReport
<1>4. ReportOfTrade'
  BY <1>2 DEF RpInv, ReportOfTrade, NoReport
<1>5. ASSUME ~unsummed', ~overtaken, NEW t \in Successes \ perf
      PROVE  \E v \in RpWorkers :
                 \/ handling'[v].step \in {"log", "perform"} /\ handling'[v].trade = t
                 \/ handling'[v].step = "upsert" /\ t \in tally'[v]
  <2>1. ~unsummed /\ handling[w].step \notin {"log", "perform", "upsert"}
    BY <1>1, <1>5 DEF RpInv, RpTypeOK
  <2>2. PICK v \in RpWorkers :
            \/ handling[v].step \in {"log", "perform"} /\ handling[v].trade = t
            \/ handling[v].step = "upsert" /\ t \in tally[v]
    BY <1>5, <2>1 DEF RpInv, MissingAwaitsSum
  <2>3. v # w
    BY <2>1, <2>2
  <2> QED
    BY <1>2, <2>2, <2>3
<1>6. MissingAwaitsSum'
  BY <1>1, <1>5 DEF MissingAwaitsSum, Successes
<1> QED
  BY <1>3, <1>4, <1>6 DEF RpInv

\* Every step of the specification keeps the invariant.
LEMMA RpNextHolds == RpInv /\ [RpNext]_rpVars => RpInv'
<1> SUFFICES ASSUME RpInv, [RpNext]_rpVars PROVE RpInv'
  OBVIOUS
<1>1. CASE UNCHANGED rpVars
  BY <1>1 DEF RpInv, RpTypeOK, ReportOfTrade, MissingAwaitsSum, Successes, rpVars, rpTables, rpHistory
<1>2. CASE RpNext
  BY <1>2, EaSteps, ReportStep, InsertStep, LogStep, PerformStep, UpsertStep, FailureSteps DEF RpNext
<1> QED
  BY <1>1, <1>2

-----------------------------------------------------------------------------
\* The variables keep their types, whatever workers, trades and restarts there
\* are (routes/trade_analytics.py).
THEOREM ReportsTyped == RpSpec => []RpTypeOK
<1>1. RpInv => RpTypeOK
  BY DEF RpInv
<1> QED
  BY RpInitHolds, RpNextHolds, <1>1, PTL DEF RpSpec

\* Once no worker is between a trade's row and the sum, the performance row
\* sums every successful trade, but for the failures and the overtaken upsert
\* PerformanceAdds excepts (_update_symbol_performance).
THEOREM SumsAddUp == RpSpec => []PerformanceAdds
<1>1. RpInv => PerformanceAdds
  BY DEF RpInv, RpTypeOK, MissingAwaitsSum, PerformanceAdds, Successes
<1> QED
  BY RpInitHolds, RpNextHolds, <1>1, PTL DEF RpSpec

HIDE TradeReportsAssumption
-----------------------------------------------------------------------------
(*****************************************************************************)
(* The parts side by side                                                    *)
(*****************************************************************************)

\* Every variable, of which each part has its own.
opsVars == <<part, rlVars, hcVars, faVars, ppVars, trVars, slVars, vars, dbVars, rpVars>>

\* The parts begin as they do alone.
LEMMA PartsBegin ==
    MCInit => RlInit /\ HcInit /\ FaInit /\ PpInit /\ TrInit /\ SlInit /\ DbInit /\ RpInit
  BY DEF MCInit

\* A step of the whole is one of a part or leaves it as it was.
LEMMA PartsStep ==
    ASSUME [MCNext]_opsVars
    PROVE  /\ [RlNext]_rlVars
           /\ [HcNext]_hcVars
           /\ [FaNext]_faVars
           /\ [PpNext]_ppVars
           /\ [TrNext]_trVars
           /\ [SlNext]_slVars
           /\ [DbNext]_dbVars
           /\ [RpNext]_rpVars
<1>1. [RlNext]_rlVars
  BY DEF MCNext, opsVars
<1>2. [HcNext]_hcVars
  BY DEF MCNext, opsVars
<1>3. [FaNext]_faVars
  BY DEF MCNext, opsVars
<1>4. [PpNext]_ppVars
  BY DEF MCNext, opsVars
<1>5. [TrNext]_trVars
  BY DEF MCNext, opsVars
<1>6. [SlNext]_slVars
  BY DEF MCNext, opsVars
<1>7. [DbNext]_dbVars
  BY DEF MCNext, opsVars
<1>8. [RpNext]_rpVars
  BY DEF MCNext, opsVars
<1> QED
  BY <1>1, <1>2, <1>3, <1>4, <1>5, <1>6, <1>7, <1>8

\* Each part keeps its types whatever the others do: MCSpec behaves, for each of
\* them, as its own specification.
THEOREM OperationsTyped == MCSpec => []OperationsTypes
<1>1. MCInit /\ [][MCNext]_opsVars =>
        /\ RlSpec
        /\ HcSpec
        /\ FaSpec
        /\ PpSpec
        /\ TrSpec
        /\ SlSpec
        /\ DbSpec
        /\ RpSpec
  BY PartsBegin, PartsStep, PTL DEF RlSpec, HcSpec, FaSpec, PpSpec, TrSpec, SlSpec, DbSpec, RpSpec
<1>2. RlInv /\ HcInv /\ FaInv /\ PpInv /\ TrInv /\ SlInv /\ DbInv /\ RpTypeOK => OperationsTypes
  BY DEF RlInv, HcInv, FaInv, PpInv, TrInv, SlInv, DbInv, OperationsTypes
<1>3. MCSpec => MCInit /\ [][MCNext]_opsVars
  BY PTL DEF MCSpec, opsVars
<1> QED
  BY <1>1, <1>2, <1>3, RlInvariance, HcInvariance, FaInvariance, PpInvariance, TrInvariance,
     SlInvariance, DbInvariance, ReportsTyped, PTL
=============================================================================
