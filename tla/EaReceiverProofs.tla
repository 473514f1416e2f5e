-------------------------- MODULE EaReceiverProofs --------------------------
(***************************************************************************)
(* EaReceiver's type invariant, LockExcludes and OrdersExplained, for any  *)
(* number of signals, instances, copies and restarts and for limits of any *)
(* size.                                                                   *)
(*                                                                         *)
(* Structure ties a running command to the message or the queued item it   *)
(* came from; OneRight says that at most one command or queued item may    *)
(* still order a signal; Explained that a command under way was not on     *)
(* record, and that every order of a lone instance since its last start is *)
(* on record, about to be, or forgotten.  Structure with either of them is *)
(* inductive.                                                              *)
(***************************************************************************)
EXTENDS EaReceiver, SequenceTheorems, TLAPS

USE NothingAssumption, LimitAssumption

-----------------------------------------------------------------------------
(* The helpers on sequences.                                               *)

\* The first n elements of p are the last n of q.
Shifted(p, n, q) == \E k \in Nat : n + k = Len(q) /\ \A j \in 1 .. n : p[j] = q[j + k]

\* The newest n elements, in their order, counted from the end.
LEMMA NewestFacts ==
    ASSUME NEW S, NEW q \in Seq(S), NEW n \in Nat
    PROVE  /\ Newest(q, n) \in Seq(S)
           /\ Len(Newest(q, n)) = IF Len(q) > n THEN n ELSE Len(q)
           /\ \E k \in Nat : /\ Len(Newest(q, n)) + k = Len(q)
                             /\ \A j \in 1 .. Len(Newest(q, n)) : Newest(q, n)[j] = q[j + k]
<1> DEFINE m == IF Len(q) > n THEN Len(q) - n + 1 ELSE 1
<1>1. Len(q) \in Nat /\ m \in 1 .. (Len(q) + 1) /\ Newest(q, n) = SubSeq(q, m, Len(q))
  BY LenProperties DEF Newest
<1>2. \A i \in m .. Len(q) : q[i] \in S
  BY <1>1, ElementOfSeq
<1>3. /\ SubSeq(q, m, Len(q)) \in Seq(S)
      /\ Len(SubSeq(q, m, Len(q))) = IF m <= Len(q) THEN Len(q) - m + 1 ELSE 0
      /\ \A i \in 1 .. Len(q) - m + 1 : SubSeq(q, m, Len(q))[i] = q[m + i - 1]
  <2> HIDE DEF m
  <2> QED
    BY <1>1, <1>2, SubSeqProperties
<1>4. Len(q) - m + 1 = IF Len(q) > n THEN n ELSE Len(q)
  BY <1>1
<1>5. m <= Len(q) + 1
  BY <1>1
<1> HIDE DEF m
<1>6. Len(Newest(q, n)) = Len(q) - m + 1
  BY <1>1, <1>3, <1>5
<1>7. PICK k \in Nat : m = k + 1
  <2>1. m - 1 \in Nat /\ m = (m - 1) + 1
    BY <1>1
  <2> QED
    BY <2>1
<1>8. ASSUME NEW j \in 1 .. Len(Newest(q, n))
      PROVE  Newest(q, n)[j] = q[j + k]
  <2>1. j \in 1 .. Len(q) - m + 1 /\ m + j - 1 = j + k
    BY <1>1, <1>6, <1>7
  <2> QED
    BY <2>1, <1>1, <1>3
<1>9. Len(Newest(q, n)) + k = Len(q)
  BY <1>1, <1>6, <1>7
<1> QED
  BY <1>1, <1>3, <1>4, <1>6, <1>8, <1>9

\* One element less; those behind it move up.
LEMMA WithoutFacts ==
    ASSUME NEW S, NEW q \in Seq(S), NEW i \in 1 .. Len(q)
    PROVE  /\ Without(q, i) \in Seq(S)
           /\ Len(Without(q, i)) = Len(q) - 1
           /\ \A j \in 1 .. (Len(q) - 1) :
                 Without(q, i)[j] = IF j < i THEN q[j] ELSE q[j + 1]
<1> DEFINE before == SubSeq(q, 1, i - 1)
           after == SubSeq(q, i + 1, Len(q))
<1>1. Len(q) \in Nat /\ \A k \in 1 .. Len(q) : q[k] \in S
  BY LenProperties, ElementOfSeq
<1>2. /\ before \in Seq(S) /\ Len(before) = i - 1
      /\ \A k \in 1 .. (i - 1) : before[k] = q[k]
  BY <1>1, SubSeqProperties
<1>3. /\ after \in Seq(S) /\ Len(after) = Len(q) - i
      /\ \A k \in 1 .. (Len(q) - i) : after[k] = q[i + k]
  <2>1. /\ after \in Seq(S)
        /\ Len(after) = IF i + 1 <= Len(q) THEN Len(q) - (i + 1) + 1 ELSE 0
        /\ \A k \in 1 .. Len(q) - (i + 1) + 1 : after[k] = q[(i + 1) + k - 1]
    BY <1>1, SubSeqProperties
  <2> QED
    BY <1>1, <2>1
<1>4. Without(q, i) = before \o after
  BY DEF Without
<1> HIDE DEF before, after
<1>5. /\ before \o after \in Seq(S)
      /\ Len(before \o after) = Len(before) + Len(after)
      /\ \A k \in 1 .. Len(before) + Len(after) :
            (before \o after)[k] = IF k <= Len(before) THEN before[k]
                                   ELSE after[k - Len(before)]
  BY ZenonT(60), <1>2, <1>3, ConcatProperties
<1> QED
  BY SMTT(20), <1>1, <1>2, <1>3, <1>4, <1>5

\* A push keeps within the limit: the newest items and, last, the pushed one.
LEMMA PushFacts ==
    ASSUME NEW q \in Seq(Items), NEW item \in Items,
           NEW p, p = Append(Newest(q, QueueMax - 1), item)
    PROVE  /\ p \in Seq(Items)
           /\ Len(p) \in 1 .. QueueMax
           /\ p[Len(p)] = item
           /\ Shifted(p, Len(p) - 1, q)
<1> DEFINE r == Newest(q, QueueMax - 1)
<1>1. QueueMax - 1 \in Nat /\ Len(q) \in Nat
  BY LenProperties
<1>2. /\ r \in Seq(Items) /\ Len(r) <= QueueMax - 1 /\ Len(r) \in Nat
      /\ \E k \in Nat : Len(r) + k = Len(q) /\ \A j \in 1 .. Len(r) : r[j] = q[j + k]
  <2>1. r \in Seq(Items) /\ Len(r) = IF Len(q) > QueueMax - 1 THEN QueueMax - 1 ELSE Len(q)
    BY <1>1, NewestFacts
  <2>2. \E k \in Nat : Len(r) + k = Len(q) /\ \A j \in 1 .. Len(r) : r[j] = q[j + k]
    BY ZenonT(30), <1>1, NewestFacts
  <2> HIDE DEF r
  <2>3. Len(r) <= QueueMax - 1 /\ Len(r) \in Nat
    BY <1>1, <2>1
  <2> QED
    BY <2>1, <2>2, <2>3, Zenon
<1>3. p = Append(r, item)
  OBVIOUS
<1> HIDE DEF r
<1>4. /\ Append(r, item) \in Seq(Items)
      /\ Len(Append(r, item)) = Len(r) + 1
      /\ \A j \in 1 .. Len(r) : Append(r, item)[j] = r[j]
      /\ Append(r, item)[Len(r) + 1] = item
  BY <1>2, AppendProperties
<1>5. /\ p \in Seq(Items)
      /\ Len(p) = Len(r) + 1
      /\ \A j \in 1 .. Len(r) : p[j] = r[j]
      /\ p[Len(r) + 1] = item
  BY <1>3, <1>4
<1>6. Len(p) \in 1 .. QueueMax /\ Len(p) - 1 = Len(r) /\ p[Len(p)] = item
  BY <1>1, <1>2, <1>5
<1>7. Shifted(p, Len(p) - 1, q)
  BY <1>2, <1>5, <1>6 DEF Shifted
<1> QED
  BY <1>5, <1>6, <1>7

\* What a push appends.
Pushed(s, retry) == [signal |-> s, retry |-> retry, retries |-> 0, age |-> 0]

\* What Push appends to the newest of a queue.
LEMMA PushAppends ==
    ASSUME NEW q, NEW s \in Signals, NEW retry \in BOOLEAN
    PROVE  /\ Pushed(s, retry) \in Items
           /\ Pushed(s, retry).signal = s /\ Pushed(s, retry).retry = retry
           /\ Push(q, s, retry) = Append(Newest(q, QueueMax - 1), Pushed(s, retry))
BY DEF Pushed, Items, Push

\* Push returns a queue within its limit.
LEMMA PushKeeps ==
    ASSUME NEW q \in Seq(Items), NEW s \in Signals, NEW retry \in BOOLEAN
    PROVE  Push(q, s, retry) \in Seq(Items) /\ Len(Push(q, s, retry)) \in 1 .. QueueMax
<1>1. PICK item \in Items : Push(q, s, retry) = Append(Newest(q, QueueMax - 1), item)
  BY PushAppends
<1>2. PICK p : p = Append(Newest(q, QueueMax - 1), item)
  OBVIOUS
<1>3. p \in Seq(Items) /\ Len(p) \in 1 .. QueueMax
  BY <1>2, PushFacts
<1> QED
  BY <1>1, <1>2, <1>3

-----------------------------------------------------------------------------
(* The inductive invariants.                                               *)

Busy(e) == task[e].step # "idle"

\* A running command is the message's, outside of a drain, or that of the item
\* under the drain's cursor, which a retry reaches without the lock file.
HasOrigin(e) ==
    /\ task[e].signal \in Signals
    /\ task[e].from = "message" => cursor[e] = 0
    /\ task[e].from # "message" =>
          /\ cursor[e] \in 1 .. Len(queue[e]) /\ drained[e] < PerTick
          /\ queue[e][cursor[e]].signal = task[e].signal
          /\ task[e].step \notin {"ackSave", "ackOnly"}
    /\ task[e].from = "retry" =>
          /\ queue[e][cursor[e]].retry
          /\ task[e].step \notin {"lock", "create"}
CommandHasOrigin == \A e \in EAs : Busy(e) => HasOrigin(e)

\* Each torn order cost a restart, and a restarted instance has room for the file.
RestartsCounted ==
    /\ \A s \in Signals : torn[s] <= restarts
    /\ Len(file) <= MemoryMax

Structure == TypeOK /\ CommandHasOrigin /\ RestartsCounted

\* Who may still order s: the instance whose command wrote the lock file, ...
TaskMay(e, s) ==
    /\ task[e].signal = s /\ task[e].from # "retry"
    /\ \/ task[e].step \in {"gate", "order"}
       \/ task[e].step \in {"closed", "false"} /\ task[e].from = "message"

\* ... or an item left for a retry, until its command has succeeded.
ItemMay(e, i, s) ==
    /\ i \in DOMAIN queue[e]
    /\ queue[e][i].signal = s /\ queue[e][i].retry
    /\ ~(cursor[e] = i /\ task[e].step \in {"save", "true"})

\* The right to order s: the place 0 stands for the running command.
May(e, i, s) == IF i = 0 THEN TaskMay(e, s) ELSE ItemMay(e, i, s)

\* There is one right to order a signal at most; it comes with the lock file
\* and is gone with the order.
RightOf(s) ==
    /\ orders[s] \in {0, 1}
    /\ \A e \in EAs, i \in Nat : May(e, i, s) => orders[s] = 0
    /\ (orders[s] # 0 \/ \E e \in EAs, i \in Nat : May(e, i, s)) => lock[s] # NoEA
    /\ \A e1 \in EAs, e2 \in EAs, i1 \in Nat, i2 \in Nat :
          May(e1, i1, s) /\ May(e2, i2, s) => e1 = e2 /\ i1 = i2
OneRight ==
    restarts = 0 => \A s \in Signals : s \notin unguarded => RightOf(s)

IInv == Structure /\ OneRight

-----------------------------------------------------------------------------
(* The structure of the state is kept.                                     *)

\* What TypeOK and RestartsCounted say of the queues, and of the records.
Queues == queue \in [EAs -> Seq(Items)] /\ \A e \in EAs : Len(queue[e]) <= QueueMax
Records ==
    /\ memory \in [EAs -> Seq(Signals)] /\ \A e \in EAs : Len(memory[e]) <= MemoryMax
    /\ file \in Seq(Signals) /\ Len(file) <= FileMax /\ Len(file) <= MemoryMax
    /\ forgotten \in SUBSET Signals

\* A list's elements are of its kind.
LEMMA ElementsTyped ==
    ASSUME NEW S, NEW q \in Seq(S)
    PROVE  Elements(q) \subseteq S
BY LenProperties, ElementOfSeq DEF Elements

\* What a full record lets go is forgotten, and only signals are.
LEMMA ForgottenTyped ==
    ASSUME Records, NEW e \in EAs, NEW r,
           forgotten' = forgotten \cup (Elements(memory[e]) \ Elements(r))
    PROVE  forgotten' \in SUBSET Signals
<1>1. Elements(memory[e]) \subseteq Signals
  BY ElementsTyped DEF Records
<1> QED
  BY <1>1 DEF Records

\* SaveExecutedSignal keeps the record and the file within their limits.
LEMMA RecordsKept ==
    ASSUME Records, NEW e \in EAs, NEW s \in Signals, Remember(e, s)
    PROVE  Records'
<1> DEFINE m == Append(memory[e], s)
           r == Newest(m, MemoryMax)
<1>1. m \in Seq(Signals)
  BY AppendProperties DEF Records
<1>2. r \in Seq(Signals) /\ Len(r) <= MemoryMax /\ Len(r) \in Nat
  <2> HIDE DEF m
  <2> QED
    BY <1>1, NewestFacts, LenProperties
<1>3. /\ memory' = [memory EXCEPT ![e] = r]
      /\ forgotten' = forgotten \cup (Elements(memory[e]) \ Elements(memory'[e]))
  BY DEF Remember
<1> HIDE DEF m, r
<1>4. memory'[e] = r /\ (file' = Newest(r, FileMax) \/ file' = file)
  BY <1>3 DEF Remember, Records
<1>5. file' \in Seq(Signals) /\ Len(file') <= FileMax /\ Len(file') <= MemoryMax
  BY <1>2, <1>4, NewestFacts DEF Records
<1> QED
  BY <1>2, <1>3, <1>5, ForgottenTyped DEF Records

\* A queue's length and what its places hold.
LEMMA QueueItems ==
    ASSUME Queues, NEW e \in EAs
    PROVE  /\ queue[e] \in Seq(Items) /\ Len(queue[e]) \in 0 .. QueueMax
           /\ DOMAIN queue[e] = 1 .. Len(queue[e])
           /\ \A i \in 1 .. Len(queue[e]) : queue[e][i] \in Items
BY LenProperties, ElementOfSeq DEF Queues

\* A queue replaced by one within the limit.
LEMMA QueueReplaced ==
    ASSUME Queues, NEW e \in EAs, NEW q \in Seq(Items), Len(q) <= QueueMax,
           queue' = [queue EXCEPT ![e] = q]
    PROVE  Queues' /\ queue'[e] = q /\ \A d \in EAs : d # e => queue'[d] = queue[d]
BY DEF Queues

Tasks == task \in [EAs -> [step : Steps, signal : Signals \cup {NoSignal}, from : Origins]]

\* Goto changes the step of one command.
LEMMA GotoFacts ==
    ASSUME Tasks, NEW e \in EAs, NEW step \in Steps, Goto(e, step)
    PROVE  /\ Tasks'
           /\ task'[e].step = step
           /\ task'[e].signal = task[e].signal /\ task'[e].from = task[e].from
           /\ \A d \in EAs : d # e => task'[d] = task[d]
BY DEF Tasks, Goto

\* Begin starts one command.
LEMMA BeginFacts ==
    ASSUME Tasks, NEW e \in EAs, NEW s \in Signals, NEW from \in Origins, NEW step \in Steps,
           Begin(e, s, from, step)
    PROVE  /\ Tasks'
           /\ task'[e] = [step |-> step, signal |-> s, from |-> from]
           /\ \A d \in EAs : d # e => task'[d] = task[d]
BY DEF Tasks, Begin

\* A command that ends leaves its instance idle.
LEMMA IdleFacts ==
    ASSUME Tasks, NEW e \in EAs, task' = [task EXCEPT ![e] = Idle]
    PROVE  /\ Tasks'
           /\ task'[e] = Idle
           /\ \A d \in EAs : d # e => task'[d] = task[d]
BY DEF Tasks, Idle, Steps, Origins

\* A copy that arrives keeps the structure.
LEMMA ReceiveKeeps ==
    ASSUME Structure, NEW e \in EAs, NEW s \in Signals, NEW via \in {"poll", "ws"},
           Receive(e, s, via)
    PROVE  Structure'
<1> DEFINE skip == via = "ws" /\ Known(e, s)
           queued == ~skip /\ market = "closed"
           q == IF queued THEN Push(queue[e], s, FALSE) ELSE queue[e]
           step == IF skip \/ queued THEN "ackOnly" ELSE FirstStep(e, s, "message")
<1>1. Queues /\ Tasks
  BY DEF Structure, TypeOK, Queues, Tasks
<1>2. q \in Seq(Items) /\ Len(q) <= QueueMax
  <2>1. queue[e] \in Seq(Items) /\ Len(queue[e]) <= QueueMax
    BY <1>1, QueueItems
  <2> DEFINE p == Push(queue[e], s, FALSE)
  <2>2. p \in Seq(Items) /\ Len(p) \in 1 .. QueueMax
    <3>1. FALSE \in BOOLEAN
      OBVIOUS
    <3> QED
      BY <1>1, <2>1, <3>1, PushKeeps
  <2>3. q = p \/ q = queue[e]
    OBVIOUS
  <2> HIDE DEF q, p
  <2>4. p \in Seq(Items) /\ Len(p) <= QueueMax
    BY <2>2
  <2> QED
    BY <2>1, <2>3, <2>4
<1>3. queue' = [queue EXCEPT ![e] = q]
  BY <1>1 DEF Receive, Queues
<1>4. step \in Steps /\ "message" \in Origins
  BY DEF FirstStep, Steps, Origins
<1>5. Begin(e, s, "message", step)
  BY DEF Receive
<1> HIDE DEF q, step, queued, skip
<1>6. Queues' /\ \A d \in EAs : d # e => queue'[d] = queue[d]
  BY <1>1, <1>2, <1>3, QueueReplaced
<1>7. /\ Tasks' /\ task'[e] = [step |-> step, signal |-> s, from |-> "message"]
      /\ \A d \in EAs : d # e => task'[d] = task[d]
  BY <1>1, <1>4, <1>5, BeginFacts
<1>8. TypeOK'
  <2>1. copies' \in 0 .. MaxCopies
    BY DEF Structure, TypeOK, Receive
  <2>2. UNCHANGED <<broker, disk, history, loop, record>>
    BY DEF Receive
  <2> QED
    BY <1>6, <1>7, <2>1, <2>2
    DEF Structure, TypeOK, Queues, Tasks, broker, disk, history, loop, record
<1>9. CommandHasOrigin'
  <2>1. cursor[e] = 0 /\ UNCHANGED <<cursor, drained>>
    BY DEF Receive, Between, loop
  <2> QED
    BY <1>6, <1>7, <2>1 DEF Structure, CommandHasOrigin, HasOrigin, Busy
<1>10. RestartsCounted'
  BY DEF Structure, RestartsCounted, Receive, disk, history
<1> QED
  BY <1>8, <1>9, <1>10 DEF Structure

\* The post-check of a message's command keeps it.
LEMMA AfterMessageKeeps ==
    ASSUME Structure, NEW e \in EAs, AfterMessage(e)
    PROVE  Structure'
<1> DEFINE t == task[e]
           queued == t.step = "closed" \/ (t.step = "false" /\ market = "closed")
           q == IF queued THEN Push(queue[e], t.signal, TRUE) ELSE queue[e]
           step == IF queued THEN "ackOnly" ELSE "ackSave"
<1>1. Queues /\ Tasks /\ task[e].signal \in Signals /\ task[e].from = "message"
  BY DEF Structure, TypeOK, Queues, Tasks, CommandHasOrigin, HasOrigin, Busy, AfterMessage
<1>2. q \in Seq(Items) /\ Len(q) <= QueueMax
  <2>1. queue[e] \in Seq(Items) /\ Len(queue[e]) <= QueueMax
    BY <1>1, QueueItems
  <2> DEFINE p == Push(queue[e], task[e].signal, TRUE)
  <2>2. p \in Seq(Items) /\ Len(p) \in 1 .. QueueMax
    <3>1. TRUE \in BOOLEAN
      OBVIOUS
    <3> QED
      BY <1>1, <2>1, <3>1, PushKeeps
  <2>3. q = p \/ q = queue[e]
    OBVIOUS
  <2> HIDE DEF q, p
  <2>4. p \in Seq(Items) /\ Len(p) <= QueueMax
    BY <2>2
  <2> QED
    BY <2>1, <2>3, <2>4
<1>3. queue' = [queue EXCEPT ![e] = q]
  BY <1>1 DEF AfterMessage, Queues
<1>4. step \in Steps /\ step # "idle"
  BY DEF Steps
<1>5. Goto(e, step) /\ task[e].step # "idle"
  BY DEF AfterMessage
<1> HIDE DEF q, step, queued, t
<1>6. Queues' /\ \A d \in EAs : d # e => queue'[d] = queue[d]
  BY <1>1, <1>2, <1>3, QueueReplaced
<1>7. /\ Tasks' /\ task'[e].signal = task[e].signal /\ task'[e].from = "message"
      /\ \A d \in EAs : d # e => task'[d] = task[d]
  BY <1>1, <1>4, <1>5, GotoFacts
<1>8. TypeOK'
  BY <1>6, <1>7 DEF Structure, TypeOK, Queues, Tasks, AfterMessage, broker, disk, history, loop, record
<1>9. CommandHasOrigin'
  <2>1. cursor[e] = 0 /\ UNCHANGED <<cursor, drained>>
    BY <1>1, <1>5 DEF Structure, CommandHasOrigin, HasOrigin, Busy, AfterMessage, loop
  <2> QED
    BY <1>1, <1>6, <1>7, <2>1 DEF Structure, CommandHasOrigin, HasOrigin, Busy
<1>10. RestartsCounted'
  BY DEF Structure, RestartsCounted, AfterMessage, disk, history
<1> QED
  BY <1>8, <1>9, <1>10 DEF Structure

\* An acknowledgement keeps it.
LEMMA AcknowledgeKeeps ==
    ASSUME Structure, NEW e \in EAs, Acknowledge(e)
    PROVE  Structure'
<1>1. Tasks /\ Records /\ task[e].signal \in Signals
  BY DEF Structure, TypeOK, Tasks, Records, RestartsCounted, CommandHasOrigin, HasOrigin, Busy, Acknowledge
<1>2. Records'
  BY <1>1, RecordsKept DEF Acknowledge, Records, record
<1>3. Tasks' /\ task'[e] = Idle /\ \A d \in EAs : d # e => task'[d] = task[d]
  BY <1>1, IdleFacts DEF Acknowledge
<1>4. TypeOK'
  BY <1>2, <1>3 DEF Structure, TypeOK, Records, Tasks, Acknowledge, broker, history, loop, record
<1>5. CommandHasOrigin'
  BY <1>3 DEF Structure, CommandHasOrigin, HasOrigin, Busy, Acknowledge, Idle, loop
<1>6. RestartsCounted'
  BY <1>2 DEF Structure, RestartsCounted, Records, Acknowledge, history
<1> QED
  BY <1>4, <1>5, <1>6 DEF Structure

\* ExecuteCommand's steps move the command on and leave queue and drain alone.
LEMMA CommandMovesOn ==
    ASSUME Structure, NEW e \in EAs, Busy(e),
           NEW step \in Steps \ {"ackSave", "ackOnly"}, Goto(e, step),
           step \in {"lock", "create"} => task[e].step = "lock",
           UNCHANGED <<loop, queue>>
    PROVE  Tasks' /\ CommandHasOrigin'
<1>1. Tasks
  BY DEF Structure, TypeOK, Tasks
<1>2. /\ Tasks' /\ task'[e].step = step
      /\ task'[e].signal = task[e].signal /\ task'[e].from = task[e].from
      /\ \A d \in EAs : d # e => task'[d] = task[d]
  BY <1>1, GotoFacts
<1>3. ASSUME NEW d \in EAs, Busy(d)'
      PROVE  HasOrigin(d)'
  <2>1. CASE d = e
    BY <1>2, <2>1 DEF Structure, CommandHasOrigin, HasOrigin, Busy, loop
  <2>2. CASE d # e
    BY <1>2, <1>3, <2>2 DEF Structure, CommandHasOrigin, HasOrigin, Busy, loop
  <2> QED
    BY <2>1, <2>2
<1> QED
  BY <1>2, <1>3 DEF CommandHasOrigin

\* Each step of ExecuteCommand keeps it.
LEMMA ExecuteKeeps ==
    ASSUME Structure, NEW e \in EAs, Execute(e)
    PROVE  Structure'
<1>1. Tasks /\ Records /\ RestartsCounted /\ TypeOK
  BY DEF Structure, TypeOK, Tasks, Records, RestartsCounted
<1>2. Busy(e) /\ task[e].signal \in Signals
  BY DEF Structure, CommandHasOrigin, HasOrigin, Busy, Execute, CheckLock, CreateLock,
         Refuse, Scan, PlaceOrder, SaveExecuted
<1>3. CASE CheckLock(e)
  <2>1. Tasks' /\ CommandHasOrigin'
    BY <1>2, <1>3, CommandMovesOn DEF CheckLock, Steps
  <2> QED
    BY <1>1, <1>3, <2>1
    DEF CheckLock, Structure, TypeOK, Tasks, RestartsCounted, broker, disk, history, loop, record
<1>4. CASE CreateLock(e)
  <2>1. Tasks' /\ CommandHasOrigin'
    BY <1>2, <1>4, CommandMovesOn DEF CreateLock, Steps, loop
  <2>2. lock' \in [Signals -> EAs \cup {NoEA}] /\ unguarded' \in SUBSET Signals
    BY <1>1, <1>2, <1>4 DEF CreateLock, TypeOK
  <2>3. UNCHANGED <<broker, file, torn, restarts, copies, loop, queue, record>>
    BY <1>4 DEF CreateLock
  <2> QED
    BY <1>1, <2>1, <2>2, <2>3
    DEF Structure, TypeOK, Tasks, RestartsCounted, broker, loop, record
<1>5. CASE Refuse(e)
  <2>1. Tasks' /\ CommandHasOrigin'
    BY <1>2, <1>5, CommandMovesOn DEF Refuse, Steps
  <2>2. refused' \in SUBSET Signals
    BY <1>1, <1>2, <1>5 DEF Refuse, TypeOK
  <2> QED
    BY <1>1, <1>5, <2>1, <2>2
    DEF Refuse, Structure, TypeOK, Tasks, RestartsCounted, disk, history, loop, record
<1>6. CASE Scan(e)
  <2>1. Tasks' /\ CommandHasOrigin'
    BY <1>2, <1>6, CommandMovesOn DEF Scan, Steps
  <2> QED
    BY <1>1, <1>6, <2>1
    DEF Scan, Structure, TypeOK, Tasks, RestartsCounted, broker, disk, history, loop, record
<1>7. CASE PlaceOrder(e)
  <2>1. Tasks' /\ CommandHasOrigin'
    BY <1>2, <1>7, CommandMovesOn DEF PlaceOrder, Steps
  <2>2. /\ orders' \in [Signals -> Nat] /\ positions' \in [Signals -> Nat]
        /\ refused' \in SUBSET Signals
    <3>1. \/ orders' = orders
          \/ orders' = [orders EXCEPT ![task[e].signal] = @ + 1]
      BY <1>7 DEF PlaceOrder
    <3>2. \/ positions' = positions
          \/ positions' = [positions EXCEPT ![task[e].signal] = @ + 1]
      BY <1>7 DEF PlaceOrder
    <3>3. refused' = refused \/ refused' = refused \cup {task[e].signal}
      BY <1>7 DEF PlaceOrder
    <3>4. orders \in [Signals -> Nat] /\ positions \in [Signals -> Nat]
      BY <1>1 DEF TypeOK
    <3>5. orders' \in [Signals -> Nat]
      BY <3>1, <3>4
    <3>6. positions' \in [Signals -> Nat]
      BY <3>2, <3>4
    <3> QED
      BY <1>1, <1>2, <3>3, <3>5, <3>6 DEF TypeOK
  <2>3. UNCHANGED <<market, disk, history, copies, loop, queue, record>>
    BY <1>7 DEF PlaceOrder
  <2> QED
    BY <1>1, <2>1, <2>2, <2>3
    DEF Structure, TypeOK, Tasks, RestartsCounted, disk, history, loop, record
<1>8. CASE SaveExecuted(e)
  <2>1. Tasks' /\ CommandHasOrigin'
    BY <1>2, <1>8, CommandMovesOn DEF SaveExecuted, Steps
  <2>2. Records'
    BY <1>1, <1>2, <1>8, RecordsKept DEF SaveExecuted
  <2>3. UNCHANGED <<broker, lock, history, copies, loop, queue>>
    BY <1>8 DEF SaveExecuted
  <2> QED
    BY <1>1, <2>1, <2>2, <2>3
    DEF Structure, TypeOK, Tasks, Records, RestartsCounted, broker, history, loop, record
<1> QED
  BY <1>3, <1>4, <1>5, <1>6, <1>7, <1>8 DEF Execute

\* A drain that starts keeps it.
LEMMA StartDrainKeeps ==
    ASSUME Structure, NEW e \in EAs, StartDrain(e)
    PROVE  Structure'
<1>1. TypeOK'
  <2>1. cursor' \in [EAs -> 0 .. (QueueMax + 1)] /\ drained' \in [EAs -> 0 .. PerTick]
    BY DEF Structure, TypeOK, StartDrain
  <2>2. UNCHANGED <<broker, disk, history, copies, task, queue, record>>
    BY DEF StartDrain
  <2> QED
    BY <2>1, <2>2 DEF Structure, TypeOK, broker, disk, history, record
<1>2. CommandHasOrigin'
  BY DEF Structure, TypeOK, CommandHasOrigin, HasOrigin, Busy, StartDrain, Between
<1>3. RestartsCounted'
  BY DEF Structure, RestartsCounted, StartDrain, disk, history
<1> QED
  BY <1>1, <1>2, <1>3 DEF Structure

\* A turn of the drain's loop keeps it.
LEMMA DrainItemKeeps ==
    ASSUME Structure, NEW e \in EAs, DrainItem(e)
    PROVE  Structure'
<1> DEFINE i == cursor[e]
           item == queue[e][i]
           from == IF item.retry THEN "retry" ELSE "first"
           step == FirstStep(e, item.signal, from)
<1>1. /\ Queues /\ Tasks /\ RestartsCounted /\ TypeOK
      /\ i \in 1 .. Len(queue[e]) /\ Len(queue[e]) \in 0 .. QueueMax
      /\ item \in Items /\ queue[e] \in Seq(Items)
      /\ task[e].step = "idle" /\ drained[e] < PerTick
  <2>1. Queues
    BY DEF Structure, TypeOK, Queues
  <2> QED
    BY <2>1, QueueItems DEF Structure, TypeOK, Tasks, DrainItem
<1>2. UNCHANGED <<broker, disk, history, copies, drained, record>>
  BY DEF DrainItem
<1>3. CASE queue' = [queue EXCEPT ![e] = Without(@, i)] /\ UNCHANGED <<task, cursor>>
  <2>1. Without(queue[e], i) \in Seq(Items) /\ Len(Without(queue[e], i)) <= QueueMax
    BY <1>1, WithoutFacts
  <2>2. queue' = [queue EXCEPT ![e] = Without(queue[e], i)]
    BY <1>3
  <2>3. Queues' /\ \A d \in EAs : d # e => queue'[d] = queue[d]
    BY <1>1, <2>1, <2>2, QueueReplaced
  <2>4. CommandHasOrigin'
    BY <1>1, <1>2, <1>3, <2>3 DEF Structure, CommandHasOrigin, HasOrigin, Busy
  <2> QED
    BY <1>1, <1>2, <1>3, <2>3, <2>4
    DEF Structure, TypeOK, Queues, RestartsCounted, broker, disk, history, record
<1>4. CASE cursor' = [cursor EXCEPT ![e] = i + 1] /\ UNCHANGED <<task, queue>>
  <2>1. cursor' \in [EAs -> 0 .. (QueueMax + 1)] /\ \A d \in EAs : d # e => cursor'[d] = cursor[d]
    BY SMTT(20), <1>1, <1>4 DEF TypeOK
  <2>2. CommandHasOrigin'
    BY <1>1, <1>2, <1>4, <2>1 DEF Structure, CommandHasOrigin, HasOrigin, Busy
  <2> QED
    BY <1>1, <1>2, <1>4, <2>1, <2>2
    DEF Structure, TypeOK, RestartsCounted, broker, disk, history, record
<1>5. CASE Begin(e, item.signal, from, step) /\ UNCHANGED <<cursor, queue>>
  <2>1. /\ item.signal \in Signals /\ item.retry \in BOOLEAN
        /\ from \in Origins /\ from # "message" /\ (from = "retry" => item.retry)
    BY <1>1 DEF Items, Origins
  <2>2. step \in {"true", "gate", "lock"} /\ step \in Steps
        /\ (from = "retry" => step # "lock")
    BY DEF FirstStep, Steps
  <2> HIDE DEF step, from
  <2>3. /\ Tasks' /\ task'[e] = [step |-> step, signal |-> item.signal, from |-> from]
        /\ \A d \in EAs : d # e => task'[d] = task[d]
    BY <1>1, <1>5, <2>1, <2>2, BeginFacts
  <2>4. CommandHasOrigin'
    BY SMTT(20), <1>1, <1>2, <1>5, <2>1, <2>2, <2>3 DEF Structure, CommandHasOrigin, HasOrigin, Busy
  <2> QED
    BY <1>1, <1>2, <1>5, <2>3, <2>4
    DEF Structure, TypeOK, Tasks, RestartsCounted, broker, disk, history, record
<1> QED
  BY <1>3, <1>4, <1>5 DEF DrainItem

\* Another try changes neither an item's place nor its signal.
LEMMA AgainFacts ==
    ASSUME NEW q \in Seq(Items), NEW i \in 1 .. Len(q), q[i].retries + 1 < MaxRetries
    PROVE  /\ Again(q, i) \in Seq(Items) /\ Len(Again(q, i)) = Len(q)
           /\ \A j \in 1 .. Len(q) : /\ Again(q, i)[j].signal = q[j].signal
                                     /\ Again(q, i)[j].retry = q[j].retry
<1> DEFINE item == [q[i] EXCEPT !.retries = @ + 1]
<1>1. q[i] \in Items /\ Len(q) \in Nat
  BY ElementOfSeq, LenProperties
<1>2. item \in Items /\ item.signal = q[i].signal /\ item.retry = q[i].retry
  <2>1. q[i].retries \in Nat /\ q[i].retries + 1 \in 0 .. MaxRetries
    BY SMTT(20), <1>1 DEF Items
  <2> QED
    BY <1>1, <2>1 DEF Items
<1>3. Again(q, i) = [q EXCEPT ![i] = item]
  BY <1>1, LenProperties DEF Again
<1> HIDE DEF item
<1>4. /\ [q EXCEPT ![i] = item] \in Seq(Items)
      /\ Len([q EXCEPT ![i] = item]) = Len(q)
      /\ \A j \in 1 .. Len(q) : [q EXCEPT ![i] = item][j] = IF j = i THEN item ELSE q[j]
  BY <1>1, <1>2, ExceptSeq
<1> QED
  BY <1>1, <1>2, <1>3, <1>4

\* What becomes of a drained item keeps it.
LEMMA AfterDrainKeeps ==
    ASSUME Structure, NEW e \in EAs, AfterDrain(e)
    PROVE  Structure'
<1> DEFINE i == cursor[e]
           again == task[e].step = "closed" /\ queue[e][i].retries + 1 < MaxRetries
           q == IF again THEN Again(queue[e], i) ELSE Without(queue[e], i)
<1>1. /\ Queues /\ Tasks /\ Records /\ RestartsCounted /\ TypeOK
      /\ i \in 1 .. Len(queue[e]) /\ Len(queue[e]) \in 0 .. QueueMax
      /\ queue[e] \in Seq(Items) /\ queue[e][i] \in Items
      /\ task[e].signal \in Signals /\ drained[e] \in 0 .. PerTick /\ drained[e] < PerTick
  <2>1. Queues /\ Busy(e) /\ HasOrigin(e) /\ task[e].from # "message"
    BY DEF Structure, TypeOK, Queues, CommandHasOrigin, Busy, AfterDrain
  <2> QED
    BY <2>1, QueueItems DEF Structure, TypeOK, Tasks, Records, RestartsCounted, HasOrigin
<1>2. q \in Seq(Items) /\ Len(q) <= QueueMax
  <2>1. CASE again
    BY <1>1, <2>1, AgainFacts
  <2>2. CASE ~again
    BY SMTT(20), <1>1, <2>2, WithoutFacts
  <2> QED
    BY <2>1, <2>2
<1>3. queue' = [queue EXCEPT ![e] = q]
  <2>1. queue' = [queue EXCEPT ![e] = IF again THEN Again(@, i) ELSE Without(@, i)]
    BY DEF AfterDrain
  <2> HIDE DEF again
  <2> QED
    BY <1>1, <2>1 DEF Queues
<1>4. /\ cursor' \in [EAs -> 0 .. (QueueMax + 1)]
      /\ \A d \in EAs : d # e => cursor'[d] = cursor[d]
  <2>1. cursor' = [cursor EXCEPT ![e] = i + 1] \/ cursor' = [cursor EXCEPT ![e] = i]
    BY DEF AfterDrain
  <2>2. cursor \in [EAs -> 0 .. (QueueMax + 1)]
    BY <1>1 DEF TypeOK
  <2> QED
    BY <1>1, <2>1, <2>2
<1>5. /\ drained' \in [EAs -> 0 .. PerTick]
      /\ \A d \in EAs : d # e => drained'[d] = drained[d]
  <2>1. drained' = [drained EXCEPT ![e] = @ + 1]
    BY DEF AfterDrain
  <2>2. drained \in [EAs -> 0 .. PerTick]
    BY <1>1 DEF TypeOK
  <2> QED
    BY <1>1, <2>1, <2>2
<1>6. Records'
  <2>1. Remember(e, task[e].signal) \/ UNCHANGED <<record, file>>
    BY DEF AfterDrain
  <2> QED
    BY <1>1, <2>1, RecordsKept DEF Records, record
<1>7. Tasks' /\ task'[e] = Idle /\ \A d \in EAs : d # e => task'[d] = task[d]
  BY <1>1, IdleFacts DEF AfterDrain
<1>8. UNCHANGED <<broker, lock, history, copies>>
  BY DEF AfterDrain
<1> HIDE DEF q
<1>9. Queues' /\ \A d \in EAs : d # e => queue'[d] = queue[d]
  BY <1>1, <1>2, <1>3, QueueReplaced
<1>10. CommandHasOrigin'
  <2>1. ~Busy(e)'
    BY <1>7 DEF Busy, Idle
  <2>2. ASSUME NEW d \in EAs, d # e, Busy(d)'
        PROVE  HasOrigin(d)'
    BY ZenonT(30), <1>4, <1>5, <1>7, <1>9, <2>2 DEF Structure, CommandHasOrigin, HasOrigin, Busy
  <2> QED
    BY <2>1, <2>2 DEF CommandHasOrigin
<1> QED
  BY <1>1, <1>4, <1>5, <1>6, <1>7, <1>8, <1>9, <1>10
  DEF Structure, TypeOK, Tasks, Queues, Records, RestartsCounted, broker, history, record

\* A drain that ends keeps it.
LEMMA EndDrainKeeps ==
    ASSUME Structure, NEW e \in EAs, EndDrain(e)
    PROVE  Structure'
<1>1. /\ cursor' \in [EAs -> 0 .. (QueueMax + 1)] /\ drained' \in [EAs -> 0 .. PerTick]
      /\ \A d \in EAs : d # e => cursor'[d] = cursor[d] /\ drained'[d] = drained[d]
  BY DEF Structure, TypeOK, EndDrain
<1>2. UNCHANGED <<broker, disk, history, copies, task, queue, record>> /\ task[e].step = "idle"
  BY DEF EndDrain
<1>3. CommandHasOrigin'
  BY SMTT(20), <1>1, <1>2 DEF Structure, CommandHasOrigin, HasOrigin, Busy
<1> QED
  BY <1>1, <1>2, <1>3 DEF Structure, TypeOK, RestartsCounted, broker, disk, history, record

\* A restart keeps it.
LEMMA RestartKeeps ==
    ASSUME Structure, NEW e \in EAs, Restart(e)
    PROVE  Structure'
<1>1. Queues /\ Tasks /\ Records /\ TypeOK /\ RestartsCounted /\ restarts < MaxRestarts
  BY DEF Structure, TypeOK, Queues, Tasks, Records, RestartsCounted, Restart
<1>2. Queues' /\ \A d \in EAs : d # e => queue'[d] = queue[d]
  <2>1. <<>> \in Seq(Items) /\ Len(<<>>) <= QueueMax
    OBVIOUS
  <2> QED
    BY <1>1, <2>1, QueueReplaced DEF Restart
<1>3. Tasks' /\ task'[e] = Idle /\ \A d \in EAs : d # e => task'[d] = task[d]
  BY <1>1, IdleFacts DEF Restart
<1>4. Records'
  <2>1. PICK none \in Seq(Signals) : none = <<>> /\ Len(none) = 0
    <3>1. <<>> \in Seq(Signals) /\ Len(<<>>) = 0
      OBVIOUS
    <3> QED
      BY <3>1, Zenon
  <2>2. /\ memory' = [memory EXCEPT ![e] = none] \/ memory' = [memory EXCEPT ![e] = file']
        /\ file' = none \/ file' = file
        /\ forgotten' = forgotten
    BY <2>1 DEF Restart, Recall
  <2>3. file' \in Seq(Signals) /\ Len(file') <= FileMax /\ Len(file') <= MemoryMax
    <3>1. Len(none) <= FileMax /\ Len(none) <= MemoryMax
      BY <2>1
    <3> QED
      BY <1>1, <2>2, <3>1 DEF Records
  <2>4. ASSUME NEW r \in Seq(Signals), Len(r) <= MemoryMax, memory' = [memory EXCEPT ![e] = r]
        PROVE  memory' \in [EAs -> Seq(Signals)] /\ \A d \in EAs : Len(memory'[d]) <= MemoryMax
    BY <1>1, <2>4 DEF Records
  <2>5. memory' \in [EAs -> Seq(Signals)] /\ \A d \in EAs : Len(memory'[d]) <= MemoryMax
    <3>1. CASE memory' = [memory EXCEPT ![e] = none]
      <4>1. Len(none) <= MemoryMax
        BY <2>1
      <4> QED
        BY <2>4, <3>1, <4>1
    <3>2. CASE memory' = [memory EXCEPT ![e] = file']
      BY <2>3, <2>4, <3>2
    <3> QED
      BY <2>2, <3>1, <3>2
  <2> QED
    BY <1>1, <2>2, <2>3, <2>5 DEF Records
<1>5. /\ cursor' \in [EAs -> 0 .. (QueueMax + 1)] /\ drained' \in [EAs -> 0 .. PerTick]
      /\ \A d \in EAs : d # e => cursor'[d] = cursor[d] /\ drained'[d] = drained[d]
  BY <1>1 DEF TypeOK, Restart
<1>6. /\ restarts' \in 0 .. MaxRestarts
      /\ torn' \in [Signals -> 0 .. MaxRestarts] /\ \A s \in Signals : torn'[s] <= restarts'
  <2>1. restarts' = restarts + 1 /\ restarts \in 0 .. MaxRestarts
    BY <1>1 DEF Restart, TypeOK
  <2>2. \A s \in Signals : torn[s] \in 0 .. MaxRestarts /\ torn[s] <= restarts
    BY <1>1 DEF TypeOK, RestartsCounted
  <2>3. torn' = [s \in Signals |-> IF task[e].step = "save" /\ task[e].signal = s
                                   THEN torn[s] + 1 ELSE torn[s]]
    BY DEF Restart
  <2> QED
    BY <1>1, <2>1, <2>2, <2>3
<1>7. lock' \in [Signals -> EAs \cup {NoEA}]
  BY DEF Restart
<1>8. UNCHANGED <<broker, unguarded, copies>>
  BY DEF Restart
<1>9. CommandHasOrigin'
  <2>1. ~Busy(e)'
    BY <1>3 DEF Busy, Idle
  <2>2. ASSUME NEW d \in EAs, d # e, Busy(d)'
        PROVE  HasOrigin(d)'
    BY SMTT(60), <1>2, <1>3, <1>5, <2>2 DEF Structure, CommandHasOrigin, HasOrigin, Busy
  <2> QED
    BY <2>1, <2>2 DEF CommandHasOrigin
<1> QED
  BY <1>1, <1>2, <1>3, <1>4, <1>5, <1>6, <1>7, <1>8, <1>9
  DEF Structure, TypeOK, Tasks, Queues, Records, RestartsCounted, broker, record

\* An item after a second has gone by.
Older(item) == [item EXCEPT !.age = IF @ > MaxQueueTime THEN @ ELSE @ + 1]

\* A second changes an item in its age only, up to the bound.
LEMMA OlderFacts ==
    ASSUME NEW item \in Items
    PROVE  /\ Older(item) \in Items
           /\ Older(item).signal = item.signal /\ Older(item).retry = item.retry
<1>1. item.age \in 0 .. (MaxQueueTime + 1)
  BY DEF Items
<1>2. (IF item.age > MaxQueueTime THEN item.age ELSE item.age + 1) \in 0 .. (MaxQueueTime + 1)
  BY <1>1
<1> QED
  BY <1>2 DEF Items, Older

\* A second leaves the signals and the order of the queues alone.
LEMMA TickFacts ==
    ASSUME Queues, Tick
    PROVE  /\ Queues'
           /\ \A e \in EAs : /\ Len(queue'[e]) = Len(queue[e])
                             /\ DOMAIN queue'[e] = DOMAIN queue[e]
                             /\ \A i \in 1 .. Len(queue[e]) :
                                   /\ queue'[e][i].signal = queue[e][i].signal
                                   /\ queue'[e][i].retry = queue[e][i].retry
<1>1. queue' = [e \in EAs |-> [i \in DOMAIN queue[e] |-> Older(queue[e][i])]]
  BY DEF Tick, Older
<1>2. ASSUME NEW e \in EAs
      PROVE  /\ queue'[e] \in Seq(Items) /\ Len(queue'[e]) = Len(queue[e])
             /\ DOMAIN queue'[e] = DOMAIN queue[e]
             /\ \A i \in 1 .. Len(queue[e]) :
                   /\ queue'[e][i].signal = queue[e][i].signal
                   /\ queue'[e][i].retry = queue[e][i].retry
  <2>1. /\ Len(queue[e]) \in Nat /\ DOMAIN queue[e] = 1 .. Len(queue[e])
        /\ \A i \in 1 .. Len(queue[e]) : queue[e][i] \in Items
    BY QueueItems
  <2>2. queue'[e] = [i \in 1 .. Len(queue[e]) |-> Older(queue[e][i])]
    BY <1>1, <2>1
  <2>3. queue'[e] \in [1 .. Len(queue[e]) -> Items]
    BY <2>1, <2>2, OlderFacts
  <2>4. queue'[e] \in Seq(Items) /\ Len(queue'[e]) = Len(queue[e])
    BY <2>1, <2>3
  <2> QED
    BY <2>1, <2>2, <2>4, OlderFacts
<1> QED
  BY <1>1, <1>2 DEF Queues

\* The market, the clock and the broker keep the structure.
LEMMA OutsideKeeps ==
    ASSUME Structure, MarketMoves \/ Tick \/ \E s \in Signals : ClosePosition(s)
    PROVE  Structure'
<1>1. CASE MarketMoves
  <2>1. market' \in {"closed", "auction", "open"}
    BY <1>1 DEF MarketMoves, Structure, TypeOK
  <2> QED
    BY <1>1, <2>1 DEF MarketMoves, Structure, TypeOK, CommandHasOrigin, HasOrigin, Busy,
                      RestartsCounted, disk, history, loop, record
<1>2. CASE Tick
  <2>1. Queues
    BY DEF Structure, TypeOK, Queues
  <2>2. Queues'
    BY <1>2, <2>1, TickFacts
  <2>3. UNCHANGED <<broker, disk, history, copies, task, loop, record>>
    BY <1>2 DEF Tick
  <2>4. CommandHasOrigin'
    <3>1. SUFFICES ASSUME NEW e \in EAs, Busy(e)
                   PROVE  HasOrigin(e)'
      BY <2>3 DEF CommandHasOrigin, Busy
    <3>2. HasOrigin(e)
      BY <3>1 DEF Structure, CommandHasOrigin
    <3> QED
      BY <1>2, <2>1, <2>3, <3>2, TickFacts DEF HasOrigin, loop
  <2> QED
    BY <2>2, <2>3, <2>4 DEF Structure, TypeOK, Queues, RestartsCounted,
                            broker, disk, history, loop, record
<1>3. CASE \E s \in Signals : ClosePosition(s)
  <2>1. positions' \in [Signals -> Nat]
    <3>1. PICK s \in Signals : positions[s] > 0 /\ positions' = [positions EXCEPT ![s] = @ - 1]
      BY <1>3 DEF ClosePosition
    <3>2. positions \in [Signals -> Nat]
      BY DEF Structure, TypeOK
    <3> QED
      BY <3>1, <3>2
  <2>2. UNCHANGED <<market, orders, refused, disk, history, copies, task, loop, queue, record>>
    BY <1>3 DEF ClosePosition
  <2> QED
    BY <2>1, <2>2 DEF Structure, TypeOK, CommandHasOrigin, HasOrigin, Busy,
                      RestartsCounted, disk, history, loop, record
<1> QED
  BY <1>1, <1>2, <1>3

\* The structure holds at the start.
LEMMA InitStructure == Init => Structure
<1>1. <<>> \in Seq(Items) /\ Len(<<>>) = 0 /\ <<>> \in Seq(Signals)
  OBVIOUS
<1> QED
  BY <1>1 DEF Init, Structure, TypeOK, CommandHasOrigin, Busy, Idle, RestartsCounted,
              Steps, Origins

\* Every step keeps it.
LEMMA NextStructure == Structure /\ [Next]_vars => Structure'
<1> SUFFICES ASSUME Structure, [Next]_vars
             PROVE  Structure'
  OBVIOUS
<1>1. CASE UNCHANGED vars
  BY <1>1 DEF Structure, TypeOK, CommandHasOrigin, HasOrigin, Busy, RestartsCounted,
              vars, broker, disk, history, loop, record
<1>2. ASSUME NEW e \in EAs, NEW s \in Signals, NEW via \in {"poll", "ws"}, Receive(e, s, via)
      PROVE  Structure'
  BY <1>2, ReceiveKeeps
<1>3. ASSUME NEW e \in EAs, Work(e)
      PROVE  Structure'
  BY <1>3, ExecuteKeeps, AfterMessageKeeps, AcknowledgeKeeps, StartDrainKeeps,
     DrainItemKeeps, AfterDrainKeeps, EndDrainKeeps DEF Work, Drain
<1>4. ASSUME NEW e \in EAs, Restart(e)
      PROVE  Structure'
  BY <1>4, RestartKeeps
<1> QED
  BY <1>1, <1>2, <1>3, <1>4, OutsideKeeps DEF Next

\* The queue never grows past SQ_MAX_SIZE nor the record past
\* MAX_EXECUTED_SIGNALS, and a drain's counters stay within their limits.
THEOREM TypeCorrect == Spec => []TypeOK
<1>1. Structure => TypeOK
  BY DEF Structure
<1> QED
  BY InitStructure, NextStructure, <1>1, PTL DEF Spec

-----------------------------------------------------------------------------
(* There is one right to order a signal at most.                           *)

\* A step moves the rights of one instance about, f saying where each was, and
\* makes none.
LEMMA RightsMove ==
    ASSUME NEW s \in Signals, NEW e \in EAs, NEW f \in [Nat -> Nat], RightOf(s),
           orders'[s] = orders[s], lock'[s] = lock[s],
           \A d \in EAs, i \in Nat : d # e /\ May(d, i, s)' => May(d, i, s),
           \A i \in Nat : May(e, i, s)' => May(e, f[i], s),
           \A i \in Nat, j \in Nat : May(e, i, s)' /\ May(e, j, s)' /\ f[i] = f[j] => i = j
    PROVE  RightOf(s)'
<1>1. ASSUME NEW d \in EAs, NEW i \in Nat, May(d, i, s)'
      PROVE  \E j \in Nat : May(d, j, s)
  <2>1. CASE d = e
    BY <1>1, <2>1
  <2>2. CASE d # e
    BY <1>1, <2>2
  <2> QED
    BY <2>1, <2>2
<1>2. ASSUME NEW e1 \in EAs, NEW e2 \in EAs, NEW i1 \in Nat, NEW i2 \in Nat,
             May(e1, i1, s)', May(e2, i2, s)'
      PROVE  e1 = e2 /\ i1 = i2
  <2>1. e1 = e2
    BY <1>1, <1>2 DEF RightOf
  <2>2. CASE e1 = e
    <3>1. f[i1] \in Nat /\ f[i2] \in Nat /\ May(e, f[i1], s) /\ May(e, f[i2], s)
      BY <1>2, <2>1, <2>2
    <3>2. f[i1] = f[i2]
      BY <3>1 DEF RightOf
    <3> QED
      BY <1>2, <2>1, <2>2, <3>2
  <2>3. CASE e1 # e
    BY <1>2, <2>1, <2>3 DEF RightOf
  <2> QED
    BY <2>1, <2>2, <2>3
<1> QED
  BY <1>1, <1>2 DEF RightOf

\* The rights stay where they are, or some are given up.
LEMMA RightsStay ==
    ASSUME NEW s \in Signals, RightOf(s), orders'[s] = orders[s], lock'[s] = lock[s],
           \A d \in EAs, i \in Nat : May(d, i, s)' => May(d, i, s)
    PROVE  RightOf(s)'
BY DEF RightOf

\* What other instances do leaves one's rights alone.
LEMMA OthersKeep ==
    ASSUME NEW s \in Signals, NEW d \in EAs, NEW i \in Nat,
           task'[d] = task[d], cursor'[d] = cursor[d], queue'[d] = queue[d], May(d, i, s)'
    PROVE  May(d, i, s)
BY DEF May, TaskMay, ItemMay

\* Moving a command on takes no right from the queue's items, unless it has just
\* succeeded, and gives none.
LEMMA ItemsStay ==
    ASSUME Tasks, NEW s \in Signals, NEW e \in EAs, NEW step \in Steps, Goto(e, step),
           UNCHANGED <<cursor, queue>>,
           step = "true" \/ task[e].step \notin {"save", "true"},
           NEW d \in EAs, NEW i \in Nat, i # 0 \/ d # e, May(d, i, s)'
    PROVE  May(d, i, s)
<1>1. /\ task'[e].step = step
      /\ \A c \in EAs : c # e => task'[c] = task[c]
  BY GotoFacts
<1>2. CASE d = e
  BY <1>1, <1>2 DEF May, ItemMay
<1>3. CASE d # e
  BY <1>1, <1>3, OthersKeep
<1> QED
  BY <1>2, <1>3

\* ExecuteCommand: the lock file makes a signal's right, the order spends it.
LEMMA ExecuteRight ==
    ASSUME Structure, NEW e \in EAs, Execute(e), NEW s \in Signals,
           s \notin unguarded', s \notin unguarded => RightOf(s)
    PROVE  RightOf(s)'
<1> DEFINE t == task[e].signal
<1>1. Tasks /\ TypeOK /\ CommandHasOrigin
  BY DEF Structure, TypeOK, Tasks
<1>2. CASE CheckLock(e)
  <2>1. PICK step \in {"create", "true"} : Goto(e, step)
    BY <1>2 DEF CheckLock
  <2>2. /\ UNCHANGED <<cursor, queue>> /\ orders' = orders /\ lock' = lock
        /\ unguarded' = unguarded /\ task[e].step = "lock"
    BY <1>2 DEF CheckLock, broker, disk, history, loop
  <2>3. step \in Steps /\ task'[e].step = step
    BY <1>1, <2>1, GotoFacts DEF Steps
  <2>4. ASSUME NEW d \in EAs, NEW i \in Nat, May(d, i, s)'
        PROVE  May(d, i, s)
    <3>1. CASE i # 0 \/ d # e
      BY <1>1, <2>1, <2>2, <2>3, <2>4, <3>1, ItemsStay
    <3>2. CASE i = 0 /\ d = e
      BY <2>1, <2>3, <2>4, <3>2 DEF May, TaskMay
    <3> QED
      BY <3>1, <3>2
  <2> QED
    BY <2>2, <2>4, RightsStay
<1>3. CASE CreateLock(e)
  <2>1. /\ Goto(e, "gate") /\ UNCHANGED <<cursor, queue>> /\ orders' = orders
        /\ task[e].step = "create" /\ "gate" \in Steps
    BY <1>3 DEF CreateLock, broker, loop, Steps
  <2>2. s \notin unguarded /\ (t = s => lock[s] = NoEA /\ lock'[s] = e)
        /\ (t # s => lock'[s] = lock[s])
    BY <1>1, <1>3 DEF CreateLock, TypeOK
  <2>3. ASSUME NEW d \in EAs, NEW i \in Nat, i # 0 \/ d # e, May(d, i, s)'
        PROVE  May(d, i, s)
    BY <1>1, <2>1, <2>3, ItemsStay
  <2>4. CASE t = s
    <3>1. orders[s] = 0 /\ \A d \in EAs, i \in Nat : ~May(d, i, s)
      BY <2>2, <2>4 DEF RightOf
    <3>2. \A d \in EAs, i \in Nat : May(d, i, s)' => d = e /\ i = 0
      BY <2>3, <3>1
    <3> QED
      BY <2>1, <2>2, <2>4, <3>1, <3>2 DEF RightOf
  <2>5. CASE t # s
    <3>1. task'[e].signal = t
      BY <1>1, <2>1, GotoFacts
    <3>2. ~May(e, 0, s)'
      BY <2>5, <3>1 DEF May, TaskMay
    <3> QED
      BY <2>1, <2>2, <2>3, <2>5, <3>2, RightsStay
  <2> QED
    BY <2>4, <2>5
<1>4. CASE Refuse(e) \/ Scan(e)
  <2>1. PICK step \in {"false", "save", "order"} : Goto(e, step)
    BY <1>4 DEF Refuse, Scan
  <2>2. /\ UNCHANGED <<cursor, queue>> /\ orders' = orders /\ lock' = lock
        /\ unguarded' = unguarded /\ task[e].step = "gate"
    BY <1>4 DEF Refuse, Scan, broker, disk, history, loop
  <2>3. /\ step \in Steps /\ task'[e].step = step
        /\ task'[e].signal = task[e].signal /\ task'[e].from = task[e].from
    BY <1>1, <2>1, GotoFacts DEF Steps
  <2>4. ASSUME NEW d \in EAs, NEW i \in Nat, May(d, i, s)'
        PROVE  May(d, i, s)
    <3>1. CASE i # 0 \/ d # e
      BY <1>1, <2>1, <2>2, <2>3, <2>4, <3>1, ItemsStay
    <3>2. CASE i = 0 /\ d = e
      BY <2>1, <2>2, <2>3, <2>4, <3>2 DEF May, TaskMay
    <3> QED
      BY <3>1, <3>2
  <2> QED
    BY <2>2, <2>4, RightsStay
<1>5. CASE PlaceOrder(e)
  <2>1. PICK step \in {"save", "false", "closed"} :
           Goto(e, step) /\ (IF step = "save" THEN orders' = [orders EXCEPT ![t] = @ + 1]
                             ELSE orders' = orders)
    BY <1>5 DEF PlaceOrder
  <2>2. /\ UNCHANGED <<cursor, queue>> /\ lock' = lock
        /\ unguarded' = unguarded /\ task[e].step = "order"
    BY <1>5 DEF PlaceOrder, disk, history, loop
  <2>3. /\ step \in Steps /\ task'[e].step = step
        /\ task'[e].signal = task[e].signal /\ task'[e].from = task[e].from
        /\ \A d \in EAs : d # e => task'[d] = task[d]
    BY <1>1, <2>1, GotoFacts DEF Steps
  <2>4. ASSUME NEW d \in EAs, NEW i \in Nat, May(d, i, s)'
        PROVE  May(d, i, s)
    <3>1. CASE i # 0 \/ d # e
      BY <1>1, <2>1, <2>2, <2>3, <2>4, <3>1, ItemsStay
    <3>2. CASE i = 0 /\ d = e
      BY <2>1, <2>2, <2>3, <2>4, <3>2 DEF May, TaskMay
    <3> QED
      BY <3>1, <3>2
  <2>5. CASE step # "save" \/ t # s
    <3>1. orders'[s] = orders[s]
      BY <1>1, <2>1, <2>5 DEF TypeOK
    <3> QED
      BY <2>2, <2>4, <3>1, RightsStay
  <2>6. CASE step = "save" /\ t = s
    <3>1. HasOrigin(e)
      BY <1>1, <2>2 DEF CommandHasOrigin, Busy
    <3>2. PICK i \in Nat : May(e, i, s) /\ ~May(e, i, s)'
      <4>1. CASE task[e].from = "retry"
        <5>1. PICK i \in Nat \ {0} :
                 /\ i = cursor[e] /\ i \in DOMAIN queue[e]
                 /\ queue[e][i].signal = s /\ queue[e][i].retry
          <6>1. Queues
            BY <1>1 DEF TypeOK, Queues
          <6> QED
            BY <2>6, <3>1, <4>1, <6>1, QueueItems DEF HasOrigin
        <5>2. May(e, i, s)
          BY <2>2, <5>1 DEF May, ItemMay
        <5>3. ~May(e, i, s)'
          BY <2>2, <2>3, <2>6, <5>1 DEF May, ItemMay
        <5> QED
          BY <5>2, <5>3
      <4>2. CASE task[e].from # "retry"
        <5>1. May(e, 0, s) /\ ~May(e, 0, s)'
          BY <2>2, <2>3, <2>6, <4>2 DEF May, TaskMay
        <5> QED
          BY <5>1
      <4> QED
        BY <4>1, <4>2
    <3>3. orders[s] = 0 /\ lock[s] # NoEA /\ orders'[s] = 1
      <4>1. orders \in [Signals -> Nat]
        BY <1>1 DEF TypeOK
      <4> QED
        BY <2>1, <2>2, <2>6, <3>2, <4>1 DEF RightOf
    <3>4. ASSUME NEW d \in EAs, NEW j \in Nat, May(d, j, s)'
          PROVE  FALSE
      <4>1. May(d, j, s)
        BY <2>4, <3>4
      <4>2. d = e /\ j = i
        BY <2>2, <3>2, <4>1 DEF RightOf
      <4> QED
        BY <3>2, <3>4, <4>2
    <3> QED
      BY <2>2, <3>3, <3>4 DEF RightOf
  <2> QED
    BY <2>5, <2>6
<1>6. CASE SaveExecuted(e)
  <2>1. /\ Goto(e, "true") /\ UNCHANGED <<cursor, queue>> /\ orders' = orders /\ lock' = lock
        /\ unguarded' = unguarded /\ task[e].step = "save" /\ "true" \in Steps
    BY <1>6 DEF SaveExecuted, broker, history, loop, Steps
  <2>2. task'[e].step = "true"
    BY <1>1, <2>1, GotoFacts
  <2>3. ASSUME NEW d \in EAs, NEW i \in Nat, May(d, i, s)'
        PROVE  May(d, i, s)
    <3>1. CASE i # 0 \/ d # e
      BY <1>1, <2>1, <2>3, <3>1, ItemsStay
    <3>2. CASE i = 0 /\ d = e
      BY <2>2, <2>3, <3>2 DEF May, TaskMay
    <3> QED
      BY <3>1, <3>2
  <2> QED
    BY <2>1, <2>3, RightsStay
<1> QED
  BY <1>2, <1>3, <1>4, <1>5, <1>6 DEF Execute

\* A push moves the rights of the queue's items by the same k places and adds a
\* right, at the last place n, only if the item is one for a retry.
LEMMA PushedRights ==
    ASSUME Queues, NEW e \in EAs, NEW item \in Items, cursor[e] = 0,
           queue'[e] = Append(Newest(queue[e], QueueMax - 1), item)
    PROVE  \E k \in Nat, n \in Nat \ {0} :
              \A s \in Signals, j \in Nat \ {0} :
                 May(e, j, s)' => \/ j = n /\ item.signal = s /\ item.retry
                                  \/ j < n /\ May(e, j + k, s)
<1>1. /\ queue[e] \in Seq(Items) /\ Len(queue[e]) \in Nat
      /\ DOMAIN queue[e] = 1 .. Len(queue[e])
  BY QueueItems
<1>2. PICK p : p = queue'[e]
  OBVIOUS
<1>3. /\ p \in Seq(Items) /\ Len(p) \in 1 .. QueueMax /\ p[Len(p)] = item
      /\ Shifted(p, Len(p) - 1, queue[e])
  <2>1. PICK q \in Seq(Items) : q = queue[e]
    BY <1>1
  <2>2. p = Append(Newest(q, QueueMax - 1), item)
    BY <1>2, <2>1
  <2>3. p \in Seq(Items) /\ Len(p) \in 1 .. QueueMax /\ p[Len(p)] = item
    BY <2>2, PushFacts
  <2>4. Shifted(p, Len(p) - 1, q)
    BY <2>2, PushFacts
  <2> QED
    BY <2>1, <2>3, <2>4
<1>4. DOMAIN p = 1 .. Len(p)
  BY <1>3, LenProperties
<1>5. PICK n \in Nat \ {0} : n = Len(p)
  BY <1>3
<1>6. PICK k \in Nat : /\ n - 1 + k = Len(queue[e])
                       /\ \A j \in 1 .. (n - 1) : p[j] = queue[e][j + k]
  BY <1>3, <1>5 DEF Shifted
<1>7. ASSUME NEW s \in Signals, NEW j \in Nat \ {0}, May(e, j, s)'
      PROVE  (j = n /\ item.signal = s /\ item.retry) \/ (j < n /\ May(e, j + k, s))
  <2>1. j \in 1 .. n /\ p[j].signal = s /\ p[j].retry
    BY <1>2, <1>4, <1>5, <1>7 DEF May, ItemMay
  <2>2. CASE j = n
    BY <1>3, <1>5, <2>1, <2>2
  <2>3. CASE j < n
    <3>1. j \in 1 .. (n - 1) /\ j + k \in 1 .. Len(queue[e]) /\ j + k # 0
      BY <1>1, <1>6, <2>1, <2>3
    <3>2. p[j] = queue[e][j + k]
      BY <1>6, <3>1
    <3> QED
      BY <1>1, <2>1, <2>3, <3>1, <3>2 DEF May, ItemMay
  <2> QED
    BY <2>1, <2>2, <2>3
<1> QED
  BY <1>7

\* Removing the item under the cursor moves up the rights behind it.
LEMMA RemovedRights ==
    ASSUME Queues, NEW e \in EAs, NEW i \in 1 .. Len(queue[e]), cursor[e] = i,
           queue' = [queue EXCEPT ![e] = Without(@, i)],
           NEW s \in Signals, NEW j \in Nat \ {0}, May(e, j, s)'
    PROVE  May(e, IF j < i THEN j ELSE j + 1, s)
<1> DEFINE r == Without(queue[e], i)
<1>1. /\ queue[e] \in Seq(Items) /\ Len(queue[e]) \in Nat
      /\ DOMAIN queue[e] = 1 .. Len(queue[e])
  BY QueueItems
<1>2. queue'[e] = r
  BY DEF Queues
<1>3. /\ r \in Seq(Items) /\ Len(r) = Len(queue[e]) - 1
      /\ \A k \in 1 .. (Len(queue[e]) - 1) :
            r[k] = IF k < i THEN queue[e][k] ELSE queue[e][k + 1]
  BY <1>1, WithoutFacts
<1> HIDE DEF r
<1>4. DOMAIN r = 1 .. Len(r)
  BY <1>3, LenProperties
<1>5. j \in 1 .. (Len(queue[e]) - 1) /\ r[j].signal = s /\ r[j].retry
  BY <1>1, <1>2, <1>3, <1>4 DEF May, ItemMay
<1>6. CASE j < i
  BY <1>1, <1>3, <1>5, <1>6 DEF May, ItemMay
<1>7. CASE ~(j < i)
  <2>1. j + 1 \in 1 .. Len(queue[e]) /\ j + 1 # i /\ j + 1 # 0 /\ r[j] = queue[e][j + 1]
    BY <1>1, <1>3, <1>5, <1>7
  <2> QED
    BY <1>1, <1>5, <1>7, <2>1 DEF May, ItemMay
<1> QED
  BY <1>6, <1>7

\* A queue pushed to outside of a drain, by a command that gives up the right it
\* had: the item takes that right over, or has none.
LEMMA PushRight ==
    ASSUME Queues, NEW e \in EAs, NEW item \in Items, NEW s \in Signals, RightOf(s),
           cursor[e] = 0, queue'[e] = Append(Newest(queue[e], QueueMax - 1), item),
           item.signal = s /\ item.retry => May(e, 0, s),
           ~May(e, 0, s)', orders' = orders, lock' = lock,
           \A d \in EAs : d # e => /\ queue'[d] = queue[d] /\ task'[d] = task[d]
                                   /\ cursor'[d] = cursor[d]
    PROVE  RightOf(s)'
<1>1. PICK k \in Nat, n \in Nat \ {0} :
         \A j \in Nat \ {0} :
            May(e, j, s)' => \/ j = n /\ item.signal = s /\ item.retry
                             \/ j < n /\ May(e, j + k, s)
  BY PushedRights
<1>2. PICK f \in [Nat -> Nat] : \A j \in Nat : f[j] = IF j = n THEN 0 ELSE j + k
  <2> DEFINE g == [j \in Nat |-> IF j = n THEN 0 ELSE j + k]
  <2>1. g \in [Nat -> Nat] /\ \A j \in Nat : g[j] = IF j = n THEN 0 ELSE j + k
    OBVIOUS
  <2> QED
    BY <2>1
<1>3. ASSUME NEW d \in EAs, NEW j \in Nat, d # e, May(d, j, s)'
      PROVE  May(d, j, s)
  BY <1>3, OthersKeep
<1>4. ASSUME NEW j \in Nat, May(e, j, s)'
      PROVE  j # 0 /\ May(e, f[j], s)
  <2>1. j # 0
    BY <1>4
  <2>2. CASE j = n
    <3>1. item.signal = s /\ item.retry /\ f[j] = 0
      BY <1>1, <1>2, <1>4, <2>1, <2>2
    <3> QED
      BY <2>1, <3>1
  <2>3. CASE j # n
    <3>1. May(e, j + k, s) /\ f[j] = j + k
      BY <1>1, <1>2, <1>4, <2>1, <2>3
    <3> QED
      BY <2>1, <3>1
  <2> QED
    BY <2>2, <2>3
<1>5. ASSUME NEW i \in Nat, NEW j \in Nat, May(e, i, s)', May(e, j, s)', f[i] = f[j]
      PROVE  i = j
  <2>1. i # 0 /\ j # 0
    BY <1>4, <1>5
  <2>2. (i = n => f[i] = 0) /\ (j = n => f[j] = 0)
        /\ (i # n => f[i] = i + k) /\ (j # n => f[j] = j + k)
    BY <1>2
  <2>3. CASE i = n /\ j # n
    BY <1>5, <2>1, <2>2, <2>3
  <2>4. CASE i # n /\ j = n
    BY <1>5, <2>1, <2>2, <2>4
  <2>5. CASE i # n /\ j # n
    <3>1. i + k = j + k
      BY <1>5, <2>2, <2>5
    <3> QED
      BY <3>1
  <2> QED
    BY <2>3, <2>4, <2>5
<1>6. orders'[s] = orders[s] /\ lock'[s] = lock[s]
  OBVIOUS
<1> QED
  BY <1>3, <1>4, <1>5, <1>6, RightsMove

\* A copy that arrives brings no right.
LEMMA ReceiveRight ==
    ASSUME Structure, NEW e \in EAs, NEW x \in Signals, NEW via \in {"poll", "ws"},
           Receive(e, x, via), NEW s \in Signals, RightOf(s)
    PROVE  RightOf(s)'
<1>1. Queues /\ Tasks
  BY DEF Structure, TypeOK, Queues, Tasks
<1>2. /\ cursor[e] = 0 /\ task[e].step = "idle" /\ UNCHANGED cursor
      /\ orders' = orders /\ lock' = lock
  BY DEF Receive, Between, broker, disk, loop
<1>3. PICK step \in {"ackOnly", "true", "lock"} : Begin(e, x, "message", step)
  BY DEF Receive, FirstStep
<1>4. task'[e].step = step /\ \A d \in EAs : d # e => task'[d] = task[d]
  <2>1. step \in Steps /\ "message" \in Origins
    BY DEF Steps, Origins
  <2>2. /\ task'[e] = [step |-> step, signal |-> x, from |-> "message"]
        /\ \A d \in EAs : d # e => task'[d] = task[d]
    BY <1>1, <1>3, <2>1, BeginFacts
  <2> QED
    BY <2>2
<1>5. ~May(e, 0, s)'
  BY <1>3, <1>4 DEF May, TaskMay
<1>6. \/ queue' = queue
      \/ queue' = [queue EXCEPT ![e] = Push(@, x, FALSE)]
  <2>1. queue = [queue EXCEPT ![e] = queue[e]]
    BY <1>1 DEF Queues
  <2> QED
    BY <2>1 DEF Receive
<1>7. CASE queue' = queue
  <2>1. ASSUME NEW d \in EAs, NEW i \in Nat, May(d, i, s)'
        PROVE  May(d, i, s)
    <3>1. CASE d = e
      BY <1>2, <1>5, <1>7, <2>1, <3>1 DEF May, ItemMay
    <3>2. CASE d # e
      BY <1>2, <1>4, <1>7, <2>1, <3>2, OthersKeep
    <3> QED
      BY <3>1, <3>2
  <2> QED
    BY <1>2, <2>1, RightsStay
<1>8. CASE queue' = [queue EXCEPT ![e] = Push(@, x, FALSE)]
  <2>1. PICK item \in Items : ~item.retry /\ Push(queue[e], x, FALSE) =
                                 Append(Newest(queue[e], QueueMax - 1), item)
    <3>1. FALSE \in BOOLEAN
      OBVIOUS
    <3> QED
      BY <3>1, PushAppends
  <2>2. /\ queue'[e] = Append(Newest(queue[e], QueueMax - 1), item)
        /\ \A d \in EAs : d # e => queue'[d] = queue[d]
    BY <1>1, <1>8, <2>1 DEF Queues
  <2> QED
    BY <1>1, <1>2, <1>4, <1>5, <2>1, <2>2, PushRight
<1> QED
  BY <1>6, <1>7, <1>8

\* The post-check hands the right of a failed command to the queued item.
LEMMA AfterMessageRight ==
    ASSUME Structure, NEW e \in EAs, AfterMessage(e), NEW s \in Signals, RightOf(s)
    PROVE  RightOf(s)'
<1> DEFINE x == task[e].signal
           queued == \/ task[e].step = "closed"
                     \/ task[e].step = "false" /\ market = "closed"
<1>1. Queues /\ Tasks
  BY DEF Structure, TypeOK, Queues, Tasks
<1>2. /\ cursor[e] = 0 /\ task[e].step \in {"true", "false", "closed"}
      /\ task[e].from = "message" /\ x \in Signals
      /\ UNCHANGED cursor /\ orders' = orders /\ lock' = lock
  BY DEF Structure, CommandHasOrigin, HasOrigin, Busy, AfterMessage, broker, disk, loop
<1>3. PICK step \in {"ackOnly", "ackSave"} : Goto(e, step)
  BY DEF AfterMessage
<1>4. task'[e].step = step /\ \A d \in EAs : d # e => task'[d] = task[d]
  BY <1>1, <1>3, GotoFacts DEF Steps
<1>5. ~May(e, 0, s)'
  BY <1>3, <1>4 DEF May, TaskMay
<1>6. IF queued THEN queue' = [queue EXCEPT ![e] = Push(@, x, TRUE)] ELSE queue' = queue
  <2>1. queue = [queue EXCEPT ![e] = queue[e]]
    BY <1>1 DEF Queues
  <2> QED
    BY <2>1 DEF AfterMessage
<1>7. CASE ~queued
  <2>1. ASSUME NEW d \in EAs, NEW i \in Nat, May(d, i, s)'
        PROVE  May(d, i, s)
    <3>1. CASE d = e
      BY <1>2, <1>5, <1>6, <1>7, <2>1, <3>1 DEF May, ItemMay
    <3>2. CASE d # e
      BY <1>2, <1>4, <1>6, <1>7, <2>1, <3>2, OthersKeep
    <3> QED
      BY <3>1, <3>2
  <2> QED
    BY <1>2, <2>1, RightsStay
<1>8. CASE queued
  <2>1. PICK item \in Items : /\ item.signal = x
                              /\ Push(queue[e], x, TRUE) =
                                    Append(Newest(queue[e], QueueMax - 1), item)
    <3>1. TRUE \in BOOLEAN
      OBVIOUS
    <3> QED
      BY ZenonT(30), <1>2, <3>1, PushAppends
  <2>2. /\ queue'[e] = Append(Newest(queue[e], QueueMax - 1), item)
        /\ \A d \in EAs : d # e => queue'[d] = queue[d]
    BY <1>1, <1>6, <1>8, <2>1 DEF Queues
  <2>3. item.signal = s => May(e, 0, s)
    BY <1>2, <1>8, <2>1 DEF May, TaskMay
  <2> QED
    BY <1>1, <1>2, <1>4, <1>5, <2>2, <2>3, PushRight
<1> QED
  BY <1>7, <1>8

\* A step of e that leaves its queue alone and no command of its own running.
LEMMA IdleRight ==
    ASSUME NEW e \in EAs, NEW s \in Signals, RightOf(s),
           task[e].step \notin {"save", "true"}, task'[e].step = "idle",
           queue' = queue, orders' = orders, lock' = lock,
           \A d \in EAs : d # e => task'[d] = task[d] /\ cursor'[d] = cursor[d]
    PROVE  RightOf(s)'
<1>1. ASSUME NEW d \in EAs, NEW i \in Nat, May(d, i, s)'
      PROVE  May(d, i, s)
  <2>1. CASE d = e
    BY <1>1, <2>1 DEF May, TaskMay, ItemMay
  <2>2. CASE d # e
    BY <1>1, <2>2, OthersKeep
  <2> QED
    BY <2>1, <2>2
<1> QED
  BY <1>1, RightsStay

\* A drain takes the item at its cursor away: whatever right it had is gone.
LEMMA RemoveRight ==
    ASSUME Queues, NEW e \in EAs, NEW s \in Signals, RightOf(s),
           NEW i \in 1 .. Len(queue[e]), cursor[e] = i,
           queue' = [queue EXCEPT ![e] = Without(@, i)],
           task'[e].step = "idle", orders' = orders, lock' = lock,
           \A d \in EAs : d # e => task'[d] = task[d] /\ cursor'[d] = cursor[d]
    PROVE  RightOf(s)'
<1>1. i \in Nat \ {0}
  BY QueueItems
<1>2. PICK f \in [Nat -> Nat] : \A j \in Nat : f[j] = IF j < i THEN j ELSE j + 1
  <2> DEFINE g == [j \in Nat |-> IF j < i THEN j ELSE j + 1]
  <2>1. g \in [Nat -> Nat] /\ \A j \in Nat : g[j] = IF j < i THEN j ELSE j + 1
    BY <1>1
  <2> QED
    BY <2>1
<1>3. ASSUME NEW d \in EAs, NEW j \in Nat, d # e, May(d, j, s)'
      PROVE  May(d, j, s)
  <2>1. queue'[d] = queue[d]
    BY <1>3 DEF Queues
  <2> QED
    BY <1>3, <2>1, OthersKeep
<1>4. ASSUME NEW j \in Nat, May(e, j, s)'
      PROVE  May(e, f[j], s)
  <2>1. j # 0
    BY <1>4 DEF May, TaskMay
  <2>2. May(e, IF j < i THEN j ELSE j + 1, s)
    BY <1>4, <2>1, RemovedRights
  <2> QED
    BY <1>2, <2>2
<1>5. ASSUME NEW j \in Nat, NEW k \in Nat, May(e, j, s)', May(e, k, s)', f[j] = f[k]
      PROVE  j = k
  <2>1. /\ (j < i => f[j] = j) /\ (~(j < i) => f[j] = j + 1)
        /\ (k < i => f[k] = k) /\ (~(k < i) => f[k] = k + 1)
    BY <1>2
  <2>2. CASE j < i /\ k < i
    BY <1>5, <2>1, <2>2
  <2>3. CASE j < i /\ ~(k < i)
    BY <1>1, <1>5, <2>1, <2>3
  <2>4. CASE ~(j < i) /\ k < i
    BY <1>1, <1>5, <2>1, <2>4
  <2>5. CASE ~(j < i) /\ ~(k < i)
    <3>1. j + 1 = k + 1
      BY <1>5, <2>1, <2>5
    <3> QED
      BY <3>1
  <2> QED
    BY <2>2, <2>3, <2>4, <2>5
<1>6. orders'[s] = orders[s] /\ lock'[s] = lock[s]
  OBVIOUS
<1> QED
  BY <1>3, <1>4, <1>5, <1>6, RightsMove

\* An acknowledgement brings no right.
LEMMA AcknowledgeRight ==
    ASSUME Structure, NEW e \in EAs, Acknowledge(e), NEW s \in Signals, RightOf(s)
    PROVE  RightOf(s)'
<1>1. task'[e] = Idle /\ \A d \in EAs : d # e => task'[d] = task[d]
  <2>1. Tasks
    BY DEF Structure, TypeOK, Tasks
  <2> QED
    BY <2>1, IdleFacts DEF Acknowledge
<1>2. /\ UNCHANGED <<cursor, queue>> /\ orders' = orders /\ lock' = lock
      /\ task[e].step \in {"ackSave", "ackOnly"}
  BY DEF Acknowledge, broker, loop
<1>3. task'[e].step = "idle"
  BY <1>1 DEF Idle
<1> QED
  BY <1>1, <1>2, <1>3, IdleRight

\* A turn of the drain's loop brings no right.
LEMMA DrainItemRight ==
    ASSUME Structure, NEW e \in EAs, DrainItem(e), NEW s \in Signals, RightOf(s)
    PROVE  RightOf(s)'
<1> DEFINE i == cursor[e]
           item == queue[e][i]
           from == IF item.retry THEN "retry" ELSE "first"
           step == FirstStep(e, item.signal, from)
<1>1. /\ Queues /\ Tasks /\ task[e].step = "idle" /\ orders' = orders /\ lock' = lock
      /\ i \in DOMAIN queue[e] /\ cursor \in [EAs -> 0 .. (QueueMax + 1)]
  BY DEF Structure, TypeOK, Queues, Tasks, DrainItem, broker, disk, record
<1>2. i \in 1 .. Len(queue[e])
  BY <1>1, QueueItems
<1>3. CASE queue' = [queue EXCEPT ![e] = Without(@, i)] /\ UNCHANGED <<task, cursor>>
  <2>1. PICK k \in 1 .. Len(queue[e]) : k = cursor[e]
    BY <1>2
  <2>2. queue' = [queue EXCEPT ![e] = Without(@, k)]
    BY <1>3, <2>1
  <2> QED
    BY <1>1, <1>3, <2>1, <2>2, RemoveRight
<1>4. CASE cursor' = [cursor EXCEPT ![e] = i + 1] /\ UNCHANGED <<task, queue>>
  <2>1. \A d \in EAs : d # e => cursor'[d] = cursor[d]
    BY <1>1, <1>4
  <2> QED
    BY <1>1, <1>4, <2>1, IdleRight
<1>5. CASE Begin(e, item.signal, from, step) /\ UNCHANGED <<cursor, queue>>
  <2>1. PICK x \in Signals, o \in {"retry", "first"}, p \in {"true", "gate", "lock"} :
           Begin(e, x, o, p) /\ (p = "gate" => o = "retry")
    <3>1. item.signal \in Signals
      BY <1>1, <1>2, QueueItems DEF Items
    <3>2. from \in {"retry", "first"} /\ step \in {"true", "gate", "lock"}
          /\ (step = "gate" => from = "retry")
      BY DEF FirstStep
    <3> QED
      BY <1>5, <3>1, <3>2
  <2>2. task'[e] = [step |-> p, signal |-> x, from |-> o]
        /\ \A d \in EAs : d # e => task'[d] = task[d]
    <3>1. p \in Steps /\ o \in Origins
      BY DEF Steps, Origins
    <3> QED
      BY <1>1, <2>1, <3>1, BeginFacts
  <2>3. ASSUME NEW d \in EAs, NEW j \in Nat, May(d, j, s)'
        PROVE  May(d, j, s)
    <3>1. CASE d = e
      <4>1. j # 0
        BY <2>1, <2>2, <2>3, <3>1 DEF May, TaskMay
      <4> QED
        BY <1>1, <1>5, <2>3, <3>1, <4>1 DEF May, ItemMay
    <3>2. CASE d # e
      BY <1>5, <2>2, <2>3, <3>2, OthersKeep
    <3> QED
      BY <3>1, <3>2
  <2> QED
    BY <1>1, <2>3, RightsStay
<1> QED
  BY <1>3, <1>4, <1>5 DEF DrainItem

\* What becomes of a drained item brings no right.
LEMMA AfterDrainRight ==
    ASSUME Structure, NEW e \in EAs, AfterDrain(e), NEW s \in Signals, RightOf(s)
    PROVE  RightOf(s)'
<1> DEFINE again == task[e].step = "closed" /\ queue[e][cursor[e]].retries + 1 < MaxRetries
<1>1. /\ Queues /\ Tasks /\ orders' = orders /\ lock' = lock
      /\ cursor \in [EAs -> 0 .. (QueueMax + 1)]
      /\ queue' = [queue EXCEPT ![e] = IF again THEN Again(@, cursor[e])
                                       ELSE Without(@, cursor[e])]
      /\ cursor' = [cursor EXCEPT ![e] = IF again THEN cursor[e] + 1 ELSE cursor[e]]
  BY DEF Structure, TypeOK, Queues, Tasks, AfterDrain, broker, record
<1>2. PICK i \in 1 .. Len(queue[e]) : i = cursor[e]
  BY DEF Structure, CommandHasOrigin, HasOrigin, Busy, AfterDrain
<1>3. task'[e].step = "idle" /\ \A d \in EAs : d # e => task'[d] = task[d]
  <2>1. task'[e] = Idle /\ \A d \in EAs : d # e => task'[d] = task[d]
    BY <1>1, IdleFacts DEF AfterDrain
  <2> QED
    BY <2>1 DEF Idle
<1>4. \A d \in EAs : d # e => cursor'[d] = cursor[d] /\ queue'[d] = queue[d]
  BY <1>1 DEF Queues
<1>5. CASE ~again
  <2>1. queue' = [queue EXCEPT ![e] = Without(@, i)]
    BY <1>1, <1>2, <1>5
  <2> QED
    BY <1>1, <1>2, <1>3, <1>4, <2>1, RemoveRight
<1>6. CASE again
  <2>1. queue'[e] = Again(queue[e], i)
    BY <1>1, <1>2, <1>6 DEF Queues
  <2>2. /\ queue[e] \in Seq(Items) /\ DOMAIN queue[e] = 1 .. Len(queue[e])
        /\ queue[e][i].retries + 1 < MaxRetries
    BY <1>1, <1>2, <1>6, QueueItems
  <2>3. /\ Again(queue[e], i) \in Seq(Items) /\ Len(Again(queue[e], i)) = Len(queue[e])
        /\ \A j \in 1 .. Len(queue[e]) : /\ Again(queue[e], i)[j].signal = queue[e][j].signal
                                         /\ Again(queue[e], i)[j].retry = queue[e][j].retry
    BY <2>2, AgainFacts
  <2>4. DOMAIN queue'[e] = DOMAIN queue[e]
    BY <2>1, <2>2, <2>3, LenProperties
  <2>5. ASSUME NEW d \in EAs, NEW j \in Nat, May(d, j, s)'
        PROVE  May(d, j, s)
    <3>1. CASE d = e
      <4>1. j # 0 /\ task[e].step = "closed"
        BY <1>3, <1>6, <2>5, <3>1 DEF May, TaskMay
      <4> QED
        BY <2>1, <2>2, <2>3, <2>4, <2>5, <3>1, <4>1 DEF May, ItemMay
    <3>2. CASE d # e
      BY <1>3, <1>4, <2>5, <3>2, OthersKeep
    <3> QED
      BY <3>1, <3>2
  <2> QED
    BY <1>1, <2>5, RightsStay
<1> QED
  BY <1>5, <1>6

\* No step of a drain brings a right.
LEMMA DrainRight ==
    ASSUME Structure, NEW e \in EAs, Drain(e), NEW s \in Signals, RightOf(s)
    PROVE  RightOf(s)'
<1>1. CASE StartDrain(e) \/ EndDrain(e)
  <2>1. /\ task[e].step = "idle" /\ UNCHANGED <<task, queue>> /\ orders' = orders /\ lock' = lock
        /\ cursor \in [EAs -> 0 .. (QueueMax + 1)]
        /\ \/ cursor' = [cursor EXCEPT ![e] = 1]
           \/ cursor' = [cursor EXCEPT ![e] = 0]
    BY <1>1 DEF Structure, TypeOK, StartDrain, EndDrain, Between, broker, disk, record
  <2>2. \A d \in EAs : d # e => cursor'[d] = cursor[d]
    BY <2>1
  <2> QED
    BY <2>1, <2>2, IdleRight
<1>2. CASE DrainItem(e)
  BY <1>2, DrainItemRight
<1>3. CASE AfterDrain(e)
  BY <1>3, AfterDrainRight
<1> QED
  BY <1>1, <1>2, <1>3 DEF Drain

\* The market, the clock and the broker bring no right.
LEMMA OutsideRight ==
    ASSUME Structure, MarketMoves \/ Tick \/ \E x \in Signals : ClosePosition(x),
           NEW s \in Signals, RightOf(s)
    PROVE  RightOf(s)'
<1>1. UNCHANGED <<task, cursor>> /\ orders' = orders /\ lock' = lock
  BY DEF MarketMoves, Tick, ClosePosition, broker, disk, loop
<1>2. CASE Tick
  <2>1. Queues
    BY DEF Structure, TypeOK, Queues
  <2>2. \A e \in EAs : /\ DOMAIN queue'[e] = DOMAIN queue[e]
                       /\ DOMAIN queue[e] = 1 .. Len(queue[e])
                       /\ \A i \in 1 .. Len(queue[e]) :
                             /\ queue'[e][i].signal = queue[e][i].signal
                             /\ queue'[e][i].retry = queue[e][i].retry
    BY <1>2, <2>1, TickFacts, QueueItems
  <2>3. ASSUME NEW d \in EAs, NEW i \in Nat, May(d, i, s)'
        PROVE  May(d, i, s)
    BY <1>1, <2>2, <2>3 DEF May, TaskMay, ItemMay
  <2> QED
    BY <1>1, <2>3, RightsStay
<1>3. CASE ~Tick
  <2>1. queue' = queue
    BY <1>3 DEF MarketMoves, ClosePosition
  <2>2. ASSUME NEW d \in EAs, NEW i \in Nat, May(d, i, s)'
        PROVE  May(d, i, s)
    BY <1>1, <2>1, <2>2 DEF May, TaskMay, ItemMay
  <2> QED
    BY <1>1, <2>2, RightsStay
<1> QED
  BY <1>2, <1>3

\* No signal has a right at the start.
LEMMA InitOneRight == Init => OneRight
<1> SUFFICES ASSUME Init, NEW s \in Signals
             PROVE  RightOf(s)
  BY DEF OneRight
<1>1. \A e \in EAs, i \in Nat : ~May(e, i, s)
  <2>1. DOMAIN <<>> = {}
    OBVIOUS
  <2> QED
    BY <2>1 DEF Init, Idle, May, TaskMay, ItemMay
<1> QED
  BY <1>1 DEF Init, RightOf

\* Every step keeps to one right a signal.
LEMMA NextOneRight == Structure /\ OneRight /\ [Next]_vars => OneRight'
<1> SUFFICES ASSUME Structure, OneRight, [Next]_vars
             PROVE  OneRight'
  OBVIOUS
<1>1. CASE \E e \in EAs : Restart(e)
  <2>1. restarts' = restarts + 1 /\ restarts \in Nat
    BY <1>1 DEF Restart, Structure, TypeOK
  <2> QED
    BY <2>1 DEF OneRight
<1>2. CASE UNCHANGED vars
  BY <1>2 DEF OneRight, RightOf, May, TaskMay, ItemMay, vars, broker, disk, history, loop
<1>3. CASE \E e \in EAs : Execute(e)
  <2>1. PICK e \in EAs : Execute(e)
    BY <1>3
  <2>2. restarts' = restarts /\ unguarded \subseteq unguarded'
    BY <2>1 DEF Execute, CheckLock, CreateLock, Refuse, Scan, PlaceOrder, SaveExecuted, history
  <2>3. ASSUME restarts' = 0, NEW s \in Signals, s \notin unguarded'
        PROVE  RightOf(s)'
    BY <2>1, <2>2, <2>3, ExecuteRight DEF OneRight
  <2> QED
    BY <2>3 DEF OneRight
<1>4. CASE \/ \E e \in EAs : \/ \E s \in Signals, via \in {"poll", "ws"} : Receive(e, s, via)
                             \/ AfterMessage(e) \/ Acknowledge(e) \/ Drain(e)
           \/ MarketMoves \/ Tick \/ \E s \in Signals : ClosePosition(s)
  <2>1. UNCHANGED <<restarts, unguarded>>
    BY ZenonT(60), <1>4 DEF Receive, AfterMessage, Acknowledge, Drain, StartDrain, DrainItem, AfterDrain,
                EndDrain, MarketMoves, Tick, ClosePosition, history
  <2>2. ASSUME restarts' = 0, NEW s \in Signals, s \notin unguarded'
        PROVE  RightOf(s)'
    <3>1. RightOf(s)
      BY <2>1, <2>2 DEF OneRight
    <3> QED
      BY <1>4, <3>1, ReceiveRight, AfterMessageRight, AcknowledgeRight, DrainRight, OutsideRight
  <2> QED
    BY <2>2 DEF OneRight
<1> QED
  BY <1>1, <1>2, <1>3, <1>4 DEF Next, Work

\* As long as no instance restarts, a signal is ordered at most once unless two
\* instances passed the lock-file check before either wrote the file, or one
\* could not write it: queues, retries, expiry, refusals and the size of the
\* record change nothing.
THEOREM OrdersOnceBehindLock == Spec => []LockExcludes
<1>1. Init => IInv
  BY InitStructure, InitOneRight DEF IInv
<1>2. IInv /\ [Next]_vars => IInv'
  BY NextStructure, NextOneRight DEF IInv
<1>3. IInv => LockExcludes
  <2> SUFFICES ASSUME OneRight, restarts = 0, NEW s \in Signals, s \notin unguarded
               PROVE  orders[s] <= 1
    BY DEF IInv, LockExcludes
  <2>1. RightOf(s)
    BY DEF OneRight
  <2> QED
    BY <2>1 DEF RightOf
<1> QED
  BY <1>1, <1>2, <1>3, PTL DEF Spec

-----------------------------------------------------------------------------
(* Every order has its explanation.                                        *)

\* A command under way that may still order, or has just ordered.
UnderWay == {"lock", "create", "gate", "order", "save"}

\* What ExecuteCommand runs was not on record when it started, and still is not.
Unexecuted == \A e \in EAs : task[e].step \in UnderWay => ~Known(e, task[e].signal)

\* The instance has s on record, or has ordered it and is about to record it.
Accounted(s) ==
    \E e \in EAs : Known(e, s) \/ (task[e].step = "save" /\ task[e].signal = s)

\* An order is placed where the broker holds nothing, and the one since the last
\* start is accounted for.
OrdersAccounted ==
    /\ \A e \in EAs : task[e].step = "order" => positions[task[e].signal] = 0
    /\ \A s \in Signals : positions[s] <= 1
    /\ \A s \in Signals : s \notin forgotten =>
          \/ orders[s] <= restarts
          \/ orders[s] <= restarts + 1 /\ Accounted(s)

Explained == Unexecuted /\ (Alone => OrdersAccounted)

\* SaveExecutedSignal puts s on record; what goes off the record is forgotten.
LEMMA RememberFacts ==
    ASSUME Structure, NEW e \in EAs, NEW s \in Signals, Remember(e, s)
    PROVE  /\ Known(e, s)' /\ forgotten \subseteq forgotten'
           /\ \A x \in Signals : Known(e, x) => Known(e, x)' \/ x \in forgotten'
           /\ \A d \in EAs : d # e => memory'[d] = memory[d]
<1> DEFINE m == Append(memory[e], s)
           r == Newest(m, MemoryMax)
<1>1. memory \in [EAs -> Seq(Signals)]
  BY DEF Structure, TypeOK
<1>2. /\ memory' = [memory EXCEPT ![e] = r]
      /\ forgotten' = forgotten \cup (Elements(memory[e]) \ Elements(memory'[e]))
  BY DEF Remember
<1>3. m \in Seq(Signals) /\ Len(m) \in Nat \ {0} /\ m[Len(m)] = s
  <2>1. memory[e] \in Seq(Signals)
    BY <1>1
  <2>2. /\ m \in Seq(Signals) /\ Len(m) = Len(memory[e]) + 1
        /\ m[Len(memory[e]) + 1] = s /\ Len(memory[e]) \in Nat
    BY <2>1, AppendProperties, LenProperties
  <2> HIDE DEF m
  <2> QED
    BY <2>2
<1> HIDE DEF m
<1>4. s \in Elements(r)
  <2>1. /\ r \in Seq(Signals) /\ Len(r) = IF Len(m) > MemoryMax THEN MemoryMax ELSE Len(m)
        /\ \E k \in Nat : /\ Len(r) + k = Len(m)
                          /\ \A j \in 1 .. Len(r) : r[j] = m[j + k]
    BY <1>3, NewestFacts
  <2> HIDE DEF r
  <2>2. PICK k \in Nat : Len(r) + k = Len(m) /\ \A j \in 1 .. Len(r) : r[j] = m[j + k]
    BY <2>1
  <2>3. Len(r) \in Nat /\ Len(r) \in 1 .. Len(r)
    BY <1>3, <2>1
  <2>4. r[Len(r)] = s
    BY <1>3, <2>2, <2>3
  <2>5. DOMAIN r = 1 .. Len(r)
    BY <2>1, LenProperties
  <2> QED
    BY <2>3, <2>4, <2>5 DEF Elements
<1> HIDE DEF r
<1>5. memory'[e] = r /\ \A d \in EAs : d # e => memory'[d] = memory[d]
  BY <1>1, <1>2
<1> QED
  BY <1>2, <1>4, <1>5 DEF Known

\* A step that changes neither commands nor records, nor adds a position.
LEMMA NothingNew ==
    ASSUME Structure, Explained, UNCHANGED <<task, record, orders, restarts>>,
           \A s \in Signals : positions'[s] \in Nat /\ positions'[s] <= positions[s]
    PROVE  Explained'
<1>1. UNCHANGED <<task, memory, forgotten, orders, restarts>>
  BY DEF record
<1>2. Unexecuted'
  BY <1>1 DEF Explained, Unexecuted, Known
<1>3. ASSUME Alone
      PROVE  OrdersAccounted'
  <2>1. OrdersAccounted /\ positions \in [Signals -> Nat]
    BY <1>3 DEF Explained, Structure, TypeOK
  <2>2. ASSUME NEW e \in EAs, task'[e].step = "order"
        PROVE  positions'[task'[e].signal] = 0
    <3>1. task[e].signal \in Signals
      BY <1>1, <2>2 DEF Structure, CommandHasOrigin, HasOrigin, Busy
    <3>2. positions[task[e].signal] = 0
      BY <1>1, <2>1, <2>2 DEF OrdersAccounted
    <3> QED
      BY <1>1, <3>1, <3>2
  <2>3. ASSUME NEW s \in Signals
        PROVE  positions'[s] <= 1
    BY <2>1 DEF OrdersAccounted
  <2>4. \A s \in Signals : Accounted(s)' <=> Accounted(s)
    BY <1>1 DEF Accounted, Known
  <2> QED
    BY <1>1, <2>1, <2>2, <2>3, <2>4 DEF OrdersAccounted
<1> QED
  BY <1>2, <1>3 DEF Explained, Alone

\* A command that moves on, begins or ends without an order or a record.
LEMMA CommandMoves ==
    ASSUME Explained, NEW e \in EAs, UNCHANGED <<record, orders, positions, restarts>>,
           \A d \in EAs : d # e => task'[d] = task[d],
           task'[e].step \in UnderWay => ~Known(e, task'[e].signal),
           task'[e].step = "order" => positions[task'[e].signal] = 0,
           task[e].step # "save"
    PROVE  Explained'
<1>1. UNCHANGED <<memory, forgotten, orders, positions, restarts>>
  BY DEF record
<1>2. Unexecuted'
  BY <1>1 DEF Explained, Unexecuted, Known
<1>3. ASSUME Alone
      PROVE  OrdersAccounted'
  <2>1. OrdersAccounted
    BY <1>3 DEF Explained
  <2>2. \A s \in Signals : Accounted(s) => Accounted(s)'
    BY <1>1 DEF Accounted, Known
  <2>3. \A d \in EAs : task'[d].step = "order" => positions'[task'[d].signal] = 0
    BY <1>1, <2>1 DEF OrdersAccounted
  <2> QED
    BY <1>1, <2>1, <2>2, <2>3 DEF OrdersAccounted
<1> QED
  BY <1>2, <1>3 DEF Explained, Alone

\* A record that is written when the command has ended or is about to.
LEMMA RecordWritten ==
    ASSUME Structure, Explained, NEW e \in EAs, NEW x \in Signals, Remember(e, x),
           UNCHANGED <<orders, positions, restarts>>,
           \A d \in EAs : d # e => task'[d] = task[d],
           task'[e].step \notin UnderWay,
           task[e].step = "save" => task[e].signal = x
    PROVE  Explained'
<1>1. /\ Known(e, x)' /\ forgotten \subseteq forgotten'
      /\ \A y \in Signals : Known(e, y) => Known(e, y)' \/ y \in forgotten'
      /\ \A d \in EAs : d # e => memory'[d] = memory[d]
  BY RememberFacts
<1>2. Unexecuted'
  <2> SUFFICES ASSUME NEW d \in EAs, task'[d].step \in UnderWay
               PROVE  ~Known(d, task[d].signal)' /\ task'[d] = task[d]
    BY DEF Unexecuted, Known
  <2>1. d # e
    OBVIOUS
  <2> QED
    BY <1>1, <2>1 DEF Explained, Unexecuted, Known
<1>3. ASSUME Alone
      PROVE  OrdersAccounted'
  <2>1. OrdersAccounted /\ \A d \in EAs : d = e
    BY <1>3 DEF Explained, Alone
  <2>2. ASSUME NEW s \in Signals, s \notin forgotten', Accounted(s)
        PROVE  Accounted(s)'
    <3>1. Known(e, s) \/ s = x
      BY <2>1, <2>2 DEF Accounted
    <3>2. Known(e, s)'
      BY <1>1, <2>2, <3>1
    <3> QED
      BY <3>2 DEF Accounted, Known
  <2>3. task'[e].step # "order"
    BY DEF UnderWay
  <2>4. \A d \in EAs : task'[d].step = "order" => positions'[task'[d].signal] = 0
    BY <2>1, <2>3
  <2> QED
    BY <1>1, <2>1, <2>2, <2>4 DEF OrdersAccounted
<1> QED
  BY <1>2, <1>3 DEF Explained, Alone

\* A copy that arrives starts a command only for a signal not on record.
LEMMA ReceiveExplained ==
    ASSUME Structure, Explained, NEW e \in EAs, NEW s \in Signals, NEW via \in {"poll", "ws"},
           Receive(e, s, via)
    PROVE  Explained'
<1>1. Tasks /\ task[e].step = "idle" /\ UNCHANGED <<record, orders, positions, restarts>>
  BY DEF Structure, TypeOK, Tasks, Receive, Between, broker, history
<1>2. PICK step \in {"ackOnly", "true", "lock"} :
         Begin(e, s, "message", step) /\ (step = "lock" => ~Known(e, s))
  BY DEF Receive, FirstStep
<1>3. /\ task'[e] = [step |-> step, signal |-> s, from |-> "message"]
      /\ \A d \in EAs : d # e => task'[d] = task[d]
  <2>1. step \in Steps /\ "message" \in Origins
    BY DEF Steps, Origins
  <2> QED
    BY <1>1, <1>2, <2>1, BeginFacts
<1> QED
  BY <1>1, <1>2, <1>3, CommandMoves DEF UnderWay

\* The post-check and the acknowledgement order nothing.
LEMMA MessageExplained ==
    ASSUME Structure, Explained, NEW e \in EAs, AfterMessage(e) \/ Acknowledge(e)
    PROVE  Explained'
<1>1. Tasks /\ UNCHANGED <<orders, positions, restarts>> /\ task[e].signal \in Signals
      /\ task[e].step \in {"true", "false", "closed", "ackSave", "ackOnly"}
  BY DEF Structure, TypeOK, Tasks, CommandHasOrigin, HasOrigin, Busy, AfterMessage, Acknowledge,
         broker, history
<1>2. CASE AfterMessage(e)
  <2>1. PICK step \in {"ackOnly", "ackSave"} : Goto(e, step)
    BY <1>2 DEF AfterMessage
  <2>2. task'[e].step = step /\ \A d \in EAs : d # e => task'[d] = task[d]
    BY <1>1, <2>1, GotoFacts DEF Steps
  <2>3. UNCHANGED record
    BY <1>2 DEF AfterMessage
  <2> QED
    BY <1>1, <2>2, <2>3, CommandMoves DEF UnderWay
<1>3. CASE Acknowledge(e)
  <2>1. task'[e].step = "idle" /\ \A d \in EAs : d # e => task'[d] = task[d]
    <3>1. task'[e] = Idle /\ \A d \in EAs : d # e => task'[d] = task[d]
      BY <1>1, <1>3, IdleFacts DEF Acknowledge
    <3> QED
      BY <3>1 DEF Idle
  <2>2. Remember(e, task[e].signal) \/ UNCHANGED record
    BY <1>3 DEF Acknowledge
  <2>3. CASE Remember(e, task[e].signal)
    BY <1>1, <2>1, <2>3, RecordWritten DEF UnderWay
  <2>4. CASE UNCHANGED record
    BY <1>1, <2>1, <2>4, CommandMoves DEF UnderWay
  <2> QED
    BY <2>2, <2>3, <2>4
<1> QED
  BY <1>2, <1>3

\* The broker's fill is the order of a signal that was not accounted for.
LEMMA FillExplained ==
    ASSUME Structure, Explained, NEW e \in EAs, task[e].step = "order", Goto(e, "save"),
           UNCHANGED <<record, restarts>>,
           orders' = [orders EXCEPT ![task[e].signal] = @ + 1],
           positions' = [positions EXCEPT ![task[e].signal] = @ + 1]
    PROVE  Explained'
<1> PICK x \in Signals : x = task[e].signal
  BY DEF Structure, CommandHasOrigin, HasOrigin, Busy
<1>1. /\ Tasks /\ orders \in [Signals -> Nat] /\ positions \in [Signals -> Nat]
      /\ restarts \in Nat
      /\ UNCHANGED <<memory, forgotten, restarts>>
  BY SMTT(20) DEF Structure, TypeOK, Tasks, record
<1>2. /\ task'[e].step = "save" /\ task'[e].signal = x
      /\ \A d \in EAs : d # e => task'[d] = task[d]
  BY <1>1, GotoFacts DEF Steps
<1>3. ~Known(e, x)
  BY DEF Explained, Unexecuted, UnderWay
<1>4. Unexecuted'
  BY <1>1, <1>2, <1>3 DEF Explained, Unexecuted, Known
<1>5. ASSUME Alone
      PROVE  OrdersAccounted'
  <2>1. OrdersAccounted /\ \A d \in EAs : d = e
    BY <1>5 DEF Explained, Alone
  <2>2. positions[x] = 0 /\ ~Accounted(x)
    BY <1>3, <2>1 DEF OrdersAccounted, Accounted
  <2>3. Accounted(x)'
    BY <1>2 DEF Accounted
  <2>4. \A s \in Signals : Accounted(s) => Accounted(s)'
    BY <1>1, <2>1 DEF Accounted, Known
  <2>5. \A s \in Signals : positions'[s] <= 1
    BY <1>1, <2>1, <2>2 DEF OrdersAccounted
  <2>6. ASSUME NEW s \in Signals, s \notin forgotten
        PROVE  orders'[s] <= restarts \/ (orders'[s] <= restarts + 1 /\ Accounted(s)')
    <3>1. CASE s = x
      <4>1. orders[x] <= restarts /\ orders'[x] = orders[x] + 1
        BY <1>1, <2>1, <2>2, <2>6, <3>1 DEF OrdersAccounted
      <4> QED
        <5>1. orders'[s] <= restarts + 1
          <6>1. orders[x] \in Nat /\ restarts \in Nat
            BY <1>1
          <6>2. orders'[x] <= restarts + 1
            BY <4>1, <6>1
          <6> QED
            BY <3>1, <6>2
        <5>2. Accounted(s)'
          BY <2>3, <3>1
        <5> QED
          BY <5>1, <5>2
    <3>2. CASE s # x
      <4>1. orders'[s] = orders[s]
        BY <1>1, <3>2
      <4> QED
        BY <2>1, <2>4, <2>6, <4>1 DEF OrdersAccounted
    <3> QED
      BY <3>1, <3>2
  <2>7. \A d \in EAs : task'[d].step # "order"
    BY <1>2, <2>1
  <2> QED
    BY <1>1, <2>5, <2>6, <2>7 DEF OrdersAccounted
<1> QED
  BY <1>4, <1>5 DEF Explained, Alone

\* Each step of ExecuteCommand keeps the explanation.
LEMMA ExecuteExplained ==
    ASSUME Structure, Explained, NEW e \in EAs, Execute(e)
    PROVE  Explained'
<1>1. Tasks /\ task[e].signal \in Signals
      /\ (task[e].step \in UnderWay => ~Known(e, task[e].signal))
  BY DEF Structure, TypeOK, Tasks, CommandHasOrigin, HasOrigin, Busy, Explained, Unexecuted,
         Execute, CheckLock, CreateLock, Refuse, Scan, PlaceOrder, SaveExecuted
<1>2. ASSUME NEW step \in {"create", "gate", "true", "false", "closed", "save", "order"}, Goto(e, step)
      PROVE  /\ task'[e].step = step /\ task'[e].signal = task[e].signal
             /\ \A d \in EAs : d # e => task'[d] = task[d]
  BY <1>1, <1>2, GotoFacts DEF Steps
<1>3. CASE CheckLock(e)
  <2>1. /\ task[e].step = "lock" /\ (Goto(e, "create") \/ Goto(e, "true"))
        /\ UNCHANGED <<record, orders, positions, restarts>>
    BY <1>3 DEF CheckLock, broker, history
  <2> QED
    BY <1>1, <1>2, <2>1, CommandMoves DEF UnderWay
<1>4. CASE CreateLock(e)
  <2>1. /\ task[e].step = "create" /\ Goto(e, "gate")
        /\ UNCHANGED <<record, orders, positions, restarts>>
    BY <1>4 DEF CreateLock, broker
  <2> QED
    BY <1>1, <1>2, <2>1, CommandMoves DEF UnderWay
<1>5. CASE Refuse(e)
  <2>1. /\ task[e].step = "gate" /\ Goto(e, "false")
        /\ UNCHANGED <<record, orders, positions, restarts>>
    BY <1>5 DEF Refuse, history
  <2> QED
    BY <1>1, <1>2, <2>1, CommandMoves DEF UnderWay
<1>6. CASE Scan(e)
  <2>1. /\ task[e].step = "gate" /\ UNCHANGED <<record, orders, positions, restarts>>
        /\ \/ Goto(e, "save")
           \/ Goto(e, "order") /\ ~(positions[task[e].signal] > 0)
    BY <1>6 DEF Scan, broker, history
  <2>2. positions[task[e].signal] \in Nat
    BY <1>1 DEF Structure, TypeOK
  <2>3. CASE Goto(e, "save")
    BY <1>1, <1>2, <2>1, <2>3, CommandMoves DEF UnderWay
  <2>4. CASE Goto(e, "order") /\ ~(positions[task[e].signal] > 0)
    <3>1. positions[task[e].signal] = 0
      BY <2>2, <2>4
    <3>2. /\ task'[e].step = "order" /\ task'[e].signal = task[e].signal
          /\ \A d \in EAs : d # e => task'[d] = task[d]
      BY <1>2, <2>4
    <3>3. ~Known(e, task[e].signal)
      BY <1>1, <2>1 DEF UnderWay
    <3> QED
      BY <2>1, <3>1, <3>2, <3>3, CommandMoves
  <2> QED
    BY <2>1, <2>3, <2>4
<1>7. CASE PlaceOrder(e)
  <2>1. /\ task[e].step = "order" /\ UNCHANGED <<record, restarts>>
        /\ \/ /\ orders' = [orders EXCEPT ![task[e].signal] = @ + 1]
              /\ positions' = [positions EXCEPT ![task[e].signal] = @ + 1]
              /\ Goto(e, "save")
           \/ /\ Goto(e, "false") \/ Goto(e, "closed")
              /\ UNCHANGED <<orders, positions>>
    BY <1>7 DEF PlaceOrder, history
  <2>2. CASE /\ Goto(e, "false") \/ Goto(e, "closed")
             /\ UNCHANGED <<orders, positions>>
    BY <1>1, <1>2, <2>1, <2>2, CommandMoves DEF UnderWay
  <2> QED
    BY <2>1, <2>2, FillExplained
<1>8. CASE SaveExecuted(e)
  <2>1. /\ Remember(e, task[e].signal) /\ Goto(e, "true")
        /\ UNCHANGED <<orders, positions, restarts>>
    BY <1>8 DEF SaveExecuted, broker, history
  <2> QED
    BY <1>1, <1>2, <2>1, RecordWritten DEF UnderWay
<1> QED
  BY <1>3, <1>4, <1>5, <1>6, <1>7, <1>8 DEF Execute

\* A drain starts a command only for a signal not on record.
LEMMA DrainExplained ==
    ASSUME Structure, Explained, NEW e \in EAs, Drain(e)
    PROVE  Explained'
<1>1. Tasks /\ UNCHANGED <<orders, positions, restarts>>
  BY DEF Structure, TypeOK, Tasks, Drain, StartDrain, DrainItem, AfterDrain, EndDrain, broker, history
<1>2. CASE UNCHANGED <<task, record>>
  <2>1. \A s \in Signals : positions'[s] \in Nat /\ positions'[s] <= positions[s]
    BY <1>1 DEF Structure, TypeOK
  <2> QED
    BY <1>1, <1>2, <2>1, NothingNew
<1>3. CASE DrainItem(e)
  <2>1. UNCHANGED record /\ task[e].step = "idle"
    BY <1>3 DEF DrainItem
  <2>2. CASE UNCHANGED task
    BY <1>2, <2>1, <2>2
  <2>3. CASE task' # task
    <3> DEFINE item == queue[e][cursor[e]]
    <3>1. item.signal \in Signals
      <4>1. Queues
        BY DEF Structure, TypeOK, Queues
      <4> QED
        BY <1>3, <4>1, QueueItems DEF DrainItem, Items
    <3>2. PICK x \in Signals, o \in Origins, p \in {"true", "gate", "lock"} :
             Begin(e, x, o, p) /\ (p # "true" => ~Known(e, x))
      BY <1>3, <2>3, <3>1 DEF DrainItem, FirstStep, Origins
    <3>3. /\ task'[e] = [step |-> p, signal |-> x, from |-> o]
          /\ \A d \in EAs : d # e => task'[d] = task[d]
      <4>1. p \in Steps
        BY DEF Steps
      <4> QED
        BY <1>1, <3>2, <4>1, BeginFacts
    <3> QED
      BY <1>1, <2>1, <3>2, <3>3, CommandMoves DEF UnderWay
  <2> QED
    BY <2>2, <2>3
<1>4. CASE AfterDrain(e)
  <2>1. /\ task[e].step \in {"true", "false", "closed"} /\ task[e].signal \in Signals
        /\ (Remember(e, task[e].signal) \/ UNCHANGED record)
    BY <1>4 DEF Structure, CommandHasOrigin, HasOrigin, Busy, AfterDrain
  <2>2. task'[e].step = "idle" /\ \A d \in EAs : d # e => task'[d] = task[d]
    <3>1. task'[e] = Idle /\ \A d \in EAs : d # e => task'[d] = task[d]
      BY <1>1, <1>4, IdleFacts DEF AfterDrain
    <3> QED
      BY <3>1 DEF Idle
  <2>3. CASE Remember(e, task[e].signal)
    BY <1>1, <2>1, <2>2, <2>3, RecordWritten DEF UnderWay
  <2>4. CASE UNCHANGED record
    BY <1>1, <2>1, <2>2, <2>4, CommandMoves DEF UnderWay
  <2> QED
    BY <2>1, <2>3, <2>4
<1>5. CASE StartDrain(e) \/ EndDrain(e)
  BY <1>2, <1>5 DEF StartDrain, EndDrain
<1> QED
  BY <1>3, <1>4, <1>5 DEF Drain

\* A restart may lose the record, and is counted.
LEMMA RestartExplained ==
    ASSUME Structure, Explained, NEW e \in EAs, Restart(e)
    PROVE  Explained'
<1>1. /\ Tasks /\ memory \in [EAs -> Seq(Signals)]
      /\ restarts \in Nat /\ \A s \in Signals : orders[s] \in Nat
      /\ UNCHANGED <<orders, positions, forgotten>> /\ restarts' = restarts + 1
  BY DEF Structure, TypeOK, Tasks, Restart, broker
<1>2. task'[e].step = "idle" /\ \A d \in EAs : d # e => task'[d] = task[d]
  <2>1. task'[e] = Idle /\ \A d \in EAs : d # e => task'[d] = task[d]
    BY <1>1, IdleFacts DEF Restart
  <2> QED
    BY <2>1 DEF Idle
<1>3. \A d \in EAs : d # e => memory'[d] = memory[d]
  BY <1>1 DEF Restart, Recall
<1>4. Unexecuted'
  <2> SUFFICES ASSUME NEW d \in EAs, task'[d].step \in UnderWay
               PROVE  ~Known(d, task[d].signal)' /\ task'[d] = task[d]
    BY DEF Unexecuted, Known
  <2>1. d # e
    BY <1>2 DEF UnderWay
  <2> QED
    BY <1>2, <1>3, <2>1 DEF Explained, Unexecuted, Known
<1>5. ASSUME Alone
      PROVE  OrdersAccounted'
  <2>1. OrdersAccounted /\ \A d \in EAs : d = e
    BY <1>5 DEF Explained, Alone
  <2>2. \A d \in EAs : task'[d].step # "order"
    BY <1>2, <2>1
  <2>3. \A s \in Signals : s \notin forgotten => orders[s] <= restarts'
    BY <1>1, <2>1 DEF OrdersAccounted
  <2> QED
    BY <1>1, <2>1, <2>2, <2>3 DEF OrdersAccounted
<1> QED
  BY <1>4, <1>5 DEF Explained, Alone

\* The market, the clock and the broker order nothing.
LEMMA OutsideExplained ==
    ASSUME Structure, Explained, MarketMoves \/ Tick \/ \E s \in Signals : ClosePosition(s)
    PROVE  Explained'
<1>1. UNCHANGED <<task, record, orders, restarts>> /\ positions \in [Signals -> Nat]
  BY DEF MarketMoves, Tick, ClosePosition, broker, history, Structure, TypeOK
<1>2. \/ positions' = positions
      \/ \E x \in Signals : positions[x] > 0 /\ positions' = [positions EXCEPT ![x] = @ - 1]
  BY DEF MarketMoves, Tick, ClosePosition, broker
<1>3. \A s \in Signals : positions'[s] \in Nat /\ positions'[s] <= positions[s]
  BY <1>1, <1>2
<1> QED
  BY <1>1, <1>3, NothingNew

\* Nothing is ordered at the start.
LEMMA InitExplained == Init => Explained
BY DEF Init, Explained, Unexecuted, OrdersAccounted, Idle, UnderWay

\* Every step keeps the explanation.
LEMMA NextExplained == Structure /\ Explained /\ [Next]_vars => Explained'
<1> SUFFICES ASSUME Structure, Explained, [Next]_vars
             PROVE  Explained'
  OBVIOUS
<1>1. CASE UNCHANGED vars
  <2>1. UNCHANGED <<task, record, orders, positions, restarts>>
    BY <1>1 DEF vars, broker, history
  <2>2. \A s \in Signals : positions'[s] \in Nat /\ positions'[s] <= positions[s]
    BY <2>1 DEF Structure, TypeOK
  <2> QED
    BY <2>1, <2>2, NothingNew
<1>2. ASSUME NEW e \in EAs, NEW s \in Signals, NEW via \in {"poll", "ws"}, Receive(e, s, via)
      PROVE  Explained'
  BY <1>2, ReceiveExplained
<1>3. ASSUME NEW e \in EAs, Work(e)
      PROVE  Explained'
  BY <1>3, ExecuteExplained, MessageExplained, DrainExplained DEF Work
<1>4. ASSUME NEW e \in EAs, Restart(e)
      PROVE  Explained'
  BY <1>4, RestartExplained
<1> QED
  BY <1>1, <1>2, <1>3, <1>4, OutsideExplained DEF Next

\* An instance alone on its license orders a signal once between two of its
\* starts unless newer signals pushed it out of the record, and never while the
\* broker still holds a position of that signal: for any number of signals, copies
\* and restarts, whatever a restart finds of the state file.
THEOREM OrdersAreExplained == Spec => []OrdersExplained
<1>1. Structure /\ Explained => OrdersExplained
  <2> SUFFICES ASSUME Structure, Explained, Alone, NEW s \in Signals
               PROVE  /\ positions[s] <= 1
                      /\ s \notin forgotten => orders[s] <= 1 + restarts
    BY DEF OrdersExplained
  <2>1. OrdersAccounted /\ orders[s] \in Nat /\ restarts \in Nat
    BY DEF Explained, Structure, TypeOK
  <2> QED
    BY <2>1 DEF OrdersAccounted
<1> QED
  BY InitStructure, NextStructure, InitExplained, NextExplained, <1>1, PTL DEF Spec
=============================================================================
