--------------------------- MODULE TerminalProofs ---------------------------
(*****************************************************************************)
(* What the DLL's connection (WsClient), the EA's update (EaUpdate) and the  *)
(* telemetry (Telemetry) promise, each for any values of its constants, and  *)
(* at the end their types as they run side by side in MCTerminal; the EA     *)
(* itself is in EaReceiverProofs.                                            *)
(*****************************************************************************)
EXTENDS MCTerminal, ListLemmas

-----------------------------------------------------------------------------
(*****************************************************************************)
(* WsClient                                                                  *)
(* RingInOrder is inductive with what the accumulator holds: the parts that  *)
(* were received since the last whole message, all but the one in the        *)
(* buffer, which one callback at most is using.  Messages are numbered, so   *)
(* that the ring's are before the accumulator's and after what was read.     *)
(*****************************************************************************)

USE WsClientAssumption

\* An index that has gone past the end of the ring at most once.
Wrap(x) == IF x < Depth THEN x ELSE x - Depth

\* That is what the remainder by the ring's depth is.
LEMMA Wrapped ==
    ASSUME NEW x \in Nat, x < Depth + Depth
    PROVE  x % Depth = Wrap(x) /\ Wrap(x) \in Slot
<1>1. Depth \in Nat \ {0}
  OBVIOUS
<1>2. x < Depth => x % Depth = x
  BY <1>1
<1>3. x >= Depth => x % Depth = x - Depth
  BY <1>1
<1>4. Wrap(x) \in Nat /\ Wrap(x) < Depth
  BY <1>1 DEF Wrap
<1> QED
  BY <1>1, <1>2, <1>3, <1>4 DEF Wrap, Slot

\* The ring's frames are where its indexes say.
RingSound ==
    /\ wr = (rd + cnt) % Depth
    /\ \A i \in 1..cnt : Contents[i] \in Seq(Parts) /\ Contents[i] # <<>>

\* The indexes, in their ranges.
LEMMA RingTypes ==
    ASSUME WcTypeOK
    PROVE  /\ Depth \in Nat \ {0} /\ rd \in Nat /\ rd < Depth /\ wr \in Nat /\ wr < Depth /\ cnt \in Nat /\ cnt <= Depth
           /\ Half \in Nat /\ Half <= Depth /\ slots \in [Slot -> Seq(Parts)]
           /\ (rd + cnt) % Depth = Wrap(rd + cnt)
<1>1. /\ Depth \in Nat \ {0} /\ rd \in Nat /\ rd < Depth /\ wr \in Nat /\ wr < Depth /\ cnt \in Nat /\ cnt <= Depth
      /\ slots \in [Slot -> Seq(Parts)]
  BY DEF WcTypeOK, Slot
<1>2. Half \in Nat /\ Half <= Depth
  BY DEF Half
<1>3. (rd + cnt) % Depth = Wrap(rd + cnt)
  <2> DEFINE x == rd + cnt
  <2>1. x \in Nat /\ x < Depth + Depth
    BY <1>1
  <2> HIDE DEF x
  <2>2. x % Depth = Wrap(x)
    BY <2>1, Wrapped
  <2> QED
    BY <2>2 DEF x
<1> QED
  BY <1>1, <1>2, <1>3

\* The cell that lies i behind another.
LEMMA CellIs ==
    ASSUME NEW r \in Nat, r < Depth, NEW i \in Nat, i <= Depth
    PROVE  (i > 0 => (r + i - 1) % Depth = Wrap(r + (i - 1))) /\ (r + i) % Depth = Wrap(r + i)
<1>1. i > 0 => (r + i - 1) % Depth = Wrap(r + (i - 1))
  <2> SUFFICES ASSUME i > 0 PROVE (r + i - 1) % Depth = Wrap(r + (i - 1))
    OBVIOUS
  <2> DEFINE x == r + (i - 1)
  <2>1. x \in Nat /\ x < Depth + Depth /\ r + i - 1 = x
    OBVIOUS
  <2> HIDE DEF x
  <2>2. x % Depth = Wrap(x)
    BY <2>1, Wrapped
  <2> QED
    BY <2>1, <2>2 DEF x
<1>2. (r + i) % Depth = Wrap(r + i)
  <2> DEFINE x == r + i
  <2>1. x \in Nat /\ x < Depth + Depth
    OBVIOUS
  <2> HIDE DEF x
  <2>2. x % Depth = Wrap(x)
    BY <2>1, Wrapped
  <2> QED
    BY <2>2 DEF x
<1> QED
  BY <1>1, <1>2

\* The frame that lies i behind the oldest.
LEMMA CellOf ==
    ASSUME WcTypeOK, NEW i \in 1..cnt
    PROVE  Contents[i] = slots[Wrap(rd + (i - 1))]
<1>1. rd \in Nat /\ rd < Depth /\ i \in Nat /\ i <= Depth /\ i > 0
  BY RingTypes
<1>2. (rd + i - 1) % Depth = Wrap(rd + (i - 1))
  BY <1>1, CellIs
<1>3. Contents[i] = slots[(rd + i - 1) % Depth]
  BY DEF Contents
<1> QED
  BY <1>2, <1>3

\* The same in the next state.
LEMMA CellThen ==
    ASSUME WcTypeOK', NEW i \in 1..cnt'
    PROVE  Contents'[i] = slots'[Wrap(rd' + (i - 1))]
<1>1. rd' \in Nat /\ rd' < Depth /\ i \in Nat /\ i <= Depth /\ i > 0
  BY DEF WcTypeOK, Slot
<1> DEFINE r == rd'
<1> HIDE DEF r
<1>2. r \in Nat /\ r < Depth
  BY <1>1 DEF r
<1>3. (r + i - 1) % Depth = Wrap(r + (i - 1))
  BY <1>1, <1>2, CellIs
<1>4. Contents'[i] = slots'[(rd' + i - 1) % Depth]
  BY DEF Contents
<1> QED
  BY <1>3, <1>4 DEF r

\* The next index.
LEMMA AfterIs == ASSUME NEW x \in Slot PROVE After(x) = Wrap(x + 1) /\ After(x) \in Slot
<1> DEFINE y == x + 1
<1>1. y \in Nat /\ y < Depth + Depth
  BY DEF Slot
<1>2. After(x) = y % Depth
  BY DEF After
<1> HIDE DEF y
<1>3. y % Depth = Wrap(y) /\ Wrap(y) \in Slot
  BY <1>1, Wrapped
<1>4. After(x) = Wrap(y) /\ After(x) \in Slot
  BY <1>2, <1>3
<1> QED
  BY <1>4 DEF y

\* One step along the ring, and then some.
LEMMA WrapTwice ==
    ASSUME NEW a \in Nat, NEW k \in Nat, a < Depth, k < Depth
    PROVE  Wrap(Wrap(a + 1) + k) = Wrap(a + (k + 1))
<1>1. Depth \in Nat /\ a + (k + 1) = (a + 1) + k
  BY RingTypes
<1>2. CASE a + 1 < Depth
  <2>1. Wrap(a + 1) = a + 1
    BY <1>2 DEF Wrap
  <2> QED
    BY <1>1, <2>1
<1>3. CASE ~(a + 1 < Depth)
  <2>1. a + 1 = Depth
    BY <1>1, <1>3
  <2>2. Wrap(a + 1) = 0 /\ 0 + k = k
    BY <1>1, <2>1 DEF Wrap
  <2>3. Wrap(k) = k
    BY DEF Wrap
  <2>4. Wrap(Depth + k) = k
    BY <1>1 DEF Wrap
  <2> QED
    BY <1>1, <2>1, <2>2, <2>3, <2>4
<1> QED
  BY <1>2, <1>3

\* A read takes the oldest frame.
LEMMA OldestTaken ==
    ASSUME WcTypeOK, WcTypeOK', wr = (rd + cnt) % Depth, cnt > 0, rd' = After(rd), cnt' = cnt - 1, UNCHANGED <<slots, wr>>
    PROVE  /\ wr' = (rd' + cnt') % Depth /\ Contents[1] = slots[rd]
           /\ \A i \in 1..cnt' : i + 1 \in 1..cnt /\ Contents'[i] = Contents[i + 1]
<1>1. rd \in Nat /\ rd < Depth /\ cnt \in Nat /\ cnt <= Depth /\ wr = Wrap(rd + cnt) /\ rd \in Slot /\ Depth \in Nat
  BY RingTypes DEF WcTypeOK
<1>2. rd' = Wrap(rd + 1)
  BY <1>1, AfterIs
<1>3. Contents[1] = slots[rd]
  <2>1. 1 \in 1..cnt /\ 1 - 1 = 0 /\ rd + 0 = rd
    BY <1>1
  <2>2. Contents[1] = slots[Wrap(rd + (1 - 1))]
    BY <2>1, CellOf
  <2>3. Wrap(rd) = rd
    BY <1>1 DEF Wrap
  <2> QED
    BY <2>1, <2>2, <2>3
<1>4. wr' = (rd' + cnt') % Depth
  <2>1. (rd' + cnt') % Depth = Wrap(rd' + cnt')
    <3> DEFINE r == rd'
               n == cnt'
    <3>1. r \in Nat /\ r < Depth /\ n \in Nat /\ n <= Depth
      BY DEF WcTypeOK, Slot
    <3> HIDE DEF r, n
    <3>2. (r + n) % Depth = Wrap(r + n)
      BY <3>1, CellIs
    <3> QED
      BY <3>2 DEF r, n
  <2>2. Wrap(Wrap(rd + 1) + (cnt - 1)) = Wrap(rd + cnt)
    <3>1. PICK k \in Nat : k = cnt - 1
      BY <1>1
    <3>2. k < Depth /\ rd + cnt = rd + (k + 1)
      BY <1>1, <3>1
    <3> QED
      BY SMTT(20), <1>1, <3>1, <3>2, WrapTwice
  <2> QED
    BY <1>1, <1>2, <2>1, <2>2
<1>5. ASSUME NEW i \in 1..cnt' PROVE i + 1 \in 1..cnt /\ Contents'[i] = Contents[i + 1]
  <2>1. i \in Nat /\ i + 1 \in 1..cnt /\ (i + 1) - 1 = i /\ i < Depth /\ i # 0
    BY SMTT(20), <1>1
  <2>2. Contents'[i] = slots[Wrap(rd' + (i - 1))]
    BY CellThen
  <2>3. Contents[i + 1] = slots[Wrap(rd + ((i + 1) - 1))]
    <3> DEFINE k == i + 1
    <3>1. k \in 1..cnt
      BY <2>1
    <3> HIDE DEF k
    <3>2. Contents[k] = slots[Wrap(rd + (k - 1))]
      BY <3>1, CellOf
    <3> QED
      BY <3>2 DEF k
  <2>4. Wrap(Wrap(rd + 1) + (i - 1)) = Wrap(rd + i)
    <3>1. PICK k \in Nat : k = i - 1
      BY <2>1
    <3>2. k < Depth /\ rd + i = rd + (k + 1)
      BY SMTT(20), <1>1, <2>1, <3>1
    <3> QED
      BY <1>1, <3>1, <3>2, WrapTwice
  <2> QED
    BY <1>2, <2>1, <2>2, <2>3, <2>4
<1> QED
  BY <1>3, <1>4, <1>5

\* What storing a frame does: it is discarded, or follows the others, of which a
\* full ring gives up the first.
LEMMA Stored ==
    ASSUME WcTypeOK, WcTypeOK', wr = (rd + cnt) % Depth, NEW frame \in Seq(Parts), Store(frame)
    PROVE  /\ wr' = (rd' + cnt') % Depth
           /\ \/ UNCHANGED <<slots, rd, wr, cnt>> /\ Discarded(frame)
              \/ /\ ~Discarded(frame) /\ cnt < Depth /\ cnt' = cnt + 1 /\ Contents'[cnt + 1] = frame
                 /\ \A i \in 1..cnt : Contents'[i] = Contents[i]
              \/ /\ ~Discarded(frame) /\ cnt = Depth /\ cnt' = cnt /\ Contents'[cnt] = frame
                 /\ \A i \in 1..(cnt - 1) : Contents'[i] = Contents[i + 1]
<1>1. /\ rd \in Nat /\ rd < Depth /\ cnt \in Nat /\ cnt <= Depth /\ wr = Wrap(rd + cnt) /\ rd \in Slot
      /\ wr \in Slot /\ Depth \in Nat \ {0} /\ slots \in [Slot -> Seq(Parts)]
  BY RingTypes DEF WcTypeOK
<1>2. (rd' + cnt') % Depth = Wrap(rd' + cnt') /\ rd' \in Nat /\ rd' < Depth /\ cnt' \in Nat
  <2> DEFINE r == rd'
             n == cnt'
  <2>1. r \in Nat /\ r < Depth /\ n \in Nat /\ n <= Depth
    <3>1. rd' \in Slot /\ cnt' \in 0..Depth
      BY DEF WcTypeOK
    <3> QED
      BY <1>1, <3>1 DEF Slot
  <2> HIDE DEF r, n
  <2>2. (r + n) % Depth = Wrap(r + n)
    BY <2>1, CellIs
  <2> QED
    BY <2>1, <2>2 DEF r, n
<1>3. CASE Discarded(frame)
  <2>1. UNCHANGED <<slots, rd, wr, cnt>>
    BY <1>3 DEF Store, ring
  <2> QED
    BY <1>3, <2>1
<1>4. CASE ~Discarded(frame) /\ cnt # Depth
  <2>1. slots' = [slots EXCEPT ![wr] = frame] /\ wr' = After(wr) /\ rd' = rd /\ cnt' = cnt + 1 /\ cnt < Depth
    BY <1>1, <1>4 DEF Store
  <2>2. wr' = Wrap(wr + 1)
    BY <1>1, <2>1, AfterIs
  <2>3. Wrap(Wrap(rd + cnt) + 1) = Wrap(rd + (cnt + 1))
    BY <1>1, <2>1 DEF Wrap
  <2>4. wr' = (rd' + cnt') % Depth
    BY <1>1, <1>2, <2>1, <2>2, <2>3
  <2>5. Contents'[cnt + 1] = frame
    <3> DEFINE k == cnt + 1
    <3>1. k \in 1..cnt' /\ k - 1 = cnt
      BY <1>1, <2>1
    <3> HIDE DEF k
    <3>2. Contents'[k] = slots'[Wrap(rd' + (k - 1))]
      BY <3>1, CellThen
    <3>3. slots'[wr] = frame
      BY <1>1, <2>1
    <3> QED
      BY <1>1, <2>1, <3>1, <3>2, <3>3 DEF k
  <2>6. ASSUME NEW i \in 1..cnt PROVE Contents'[i] = Contents[i]
    <3>1. i \in 1..cnt' /\ i - 1 \in Nat /\ i - 1 < cnt
      BY <1>1, <2>1
    <3>2. Contents'[i] = slots'[Wrap(rd' + (i - 1))] /\ Contents[i] = slots[Wrap(rd + (i - 1))]
      BY <3>1, CellThen, CellOf
    <3>3. Wrap(rd + (i - 1)) # Wrap(rd + cnt) /\ Wrap(rd + (i - 1)) \in Slot
      BY <1>1, <2>1, <3>1 DEF Wrap, Slot
    <3>4. slots'[Wrap(rd + (i - 1))] = slots[Wrap(rd + (i - 1))]
      <4> DEFINE x == Wrap(rd + (i - 1))
      <4>1. x # wr /\ x \in Slot
        BY <1>1, <3>3
      <4> HIDE DEF x
      <4>2. slots'[x] = slots[x]
        BY <1>1, <2>1, <4>1
      <4> QED
        BY <4>2 DEF x
    <3> QED
      BY <2>1, <3>2, <3>4
  <2> QED
    BY <1>4, <2>1, <2>4, <2>5, <2>6
<1>5. CASE ~Discarded(frame) /\ cnt = Depth
  <2>1. slots' = [slots EXCEPT ![wr] = frame] /\ wr' = After(wr) /\ rd' = After(rd) /\ cnt' = cnt
    BY <1>5 DEF Store
  <2>2. wr = rd
    BY <1>1, <1>5 DEF Wrap
  <2>3. rd' = Wrap(rd + 1) /\ wr' = Wrap(rd + 1)
    BY <1>1, <2>1, <2>2, AfterIs
  <2>4. wr' = (rd' + cnt') % Depth
    <3>1. Wrap(Wrap(rd + 1) + Depth) = Wrap(rd + 1)
      BY <1>1 DEF Wrap
    <3> QED
      BY <1>2, <1>5, <2>1, <2>3, <3>1
  <2>5. Contents'[cnt] = frame
    <3>1. cnt \in 1..cnt'
      BY <1>1, <1>5, <2>1
    <3>2. Contents'[cnt] = slots'[Wrap(rd' + (cnt - 1))]
      BY <3>1, CellThen
    <3>3. Wrap(Wrap(rd + 1) + (Depth - 1)) = rd
      BY <1>1 DEF Wrap
    <3>4. slots'[rd] = frame
      BY <1>1, <2>1, <2>2
    <3> QED
      BY <1>5, <2>3, <3>2, <3>3, <3>4
  <2>6. ASSUME NEW i \in 1..(cnt - 1) PROVE Contents'[i] = Contents[i + 1]
    <3> DEFINE k == i + 1
               x == Wrap(rd + i)
    <3>1. i \in 1..cnt' /\ k \in 1..cnt /\ k - 1 = i /\ i \in Nat /\ i < Depth /\ i # 0
      BY <1>1, <1>5, <2>1
    <3>2. Contents'[i] = slots'[Wrap(rd' + (i - 1))]
      BY <3>1, CellThen
    <3>3. Contents[k] = slots[Wrap(rd + (k - 1))]
      <4> HIDE DEF k
      <4> QED
        BY <3>1, CellOf
    <3>4. Wrap(Wrap(rd + 1) + (i - 1)) = x /\ x # rd /\ x \in Slot
      BY <1>1, <3>1 DEF Wrap, Slot
    <3>5. slots'[x] = slots[x]
      <4> HIDE DEF x
      <4> QED
        BY <1>1, <2>1, <2>2, <3>4
    <3> QED
      BY <2>3, <3>1, <3>2, <3>3, <3>4, <3>5
  <2> QED
    BY <1>5, <2>1, <2>4, <2>5, <2>6
<1> QED
  BY <1>3, <1>4, <1>5

-----------------------------------------------------------------------------
\* The low-priority frames in the ring, by their place.
LowFrames == {i \in 1..cnt : Head(Contents[i]).low}

\* A set of places moved by one is no larger.
LEMMA MovedPlaces ==
    ASSUME NEW n \in Nat, NEW S \in SUBSET (1..n), NEW T \in SUBSET Nat, \A i \in T : i + 1 \in S
    PROVE  IsFiniteSet(S) /\ Cardinality(S) \in Nat /\ Cardinality(T) \in Nat /\ Cardinality(T) <= Cardinality(S)
<1>1. IsFiniteSet(S)
  BY UpTo, FS_Subset
<1> DEFINE f == [i \in T |-> i + 1]
<1>2. f \in [T -> S] /\ \A i, j \in T : f[i] = f[j] => i = j
  OBVIOUS
<1>3. f \in Injection(T, S)
  BY <1>2 DEF Injection, IsInjective
<1>4. Cardinality(T) <= Cardinality(S) /\ IsFiniteSet(T)
  BY <1>1, <1>3, FS_Injection
<1> QED
  BY <1>1, <1>4, FS_CardinalityType

\* Up to half of a ring's places are no more than half.
LEMMA FewPlaces ==
    ASSUME NEW n \in Nat, NEW S \in SUBSET (1..n)
    PROVE  IsFiniteSet(S) /\ Cardinality(S) \in Nat /\ Cardinality(S) <= n
<1>1. IsFiniteSet(1..n) /\ Cardinality(1..n) = n
  BY UpTo
<1> QED
  BY <1>1, FS_Subset, FS_CardinalityType

-----------------------------------------------------------------------------
\* What the buffer holds, and which callback may be at it.
BufferSound ==
    /\ arrived > 0 => buffer = Stream[arrived]
    /\ \A c \in Callbacks : cb[c] = "read" => arrived > 0 /\ socket \in {"open", "gone"}
    /\ \A c \in Callbacks : cb[c] = "close" => ~alive
    /\ receiving => socket = "open"
    /\ mapped = "no" => socket = "none" /\ alive /\ mql = "idle"
    /\ mql \in {"free", "reset"} => ~valid

\* The parts of the stream.
LEMMA StreamParts ==
    /\ Len(Stream) \in Nat /\ DOMAIN Stream = 1..Len(Stream)
    /\ \A i \in 1..Len(Stream) : Stream[i] \in Parts
    /\ \A p \in Parts : p.msg \in Nat /\ p.last \in BOOLEAN /\ p.low \in BOOLEAN
<1>1. Stream \in Seq([msg : Nat, last : BOOLEAN, low : BOOLEAN])
  OBVIOUS
<1>2. Len(Stream) \in Nat /\ DOMAIN Stream = 1..Len(Stream)
  BY <1>1, LenProperties
<1>3. \A i \in 1..Len(Stream) : Stream[i] \in [msg : Nat, last : BOOLEAN, low : BOOLEAN]
  BY <1>1, <1>2, ElementOfSeq
<1>4. Parts = {Stream[i] : i \in DOMAIN Stream}
  BY DEF Parts, ToSet
<1> QED
  BY <1>2, <1>3, <1>4

\* The frame that is appended to.
LEMMA FrameTyped ==
    ASSUME WcTypeOK, BufferSound, NEW c \in Callbacks, cb[c] = "read"
    PROVE  buffer \in Parts /\ Append(acc, buffer) \in Seq(Parts) /\ Append(acc, buffer) # <<>>
<1>1. buffer \in Parts
  BY StreamParts DEF BufferSound, WcTypeOK
<1>2. acc \in Seq(Parts)
  BY DEF WcTypeOK
<1>3. Append(acc, buffer) \in Seq(Parts) /\ Len(Append(acc, buffer)) = Len(acc) + 1 /\ Len(acc) \in Nat
  BY <1>1, <1>2, AppendProperties, LenProperties
<1> QED
  BY <1>1, <1>3, EmptySeq

\* The types in the initial state,
LEMMA WcInitTypes == WcInit => WcTypeOK
<1> SUFFICES ASSUME WcInit PROVE WcTypeOK
  OBVIOUS
<1>1. <<>> \in Seq(Parts) /\ 0 \in Slot /\ 0 \in 0..Depth /\ 0 \in 0..MaxSends /\ 0 \in 0..Len(Stream)
  BY StreamParts DEF Slot
<1> QED
  BY <1>1 DEF WcInit, WcTypeOK, Callbacks

\* A receive that is started, or not.
LEMMA StartTyped == ASSUME WcTypeOK, StartRead PROVE reading' \in BOOLEAN /\ receiving' \in BOOLEAN /\ overtaken' \in BOOLEAN
  BY DEF WcTypeOK, StartRead

\* and after each step: the upgrade,
LEMMA TypesOfUpgrade == ASSUME WcTypeOK, Connect \/ Upgrade PROVE WcTypeOK'
<1>1. CASE Connect
  BY <1>1 DEF Connect, WcTypeOK, input, ring, wcHistory, Callbacks
<1>2. CASE OnSendRequestComplete
  BY <1>2 DEF OnSendRequestComplete, WcTypeOK, input, ring, wcHistory, Callbacks
<1>3. CASE OnHeadersAvailable
  BY <1>3 DEF OnHeadersAvailable, WcTypeOK, input, ring, wcHistory, Callbacks
<1> QED
  BY <1>1, <1>2, <1>3 DEF Upgrade

\* what a read calls back,
LEMMA TypesOfReads ==
    ASSUME WcTypeOK, NEW c \in Callbacks, ReadComplete(c) \/ ReadClose(c) \/ Chain(c) PROVE WcTypeOK'
<1>1. CASE ReadComplete(c)
  <2>1. arrived' \in 0..Len(Stream) /\ buffer' \in Parts \cup {NoPart}
    BY SMTT(20), <1>1, StreamParts DEF ReadComplete, WcTypeOK
  <2>2. reading' \in BOOLEAN /\ receiving' \in BOOLEAN
    BY <1>1 DEF ReadComplete
  <2>3. cb' \in [Callbacks -> {"idle", "read", "close", "chain", "sent"}]
    BY <1>1 DEF ReadComplete, WcTypeOK
  <2> QED
    BY <1>1, <2>1, <2>2, <2>3 DEF ReadComplete, WcTypeOK, link, ring, wcHistory
<1>2. CASE ReadClose(c)
  <2>1. reading' \in BOOLEAN /\ receiving' \in BOOLEAN /\ alive' \in BOOLEAN
    BY <1>2 DEF ReadClose
  <2>2. cb' \in [Callbacks -> {"idle", "read", "close", "chain", "sent"}]
    BY <1>2 DEF ReadClose, WcTypeOK
  <2> QED
    BY <1>2, <2>1, <2>2 DEF ReadClose, WcTypeOK, input, ring, wcHistory
<1>3. CASE Chain(c)
  <2>1. reading' \in BOOLEAN /\ receiving' \in BOOLEAN /\ overtaken' \in BOOLEAN
    <3>1. CASE state = "connected"
      BY <1>3, <3>1, StartTyped DEF Chain
    <3>2. CASE state # "connected"
      BY <1>3, <3>2 DEF Chain, WcTypeOK
    <3> QED
      BY <3>1, <3>2
  <2>2. cb' \in [Callbacks -> {"idle", "read", "close", "chain", "sent"}]
    BY <1>3 DEF Chain, WcTypeOK
  <2> QED
    BY <1>3, <2>1, <2>2 DEF Chain, WcTypeOK, link, input, ring
<1> QED
  BY <1>1, <1>2, <1>3

\* What a callback queues: a message, or what the close found of one.
Frame(c) == IF cb[c] = "read" THEN Append(acc, buffer) ELSE acc

\* It is queued, or stays in the accumulator, or there is nothing.
LEMMA QueuesFrame ==
    ASSUME WcTypeOK, BufferSound, NEW c \in Callbacks, Queue(c) \/ QueueRest(c)
    PROVE  /\ Frame(c) \in Seq(Parts) /\ (acc' = Frame(c) \/ acc' = <<>>)
           /\ UNCHANGED ring \/ (Frame(c) # <<>> /\ Store(Frame(c)))
<1>1. CASE Queue(c)
  <2>1. Append(acc, buffer) \in Seq(Parts) /\ Append(acc, buffer) # <<>>
    BY <1>1, FrameTyped DEF Queue
  <2>2. Frame(c) = Append(acc, buffer)
    BY <1>1 DEF Queue, Frame
  <2>3. (acc' = Append(acc, buffer) \/ acc' = <<>>) /\ (UNCHANGED ring \/ Store(Append(acc, buffer)))
    BY <1>1 DEF Queue, LeftOver
  <2> QED
    BY <2>1, <2>2, <2>3
<1>2. CASE QueueRest(c)
  <2>1. acc \in Seq(Parts)
    BY DEF WcTypeOK
  <2>2. Frame(c) = acc
    BY <1>2 DEF QueueRest, Frame
  <2>3. acc' = <<>> /\ (UNCHANGED ring \/ (acc # <<>> /\ Store(acc)))
    BY <1>2 DEF QueueRest, LeftOver
  <2> QED
    BY <2>1, <2>2, <2>3
<1> QED
  BY <1>1, <1>2

\* the queueing of a part,
LEMMA TypesOfQueue ==
    ASSUME WcTypeOK, BufferSound, NEW c \in Callbacks, Queue(c) \/ QueueRest(c) PROVE WcTypeOK'
<1> DEFINE f == Frame(c)
<1>0. /\ f \in Seq(Parts) /\ (acc' = f \/ acc' = <<>>)
      /\ UNCHANGED ring \/ (f # <<>> /\ Store(f))
  BY QueuesFrame
<1> HIDE DEF f
<1>1. f \in Seq(Parts) /\ <<>> \in Seq(Parts)
  BY <1>0
<1>2. cb' \in [Callbacks -> {"idle", "read", "close", "chain", "sent"}]
  BY DEF Queue, QueueRest, WcTypeOK
<1>3. acc' = f \/ acc' = <<>>
  BY <1>0
<1>4. UNCHANGED ring \/ Store(f)
  BY <1>0
<1>5. slots' \in [Slot -> Seq(Parts)] /\ rd' \in Slot /\ wr' \in Slot /\ cnt' \in 0..Depth
  <2>1. CASE UNCHANGED ring
    BY <2>1 DEF ring, WcTypeOK
  <2>2. CASE Store(f)
    <3>1. CASE Discarded(f)
      BY <2>2, <3>1 DEF Store, ring, WcTypeOK
    <3>2. CASE ~Discarded(f)
      <4>1. wr \in Slot /\ rd \in Slot /\ After(wr) \in Slot /\ After(rd) \in Slot
        BY AfterIs DEF WcTypeOK
      <4>2. /\ slots' = [slots EXCEPT ![wr] = f] /\ wr' = After(wr)
            /\ rd' = (IF cnt = Depth THEN After(rd) ELSE rd)
            /\ cnt' = (IF cnt = Depth THEN cnt ELSE cnt + 1)
        BY <2>2, <3>2 DEF Store
      <4> QED
        BY <1>1, <4>1, <4>2 DEF WcTypeOK
    <3> QED
      BY <3>1, <3>2
  <2> QED
    BY <1>4, <2>1, <2>2
<1>6. acc' \in Seq(Parts)
  BY <1>1, <1>3
<1>7. UNCHANGED <<state, link, reading, receiving, sending, writing, arrived, buffer, mql, sends, wcHistory>>
  BY DEF Queue, QueueRest
<1> QED
  BY SMTT(20), <1>2, <1>5, <1>6, <1>7 DEF WcTypeOK, link, wcHistory

\* the end of a send,
LEMMA TypesOfWrites ==
    ASSUME WcTypeOK, NEW c \in Callbacks, WriteComplete(c) \/ SendCompletes(c) PROVE WcTypeOK'
<1>1. cb' \in [Callbacks -> {"idle", "read", "close", "chain", "sent"}]
  BY DEF WriteComplete, SendCompletes, WcTypeOK
<1>2. CASE WriteComplete(c)
  <2>1. writing' \in BOOLEAN /\ sending' \in BOOLEAN
    BY <1>2 DEF WriteComplete
  <2> QED
    BY <1>1, <1>2, <2>1 DEF WriteComplete, WcTypeOK, link, input, ring, wcHistory
<1>3. CASE SendCompletes(c)
  <2>1. state' = "connected"
    BY <1>3 DEF SendCompletes
  <2> QED
    BY <1>1, <1>3, <2>1 DEF SendCompletes, WcTypeOK, link, input, ring, wcHistory
<1> QED
  BY <1>2, <1>3

\* the end of the connection,
LEMMA TypesOfEnds == ASSUME WcTypeOK, Breaks \/ OnError \/ Disconnect \/ CleanupHandles \/ ResetState PROVE WcTypeOK'
<1>1. CASE Breaks
  <2>1. alive' \in BOOLEAN
    BY <1>1 DEF Breaks
  <2> QED
    BY <1>1, <2>1 DEF Breaks, WcTypeOK, input, ring, wcHistory
<1>2. CASE OnError
  BY ZenonT(30), <1>2 DEF OnError, WcTypeOK, link, input, ring, wcHistory
<1>3. CASE Disconnect
  <2>1. state' \in {"closed", "closing", "connecting", "connected", "sending"}
    BY <1>3 DEF Disconnect, WcTypeOK
  <2>2. valid' \in BOOLEAN /\ mql' = "free"
    BY <1>3 DEF Disconnect
  <2>3. UNCHANGED <<socket, mapped, alive, reading, receiving, sending, writing, input, ring, cb, sends, wcHistory>>
    BY <1>3 DEF Disconnect
  <2> QED
    BY <2>1, <2>2, <2>3 DEF WcTypeOK, input, ring, wcHistory
<1>4. CASE CleanupHandles
  <2>1. /\ mql' = "reset" /\ socket' = "gone" /\ receiving' = FALSE /\ writing' = FALSE
        /\ UNCHANGED <<state, valid, mapped, alive, reading, sending, input, ring, cb, sends, wcHistory>>
    BY <1>4 DEF CleanupHandles
  <2>2. /\ mql' \in {"idle", "poll", "send", "call", "free", "reset"}
        /\ socket' \in {"none", "request", "response", "open", "gone"} /\ receiving' \in BOOLEAN /\ writing' \in BOOLEAN
    BY <2>1
  <2> HIDE <1>4
  <2> QED
    BY <2>1, <2>2 DEF WcTypeOK, input, ring, wcHistory
<1>5. CASE ResetState
  <2>1. slots' \in [Slot -> Seq(Parts)] /\ 0 \in Slot /\ 0 \in 0..Depth /\ <<>> \in Seq(Parts)
    BY <1>5 DEF ResetState, Slot
  <2>2. /\ mql' = "idle" /\ mapped' = "erased" /\ state' = "closed"
        /\ acc' = <<>> /\ reading' = FALSE /\ sending' = FALSE /\ rd' = 0 /\ wr' = 0 /\ cnt' = 0
        /\ UNCHANGED <<socket, valid, alive, receiving, writing, arrived, buffer, cb, sends, wcHistory>>
    BY <1>5 DEF ResetState
  <2>3. /\ mql' \in {"idle", "poll", "send", "call", "free", "reset"}
        /\ mapped' \in {"no", "yes", "erased"}
        /\ state' \in {"closed", "closing", "connecting", "connected", "sending"}
        /\ acc' \in Seq(Parts) /\ reading' \in BOOLEAN /\ sending' \in BOOLEAN
        /\ rd' \in Slot /\ wr' \in Slot /\ cnt' \in 0..Depth
    BY <2>1, <2>2
  <2> HIDE <1>5
  <2> QED
    BY <2>1, <2>2, <2>3 DEF WcTypeOK, wcHistory
<1> QED
  BY <1>1, <1>2, <1>3, <1>4, <1>5

\* and the EA's calls.
LEMMA TypesOfExports ==
    ASSUME WcTypeOK, RingSound, Poll \/ PollReads \/ Send \/ SendStores \/ SendCalls \/ Read PROVE WcTypeOK'
<1>1. CASE Poll
  BY <1>1 DEF Poll, WcTypeOK, link, input, ring, wcHistory
<1>2. CASE PollReads
  <2>1. reading' \in BOOLEAN /\ receiving' \in BOOLEAN /\ overtaken' \in BOOLEAN
    BY <1>2, StartTyped DEF PollReads
  <2> QED
    BY <1>2, <2>1 DEF PollReads, WcTypeOK, link, input, ring
<1>3. CASE Send
  BY <1>3 DEF Send, WcTypeOK, link, input, ring, wcHistory
<1>4. CASE SendStores
  <2>1. state' = "sending"
    BY <1>4 DEF SendStores
  <2> QED
    BY <1>4, <2>1 DEF SendStores, WcTypeOK, link, input, ring, wcHistory
<1>5. CASE SendCalls
  <2>1. /\ state' \in {"closed", "closing", "connecting", "connected", "sending"}
        /\ writing' \in BOOLEAN /\ sending' \in BOOLEAN
    BY <1>5 DEF SendCalls, WcTypeOK
  <2> QED
    BY <1>5, <2>1 DEF SendCalls, WcTypeOK, link, input, ring, wcHistory
<1>6. CASE Read
  <2>1. rd \in Slot /\ cnt \in Nat /\ cnt > 0 /\ cnt <= Depth /\ Depth \in Nat /\ After(rd) \in Slot
    BY <1>6, RingTypes, AfterIs DEF Read, WcTypeOK
  <2>2. cnt - 1 \in 0..Depth
    BY <2>1
  <2>3. Contents[1] = slots[rd]
    <3>1. 1 \in 1..cnt /\ Wrap(rd + (1 - 1)) = rd
      BY <2>1 DEF Wrap, Slot
    <3>2. Contents[1] = slots[Wrap(rd + (1 - 1))]
      BY <3>1, CellOf
    <3> QED
      BY <3>1, <3>2
  <2>4. slots[rd] \in Seq(Parts) /\ slots[rd] # <<>>
    <3>1. 1 \in 1..cnt
      BY <2>1
    <3> QED
      BY <2>3, <3>1 DEF RingSound
  <2>5. Head(slots[rd]) \in Parts
    <3> DEFINE f == slots[rd]
    <3> HIDE DEF f
    <3>1. f \in Seq(Parts) /\ f # <<>>
      BY <2>4 DEF f
    <3>2. Head(f) \in Parts
      BY <3>1, TailOf
    <3> QED
      BY <3>2 DEF f
  <2>6. taken' \in Nat
    BY <1>6, <2>5, StreamParts DEF Read
  <2> QED
    BY SMTT(20), <1>6, <2>1, <2>2, <2>6 DEF Read, WcTypeOK, link, input
<1> QED
  BY <1>1, <1>2, <1>3, <1>4, <1>5, <1>6

\* So the types are kept.
LEMMA TypesKept == ASSUME WcTypeOK, RingSound, BufferSound, [WcNext]_wcVars PROVE WcTypeOK'
<1>1. CASE UNCHANGED wcVars
  BY <1>1 DEF wcVars, WcTypeOK, link, input, ring, wcHistory
<1>2. CASE Connect \/ Upgrade
  BY <1>2, TypesOfUpgrade
<1>3. CASE Breaks \/ OnError \/ Disconnect \/ CleanupHandles \/ ResetState
  BY <1>3, TypesOfEnds
<1>4. CASE Poll \/ PollReads \/ Send \/ SendStores \/ SendCalls \/ Read
  BY <1>4, TypesOfExports
<1>5. ASSUME NEW c \in Callbacks, Callback(c) PROVE WcTypeOK'
  BY <1>5, TypesOfReads, TypesOfQueue, TypesOfWrites DEF Callback
<1> QED
  BY <1>1, <1>2, <1>3, <1>4, <1>5 DEF WcNext, Exports

-----------------------------------------------------------------------------
\* What the steps do to the ring: all but three leave it alone.
LEMMA RingSteps ==
    ASSUME WcTypeOK, BufferSound, [WcNext]_wcVars
    PROVE  \/ UNCHANGED ring
           \/ ResetState
           \/ Read
           \/ \E c \in Callbacks : Frame(c) \in Seq(Parts) /\ Frame(c) # <<>> /\ Store(Frame(c))
<1>1. CASE UNCHANGED wcVars
  BY <1>1 DEF wcVars
<1>2. CASE Connect \/ Upgrade \/ Breaks \/ OnError \/ Send \/ Disconnect
  BY <1>2 DEF Connect, Upgrade, OnSendRequestComplete, OnHeadersAvailable, Breaks, OnError, Send, Disconnect
<1>3. CASE Poll \/ PollReads \/ SendStores \/ SendCalls \/ CleanupHandles
  BY <1>3 DEF Poll, PollReads, SendStores, SendCalls, CleanupHandles
<1>4. ASSUME NEW c \in Callbacks, ReadComplete(c) \/ ReadClose(c) \/ Chain(c) \/ WriteComplete(c) \/ SendCompletes(c)
      PROVE  UNCHANGED ring
  BY <1>4 DEF ReadComplete, ReadClose, Chain, WriteComplete, SendCompletes
<1>5. ASSUME NEW c \in Callbacks, Queue(c) \/ QueueRest(c)
      PROVE  UNCHANGED ring \/ (Frame(c) \in Seq(Parts) /\ Frame(c) # <<>> /\ Store(Frame(c)))
  BY <1>5, QueuesFrame
<1> QED
  BY <1>1, <1>2, <1>3, <1>4, <1>5 DEF WcNext, Exports, Callback

\* The frames stay where the indexes say.
LEMMA RingKept ==
    ASSUME WcTypeOK, WcTypeOK', RingSound, BufferSound, [WcNext]_wcVars
    PROVE  RingSound'
<1>1. CASE UNCHANGED ring
  BY <1>1 DEF ring, RingSound, Contents
<1>2. CASE ResetState
  <2>1. rd' = 0 /\ wr' = 0 /\ cnt' = 0 /\ Depth \in Nat \ {0}
    BY <1>2 DEF ResetState
  <2>2. (0 + 0) % Depth = 0
    BY <2>1
  <2> QED
    BY <2>1, <2>2 DEF RingSound
<1>3. CASE Read
  <2>1. /\ wr' = (rd' + cnt') % Depth
        /\ \A i \in 1..cnt' : i + 1 \in 1..cnt /\ Contents'[i] = Contents[i + 1]
    BY <1>3, OldestTaken DEF Read, RingSound
  <2> QED
    BY <2>1 DEF RingSound
<1>4. ASSUME NEW c \in Callbacks, Frame(c) \in Seq(Parts), Frame(c) # <<>>, Store(Frame(c))
      PROVE  RingSound'
  <2> DEFINE f == Frame(c)
  <2>1. f \in Seq(Parts) /\ f # <<>> /\ Store(f)
    BY <1>4
  <2> HIDE DEF f
  <2>2. cnt \in Nat
    BY RingTypes
  <2>3. /\ wr' = (rd' + cnt') % Depth
        /\ \/ UNCHANGED <<slots, rd, wr, cnt>> /\ Discarded(f)
           \/ /\ cnt' = cnt + 1 /\ Contents'[cnt + 1] = f
              /\ \A i \in 1..cnt : Contents'[i] = Contents[i]
           \/ /\ cnt' = cnt /\ Contents'[cnt] = f
              /\ \A i \in 1..(cnt - 1) : Contents'[i] = Contents[i + 1]
    BY <2>1, Stored DEF RingSound
  <2>4. CASE UNCHANGED <<slots, rd, wr, cnt>>
    BY <2>4 DEF RingSound, Contents
  <2>5. CASE /\ cnt' = cnt + 1 /\ Contents'[cnt + 1] = f
             /\ \A i \in 1..cnt : Contents'[i] = Contents[i]
    <3>1. \A i \in 1..cnt' : i = cnt + 1 \/ i \in 1..cnt
      BY <2>2, <2>5
    <3> QED
      BY <2>1, <2>3, <2>5, <3>1 DEF RingSound
  <2>6. CASE /\ cnt' = cnt /\ Contents'[cnt] = f
             /\ \A i \in 1..(cnt - 1) : Contents'[i] = Contents[i + 1]
    <3>1. \A i \in 1..cnt' : i = cnt \/ (i \in 1..(cnt - 1) /\ i + 1 \in 1..cnt)
      BY <2>2, <2>6
    <3> QED
      BY <2>1, <2>3, <2>6, <3>1 DEF RingSound
  <2> QED
    BY <2>3, <2>4, <2>5, <2>6
<1> QED
  BY <1>1, <1>2, <1>3, <1>4, RingSteps

-----------------------------------------------------------------------------
\* The buffer holds the last part, after a callback,
LEMMA BufferOfCallbacks ==
    ASSUME WcTypeOK, BufferSound, NEW c \in Callbacks, Callback(c)
    PROVE  BufferSound'
<1> USE DEF BufferSound
<1>1. CASE ReadComplete(c)
  <2>1. arrived' > 0 /\ buffer' = Stream[arrived']
    BY <1>1 DEF ReadComplete, WcTypeOK
  <2>2. \A d \in Callbacks : cb'[d] = "read" => d = c \/ cb[d] = "read"
    BY <1>1 DEF ReadComplete, WcTypeOK
  <2> QED
    BY <1>1, <2>1, <2>2 DEF ReadComplete, WcTypeOK, link
<1>2. CASE ReadClose(c)
  <2>1. \A d \in Callbacks : cb'[d] = "read" => cb[d] = "read"
    BY <1>2 DEF ReadClose, WcTypeOK
  <2> QED
    BY <1>2, <2>1 DEF ReadClose, input, wcHistory
<1>3. CASE Queue(c)
  <2>1. \A d \in Callbacks : cb'[d] = "read" => cb[d] = "read"
    BY <1>3 DEF Queue, WcTypeOK
  <2> QED
    BY <1>3, <2>1 DEF Queue, link, wcHistory
<1>4. CASE QueueRest(c)
  <2>1. \A d \in Callbacks : cb'[d] = "read" => cb[d] = "read"
    BY <1>4 DEF QueueRest, WcTypeOK
  <2> QED
    BY <1>4, <2>1 DEF QueueRest, link, wcHistory
<1>5. CASE Chain(c)
  <2>1. \A d \in Callbacks : cb'[d] = "read" => cb[d] = "read"
    BY <1>5 DEF Chain, WcTypeOK
  <2>2. receiving' => receiving \/ socket = "open"
    BY <1>5 DEF Chain, StartRead
  <2> QED
    BY <1>5, <2>1, <2>2 DEF Chain, link, input
<1>6. CASE WriteComplete(c)
  <2>1. \A d \in Callbacks : cb'[d] = "read" => cb[d] = "read"
    BY <1>6 DEF WriteComplete, WcTypeOK
  <2> QED
    BY <1>6, <2>1 DEF WriteComplete, link, input, wcHistory
<1>7. CASE SendCompletes(c)
  <2>1. \A d \in Callbacks : cb'[d] = "read" => cb[d] = "read"
    BY <1>7 DEF SendCompletes, WcTypeOK
  <2> QED
    BY <1>7, <2>1 DEF SendCompletes, link, input
<1> QED
  BY <1>1, <1>2, <1>3, <1>4, <1>5, <1>6, <1>7 DEF Callback

\* and after every step.
LEMMA BufferKept ==
    ASSUME WcTypeOK, BufferSound, [WcNext]_wcVars
    PROVE  BufferSound'
<1>1. CASE UNCHANGED wcVars
  BY <1>1 DEF wcVars, BufferSound, link, input, wcHistory
<1>2. CASE Connect
  BY <1>2 DEF Connect, BufferSound, input, wcHistory, WcTypeOK
<1>3. CASE OnSendRequestComplete
  BY <1>3 DEF OnSendRequestComplete, BufferSound, input, wcHistory, WcTypeOK
<1>4. CASE OnHeadersAvailable
  BY <1>4 DEF OnHeadersAvailable, BufferSound, input, wcHistory, WcTypeOK
<1>5. CASE Breaks
  BY <1>5 DEF Breaks, BufferSound, input, wcHistory
<1>6. CASE OnError
  BY <1>6 DEF OnError, BufferSound, input, link, wcHistory
<1>7. CASE Poll
  BY <1>7 DEF Poll, BufferSound, input, link, wcHistory
<1>8. CASE PollReads
  <2>1. receiving' => receiving \/ socket = "open"
    BY <1>8 DEF PollReads, StartRead
  <2> QED
    BY <1>8, <2>1 DEF PollReads, BufferSound, input, link
<1>9. CASE Send
  BY <1>9 DEF Send, BufferSound, input, link, wcHistory
<1>10. CASE SendStores
  BY <1>10 DEF SendStores, BufferSound, input, link
<1>11. CASE SendCalls
  BY <1>11 DEF SendCalls, BufferSound, input, link
<1>12. CASE Read
  BY <1>12 DEF Read, BufferSound, input, link
<1>13. CASE Disconnect
  BY <1>13 DEF Disconnect, BufferSound, input, wcHistory
<1>14. CASE CleanupHandles
  BY <1>14 DEF CleanupHandles, BufferSound, input, wcHistory
<1>15. CASE ResetState
  BY <1>15 DEF ResetState, BufferSound, wcHistory
<1>16. ASSUME NEW c \in Callbacks, Callback(c) PROVE BufferSound'
  BY <1>16, BufferOfCallbacks
<1> QED
  BY <1>1, <1>2, <1>3, <1>4, <1>5, <1>6, <1>7, <1>8, <1>9, <1>10, <1>11, <1>12, <1>13, <1>14, <1>15, <1>16
  DEF WcNext, Upgrade, Exports

-----------------------------------------------------------------------------
\* A low-priority frame is stored only below half of the ring, and a read or an
\* overflow only moves the others forward.
LEMMA RoomKept ==
    ASSUME WcTypeOK, WcTypeOK', RingSound, BufferSound, RoomForSignals, [WcNext]_wcVars
    PROVE  RoomForSignals'
<1> DEFINE After1 == {i \in 1..cnt' : Head(Contents'[i]).low}
<1>1. cnt \in Nat /\ Half \in Nat /\ Depth \in Nat /\ cnt' \in Nat
  BY SMTT(20), RingTypes DEF WcTypeOK
<1>2. LowFrames \in SUBSET (1..cnt) /\ Cardinality(LowFrames) <= Half
  BY DEF LowFrames, RoomForSignals
<1>3. IsFiniteSet(LowFrames) /\ Cardinality(LowFrames) \in Nat
  BY <1>1, <1>2, FewPlaces
<1>4. SUFFICES Cardinality(After1) <= Half
  BY DEF RoomForSignals, Half
<1>5. After1 \in SUBSET (1..cnt') /\ IsFiniteSet(After1) /\ Cardinality(After1) \in Nat /\ Cardinality(After1) <= cnt'
  BY <1>1, FewPlaces
<1>6. CASE UNCHANGED ring
  <2>1. After1 = LowFrames
    BY <1>6 DEF LowFrames, Contents, ring
  <2> QED
    BY <1>2, <2>1
<1>7. CASE ResetState
  <2>1. cnt' = 0
    BY <1>7 DEF ResetState
  <2> QED
    BY <1>1, <1>5, <2>1
<1>8. CASE Read
  <2>1. \A i \in 1..cnt' : i + 1 \in 1..cnt /\ Contents'[i] = Contents[i + 1]
    BY <1>8, OldestTaken DEF Read, RingSound
  <2>2. \A i \in After1 : i + 1 \in LowFrames
    BY <2>1 DEF LowFrames
  <2>3. After1 \in SUBSET Nat
    BY <1>5
  <2>4. Cardinality(After1) <= Cardinality(LowFrames)
    <3> PICK T : T = After1
      OBVIOUS
    <3> HIDE DEF After1
    <3>1. Cardinality(T) <= Cardinality(LowFrames)
      BY <1>1, <1>2, <2>2, <2>3, MovedPlaces
    <3> QED
      BY <3>1
  <2> HIDE DEF After1
  <2> QED
    BY <1>1, <1>2, <1>3, <1>5, <2>4
<1>9. ASSUME NEW c \in Callbacks, Frame(c) \in Seq(Parts), Frame(c) # <<>>, Store(Frame(c))
      PROVE  Cardinality(After1) <= Half
  <2> DEFINE f == Frame(c)
  <2>1. f \in Seq(Parts) /\ f # <<>> /\ Store(f)
    BY <1>9
  <2> HIDE DEF f
  <2>2. \/ UNCHANGED <<slots, rd, wr, cnt>> /\ Discarded(f)
        \/ /\ ~Discarded(f) /\ cnt' = cnt + 1 /\ Contents'[cnt + 1] = f
           /\ \A i \in 1..cnt : Contents'[i] = Contents[i]
        \/ /\ ~Discarded(f) /\ cnt = Depth /\ cnt' = cnt /\ Contents'[cnt] = f
           /\ \A i \in 1..(cnt - 1) : Contents'[i] = Contents[i + 1]
    BY <2>1, Stored DEF RingSound
  <2>3. CASE UNCHANGED <<slots, rd, wr, cnt>>
    BY <1>6, <2>3 DEF ring
  <2>4. CASE /\ ~Discarded(f) /\ cnt' = cnt + 1 /\ Contents'[cnt + 1] = f
             /\ \A i \in 1..cnt : Contents'[i] = Contents[i]
    <3>1. CASE ~Head(f).low
      <4>1. \A i \in 1..cnt' : i \in 1..cnt \/ i = cnt + 1
        BY <1>1, <2>4
      <4>2. After1 \subseteq LowFrames
        BY <2>4, <3>1, <4>1 DEF LowFrames
      <4>3. Cardinality(After1) <= Cardinality(LowFrames)
        <5> PICK T : T = After1
          OBVIOUS
        <5> HIDE DEF After1
        <5>1. Cardinality(T) <= Cardinality(LowFrames)
          BY <1>3, <4>2, FS_Subset
        <5> QED
          BY <5>1
      <4> HIDE DEF After1
      <4> QED
        BY <1>1, <1>2, <1>3, <1>5, <4>3
    <3>2. CASE cnt < Half
      BY <1>1, <1>5, <2>4, <3>2
    <3> QED
      BY <1>1, <2>4, <3>1, <3>2 DEF Discarded
  <2>5. CASE /\ ~Discarded(f) /\ cnt = Depth /\ cnt' = cnt /\ Contents'[cnt] = f
             /\ \A i \in 1..(cnt - 1) : Contents'[i] = Contents[i + 1]
    <3>1. ~Head(f).low
      BY <1>1, <2>5 DEF Discarded, Half
    <3>2. \A i \in 1..cnt' : i = cnt \/ (i \in 1..(cnt - 1) /\ i + 1 \in 1..cnt)
      BY <1>1, <2>5
    <3>3. \A i \in After1 : i + 1 \in LowFrames
      BY <2>5, <3>1, <3>2 DEF LowFrames
    <3>4. After1 \in SUBSET Nat
      BY <1>5
    <3>5. Cardinality(After1) <= Cardinality(LowFrames)
      <4> PICK T : T = After1
        OBVIOUS
      <4> HIDE DEF After1
      <4>1. Cardinality(T) <= Cardinality(LowFrames)
        BY <1>1, <1>2, <3>3, <3>4, MovedPlaces
      <4> QED
        BY <4>1
    <3> HIDE DEF After1
    <3> QED
      BY <1>1, <1>2, <1>3, <1>5, <3>5
  <2> QED
    BY <2>2, <2>3, <2>4, <2>5
<1> QED
  BY <1>6, <1>7, <1>8, <1>9, RingSteps

-----------------------------------------------------------------------------
\* A part has been received and not yet gone from the buffer into the accumulator.
Reading == \E c \in Callbacks : cb[c] = "read"

\* The parts that have.
Kept == IF Reading THEN arrived - 1 ELSE arrived

\* The message before the one whose parts begin at a.
Done(a) == IF a = 1 THEN 0 ELSE Stream[a - 1].msg

\* The accumulator holds the parts from a on, all of one message that is not yet
\* whole; what is in the ring, and what was read, are messages before it.
AccAt(a) ==
    /\ a \in 1..(Kept + 1) /\ acc = SubSeq(Stream, a, Kept)
    /\ a = 1 \/ Stream[a - 1].last
    /\ \A k \in a..Kept : ~Stream[k].last /\ Stream[k].msg = Done(a) + 1
    /\ taken <= Done(a)
    /\ \A i \in 1..cnt : Head(Contents[i]).msg <= Done(a)

\* A callback is at the buffer or the accumulator.
AtWork(c) == cb[c] \in {"read", "close"}

\* One at most is, and no receive fills the buffer meanwhile.
OneReader ==
    \A c \in Callbacks : AtWork(c) => ~receiving /\ \A d \in Callbacks : AtWork(d) => d = c

\* The frames of the ring are of one message each, one later than the other and
\* than what was read.
InOrder ==
    /\ \A i \in 1..cnt : Begun(Contents[i]) /\ Head(Contents[i]).msg > taken
    /\ \A i, j \in 1..cnt : i < j => Head(Contents[i]).msg < Head(Contents[j]).msg

\* Up to the n-th they are whole.
WholeTo(n) == \A i \in 1..n : Whole(Contents[i])

\* Either more may come, and all are whole,
Coming == WholeTo(cnt) /\ \E a \in 1..(Len(Stream) + 1) : AccAt(a)

\* or the close has queued what it found, and nothing comes after it.
CutOff == WholeTo(cnt - 1) /\ ~alive /\ ~receiving /\ \A c \in Callbacks : ~AtWork(c)

\* All of it, while nothing was received into a buffer in use.
FramesSound == valid /\ ~overtaken => OneReader /\ InOrder /\ (Coming \/ CutOff)

\* A piece of the stream, which is empty where its end is just before its start.
LEMMA StreamPiece ==
    ASSUME NEW a \in Int, NEW m \in Int, a <= m + 1, \A i \in a..m : Stream[i] \in Parts
    PROVE  /\ SubSeq(Stream, a, m) \in Seq(Parts) /\ Len(SubSeq(Stream, a, m)) = m - a + 1
           /\ \A i \in 1..(m - a + 1) : SubSeq(Stream, a, m)[i] = Stream[a + i - 1]
<1>1. SubSeq(Stream, a, m) \in Seq(Parts)
  BY SubSeqProperties, SMTT(20)
<1>2. Len(SubSeq(Stream, a, m)) = IF a <= m THEN m - a + 1 ELSE 0
  BY SubSeqProperties, SMTT(20)
<1>3. \A i \in 1..(m - a + 1) : SubSeq(Stream, a, m)[i] = Stream[a + i - 1]
  BY SubSeqProperties, SMTT(20)
<1>4. (IF a <= m THEN m - a + 1 ELSE 0) = m - a + 1
  OBVIOUS
<1> QED
  BY <1>1, <1>2, <1>3, <1>4

\* One part more.
LEMMA OnePartMore ==
    ASSUME NEW a \in Nat, NEW n \in Nat, a > 0, a <= n + 1, n + 1 <= Len(Stream)
    PROVE  /\ Append(SubSeq(Stream, a, n), Stream[n + 1]) = SubSeq(Stream, a, n + 1)
           /\ Head(SubSeq(Stream, a, n + 1)) = Stream[a]
<1>1. \A i \in a..(n + 1) : Stream[i] \in Parts
  BY StreamParts
<1>2. /\ SubSeq(Stream, a, n) \in Seq(Parts) /\ Len(SubSeq(Stream, a, n)) = n - a + 1
      /\ \A i \in 1..(n - a + 1) : SubSeq(Stream, a, n)[i] = Stream[a + i - 1]
  <2>1. a \in Int /\ n \in Int /\ \A i \in a..n : Stream[i] \in Parts
    BY <1>1
  <2> QED
    BY <2>1, StreamPiece
<1>3. /\ SubSeq(Stream, a, n + 1) \in Seq(Parts) /\ Len(SubSeq(Stream, a, n + 1)) = n - a + 2
      /\ \A i \in 1..(n - a + 2) : SubSeq(Stream, a, n + 1)[i] = Stream[a + i - 1]
  <2>1. PICK m \in Int : m = n + 1
    OBVIOUS
  <2>2. a \in Int /\ a <= m + 1 /\ m - a + 1 = n - a + 2 /\ \A i \in a..m : Stream[i] \in Parts
    <3>1. a \in Int /\ a <= m + 1 /\ m - a + 1 = n - a + 2
      BY <2>1
    <3>2. \A i \in a..m : Stream[i] \in Parts
      BY <1>1, <2>1
    <3> QED
      BY <3>1, <3>2
  <2>3. /\ SubSeq(Stream, a, m) \in Seq(Parts) /\ Len(SubSeq(Stream, a, m)) = m - a + 1
        /\ \A i \in 1..(m - a + 1) : SubSeq(Stream, a, m)[i] = Stream[a + i - 1]
    BY <2>2, StreamPiece
  <2> QED
    BY <2>1, <2>2, <2>3
<1> DEFINE s == SubSeq(Stream, a, n)
           t == SubSeq(Stream, a, n + 1)
           p == Stream[n + 1]
           d == n - a + 1
<1>4. /\ d \in Nat /\ a + (d + 1) - 1 = n + 1 /\ p \in Parts
      /\ s \in Seq(Parts) /\ Len(s) = d /\ \A i \in 1..d : s[i] = Stream[a + i - 1]
      /\ t \in Seq(Parts) /\ Len(t) = d + 1 /\ \A i \in 1..(d + 1) : t[i] = Stream[a + i - 1]
  <2>1. d \in Nat /\ a + (d + 1) - 1 = n + 1 /\ d + 1 = n - a + 2 /\ n + 1 \in a..(n + 1)
    OBVIOUS
  <2>2. p \in Parts
    BY <1>1, <2>1
  <2>3. s \in Seq(Parts) /\ Len(s) = d /\ \A i \in 1..d : s[i] = Stream[a + i - 1]
    BY <1>2
  <2>4. t \in Seq(Parts) /\ Len(t) = d + 1 /\ \A i \in 1..(d + 1) : t[i] = Stream[a + i - 1]
    BY <1>3, <2>1
  <2> QED
    BY <2>1, <2>2, <2>3, <2>4
<1>5. t[d + 1] = p
  <2>1. d + 1 \in 1..(d + 1)
    <3>1. d \in Nat
      BY <1>4
    <3> QED
      BY <3>1
  <2>2. t[d + 1] = Stream[a + (d + 1) - 1]
    BY <1>4, <2>1
  <2> QED
    BY <1>4, <2>2
<1>6. t[1] = Stream[a]
  <2>1. 1 \in 1..(d + 1) /\ a + 1 - 1 = a
    <3>1. d \in Nat
      BY <1>4
    <3> QED
      BY <3>1
  <2> QED
    BY <1>4, <2>1
<1> HIDE DEF s, t, p, d
<1>7. /\ Append(s, p) \in Seq(Parts) /\ Len(Append(s, p)) = d + 1 /\ Append(s, p)[d + 1] = p
      /\ \A i \in 1..d : Append(s, p)[i] = s[i]
  <2> DEFINE u == Append(s, p)
  <2>1. /\ u \in Seq(Parts) /\ Len(u) = Len(s) + 1 /\ u[Len(s) + 1] = p
        /\ \A i \in 1..Len(s) : u[i] = s[i]
    <3>1. s \in Seq(Parts) /\ p \in Parts
      BY <1>4
    <3> QED
      BY <3>1, AppendProperties
  <2> HIDE DEF u
  <2>2. /\ u \in Seq(Parts) /\ Len(u) = d + 1 /\ u[d + 1] = p
        /\ \A i \in 1..d : u[i] = s[i]
    BY <1>4, <2>1
  <2> QED
    BY <2>2 DEF u
<1>8. \A i \in 1..(d + 1) : i \in 1..d \/ i = d + 1
  BY <1>4
<1>9. Append(s, p) = t
  <2> DEFINE u == Append(s, p)
  <2>1. /\ u \in Seq(Parts) /\ Len(u) = d + 1 /\ u[d + 1] = p
        /\ \A i \in 1..d : u[i] = s[i]
    BY <1>7
  <2> HIDE DEF u
  <2>2. Len(u) = Len(t) /\ \A i \in 1..(d + 1) : u[i] = t[i]
    BY ZenonT(60), <1>4, <1>5, <1>8, <2>1
  <2>3. u = t
    BY <1>4, <2>1, <2>2, SeqEqual
  <2> QED
    BY <2>3 DEF u
<1>10. Head(t) = Stream[a]
  <2>1. t # <<>>
    BY <1>4, EmptySeq
  <2>2. Head(t) = t[1]
    BY <1>4, <2>1, TailOf
  <2> QED
    BY <1>6, <2>2
<1> QED
  BY <1>9, <1>10 DEF s, t, p

\* Nothing yet.
LEMMA NoPartsYet == ASSUME NEW a \in Nat PROVE SubSeq(Stream, a + 1, a) = <<>>
  BY SubSeqEmpty

\* The message a part belongs to, at a reader's.
LEMMA PartOf ==
    ASSUME WcTypeOK, NEW a \in Nat, AccAt(a), arrived > 0, Kept = arrived - 1
    PROVE  /\ Stream[arrived].msg = Done(a) + 1 /\ Stream[a].msg = Done(a) + 1 /\ Done(a) \in Nat
           /\ a > 0 /\ a <= arrived /\ arrived <= Len(Stream)
<1>1. arrived \in Nat /\ arrived <= Len(Stream) /\ Len(Stream) \in Nat
  BY StreamParts DEF WcTypeOK
<1>2. a > 0 /\ a <= arrived
  BY <1>1 DEF AccAt
<1>3. Done(a) \in Nat
  <2>1. CASE a = 1
    BY <2>1 DEF Done
  <2>2. CASE a # 1
    <3>1. a - 1 \in 1..Len(Stream)
      BY <1>1, <1>2, <2>2
    <3> QED
      BY <2>2, <3>1, StreamParts DEF Done
  <2> QED
    BY <2>1, <2>2
<1>4. ASSUME a = arrived PROVE Stream[a].msg = Done(a) + 1
  <2>1. CASE a = 1
    <3>1. 1 \in DOMAIN Stream
      BY <1>1, <1>4, <2>1, StreamParts
    <3>2. Stream[1].msg = 1
      BY <3>1
    <3> QED
      BY <2>1, <3>2 DEF Done
  <2>2. CASE a # 1
    <3>1. a \in DOMAIN Stream /\ Stream[a - 1].last
      BY <1>1, <1>2, <2>2, StreamParts DEF AccAt
    <3> QED
      BY <2>2, <3>1 DEF Done
  <2> QED
    BY <2>1, <2>2
<1>5. ASSUME a # arrived PROVE Stream[arrived].msg = Done(a) + 1 /\ Stream[a].msg = Done(a) + 1
  <2>1. a \in a..Kept /\ arrived - 1 \in a..Kept /\ arrived # 1 /\ arrived \in DOMAIN Stream
    BY <1>1, <1>2, <1>5, StreamParts
  <2>2. Stream[a].msg = Done(a) + 1 /\ ~Stream[arrived - 1].last /\ Stream[arrived - 1].msg = Done(a) + 1
    BY <2>1 DEF AccAt
  <2>3. Stream[arrived].msg = Stream[arrived - 1].msg + 0
    BY <2>1, <2>2
  <2> QED
    BY <1>3, <2>2, <2>3
<1> QED
  BY <1>1, <1>2, <1>3, <1>4, <1>5

\* The frame's message, of any frame of the ring.
LEMMA HeadTyped == ASSUME RingSound, NEW i \in 1..cnt PROVE Head(Contents[i]).msg \in Nat
<1> DEFINE f == Contents[i]
<1>1. f \in Seq(Parts) /\ f # <<>>
  BY DEF RingSound
<1> HIDE DEF f
<1>2. Head(f) \in Parts
  BY <1>1, TailOf
<1>3. Head(f).msg \in Nat
  BY <1>2, StreamParts
<1> QED
  BY <1>3 DEF f

-----------------------------------------------------------------------------
\* Steps that leave what was received where it is.
LEMMA FramesLeft ==
    ASSUME FramesSound, BufferSound, UNCHANGED <<ring, taken, acc, arrived>>,
           \A c \in Callbacks : (AtWork(c)' <=> AtWork(c)) /\ (cb'[c] = "read" <=> cb[c] = "read"),
           valid' => valid, overtaken => overtaken', ~alive => ~alive' /\ (receiving' => receiving),
           valid' /\ ~overtaken' /\ receiving' => receiving \/ \A c \in Callbacks : cb[c] # "read"
    PROVE  FramesSound'
<1> SUFFICES ASSUME valid', ~overtaken' PROVE (OneReader /\ InOrder /\ (Coming \/ CutOff))'
  BY DEF FramesSound
<1>1. OneReader /\ InOrder /\ (Coming \/ CutOff)
  BY DEF FramesSound
<1>2. Contents' = Contents /\ cnt' = cnt /\ taken' = taken
  BY DEF ring, Contents
<1>3. OneReader'
  <2>1. ASSUME NEW c \in Callbacks, AtWork(c) PROVE ~receiving'
    <3>1. ~receiving /\ (cb[c] = "read" \/ ~alive)
      BY <1>1, <2>1 DEF OneReader, AtWork, BufferSound
    <3> QED
      BY <3>1
  <2> QED
    BY <1>1, <2>1 DEF OneReader
<1>4. InOrder'
  BY <1>1, <1>2 DEF InOrder
<1>5. CASE Coming
  <2>1. PICK a \in 1..(Len(Stream) + 1) : AccAt(a)
    BY <1>5 DEF Coming
  <2>2. Kept' = Kept
    <3>1. Reading' <=> Reading
      BY DEF Reading
    <3> QED
      BY <3>1 DEF Kept
  <2>3. AccAt(a)'
    BY <1>2, <2>1, <2>2 DEF AccAt, Done
  <2>4. WholeTo(cnt)'
    BY <1>2, <1>5 DEF Coming, WholeTo
  <2> QED
    BY <1>3, <1>4, <2>3, <2>4 DEF Coming
<1>6. CASE CutOff
  BY <1>2, <1>3, <1>4, <1>6 DEF CutOff, WholeTo
<1> QED
  BY <1>1, <1>5, <1>6

\* A receive is outstanding: the server has sent nothing after it, and no callback
\* is at work.  A part arrives in the buffer, or the close.
LEMMA FramesOfArrival ==
    ASSUME WcTypeOK, BufferSound, FramesSound, NEW c \in Callbacks, ReadComplete(c) \/ ReadClose(c)
    PROVE  FramesSound'
<1> SUFFICES ASSUME valid', ~overtaken' PROVE (OneReader /\ InOrder /\ (Coming \/ CutOff))'
  BY DEF FramesSound
<1>1. /\ valid /\ ~overtaken /\ UNCHANGED <<ring, taken, acc>> /\ receiving /\ ~receiving'
      /\ arrived \in Nat
      /\ \/ arrived' = arrived + 1 /\ cb' = [cb EXCEPT ![c] = "read"]
         \/ arrived' = arrived /\ cb' = [cb EXCEPT ![c] = "close"]
  <2>1. arrived \in Nat
    BY DEF WcTypeOK
  <2>2. CASE ReadComplete(c)
    BY <2>1, <2>2 DEF ReadComplete, link, wcHistory
  <2>3. CASE ReadClose(c)
    BY <2>1, <2>3 DEF ReadClose, input, wcHistory
  <2> QED
    BY <2>2, <2>3
<1>2. OneReader /\ InOrder /\ Coming
  <2>1. alive
    BY DEF ReadComplete, ReadClose
  <2> QED
    BY <1>1, <2>1 DEF FramesSound, CutOff
<1>3. PICK a \in 1..(Len(Stream) + 1) : AccAt(a)
  BY <1>2 DEF Coming
<1>4. Contents' = Contents /\ cnt' = cnt /\ taken' = taken
  BY <1>1 DEF ring, Contents
<1>5. \A d \in Callbacks : ~AtWork(d)
  BY <1>1, <1>2 DEF OneReader
<1>6. \A d \in Callbacks : AtWork(d)' => d = c
  BY <1>1, <1>5 DEF AtWork, WcTypeOK
<1>7. OneReader'
  BY <1>1, <1>6 DEF OneReader
<1>8. InOrder' /\ WholeTo(cnt)'
  BY <1>2, <1>4 DEF InOrder, Coming, WholeTo
<1>9. Kept' = Kept
  <2>1. ~Reading
    BY <1>5 DEF Reading, AtWork
  <2>2. CASE arrived' = arrived + 1 /\ cb' = [cb EXCEPT ![c] = "read"]
    <3>1. Reading'
      BY <2>2 DEF Reading, WcTypeOK
    <3> QED
      BY <1>1, <2>1, <2>2, <3>1 DEF Kept
  <2>3. CASE arrived' = arrived /\ cb' = [cb EXCEPT ![c] = "close"]
    <3>1. ~Reading'
      BY <2>1, <2>3 DEF Reading, WcTypeOK
    <3> QED
      BY <1>1, <2>1, <2>3, <3>1 DEF Kept
  <2> QED
    BY <1>1, <2>2, <2>3
<1>10. AccAt(a)'
  BY <1>1, <1>3, <1>4, <1>9 DEF AccAt, Done
<1> QED
  BY <1>3, <1>7, <1>8, <1>10 DEF Coming

\* The EA reads the oldest frame.
LEMMA FramesOfRead ==
    ASSUME WcTypeOK, WcTypeOK', RingSound, FramesSound, Read
    PROVE  FramesSound'
<1> SUFFICES ASSUME valid', ~overtaken' PROVE (OneReader /\ InOrder /\ (Coming \/ CutOff))'
  BY DEF FramesSound
<1>1. /\ valid /\ ~overtaken /\ UNCHANGED <<acc, arrived, cb, receiving, alive>>
      /\ cnt \in Nat /\ cnt > 0 /\ cnt' = cnt - 1
  BY RingTypes DEF Read, link, input
<1>2. OneReader /\ InOrder /\ (Coming \/ CutOff)
  BY <1>1 DEF FramesSound
<1>3. /\ Contents[1] = slots[rd]
      /\ \A i \in 1..cnt' : i + 1 \in 1..cnt /\ Contents'[i] = Contents[i + 1]
  BY OldestTaken DEF Read, RingSound
<1>4. taken' = Head(Contents[1]).msg /\ 1 \in 1..cnt
  BY <1>1, <1>3 DEF Read
<1>5. OneReader'
  BY <1>1, <1>2 DEF OneReader, AtWork
<1>6. InOrder'
  <2>1. ASSUME NEW i \in 1..cnt' PROVE Begun(Contents'[i]) /\ Head(Contents'[i]).msg > taken'
    <3> DEFINE k == i + 1
    <3>1. k \in 1..cnt /\ Contents'[i] = Contents[k] /\ 1 < k
      BY <1>3
    <3> HIDE DEF k
    <3>2. Begun(Contents[k]) /\ Head(Contents[1]).msg < Head(Contents[k]).msg
      BY <1>2, <1>4, <3>1 DEF InOrder
    <3>3. Head(Contents[1]).msg \in Nat /\ Head(Contents[k]).msg \in Nat
      BY <1>4, <3>1, HeadTyped
    <3> QED
      BY <1>4, <3>1, <3>2, <3>3
  <2>2. ASSUME NEW i \in 1..cnt', NEW j \in 1..cnt', i < j PROVE Head(Contents'[i]).msg < Head(Contents'[j]).msg
    <3> DEFINE k == i + 1
               l == j + 1
    <3>1. k \in 1..cnt /\ l \in 1..cnt /\ Contents'[i] = Contents[k] /\ Contents'[j] = Contents[l] /\ k < l
      BY <1>3, <2>2
    <3> HIDE DEF k, l
    <3> QED
      BY <1>2, <3>1 DEF InOrder
  <2> QED
    BY <2>1, <2>2 DEF InOrder, Begun
<1>7. CASE Coming
  <2>1. PICK a \in 1..(Len(Stream) + 1) : AccAt(a)
    BY <1>7 DEF Coming
  <2>2. Kept' = Kept
    BY <1>1 DEF Kept, Reading
  <2>3. taken' <= Done(a)
    BY <1>4, <2>1 DEF AccAt
  <2>4. \A i \in 1..cnt' : Head(Contents'[i]).msg <= Done(a)
    BY <1>3, <2>1 DEF AccAt
  <2>5. AccAt(a)'
    BY <1>1, <2>1, <2>2, <2>3, <2>4 DEF AccAt, Done
  <2>6. ASSUME NEW i \in 1..cnt' PROVE Whole(Contents'[i])
    BY <1>3, <1>7 DEF Coming, WholeTo
  <2>7. WholeTo(cnt)'
    BY <2>6 DEF WholeTo, Whole, Begun
  <2> QED
    BY <1>5, <1>6, <2>5, <2>7 DEF Coming
<1>8. CASE CutOff
  <2>1. \A i \in 1..(cnt' - 1) : i \in 1..cnt' /\ i + 1 \in 1..(cnt - 1)
    BY <1>1
  <2>2. ASSUME NEW i \in 1..(cnt' - 1) PROVE Whole(Contents'[i])
    BY <1>3, <1>8, <2>1 DEF CutOff, WholeTo
  <2>3. WholeTo(cnt - 1)'
    BY <2>2 DEF WholeTo, Whole, Begun
  <2> QED
    BY <1>1, <1>5, <1>6, <1>8, <2>3 DEF CutOff, AtWork
<1> QED
  BY <1>2, <1>7, <1>8

\* The next message, or its start, goes into a ring of earlier ones.
LEMMA StoredInOrder ==
    ASSUME WcTypeOK, WcTypeOK', RingSound, InOrder, NEW n \in Nat, taken <= n, taken' = taken,
           \A i \in 1..cnt : Head(Contents[i]).msg <= n,
           NEW f \in Seq(Parts), f # <<>>, Store(f), Begun(f), Head(f).msg = n + 1, WholeTo(cnt)
    PROVE  /\ InOrder' /\ \A i \in 1..cnt' : Head(Contents'[i]).msg <= n + 1
           /\ WholeTo(cnt - 1)' /\ (Whole(f) => WholeTo(cnt)')
<1>1. cnt \in Nat /\ taken \in Nat
  BY RingTypes DEF WcTypeOK
<1>2. \A i \in 1..cnt : /\ Whole(Contents[i]) /\ Begun(Contents[i]) /\ Head(Contents[i]).msg > taken
                        /\ Head(Contents[i]).msg \in Nat /\ Head(Contents[i]).msg <= n
  BY HeadTyped DEF InOrder, WholeTo
<1>3. \A i, j \in 1..cnt : i < j => Head(Contents[i]).msg < Head(Contents[j]).msg
  BY DEF InOrder
<1>4. \/ UNCHANGED <<slots, rd, wr, cnt>>
      \/ /\ cnt' = cnt + 1 /\ Contents'[cnt + 1] = f
         /\ \A i \in 1..cnt : Contents'[i] = Contents[i]
      \/ /\ cnt = Depth /\ cnt' = cnt /\ Contents'[cnt] = f
         /\ \A i \in 1..(cnt - 1) : Contents'[i] = Contents[i + 1]
  BY Stored DEF RingSound
<1>5. Head(f).msg > taken /\ Head(f).msg <= n + 1
  BY <1>1
<1>6. CASE UNCHANGED <<slots, rd, wr, cnt>>
  <2>1. Contents' = Contents /\ cnt' = cnt
    BY <1>6 DEF Contents
  <2>2. \A i \in 1..cnt' : Head(Contents'[i]).msg <= n + 1
    BY SMTT(20), <1>2, <2>1
  <2>3. \A i \in 1..(cnt' - 1) : i \in 1..cnt'
    BY <1>1, <2>1
  <2>4. InOrder'
    BY <2>1 DEF InOrder
  <2> QED
    BY <2>1, <2>2, <2>3, <2>4 DEF WholeTo
<1>7. CASE /\ cnt' = cnt + 1 /\ Contents'[cnt + 1] = f
           /\ \A i \in 1..cnt : Contents'[i] = Contents[i]
  <2>1. \A i \in 1..cnt' : i = cnt + 1 \/ i \in 1..cnt
    BY <1>1, <1>7
  <2>2. \A i \in 1..cnt' : /\ Begun(Contents'[i]) /\ Head(Contents'[i]).msg > taken
                           /\ Head(Contents'[i]).msg <= n + 1
                           /\ i # cnt + 1 => Whole(Contents'[i])
    <3> TAKE i \in 1..cnt'
    <3>1. CASE i = cnt + 1
      BY <1>5, <1>7, <3>1
    <3>2. CASE i \in 1..cnt
      <4>1. Contents'[i] = Contents[i]
        BY <1>7, <3>2
      <4>2. Head(Contents[i]).msg > taken /\ Head(Contents[i]).msg <= n + 1
        BY SMTT(20), <1>2, <3>2
      <4>3. Begun(Contents'[i]) /\ Whole(Contents'[i])
        BY <1>2, <3>2, <4>1
      <4> QED
        BY <4>1, <4>2, <4>3
    <3> QED
      BY <2>1, <3>1, <3>2
  <2>3. ASSUME NEW i \in 1..cnt', NEW j \in 1..cnt', i < j PROVE Head(Contents'[i]).msg < Head(Contents'[j]).msg
    <3>1. i \in 1..cnt /\ (j = cnt + 1 \/ j \in 1..cnt)
      BY <1>1, <1>7, <2>3
    <3>2. Contents'[i] = Contents[i] /\ Head(Contents[i]).msg \in Nat /\ Head(Contents[i]).msg <= n
      BY <1>2, <1>7, <3>1
    <3>3. CASE j = cnt + 1
      BY <1>7, <3>2, <3>3
    <3>4. CASE j \in 1..cnt
      BY <1>3, <1>7, <2>3, <3>1, <3>4
    <3> QED
      BY <3>1, <3>3, <3>4
  <2>4. \A i \in 1..(cnt' - 1) : i \in 1..cnt' /\ i # cnt + 1
    BY <1>1, <1>7
  <2>5. InOrder'
    BY <2>2, <2>3 DEF InOrder, Begun
  <2>6. WholeTo(cnt - 1)'
    BY <2>2, <2>4 DEF WholeTo, Whole, Begun
  <2>7. Whole(f) => WholeTo(cnt)'
    <3>1. ASSUME Whole(f) PROVE \A i \in 1..cnt' : Whole(Contents'[i])
      BY <1>7, <2>2, <3>1
    <3> QED
      BY <3>1 DEF WholeTo, Whole, Begun
  <2> QED
    BY <2>2, <2>5, <2>6, <2>7
<1>8. CASE /\ cnt = Depth /\ cnt' = cnt /\ Contents'[cnt] = f
           /\ \A i \in 1..(cnt - 1) : Contents'[i] = Contents[i + 1]
  <2>1. \A i \in 1..cnt' : i = cnt \/ (i \in 1..(cnt - 1) /\ i + 1 \in 1..cnt)
    BY <1>1, <1>8
  <2>2. ASSUME NEW i \in 1..cnt'
        PROVE  /\ Begun(Contents'[i]) /\ Head(Contents'[i]).msg > taken
               /\ Head(Contents'[i]).msg <= n + 1
               /\ i # cnt => Whole(Contents'[i])
    <3>1. CASE i = cnt
      BY <1>5, <1>8, <3>1
    <3>2. CASE i \in 1..(cnt - 1) /\ i + 1 \in 1..cnt
      <4> DEFINE k == i + 1
      <4>1. k \in 1..cnt /\ Contents'[i] = Contents[k]
        BY <1>8, <3>2
      <4> HIDE DEF k
      <4>2. Begun(Contents'[i]) /\ Whole(Contents'[i])
        BY <1>2, <4>1
      <4>3. /\ Head(Contents[k]).msg > taken
            /\ Head(Contents[k]).msg \in Nat /\ Head(Contents[k]).msg <= n
        BY <1>2, <4>1
      <4>4. Head(Contents[k]).msg <= n + 1
        BY <4>3
      <4> QED
        BY <4>1, <4>2, <4>3, <4>4
    <3> QED
      BY <2>1, <3>1, <3>2
  <2>3. ASSUME NEW i \in 1..cnt', NEW j \in 1..cnt', i < j PROVE Head(Contents'[i]).msg < Head(Contents'[j]).msg
    <3> DEFINE k == i + 1
               l == j + 1
    <3>1. k \in 1..cnt /\ Contents'[i] = Contents[k] /\ k = i + 1
      BY <1>1, <1>8, <2>3
    <3>2. j = cnt \/ (l \in 1..cnt /\ Contents'[j] = Contents[l] /\ k < l)
      BY <1>1, <1>8, <2>3
    <3> HIDE DEF k, l
    <3>3. Head(Contents[k]).msg \in Nat /\ Head(Contents[k]).msg <= n
      BY <1>2, <3>1
    <3>4. CASE j = cnt
      BY SMTT(20), <1>8, <3>1, <3>3, <3>4
    <3>5. CASE l \in 1..cnt /\ Contents'[j] = Contents[l] /\ k < l
      BY <1>3, <3>1, <3>5
    <3> QED
      BY <3>2, <3>4, <3>5
  <2>4. \A i \in 1..(cnt' - 1) : i \in 1..cnt' /\ i # cnt
    BY <1>1, <1>8
  <2>5. InOrder'
    BY <2>2, <2>3 DEF InOrder, Begun
  <2>6. WholeTo(cnt - 1)'
    BY <2>2, <2>4 DEF WholeTo, Whole, Begun
  <2>7. Whole(f) => WholeTo(cnt)'
    <3>1. ASSUME Whole(f) PROVE \A i \in 1..cnt' : Whole(Contents'[i])
      BY <1>8, <2>2, <3>1
    <3> QED
      BY <3>1 DEF WholeTo, Whole, Begun
  <2> QED
    BY <2>2, <2>5, <2>6, <2>7
<1> QED
  BY <1>4, <1>6, <1>7, <1>8

\* A message goes into the ring, or a part of one into the accumulator.
LEMMA FramesOfQueue ==
    ASSUME WcTypeOK, WcTypeOK', RingSound, BufferSound, FramesSound, NEW c \in Callbacks, Queue(c)
    PROVE  FramesSound'
<1> SUFFICES ASSUME valid', ~overtaken' PROVE (OneReader /\ InOrder /\ Coming)'
  BY DEF FramesSound
<1>1. /\ valid /\ ~overtaken /\ UNCHANGED <<arrived, receiving, taken>> /\ cnt \in Nat /\ arrived \in Nat
      /\ arrived <= Len(Stream) /\ Len(Stream) \in Nat /\ taken \in Nat
  BY RingTypes, StreamParts DEF Queue, link, wcHistory, WcTypeOK
<1>2. OneReader /\ InOrder /\ Coming
  BY <1>1 DEF FramesSound, CutOff, AtWork, Queue
<1>3. PICK a \in 1..(Len(Stream) + 1) : AccAt(a)
  BY <1>2 DEF Coming
<1>4. cb[c] = "read" /\ arrived > 0 /\ buffer = Stream[arrived] /\ cb' = [cb EXCEPT ![c] = "chain"]
  BY DEF Queue, BufferSound
<1>5. \A d \in Callbacks : ~AtWork(d)'
  BY <1>2, <1>4 DEF OneReader, AtWork, WcTypeOK
<1>6. OneReader'
  BY <1>5 DEF OneReader
<1>7. Kept = arrived - 1 /\ Kept' = arrived
  BY <1>1, <1>4, <1>5 DEF Kept, Reading, AtWork
<1>8. /\ Stream[arrived].msg = Done(a) + 1 /\ Stream[a].msg = Done(a) + 1 /\ Done(a) \in Nat
      /\ a > 0 /\ a <= arrived
  BY <1>1, <1>3, <1>4, <1>7, PartOf
<1>9. Append(acc, buffer) = SubSeq(Stream, a, arrived) /\ Head(SubSeq(Stream, a, arrived)) = Stream[a]
  <2> DEFINE n == arrived - 1
  <2>1. n \in Nat /\ a <= n + 1 /\ n + 1 = arrived /\ a \in Nat
    BY <1>1, <1>4, <1>8
  <2>2. acc = SubSeq(Stream, a, n)
    BY <1>3, <1>7 DEF AccAt
  <2> HIDE DEF n
  <2>3. /\ Append(SubSeq(Stream, a, n), Stream[n + 1]) = SubSeq(Stream, a, n + 1)
        /\ Head(SubSeq(Stream, a, n + 1)) = Stream[a]
    BY <1>1, <1>8, <2>1, OnePartMore
  <2> QED
    BY <1>4, <2>1, <2>2, <2>3
<1>10. /\ taken <= Done(a) /\ (a = 1 \/ Stream[a - 1].last)
       /\ \A i \in 1..cnt : Head(Contents[i]).msg <= Done(a)
       /\ \A k \in a..(arrived - 1) : ~Stream[k].last /\ Stream[k].msg = Done(a) + 1
  BY <1>3, <1>7 DEF AccAt
<1>11. CASE ~buffer.last
  <2>1. acc' = Append(acc, buffer) /\ UNCHANGED ring
    BY <1>11 DEF Queue
  <2>2. Contents' = Contents /\ cnt' = cnt
    BY <2>1 DEF ring, Contents
  <2>3. InOrder' /\ WholeTo(cnt)'
    BY <1>1, <1>2, <2>2 DEF InOrder, Coming, WholeTo
  <2>4. \A k \in a..arrived : ~Stream[k].last /\ Stream[k].msg = Done(a) + 1
    <3>1. \A k \in a..arrived : k = arrived \/ k \in a..(arrived - 1)
      BY <1>1, <1>8
    <3> QED
      BY <1>4, <1>8, <1>10, <1>11, <3>1
  <2>5. a \in 1..(arrived + 1)
    BY <1>1, <1>8
  <2>6. AccAt(a)'
    BY <1>1, <1>7, <1>9, <1>10, <2>1, <2>2, <2>4, <2>5 DEF AccAt, Done
  <2>7. a \in 1..(Len(Stream') + 1)
    OBVIOUS
  <2> QED
    BY <1>6, <2>3, <2>6, <2>7 DEF Coming
<1>12. CASE buffer.last
  <2> DEFINE f == Append(acc, buffer)
  <2> PICK b \in Nat : b = arrived + 1
    BY <1>1
  <2>1. f \in Seq(Parts) /\ f # <<>> /\ Store(f) /\ acc' = <<>>
    BY <1>4, <1>12, FrameTyped DEF Queue, LeftOver
  <2>2. Begun(f) /\ Whole(f) /\ Head(f).msg = Done(a) + 1
    <3>1. a \in DOMAIN Stream /\ arrived \in DOMAIN Stream
      BY <1>1, <1>4, <1>8, StreamParts
    <3>3. Begun(f)
      <4>1. \A k \in a..(arrived - 1) : ~Stream[k].last
        BY <1>10
      <4> QED
        BY <1>8, <1>9, <1>10, <3>1, <4>1 DEF Begun
    <3>4. f[Len(f)] = buffer
      <4>1. acc \in Seq(Parts) /\ buffer \in Parts
        BY <1>4, FrameTyped DEF WcTypeOK
      <4> QED
        BY <4>1, AppendProperties
    <3> QED
      BY <1>8, <1>9, <1>12, <3>3, <3>4 DEF Whole
  <2>3. Done(b) = Done(a) + 1 /\ b \in 1..(Len(Stream) + 1) /\ b # 1 /\ b - 1 = arrived
    BY SMTT(20), <1>1, <1>4, <1>8 DEF Done
  <2>4. acc' = SubSeq(Stream, b, arrived)
    BY <1>1, <2>1, NoPartsYet
  <2> HIDE DEF f
  <2>6. InOrder' /\ WholeTo(cnt)' /\ \A i \in 1..cnt' : Head(Contents'[i]).msg <= Done(a) + 1
    <3>1. WholeTo(cnt)
      BY <1>2 DEF Coming
    <3> PICK n \in Nat : n = Done(a)
      BY <1>8
    <3>2. taken <= n /\ (\A i \in 1..cnt : Head(Contents[i]).msg <= n) /\ Head(f).msg = n + 1
      BY <1>10, <2>2
    <3>3. InOrder' /\ WholeTo(cnt)' /\ \A i \in 1..cnt' : Head(Contents'[i]).msg <= n + 1
      BY <1>1, <1>2, <2>1, <2>2, <3>1, <3>2, StoredInOrder
    <3> QED
      BY <3>3
  <2>7. AccAt(b)'
    <3>1. \A k \in b..arrived : FALSE
      BY <1>1
    <3>2. b \in 1..(arrived + 1) /\ Stream[b - 1].last /\ taken' <= Done(b)
      BY <1>1, <1>4, <1>8, <1>10, <1>12, <2>3
    <3>3. \A i \in 1..cnt' : Head(Contents'[i]).msg <= Done(b)
      BY <2>3, <2>6
    <3> QED
      BY <1>7, <2>4, <3>1, <3>2, <3>3 DEF AccAt, Done
  <2> QED
    BY <1>6, <2>3, <2>6, <2>7 DEF Coming
<1> QED
  BY <1>11, <1>12, <1>4, <1>1, StreamParts

\* What the close found goes into the ring, and nothing after it.
LEMMA FramesOfRest ==
    ASSUME WcTypeOK, WcTypeOK', RingSound, BufferSound, FramesSound, NEW c \in Callbacks, QueueRest(c)
    PROVE  FramesSound'
<1> SUFFICES ASSUME valid', ~overtaken' PROVE (OneReader /\ InOrder /\ (Coming \/ CutOff))'
  BY DEF FramesSound
<1>1. /\ valid /\ ~overtaken /\ UNCHANGED <<arrived, receiving, taken, alive>> /\ ~alive
      /\ arrived \in Nat /\ arrived <= Len(Stream) /\ Len(Stream) \in Nat
      /\ cb[c] = "close" /\ cb' = [cb EXCEPT ![c] = "chain"] /\ acc' = <<>> /\ acc \in Seq(Parts)
  BY StreamParts DEF QueueRest, LeftOver, BufferSound, link, wcHistory, WcTypeOK
<1>2. OneReader /\ InOrder /\ Coming /\ ~receiving
  BY <1>1 DEF FramesSound, CutOff, AtWork, OneReader
<1>3. PICK a \in 1..(Len(Stream) + 1) : AccAt(a)
  BY <1>2 DEF Coming
<1>4. (\A d \in Callbacks : ~AtWork(d)') /\ \A d \in Callbacks : cb[d] # "read"
  BY <1>1, <1>2 DEF OneReader, AtWork, WcTypeOK
<1>5. OneReader' /\ Kept = arrived /\ Kept' = arrived
  BY <1>1, <1>4 DEF OneReader, Kept, Reading, AtWork
<1>6. ASSUME UNCHANGED ring PROVE InOrder' /\ WholeTo(cnt)' /\ WholeTo(cnt - 1)' /\ Contents' = Contents /\ cnt' = cnt
  <2>1. Contents' = Contents /\ cnt' = cnt /\ cnt \in Nat
    BY <1>6, RingTypes DEF ring, Contents
  <2>2. \A i \in 1..(cnt - 1) : i \in 1..cnt
    BY <2>1
  <2> QED
    BY <1>1, <1>2, <2>1, <2>2 DEF InOrder, Coming, WholeTo
<1>7. CASE acc = <<>>
  <2>1. UNCHANGED ring
    BY <1>7 DEF QueueRest
  <2>2. AccAt(a)'
    BY <1>1, <1>3, <1>5, <1>6, <1>7, <2>1 DEF AccAt, Done
  <2> QED
    BY <1>5, <1>6, <2>1, <2>2 DEF Coming
<1>8. CASE acc # <<>>
  <2>1. /\ a \in 1..(arrived + 1) /\ acc = SubSeq(Stream, a, arrived) /\ (a = 1 \/ Stream[a - 1].last)
        /\ \A k \in a..arrived : ~Stream[k].last /\ Stream[k].msg = Done(a) + 1
        /\ taken <= Done(a) /\ \A i \in 1..cnt : Head(Contents[i]).msg <= Done(a)
    BY <1>3, <1>5 DEF AccAt
  <2>2. a <= arrived
    <3>1. a \in Nat /\ (a = arrived + 1 \/ a <= arrived)
      BY <1>1, <2>1
    <3>2. SubSeq(Stream, arrived + 1, arrived) = <<>>
      BY <1>1, NoPartsYet
    <3> QED
      BY <1>8, <2>1, <3>1, <3>2
  <2>3. a \in DOMAIN Stream /\ arrived \in DOMAIN Stream /\ a \in a..arrived
    BY <1>1, <2>1, <2>2, StreamParts
  <2>4. Begun(acc)
    <3>1. \A k \in a..(arrived - 1) : ~Stream[k].last
      BY <1>1, <2>1
    <3> QED
      BY <2>1, <2>2, <2>3, <3>1 DEF Begun
  <2>5. Head(acc) = Stream[a] /\ Stream[a].msg = Done(a) + 1 /\ Stream[a].msg \in Nat
    <3> PICK m \in Nat : m = arrived - 1
      BY <1>1, <2>1, <2>2
    <3>1. Head(SubSeq(Stream, a, m + 1)) = Stream[a]
      <4>1. a \in Nat /\ a > 0 /\ a <= m + 1 /\ m + 1 <= Len(Stream) /\ m + 1 = arrived
        BY <1>1, <2>1, <2>2
      <4> QED
        BY <4>1, OnePartMore
    <3>2. m + 1 = arrived
      BY <1>1
    <3>3. Stream[a].msg \in Nat
      BY <2>3, StreamParts
    <3> QED
      BY <2>1, <2>3, <3>1, <3>2, <3>3
  <2>6. CASE UNCHANGED ring
    BY <1>1, <1>2, <1>4, <1>5, <1>6, <2>6 DEF CutOff
  <2>7. CASE Store(acc)
    <3>1. Done(a) \in Nat
      <4>1. CASE a = 1
        BY <4>1 DEF Done
      <4>2. CASE a # 1
        <5>1. a - 1 \in 1..Len(Stream)
          BY <1>1, <2>1, <2>2, <4>2
        <5> QED
          BY <4>2, <5>1, StreamParts DEF Done
      <4> QED
        BY <4>1, <4>2
    <3> PICK n \in Nat : n = Done(a)
      BY <3>1
    <3>2. taken <= n /\ (\A i \in 1..cnt : Head(Contents[i]).msg <= n) /\ Head(acc).msg = n + 1
      BY <2>1, <2>5
    <3>3. InOrder' /\ WholeTo(cnt - 1)'
      BY <1>1, <1>2, <1>8, <2>4, <2>7, <3>2, StoredInOrder DEF Coming
    <3> QED
      BY <1>1, <1>2, <1>4, <1>5, <3>3 DEF CutOff
  <2> QED
    BY <1>8, <2>6, <2>7 DEF QueueRest
<1> QED
  BY <1>7, <1>8

\* So the frames stay whole and in order.
LEMMA FramesKept ==
    ASSUME WcTypeOK, WcTypeOK', RingSound, BufferSound, FramesSound, [WcNext]_wcVars
    PROVE  FramesSound'
<1>1. CASE UNCHANGED wcVars
  <2>1. UNCHANGED <<ring, taken, acc, arrived, cb, valid, overtaken, receiving, alive>>
    BY <1>1 DEF wcVars, link, input, wcHistory
  <2> QED
    BY <2>1, FramesLeft DEF AtWork
<1>2. CASE Connect
  <2>1. UNCHANGED <<ring, taken, acc, arrived, cb, valid, overtaken, receiving, alive>>
    BY <1>2 DEF Connect, input, wcHistory
  <2> QED
    BY <2>1, FramesLeft DEF AtWork
<1>3. CASE Upgrade
  <2>1. UNCHANGED <<ring, taken, acc, arrived, cb, valid, overtaken, alive>>
    BY <1>3 DEF Upgrade, OnSendRequestComplete, OnHeadersAvailable, input, wcHistory
  <2>2. receiving' => receiving \/ (socket = "response" /\ alive)
    BY <1>3 DEF Upgrade, OnSendRequestComplete, OnHeadersAvailable
  <2>3. receiving' => receiving \/ \A c \in Callbacks : cb[c] # "read"
    BY <2>2 DEF BufferSound
  <2> QED
    BY <2>1, <2>2, <2>3, FramesLeft DEF AtWork
<1>4. CASE Breaks \/ OnError \/ Disconnect \/ CleanupHandles
  <2>1. /\ UNCHANGED <<ring, taken, acc, arrived, cb, overtaken>> /\ (valid' => valid)
        /\ (receiving' => receiving) /\ (~alive => ~alive')
    BY <1>4 DEF Breaks, OnError, Disconnect, CleanupHandles, link, input, wcHistory
  <2> QED
    BY <2>1, FramesLeft DEF AtWork
<1>5. CASE Poll \/ Send \/ SendStores \/ SendCalls
  <2>1. UNCHANGED <<ring, taken, acc, arrived, cb, valid, overtaken, receiving, alive>>
    BY <1>5 DEF Poll, Send, SendStores, SendCalls, link, input, wcHistory
  <2> QED
    BY <2>1, FramesLeft DEF AtWork
<1>6. CASE PollReads
  <2>1. UNCHANGED <<ring, taken, acc, arrived, cb, valid, alive>>
    BY <1>6 DEF PollReads, link, input
  <2>2. /\ overtaken => overtaken'
        /\ ~alive => (receiving' => receiving)
        /\ ~overtaken' /\ receiving' => receiving \/ \A c \in Callbacks : cb[c] # "read"
    BY <1>6 DEF PollReads, StartRead
  <2>3. cb' = cb /\ valid' = valid /\ alive' = alive
    BY <2>1
  <2>4. \A c \in Callbacks : (AtWork(c)' <=> AtWork(c)) /\ (cb'[c] = "read" <=> cb[c] = "read")
    BY <2>3 DEF AtWork
  <2> QED
    BY <2>1, <2>2, <2>3, <2>4, FramesLeft
<1>7. CASE Read
  BY <1>7, FramesOfRead
<1>8. CASE ResetState
  BY <1>8 DEF ResetState, BufferSound, FramesSound
<1>9. ASSUME NEW c \in Callbacks, Chain(c) \/ WriteComplete(c) \/ SendCompletes(c) PROVE FramesSound'
  <2>1. UNCHANGED <<ring, taken, acc, arrived, valid, alive>>
    BY <1>9 DEF Chain, WriteComplete, SendCompletes, link, input, wcHistory
  <2>2. \A d \in Callbacks : (AtWork(d)' <=> AtWork(d)) /\ (cb'[d] = "read" <=> cb[d] = "read")
    <3>1. cb[c] \in {"chain", "idle", "sent"} /\ \E x \in {"chain", "idle", "sent"} : cb' = [cb EXCEPT ![c] = x]
      <4>1. CASE Chain(c)
        BY <4>1 DEF Chain
      <4>2. CASE WriteComplete(c)
        BY <4>2 DEF WriteComplete
      <4>3. CASE SendCompletes(c)
        BY <4>3 DEF SendCompletes
      <4> QED
        BY <1>9, <4>1, <4>2, <4>3
    <3> QED
      BY <3>1 DEF WcTypeOK, AtWork
  <2>3. /\ overtaken => overtaken'
        /\ ~alive => (receiving' => receiving)
        /\ ~overtaken' /\ receiving' => receiving \/ \A d \in Callbacks : cb[d] # "read"
    <3>1. CASE Chain(c)
      BY <3>1 DEF Chain, StartRead
    <3>2. CASE WriteComplete(c) \/ SendCompletes(c)
      BY <3>2 DEF WriteComplete, SendCompletes, wcHistory
    <3> QED
      BY <1>9, <3>1, <3>2
  <2> QED
    BY <2>1, <2>2, <2>3, FramesLeft
<1>10. ASSUME NEW c \in Callbacks, ReadComplete(c) \/ ReadClose(c) \/ Queue(c) \/ QueueRest(c) PROVE FramesSound'
  BY <1>10, FramesOfArrival, FramesOfQueue, FramesOfRest
<1> QED
  BY <1>1, <1>2, <1>3, <1>4, <1>5, <1>6, <1>7, <1>8, <1>9, <1>10 DEF WcNext, Exports, Callback

-----------------------------------------------------------------------------
\* What the three theorems need in the state before.
WcInv == WcTypeOK /\ RingSound /\ BufferSound /\ RoomForSignals /\ FramesSound

\* Nothing is received in the initial state.
LEMMA WcInitHolds == WcInit => WcInv
<1> SUFFICES ASSUME WcInit PROVE WcInv
  OBVIOUS
<1>1. WcTypeOK
  BY WcInitTypes
<1>2. RingSound
  <2>1. 0 % Depth = 0
    OBVIOUS
  <2> QED
    BY <2>1 DEF WcInit, RingSound
<1>3. BufferSound
  BY DEF WcInit, BufferSound, Callbacks
<1>4. RoomForSignals
  <2> DEFINE S == {i \in 1..cnt : Head(Contents[i]).low}
  <2>1. S \in SUBSET (1..0) /\ 0 \in Nat /\ Half \in Nat
    BY RingTypes, <1>1 DEF WcInit
  <2> SUFFICES Cardinality(S) <= Half
    BY DEF RoomForSignals
  <2> HIDE DEF S
  <2>2. Cardinality(S) \in Nat /\ Cardinality(S) <= 0
    BY <2>1, FewPlaces
  <2> QED
    BY <2>1, <2>2
<1>5. FramesSound
  <2>1. OneReader /\ InOrder /\ ~Reading /\ WholeTo(cnt)
    BY DEF WcInit, OneReader, AtWork, InOrder, Reading, WholeTo
  <2>2. acc = SubSeq(Stream, 1, 0)
    <3>1. SubSeq(Stream, 0 + 1, 0) = <<>>
      BY NoPartsYet
    <3> QED
      BY <3>1 DEF WcInit
  <2>3. Kept = 0 /\ taken = 0 /\ cnt = 0
    BY <2>1 DEF WcInit, Kept
  <2>4. AccAt(1)
    BY <2>2, <2>3 DEF AccAt, Done
  <2>5. 1 \in 1..(Len(Stream) + 1)
    BY StreamParts
  <2> QED
    BY <2>1, <2>4, <2>5 DEF FramesSound, Coming
<1> QED
  BY <1>1, <1>2, <1>3, <1>4, <1>5 DEF WcInv

\* One step of any thread.
LEMMA WcStep == WcInv /\ [WcNext]_wcVars => WcInv'
  BY TypesKept, RingKept, BufferKept, RoomKept, FramesKept DEF WcInv

\* It holds in every state, whatever is fair.
LEMMA WcAlways == WcInit /\ [][WcNext]_wcVars => []WcInv
  BY WcInitHolds, WcStep, PTL

\* The client's inductive invariant, which the results below rest on.
THEOREM WcInvariance == WcSpec => []WcInv
  BY WcAlways, PTL DEF WcSpec

\* The frames in the ring are whole messages, in the server's order and after all
\* that was read, but for the newest once the connection has ended, which a close
\* frame may cut off (OnReadComplete's accumulator and ring, PTWS_Read): whatever
\* the stream, the ring's depth and the interleaving of the two callback threads
\* and the EA's exports, until the connection is freed and unless a receive was
\* started into a buffer a callback was still using.
THEOREM FramesStayWhole == WcSpec => []RingInOrder
<1>1. WcInv => RingInOrder
  <2> SUFFICES ASSUME WcInv, valid, ~overtaken
               PROVE  /\ wr = (rd + cnt) % Depth
                      /\ \A i \in 1..cnt :
                            /\ Begun(Contents[i]) /\ (Whole(Contents[i]) \/ (i = cnt /\ ~alive))
                            /\ Head(Contents[i]).msg > IF i = 1 THEN taken ELSE Head(Contents[i - 1]).msg
    BY DEF RingInOrder
  <2>1. wr = (rd + cnt) % Depth /\ InOrder /\ WcTypeOK /\ RingSound /\ (Coming \/ CutOff)
    BY DEF WcInv, RingSound, FramesSound
  <2>3. ASSUME NEW i \in 1..cnt PROVE Whole(Contents[i]) \/ (i = cnt /\ ~alive)
    <3>1. i = cnt \/ i \in 1..(cnt - 1)
      BY <2>1, RingTypes
    <3> QED
      BY <2>1, <3>1 DEF Coming, CutOff, WholeTo
  <2>2. ASSUME NEW i \in 1..cnt, i # 1 PROVE Head(Contents[i]).msg > Head(Contents[i - 1]).msg
    <3> DEFINE j == i - 1
    <3>1. j \in 1..cnt /\ j < i
      BY <2>1, <2>2, RingTypes
    <3> HIDE DEF j
    <3>2. /\ Head(Contents[j]).msg < Head(Contents[i]).msg
          /\ Head(Contents[j]).msg \in Nat /\ Head(Contents[i]).msg \in Nat
      BY <2>1, <3>1, HeadTyped DEF InOrder
    <3>3. Head(Contents[i]).msg > Head(Contents[j]).msg
      BY <3>2
    <3> QED
      BY <3>3 DEF j
  <2> QED
    BY <2>1, <2>2, <2>3 DEF InOrder
<1> QED
  BY <1>1, WcInvariance, PTL

\* Half of the ring stays free for signals and acknowledgments (PushMessage's
\* discarding of low-priority frames), whatever its depth.
THEOREM RoomIsLeft == WcSpec => []RoomForSignals
<1>1. WcInv => RoomForSignals
  BY DEF WcInv
<1> QED
  BY <1>1, WcInvariance, PTL

HIDE WsClientAssumption

-----------------------------------------------------------------------------
(*****************************************************************************)
(* EaUpdate                                                                  *)
(* As long as no download is cut short, EA_new is torn only while it is      *)
(* written, and while the terminal runs past the swap the EA or its backup   *)
(* is whole besides.                                                         *)
(*****************************************************************************)

USE EaUpdateAssumption DEF Releases, Content, Missing, Torn, Limit

\* What the server hands out is a release, from the cache too.
ServesReleases ==
    /\ cachedAs # Missing => cached \in Releases
    /\ phase \in {"read", "gets"} => payload \in Releases

\* A terminal starts from a whole EA.
StartsWhole == phase = "init" => curFile \in Releases

\* Without a download cut short, only a file being written is torn.
TornOnlyInWrite ==
    ~cutShort =>
        /\ curFile # Torn /\ bakFile # Torn
        /\ newFile = Torn => phase = "writes"
        /\ phase = "writes" => payload \in Releases

\* While the terminal runs past the swap, EA_new may go.
WholeBesideNew ==
    ~cutShort /\ phase \in {"moved", "up", "asks", "read", "gets", "writes"} =>
        curFile \in Releases \/ bakFile \in Releases

\* What the two theorems need in the state before.
UpInv ==
    /\ UpTypeOK /\ ServesReleases /\ StartsWhole
    /\ TornOnlyInWrite /\ WholeBesideNew /\ WholeCopyKept

-----------------------------------------------------------------------------
\* A whole EA is in place in the initial state.
LEMMA UpInitHolds == UpInit => UpInv
<1> SUFFICES ASSUME UpInit PROVE UpInv
  OBVIOUS
<1>1. UpTypeOK
  <2>1. 0 \in 0..MaxRelease /\ 0 \in 0..MaxStarts /\ 0 \in 0..(Limit + 1)
    OBVIOUS
  <2>2. {curFile, newFile, bakFile, payload} \subseteq Content
    BY <2>1 DEF UpInit
  <2> QED
    BY <2>1, <2>2 DEF UpInit, UpTypeOK
<1> QED
  BY <1>1 DEF UpInit, UpInv, ServesReleases, StartsWhole, TornOnlyInWrite, WholeBesideNew, WholeCopyKept

\* The actions, one by one.
LEMMA UpActions ==
    ASSUME UpNext
    PROVE  \/ Publish \/ RestartServer \/ Serve \/ RememberFile
           \/ Check \/ Request \/ ReadBody \/ WriteFile
           \/ NothingPending \/ MoveAside \/ MoveIn
           \/ GiveUp \/ DeleteOld \/ RenameNew
           \/ Start \/ Cool \/ TriggerAutoRestart \/ Crash
  BY DEF UpNext, Server, Download, Swap, Script

-----------------------------------------------------------------------------
\* The types, after each step.
LEMMA UpTypeStep == UpInv /\ [UpNext]_upVars => UpTypeOK'
<1> SUFFICES ASSUME UpInv, [UpNext]_upVars PROVE UpTypeOK'
  OBVIOUS
<1> USE DEF UpInv, UpTypeOK, server, files
<1>1. CASE Publish \/ RestartServer
  BY <1>1 DEF Publish, RestartServer
<1>2. CASE Serve
  BY <1>2 DEF Serve
<1>3. CASE RememberFile
  BY <1>3 DEF RememberFile, ServesReleases
<1>4. CASE Check \/ Request
  BY <1>4 DEF Check, Request
<1>5. CASE ReadBody
  BY <1>5 DEF ReadBody
<1>6. CASE WriteFile
  BY <1>6 DEF WriteFile
<1>7. CASE NothingPending
  BY <1>7 DEF NothingPending
<1>8. CASE MoveAside
  BY <1>8 DEF MoveAside, Backup
<1>9. CASE MoveIn
  BY <1>9 DEF MoveIn
<1>10. CASE GiveUp \/ DeleteOld
  BY <1>10 DEF GiveUp, DeleteOld
<1>11. CASE RenameNew
  <2>1. curFile' \in Content /\ newFile' \in Content
    BY <1>11 DEF RenameNew
  <2>2. /\ running' \in Releases \cup {Missing} /\ downloaded' \in BOOLEAN /\ cooled' \in BOOLEAN
        /\ starts' \in 0..MaxStarts
        /\ phase' \in {"off", "init", "moved", "up", "asks", "read", "gets", "writes"}
    <3>1. CASE phase = "off" /\ curFile' \in Releases /\ starts < MaxStarts
      <4>1. Started
        BY <1>11, <3>1 DEF RenameNew
      <4>2. starts' = starts + 1 /\ starts + 1 \in 0..MaxStarts
        BY <3>1, <4>1 DEF Started
      <4> QED
        BY <3>1, <4>1, <4>2 DEF Started
    <3>2. CASE ~(phase = "off" /\ curFile' \in Releases /\ starts < MaxStarts)
      BY <1>11, <3>2 DEF RenameNew
    <3> QED
      BY <3>1, <3>2
  <2> QED
    BY <1>11, <2>1, <2>2 DEF RenameNew
<1>12. CASE Start
  <2>1. starts' \in 0..MaxStarts /\ running' \in Releases
    BY <1>12 DEF Start, Started
  <2> QED
    BY <1>12, <2>1 DEF Start, Started
<1>13. CASE Cool
  BY <1>13 DEF Cool
<1>14. CASE TriggerAutoRestart
  <2>1. count' \in 0..(Limit + 1) /\ script' \in {"none", "waits", "deleted"}
    BY <1>14 DEF TriggerAutoRestart
  <2> QED
    BY <1>14, <2>1 DEF TriggerAutoRestart
<1>15. CASE Crash
  BY <1>15 DEF Crash
<1>16. CASE UNCHANGED upVars
  BY <1>16 DEF upVars
<1> QED
  BY UpActions, <1>1, <1>2, <1>3, <1>4, <1>5, <1>6, <1>7, <1>8, <1>9, <1>10, <1>11, <1>12, <1>13,
     <1>14, <1>15, <1>16

-----------------------------------------------------------------------------
(* The server's side and the terminal's start.                             *)

\* The server's cache holds whole releases only.
LEMMA UpServeStep == UpInv /\ [UpNext]_upVars => ServesReleases'
<1> SUFFICES ASSUME UpInv, [UpNext]_upVars PROVE ServesReleases'
  OBVIOUS
<1> USE DEF UpInv, UpTypeOK, ServesReleases, server, files
<1>1. CASE Publish \/ RestartServer \/ Serve \/ RememberFile
  BY <1>1 DEF Publish, RestartServer, Serve, RememberFile
<1>2. CASE Check \/ Request \/ ReadBody \/ WriteFile
  BY <1>2 DEF Check, Request, ReadBody, WriteFile
<1>3. CASE NothingPending \/ MoveAside \/ MoveIn
  BY <1>3 DEF NothingPending, MoveAside, MoveIn
<1>4. CASE GiveUp \/ DeleteOld
  BY <1>4 DEF GiveUp, DeleteOld
<1>5. CASE RenameNew
  BY <1>5 DEF RenameNew, Started
<1>6. CASE Start \/ Cool \/ TriggerAutoRestart \/ Crash
  BY <1>6 DEF Start, Started, Cool, TriggerAutoRestart, Crash
<1>7. CASE UNCHANGED upVars
  BY <1>7 DEF upVars
<1> QED
  BY UpActions, <1>1, <1>2, <1>3, <1>4, <1>5, <1>6, <1>7

\* A terminal starts from a whole EA.
LEMMA UpStartStep == UpInv /\ [UpNext]_upVars => StartsWhole'
<1> SUFFICES ASSUME UpInv, [UpNext]_upVars PROVE StartsWhole'
  OBVIOUS
<1> USE DEF UpInv, UpTypeOK, StartsWhole, server, files
<1>1. CASE Publish \/ RestartServer \/ Serve \/ RememberFile
  BY <1>1 DEF Publish, RestartServer, Serve, RememberFile
<1>2. CASE Check \/ Request \/ ReadBody \/ WriteFile
  BY <1>2 DEF Check, Request, ReadBody, WriteFile
<1>3. CASE NothingPending \/ MoveAside \/ MoveIn
  BY <1>3 DEF NothingPending, MoveAside, MoveIn
<1>4. CASE GiveUp \/ DeleteOld
  BY <1>4 DEF GiveUp, DeleteOld
<1>5. CASE RenameNew
  BY <1>5 DEF RenameNew, Started
<1>6. CASE Start \/ Cool \/ TriggerAutoRestart \/ Crash
  BY <1>6 DEF Start, Started, Cool, TriggerAutoRestart, Crash
<1>7. CASE UNCHANGED upVars
  BY <1>7 DEF upVars
<1> QED
  BY UpActions, <1>1, <1>2, <1>3, <1>4, <1>5, <1>6, <1>7

-----------------------------------------------------------------------------
(* The files.                                                              *)

\* No step but the update's own tears a file, and each leaves a whole EA.
LEMMA UpFileSteps ==
    UpInv /\ [UpNext]_upVars => TornOnlyInWrite' /\ WholeBesideNew' /\ WholeCopyKept'
<1> DEFINE FilesKept == TornOnlyInWrite' /\ WholeBesideNew' /\ WholeCopyKept'
<1> SUFFICES ASSUME UpInv, [UpNext]_upVars PROVE FilesKept
  OBVIOUS
<1> USE DEF UpInv, UpTypeOK, TornOnlyInWrite, WholeBesideNew, WholeCopyKept, server, files
<1>1. CASE Publish \/ Serve \/ RememberFile
  BY <1>1 DEF Publish, Serve, RememberFile
<1>2. CASE RestartServer
  BY <1>2 DEF RestartServer
<1>3. CASE Check \/ Request
  BY <1>3 DEF Check, Request
<1>4. CASE ReadBody
  \* EA_new goes, the other two stay
  BY <1>4 DEF ReadBody, ServesReleases
<1>5. CASE WriteFile
  BY <1>5 DEF WriteFile
<1>6. CASE NothingPending
  BY <1>6 DEF NothingPending, StartsWhole
<1>7. CASE MoveAside
  \* whole where it was, or as the backup
  BY <1>7 DEF MoveAside, Backup, StartsWhole
<1>8. CASE MoveIn
  <2>1. ~cutShort => newFile \in Releases \cup {Missing}
    BY <1>8 DEF MoveIn
  <2>2. CASE UNCHANGED files
    BY <1>8, <2>2 DEF MoveIn
  <2>3. CASE /\ curFile = Missing /\ newFile # Missing
             /\ curFile' = newFile /\ newFile' = Missing /\ bakFile' = bakFile
    BY <1>8, <2>1, <2>3 DEF MoveIn
  <2>4. CASE /\ curFile = Missing
             /\ curFile' = bakFile /\ bakFile' = Missing /\ newFile' = newFile
    BY <1>8, <2>1, <2>4 DEF MoveIn
  <2> QED
    BY <1>8, <2>2, <2>3, <2>4 DEF MoveIn
<1>9. CASE GiveUp
  BY <1>9 DEF GiveUp
<1>10. CASE DeleteOld
  \* the new file is whole: the terminal is off
  BY <1>10 DEF DeleteOld
<1>11. CASE RenameNew
  <2>1. phase' # phase => phase' = "init" /\ curFile' \in Releases
    BY <1>11 DEF RenameNew, Started
  <2>2. UNCHANGED <<bakFile, payload, cutShort>>
    BY <1>11 DEF RenameNew
  <2>3. CASE curFile = Missing /\ newFile # Missing /\ phase # "writes"
    <3>1. curFile' = newFile /\ newFile' = Missing
      BY <1>11, <2>3 DEF RenameNew
    <3> QED
      BY <2>1, <2>2, <2>3, <3>1
  <2>4. CASE ~(curFile = Missing /\ newFile # Missing /\ phase # "writes")
    <3>1. UNCHANGED <<curFile, newFile>>
      BY <1>11, <2>4 DEF RenameNew
    <3>2. phase' # phase => phase = "off"
      BY <1>11 DEF RenameNew
    <3> QED
      BY <2>1, <2>2, <3>1, <3>2
  <2> QED
    BY <2>3, <2>4
<1>12. CASE Start
  BY <1>12 DEF Start, Started
<1>13. CASE Cool
  BY <1>13 DEF Cool
<1>14. CASE TriggerAutoRestart
  BY <1>14 DEF TriggerAutoRestart
<1>15. CASE Crash
  BY <1>15 DEF Crash
<1>16. CASE UNCHANGED upVars
  BY <1>16 DEF upVars
<1> QED
  BY UpActions, <1>1, <1>2, <1>3, <1>4, <1>5, <1>6, <1>7, <1>8, <1>9, <1>10, <1>11, <1>12, <1>13,
     <1>14, <1>15, <1>16

-----------------------------------------------------------------------------
\* All of it in every state.
LEMMA UpInvariance == UpSpec => []UpInv
<1>1. UpInv /\ [UpNext]_upVars => UpInv'
  BY UpTypeStep, UpServeStep, UpStartStep, UpFileSteps DEF UpInv
<1> QED
  BY UpInitHolds, <1>1, PTL DEF UpSpec

\* The update's variables keep their types; in particular the restart counter
\* stays within its limit (PTWS_ScheduleRestart).
THEOREM UpdateTyped == UpSpec => []UpTypeOK
<1>1. UpInv => UpTypeOK
  BY DEF UpInv
<1> QED
  BY UpInvariance, <1>1, PTL

\* Wherever a swap stops, one of the three files is a whole EA, as long as no
\* download was cut short (PTWS_ApplyUpdate and the restart script).
THEOREM WholeCopyStays == UpSpec => []WholeCopyKept
<1>1. UpInv => WholeCopyKept
  BY DEF UpInv
<1> QED
  BY UpInvariance, <1>1, PTL

HIDE EaUpdateAssumption DEF Releases, Content, Missing, Torn, Limit

-----------------------------------------------------------------------------
(*****************************************************************************)
(* Telemetry                                                                 *)
(* What a connection still has to store was taken later than all that is     *)
(* stored, in the order of its frames, and one frame is saved at a time.     *)
(*****************************************************************************)

USE TelemetryAssumption

\* An endpoint saves one frame at a time.
OneSave == \A c \in Links : \A f, g \in saving[c] : f = g

\* The rows are in the order of their snapshots.
RowsRise ==
    /\ \A i, j \in DOMAIN rows : i < j => rows[i].no < rows[j].no
    /\ \A k \in DOMAIN rows : rows[k].no <= snapshots

\* A snapshot being saved is later than the rows, and earlier than those on the wire.
SavingIsLater ==
    \A c \in Links : \A f \in saving[c] : f.kind = "positions" =>
        /\ f.no <= snapshots /\ \A k \in DOMAIN rows : rows[k].no < f.no
        /\ \A i \in DOMAIN wire[c] : wire[c][i].kind = "positions" => f.no < wire[c][i].no

\* A snapshot on the wire is later than the rows, and earlier than those behind it.
WireIsLater ==
    \A c \in Links : \A i \in DOMAIN wire[c] : wire[c][i].kind = "positions" =>
        /\ wire[c][i].no <= snapshots /\ \A k \in DOMAIN rows : rows[k].no < wire[c][i].no
        /\ \A j \in DOMAIN wire[c] : i < j /\ wire[c][j].kind = "positions" => wire[c][i].no < wire[c][j].no

\* All of it, while no two connections had telemetry under way.
StoresInOrder == ~overlapped => RowsRise /\ SavingIsLater /\ WireIsLater

\* What SnapshotsInOrder needs in the state before.
TlInv == TlTypeOK /\ OneSave /\ StoresInOrder

\* What the constants say.
LEMMA Finite == Cardinality(Tickets) \in Nat /\ \A S \in SUBSET Tickets : Cardinality(S) \in 0..Cardinality(Tickets)
<1>1. ASSUME NEW S \in SUBSET Tickets PROVE Cardinality(S) \in 0..Cardinality(Tickets)
  BY FS_Subset, FS_CardinalityType
<1> QED
  BY <1>1, FS_CardinalityType

\* What OnTimer puts on the wire: the frames there were, then a snapshot, the
\* latest, and the history, or one of them, or none.
LEMMA TimerSends ==
    ASSUME TlTypeOK, OnTimer
    PROVE  /\ line \in Links /\ snapshots \in Nat /\ snapshots' \in {snapshots, snapshots + 1} /\ snapshots' \in 0..MaxTaken
           /\ wire' \in [Links -> Seq(Frames)] /\ \A c \in Links : c # line => wire'[c] = wire[c]
           /\ \A i \in DOMAIN wire[line] : i \in DOMAIN wire'[line] /\ wire'[line][i] = wire[line][i]
           /\ \A i \in DOMAIN wire'[line] :
                 \/ i \in DOMAIN wire[line]
                 \/ /\ i = Len(wire[line]) + 1 /\ wire'[line][i].no = snapshots + 1 /\ snapshots' = snapshots + 1
                 \/ wire'[line][i].kind = "history"
           /\ DOMAIN wire[line] = 1..Len(wire[line]) /\ Len(wire[line]) \in Nat
<1>1. /\ line \in Links /\ snapshots \in Nat /\ wire \in [Links -> Seq(Frames)] /\ wire[line] \in Seq(Frames)
      /\ MaxTaken \in Nat
  BY DEF OnTimer, TlTypeOK
<1>2. PICK accepted : /\ wire' = [wire EXCEPT ![line] = @ \o Sent(Snapshot, accepted) \o Sent(History, accepted)]
                      /\ snapshots' = IF "positions" \in accepted THEN snapshots + 1 ELSE snapshots
                      /\ snapshots' <= MaxTaken
  BY DEF OnTimer
<1>3. Snapshot.kind = "positions" /\ Snapshot.no = snapshots + 1 /\ History.kind = "history"
  BY DEF Snapshot, History
<1>4. History \in Frames
  BY DEF History, Histories, Frames, TlTypeOK
<1>5. ASSUME "positions" \in accepted PROVE Snapshot \in Frames
  <2>1. snapshots + 1 \in 1..MaxTaken /\ held \in SUBSET Tickets
    BY <1>1, <1>2, <1>5 DEF TlTypeOK
  <2> QED
    BY <2>1 DEF Snapshot, Snapshots, Frames
<1> DEFINE s == wire[line]
<1> PICK P : P = Sent(Snapshot, accepted)
  OBVIOUS
<1> PICK H : H = Sent(History, accepted)
  OBVIOUS
<1> DEFINE t == s \o P
           u == t \o H
<1>6. s \in Seq(Frames) /\ DOMAIN s = 1..Len(s) /\ Len(s) \in Nat
  BY <1>1, LenProperties
<1>7. H = <<>> \/ H = <<History>>
  BY DEF Sent
<1>8. /\ t \in Seq(Frames) /\ DOMAIN t = 1..Len(t)
      /\ \A i \in DOMAIN s : i \in DOMAIN t /\ t[i] = s[i]
      /\ \A i \in DOMAIN t : i \in DOMAIN s \/ (i = Len(s) + 1 /\ t[i].no = snapshots + 1 /\ snapshots' = snapshots + 1)
  <2>1. CASE "positions" \in accepted
    <3>1. P = <<>> \/ P = <<Snapshot>>
      BY DEF Sent
    <3>2. Snapshot \in Frames
      BY <1>5, <2>1
    <3> HIDE DEF s
    <3>3. /\ s \o P \in Seq(Frames) /\ DOMAIN (s \o P) = 1..Len(s \o P)
          /\ \A i \in DOMAIN s : i \in DOMAIN (s \o P) /\ (s \o P)[i] = s[i]
          /\ \A i \in DOMAIN (s \o P) : i \in DOMAIN s \/ (i = Len(s) + 1 /\ (s \o P)[i] = Snapshot)
      BY <1>6, <3>1, <3>2, OneMore
    <3>4. snapshots' = snapshots + 1
      BY <1>2, <2>1
    <3> QED
      BY <1>3, <3>3, <3>4
  <2>2. CASE "positions" \notin accepted
    <3>1. P = <<>>
      BY <1>3, <2>2 DEF Sent
    <3> HIDE DEF s
    <3>2. t = s
      BY <1>6, <3>1, ConcatEmptySeq
    <3> QED
      BY <1>6, <3>2
  <2> QED
    BY <2>1, <2>2
<1>9. /\ u \in Seq(Frames)
      /\ \A i \in DOMAIN t : i \in DOMAIN u /\ u[i] = t[i]
      /\ \A i \in DOMAIN u : i \in DOMAIN t \/ u[i] = History
  <2>1. t \in Seq(Frames)
    BY <1>8
  <2> HIDE DEF t
  <2>2. /\ t \o H \in Seq(Frames)
        /\ \A i \in DOMAIN t : i \in DOMAIN (t \o H) /\ (t \o H)[i] = t[i]
        /\ \A i \in DOMAIN (t \o H) : i \in DOMAIN t \/ (i = Len(t) + 1 /\ (t \o H)[i] = History)
    BY <1>4, <1>7, <2>1, OneMore
  <2> QED
    BY <2>2
<1>10. wire' = [wire EXCEPT ![line] = u]
  BY <1>2
<1> HIDE DEF t, u
<1>11. wire' \in [Links -> Seq(Frames)] /\ wire'[line] = u /\ \A c \in Links : c # line => wire'[c] = wire[c]
  BY <1>1, <1>9, <1>10
<1>12. snapshots' \in {snapshots, snapshots + 1} /\ snapshots' \in 0..MaxTaken
  BY <1>1, <1>2
<1>13. \A i \in DOMAIN s : i \in DOMAIN u /\ u[i] = s[i]
  BY <1>8, <1>9
<1>14. \A i \in DOMAIN u :
          \/ i \in DOMAIN s
          \/ i = Len(s) + 1 /\ u[i].no = snapshots + 1 /\ snapshots' = snapshots + 1
          \/ u[i].kind = "history"
  <2> TAKE i \in DOMAIN u
  <2>1. CASE i \in DOMAIN t
    <3>1. u[i] = t[i]
      BY <1>9, <2>1
    <3>2. CASE i \in DOMAIN s
      BY <3>2
    <3>3. CASE i = Len(s) + 1 /\ t[i].no = snapshots + 1 /\ snapshots' = snapshots + 1
      BY <3>1, <3>3
    <3> QED
      BY <1>8, <2>1, <3>2, <3>3
  <2>2. CASE u[i] = History
    BY <1>3, <2>2
  <2> QED
    BY <1>9, <2>1, <2>2
<1> QED
  BY <1>1, <1>6, <1>11, <1>12, <1>13, <1>14

-----------------------------------------------------------------------------
\* Nothing is under way in the initial state.
LEMMA TlInitHolds == TlInit => TlInv
<1> SUFFICES ASSUME TlInit PROVE TlInv
  OBVIOUS
<1>1. <<>> \in Seq(Frames) /\ <<>> \in Seq(Snapshots) /\ Len(<<>>) = 0 /\ DOMAIN <<>> = {}
  BY EmptySeq
<1>2. wire \in [Links -> Seq(Frames)] /\ \A c \in Links : Len(wire[c]) <= MaxWire
  BY <1>1 DEF TlInit
<1>3. 0 \in 0..Cardinality(Tickets) /\ 0 \in 0..MaxTaken /\ 0 \in 0..MaxWrites
  BY Finite
<1>4. TlTypeOK
  BY <1>1, <1>2, <1>3 DEF TlInit, TlTypeOK
<1>5. OneSave
  BY DEF TlInit, OneSave
<1>6. RowsRise /\ SavingIsLater /\ WireIsLater
  BY <1>1 DEF TlInit, RowsRise, SavingIsLater, WireIsLater
<1> QED
  BY <1>4, <1>5, <1>6 DEF TlInv, StoresInOrder

\* The types, after each step: what the terminal does,
LEMMA TlTypesOfTerminal ==
    ASSUME TlTypeOK, NEW t \in Tickets, Open(t) \/ Shut(t)
    PROVE  TlTypeOK'
<1>1. held' \subseteq Tickets /\ past' \subseteq Tickets /\ held' \cap past' = {}
  BY DEF TlTypeOK, Open, Shut
<1>2. UNCHANGED <<reporter, session, wire, store>>
  BY DEF Open, Shut
<1> QED
  BY <1>1, <1>2 DEF TlTypeOK, reporter, store

\* what the EA reports,
LEMMA TlTypesOfReports ==
    ASSUME TlTypeOK, OnTimer \/ FrameSent
    PROVE  TlTypeOK'
<1>1. CASE OnTimer
  <2>1. /\ wire' \in [Links -> Seq(Frames)] /\ snapshots' \in 0..MaxTaken /\ line \in Links
        /\ \A c \in Links : c # line => wire'[c] = wire[c]
    BY <1>1, TimerSends
  <2>2. Len(wire'[line]) <= MaxWire /\ UNCHANGED <<terminal, line, session, store>> /\ begun' = TRUE /\ inFlight' = TRUE
        /\ lastCount' = Cardinality(held)
    BY <1>1 DEF OnTimer
  <2>3. \A c \in Links : Len(wire'[c]) <= MaxWire
    BY <2>1, <2>2 DEF TlTypeOK
  <2>4. lastCount' \in 0..Cardinality(Tickets)
    BY <2>2, Finite DEF TlTypeOK
  <2> QED
    BY <2>1, <2>2, <2>3, <2>4 DEF TlTypeOK, terminal, store
<1>2. CASE FrameSent
  BY <1>2 DEF FrameSent, TlTypeOK, terminal, store
<1> QED
  BY <1>1, <1>2

\* a connection that is made, lost or over,
LEMMA TlTypesOfLinks ==
    ASSUME TlTypeOK, NEW c \in Links, Dial(c) \/ Drop(c) \/ EndSession(c)
    PROVE  TlTypeOK'
<1>1. CASE Dial(c)
  <2>1. session' \in [Links -> {"new", "up", "cut", "over"}] /\ line' \in Links \cup {0} /\ begun' \in BOOLEAN /\ inFlight' \in BOOLEAN
    BY <1>1 DEF Dial, TlTypeOK
  <2> QED
    BY <1>1, <2>1 DEF Dial, TlTypeOK, terminal, store
<1>2. CASE Drop(c)
  <2>1. session' \in [Links -> {"new", "up", "cut", "over"}] /\ line' \in Links \cup {0}
    BY <1>2 DEF Drop, TlTypeOK
  <2>2. PICK n \in 0..Len(wire[c]) : wire' = [wire EXCEPT ![c] = SubSeq(@, 1, n)]
    BY <1>2 DEF Drop
  <2>3. wire[c] \in Seq(Frames) /\ Len(wire[c]) \in Nat /\ Len(wire[c]) <= MaxWire /\ MaxWire \in Nat
    BY LenProperties DEF TlTypeOK
  <2> DEFINE s == wire[c]
             t == SubSeq(s, 1, n)
  <2>4. t \in Seq(Frames) /\ Len(t) <= MaxWire
    <3>1. s \in Seq(Frames) /\ n \in 0..Len(s) /\ Len(s) \in Nat /\ Len(s) <= MaxWire
      BY <2>3
    <3> HIDE DEF s
    <3>2. SubSeq(s, 1, n) \in Seq(Frames) /\ Len(SubSeq(s, 1, n)) <= Len(s)
      BY <3>1, Beginning
    <3>3. Len(SubSeq(s, 1, n)) \in Nat
      BY <3>2, LenProperties
    <3> QED
      BY <2>3, <3>1, <3>2, <3>3
  <2> HIDE DEF t
  <2>5. wire' = [wire EXCEPT ![c] = t]
    BY <2>2 DEF t
  <2>6. wire' \in [Links -> Seq(Frames)] /\ \A d \in Links : Len(wire'[d]) <= MaxWire
    BY <2>4, <2>5 DEF TlTypeOK
  <2>7. UNCHANGED <<terminal, begun, lastCount, inFlight, snapshots, store>>
    BY <1>2 DEF Drop
  <2> QED
    BY <2>1, <2>6, <2>7 DEF TlTypeOK, terminal, store
<1>3. CASE EndSession(c)
  <2>1. session' \in [Links -> {"new", "up", "cut", "over"}]
    BY <1>3 DEF EndSession, TlTypeOK
  <2> QED
    BY <1>3, <2>1 DEF EndSession, TlTypeOK, terminal, reporter, store
<1> QED
  BY <1>1, <1>2, <1>3

\* The first frame of a wire, and those that stay.
LEMMA FrameTaken ==
    ASSUME TlTypeOK, NEW c \in Links, TakeFrame(c)
    PROVE  /\ wire[c] \in Seq(Frames) /\ wire[c] # <<>> /\ Head(wire[c]) \in Frames /\ Head(wire[c]) = wire[c][1]
           /\ wire' \in [Links -> Seq(Frames)] /\ (\A d \in Links : Len(wire'[d]) <= MaxWire) /\ 1 \in DOMAIN wire[c]
           /\ (\A d \in Links : d # c => wire'[d] = wire[d]) /\ DOMAIN wire[c] = 1..Len(wire[c]) /\ Len(wire[c]) \in Nat
           /\ \A i \in DOMAIN wire'[c] : i \in Nat /\ i > 0 /\ i + 1 \in DOMAIN wire[c] /\ wire'[c][i] = wire[c][i + 1]
<1>1. wire[c] \in Seq(Frames) /\ wire[c] # <<>> /\ Len(wire[c]) <= MaxWire /\ MaxWire \in Nat /\ wire' = [wire EXCEPT ![c] = Tail(@)]
  BY DEF TakeFrame, TlTypeOK
<1> DEFINE s == wire[c]
           t == Tail(s)
<1>2. /\ t \in Seq(Frames) /\ Head(s) = s[1] /\ s[1] \in Frames /\ 1 \in DOMAIN s /\ Len(t) <= MaxWire
      /\ DOMAIN s = 1..Len(s) /\ DOMAIN t = 1..Len(t) /\ Len(s) \in Nat /\ Len(t) \in Nat
      /\ \A i \in DOMAIN t : i + 1 \in DOMAIN s /\ t[i] = s[i + 1]
  <2>1. s \in Seq(Frames) /\ s # <<>> /\ Len(s) <= MaxWire /\ MaxWire \in Nat
    BY <1>1
  <2> HIDE DEF s
  <2>2. /\ Tail(s) \in Seq(Frames) /\ Head(s) = s[1] /\ s[1] \in Frames /\ 1 \in DOMAIN s
        /\ DOMAIN s = 1..Len(s) /\ DOMAIN Tail(s) = 1..Len(Tail(s))
        /\ \A i \in DOMAIN Tail(s) : i + 1 \in DOMAIN s /\ Tail(s)[i] = s[i + 1]
    BY <2>1, TailOf
  <2>3. Len(s) \in Nat /\ Len(Tail(s)) = Len(s) - 1 /\ Len(Tail(s)) \in Nat
    BY <2>1, <2>2, HeadTailProperties, LenProperties
  <2>4. Len(Tail(s)) <= MaxWire
    BY <2>1, <2>3
  <2> QED
    BY <2>2, <2>3, <2>4
<1>3. wire' = [wire EXCEPT ![c] = t]
  BY <1>1
<1> HIDE DEF t
<1>4. /\ wire' \in [Links -> Seq(Frames)] /\ (\A d \in Links : Len(wire'[d]) <= MaxWire) /\ wire'[c] = t
      /\ \A d \in Links : d # c => wire'[d] = wire[d]
  BY <1>2, <1>3 DEF TlTypeOK
<1>5. \A i \in DOMAIN t : i \in Nat /\ i > 0
  BY <1>2
<1> QED
  BY <1>1, <1>2, <1>4, <1>5

\* a frame taken by the receive loop,
LEMMA TlTypesOfTaking ==
    ASSUME TlTypeOK, NEW c \in Links, TakeFrame(c)
    PROVE  TlTypeOK'
<1>1. wire' \in [Links -> Seq(Frames)] /\ (\A d \in Links : Len(wire'[d]) <= MaxWire) /\ Head(wire[c]) \in Frames
  BY FrameTaken
<1>2. saving' \in [Links -> SUBSET Frames] /\ writes' \in 0..MaxWrites
  <2>1. CASE writes < MaxWrites
    <3>1. writes' = writes + 1 /\ saving' = [saving EXCEPT ![c] = @ \cup {Head(wire[c])}]
      BY <2>1 DEF TakeFrame
    <3>2. saving' \in [Links -> SUBSET Frames]
      BY <1>1, <3>1 DEF TlTypeOK
    <3> QED
      BY <2>1, <3>1, <3>2 DEF TlTypeOK
  <2>2. CASE ~(writes < MaxWrites)
    BY <2>2 DEF TakeFrame, TlTypeOK
  <2> QED
    BY <2>1, <2>2
<1>3. UNCHANGED <<terminal, reporter, session, rows, deals, overlapped>>
  BY DEF TakeFrame
<1> QED
  BY <1>1, <1>2, <1>3 DEF TlTypeOK, terminal, reporter

\* What a save does to the tables.
LEMMA Saved ==
    ASSUME TlTypeOK, NEW c \in Links, NEW f \in saving[c], SaveEnds(c, f)
    PROVE  /\ f \in Frames /\ saving' \in [Links -> SUBSET Frames] /\ saving'[c] = saving[c] \ {f}
           /\ \A d \in Links : d # c => saving'[d] = saving[d]
           /\ rows' \in Seq(Snapshots) /\ (\A i \in DOMAIN rows' : rows'[i].tickets # {}) /\ deals' \subseteq Tickets
           /\ DOMAIN rows = 1..Len(rows) /\ Len(rows) \in Nat
           /\ \A i \in DOMAIN rows : i \in DOMAIN rows' /\ rows'[i] = rows[i]
           /\ \A i \in DOMAIN rows' : i \in DOMAIN rows \/ (i = Len(rows) + 1 /\ rows'[i] = f /\ f.kind = "positions")
<1>1. f \in Frames /\ saving' \in [Links -> SUBSET Frames] /\ saving'[c] = saving[c] \ {f} /\ \A d \in Links : d # c => saving'[d] = saving[d]
  BY DEF SaveEnds, TlTypeOK
<1>2. rows \in Seq(Snapshots) /\ DOMAIN rows = 1..Len(rows) /\ Len(rows) \in Nat /\ \A i \in DOMAIN rows : rows[i].tickets # {}
  BY LenProperties DEF TlTypeOK
<1>3. CASE f.kind = "positions" /\ SavePositions(f) /\ f.tickets # {}
  <2>1. rows' = Append(rows, f) /\ deals' = deals
    BY <1>3 DEF SavePositions
  <2>2. f \in Snapshots
    BY <1>1, <1>3 DEF Frames, Histories
  <2>3. /\ rows' \in Seq(Snapshots) /\ Len(rows') = Len(rows) + 1 /\ rows'[Len(rows) + 1] = f
        /\ \A i \in 1..Len(rows) : rows'[i] = rows[i]
    BY <1>2, <2>1, <2>2, AppendProperties
  <2>4. DOMAIN rows' = 1..Len(rows')
    BY <2>3, LenProperties
  <2>5. \A i \in DOMAIN rows' : i \in DOMAIN rows \/ i = Len(rows) + 1
    BY <1>2, <2>3, <2>4
  <2>6. \A i \in DOMAIN rows' : rows'[i].tickets # {}
    BY <1>2, <1>3, <2>3, <2>5
  <2>7. \A i \in DOMAIN rows : i \in DOMAIN rows' /\ rows'[i] = rows[i]
    BY <1>2, <2>3, <2>4
  <2> QED
    BY <1>1, <1>2, <1>3, <2>1, <2>3, <2>5, <2>6, <2>7 DEF TlTypeOK
<1>4. CASE rows' = rows
  <2>1. deals' \subseteq Tickets
    <3>1. deals' = deals \/ (f.kind = "history" /\ deals' = deals \cup f.tickets)
      BY <1>4 DEF SaveEnds, SavePositions, SaveHistory
    <3>2. f.tickets \subseteq Tickets
      BY <1>1 DEF Frames, Snapshots, Histories
    <3> QED
      BY <3>1, <3>2 DEF TlTypeOK
  <2> QED
    BY <1>1, <1>2, <1>4, <2>1
<1> QED
  BY <1>3, <1>4 DEF SaveEnds, SavePositions, SaveHistory

\* what ages,
LEMMA TlTypesOfTables ==
    ASSUME TlTypeOK, WriteAges \/ CleanUp PROVE TlTypeOK'
<1>1. CASE WriteAges
  <2>1. writes' \in 0..MaxWrites
    BY <1>1 DEF WriteAges, TlTypeOK
  <2> QED
    BY <1>1, <2>1 DEF WriteAges, TlTypeOK, terminal, reporter
<1>2. CASE CleanUp
  <2>1. rows \in Seq(Snapshots) /\ rows # <<>> /\ rows' = Tail(rows) /\ \A i \in DOMAIN rows : rows[i].tickets # {}
    BY <1>2 DEF CleanUp, TlTypeOK
  <2>2. rows' \in Seq(Snapshots) /\ \A i \in DOMAIN rows' : rows'[i].tickets # {}
    BY <2>1, TailOf
  <2> QED
    BY <1>2, <2>2 DEF CleanUp, TlTypeOK, terminal, reporter
<1> QED
  BY <1>1, <1>2

\* and a save that ends.
LEMMA TlTypesOfSaving ==
    ASSUME TlTypeOK, NEW c \in Links, NEW f \in saving[c], SaveEnds(c, f) PROVE TlTypeOK'
<1>1. /\ saving' \in [Links -> SUBSET Frames] /\ rows' \in Seq(Snapshots)
      /\ (\A i \in DOMAIN rows' : rows'[i].tickets # {}) /\ deals' \subseteq Tickets
  BY Saved
<1>2. overlapped' \in BOOLEAN
  BY DEF SaveEnds, TlTypeOK
<1>3. UNCHANGED <<terminal, reporter, session, wire, writes>>
  BY DEF SaveEnds
<1> QED
  BY <1>1, <1>2, <1>3 DEF TlTypeOK, terminal, reporter

\* So the types are kept.
LEMMA TlTypesKept == ASSUME TlTypeOK, [TlNext]_tlVars PROVE TlTypeOK'
<1>1. CASE UNCHANGED tlVars
  BY <1>1 DEF tlVars, terminal, reporter, store, TlTypeOK
<1> QED
  BY <1>1, TlTypesOfTerminal, TlTypesOfReports, TlTypesOfLinks, TlTypesOfTaking, TlTypesOfTables, TlTypesOfSaving DEF TlNext

-----------------------------------------------------------------------------
\* The loop waits for a save before it takes the next frame.
LEMMA OneSaveKept == ASSUME TlTypeOK, OneSave, [TlNext]_tlVars PROVE OneSave'
<1>1. CASE UNCHANGED saving
  BY <1>1 DEF OneSave
<1>2. ASSUME NEW c \in Links, TakeFrame(c) PROVE OneSave'
  <2>1. saving \in [Links -> SUBSET Frames] /\ saving[c] = {}
    BY <1>2 DEF TakeFrame, Awaited, TlTypeOK
  <2>2. UNCHANGED saving \/ saving' = [saving EXCEPT ![c] = @ \cup {Head(wire[c])}]
    BY <1>2 DEF TakeFrame
  <2> QED
    BY <2>1, <2>2 DEF OneSave
<1>3. ASSUME NEW c \in Links, NEW f \in saving[c], SaveEnds(c, f) PROVE OneSave'
  BY <1>3, Saved DEF OneSave
<1>4. ASSUME UNCHANGED tlVars \/ OnTimer \/ FrameSent \/ WriteAges \/ CleanUp PROVE UNCHANGED saving
  BY <1>4 DEF tlVars, OnTimer, FrameSent, WriteAges, CleanUp, store
<1>5. ASSUME NEW t \in Tickets, Open(t) \/ Shut(t) PROVE UNCHANGED saving
  BY <1>5 DEF Open, Shut, store
<1>6. ASSUME NEW c \in Links, Dial(c) \/ Drop(c) \/ EndSession(c) PROVE UNCHANGED saving
  BY <1>6 DEF Dial, Drop, EndSession, store
<1> QED
  BY <1>1, <1>2, <1>3, <1>4, <1>5, <1>6 DEF TlNext

-----------------------------------------------------------------------------
\* Steps that store nothing and put nothing new under way.
LEMMA OrderLeft ==
    ASSUME TlTypeOK, StoresInOrder, UNCHANGED <<snapshots, saving, rows, overlapped>>,
           \A c \in Links : \A i \in DOMAIN wire'[c] : i \in DOMAIN wire[c] /\ wire'[c][i] = wire[c][i]
    PROVE  StoresInOrder'
<1> SUFFICES ASSUME ~overlapped PROVE RowsRise' /\ SavingIsLater' /\ WireIsLater'
  BY DEF StoresInOrder
<1>1. RowsRise /\ SavingIsLater /\ WireIsLater
  BY DEF StoresInOrder
<1>2. RowsRise'
  BY <1>1 DEF RowsRise
<1>3. SavingIsLater'
  BY <1>1 DEF SavingIsLater
<1>4. WireIsLater'
  BY <1>1 DEF WireIsLater
<1> QED
  BY <1>2, <1>3, <1>4

\* A new snapshot is later than every other.
LEMMA OrderOfTimer == ASSUME TlTypeOK, StoresInOrder, OnTimer PROVE StoresInOrder'
<1>1. UNCHANGED <<saving, rows, overlapped>>
  BY DEF OnTimer, store
<1> SUFFICES ASSUME ~overlapped PROVE RowsRise' /\ SavingIsLater' /\ WireIsLater'
  BY <1>1 DEF StoresInOrder
<1>2. RowsRise /\ SavingIsLater /\ WireIsLater
  BY DEF StoresInOrder
<1>3. /\ line \in Links /\ snapshots \in Nat /\ snapshots' \in {snapshots, snapshots + 1}
      /\ wire' \in [Links -> Seq(Frames)] /\ \A c \in Links : c # line => wire'[c] = wire[c]
      /\ \A i \in DOMAIN wire[line] : i \in DOMAIN wire'[line] /\ wire'[line][i] = wire[line][i]
      /\ \A i \in DOMAIN wire'[line] :
            \/ i \in DOMAIN wire[line]
            \/ /\ i = Len(wire[line]) + 1 /\ wire'[line][i].no = snapshots + 1 /\ snapshots' = snapshots + 1
            \/ wire'[line][i].kind = "history"
      /\ DOMAIN wire[line] = 1..Len(wire[line]) /\ Len(wire[line]) \in Nat
  BY TimerSends
<1>4. \A k \in DOMAIN rows : rows[k].no \in Nat
  <2> TAKE k \in DOMAIN rows
  <2>1. rows[k] \in Snapshots
    BY LenProperties, ElementOfSeq DEF TlTypeOK
  <2> QED
    BY <2>1 DEF Snapshots
<1>5. \A c \in Links : \A f \in saving[c] : f.kind = "positions" => f.no \in Nat
  BY DEF TlTypeOK, Frames, Snapshots, Histories
<1>6. \A c \in Links : \A i \in DOMAIN wire[c] : wire[c][i].kind = "positions" => wire[c][i].no \in Nat
  <2> TAKE c \in Links
  <2>1. wire[c] \in Seq(Frames)
    BY DEF TlTypeOK
  <2> TAKE i \in DOMAIN wire[c]
  <2>2. wire[c][i] \in Frames
    BY <2>1, LenProperties, ElementOfSeq
  <2> QED
    BY <2>2 DEF Frames, Snapshots, Histories
<1>7. RowsRise'
  BY <1>1, <1>2, <1>3, <1>4 DEF RowsRise
<1>8. SavingIsLater'
  <2> SUFFICES ASSUME NEW c \in Links, NEW f \in saving[c], f.kind = "positions"
               PROVE  /\ f.no <= snapshots' /\ \A k \in DOMAIN rows : rows[k].no < f.no
                      /\ \A i \in DOMAIN wire'[c] : wire'[c][i].kind = "positions" => f.no < wire'[c][i].no
    BY <1>1 DEF SavingIsLater
  <2>1. /\ f.no <= snapshots /\ f.no \in Nat /\ \A k \in DOMAIN rows : rows[k].no < f.no
        /\ \A i \in DOMAIN wire[c] : wire[c][i].kind = "positions" => f.no < wire[c][i].no
    BY <1>2, <1>5 DEF SavingIsLater
  <2>2. f.no <= snapshots'
    BY <1>3, <2>1
  <2>3. ASSUME NEW i \in DOMAIN wire'[c], wire'[c][i].kind = "positions" PROVE f.no < wire'[c][i].no
    <3>1. CASE c # line
      BY <1>3, <2>1, <2>3, <3>1
    <3>2. CASE c = line /\ i \in DOMAIN wire[line]
      BY <1>3, <2>1, <2>3, <3>2
    <3>3. CASE c = line /\ wire'[line][i].no = snapshots + 1
      BY <1>3, <2>1, <3>3
    <3> QED
      BY <1>3, <2>3, <3>1, <3>2, <3>3
  <2> QED
    BY <2>1, <2>2, <2>3
<1>9. WireIsLater'
  <2> SUFFICES ASSUME NEW c \in Links, NEW i \in DOMAIN wire'[c], wire'[c][i].kind = "positions"
               PROVE  /\ wire'[c][i].no <= snapshots' /\ \A k \in DOMAIN rows : rows[k].no < wire'[c][i].no
                      /\ \A j \in DOMAIN wire'[c] : i < j /\ wire'[c][j].kind = "positions" => wire'[c][i].no < wire'[c][j].no
    BY <1>1 DEF WireIsLater
  <2>1. CASE c # line
    BY SMTT(20), <1>2, <1>3, <1>6, <2>1 DEF WireIsLater
  <2>2. CASE c = line /\ i \in DOMAIN wire[line]
    <3>1. /\ wire'[c][i] = wire[c][i] /\ wire[c][i].no \in Nat
          /\ wire[c][i].no <= snapshots /\ \A k \in DOMAIN rows : rows[k].no < wire[c][i].no
          /\ \A j \in DOMAIN wire[c] : i < j /\ wire[c][j].kind = "positions" => wire[c][i].no < wire[c][j].no
      BY <1>2, <1>3, <1>6, <2>2 DEF WireIsLater
    <3>2. ASSUME NEW j \in DOMAIN wire'[c], i < j, wire'[c][j].kind = "positions" PROVE wire[c][i].no < wire'[c][j].no
      <4>1. CASE j \in DOMAIN wire[c]
        BY <1>3, <2>2, <3>1, <3>2, <4>1
      <4>2. CASE wire'[line][j].no = snapshots + 1
        BY <1>3, <2>2, <3>1, <4>2
      <4> QED
        BY <1>3, <2>2, <3>2, <4>1, <4>2
    <3>3. wire[c][i].no <= snapshots'
      BY SMTT(20), <1>3, <3>1
    <3> QED
      BY <3>1, <3>2, <3>3
  <2>3. CASE c = line /\ i = Len(wire[line]) + 1 /\ wire'[line][i].no = snapshots + 1 /\ snapshots' = snapshots + 1
    <3>1. \A k \in DOMAIN rows : rows[k].no < wire'[c][i].no
      BY <1>2, <1>3, <1>4, <2>3 DEF RowsRise
    <3>2. ASSUME NEW j \in DOMAIN wire'[c], i < j, wire'[c][j].kind = "positions" PROVE FALSE
      <4>1. j \in DOMAIN wire[line] \/ j = i
        BY <1>3, <2>3, <3>2
      <4> QED
        BY <1>3, <2>3, <3>2, <4>1
    <3> QED
      BY <1>3, <2>3, <3>1, <3>2
  <2> QED
    BY <1>3, <2>1, <2>2, <2>3
<1> QED
  BY <1>7, <1>8, <1>9

\* A frame taken from the wire is saved before those behind it.
LEMMA OrderOfTaking == ASSUME TlTypeOK, StoresInOrder, NEW c \in Links, TakeFrame(c) PROVE StoresInOrder'
<1>1. UNCHANGED <<snapshots, rows, overlapped>>
  BY DEF TakeFrame, reporter
<1> SUFFICES ASSUME ~overlapped PROVE RowsRise' /\ SavingIsLater' /\ WireIsLater'
  BY <1>1 DEF StoresInOrder
<1>2. RowsRise /\ SavingIsLater /\ WireIsLater
  BY DEF StoresInOrder
<1>3. /\ Head(wire[c]) = wire[c][1] /\ 1 \in DOMAIN wire[c] /\ \A d \in Links : d # c => wire'[d] = wire[d]
      /\ \A i \in DOMAIN wire'[c] : i \in Nat /\ i > 0 /\ i + 1 \in DOMAIN wire[c] /\ wire'[c][i] = wire[c][i + 1]
  BY FrameTaken
<1>4. \A d \in Links : \A f \in saving'[d] : f \in saving[d] \/ (d = c /\ f = wire[c][1])
  <2>1. UNCHANGED saving \/ saving' = [saving EXCEPT ![c] = @ \cup {Head(wire[c])}]
    BY DEF TakeFrame
  <2> QED
    BY <1>3, <2>1 DEF TlTypeOK
<1>5. RowsRise'
  BY <1>1, <1>2 DEF RowsRise
<1>6. SavingIsLater'
  <2> SUFFICES ASSUME NEW d \in Links, NEW f \in saving'[d], f.kind = "positions"
               PROVE  /\ f.no <= snapshots /\ \A k \in DOMAIN rows : rows[k].no < f.no
                      /\ \A i \in DOMAIN wire'[d] : wire'[d][i].kind = "positions" => f.no < wire'[d][i].no
    BY <1>1 DEF SavingIsLater
  <2>1. CASE f \in saving[d]
    <3>1. /\ f.no <= snapshots /\ \A k \in DOMAIN rows : rows[k].no < f.no
          /\ \A i \in DOMAIN wire[d] : wire[d][i].kind = "positions" => f.no < wire[d][i].no
      BY <1>2, <2>1 DEF SavingIsLater
    <3> QED
      BY <1>3, <3>1
  <2>2. CASE d = c /\ f = wire[c][1]
    <3>1. /\ f.no <= snapshots /\ \A k \in DOMAIN rows : rows[k].no < f.no
          /\ \A j \in DOMAIN wire[c] : 1 < j /\ wire[c][j].kind = "positions" => f.no < wire[c][j].no
      BY <1>2, <1>3, <2>2 DEF WireIsLater
    <3>2. \A i \in DOMAIN wire'[c] : 1 < i + 1 /\ i + 1 \in DOMAIN wire[c] /\ wire'[c][i] = wire[c][i + 1]
      BY <1>3
    <3> QED
      BY <2>2, <3>1, <3>2
  <2> QED
    BY <1>4, <2>1, <2>2
<1>7. WireIsLater'
  <2> SUFFICES ASSUME NEW d \in Links, NEW i \in DOMAIN wire'[d], wire'[d][i].kind = "positions"
               PROVE  /\ wire'[d][i].no <= snapshots /\ \A k \in DOMAIN rows : rows[k].no < wire'[d][i].no
                      /\ \A j \in DOMAIN wire'[d] : i < j /\ wire'[d][j].kind = "positions" => wire'[d][i].no < wire'[d][j].no
    BY <1>1 DEF WireIsLater
  <2>1. CASE d # c
    BY <1>2, <1>3, <2>1 DEF WireIsLater
  <2>2. CASE d = c
    <3>1. i + 1 \in DOMAIN wire[c] /\ wire'[c][i] = wire[c][i + 1] /\ i \in Nat
      BY <1>3, <2>2
    <3>2. /\ wire[c][i + 1].no <= snapshots /\ \A k \in DOMAIN rows : rows[k].no < wire[c][i + 1].no
          /\ \A j \in DOMAIN wire[c] : i + 1 < j /\ wire[c][j].kind = "positions" => wire[c][i + 1].no < wire[c][j].no
      BY <1>2, <2>2, <3>1 DEF WireIsLater
    <3>3. ASSUME NEW j \in DOMAIN wire'[c], i < j, wire'[c][j].kind = "positions" PROVE wire[c][i + 1].no < wire'[c][j].no
      <4>1. j + 1 \in DOMAIN wire[c] /\ wire'[c][j] = wire[c][j + 1] /\ i + 1 < j + 1
        BY <1>3, <3>1, <3>3
      <4> QED
        BY <3>2, <3>3, <4>1
    <3> QED
      BY <2>2, <3>1, <3>2, <3>3
  <2> QED
    BY <2>1, <2>2
<1> QED
  BY <1>5, <1>6, <1>7

\* A saved snapshot is the latest row, and all that is under way is later.
LEMMA OrderOfSaving ==
    ASSUME TlTypeOK, OneSave, StoresInOrder, NEW c \in Links, NEW f \in saving[c], SaveEnds(c, f)
    PROVE  StoresInOrder'
<1>1. UNCHANGED <<snapshots, wire>> /\ overlapped' = (overlapped \/ \E d \in Links \ {c} : saving[d] # {} \/ wire[d] # <<>>)
  BY DEF SaveEnds, reporter
<1> SUFFICES ASSUME ~overlapped' PROVE RowsRise' /\ SavingIsLater' /\ WireIsLater'
  BY DEF StoresInOrder
<1>2. ~overlapped /\ \A d \in Links : d # c => saving[d] = {} /\ wire[d] = <<>>
  BY <1>1
<1>3. RowsRise /\ SavingIsLater /\ WireIsLater
  BY <1>2 DEF StoresInOrder
<1>4. /\ f \in Frames /\ saving'[c] = saving[c] \ {f} /\ \A d \in Links : d # c => saving'[d] = saving[d]
      /\ DOMAIN rows = 1..Len(rows) /\ Len(rows) \in Nat
      /\ \A i \in DOMAIN rows : i \in DOMAIN rows' /\ rows'[i] = rows[i]
      /\ \A i \in DOMAIN rows' : i \in DOMAIN rows \/ (i = Len(rows) + 1 /\ rows'[i] = f /\ f.kind = "positions")
  BY Saved
<1>5. \A d \in Links : saving'[d] = {}
  BY <1>2, <1>4 DEF OneSave
<1>6. SavingIsLater'
  BY <1>5 DEF SavingIsLater
<1>7. f.kind = "positions" =>
         /\ f.no <= snapshots /\ (\A k \in DOMAIN rows : rows[k].no < f.no)
         /\ \A i \in DOMAIN wire[c] : wire[c][i].kind = "positions" => f.no < wire[c][i].no
  BY <1>3 DEF SavingIsLater
<1>8. RowsRise'
  <2>1. ASSUME NEW i \in DOMAIN rows', NEW j \in DOMAIN rows', i < j PROVE rows'[i].no < rows'[j].no
    <3>1. CASE i \in DOMAIN rows /\ j \in DOMAIN rows
      BY <1>3, <1>4, <2>1, <3>1 DEF RowsRise
    <3>2. CASE i \in DOMAIN rows /\ j = Len(rows) + 1 /\ rows'[j] = f /\ f.kind = "positions"
      BY <1>4, <1>7, <3>2
    <3>3. CASE i = Len(rows) + 1
      BY <1>4, <2>1, <3>3
    <3> QED
      BY <1>4, <3>1, <3>2, <3>3
  <2>2. \A k \in DOMAIN rows' : rows'[k].no <= snapshots'
    BY <1>1, <1>3, <1>4, <1>7 DEF RowsRise
  <2> QED
    BY <2>1, <2>2 DEF RowsRise
<1>9. WireIsLater'
  <2> SUFFICES ASSUME NEW d \in Links, NEW i \in DOMAIN wire[d], wire[d][i].kind = "positions"
               PROVE  /\ wire[d][i].no <= snapshots /\ \A k \in DOMAIN rows' : rows'[k].no < wire[d][i].no
                      /\ \A j \in DOMAIN wire[d] : i < j /\ wire[d][j].kind = "positions" => wire[d][i].no < wire[d][j].no
    BY <1>1 DEF WireIsLater
  <2>1. d = c
    BY <1>2, EmptySeq
  <2>2. /\ wire[d][i].no <= snapshots /\ (\A k \in DOMAIN rows : rows[k].no < wire[d][i].no)
        /\ \A j \in DOMAIN wire[d] : i < j /\ wire[d][j].kind = "positions" => wire[d][i].no < wire[d][j].no
    BY <1>3 DEF WireIsLater
  <2>3. \A k \in DOMAIN rows' : rows'[k].no < wire[d][i].no
    BY <1>4, <1>7, <2>1, <2>2
  <2> QED
    BY <2>2, <2>3
<1> QED
  BY <1>6, <1>8, <1>9

\* The oldest row goes.
LEMMA OrderOfCleanUp == ASSUME TlTypeOK, StoresInOrder, CleanUp PROVE StoresInOrder'
<1>1. UNCHANGED <<snapshots, wire, saving, overlapped>>
  BY DEF CleanUp, reporter
<1> SUFFICES ASSUME ~overlapped PROVE RowsRise' /\ SavingIsLater' /\ WireIsLater'
  BY <1>1 DEF StoresInOrder
<1>2. RowsRise /\ SavingIsLater /\ WireIsLater
  BY DEF StoresInOrder
<1>3. \A i \in DOMAIN rows' : i + 1 \in DOMAIN rows /\ rows'[i] = rows[i + 1] /\ i \in Nat
  <2>1. rows \in Seq(Snapshots) /\ rows # <<>> /\ rows' = Tail(rows)
    BY DEF CleanUp, TlTypeOK
  <2>2. DOMAIN Tail(rows) = 1..Len(Tail(rows)) /\ \A i \in DOMAIN Tail(rows) : i + 1 \in DOMAIN rows /\ Tail(rows)[i] = rows[i + 1]
    BY <2>1, TailOf
  <2> QED
    BY <2>1, <2>2
<1>4. RowsRise'
  BY <1>1, <1>2, <1>3 DEF RowsRise
<1>5. SavingIsLater'
  BY <1>1, <1>2, <1>3 DEF SavingIsLater
<1>6. WireIsLater'
  BY <1>1, <1>2, <1>3 DEF WireIsLater
<1> QED
  BY <1>4, <1>5, <1>6

\* So the order is kept.
LEMMA OrderKept == ASSUME TlTypeOK, OneSave, StoresInOrder, [TlNext]_tlVars PROVE StoresInOrder'
<1>1. ASSUME UNCHANGED <<snapshots, wire, saving, rows, overlapped>> PROVE StoresInOrder'
  BY <1>1, OrderLeft
<1>2. ASSUME UNCHANGED tlVars \/ FrameSent \/ WriteAges PROVE StoresInOrder'
  <2>1. UNCHANGED <<snapshots, wire, saving, rows, overlapped>>
    BY <1>2 DEF tlVars, FrameSent, WriteAges, reporter, store
  <2> QED
    BY <1>1, <2>1
<1>3. ASSUME NEW t \in Tickets, Open(t) \/ Shut(t) PROVE StoresInOrder'
  <2>1. UNCHANGED <<snapshots, wire, saving, rows, overlapped>>
    BY <1>3 DEF Open, Shut, reporter, store
  <2> QED
    BY <1>1, <2>1
<1>4. ASSUME NEW c \in Links, Dial(c) \/ EndSession(c) PROVE StoresInOrder'
  <2>1. UNCHANGED <<snapshots, wire, saving, rows, overlapped>>
    BY <1>4 DEF Dial, EndSession, reporter, store
  <2> QED
    BY <1>1, <2>1
<1>5. ASSUME NEW c \in Links, Drop(c) PROVE StoresInOrder'
  <2>1. UNCHANGED <<snapshots, saving, rows, overlapped>>
    BY <1>5 DEF Drop, store
  <2>2. PICK n \in 0..Len(wire[c]) : wire' = [wire EXCEPT ![c] = SubSeq(@, 1, n)]
    BY <1>5 DEF Drop
  <2> DEFINE s == wire[c]
             t == SubSeq(s, 1, n)
  <2>3. \A i \in DOMAIN t : i \in DOMAIN s /\ t[i] = s[i]
    <3>1. s \in Seq(Frames) /\ n \in 0..Len(s)
      BY <2>2 DEF TlTypeOK
    <3> HIDE DEF s
    <3> QED
      BY <3>1, Beginning
  <2>4. wire' = [wire EXCEPT ![c] = t]
    BY <2>2
  <2> HIDE DEF t
  <2>5. \A d \in Links : \A i \in DOMAIN wire'[d] : i \in DOMAIN wire[d] /\ wire'[d][i] = wire[d][i]
    BY <2>3, <2>4 DEF TlTypeOK
  <2> QED
    BY <2>1, <2>5, OrderLeft
<1> QED
  BY <1>2, <1>3, <1>4, <1>5, OrderOfTimer, OrderOfTaking, OrderOfSaving, OrderOfCleanUp DEF TlNext

\* One step of the terminal's or the server's.
LEMMA TlStep == TlInv /\ [TlNext]_tlVars => TlInv'
  BY TlTypesKept, OneSaveKept, OrderKept DEF TlInv

\* The telemetry's inductive invariant, which the result below rests on.
THEOREM TlInvariance == TlSpec => []TlInv
  BY TlInitHolds, TlStep, PTL DEF TlSpec

\* The latest row is the latest snapshot (the EA's OnTimer, the receive loop and
\* save_ws_open_positions), however many connections, positions and writes a minute
\* there are, while no two connections have telemetry under way at once.
THEOREM LatestIsLast == TlSpec => []SnapshotsInOrder
<1>1. TlInv => SnapshotsInOrder
  BY DEF TlInv, StoresInOrder, RowsRise, SnapshotsInOrder
<1> QED
  BY <1>1, TlInvariance, PTL

HIDE TelemetryAssumption

-----------------------------------------------------------------------------
(*****************************************************************************)
(* The parts side by side                                                    *)
(*****************************************************************************)

\* Every variable, of which each part has its own.
termVars == <<part, vars, wcVars, upVars, tlVars>>

\* A step of the whole is one of a part or leaves it as it was.
LEMMA TerminalStep ==
    ASSUME [MCNext]_termVars
    PROVE  /\ [WcNext]_wcVars
           /\ [UpNext]_upVars
           /\ [TlNext]_tlVars
<1>1. [WcNext]_wcVars
  BY DEF MCNext, termVars
<1>2. [UpNext]_upVars
  BY DEF MCNext, termVars
<1>3. [TlNext]_tlVars
  BY DEF MCNext, termVars
<1> QED
  BY <1>1, <1>2, <1>3

\* Each part keeps its types whatever the others do: MCSpec behaves, for each of
\* them, as its own specification.
THEOREM TerminalTyped == MCSpec => []TerminalTypes
<1>1. MCInit => WcInit /\ UpInit /\ TlInit
  BY DEF MCInit
<1>2. MCInit /\ [][MCNext]_termVars => WcInit /\ [][WcNext]_wcVars /\ UpSpec /\ TlSpec
  BY <1>1, TerminalStep, PTL DEF UpSpec, TlSpec
<1>3. WcInv /\ UpInv /\ TlInv => TerminalTypes
  BY DEF WcInv, UpInv, TlInv, TerminalTypes
<1>4. MCSpec => MCInit /\ [][MCNext]_termVars
  BY PTL DEF MCSpec, termVars
<1> QED
  BY <1>2, <1>3, <1>4, WcAlways, UpInvariance, TlInvariance, PTL
=============================================================================
