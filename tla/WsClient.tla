------------------------------ MODULE WsClient ------------------------------
(***************************************************************************)
(* One connection of the EA's DLL (asyncwebsocketclient.cpp and the        *)
(* PTWS_* exports of ptwebsocket.cpp): the MQL thread calls the exports,   *)
(* WinHTTP's threads call back, and they share the connection's state, one *)
(* receive buffer, a fragment accumulator and a ring of frames.  Only the  *)
(* ring is behind a mutex; the flags are atomics, each on its own.         *)
(***************************************************************************)
EXTENDS FiniteSets, Integers, SequencesExt

CONSTANTS Stream,   \* the frames the server sends, as parts [msg, last, low],
                    \* their messages numbered from 1
          Depth,    \* PTWS_MAX_QUEUE_DEPTH
          MaxSends  \* bound on PTWS_Send calls

ASSUME WsClientAssumption ==
    /\ Stream \in Seq([msg : Nat, last : BOOLEAN, low : BOOLEAN])
    /\ \A i \in DOMAIN Stream :
          IF i = 1 THEN Stream[i].msg = 1
          ELSE Stream[i].msg = Stream[i - 1].msg + (IF Stream[i - 1].last THEN 1 ELSE 0)
    /\ Depth \in Nat \ {0} /\ MaxSends \in Nat

VARIABLES
    state,     \* m_state
    socket,    \* the handle in use: the request's, then the WebSocket's
    valid,     \* m_isValid
    mapped,    \* the client in g_handleMap: not yet, in it, erased
    reading,   \* m_readPending
    receiving, \* WinHTTP has a receive outstanding
    sending,   \* m_sendPending
    writing,   \* WinHTTP has a send outstanding
    arrived,   \* parts received so far
    buffer,    \* m_receiveBuffer
    acc,       \* m_fragAccumulator
    slots, rd, wr, cnt,  \* m_ring and its indexes
    cb,        \* cb[c]: what callback thread c is in the middle of
    mql,       \* what the MQL thread is in the middle of
    sends,     \* PTWS_Send calls so far
    alive,     \* the server is there
    taken,     \* the last frame the EA read (wcHistory)
    overtaken  \* a receive was started while a callback still used the buffer (wcHistory)

ring == <<slots, rd, wr, cnt>>
link == <<socket, valid, mapped, alive>>
input == <<arrived, buffer, acc>>
wcHistory == <<taken, overtaken>>
wcVars == <<state, link, reading, receiving, sending, writing, input, ring, cb, mql, sends, wcHistory>>

Callbacks == {1, 2}
Slot == 0..(Depth - 1)
Parts == ToSet(Stream)
NoPart == [msg |-> 0, last |-> TRUE, low |-> TRUE]
Half == Depth \div 2

WcTypeOK ==
    /\ state \in {"closed", "closing", "connecting", "connected", "sending"}
    /\ socket \in {"none", "request", "response", "open", "gone"}
    /\ valid \in BOOLEAN /\ mapped \in {"no", "yes", "erased"} /\ alive \in BOOLEAN
    /\ reading \in BOOLEAN /\ receiving \in BOOLEAN /\ sending \in BOOLEAN /\ writing \in BOOLEAN
    /\ arrived \in 0..Len(Stream) /\ buffer \in Parts \cup {NoPart} /\ acc \in Seq(Parts)
    /\ slots \in [Slot -> Seq(Parts)] /\ rd \in Slot /\ wr \in Slot /\ cnt \in 0..Depth
    /\ cb \in [Callbacks -> {"idle", "read", "close", "chain", "sent"}]
    /\ mql \in {"idle", "poll", "send", "call", "free", "reset"} /\ sends \in 0..MaxSends
    /\ taken \in Nat /\ overtaken \in BOOLEAN

WcInit ==
    /\ state = "closed" /\ socket = "none" /\ valid = TRUE /\ mapped = "no" /\ alive = TRUE
    /\ reading = FALSE /\ receiving = FALSE /\ sending = FALSE /\ writing = FALSE
    /\ arrived = 0 /\ buffer = NoPart /\ acc = <<>>
    /\ slots = [i \in Slot |-> <<>>] /\ rd = 0 /\ wr = 0 /\ cnt = 0
    /\ cb = [c \in Callbacks |-> "idle"] /\ mql = "idle" /\ sends = 0
    /\ taken = 0 /\ overtaken = FALSE

-----------------------------------------------------------------------------
\* StartAsyncReceive: nothing where a read is pending; a receive that cannot be
\* started takes the flag back and leaves m_state alone.
StartRead ==
    IF socket = "open" /\ state \notin {"closed", "closing"} /\ ~reading /\ alive /\ ~receiving
    THEN /\ reading' = TRUE /\ receiving' = TRUE
         /\ overtaken' = (overtaken \/ \E c \in Callbacks : cb[c] = "read")
    ELSE UNCHANGED <<reading, receiving, overtaken>>

\* PTWS_ConnectAuth and Connect; without success there is no handle.
Connect ==
    /\ mapped = "no" /\ mql = "idle"
    /\ mapped' = "yes" /\ state' = "connecting" /\ socket' = "request"
    /\ UNCHANGED <<valid, alive, reading, receiving, sending, writing, input, ring, cb, mql, sends, wcHistory>>

OnSendRequestComplete ==
    /\ valid /\ socket = "request" /\ state = "connecting"
    /\ \/ socket' = "response" /\ state' = state
       \/ socket' = socket /\ state' = "closed"
    /\ UNCHANGED <<valid, mapped, alive, reading, receiving, sending, writing, input, ring, cb, mql, sends, wcHistory>>

\* The upgrade, and the first receive.
OnHeadersAvailable ==
    /\ valid /\ socket = "response" /\ state = "connecting"
    /\ \/ /\ socket' = "open" /\ state' = "connected"
          /\ reading' = alive /\ receiving' = alive
       \/ socket' = socket /\ state' = "closed" /\ UNCHANGED <<reading, receiving>>
    /\ UNCHANGED <<valid, mapped, alive, sending, writing, input, ring, cb, mql, sends, wcHistory>>

-----------------------------------------------------------------------------
\* A part arrives.  The flag is cleared before the buffer has been used.
ReadComplete(c) ==
    /\ receiving /\ alive /\ arrived < Len(Stream) /\ cb[c] = "idle"
    /\ receiving' = FALSE /\ arrived' = arrived + 1 /\ buffer' = Stream[arrived + 1]
    /\ reading' = (reading /\ ~valid)
    /\ cb' = [cb EXCEPT ![c] = IF valid THEN "read" ELSE "idle"]
    /\ UNCHANGED <<state, link, sending, writing, acc, ring, mql, sends, wcHistory>>

\* The server's close frame is a read of nothing, and no fragment.
ReadClose(c) ==
    /\ receiving /\ alive /\ cb[c] = "idle" /\ alive' = FALSE
    /\ receiving' = FALSE /\ reading' = (reading /\ ~valid)
    /\ cb' = [cb EXCEPT ![c] = IF valid THEN "close" ELSE "idle"]
    /\ UNCHANGED <<state, socket, valid, mapped, sending, writing, input, ring, mql, sends, wcHistory>>

\* Mutant: the index does not wrap around.
AfterUnwrapped(i) == i + 1

After(i) == (i + 1) % Depth

\* Mutant: one low-priority frame more is let in.
DiscardedLate(frame) == Head(frame).low /\ cnt > Half

\* DetectPriority, and what is discarded above half of the capacity.
Discarded(frame) == Head(frame).low /\ cnt >= Half

\* A full ring gives up its oldest frame.
Store(frame) ==
    IF Discarded(frame) THEN UNCHANGED ring
    ELSE /\ slots' = [slots EXCEPT ![wr] = frame] /\ wr' = After(wr)
         /\ rd' = (IF cnt = Depth THEN After(rd) ELSE rd)
         /\ cnt' = (IF cnt = Depth THEN cnt ELSE cnt + 1)

\* Mutant: the accumulator is not cleared after a message of several parts.
LeftOverKept == acc

LeftOver == <<>>

\* OnReadComplete, up to the next receive: a part is kept for later, a message
\* goes into the ring.
Queue(c) ==
    /\ cb[c] = "read" /\ cb' = [cb EXCEPT ![c] = "chain"]
    /\ IF ~buffer.last THEN acc' = Append(acc, buffer) /\ UNCHANGED ring
       ELSE acc' = LeftOver /\ Store(Append(acc, buffer))
    /\ UNCHANGED <<state, link, reading, receiving, sending, writing, arrived, buffer, mql, sends, wcHistory>>

\* So is what the close finds in the accumulator, the start of a message whose
\* rest does not come; the type may be missing in it, and it counts as low then.
QueueRest(c) ==
    /\ cb[c] = "close" /\ cb' = [cb EXCEPT ![c] = "chain"] /\ acc' = LeftOver
    /\ \/ acc # <<>> /\ Store(acc)
       \/ (acc = <<>> \/ cnt >= Half) /\ UNCHANGED ring
    /\ UNCHANGED <<state, link, reading, receiving, sending, writing, arrived, buffer, mql, sends, wcHistory>>

\* The chain goes on only in state CONNECTED, so not during a send.
Chain(c) ==
    /\ cb[c] = "chain" /\ cb' = [cb EXCEPT ![c] = "idle"]
    /\ IF state = "connected" THEN StartRead ELSE UNCHANGED <<reading, receiving, overtaken>>
    /\ UNCHANGED <<state, link, sending, writing, input, ring, mql, sends, taken>>

\* OnSendComplete: m_state is read, and then stored.
WriteComplete(c) ==
    /\ writing /\ alive /\ cb[c] = "idle" /\ writing' = FALSE /\ sending' = (sending /\ ~valid)
    /\ cb' = [cb EXCEPT ![c] = IF valid /\ state = "sending" THEN "sent" ELSE "idle"]
    /\ UNCHANGED <<state, link, reading, receiving, input, ring, mql, sends, wcHistory>>

SendCompletes(c) ==
    /\ cb[c] = "sent" /\ cb' = [cb EXCEPT ![c] = "idle"] /\ state' = "connected"
    /\ UNCHANGED <<link, reading, receiving, sending, writing, input, ring, mql, sends, wcHistory>>

\* The connection breaks: the outstanding operation, if there is one, is called
\* back as an error or a close (OnError, OnClose, OnSecureChannelError).
Breaks ==
    /\ alive /\ mapped = "yes" /\ alive' = FALSE
    /\ UNCHANGED <<state, socket, valid, mapped, reading, receiving, sending, writing, input, ring, cb, mql, sends, wcHistory>>

OnError ==
    /\ ~alive /\ valid /\ (receiving \/ writing \/ state = "connecting")
    /\ state' = "closed"
    /\ reading' = FALSE /\ sending' = FALSE /\ receiving' = FALSE /\ writing' = FALSE
    /\ UNCHANGED <<link, input, ring, cb, mql, sends, wcHistory>>

-----------------------------------------------------------------------------
\* PTWS_Poll: "a safety net in case the chain broke".
\* Mutant: Poll only keeps its time stamp.
ChainBrokenNever == FALSE

ChainBroken == ~reading /\ state = "connected"

Poll ==
    /\ mapped = "yes" /\ mql = "idle" /\ ChainBroken /\ mql' = "poll"
    /\ UNCHANGED <<state, link, reading, receiving, sending, writing, input, ring, cb, sends, wcHistory>>

PollReads ==
    /\ mql = "poll" /\ mql' = "idle" /\ StartRead
    /\ UNCHANGED <<state, link, sending, writing, input, ring, cb, sends, taken>>

\* PTWS_Send: the state is looked at, the flag taken, the state stored, and
\* WinHTTP called; a send that cannot be started stores CONNECTED again.
Send ==
    /\ mapped = "yes" /\ mql = "idle" /\ sends < MaxSends /\ sends' = sends + 1
    /\ socket = "open" /\ state = "connected" /\ ~sending /\ sending' = TRUE /\ mql' = "send"
    /\ UNCHANGED <<state, link, reading, receiving, writing, input, ring, cb, wcHistory>>

SendStores ==
    /\ mql = "send" /\ mql' = "call" /\ state' = "sending"
    /\ UNCHANGED <<link, reading, receiving, sending, writing, input, ring, cb, sends, wcHistory>>

SendCalls ==
    /\ mql = "call" /\ mql' = "idle"
    /\ IF alive THEN writing' = TRUE /\ UNCHANGED <<state, sending>>
       ELSE state' = "connected" /\ sending' = FALSE /\ UNCHANGED writing
    /\ UNCHANGED <<link, reading, receiving, input, ring, cb, sends, wcHistory>>

\* PTWS_Read.
Read ==
    /\ mapped = "yes" /\ mql = "idle" /\ cnt > 0
    /\ taken' = Head(slots[rd]).msg /\ rd' = After(rd) /\ cnt' = cnt - 1
    /\ UNCHANGED <<state, link, reading, receiving, sending, writing, input, slots, wr, cb, mql, sends,
                   overtaken>>

\* PTWS_Disconnect: Close and Free (PTWS_Reset: Free alone), then the handle is
\* forgotten.  A callback that has looked at m_isValid before goes on.
Disconnect ==
    /\ mapped = "yes" /\ mql = "idle" /\ mql' = "free"
    /\ \/ state' = IF socket = "open" /\ state # "closed" THEN "closing" ELSE state
       \/ state' = state
    /\ valid' = FALSE
    /\ UNCHANGED <<socket, mapped, alive, reading, receiving, sending, writing, input, ring, cb, sends, wcHistory>>

CleanupHandles ==
    /\ mql = "free" /\ mql' = "reset" /\ socket' = "gone" /\ receiving' = FALSE /\ writing' = FALSE
    /\ UNCHANGED <<state, valid, mapped, alive, reading, sending, input, ring, cb, sends, wcHistory>>

ResetState ==
    /\ mql = "reset" /\ mql' = "idle" /\ mapped' = "erased" /\ state' = "closed"
    /\ acc' = <<>> /\ reading' = FALSE /\ sending' = FALSE
    /\ slots' = [i \in Slot |-> <<>>] /\ rd' = 0 /\ wr' = 0 /\ cnt' = 0
    /\ UNCHANGED <<socket, valid, alive, receiving, writing, arrived, buffer, cb, sends, wcHistory>>

-----------------------------------------------------------------------------
Upgrade == OnSendRequestComplete \/ OnHeadersAvailable
Callback(c) == \/ ReadComplete(c) \/ ReadClose(c) \/ Queue(c) \/ QueueRest(c) \/ Chain(c)
               \/ WriteComplete(c) \/ SendCompletes(c)
Exports == Poll \/ PollReads \/ SendStores \/ SendCalls \/ CleanupHandles \/ ResetState

WcNext ==
    \/ Connect \/ Upgrade \/ Breaks \/ OnError \/ Exports \/ Send \/ Read \/ Disconnect
    \/ \E c \in Callbacks : Callback(c)

\* The EA's timer calls PTWS_Poll, an export that was called returns, and
\* WinHTTP calls back what has completed.
WcFairness == WF_wcVars(Exports) /\ WF_wcVars(\E c \in Callbacks : Callback(c))

WcSpec == WcInit /\ [][WcNext]_wcVars /\ WcFairness

-----------------------------------------------------------------------------
\* The frames in the ring, oldest first.
Contents == [i \in 1..cnt |-> slots[(rd + i - 1) % Depth]]

\* The parts of a message of the server's from its first to some part.
Begun(frame) ==
    \E a, b \in DOMAIN Stream :
        /\ a <= b /\ frame = SubSeq(Stream, a, b) /\ (a = 1 \/ Stream[a - 1].last)
        /\ \A k \in a..(b - 1) : ~Stream[k].last

Whole(frame) == Begun(frame) /\ frame[Len(frame)].last

\* What is in the ring are whole messages as the server sent them, in its order
\* and after all that was read, until the connection is freed and unless a
\* receive was started (Poll can) into a buffer a callback was still using.  One
\* frame may be the start of a message only: the newest, when the connection has
\* ended, for a close frame queues what was accumulated before it.
RingInOrder ==
    valid /\ ~overtaken =>
        /\ wr = (rd + cnt) % Depth
        /\ \A i \in 1..cnt :
              /\ Begun(Contents[i]) /\ (Whole(Contents[i]) \/ (i = cnt /\ ~alive))
              /\ Head(Contents[i]).msg > IF i = 1 THEN taken ELSE Head(Contents[i - 1]).msg

\* However much telemetry comes in, half of the ring is left to signals and
\* acknowledgments.
RoomForSignals == Cardinality({i \in 1..cnt : Head(Contents[i]).low}) <= Half

\* As long as the server is there and the EA polls, every frame is received: the
\* chain of receives, which a send interrupts, is taken up again.
FramesKeepComing ==
    socket = "open" ~> arrived = Len(Stream) \/ ~alive \/ ~valid
=============================================================================
