-------------------------- MODULE SignalLifecycle --------------------------
(***************************************************************************)
(* What the persistent signal queue promises, with no table, no clock and  *)
(* no backend: a trading signal is accepted once, copies of it travel to   *)
(* Expert Advisors (EAs), it is settled at most once and never reopened.   *)
(*                                                                         *)
(* Two ways to travel are told apart.  A poll hands out only signals that  *)
(* are still open.  A WebSocket push carries no claim: it may reach an EA  *)
(* before, after or beside any poll, so copies of a settled signal exist   *)
(* and the EA must recognise them.                                         *)
(***************************************************************************)
CONSTANTS Signals,    \* every signal id the server may issue
          Receivers   \* the EA instances

VARIABLES phase,      \* phase[s]: how far signal s has come
          copies      \* copies[e]: the signals EA e holds in memory

vars == <<phase, copies>>

In(p) == {s \in Signals : phase[s] = p}

Init ==
    /\ phase = [s \in Signals |-> "unsent"]
    /\ copies = [e \in Receivers |-> {}]

\* The webhook's signal is stored; an executed one is stored as settled.
Accept(s) ==
    /\ phase[s] = "unsent"
    /\ \E p \in {"open", "settled"} : phase' = [phase EXCEPT ![s] = p]
    /\ UNCHANGED copies

\* A poll answers with open signals only.
Hand(e, S) ==
    /\ S \subseteq In("open")
    /\ copies' = [copies EXCEPT ![e] = @ \cup S]
    /\ UNCHANGED phase

\* A push carries a stored signal to some EAs, whatever became of it since.
Push(s, R) ==
    /\ phase[s] # "unsent"
    /\ copies' = [e \in Receivers |->
                     IF e \in R THEN copies[e] \cup {s} ELSE copies[e]]
    /\ UNCHANGED phase

\* An EA acknowledges signals it holds; only open ones change.
Settle(e, S) ==
    /\ S \subseteq copies[e]
    /\ phase' = [s \in Signals |->
                    IF s \in S /\ phase[s] = "open" THEN "settled" ELSE phase[s]]
    /\ copies' = [copies EXCEPT ![e] = @ \ S]

\* An EA forgets copies: it crashed, or its acknowledgement never arrived.
Forget(e, S) ==
    /\ S \subseteq copies[e]
    /\ copies' = [copies EXCEPT ![e] = @ \ S]
    /\ UNCHANGED phase

\* Retention or the removal of a license deletes stored signals.
Drop(S) ==
    /\ S \subseteq In("open") \cup In("settled")
    /\ phase' = [s \in Signals |-> IF s \in S THEN "dropped" ELSE phase[s]]
    /\ UNCHANGED copies

\* Copies move and no signal changes; or signals change and no copy moves.
Travel ==
    \/ \E e \in Receivers :
          \/ \E S \in SUBSET In("open") : Hand(e, S)
          \/ \E S \in SUBSET copies[e] : Forget(e, S)
    \/ \E s \in Signals, R \in SUBSET Receivers : Push(s, R)

Change ==
    \/ \E s \in Signals : Accept(s)
    \/ \E S \in SUBSET (In("open") \cup In("settled")) : Drop(S)

Next ==
    \/ UNCHANGED phase /\ Travel
    \/ UNCHANGED copies /\ Change
    \/ \E e \in Receivers : \E S \in SUBSET copies[e] : Settle(e, S)

Spec == Init /\ [][Next]_vars
=============================================================================
