----------------------------- MODULE MCTerminal -----------------------------
(***************************************************************************)
(* What runs in the trader's terminal, side by side: two EAs of a license  *)
(* (EaReceiver), the DLL's connection (WsClient), the telemetry sent over  *)
(* it (Telemetry) and the EA's update of itself (EaUpdate).  `part` says   *)
(* which of them moves; the others stay as they began, where no action     *)
(* under fairness is enabled but EaReceiver's clock, whose fairness is     *)
(* therefore stated for its own part.                                      *)
(***************************************************************************)
EXTENDS EaReceiver, WsClient, EaUpdate, Telemetry

CONSTANTS s1, e1, e2

VARIABLE part

\* Five parts: a low-priority message in two fragments, another one, and two
\* signals; a ring of two is filled and overflows.
Part(msg, last, low) == [msg |-> msg, last |-> last, low |-> low]
MCStream == <<Part(1, FALSE, TRUE), Part(1, TRUE, TRUE), Part(2, TRUE, TRUE),
              Part(3, TRUE, FALSE), Part(4, TRUE, FALSE)>>

MCInit ==
    /\ part \in {"receiver", "client", "update", "telemetry"}
    /\ Init /\ WcInit /\ UpInit /\ TlInit
    /\ part = "receiver" \/ market = "closed"

MCNext ==
    /\ part' = part
    /\ \/ part = "receiver" /\ Next /\ UNCHANGED <<wcVars, upVars, tlVars>>
       \/ part = "client" /\ WcNext /\ UNCHANGED <<vars, upVars, tlVars>>
       \/ part = "update" /\ UpNext /\ UNCHANGED <<vars, wcVars, tlVars>>
       \/ part = "telemetry" /\ TlNext /\ UNCHANGED <<vars, wcVars, upVars>>

MCSpec ==
    /\ MCInit /\ [][MCNext]_<<part, vars, wcVars, upVars, tlVars>>
    /\ \A e \in EAs : WF_vars(part = "receiver" /\ Work(e))
    /\ WF_vars(part = "receiver" /\ Tick)
    /\ WcFairness

TerminalTypes == WcTypeOK /\ UpTypeOK /\ TlTypeOK
=============================================================================
