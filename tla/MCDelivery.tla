----------------------------- MODULE MCDelivery -----------------------------
(***************************************************************************)
(* What becomes of a stored signal, side by side: the table on PostgreSQL  *)
(* with EAs that poll in time (SignalQueue), the WebSocket push            *)
(* (WsFanout), the long-poll (LongPoll), and the licenses that own the     *)
(* signals (Licenses).  `part` says which of them moves; the others stay   *)
(* as they began, where no action under fairness is enabled but the        *)
(* table's, whose fairness is therefore stated for its own part.           *)
(***************************************************************************)
EXTENDS SignalQueue, WsFanout, LongPoll, Licenses

CONSTANTS s1, s2, lic1, e1, e2, c1, w1, a1, a2, m1, p1, p2

VARIABLE part

MCOneLicense == [e \in EAs |-> lic1]
MCHomeOf == [c \in Conns |-> w1]

MCInit ==
    part \in {"table", "push", "longpoll", "licenses"} /\ Init /\ FanInit /\ LpInit /\ LicInit

MCNext ==
    /\ part' = part
    /\ \/ part = "table" /\ Next /\ TimelyPolls /\ UNCHANGED <<fanVars, lpVars, licVars>>
       \/ part = "push" /\ FanNext /\ UNCHANGED <<vars, lpVars, licVars>>
       \/ part = "longpoll" /\ LpNext /\ UNCHANGED <<vars, fanVars, licVars>>
       \/ part = "licenses" /\ LicNext /\ UNCHANGED <<vars, fanVars, lpVars>>

MCSpec ==
    /\ MCInit /\ [][MCNext]_<<part, vars, fanVars, lpVars, licVars>>
    /\ \A e \in EAs : /\ WF_vars(part = "table" /\ Poll(e))
                      /\ WF_vars(part = "table" /\ RestartEA(e))
    /\ \A s \in Signals : WF_vars(part = "table" /\ CommitSave(s))
    /\ WF_vars(part = "table" /\ Tick /\ NothingToPoll)
    /\ FanFairness

DeliveryTypes == FanTypeOK /\ LpTypeOK /\ LicTypeOK
=============================================================================
