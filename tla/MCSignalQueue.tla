--------------------------- MODULE MCSignalQueue ---------------------------
(***************************************************************************)
(* SignalQueue on small instances.  The thresholds never invert the order  *)
(* of the code's (5 min = 5 min < 60 min < 24 h < 7 days); the safety runs *)
(* let neighbours coincide to keep the number of ages small.               *)
(***************************************************************************)
EXTENDS SignalQueue, TLC

CONSTANTS s1, s2, lic1, e1, e2, c1

MCOneLicense == [e \in EAs |-> lic1]

Symmetry == Permutations(Signals) \cup Permutations(EAs)
=============================================================================
