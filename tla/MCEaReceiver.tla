---------------------------- MODULE MCEaReceiver ----------------------------
(***************************************************************************)
(* EaReceiver on small instances.  Limits are small enough for a full      *)
(* queue, used-up retries and an expired item to occur.                    *)
(***************************************************************************)
EXTENDS EaReceiver, TLC

CONSTANTS s1, s2, e1, e2

Symmetry == Permutations(Signals) \cup Permutations(EAs)
=============================================================================
