-------------------------- MODULE MCWebhookIngest --------------------------
(***************************************************************************)
(* WebhookIngest on small instances: an alert for each path, and requests  *)
(* enough for a retry, a double POST and a queue of two for one loop.      *)
(***************************************************************************)
EXTENDS WebhookIngest

CONSTANTS toQueue, toExecute, r1, r2, w1, w2
=============================================================================
