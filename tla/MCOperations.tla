---------------------------- MODULE MCOperations ----------------------------
(***************************************************************************)
(* The server side by side: the webhook with an alert for each path and    *)
(* requests enough for a retry, a double POST and a queue of two for one   *)
(* loop (WebhookIngest), the limits a request meets (RateLimits,           *)
(* HttpChain, FailedAttempts), the parser (PineParser), the commands the   *)
(* server trades itself (Trading), the trader's dashboard (Dashboard),     *)
(* trade reports (TradeReports) and a worker's life (ServerLifecycle).     *)
(* `part` says which of them moves; the others stay as they began, and     *)
(* the webhook's fairness is stated for its part.                          *)
(***************************************************************************)
EXTENDS RateLimits, HttpChain, FailedAttempts, PineParser, Trading, ServerLifecycle,
        WebhookIngest, Dashboard, TradeReports

CONSTANTS w1, w2, toQueue, toExecute, r1, r2

VARIABLE part

\* Webhooks as Cloudflare passes them on, one that was not, one of another
\* sender, one without a length, and a health check.
Webhook == [kind |-> "webhook", via |-> "cloudflare", tradingview |-> TRUE, length |-> "ok", json |-> TRUE]
MCRequests ==
    {Webhook, [Webhook EXCEPT !.length = "missing"], [Webhook EXCEPT !.tradingview = FALSE],
     [Webhook EXCEPT !.kind = "health"], [Webhook EXCEPT !.via = "direct"]}

\* Each group's explicit and legacy parameters, in and out of order, one that is
\* no number, nans, a negative one, and one of a pair.
Param(key, value) == [key |-> key, value |-> value]
MCParams ==
    {Param("lots", 1), Param("lots", Word), Param("usd", 2), Param("risk", NaN),
     Param("sl", 5), Param("sl_points", 4), Param("sl", NaN), Param("tp", 4), Param("tp_price", 7),
     Param("entry_price", 6), Param("entry_price", -6), Param("be_trigger", 2)}

\* One process trades any command; the other cuts the buys of every strategy
\* beside it, while the first is at a command about buys or idle.
CutBeside ==
    job[w2].busy => /\ job[w2].cmd = [kind |-> "pct", side |-> "buy", tag |-> NoTag]
                    /\ job[w1].cmd.side = "buy"

MCInit ==
    /\ part \in {"limiter", "chain", "attempts", "parser", "trading", "lifecycle", "ingest",
                 "dashboard", "reports"}
    /\ Init /\ RlInit /\ HcInit /\ FaInit /\ PpInit /\ TrInit /\ SlInit /\ DbInit /\ RpInit
    /\ part = "attempts" \/ at = [a \in Attempts |-> w1]
    /\ part = "parser" \/ command = "buy"
    /\ part = "ingest" \/ (running = {w1} /\ backend = "postgres")
    /\ part = "reports" \/ rpDb = "postgres"

MCNext ==
    /\ part' = part
    /\ \/ part = "limiter" /\ RlNext
       \/ part = "chain" /\ HcNext
       \/ part = "attempts" /\ FaNext
       \/ part = "parser" /\ PpNext
       \/ part = "trading" /\ TrNext /\ CutBeside'
       \/ part = "lifecycle" /\ SlNext
       \/ part = "ingest" /\ Next
       \/ part = "dashboard" /\ DbNext
       \/ part = "reports" /\ RpNext
    /\ IF part = "limiter" THEN TRUE ELSE UNCHANGED rlVars
    /\ IF part = "chain" THEN TRUE ELSE UNCHANGED hcVars
    /\ IF part = "attempts" THEN TRUE ELSE UNCHANGED faVars
    /\ IF part = "parser" THEN TRUE ELSE UNCHANGED ppVars
    /\ IF part = "trading" THEN TRUE ELSE UNCHANGED trVars
    /\ IF part = "lifecycle" THEN TRUE ELSE UNCHANGED slVars
    /\ IF part = "ingest" THEN TRUE ELSE UNCHANGED vars
    /\ IF part = "dashboard" THEN TRUE ELSE UNCHANGED dbVars
    /\ IF part = "reports" THEN TRUE ELSE UNCHANGED rpVars

MCSpec ==
    /\ MCInit
    /\ [][MCNext]_<<part, rlVars, hcVars, faVars, ppVars, trVars, slVars, vars, dbVars, rpVars>>
    /\ \A r \in Requests : WF_vars(part = "ingest" /\ Handle(r))

OperationsTypes ==
    /\ RlTypeOK /\ HcTypeOK /\ FaTypeOK /\ PpTypeOK /\ TrTypeOK /\ SlTypeOK
    /\ DbTypeOK /\ RpTypeOK
=============================================================================
