------------------------------ MODULE HttpChain ------------------------------
(***************************************************************************)
(* The middleware a request of one client passes on a worker (middleware/):*)
(* Cloudflare's and TradingView's addresses, the endpoint bucket, the form *)
(* of the request.  Security headers and the response recorder only copy   *)
(* the answer.                                                             *)
(*                                                                         *)
(* Two parts of the chain are wired to nothing.  The Redis limiter:        *)
(* set_redis_rate_limiter looks for the middleware in rate_limit.py,       *)
(* setup_middleware leaves it in main.py.  The block of clients that fail: *)
(* the chain asks the tracker of security.py, the routes feed main.py's.   *)
(***************************************************************************)
EXTENDS Integers

CONSTANTS HttpRequests,  \* requests, as the chain tells them apart
          HttpLimit,     \* requests per minute of a bucket
          HttpWindow     \* _HTTP_RATE_LIMIT_WINDOW_SECS

ASSUME HttpChainAssumption == {HttpLimit, HttpWindow} \subseteq Nat \ {0}

VARIABLES bucket,    \* bucket[b][a]: requests in an endpoint bucket that are at most a old
          served,    \* served[b][a]: requests that were let by, likewise (history)
          lostBucket \* buckets the cap evicted (history)

hcVars == <<bucket, served, lostBucket>>

Buckets == {"signals", "webhook", "general"}
HttpAges == 0..HttpWindow + 1

HcTypeOK ==
    /\ bucket \in [Buckets -> [HttpAges -> 0..HttpLimit]] /\ served \in [Buckets -> [HttpAges -> Nat]]
    /\ lostBucket \subseteq Buckets

NoStamps == [a \in HttpAges |-> 0]

HcInit == bucket = [b \in Buckets |-> NoStamps] /\ served = bucket /\ lostBucket = {}

-----------------------------------------------------------------------------
\* CloudflareIPMiddleware, in production: the header, or a known or private peer.
FromCloudflare(r) == r.via # "direct"

\* TradingViewIPMiddleware, in production.
IsWebhook(r) == r.kind = "webhook"

FromTradingView(r) == IsWebhook(r) => r.tradingview

\* _validate_request: no length that is too large or missing, and for webhooks
\* but the simple one a JSON content type.
HeadersInOrder(r) == r.length \notin {"large", "missing"} /\ (IsWebhook(r) => r.json)

BucketOf(r) == IF r.kind \in {"signals", "webhook"} THEN r.kind ELSE "general"

Younger(s, age) == [a \in HttpAges |-> IF age = 0 THEN 0 ELSE s[IF a < age THEN a ELSE age - 1]]

\* Mutant: a request leaves its bucket before the minute is up.
LiveEarly(b) == Younger(bucket[b], HttpWindow - 1)

\* Stamps that are a minute old are popped.
LiveStamps(b) == Younger(bucket[b], HttpWindow)

\* A stamp of now is appended.
Stamped(s) == [a \in HttpAges |-> s[a] + 1]

\* __call__: a health check passes; any other request is counted in its bucket
\* before anything checks its form, so what is refused for it has been counted.
Arrive(r) ==
    LET b == BucketOf(r)
        open == LiveStamps(b)[HttpWindow + 1] < HttpLimit
    IN
    /\ r.kind # "health" /\ FromCloudflare(r) /\ FromTradingView(r)
    /\ bucket' = [bucket EXCEPT ![b] = IF open THEN Stamped(LiveStamps(b)) ELSE LiveStamps(b)]
    /\ served' = IF open /\ HeadersInOrder(r) THEN [served EXCEPT ![b] = Stamped(@)] ELSE served
    /\ UNCHANGED lostBucket

IdleBucket(b) == bucket[b] # NoStamps /\ bucket[b][HttpWindow] = 0

\* cleanup, once an hour: idle buckets go, and above the cap the first that
\* came, however recently they were used (bound: one that was lost is not lost
\* again before its requests have aged).
CleanupHttp(C) ==
    /\ C \cap lostBucket = {}
    /\ bucket' = [b \in Buckets |-> IF b \in C \/ IdleBucket(b) THEN NoStamps ELSE bucket[b]]
    /\ bucket' # bucket /\ lostBucket' = lostBucket \cup C
    /\ UNCHANGED served

HttpOlder(s) == [a \in HttpAges |-> IF a = 0 THEN 0 ELSE s[a - 1]]

HttpTick ==
    /\ bucket' = [b \in Buckets |-> HttpOlder(bucket[b])]
    /\ served' = [b \in Buckets |-> HttpOlder(served[b])]
    /\ lostBucket' = {b \in lostBucket : served'[b] # NoStamps}

HcNext ==
    \/ \E r \in HttpRequests : Arrive(r)
    \/ \E C \in SUBSET Buckets : CleanupHttp(C)
    \/ HttpTick

HcSpec == HcInit /\ [][HcNext]_hcVars

-----------------------------------------------------------------------------
\* A bucket never lets more by in less than a minute than its limit, although
\* the hourly cleanup forgets buckets that look idle, unless the cap cost the
\* client its bucket.
ServedWithinBucket ==
    \A b \in Buckets : b \notin lostBucket =>
        served[b][HttpWindow - 1] <= HttpLimit
=============================================================================
