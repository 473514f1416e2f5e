----------------------------- MODULE RateLimits -----------------------------
(***************************************************************************)
(* The limiter the webhook handler asks (services/rate_limiter.py), for    *)
(* one client: two sliding windows, a token bucket and a block.  Every     *)
(* call holds the limiter's lock, so each is one step; its cleanup runs on *)
(* a timer thread that the lifecycle of the server starts and stops.       *)
(*                                                                         *)
(* Times are ages in ticks, and a deque of timestamps is how many of its   *)
(* requests are at most so old, for every age.  Tokens are counted in      *)
(* units of 1/Minute and refilled as time passes, which is what the code   *)
(* works out when asked: max_requests_per_minute / 60 per second, up to    *)
(* the burst size.                                                         *)
(***************************************************************************)
EXTENDS Integers

CONSTANTS MinuteLimit, HourLimit, Burst,  \* the limits
          Minute, Hour,                   \* their windows
          BlockAt,      \* _VIOLATION_BLOCK_THRESHOLD
          BlockTime,    \* block_duration
          DecayEvery    \* _VIOLATION_DECAY_INTERVAL

ASSUME RateLimitsAssumption ==
    /\ {MinuteLimit, HourLimit, Burst, Minute, BlockAt, BlockTime, DecayEvery}
          \subseteq Nat \ {0}
    /\ Hour \in Nat /\ Hour > Minute

VARIABLES
    minute, hour, \* minute[a], hour[a]: requests in the window that are at most a old
    tokens,      \* what the token bucket holds
    block,       \* time left of the block; 0 if it has run out, -1 if there is none
    violations, goodAge,  \* violation count; age of the last allowed request
    allowed,     \* allowed[a]: requests allowed since the last reset, likewise (history)
    evicted      \* the cap cost the client its windows since then (history)

windows == <<minute, hour>>
penalty == <<block, violations, goodAge>>
rlHistory == <<allowed, evicted>>
rlVars == <<windows, tokens, penalty, rlHistory>>

Ages == 0..Hour + 1
Full == Burst * Minute
ViolationCap == BlockAt + 2  \* where the model stops counting

RlTypeOK ==
    /\ minute \in [Ages -> 0..MinuteLimit] /\ hour \in [Ages -> 0..HourLimit]
    /\ tokens \in 0..Full /\ block \in -1..BlockTime
    /\ violations \in 0..ViolationCap /\ goodAge \in Ages
    /\ allowed \in [Ages -> Nat] /\ evicted \in BOOLEAN

Nobody == [a \in Ages |-> 0]

RlInit ==
    /\ minute = Nobody /\ hour = Nobody /\ tokens = Full
    /\ block = -1 /\ violations = 0 /\ goodAge = 0 /\ allowed = Nobody /\ evicted = FALSE

-----------------------------------------------------------------------------
\* The requests older than age are popped.
YoungerOrEqual(s, age) == [a \in Ages |-> IF a < age THEN s[a] ELSE s[age]]

\* is_allowed, under the limiter's lock.  A client that is blocked is refused
\* before anything else is looked at, so it cannot lengthen its block.
Blocked == block > 0

CountAfterBlock == IF block = 0 THEN 0 ELSE violations

RefuseBlocked ==
    /\ Blocked /\ UNCHANGED rlVars

\* Mutant: a request is let go at the full minute, not after it.
LiveMinuteEarly == YoungerOrEqual(minute, Minute - 1)

LiveMinute == YoungerOrEqual(minute, Minute)
LiveHour == YoungerOrEqual(hour, Hour)

\* How many a deque holds.
Held(s) == s[Hour + 1]

WindowOpen == Held(LiveMinute) < MinuteLimit /\ Held(LiveHour) < HourLimit

\* _handle_violation.
Violate(count) ==
    /\ violations' = IF count < ViolationCap THEN count + 1 ELSE count
    /\ block' = IF violations' >= BlockAt THEN BlockTime ELSE -1

RefuseWindow ==
    /\ ~Blocked /\ ~WindowOpen
    /\ minute' = LiveMinute /\ hour' = LiveHour /\ Violate(CountAfterBlock)
    /\ UNCHANGED <<tokens, goodAge, rlHistory>>

\* The bucket is asked after the windows have counted the request.
WithOneMore(s) == [a \in Ages |-> s[a] + 1]

CountRequest == minute' = WithOneMore(LiveMinute) /\ hour' = WithOneMore(LiveHour)

RefuseBucket ==
    /\ ~Blocked /\ WindowOpen /\ tokens < Minute
    /\ CountRequest /\ Violate(CountAfterBlock)
    /\ UNCHANGED <<tokens, goodAge, rlHistory>>

Decayed(count) == LET left == count - goodAge \div DecayEvery IN IF left < 0 THEN 0 ELSE left

Allow ==
    /\ ~Blocked /\ WindowOpen /\ tokens >= Minute
    /\ CountRequest /\ tokens' = tokens - Minute
    /\ violations' = Decayed(CountAfterBlock) /\ goodAge' = 0
    /\ block' = IF block = 0 THEN -1 ELSE block
    /\ allowed' = WithOneMore(allowed) /\ evicted' = evicted

-----------------------------------------------------------------------------
\* The administrator's two calls (routes/admin.py).
Unblock ==
    /\ block >= 0 /\ block' = -1
    /\ UNCHANGED <<windows, tokens, violations, goodAge, rlHistory>>

Reset ==
    /\ minute' = Nobody /\ hour' = Nobody /\ tokens' = Full
    /\ block' = -1 /\ violations' = 0 /\ allowed' = Nobody /\ evicted' = FALSE
    /\ UNCHANGED goodAge

\* cleanup: old requests and expired blocks go, and when there are too many
\* clients the first that came loses its windows, however recently it called.
Cleanup ==
    /\ minute' \in {LiveMinute, Nobody} /\ hour' \in {LiveHour, Nobody}
    /\ evicted' = (evicted \/ minute' # LiveMinute \/ hour' # LiveHour)
    /\ violations' = CountAfterBlock /\ block' = IF block = 0 THEN -1 ELSE block
    /\ UNCHANGED <<tokens, goodAge, allowed>>

Aged(s) == [a \in Ages |-> IF a = 0 THEN 0 ELSE s[a - 1]]

Refilled == IF tokens + MinuteLimit < Full THEN tokens + MinuteLimit ELSE Full

Tick ==
    /\ minute' = Aged(minute) /\ hour' = Aged(hour) /\ allowed' = Aged(allowed)
    /\ tokens' = Refilled
    /\ goodAge' = IF goodAge > Hour THEN goodAge ELSE goodAge + 1
    /\ block' = IF block > 0 THEN block - 1 ELSE block
    /\ evicted' = (evicted /\ allowed' # Nobody)
    /\ UNCHANGED violations

RlNext ==
    \/ RefuseBlocked \/ RefuseWindow \/ RefuseBucket \/ Allow
    \/ Unblock \/ Reset \/ Cleanup \/ Tick

RlSpec == RlInit /\ [][RlNext]_rlVars

-----------------------------------------------------------------------------
\* Whatever refusals and cleanups happen in between, the limiter never lets
\* more by in a minute or an hour than its limits, and in any stretch no more
\* than a full bucket and what it gains meanwhile: the last holds even for a
\* client whose windows the cap has evicted.  Only a reset starts afresh.
PassedWithinLimits ==
    /\ ~evicted => allowed[Minute] <= MinuteLimit /\ allowed[Hour] <= HourLimit
    /\ \A a \in Ages : allowed[a] * Minute <= Full + a * MinuteLimit

=============================================================================
