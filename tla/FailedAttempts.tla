--------------------------- MODULE FailedAttempts ---------------------------
(***************************************************************************)
(* Failed attempts of one key, an address or "license:<key>"               *)
(* (middleware/security.py, FailedAttemptTracker, as routes/auth.py uses   *)
(* it): counted and blocked in Redis for all workers, or, when a call to   *)
(* Redis raises, in the worker's own memory.  Every call to Redis is an    *)
(* await, so the requests of several workers interleave between them.      *)
(***************************************************************************)
EXTENDS Integers, Sequences, FiniteSets

CONSTANTS FaWorkers,  \* worker processes
          Attempts,   \* requests with this key
          FailAt,     \* _FAILED_ATTEMPT_THRESHOLD
          FailBlock,  \* _BLOCK_DURATION_SECS
          WithRedis   \* lifespan gave the tracker a Redis client

ASSUME FailedAttemptsAssumption == {FailAt, FailBlock} \subseteq Nat \ {0} /\ WithRedis \in BOOLEAN

VARIABLES
    tried,       \* tried[a]: how far request a is
    at,          \* at[a]: the worker that serves it
    age,         \* age[a]: time since it failed, -1 before
    scored,      \* attempts in the key's sorted set
    blockKey,    \* time left of pt:blocked_ip, 0 if there is none
    localTries,  \* localTries[w]: attempts remembered in w's memory
    localBlock,  \* localBlock[w]: time left of w's own block, 0 if it has run out, -1 if none
    broken       \* Redis has failed a call since the last attempt began (history)

faShared == <<scored, blockKey>>
faLocal == <<localTries, localBlock>>
faVars == <<tried, at, age, faShared, faLocal, broken>>

FaTypeOK ==
    /\ tried \in [Attempts -> {"new", "failed", "added", "full", "local", "done", "served", "refused"}]
    /\ at \in [Attempts -> FaWorkers] /\ age \in [Attempts -> -1..FailBlock]
    /\ scored \subseteq Attempts /\ blockKey \in 0..FailBlock
    /\ localTries \in [FaWorkers -> SUBSET Attempts]
    /\ localBlock \in [FaWorkers -> -1..FailBlock] /\ broken \in BOOLEAN

FaInit ==
    /\ tried = [a \in Attempts |-> "new"] /\ at \in [Attempts -> FaWorkers]
    /\ age = [a \in Attempts |-> -1] /\ scored = {} /\ blockKey = 0
    /\ localTries = [w \in FaWorkers |-> {}] /\ localBlock = [w \in FaWorkers |-> -1]
    /\ broken = FALSE

Recent(A) == {a \in A : age[a] < FailBlock}

-----------------------------------------------------------------------------
\* is_blocked: Redis, or after an error the worker's own block, which it
\* deletes once it has run out.
BlockedLocally(w) == localBlock[w] > 0

ForgetBlock(w) == localBlock' = [localBlock EXCEPT ![w] = IF @ = 0 THEN -1 ELSE @]

\* verify_signal_request: refuse what is blocked, then check the license.
VerifyRequest(a, valid) ==
    LET w == at[a] IN
    /\ tried[a] = "new"
    /\ \E redis \in BOOLEAN :
          /\ redis => WithRedis
          /\ LET blocked == IF redis THEN blockKey > 0 ELSE BlockedLocally(w) IN
             /\ tried' = [tried EXCEPT ![a] = IF blocked THEN "refused"
                                            ELSE IF valid THEN "served" ELSE "failed"]
             /\ age' = IF blocked \/ valid THEN age ELSE [age EXCEPT ![a] = 0]
          /\ IF redis THEN UNCHANGED localBlock ELSE ForgetBlock(w)
    \* _register_poll_activity: a poll that is served clears the worker's own
    \* count; Redis and the blocks keep theirs
    /\ localTries' = IF tried'[a] = "served" THEN [localTries EXCEPT ![w] = {}] ELSE localTries
    /\ UNCHANGED <<at, faShared, broken>>

\* record_failure with Redis: add, drop what is older than the window, count,
\* block.  The time that is added was read when the call began.
Add(a) ==
    /\ tried[a] = "failed" /\ WithRedis
    /\ tried' = [tried EXCEPT ![a] = "added"] /\ scored' = scored \cup {a}
    /\ UNCHANGED <<at, age, blockKey, faLocal, broken>>

\* Mutant: the request that counts leaves itself out.
Failures(a) == Recent(scored) \ {a}

Counted(a) == Recent(scored)

Count(a) ==
    /\ tried[a] = "added" /\ scored' = Recent(scored)
    /\ tried' = [tried EXCEPT ![a] = IF Cardinality(Counted(a)) >= FailAt THEN "full" ELSE "done"]
    /\ UNCHANGED <<at, age, blockKey, faLocal, broken>>

SetBlock(a) ==
    /\ tried[a] = "full" /\ tried' = [tried EXCEPT ![a] = "done"] /\ blockKey' = FailBlock
    /\ UNCHANGED <<at, age, scored, faLocal, broken>>

\* Any of these calls may raise: the attempt is then counted locally, although
\* Redis may have counted it as well.
RedisRaises(a) ==
    /\ tried[a] \in {"failed", "added", "full"}
    /\ tried' = [tried EXCEPT ![a] = "local"] /\ broken' = (broken \/ WithRedis)
    /\ UNCHANGED <<at, age, faShared, faLocal>>

\* Without Redis, or after it raised, in one tried.
RecordLocally(a) ==
    LET w == at[a]
        tries == Recent(localTries[w]) \cup {a}
    IN
    /\ tried[a] = "local" /\ tried' = [tried EXCEPT ![a] = "done"]
    /\ localTries' = [localTries EXCEPT ![w] = tries]
    /\ localBlock' = IF Cardinality(tries) >= FailAt THEN [localBlock EXCEPT ![w] = FailBlock]
                     ELSE localBlock
    /\ UNCHANGED <<at, age, faShared, broken>>

\* cleanup, hourly: blocks that have run out go with their attempts; attempts go
\* when the last is old.
CleanupTries(w) ==
    /\ localTries' = [localTries EXCEPT ![w] = IF localBlock[w] = 0 \/ Recent(@) = {} THEN {} ELSE @]
    /\ ForgetBlock(w) /\ faLocal' # faLocal
    /\ UNCHANGED <<tried, at, age, faShared, broken>>

\* Time does not overtake a call to Redis that has begun.
FaTick ==
    /\ \A a \in Attempts : tried[a] \notin {"failed", "added", "full", "local"}
    /\ age' = [a \in Attempts |-> IF age[a] \in {-1, FailBlock} THEN age[a] ELSE age[a] + 1]
    /\ blockKey' = IF blockKey > 0 THEN blockKey - 1 ELSE 0
    /\ localBlock' = [w \in FaWorkers |-> IF localBlock[w] > 0 THEN localBlock[w] - 1 ELSE localBlock[w]]
    /\ UNCHANGED <<tried, at, scored, localTries, broken>>

FaNext ==
    \/ \E a \in Attempts : \/ \E valid \in BOOLEAN : VerifyRequest(a, valid)
                           \/ Add(a) \/ Count(a) \/ SetBlock(a) \/ RedisRaises(a) \/ RecordLocally(a)
    \/ \E w \in FaWorkers : CleanupTries(w)
    \/ FaTick

FaSpec == FaInit /\ [][FaNext]_faVars

-----------------------------------------------------------------------------
\* As many failures as the threshold within the window block the key for every
\* worker, whichever workers recorded them and however their calls to Redis
\* interleaved, as long as Redis answered.
FailuresBlock ==
    WithRedis /\ ~broken /\ Cardinality({a \in Recent(scored) : tried[a] = "done"}) >= FailAt =>
        blockKey > 0
=============================================================================
