----------------------------- MODULE RedisBreaker -----------------------------
(***************************************************************************)
(* lib/redis.ts: every Redis command of the server goes through            *)
(* redisCommand, which gives it 250 ms and counts the failures in a row.   *)
(* At the threshold the breaker opens: for a cooldown, commands are        *)
(* rejected before they are sent and the caller takes its plan B.          *)
(*                                                                         *)
(* Time is counted in ticks, longer than a command and shorter than a      *)
(* window, a TTL or a cooldown; what counts down to a deadline says how    *)
(* many ticks are left.                                                    *)
(*                                                                         *)
(* A caller asks Rejected before it sends, in the step that sends; later   *)
(* its command Succeeds or Fails, and what Redis did with it is the        *)
(* caller's to say.                                                        *)
(***************************************************************************)
EXTENDS Integers

CONSTANTS
    Threshold,  \* BREAKER_FAILURE_THRESHOLD
    Cooldown,   \* BREAKER_COOLDOWN_MS, in ticks
    LongUp      \* upFor counts no further

ASSUME BreakerAssumption ==
    /\ Threshold \in Nat \ {0} /\ Cooldown \in Nat \ {0}
    /\ LongUp \in Nat /\ LongUp >= Cooldown

VARIABLES
    redisUp,   \* Redis answers in time
    loaded,    \* Redis knows the script of the rate limiter
    fails,     \* consecutiveFailures, as far as the threshold
    openLeft,  \* ticks until breakerOpenUntil
    upFor      \* history: whole ticks since Redis last failed or restarted

breakerVars == <<redisUp, loaded, fails, openLeft, upFor>>

BreakerTypeOK ==
    /\ redisUp \in BOOLEAN /\ loaded \in BOOLEAN
    /\ fails \in 0..Threshold
    /\ openLeft \in 0..Cooldown
    /\ upFor \in 0..LongUp

BreakerInit ==
    /\ redisUp = TRUE /\ loaded = FALSE
    /\ fails = 0 /\ openLeft = 0 /\ upFor = 0

-------------------------------------------------------------------------------
(* redisCommand *)

Rejected == openLeft > 0

\* Mutant: a success resets the count and leaves the breaker to its cooldown.
SucceedsWithoutClosing ==
    /\ redisUp
    /\ fails' = 0
    /\ UNCHANGED <<redisUp, upFor, openLeft>>

\* Any success closes the breaker, also one that was sent before it opened.
Succeeds ==
    /\ redisUp
    /\ fails' = 0 /\ openLeft' = 0
    /\ UNCHANGED <<redisUp, upFor>>

\* A lapsed cooldown leaves the count as it was: the next failure opens again.
CountsFailure ==
    /\ fails' = IF fails < Threshold THEN fails + 1 ELSE fails
    /\ openLeft' = IF fails + 1 >= Threshold THEN Cooldown ELSE openLeft
    /\ UNCHANGED <<redisUp, upFor>>

\* Commands that were under way when Redis came back may still be lost.
Fails == (~redisUp \/ upFor = 0) /\ CountsFailure

\* Mutant: a rejection counts as a failure and prolongs the cooldown.
OtherCommandOrRejection ==
    /\ \/ openLeft \in {0, Cooldown} /\ (Succeeds \/ Fails)
       \/ Rejected /\ CountsFailure
    /\ UNCHANGED loaded

\* A command of a part of the server that is not modelled settles. While the
\* breaker is open, only those that were sent before it opened are under way.
OtherCommand ==
    /\ openLeft \in {0, Cooldown}
    /\ Succeeds \/ Fails
    /\ UNCHANGED loaded

-------------------------------------------------------------------------------
(* Redis and the clock *)

RedisFails ==
    /\ redisUp
    /\ redisUp' = FALSE /\ upFor' = 0
    /\ UNCHANGED <<loaded, fails, openLeft>>

\* Redis answers again; a restarted one has lost its scripts.
RedisReturns(kept) ==
    /\ ~redisUp
    /\ redisUp' = TRUE
    /\ loaded' = (loaded /\ kept)
    /\ UNCHANGED <<fails, openLeft, upFor>>

\* The process starts again: the breaker is in its memory.
BreakerRestarts ==
    /\ fails' = 0 /\ openLeft' = 0
    /\ UNCHANGED <<redisUp, loaded, upFor>>

\* Mutant: what is left of the cooldown is not cut at zero.
BreakerAgesBelowZero ==
    /\ openLeft' = openLeft - 1
    /\ upFor' = IF redisUp /\ upFor < LongUp THEN upFor + 1 ELSE upFor
    /\ UNCHANGED <<redisUp, loaded, fails>>

BreakerAges ==
    /\ openLeft' = IF openLeft > 0 THEN openLeft - 1 ELSE 0
    /\ upFor' = IF redisUp /\ upFor < LongUp THEN upFor + 1 ELSE upFor
    /\ UNCHANGED <<redisUp, loaded, fails>>

-------------------------------------------------------------------------------
(* Properties *)

\* "un circuit breaker deja de consultar a Redis durante ~30s" (README.md:1233)
\* and no longer: once Redis has answered for a cooldown, and knows the script
\* of the limiter, no command is rejected.
FollowsRedis == loaded /\ upFor >= Cooldown => ~Rejected

\* The breaker is open only after as many failures in a row as its threshold, and
\* until a success, whatever the order in which the commands settle.
OpenMeansFailing == Rejected => fails = Threshold

\* redisCommand, with any number of commands in flight: both.
BreakerIsSound == FollowsRedis /\ OpenMeansFailing
===============================================================================
