------------------------------ MODULE RedisGuards ------------------------------
(***************************************************************************)
(* What stands between a request and its handler and lives in Redis: a     *)
(* limiter (RateLimit) or the cached answers about the rights of the       *)
(* caller (AuthzCache), over the one breaker of the process                *)
(* (RedisBreaker), with a Redis and a process that may stop and a clock.   *)
(*                                                                         *)
(* A behaviour watches one guard, for they share nothing but the breaker;  *)
(* what the others do to it is OtherCommand.                               *)
(***************************************************************************)
EXTENDS RateLimit, AuthzCache, FiniteSets

ASSUME GuardsAssumption == IsFiniteSet(Requests) /\ Requests # {}

VARIABLE guard  \* the one that is watched

guardVars == <<guard, breakerVars, limitVars, cacheVars>>

GuardsTypeOK == BreakerTypeOK /\ LimitTypeOK /\ CacheTypeOK

Init ==
    /\ guard \in {"limiter", "cache"}
    /\ BreakerInit /\ LimitInit /\ CacheInit
    /\ guard = "cache" => limiter = "rateLimit"
    /\ guard = "limiter" => facts = {} /\ key = "admin"

-------------------------------------------------------------------------------

Limits == guard = "limiter" /\ LimitStep /\ UNCHANGED <<guard, cacheVars>>
Caches == guard = "cache" /\ CacheStep /\ UNCHANGED <<guard, limitVars>>
Others == OtherCommand /\ UNCHANGED <<guard, limitVars, cacheVars>>

Stop == RedisFails /\ UNCHANGED <<guard, limitVars, cacheVars>>

Return(kept) ==
    /\ RedisReturns(kept) /\ CounterReturns(kept) /\ CacheReturns(kept)
    /\ UNCHANGED guard

Restart ==
    /\ BreakerRestarts /\ LimiterRestarts /\ CacheRestarts
    /\ UNCHANGED guard

Tick ==
    /\ LimiterMayAge /\ CacheMayAge
    /\ BreakerAges /\ LimiterAges /\ CacheAges
    /\ UNCHANGED guard

Next ==
    \/ Limits \/ Caches \/ Others
    \/ Stop \/ Restart \/ Tick
    \/ \E kept \in BOOLEAN : Return(kept)

Spec == Init /\ [][Next]_guardVars

-------------------------------------------------------------------------------
(* Properties *)

InAWindow == passed[Window - 1]

\* What is left of "nunca fail open" (rate-limit.ts:125, README.md:1230): in any stretch
\* of windowMs, wherever it begins, less than three times the limit are let through, by
\* the end of one window of Redis, the next, and the list in memory, apart from those
\* that no counter holds. These are the failed logins whose record Redis did not take
\* while it answered the checks (rate-limit.ts:229-234), and after a restart of Redis
\* or of the server those from before it: each loss allows three times the limit again.
\* For failureRateLimit, whose check and increment are apart, each of the three may
\* be overrun by the other requests in flight.
Share == IF limiter = "rateLimit" THEN Max ELSE Max + Cardinality(Requests) - 1
LimitHolds == InAWindow < 3 * Share + forgotten[Window - 1]

\* Nobody is refused for less than the limit: with Redis sound for a window, a
\* request that is refused meets Max that were let through in the last window.
Refused(r) ==
    /\ LimitStep
    /\ req[r] \in {"get", "pttl"} \/ (limiter = "rateLimit" /\ req[r] \in {"evalsha", "eval"})
    /\ req'[r] = "idle" /\ passed' = passed

RefusalsAreEarned ==
    [][\A r \in Requests : Refused(r) /\ loaded /\ upFor >= Window => InAWindow >= Max]_guardVars

\* "TTL corto para que revocar un permiso ... tarde como mucho esto en reflejarse"
\* (middleware/permission.ts:15-17): an answer that has not changed for a TTL, and
\* the time that a check needs to store what it has read, is not cached otherwise.
StaleNoLongerThanTTL == Stale => since < Stalest

\* "deben recalcularse ya, no esperar al TTL" (system-admin.service.ts:105-106):
\* after the DEL of an assignment or removal no cached answer of the two is wrong,
\* unless a check stored what it had read before, the DEL did not reach Redis, or
\* the tables have changed by another way, which nothing invalidates.
StaleIsExcused == Stale => excused \/ (pending > 0 /\ key \in Dropped)

\* A cached right: both.
CacheIsSound == StaleNoLongerThanTTL /\ StaleIsExcused
===============================================================================
