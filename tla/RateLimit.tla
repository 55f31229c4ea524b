------------------------------- MODULE RateLimit -------------------------------
(***************************************************************************)
(* middleware/rate-limit.ts: the two limiters, for one subject (an IP, an  *)
(* account). rateLimit counts every request, by a script that Redis runs   *)
(* as one; failureRateLimit reads the counter before the handler and       *)
(* increments it, by the same script, after an answer 401. When Redis does *)
(* not answer, both take a list of times in the memory of the process.     *)
(*                                                                         *)
(* req[r] is one of the requests in flight, at the await it is at.         *)
(***************************************************************************)
EXTENDS RedisBreaker

CONSTANTS
    Requests,  \* requests that may be in flight at once
    Window,    \* windowMs, in ticks
    Max,       \* what the limiter lets through in a window
    Most       \* passed counts no further

ASSUME LimitAssumption ==
    /\ Window \in Nat \ {0} /\ Max \in Nat \ {0} /\ Most \in Nat /\ Most >= Max
    /\ LongUp >= Window

VARIABLES
    limiter,  \* which of the two
    count,    \* the number under ratelimit:<name>:<id> in Redis, 0 if none
    left,     \* ticks until that key expires
    hits,     \* hits[a]: how many times in memory are at most a ticks old
    req,      \* req[r]: the await at which request r is
    passed,   \* history: passed[a], requests let through at most a ticks ago or,
              \* for failureRateLimit, those of them that were answered 401
    forgotten \* history: forgotten[a], those of passed[a] that no counter holds, for
              \* their record failed or a counter has been lost since

limitVars == <<limiter, count, left, hits, req, passed, forgotten>>

Ages == 0..(Window - 1)
RequestStates == {"idle", "evalsha", "eval", "get", "pttl", "handler", "handlerMemory"}

LimitTypeOK ==
    /\ limiter \in {"rateLimit", "failureRateLimit"}
    /\ count \in 0..(Max + 1)
    /\ left \in 0..Window /\ (left = 0 <=> count = 0)
    /\ hits \in [Ages -> 0..Max]
    /\ passed \in [Ages -> 0..Most] /\ forgotten \in [Ages -> 0..Most]
    /\ req \in [Requests -> RequestStates]

LimitInit ==
    /\ limiter \in {"rateLimit", "failureRateLimit"}
    /\ count = 0 /\ left = 0
    /\ hits = [a \in Ages |-> 0]
    /\ passed = [a \in Ages |-> 0] /\ forgotten = [a \in Ages |-> 0]
    /\ req = [r \in Requests |-> "idle"]

-------------------------------------------------------------------------------
(* What a request does in the step in which it gets an answer *)

Goes(r, st) == req' = [req EXCEPT ![r] = st]
Ends(r) == Goes(r, "idle") /\ UNCHANGED passed

\* One more now, which is at most a ticks old for every a; f goes no further than most.
OneMore(f, most) == [a \in Ages |-> IF f[a] < most THEN f[a] + 1 ELSE f[a]]

Counts(r) == Goes(r, "idle") /\ passed' = OneMore(passed, Most)

\* The times in the list; it is compared with Max.
Recent == hits[Window - 1]
Hit == hits' = OneMore(hits, Max)
Untouched == UNCHANGED <<count, left>>

\* Mutant: the window starts again with each request.
IncrementAndExtend ==
    /\ count' = IF count <= Max THEN count + 1 ELSE count
    /\ left' = Window

\* The script: INCR, and PEXPIRE when the key is new.
Increment ==
    /\ count' = IF count <= Max THEN count + 1 ELSE count
    /\ left' = IF count = 0 THEN Window ELSE left

\* Mutant: nothing is kept in memory when Redis does not answer.
FailOpen(r) ==
    /\ IF limiter = "rateLimit" THEN Counts(r) ELSE Goes(r, "handlerMemory") /\ UNCHANGED passed
    /\ UNCHANGED hits

\* memoryCheck(id), or recentInMemory(id): the list of the process decides.
MemoryCheck(r) ==
    \/ Recent >= Max /\ Ends(r) /\ UNCHANGED hits
    \/ Recent < Max /\ limiter = "rateLimit" /\ Counts(r) /\ Hit
    \/ Recent < Max /\ limiter # "rateLimit"
         /\ Goes(r, "handlerMemory") /\ UNCHANGED <<hits, passed>>

\* redisAllowed has the answer of the script. failureRateLimit ignores it.
Decided(r) ==
    /\ IF limiter = "rateLimit" /\ count >= Max THEN Ends(r) ELSE Counts(r)
    /\ UNCHANGED hits

\* redisAllowed threw. A login that failed is then noted in memory, where the check
\* that reads Redis does not look.
Threw(r) ==
    IF limiter = "rateLimit" THEN MemoryCheck(r) ELSE Counts(r) /\ Hit

\* It threw and Redis has not counted: of a login that failed Redis holds no record.
ThrewUncounted(r) ==
    /\ Threw(r)
    /\ forgotten' = IF limiter = "rateLimit" THEN forgotten ELSE OneMore(forgotten, Most)

-------------------------------------------------------------------------------
(* redisAllowed *)

EvalSha(r) ==
    /\ req[r] = "evalsha"
    /\ \/ loaded /\ Succeeds /\ Increment /\ Decided(r) /\ UNCHANGED forgotten
       \/ loaded /\ Fails /\ Increment /\ Threw(r) /\ UNCHANGED forgotten
       \/ Fails /\ Untouched /\ ThrewUncounted(r)
    /\ UNCHANGED <<limiter, loaded>>

\* NOSCRIPT is an answer, but redisCommand counts it as a failure; when that opens
\* the breaker, the EVAL is rejected.
NoScript(r) ==
    /\ req[r] = "evalsha" /\ redisUp /\ ~loaded
    /\ CountsFailure
    /\ IF openLeft' > 0 THEN ThrewUncounted(r)
       ELSE Goes(r, "eval") /\ UNCHANGED <<hits, passed, forgotten>>
    /\ UNCHANGED <<limiter, loaded, count, left>>

Eval(r) ==
    /\ req[r] = "eval"
    /\ \/ Succeeds /\ Increment /\ Decided(r) /\ loaded' = TRUE /\ UNCHANGED forgotten
       \/ Fails /\ Increment /\ Threw(r) /\ loaded' = TRUE /\ UNCHANGED forgotten
       \/ Fails /\ Untouched /\ ThrewUncounted(r) /\ UNCHANGED loaded
    /\ UNCHANGED limiter

-------------------------------------------------------------------------------
(* rateLimitMiddleware and failureRateLimitMiddleware *)

Arrive(r) ==
    /\ req[r] = "idle"
    /\ IF Rejected THEN MemoryCheck(r)
       ELSE /\ Goes(r, IF limiter = "rateLimit" THEN "evalsha" ELSE "get")
            /\ UNCHANGED <<hits, passed>>
    /\ UNCHANGED <<limiter, count, left, forgotten>> /\ UNCHANGED breakerVars

\* Mutant: the counter of failures may go one above the limit.
GetOffByOne(r) ==
    /\ req[r] = "get"
    /\ \/ /\ Succeeds /\ UNCHANGED <<hits, passed>>
          /\ Goes(r, IF count > Max THEN "pttl" ELSE "handler")
       \/ Fails /\ MemoryCheck(r)
    /\ UNCHANGED <<limiter, count, left, forgotten, loaded>>

Get(r) ==
    /\ req[r] = "get"
    /\ \/ /\ Succeeds /\ UNCHANGED <<hits, passed>>
          /\ Goes(r, IF count >= Max THEN "pttl" ELSE "handler")
       \/ Fails /\ MemoryCheck(r)
    /\ UNCHANGED <<limiter, count, left, forgotten, loaded>>

\* The limit was reached; without its PTTL the memory decides after all.
Pttl(r) ==
    /\ req[r] = "pttl"
    /\ \/ Succeeds /\ Ends(r) /\ UNCHANGED hits
       \/ Fails /\ MemoryCheck(r)
    /\ UNCHANGED <<limiter, count, left, forgotten, loaded>>

\* next() has answered; a 401 is recorded where the check was made, or in memory.
Handled(r, unauthorized) ==
    /\ req[r] \in {"handler", "handlerMemory"}
    /\ \/ ~unauthorized /\ Ends(r) /\ UNCHANGED <<hits, forgotten>>
       \/ unauthorized /\ req[r] = "handlerMemory" /\ Counts(r) /\ Hit /\ UNCHANGED forgotten
       \/ unauthorized /\ req[r] = "handler" /\ Rejected /\ ThrewUncounted(r)
       \/ unauthorized /\ req[r] = "handler" /\ ~Rejected
            /\ Goes(r, "evalsha") /\ UNCHANGED <<hits, passed, forgotten>>
    /\ UNCHANGED <<limiter, count, left>> /\ UNCHANGED breakerVars

-------------------------------------------------------------------------------
(* Redis, the process and the clock *)

\* A restarted Redis has lost the counter.
CounterReturns(kept) ==
    /\ count' = IF kept THEN count ELSE 0
    /\ left' = IF kept THEN left ELSE 0
    /\ forgotten' = IF kept THEN forgotten ELSE passed
    /\ UNCHANGED <<limiter, hits, req, passed>>

LimiterRestarts ==
    /\ req' = [r \in Requests |-> "idle"]
    /\ hits' = [a \in Ages |-> 0]
    /\ forgotten' = passed
    /\ UNCHANGED <<limiter, count, left, passed>>

Older(f) == [a \in Ages |-> IF a = 0 THEN 0 ELSE f[a - 1]]

\* A command settles in the tick in which it is sent; a handler may take longer.
LimiterMayAge == \A r \in Requests : req[r] \in {"idle", "handler", "handlerMemory"}

LimiterAges ==
    /\ left' = IF left > 0 THEN left - 1 ELSE 0
    /\ count' = IF left' = 0 THEN 0 ELSE count
    /\ hits' = Older(hits) /\ passed' = Older(passed) /\ forgotten' = Older(forgotten)
    /\ UNCHANGED <<limiter, req>>

Command(r) == EvalSha(r) \/ NoScript(r) \/ Eval(r) \/ Get(r) \/ Pttl(r)

LimitStep ==
    \E r \in Requests : Arrive(r) \/ Command(r) \/ \E b \in BOOLEAN : Handled(r, b)
===============================================================================
