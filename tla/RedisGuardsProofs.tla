--------------------------- MODULE RedisGuardsProofs ---------------------------
(***************************************************************************)
(* The breaker is sound, and so is what the cache says of the rights of a  *)
(* user and how much a limiter lets through, for any threshold, cooldown,  *)
(* window, limit, TTL and number of requests.                              *)
(***************************************************************************)
EXTENDS RedisGuards, FiniteSetTheorems, TLAPS

\* Redis has not failed for a while only if it answers; while it is sound and knows the
\* script, what is left of a cooldown began when it failed last.
BInv ==
    /\ BreakerTypeOK
    /\ ~redisUp => upFor = 0
    /\ OpenMeansFailing
    /\ loaded /\ Rejected => openLeft + upFor <= Cooldown

\* A check about to store another answer than the tables give has read it before the last
\* change, and is marked; what is cached lives no longer than a flight and a TTL.
CInv ==
    /\ CacheTypeOK
    /\ \A c \in Checks :
          check[c].st = "set" /\ check[c].answer # Answer(key, facts) =>
             check[c].old /\ since <= check[c].age
    /\ Stale => since + cache.left <= Stalest
    /\ StaleIsExcused

IInv ==
    /\ guard \in {"limiter", "cache"}
    /\ BInv /\ LimitTypeOK /\ CInv

-------------------------------------------------------------------------------
(* The breaker *)

LEMMA SucceedsKeeps ==
    ASSUME BInv, Succeeds, loaded' \in BOOLEAN
    PROVE  BInv'
BY BreakerAssumption DEF BInv, BreakerTypeOK, OpenMeansFailing, Rejected, Succeeds

LEMMA CountsKeeps ==
    ASSUME BInv, CountsFailure, loaded' \in BOOLEAN, ~loaded' \/ upFor = 0
    PROVE  BInv'
<1>1. BreakerTypeOK'
  BY BreakerAssumption DEF BInv, BreakerTypeOK, CountsFailure
<1>2. OpenMeansFailing'
  BY BreakerAssumption DEF BInv, BreakerTypeOK, CountsFailure, OpenMeansFailing, Rejected
<1>3. (~redisUp => upFor = 0)'
  BY DEF BInv, CountsFailure
<1>4. (loaded /\ Rejected => openLeft + upFor <= Cooldown)'
  BY <1>1, BreakerAssumption DEF BreakerTypeOK, CountsFailure
<1> QED  BY <1>1, <1>2, <1>3, <1>4 DEF BInv

LEMMA FailsKeeps ==
    ASSUME BInv, Fails, loaded' \in BOOLEAN
    PROVE  BInv'
BY CountsKeeps DEF Fails, BInv

LEMMA BreakerUnchanged ==
    ASSUME BInv, UNCHANGED breakerVars
    PROVE  BInv'
BY DEF BInv, BreakerTypeOK, OpenMeansFailing, Rejected, breakerVars

LEMMA OtherKeeps == BInv /\ OtherCommand => BInv'
BY SucceedsKeeps, FailsKeeps DEF OtherCommand, BInv, BreakerTypeOK

LEMMA RedisKeeps ==
    ASSUME BInv, RedisFails \/ (\E kept \in BOOLEAN : RedisReturns(kept)) \/ BreakerRestarts
    PROVE  BInv'
<1>1. CASE RedisFails
  <2>1. redisUp' = FALSE /\ upFor' = 0 /\ UNCHANGED <<loaded, fails, openLeft>>
    BY <1>1 DEF RedisFails
  <2>2. BreakerTypeOK'
    <3>1. redisUp' \in BOOLEAN
      BY <2>1
    <3>2. upFor' \in 0..LongUp
      BY <2>1, BreakerAssumption
    <3> QED  BY <2>1, <3>1, <3>2 DEF BInv, BreakerTypeOK
  <2>3. openLeft' + upFor' <= Cooldown
    BY <2>1, BreakerAssumption DEF BInv, BreakerTypeOK
  <2>4. OpenMeansFailing'
    BY <2>1 DEF BInv, OpenMeansFailing, Rejected
  <2> QED  BY <2>1, <2>2, <2>3, <2>4 DEF BInv
<1>2. ASSUME NEW kept \in BOOLEAN, RedisReturns(kept) PROVE BInv'
  <2>1. redisUp' = TRUE /\ UNCHANGED <<fails, openLeft, upFor>>
    BY <1>2 DEF RedisReturns
  <2>2. (loaded' => loaded) /\ loaded' \in BOOLEAN
    BY <1>2 DEF RedisReturns
  <2> QED  BY <2>1, <2>2 DEF BInv, BreakerTypeOK, OpenMeansFailing, Rejected
<1>3. CASE BreakerRestarts
  BY <1>3, BreakerAssumption
     DEF BInv, BreakerTypeOK, OpenMeansFailing, Rejected, BreakerRestarts
<1> QED  BY <1>1, <1>2, <1>3

LEMMA AgesKeeps == BInv /\ BreakerAges => BInv'
BY BreakerAssumption DEF BInv, BreakerTypeOK, OpenMeansFailing, Rejected, BreakerAges

-------------------------------------------------------------------------------
(* A limiter *)

\* What a request is and has left behind.
Noted == /\ hits \in [Ages -> 0..Max] /\ passed \in [Ages -> 0..Most]
         /\ req \in [Requests -> RequestStates]
Forgetful == forgotten \in [Ages -> 0..Most]
Counter == count \in 0..(Max + 1) /\ left \in 0..Window /\ (left = 0 <=> count = 0)

LEMMA Limit == LimitTypeOK <=> /\ limiter \in {"rateLimit", "failureRateLimit"}
                               /\ Noted /\ Counter /\ Forgetful
BY DEF LimitTypeOK, Noted, Counter, Forgetful

LEMMA OneMoreIs ==
    ASSUME NEW n \in Nat, NEW f \in [Ages -> 0..n]
    PROVE  /\ OneMore(f, n) \in [Ages -> 0..n]
           /\ \A a \in Ages : f[a] <= OneMore(f, n)[a] /\ OneMore(f, n)[a] <= f[a] + 1
           /\ \A a \in Ages : f[a] < n => OneMore(f, n)[a] = f[a] + 1
BY DEF OneMore

LEMMA Goings ==
    ASSUME Noted, NEW r \in Requests
    PROVE  /\ \A st \in RequestStates : Goes(r, st) => req' \in [Requests -> RequestStates]
           /\ Ends(r) \/ Counts(r) =>
                 req' \in [Requests -> RequestStates] /\ passed' \in [Ages -> 0..Most]
           /\ Hit => hits' \in [Ages -> 0..Max]
<1>1. "idle" \in RequestStates
  BY DEF RequestStates
<1>2. \A st \in RequestStates : Goes(r, st) => req' \in [Requests -> RequestStates]
  BY DEF Noted, Goes
<1>3. Counts(r) => passed' \in [Ages -> 0..Most]
  BY OneMoreIs, LimitAssumption DEF Noted, Counts
<1>4. Hit => hits' \in [Ages -> 0..Max]
  BY OneMoreIs, LimitAssumption DEF Noted, Hit
<1> QED  BY <1>1, <1>2, <1>3, <1>4 DEF Ends, Counts, Noted

LEMMA Memory ==
    ASSUME Noted, NEW r \in Requests, MemoryCheck(r) \/ Threw(r) \/ Decided(r)
    PROVE  Noted'
<1>1. "handlerMemory" \in RequestStates
  BY DEF RequestStates
<1>2. ASSUME MemoryCheck(r) PROVE Noted'
  BY <1>1, <1>2, Goings DEF MemoryCheck, Noted
<1>3. ASSUME Threw(r) PROVE Noted'
  BY <1>2, <1>3, Goings DEF Threw, Noted
<1>4. ASSUME Decided(r) PROVE Noted'
  BY <1>4, Goings DEF Decided, Noted
<1> QED  BY <1>2, <1>3, <1>4

LEMMA Incremented == Counter /\ (Increment \/ Untouched) => Counter'
BY LimitAssumption DEF Counter, Increment, Untouched

\* What a step of a request does to the limiter and to what is forgotten.
LEMMA StepForgets ==
    ASSUME LimitStep
    PROVE  /\ limiter' = limiter
           /\ forgotten' = forgotten \/ forgotten' = OneMore(forgotten, Most)
<1>1. PICK r \in Requests : Arrive(r) \/ Command(r) \/ \E b \in BOOLEAN : Handled(r, b)
  BY DEF LimitStep
<1>2. CASE Arrive(r) \/ \E b \in BOOLEAN : Handled(r, b)
  BY <1>2 DEF Arrive, Handled, ThrewUncounted
<1>3. CASE Command(r)
  BY <1>3 DEF Command, EvalSha, NoScript, Eval, Get, Pttl, ThrewUncounted
<1> QED  BY <1>1, <1>2, <1>3

LEMMA LimitStepKeeps ==
    ASSUME BInv, LimitTypeOK, LimitStep
    PROVE  BInv' /\ LimitTypeOK'
<1>1. PICK r \in Requests : Arrive(r) \/ Command(r) \/ \E b \in BOOLEAN : Handled(r, b)
  BY DEF LimitStep
<1>2. RequestStates = {"idle", "evalsha", "eval", "get", "pttl", "handler", "handlerMemory"}
  BY DEF RequestStates
<1>3. Noted /\ Counter /\ Forgetful /\ loaded \in BOOLEAN
  BY Limit DEF BInv, BreakerTypeOK
<1>10. Forgetful' /\ limiter' = limiter
  BY <1>3, StepForgets, OneMoreIs, LimitAssumption DEF Forgetful
<1>11. BInv' /\ Noted' /\ Counter' => BInv' /\ LimitTypeOK'
  BY <1>10 DEF LimitTypeOK, Noted, Counter, Forgetful
<1>4. CASE Arrive(r)
  <2>1. Noted'
    BY <1>2, <1>3, <1>4, Goings, Memory DEF Arrive, Noted
  <2>2. UNCHANGED <<count, left>> /\ UNCHANGED breakerVars
    BY <1>4 DEF Arrive
  <2> QED  BY <1>3, <1>11, <2>1, <2>2, BreakerUnchanged DEF Counter
<1>5. CASE EvalSha(r)
  <2>1. Noted'
    BY <1>3, <1>5, Memory DEF EvalSha, ThrewUncounted
  <2>2. Counter'
    BY <1>3, <1>5, Incremented DEF EvalSha
  <2>3. BInv'
    BY <1>3, <1>5, SucceedsKeeps, FailsKeeps DEF EvalSha
  <2> QED  BY <1>11, <2>1, <2>2, <2>3
<1>6. CASE NoScript(r)
  <2>1. Noted'
    BY <1>2, <1>3, <1>6, Goings, Memory DEF NoScript, ThrewUncounted, Noted
  <2>2. BInv'
    BY <1>3, <1>6, CountsKeeps DEF NoScript
  <2>3. UNCHANGED <<count, left>>
    BY <1>6 DEF NoScript
  <2> QED  BY <1>3, <1>11, <2>1, <2>2, <2>3 DEF Counter
<1>7. CASE Eval(r)
  <2>1. Noted'
    BY <1>3, <1>7, Memory DEF Eval, ThrewUncounted
  <2>2. Counter'
    BY <1>3, <1>7, Incremented DEF Eval
  <2>3. BInv'
    BY <1>3, <1>7, SucceedsKeeps, FailsKeeps DEF Eval
  <2> QED  BY <1>11, <2>1, <2>2, <2>3
<1>8. CASE Get(r) \/ Pttl(r)
  <2>1. Noted'
    BY <1>2, <1>3, <1>8, Goings, Memory DEF Get, Pttl, Noted
  <2>2. BInv'
    BY <1>3, <1>8, SucceedsKeeps, FailsKeeps DEF Get, Pttl
  <2>3. UNCHANGED <<count, left>>
    BY <1>8 DEF Get, Pttl
  <2> QED  BY <1>3, <1>11, <2>1, <2>2, <2>3 DEF Counter
<1>9. CASE \E b \in BOOLEAN : Handled(r, b)
  <2>1. PICK b \in BOOLEAN : Handled(r, b)
    BY <1>9
  <2>2. Noted'
    BY <1>2, <1>3, <2>1, Goings, Memory DEF Handled, ThrewUncounted, Noted
  <2>3. UNCHANGED <<count, left>> /\ UNCHANGED breakerVars
    BY <2>1 DEF Handled
  <2> QED  BY <1>3, <1>11, <2>2, <2>3, BreakerUnchanged DEF Counter
<1> QED  BY <1>1, <1>4, <1>5, <1>6, <1>7, <1>8, <1>9 DEF Command

LEMMA LimitUnchanged == LimitTypeOK /\ UNCHANGED limitVars => LimitTypeOK'
BY DEF LimitTypeOK, limitVars

\* Redis returns, the process restarts or a tick passes.
LEMMA LimiterAround ==
    ASSUME LimitTypeOK,
           (\E kept \in BOOLEAN : CounterReturns(kept)) \/ LimiterRestarts \/ LimiterAges
    PROVE  LimitTypeOK'
<1>1. CASE \E kept \in BOOLEAN : CounterReturns(kept)
  BY <1>1, LimitAssumption DEF LimitTypeOK, CounterReturns
<1>2. CASE LimiterRestarts
  BY <1>2, LimitAssumption DEF LimitTypeOK, LimiterRestarts, RequestStates
<1>3. CASE LimiterAges
  <2>1. \A n \in Nat : \A f \in [Ages -> 0..n] : Older(f) \in [Ages -> 0..n]
    BY LimitAssumption DEF Older, Ages
  <2>2. /\ hits' \in [Ages -> 0..Max] /\ passed' \in [Ages -> 0..Most]
        /\ forgotten' \in [Ages -> 0..Most]
    BY <1>3, <2>1, LimitAssumption DEF LimitTypeOK, LimiterAges
  <2> QED  BY <1>3, <2>2, LimitAssumption DEF LimitTypeOK, LimiterAges
<1> QED  BY <1>1, <1>2, <1>3

-------------------------------------------------------------------------------
(* The cache *)

CheckRecords == [st : CheckStates, answer : SUBSET Facts, age : 0..Flight, old : BOOLEAN]
CacheRecords == [answer : SUBSET Facts, left : 0..TTL]

LEMMA Answers ==
    ASSUME NEW k \in Keys, NEW s \in SUBSET Facts
    PROVE  Answer(k, s) \in SUBSET Facts
BY DEF Answer, Keys, Facts

LEMMA Records ==
    /\ None \in CacheRecords /\ None.left = 0
    /\ NoCheck \in CheckRecords /\ NoCheck.st = "idle"
BY CacheAssumption DEF None, NoCheck, CacheRecords, CheckRecords, CheckStates

\* A step that leaves the tables and the cache alone and only moves one check, to
\* nothing that is about to be stored.
Quiet(c) ==
    /\ UNCHANGED <<facts, key, cache, pending, since, excused>>
    /\ check' = [check EXCEPT ![c] = NoCheck]
       \/ \E st \in CheckStates \ {"set"} : check' = [check EXCEPT ![c].st = st]

LEMMA QuietKeeps ==
    ASSUME CInv, NEW c \in Checks, Quiet(c)
    PROVE  CInv'
<1>1. check \in [Checks -> CheckRecords]
  BY DEF CInv, CacheTypeOK, CheckRecords
<1>2. /\ check' \in [Checks -> CheckRecords]
      /\ \A d \in Checks : check'[d] = check[d] \/ check'[d].st # "set"
  <2>1. CASE check' = [check EXCEPT ![c] = NoCheck]
    BY <1>1, <2>1, Records
  <2>2. CASE \E st \in CheckStates \ {"set"} : check' = [check EXCEPT ![c].st = st]
    BY <1>1, <2>2 DEF CheckRecords
  <2> QED  BY <2>1, <2>2 DEF Quiet
<1>3. UNCHANGED <<facts, key, cache, pending, since, excused>>
  BY DEF Quiet
<1>4. CacheTypeOK'
  BY <1>2, <1>3 DEF CInv, CacheTypeOK, CheckRecords
<1>5. (Stale <=> Stale') /\ (StaleIsExcused <=> StaleIsExcused')
  BY <1>3 DEF Stale, StaleIsExcused
<1> QED  BY <1>2, <1>3, <1>4, <1>5 DEF CInv

LEMMA QueryKeeps ==
    ASSUME CInv, NEW c \in Checks, Query(c)
    PROVE  CInv'
<1> DEFINE r == [st |-> "set", age |-> 0, old |-> FALSE, answer |-> Answer(key, facts)]
<1>1. CASE Rejected
  BY <1>1, QuietKeeps DEF Query, Quiet
<1>2. CASE ~Rejected
  <2>1. check' = [check EXCEPT ![c] = r]
    BY <1>2 DEF Query
  <2>2. UNCHANGED <<facts, key, cache, pending, since, excused>>
    BY DEF Query
  <2>3. r \in CheckRecords /\ r.answer = Answer(key, facts)
    BY Answers, CacheAssumption DEF CInv, CacheTypeOK, CheckRecords, CheckStates
  <2>4. /\ check' \in [Checks -> CheckRecords]
        /\ \A d \in Checks : check'[d] = check[d] \/ check'[d].answer = Answer(key, facts)
    BY <2>1, <2>3 DEF CInv, CacheTypeOK, CheckRecords
  <2>5. CacheTypeOK'
    BY <2>2, <2>4 DEF CInv, CacheTypeOK, CheckRecords
  <2>6. (Stale <=> Stale') /\ (StaleIsExcused <=> StaleIsExcused')
    BY <2>2 DEF Stale, StaleIsExcused
  <2> QED  BY <2>2, <2>4, <2>5, <2>6 DEF CInv
<1> QED  BY <1>1, <1>2

LEMMA SetCachedKeeps ==
    ASSUME CInv, NEW c \in Checks, SetCached(c)
    PROVE  CInv'
<1>1. CASE UNCHANGED <<cache, excused>>
  BY <1>1, QuietKeeps DEF SetCached, Quiet
<1>2. CASE Stores(c)
  <2>1. /\ check[c].st = "set" /\ check' = [check EXCEPT ![c] = NoCheck]
        /\ cache' = [answer |-> check[c].answer, left |-> TTL]
        /\ excused' = check[c].old
        /\ UNCHANGED <<facts, key, pending, since>>
    BY <1>2 DEF SetCached, Stores
  <2>2. check[c] \in CheckRecords /\ since \in 0..Stalest
    BY DEF CInv, CacheTypeOK, CheckRecords
  <2>3. CacheTypeOK'
    <3>1. cache' \in CacheRecords
      BY <2>1, <2>2, CacheAssumption DEF CacheRecords, CheckRecords
    <3>2. check' \in [Checks -> CheckRecords]
      BY <2>1, Records DEF CInv, CacheTypeOK, CheckRecords
    <3>3. excused' \in BOOLEAN
      BY <2>1, <2>2 DEF CheckRecords
    <3> QED  BY <2>1, <3>1, <3>2, <3>3 DEF CInv, CacheTypeOK, CheckRecords, CacheRecords
  <2>4. \A d \in Checks : check'[d] = check[d] \/ check'[d].st = "idle"
    BY <2>1, Records DEF CInv, CacheTypeOK
  <2>5. Stale' => excused' /\ since <= check[c].age
    BY <2>1 DEF CInv, Stale
  <2>6. Stale' => since' + cache'.left <= Stalest
    <3>1. check[c].age \in 0..Flight
      BY <2>2 DEF CheckRecords
    <3> QED  BY <2>1, <2>2, <2>5, <3>1, CacheAssumption DEF Stalest
  <2>7. StaleIsExcused'
    BY <2>5 DEF StaleIsExcused
  <2> QED  BY <2>1, <2>3, <2>4, <2>6, <2>7 DEF CInv
<1> QED  BY <1>1, <1>2 DEF SetCached

\* A change of the tables: whoever caused it says when it excuses what goes stale.
LEMMA ChangesKeeps ==
    ASSUME CInv, NEW new \in SUBSET Facts, Changes(new),
           UNCHANGED <<key, cache>>, pending' \in 0..Writers, excused' \in BOOLEAN,
           excused => excused', pending > 0 => pending' > 0,
           Answer(key, new) # Answer(key, facts) =>
              excused' \/ (pending' > 0 /\ key \in Dropped)
    PROVE  CInv'
<1> DEFINE goesOld(c) == check[c].st = "set" /\ check[c].answer # Answer(key, new)
           marked(c) == [check[c] EXCEPT !.old = @ \/ goesOld(c)]
<1>1. /\ facts' = new /\ key' = key /\ cache' = cache
      /\ since' = IF Answer(key, new) # Answer(key, facts) THEN 0 ELSE since
      /\ check' = [c \in Checks |-> marked(c)]
  BY DEF Changes
<1>2. check \in [Checks -> CheckRecords] /\ since \in 0..Stalest /\ Stalest \in Nat
      /\ cache \in CacheRecords
  BY CacheAssumption DEF CInv, CacheTypeOK, CheckRecords, CacheRecords, Stalest
<1>3. ASSUME NEW c \in Checks
      PROVE  /\ marked(c) \in CheckRecords /\ marked(c).st = check[c].st
             /\ marked(c).answer = check[c].answer /\ marked(c).age = check[c].age
             /\ goesOld(c) => marked(c).old
  <2>1. check[c] \in CheckRecords
    BY <1>2
  <2> HIDE DEF goesOld
  <2>2. (check[c].old \/ goesOld(c)) \in BOOLEAN
    OBVIOUS
  <2> QED  BY <2>1, <2>2 DEF CheckRecords
<1>4. CacheTypeOK'
  <2>1. since' \in 0..Stalest
    BY <1>1, <1>2
  <2> HIDE DEF marked
  <2>2. check' \in [Checks -> CheckRecords]
    BY <1>1, <1>3
  <2> QED  BY <1>1, <2>1, <2>2 DEF CInv, CacheTypeOK, CheckRecords
<1>5. ASSUME NEW c \in Checks, check'[c].st = "set", check'[c].answer # Answer(key', facts')
      PROVE  check'[c].old /\ since' <= check'[c].age
  <2>1. check'[c] = marked(c) /\ goesOld(c)
    <3> HIDE DEF marked
    <3>1. check'[c] = marked(c)
      BY <1>1
    <3> QED  BY <1>1, <1>3, <1>5, <3>1
  <2>2. marked(c).old /\ marked(c).age = check[c].age
    BY <1>3, <2>1
  <2>3. since' <= check[c].age
    <3>1. check[c].age \in 0..Flight
      BY <1>2 DEF CheckRecords
    <3>2. CASE Answer(key, new) # Answer(key, facts)
      BY <1>1, <3>1, <3>2
    <3>3. CASE Answer(key, new) = Answer(key, facts)
      BY <1>1, <2>1, <3>3 DEF CInv
    <3> QED  BY <3>2, <3>3
  <2> QED  BY <2>1, <2>2, <2>3
<1>6. Stale' => since' + cache'.left <= Stalest
  <2>1. CASE Answer(key, new) # Answer(key, facts)
    BY <1>1, <1>2, <2>1, CacheAssumption DEF CacheRecords, Stalest
  <2>2. CASE Answer(key, new) = Answer(key, facts)
    BY <1>1, <2>2 DEF CInv, Stale
  <2> QED  BY <2>1, <2>2
<1>7. StaleIsExcused'
  BY <1>1 DEF CInv, Stale, StaleIsExcused
<1> QED  BY <1>4, <1>5, <1>6, <1>7 DEF CInv

\* The cached answer is dropped or kept: nothing else of the cache changes.
LEMMA DroppedOrKept ==
    ASSUME CInv, UNCHANGED <<facts, key, since>>,
           pending' \in 0..Writers, excused' \in BOOLEAN,
           cache' = None \/ (cache' = cache /\
              (StaleIsExcused => (Stale' => excused' \/ (pending' > 0 /\ key \in Dropped)))),
           check' = check \/ check' = [c \in Checks |-> NoCheck]
    PROVE  CInv'
<1>1. /\ check' \in [Checks -> CheckRecords] /\ cache' \in CacheRecords
      /\ \A c \in Checks : check'[c] = check[c] \/ check'[c].st = "idle"
  BY Records DEF CInv, CacheTypeOK, CheckRecords, CacheRecords
<1>2. CacheTypeOK'
  BY <1>1 DEF CInv, CacheTypeOK, CheckRecords, CacheRecords
<1>3. CASE cache' = None
  BY <1>1, <1>2, <1>3, Records DEF CInv, Stale, StaleIsExcused
<1>4. CASE cache' # None
  BY <1>1, <1>2, <1>4 DEF CInv, Stale, StaleIsExcused
<1> QED  BY <1>3, <1>4

LEMMA InvalidateKeeps == CInv /\ InvalidateManageScope => CInv'
<1> SUFFICES ASSUME CInv, InvalidateManageScope PROVE CInv'
  OBVIOUS
<1>1. /\ Drop \/ Keep
      /\ pending > 0 /\ pending' = pending - 1 /\ UNCHANGED <<facts, key, check, since>>
  BY DEF InvalidateManageScope
<1>2. pending' \in 0..Writers /\ excused \in BOOLEAN
  BY <1>1, CacheAssumption DEF CInv, CacheTypeOK
<1>3. excused' \in BOOLEAN
  BY <1>1, <1>2 DEF Drop, Keep
<1>4. CASE key \in Dropped /\ Drop
  BY <1>1, <1>2, <1>3, <1>4, DroppedOrKept DEF Drop
<1>5. CASE ~(key \in Dropped /\ Drop)
  <2>1. cache' = cache /\ (excused => excused') /\ (key \in Dropped => excused')
    BY <1>1, <1>2, <1>5 DEF Drop, Keep
  <2>2. StaleIsExcused => (Stale' => excused')
    BY <1>1, <2>1 DEF StaleIsExcused, Stale
  <2> QED  BY <1>1, <1>2, <1>3, <2>1, <2>2, DroppedOrKept
<1> QED  BY <1>4, <1>5

LEMMA CacheReturnsKeeps ==
    ASSUME CInv, NEW kept \in BOOLEAN, CacheReturns(kept)
    PROVE  CInv'
<1>1. UNCHANGED <<facts, key, check, pending, since>>
  BY DEF CacheReturns
<1>2. /\ cache' = None \/ (cache' = cache /\ excused' = excused)
      /\ excused' \in BOOLEAN /\ pending' \in 0..Writers
  BY DEF CacheReturns, CInv, CacheTypeOK
<1> QED  BY <1>1, <1>2, DroppedOrKept DEF Stale, StaleIsExcused

LEMMA CacheRestartsKeeps == CInv /\ CacheRestarts => CInv'
<1> SUFFICES ASSUME CInv, CacheRestarts PROVE CInv'
  OBVIOUS
<1>1. /\ check' = [c \in Checks |-> NoCheck] /\ pending' = 0
      /\ UNCHANGED <<facts, key, cache, since>>
  BY DEF CacheRestarts
<1>2. pending' \in 0..Writers
  BY <1>1, CacheAssumption
<1>3. excused' \in BOOLEAN /\ (excused \/ (pending > 0 /\ key \in Dropped) => excused')
  BY DEF CacheRestarts, CInv, CacheTypeOK
<1>4. StaleIsExcused => (Stale' => excused')
  BY <1>1, <1>3 DEF StaleIsExcused, Stale
<1> QED  BY <1>1, <1>2, <1>3, <1>4, DroppedOrKept

LEMMA CacheAgesKeeps == CInv /\ CacheMayAge /\ CacheAges => CInv'
<1> SUFFICES ASSUME CInv, CacheMayAge, CacheAges PROVE CInv'
  OBVIOUS
<1> DEFINE aged(c) == IF check[c].st = "set" /\ check[c].age < Flight
                      THEN check[c].age + 1 ELSE check[c].age
           older(c) == [check[c] EXCEPT !.age = aged(c)]
<1>1. /\ UNCHANGED <<facts, key, pending>>
      /\ check' = [c \in Checks |-> older(c)]
      /\ since' = IF since < Stalest THEN since + 1 ELSE since
      /\ cache' = IF cache.left > 1 THEN [cache EXCEPT !.left = @ - 1] ELSE None
      /\ excused' = (excused /\ cache.left > 1)
  BY DEF CacheAges
<1>2. /\ check \in [Checks -> CheckRecords] /\ since \in 0..Stalest /\ Stalest \in Nat
      /\ cache \in CacheRecords /\ excused \in BOOLEAN
  BY CacheAssumption DEF CInv, CacheTypeOK, CheckRecords, CacheRecords, Stalest
<1>3. ASSUME NEW c \in Checks
      PROVE  /\ older(c) \in CheckRecords /\ older(c).st = check[c].st
             /\ older(c).answer = check[c].answer /\ older(c).old = check[c].old
             /\ check[c].st = "set" => older(c).age = check[c].age + 1
  <2>1. check[c] \in CheckRecords /\ check[c].age \in 0..Flight
    BY <1>2 DEF CheckRecords
  <2>2. aged(c) \in 0..Flight
    BY <2>1, CacheAssumption
  <2>3. check[c].st = "set" => aged(c) = check[c].age + 1
    BY DEF CacheMayAge
  <2> HIDE DEF aged
  <2> QED  BY <2>1, <2>2, <2>3 DEF CheckRecords
<1> HIDE DEF older
<1>4. since' \in 0..Stalest /\ since' <= since + 1
  BY <1>1, <1>2
<1>5. check' \in [Checks -> CheckRecords]
  BY <1>1, <1>3
<1>6. CASE cache.left > 1
  <2>1. /\ cache' \in CacheRecords /\ cache'.left = cache.left - 1
        /\ cache'.answer = cache.answer
    BY <1>1, <1>2, <1>6, CacheAssumption DEF CacheRecords
  <2>2. Stale' => Stale
    BY <1>1, <1>2, <1>6, <2>1 DEF Stale, CacheRecords
  <2>3. excused' = excused
    BY <1>1, <1>2, <1>6
  <2>4. Stale' => since' + cache'.left <= Stalest
    BY <1>2, <1>4, <2>1, <2>2 DEF CInv, CacheRecords
  <2>5. StaleIsExcused'
    BY <1>1, <2>2, <2>3 DEF CInv, StaleIsExcused
  <2>6. CacheTypeOK'
    BY <1>1, <1>4, <1>5, <2>1, <2>3
       DEF CInv, CacheTypeOK, CheckRecords, CacheRecords
  <2>7. ASSUME NEW c \in Checks, check'[c].st = "set", check'[c].answer # Answer(key', facts')
        PROVE  check'[c].old /\ since' <= check'[c].age
    <3>1. check'[c] = older(c)
      BY <1>1
    <3>2. check[c].st = "set" /\ check[c].answer # Answer(key, facts)
      BY <1>1, <1>3, <2>7, <3>1
    <3>3. check[c].old /\ since <= check[c].age /\ check[c].age \in 0..Flight
      BY <1>2, <3>2 DEF CInv, CheckRecords
    <3> QED  BY <1>2, <1>3, <1>4, <3>1, <3>2, <3>3, CacheAssumption
  <2> QED  BY <2>4, <2>5, <2>6, <2>7 DEF CInv
<1>7. CASE ~(cache.left > 1)
  <2>1. cache' = None /\ ~Stale'
    BY <1>1, <1>7, Records DEF Stale
  <2>2. excused' \in BOOLEAN
    BY <1>1, <1>7
  <2>3. CacheTypeOK'
    BY <1>1, <1>4, <1>5, <2>1, <2>2, Records
       DEF CInv, CacheTypeOK, CheckRecords, CacheRecords
  <2>4. ASSUME NEW c \in Checks, check'[c].st = "set", check'[c].answer # Answer(key', facts')
        PROVE  check'[c].old /\ since' <= check'[c].age
    <3>1. check'[c] = older(c)
      BY <1>1
    <3>2. check[c].st = "set" /\ check[c].answer # Answer(key, facts)
      BY <1>1, <1>3, <2>4, <3>1
    <3>3. check[c].old /\ since <= check[c].age /\ check[c].age \in 0..Flight
      BY <1>2, <3>2 DEF CInv, CheckRecords
    <3> QED  BY <1>2, <1>3, <1>4, <3>1, <3>2, <3>3, CacheAssumption
  <2> QED  BY <2>1, <2>3, <2>4 DEF CInv, StaleIsExcused
<1> QED  BY <1>6, <1>7

LEMMA CacheStepKeeps ==
    ASSUME BInv, CInv, CacheStep
    PROVE  BInv' /\ CInv'
<1>1. loaded \in BOOLEAN /\ pending \in 0..Writers /\ excused \in BOOLEAN /\ key \in Keys
      /\ facts \in SUBSET Facts
  BY DEF BInv, BreakerTypeOK, CInv, CacheTypeOK
<1>2. ASSUME NEW c \in Checks, Ask(c) \/ Query(c) \/ QueryThrows(c) PROVE BInv' /\ CInv'
  <2>1. BInv'
    BY <1>2, BreakerUnchanged DEF Ask, Query, QueryThrows
  <2>2. Query(c) \/ Quiet(c)
    BY <1>2 DEF Ask, QueryThrows, Quiet, CheckStates
  <2> QED  BY <2>1, <2>2, QuietKeeps, QueryKeeps
<1>3. ASSUME NEW c \in Checks, GetCached(c) PROVE BInv' /\ CInv'
  <2>1. BInv'
    BY <1>1, <1>3, SucceedsKeeps, FailsKeeps DEF GetCached
  <2>2. Quiet(c)
    BY <1>3 DEF GetCached, Quiet, CheckStates
  <2> QED  BY <2>1, <2>2, QuietKeeps
<1>4. ASSUME NEW c \in Checks, SetCached(c) PROVE BInv' /\ CInv'
  BY <1>1, <1>4, SucceedsKeeps, FailsKeeps, SetCachedKeeps DEF SetCached
<1>5. ASSUME NEW f \in Facts, ChangeAdminRole(f) PROVE BInv' /\ CInv'
  <2> DEFINE new == IF f \in facts THEN facts \ {f} ELSE facts \cup {f}
  <2>1. new \in SUBSET Facts /\ Changes(new) /\ UNCHANGED <<key, cache>>
    BY <1>1, <1>5 DEF ChangeAdminRole
  <2>2. pending' \in 0..Writers /\ pending' > 0
    BY <1>1, <1>5, CacheAssumption DEF ChangeAdminRole
  <2>3. /\ excused' \in BOOLEAN /\ (excused => excused')
        /\ excused' \/ key \in Dropped
    BY <1>1, <1>5 DEF ChangeAdminRole, Keys, Dropped
  <2>4. BInv'
    BY <1>5, BreakerUnchanged DEF ChangeAdminRole
  <2> HIDE DEF new
  <2> QED  BY <2>1, <2>2, <2>3, <2>4, ChangesKeeps
<1>6. ASSUME NEW new \in SUBSET Facts, ChangeOther(new) PROVE BInv' /\ CInv'
  <2>1. /\ Changes(new) /\ UNCHANGED <<key, cache, pending>>
        /\ excused' = (excused \/ Answer(key, new) # Answer(key, facts))
    BY <1>6 DEF ChangeOther
  <2>2. excused' \in BOOLEAN
    BY <1>1, <2>1
  <2>3. BInv'
    BY <1>6, BreakerUnchanged DEF ChangeOther
  <2> QED  BY <1>1, <2>1, <2>2, <2>3, ChangesKeeps
<1>7. ASSUME InvalidateManageScope PROVE BInv' /\ CInv'
  BY <1>1, <1>7, SucceedsKeeps, FailsKeeps, BreakerUnchanged, InvalidateKeeps
     DEF InvalidateManageScope
<1> QED  BY <1>2, <1>3, <1>4, <1>5, <1>6, <1>7 DEF CacheStep

LEMMA CacheUnchanged == CInv /\ UNCHANGED cacheVars => CInv'
BY DEF CInv, CacheTypeOK, Stale, StaleIsExcused, cacheVars

-------------------------------------------------------------------------------
(* The guards together *)

LEMMA InitInv == Init => IInv
<1> SUFFICES ASSUME Init PROVE IInv
  OBVIOUS
<1>1. BInv
  <2>1. redisUp = TRUE /\ loaded = FALSE /\ fails = 0 /\ openLeft = 0 /\ upFor = 0
    BY DEF Init, BreakerInit
  <2>2. BreakerTypeOK
    <3>1. redisUp \in BOOLEAN /\ loaded \in BOOLEAN
      BY <2>1
    <3>2. fails \in 0..Threshold /\ openLeft \in 0..Cooldown /\ upFor \in 0..LongUp
      BY <2>1, BreakerAssumption
    <3> QED  BY <3>1, <3>2 DEF BreakerTypeOK
  <2>3. ~Rejected
    BY <2>1 DEF Rejected
  <2> QED  BY <2>1, <2>2, <2>3 DEF BInv, OpenMeansFailing
<1>2. LimitTypeOK
  BY LimitAssumption DEF Init, LimitInit, LimitTypeOK, RequestStates
<1>3. CacheTypeOK
  <2>1. cache \in CacheRecords /\ check \in [Checks -> CheckRecords]
    BY Records DEF Init, CacheInit
  <2>2. pending \in 0..Writers /\ since \in 0..Stalest
    BY CacheAssumption DEF Init, CacheInit, Stalest
  <2> QED  BY <2>1, <2>2 DEF Init, CacheInit, CacheTypeOK, CacheRecords, CheckRecords
<1>4. ~Stale /\ \A c \in Checks : check[c].st = "idle"
  BY Records DEF Init, CacheInit, Stale
<1>5. CInv
  BY <1>3, <1>4 DEF CInv, StaleIsExcused
<1> QED  BY <1>1, <1>2, <1>5 DEF IInv, Init

LEMMA InvStep == IInv /\ [Next]_guardVars => IInv'
<1> SUFFICES ASSUME IInv, [Next]_guardVars PROVE IInv'
  OBVIOUS
<1>1. BInv /\ LimitTypeOK /\ CInv
  BY DEF IInv
<1>2. guard' \in {"limiter", "cache"}
  BY DEF IInv, Next, Limits, Caches, Others, Stop, Restart, Tick, Return, guardVars
<1>3. CASE Limits
  BY <1>1, <1>2, <1>3, LimitStepKeeps, CacheUnchanged DEF Limits, IInv
<1>4. CASE Caches
  BY <1>1, <1>2, <1>4, CacheStepKeeps, LimitUnchanged DEF Caches, IInv
<1>5. CASE Others
  BY <1>1, <1>2, <1>5, OtherKeeps, LimitUnchanged, CacheUnchanged DEF Others, IInv
<1>6. CASE Stop
  BY <1>1, <1>2, <1>6, RedisKeeps, LimitUnchanged, CacheUnchanged DEF Stop, IInv
<1>7. CASE \E kept \in BOOLEAN : Return(kept)
  BY <1>1, <1>2, <1>7, RedisKeeps, LimiterAround, CacheReturnsKeeps DEF Return, IInv
<1>8. CASE Restart
  BY <1>1, <1>2, <1>8, RedisKeeps, LimiterAround, CacheRestartsKeeps DEF Restart, IInv
<1>9. CASE Tick
  BY <1>1, <1>2, <1>9, AgesKeeps, LimiterAround, CacheAgesKeeps DEF Tick, IInv
<1>10. CASE UNCHANGED guardVars
  BY <1>1, <1>2, <1>10, BreakerUnchanged, LimitUnchanged, CacheUnchanged DEF guardVars, IInv
<1> QED  BY <1>3, <1>4, <1>5, <1>6, <1>7, <1>8, <1>9, <1>10 DEF Next

-------------------------------------------------------------------------------
(* How much a limiter lets through                                         *)
(*                                                                         *)
(* What has passed splits into R, let through by the counter in Redis, M,  *)
(* by the list in memory, and what no counter holds. A key that is a ticks old is the only one in  *)
(* the last a ticks, and the one before it began more than a window ago;   *)
(* each lets a share through at most, counting the requests it has let in  *)
(* that may still fail.                                                    *)

\* Requests let in by one of the two that may still be counted.
AtRedis == IF limiter = "rateLimit" THEN 0
           ELSE Cardinality({r \in Requests : req[r] \in {"handler", "evalsha", "eval"}})
AtMemory == IF limiter = "rateLimit" THEN 0
            ELSE Cardinality({r \in Requests : req[r] = "handlerMemory"})

\* f may still be counted, the key has c and l ticks left, and a share is d.
RedisPart(R, f, c, l, d) ==
    /\ l > 0 => f < d
    /\ \A a \in Ages :
          /\ l = 0 => R[a] < d
          /\ l > 0 /\ a < Window - l => R[a] + 1 + f <= d /\ (c <= Max => R[a] + 1 <= c)
          /\ l > 0 /\ a >= Window - l => R[a] + f < d + d /\ (c <= Max => R[a] < c + d)

\* The same of the list h.
MemoryPart(M, f, h, d) ==
    \A a \in Ages : M[a] + f <= d /\ (h[a] < Max => M[a] <= h[a])

Covers(R, M, p, F) == \A a \in Ages : p[a] <= R[a] + M[a] + F[a]

Grows(f) == \A a, b \in Ages : a <= b => f[a] <= f[b]

\* A key that began while Redis was sound has counted nothing but what passed.
CountIsSeen ==
    left > 0 /\ upFor > Window - left =>
       count <= passed[Window - left] \/ Max <= passed[Window - left]

\* What the awaits of a request say of the limiter and of the counter.
AwaitsFit ==
    \A r \in Requests :
       /\ limiter = "rateLimit" => req[r] \in {"idle", "evalsha", "eval"}
       /\ req[r] = "pttl" => count >= Max \/ upFor = 0

Split(R, M) ==
    /\ Covers(R, M, passed, forgotten)
    /\ RedisPart(R, AtRedis, count, left, Share)
    /\ MemoryPart(M, AtMemory, hits, Share)

\* What has passed splits so.
Parts == \E R, M \in [Ages -> Nat] : Split(R, M)

LInv ==
    /\ Grows(hits) /\ Grows(passed)
    /\ CountIsSeen /\ AwaitsFit
    /\ Parts

LEMMA Sizes ==
    ASSUME LimitTypeOK
    PROVE  /\ Cardinality(Requests) \in Nat \ {0} /\ Share \in Nat \ {0} /\ Max \in Nat \ {0}
           /\ Max <= Share
           /\ limiter = "rateLimit" => Share = Max /\ AtRedis = 0 /\ AtMemory = 0
           /\ limiter # "rateLimit" =>
                 /\ Share = Max + Cardinality(Requests) - 1
                 /\ AtRedis <= Cardinality(Requests) /\ AtMemory <= Cardinality(Requests)
           /\ AtRedis \in Nat /\ AtMemory \in Nat /\ AtRedis <= Share /\ AtMemory <= Share
<1>1. Cardinality(Requests) \in Nat \ {0}
  BY GuardsAssumption, FS_CardinalityType, FS_EmptySet
<1>2. \A S \in SUBSET Requests : Cardinality(S) \in Nat /\ Cardinality(S) <= Cardinality(Requests)
  BY GuardsAssumption, FS_CardinalityType, FS_Subset
<1>3. /\ {r \in Requests : req[r] \in {"handler", "evalsha", "eval"}} \in SUBSET Requests
      /\ {r \in Requests : req[r] = "handlerMemory"} \in SUBSET Requests
  OBVIOUS
<1> QED  BY <1>1, <1>2, <1>3, LimitAssumption DEF Share, AtRedis, AtMemory, LimitTypeOK

LEMMA SizesNext ==
    ASSUME LimitTypeOK, LimitTypeOK', limiter' = limiter
    PROVE  /\ Share' = Share /\ AtRedis' \in Nat /\ AtMemory' \in Nat
           /\ limiter = "rateLimit" => AtRedis' = 0 /\ AtMemory' = 0
           /\ limiter # "rateLimit" =>
                 AtRedis' <= Cardinality(Requests) /\ AtMemory' <= Cardinality(Requests)
<1>1. \A S \in SUBSET Requests : Cardinality(S) \in Nat /\ Cardinality(S) <= Cardinality(Requests)
  BY GuardsAssumption, FS_CardinalityType, FS_Subset
<1>2. /\ {r \in Requests : req'[r] \in {"handler", "evalsha", "eval"}} \in SUBSET Requests
      /\ {r \in Requests : req'[r] = "handlerMemory"} \in SUBSET Requests
  OBVIOUS
<1> QED  BY <1>1, <1>2 DEF Share, AtRedis, AtMemory

\* A request that moves on, from an await in S or into one.
LEMMA Moves ==
    ASSUME LimitTypeOK, NEW S, NEW r \in Requests, NEW st \in RequestStates, Goes(r, st),
           NEW n, n = Cardinality({q \in Requests : req[q] \in S}),
           NEW m, m = Cardinality({q \in Requests : req'[q] \in S})
    PROVE  /\ n \in Nat /\ m \in Nat
           /\ st \notin S \/ req[r] \in S => m <= n
           /\ st \notin S /\ req[r] \in S => m + 1 <= n
<1> DEFINE A == {q \in Requests : req[q] \in S}
           B == {q \in Requests : req'[q] \in S}
<1>1. IsFiniteSet(A) /\ n \in Nat
  BY GuardsAssumption, FS_Subset, FS_CardinalityType
<1>2. \A q \in Requests : req'[q] = IF q = r THEN st ELSE req[q]
  BY DEF LimitTypeOK, Goes
<1>3. CASE st \in S
  <2>1. B = A \cup {r}
    BY <1>2, <1>3
  <2>2. req[r] \in S => B = A
    BY <2>1
  <2>3. m \in Nat
    BY <1>1, <2>1, FS_AddElement, FS_CardinalityType
  <2> QED  BY <1>1, <1>3, <2>2, <2>3
<1>4. CASE st \notin S
  <2>1. B = A \ {r}
    BY <1>2, <1>4
  <2>2. req[r] \in S <=> r \in A
    OBVIOUS
  <2> HIDE DEF A, B
  <2>3. IsFiniteSet(B) /\ Cardinality(B) = IF r \in A THEN Cardinality(A) - 1 ELSE Cardinality(A)
    BY <1>1, <2>1, FS_RemoveElement
  <2>4. n = Cardinality(A) /\ m = Cardinality(B)
    BY DEF A, B
  <2>5. m \in Nat
    BY <2>3, <2>4, FS_CardinalityType
  <2> QED  BY <1>1, <1>4, <2>2, <2>3, <2>4, <2>5
<1> QED  BY <1>3, <1>4

LEMMA RequestMoves ==
    ASSUME LimitTypeOK, LimitTypeOK', limiter' = limiter, NEW r \in Requests,
           NEW st \in RequestStates, Goes(r, st)
    PROVE  LET redis == {"handler", "evalsha", "eval"}
           IN /\ st \notin redis \/ req[r] \in redis => AtRedis' <= AtRedis
              /\ st \notin redis /\ req[r] \in redis /\ limiter # "rateLimit" => AtRedis' + 1 <= AtRedis
              /\ st # "handlerMemory" \/ req[r] = "handlerMemory" => AtMemory' <= AtMemory
              /\ st # "handlerMemory" /\ req[r] = "handlerMemory" /\ limiter # "rateLimit" =>
                    AtMemory' + 1 <= AtMemory
<1>1. CASE limiter = "rateLimit"
  BY <1>1 DEF AtRedis, AtMemory
<1>2. CASE limiter # "rateLimit"
  <2>1. /\ AtRedis = Cardinality({q \in Requests : req[q] \in {"handler", "evalsha", "eval"}})
        /\ AtRedis' = Cardinality({q \in Requests : req'[q] \in {"handler", "evalsha", "eval"}})
    BY <1>2 DEF AtRedis
  <2>2. /\ AtMemory = Cardinality({q \in Requests : req[q] \in {"handlerMemory"}})
        /\ AtMemory' = Cardinality({q \in Requests : req'[q] \in {"handlerMemory"}})
    <3>1. \A f : {q \in Requests : f[q] \in {"handlerMemory"}} = {q \in Requests : f[q] = "handlerMemory"}
      OBVIOUS
    <3> QED  BY <1>2, <3>1 DEF AtMemory
  <2>3. st # "handlerMemory" <=> st \notin {"handlerMemory"}
    OBVIOUS
  <2>4. req[r] = "handlerMemory" <=> req[r] \in {"handlerMemory"}
    OBVIOUS
  <2> HIDE DEF AtRedis, AtMemory
  <2>5. LET redis == {"handler", "evalsha", "eval"}
        IN /\ st \notin redis \/ req[r] \in redis => AtRedis' <= AtRedis
           /\ st \notin redis /\ req[r] \in redis => AtRedis' + 1 <= AtRedis
    BY <2>1, Moves
  <2>6. /\ st # "handlerMemory" \/ req[r] = "handlerMemory" => AtMemory' <= AtMemory
        /\ st # "handlerMemory" /\ req[r] = "handlerMemory" => AtMemory' + 1 <= AtMemory
    BY <2>2, <2>3, <2>4, Moves
  <2> QED  BY <2>5, <2>6
<1> QED  BY <1>1, <1>2

\* What the two parts become, whatever their numbers.
Plus(R) == [a \in Ages |-> R[a] + 1]

LEMMA RedisLess ==
    ASSUME NEW R \in [Ages -> Nat], NEW f \in Nat, NEW g \in Nat, NEW c \in Nat,
           NEW l \in 0..Window, NEW d \in Nat,
           RedisPart(R, f, c, l, d), g <= f
    PROVE  RedisPart(R, g, c, l, d)
BY LimitAssumption DEF RedisPart, Ages

LEMMA RedisAdmits ==
    ASSUME NEW R \in [Ages -> Nat], NEW f \in Nat, NEW g \in Nat, NEW c \in Nat,
           NEW l \in 0..Window, NEW k \in Nat \ {0},
           RedisPart(R, f, c, l, Max + k - 1), g <= k, c < Max, l = 0 <=> c = 0
    PROVE  RedisPart(R, g, c, l, Max + k - 1)
BY LimitAssumption DEF RedisPart, Ages

LEMMA RedisIncrements ==
    ASSUME NEW R \in [Ages -> Nat], NEW f \in Nat, NEW g \in Nat, NEW d \in Nat \ {0},
           Counter, Counter', Increment, Max <= d,
           RedisPart(R, f, count, left, d),
           (f = 0 /\ g = 0 /\ d = Max) \/ (g + 1 <= f /\ f <= d)
    PROVE  /\ RedisPart(R, g, count', left', d)
           /\ f > 0 \/ count < Max => RedisPart(Plus(R), g, count', left', d)
<1> USE LimitAssumption DEF Counter, Increment, Ages
<1>1. CASE count = 0
  <2>1. left = 0 /\ left' = Window /\ count' = 1
    BY <1>1
  <2>2. \A a \in Ages : R[a] < d
    BY <2>1 DEF RedisPart
  <2>3. g < d
    OBVIOUS
  <2>4. RedisPart(R, g, count', left', d)
    BY <2>1, <2>2, <2>3 DEF RedisPart
  <2>5. \A a \in Ages : Plus(R)[a] = R[a] + 1
    BY DEF Plus
  <2>6. RedisPart(Plus(R), g, count', left', d)
    BY <2>1, <2>2, <2>3, <2>5 DEF RedisPart
  <2> QED  BY <2>4, <2>6
<1>2. CASE count # 0
  <2>1. left > 0 /\ left' = left /\ count <= count' /\ (count' <= Max => count' = count + 1)
    BY <1>2
  <2>2. RedisPart(R, g, count', left', d)
    <3>1. left > 0 /\ left' = left /\ g < d /\ g <= f /\ count \in Nat /\ count' \in Nat
      BY <2>1
    <3>2. ASSUME NEW a \in Ages, a < Window - left
          PROVE  R[a] + 1 + g <= d /\ (count' <= Max => R[a] + 1 <= count')
      <4>1. R[a] \in Nat /\ R[a] + 1 + f <= d /\ (count <= Max => R[a] + 1 <= count)
        BY <3>1, <3>2 DEF RedisPart
      <4> QED  BY ONLY <2>1, <3>1, <4>1, f \in Nat, g \in Nat, d \in Nat, LimitAssumption
    <3>3. ASSUME NEW a \in Ages, a >= Window - left
          PROVE  R[a] + g < d + d /\ (count' <= Max => R[a] < count' + d)
      <4>1. R[a] \in Nat /\ R[a] + f < d + d /\ (count <= Max => R[a] < count + d)
        BY <3>1, <3>3 DEF RedisPart
      <4> QED  BY ONLY <2>1, <3>1, <4>1, f \in Nat, g \in Nat, d \in Nat, LimitAssumption
    <3> QED  BY <3>1, <3>2, <3>3 DEF RedisPart
  <2>3. \A a \in Ages : Plus(R)[a] = R[a] + 1
    BY DEF Plus
  <2>4. ASSUME f > 0 \/ count < Max PROVE RedisPart(Plus(R), g, count', left', d)
    <3>1. g < d
      OBVIOUS
    <3>2. ASSUME NEW a \in Ages, a < Window - left
          PROVE  R[a] + 1 + 1 + g <= d /\ (count' <= Max => R[a] + 1 + 1 <= count')
      <4>1. R[a] \in Nat /\ R[a] + 1 + f <= d /\ (count <= Max => R[a] + 1 <= count)
        BY <2>1, <3>2 DEF RedisPart
      <4>2. CASE g + 1 <= f
        BY <2>1, <4>1, <4>2
      <4>3. CASE f = 0 /\ g = 0 /\ d = Max
        BY <2>1, <2>4, <4>1, <4>3
      <4> QED  BY <4>2, <4>3
    <3>3. ASSUME NEW a \in Ages, a >= Window - left
          PROVE  R[a] + 1 + g < d + d /\ (count' <= Max => R[a] + 1 < count' + d)
      BY <2>1, <2>4, <3>3 DEF RedisPart
    <3> QED  BY <2>1, <2>3, <3>1, <3>2, <3>3 DEF RedisPart
  <2> QED  BY <2>2, <2>4
<1> QED  BY <1>1, <1>2

LEMMA RedisAges ==
    ASSUME NEW R \in [Ages -> Nat], NEW f \in Nat, NEW d \in Nat \ {0},
           LimitTypeOK, LimitTypeOK', LimiterAges, RedisPart(R, f, count, left, d)
    PROVE  RedisPart(Older(R), f, count', left', d)
<1> USE LimitAssumption DEF Ages
<1>1. /\ count \in Nat /\ left \in 0..Window
      /\ left' = IF left > 0 THEN left - 1 ELSE 0
      /\ left' > 0 => count' = count
      /\ \A a \in Ages : a > 0 => a - 1 \in Ages
  BY DEF LimitTypeOK, LimiterAges
<1>2. \A a \in Ages : Older(R)[a] = IF a = 0 THEN 0 ELSE R[a - 1]
  BY DEF Older
<1>3. left' > 0 => f < d
  BY <1>1 DEF RedisPart
<1>4. ASSUME NEW a \in Ages
      PROVE  /\ left' = 0 => Older(R)[a] < d
             /\ left' > 0 /\ a < Window - left' =>
                   Older(R)[a] + 1 + f <= d /\ (count' <= Max => Older(R)[a] + 1 <= count')
             /\ left' > 0 /\ a >= Window - left' =>
                   Older(R)[a] + f < d + d /\ (count' <= Max => Older(R)[a] < count' + d)
  <2>1. CASE a = 0
    <3>1. left' > 0 => count' \in Nat \ {0} /\ a < Window - left'
      BY <1>1, <2>1 DEF LimitTypeOK
    <3> QED  BY <1>2, <1>3, <2>1, <3>1
  <2>2. CASE a > 0
    <3>1. a - 1 \in Ages /\ Older(R)[a] = R[a - 1] /\ R[a - 1] \in Nat
      BY <1>1, <1>2, <1>4, <2>2
    <3>2. left' > 0 => (a < Window - left' <=> a - 1 < Window - left) /\ left > 0
      BY <1>1
    <3>3. left' = 0 => left = 0 \/ (left = 1 /\ a - 1 < Window - left)
      BY <1>1, <3>1
    <3> QED  BY <1>1, <3>1, <3>2, <3>3 DEF RedisPart
  <2> QED  BY <2>1, <2>2
<1> QED  BY <1>3, <1>4 DEF RedisPart

LEMMA MemoryLess ==
    ASSUME NEW M \in [Ages -> Nat], NEW f \in Nat, NEW g \in Nat, NEW h, NEW d \in Nat,
           MemoryPart(M, f, h, d), g <= f
    PROVE  MemoryPart(M, g, h, d)
BY DEF MemoryPart

LEMMA GrowsTo ==
    ASSUME NEW n \in Nat, NEW f \in [Ages -> 0..n], Grows(f)
    PROVE  /\ f[Window - 1] \in 0..n
           /\ \A a \in Ages : f[a] \in 0..n /\ f[a] <= f[Window - 1]
<1>1. Window - 1 \in Ages /\ \A a \in Ages : a <= Window - 1
  BY LimitAssumption DEF Ages
<1> QED  BY <1>1 DEF Grows

LEMMA BelowLimit ==
    ASSUME hits \in [Ages -> 0..Max], Grows(hits), Recent < Max
    PROVE  \A a \in Ages : hits[a] < Max
<1>1. /\ hits[Window - 1] \in 0..Max
      /\ \A a \in Ages : hits[a] \in 0..Max /\ hits[a] <= hits[Window - 1]
  BY GrowsTo, LimitAssumption
<1> QED  BY <1>1, LimitAssumption DEF Recent

LEMMA MemoryAdmits ==
    ASSUME NEW M \in [Ages -> Nat], NEW f \in Nat, NEW g \in Nat, NEW k \in Nat \ {0},
           hits \in [Ages -> 0..Max], Grows(hits), Recent < Max,
           MemoryPart(M, f, hits, Max + k - 1), g <= k
    PROVE  MemoryPart(M, g, hits, Max + k - 1)
<1>1. \A a \in Ages : hits[a] < Max
  BY BelowLimit
<1> QED  BY <1>1, LimitAssumption DEF MemoryPart

LEMMA MemoryHits ==
    ASSUME NEW M \in [Ages -> Nat], NEW f \in Nat, NEW g \in Nat, NEW d \in Nat,
           hits \in [Ages -> 0..Max], Grows(hits), Hit, MemoryPart(M, f, hits, d)
    PROVE  /\ g <= f => MemoryPart(M, g, hits', d)
           /\ g + 1 <= f \/ (g = 0 /\ f = 0 /\ d = Max /\ Recent < Max) =>
                 MemoryPart(Plus(M), g, hits', d)
<1>1. \A a \in Ages : /\ hits[a] \in 0..Max /\ hits'[a] \in 0..Max
                      /\ hits[a] <= hits'[a] /\ (hits[a] < Max => hits'[a] = hits[a] + 1)
  BY OneMoreIs, LimitAssumption DEF Hit
<1>2. \A a \in Ages : Plus(M)[a] = M[a] + 1
  BY DEF Plus
<1>3. Recent < Max => \A a \in Ages : hits[a] < Max
  BY BelowLimit
<1>4. g <= f => MemoryPart(M, g, hits', d)
  BY <1>1, LimitAssumption DEF MemoryPart
<1>5. g + 1 <= f => MemoryPart(Plus(M), g, hits', d)
  BY <1>1, <1>2, LimitAssumption DEF MemoryPart
<1>6. g = 0 /\ f = 0 /\ d = Max /\ Recent < Max => MemoryPart(Plus(M), g, hits', d)
  BY <1>1, <1>2, <1>3, LimitAssumption DEF MemoryPart
<1> QED  BY <1>4, <1>5, <1>6

LEMMA OlderIs ==
    ASSUME NEW n \in Nat, NEW f \in [Ages -> 0..n]
    PROVE  /\ Grows(f) => Grows(Older(f))
           /\ \A a \in Ages : Older(f)[a] = IF a = 0 THEN 0 ELSE f[a - 1]
<1>1. \A a \in Ages : Older(f)[a] = IF a = 0 THEN 0 ELSE f[a - 1]
  BY DEF Older
<1>2. \A a \in Ages : a > 0 => a - 1 \in Ages
  BY LimitAssumption DEF Ages
<1>3. \A a \in Ages : a \in Nat /\ Older(f)[a] \in 0..n
  BY <1>1, <1>2, LimitAssumption DEF Ages
<1>4. ASSUME Grows(f), NEW a \in Ages, NEW b \in Ages, a <= b PROVE Older(f)[a] <= Older(f)[b]
  <2>1. CASE a = 0
    BY <1>1, <1>3, <2>1
  <2>2. CASE a > 0
    <3>1. b > 0 /\ a - 1 \in Ages /\ b - 1 \in Ages /\ a - 1 <= b - 1
      BY <1>2, <1>3, <1>4, <2>2
    <3> QED  BY <1>1, <1>4, <2>2, <3>1 DEF Grows
  <2> QED  BY <1>3, <2>1, <2>2
<1> QED  BY <1>1, <1>4 DEF Grows

LEMMA OneMoreGrows ==
    ASSUME NEW n \in Nat, NEW f \in [Ages -> 0..n], Grows(f)
    PROVE  Grows(OneMore(f, n))
BY DEF OneMore, Grows

LEMMA MemoryAges ==
    ASSUME NEW M \in [Ages -> Nat], NEW f \in Nat, NEW d \in Nat, LimitTypeOK, LimiterAges,
           f <= d, MemoryPart(M, f, hits, d)
    PROVE  MemoryPart(Older(M), f, hits', d)
<1>1. \A a \in Ages : a > 0 => a - 1 \in Ages
  BY LimitAssumption DEF Ages
<1>2. \A a \in Ages : /\ Older(M)[a] = IF a = 0 THEN 0 ELSE M[a - 1]
                      /\ hits'[a] = IF a = 0 THEN 0 ELSE hits[a - 1]
  BY DEF Older, LimiterAges
<1>3. ASSUME NEW a \in Ages
      PROVE  Older(M)[a] + f <= d /\ (hits'[a] < Max => Older(M)[a] <= hits'[a])
  <2>1. CASE a = 0
    BY <1>2, <2>1
  <2>2. CASE a > 0
    BY <1>1, <1>2, <1>3, <2>2 DEF MemoryPart
  <2> QED  BY <2>1, <2>2 DEF Ages
<1> QED  BY <1>3 DEF MemoryPart

\* What a step of a request does to the counter, to the list and to what has passed.
LEMMA LimitStepDoes ==
    ASSUME BInv, LimitStep
    PROVE  /\ limiter' = limiter /\ upFor' = upFor
           /\ hits' = hits \/ Hit
           /\ passed' = passed \/ passed' = OneMore(passed, Most)
           /\ \/ Untouched
              \/ Increment /\ \/ upFor = 0
                              \/ count >= Max
                              \/ passed' = OneMore(passed, Most)
<1>1. PICK r \in Requests : Arrive(r) \/ Command(r) \/ \E b \in BOOLEAN : Handled(r, b)
  BY DEF LimitStep
<1>2. /\ MemoryCheck(r) \/ Threw(r) \/ Decided(r) => hits' = hits \/ Hit
      /\ MemoryCheck(r) \/ Threw(r) \/ Decided(r) =>
            passed' = passed \/ passed' = OneMore(passed, Most)
      /\ Decided(r) => count >= Max \/ passed' = OneMore(passed, Most)
  <2>1. Ends(r) => passed' = passed
    BY DEF Ends
  <2>2. Counts(r) => passed' = OneMore(passed, Most)
    BY DEF Counts
  <2> QED  BY <2>1, <2>2 DEF MemoryCheck, Threw, Decided
<1>3. /\ Succeeds \/ CountsFailure \/ UNCHANGED breakerVars => upFor' = upFor
      /\ Fails => CountsFailure /\ upFor = 0
  BY DEF Succeeds, CountsFailure, breakerVars, Fails, BInv
<1>4. CASE Arrive(r)
  BY <1>2, <1>3, <1>4 DEF Arrive, Untouched
<1>5. CASE EvalSha(r)
  BY <1>2, <1>3, <1>5 DEF EvalSha, ThrewUncounted
<1>6. CASE NoScript(r)
  BY <1>2, <1>3, <1>6 DEF NoScript, ThrewUncounted, Untouched
<1>7. CASE Eval(r)
  BY <1>2, <1>3, <1>7 DEF Eval, ThrewUncounted
<1>8. CASE Get(r) \/ Pttl(r)
  BY <1>2, <1>3, <1>8 DEF Get, Pttl, Untouched, Ends
<1>9. CASE \E b \in BOOLEAN : Handled(r, b)
  BY <1>2, <1>3, <1>9 DEF Handled, ThrewUncounted, Untouched, Ends, Counts
<1> QED  BY <1>1, <1>4, <1>5, <1>6, <1>7, <1>8, <1>9 DEF Command

\* A request that the list decides on.
LEMMA MemoryTakes ==
    ASSUME LimitTypeOK, LimitTypeOK', limiter' = limiter, Grows(hits),
           NEW r \in Requests, req[r] # "handlerMemory", MemoryCheck(r), forgotten' = forgotten,
           NEW R \in [Ages -> Nat], NEW M \in [Ages -> Nat], Covers(R, M, passed, forgotten),
           MemoryPart(M, AtMemory, hits, Share)
    PROVE  /\ \E M2 \in [Ages -> Nat] : /\ Covers(R, M2, passed', forgotten')
                                        /\ MemoryPart(M2, AtMemory', hits', Share)
           /\ AtRedis' <= AtRedis
           /\ req[r] \in {"handler", "evalsha", "eval"} /\ limiter # "rateLimit" =>
                 AtRedis' + 1 <= AtRedis
<1>1. /\ Share' = Share /\ Share \in Nat /\ Max <= Share
      /\ AtRedis \in Nat /\ AtRedis' \in Nat /\ AtMemory \in Nat /\ AtMemory' \in Nat
      /\ limiter = "rateLimit" => Share = Max /\ AtMemory = 0 /\ AtMemory' = 0
      /\ limiter # "rateLimit" =>
            /\ Share = Max + Cardinality(Requests) - 1 /\ Cardinality(Requests) \in Nat \ {0}
            /\ AtMemory' <= Cardinality(Requests)
  BY Sizes, SizesNext
<1>2. /\ hits \in [Ages -> 0..Max] /\ passed \in [Ages -> 0..Most]
      /\ forgotten \in [Ages -> 0..Most]
      /\ "idle" \in RequestStates /\ "handlerMemory" \in RequestStates
  BY DEF LimitTypeOK, RequestStates
<1> DEFINE Result == /\ \E M2 \in [Ages -> Nat] : /\ Covers(R, M2, passed', forgotten')
                                                  /\ MemoryPart(M2, AtMemory', hits', Share)
                     /\ AtRedis' <= AtRedis
                     /\ req[r] \in {"handler", "evalsha", "eval"} /\ limiter # "rateLimit" =>
                           AtRedis' + 1 <= AtRedis
<1>3. ASSUME Goes(r, "idle") \/ Goes(r, "handlerMemory")
      PROVE  /\ AtRedis' <= AtRedis
             /\ req[r] \in {"handler", "evalsha", "eval"} /\ limiter # "rateLimit" =>
                   AtRedis' + 1 <= AtRedis
             /\ Goes(r, "idle") => AtMemory' <= AtMemory
  BY <1>2, <1>3, RequestMoves
<1>4. ASSUME Ends(r), hits' = hits PROVE Result
  <2>1. Covers(R, M, passed', forgotten') /\ MemoryPart(M, AtMemory', hits', Share)
    BY <1>1, <1>3, <1>4, MemoryLess DEF Ends
  <2> QED  BY <1>3, <1>4, <2>1 DEF Ends
<1>6. ASSUME Recent < Max, limiter = "rateLimit", Counts(r), Hit PROVE Result
  <2>1. MemoryPart(Plus(M), AtMemory', hits', Share)
    BY <1>1, <1>2, <1>6, MemoryHits
  <2>2. Plus(M) \in [Ages -> Nat] /\ \A a \in Ages : Plus(M)[a] = M[a] + 1
    BY DEF Plus
  <2>3. \A a \in Ages : /\ passed'[a] \in Nat /\ passed[a] \in Nat /\ forgotten[a] \in Nat
                        /\ passed'[a] <= passed[a] + 1
    BY <1>2, <1>6, OneMoreIs, LimitAssumption DEF Counts
  <2>4. Covers(R, Plus(M), passed', forgotten')
    BY <2>2, <2>3 DEF Covers
  <2> QED  BY <1>3, <1>6, <2>1, <2>2, <2>4 DEF Counts
<1>7. ASSUME Recent < Max, limiter # "rateLimit", Goes(r, "handlerMemory"),
             UNCHANGED <<hits, passed>>
      PROVE  Result
  <2>1. Covers(R, M, passed', forgotten') /\ MemoryPart(M, AtMemory', hits', Share)
    BY <1>1, <1>2, <1>7, MemoryAdmits
  <2> QED  BY <1>3, <1>7, <2>1
<1>8. MemoryCheck(r) => Result
  BY <1>4, <1>6, <1>7 DEF MemoryCheck
<1> QED  BY <1>8

\* A request that the script has counted: its answer decides.
LEMMA RedisDecides ==
    ASSUME LimitTypeOK, LimitTypeOK', limiter' = limiter,
           NEW r \in Requests, req[r] \in {"evalsha", "eval"}, Increment, Decided(r), forgotten' = forgotten,
           NEW R \in [Ages -> Nat], NEW M \in [Ages -> Nat], Covers(R, M, passed, forgotten),
           RedisPart(R, AtRedis, count, left, Share)
    PROVE  /\ \E R2 \in [Ages -> Nat] : /\ Covers(R2, M, passed', forgotten')
                                        /\ RedisPart(R2, AtRedis', count', left', Share)
           /\ AtMemory' <= AtMemory
<1>1. /\ Share \in Nat \ {0} /\ Max <= Share
      /\ AtRedis \in Nat /\ AtRedis' \in Nat
      /\ limiter = "rateLimit" => Share = Max /\ AtRedis = 0 /\ AtRedis' = 0
      /\ limiter # "rateLimit" => AtRedis <= Share
  BY Sizes, SizesNext
<1>2. Counter /\ Counter' /\ forgotten \in [Ages -> 0..Most] /\ "idle" \in RequestStates
  BY DEF LimitTypeOK, Counter, RequestStates
<1>3. Goes(r, "idle")
  BY DEF Decided, Ends, Counts
<1>4. AtMemory' <= AtMemory /\ (limiter # "rateLimit" => AtRedis' + 1 <= AtRedis)
  BY <1>2, <1>3, RequestMoves
<1>5. /\ RedisPart(R, AtRedis', count', left', Share)
      /\ limiter # "rateLimit" \/ count < Max =>
            RedisPart(Plus(R), AtRedis', count', left', Share)
  <2>1. \/ AtRedis = 0 /\ AtRedis' = 0 /\ Share = Max
        \/ AtRedis' + 1 <= AtRedis /\ AtRedis <= Share
    BY <1>1, <1>4
  <2>2. ASSUME limiter # "rateLimit" PROVE AtRedis > 0
    <3>1. AtRedis' \in Nat /\ AtRedis \in Nat /\ AtRedis' + 1 <= AtRedis
      BY <1>1, <1>4, <2>2
    <3>2. \A i, j \in Nat : i + 1 <= j => j > 0
      OBVIOUS
    <3> QED  BY <3>1, <3>2
  <2>3. /\ RedisPart(R, AtRedis', count', left', Share)
        /\ AtRedis > 0 \/ count < Max =>
              RedisPart(Plus(R), AtRedis', count', left', Share)
    BY <1>1, <1>2, <2>1, RedisIncrements
  <2> QED  BY <2>2, <2>3
<1>6. CASE limiter = "rateLimit" /\ count >= Max
  BY <1>4, <1>5, <1>6 DEF Decided, Ends
<1>7. CASE ~(limiter = "rateLimit" /\ count >= Max)
  <2>1. Counts(r) /\ RedisPart(Plus(R), AtRedis', count', left', Share)
    BY <1>2, <1>5, <1>7, LimitAssumption DEF Decided, Counter
  <2>2. Plus(R) \in [Ages -> Nat] /\ \A a \in Ages : Plus(R)[a] = R[a] + 1
    BY DEF Plus
  <2>3. \A a \in Ages : /\ passed'[a] \in Nat /\ passed[a] \in Nat /\ forgotten[a] \in Nat
                        /\ passed'[a] <= passed[a] + 1
    BY <2>1, OneMoreIs, LimitAssumption DEF Counts, LimitTypeOK
  <2>4. Covers(Plus(R), M, passed', forgotten')
    BY <2>2, <2>3 DEF Covers
  <2> QED  BY <1>4, <2>1, <2>2, <2>4
<1> QED  BY <1>6, <1>7

\* What a step of a request may do to the two parts.
LEMMA PartsNext ==
    ASSUME LimitTypeOK, LimitTypeOK', limiter' = limiter,
           NEW R \in [Ages -> Nat], NEW M \in [Ages -> Nat],
           Covers(R, M, passed', forgotten'),
           RedisPart(R, AtRedis', count', left', Share),
           MemoryPart(M, AtMemory', hits', Share)
    PROVE  Parts'
<1>1. Share' = Share
  BY SizesNext
<1>2. Split(R, M)'
  BY <1>1 DEF Split
<1> QED  BY <1>2 DEF Parts

LEMMA NumbersFit ==
    ASSUME LimitTypeOK, LimitTypeOK', limiter' = limiter
    PROVE  /\ count \in Nat /\ left \in 0..Window /\ (left = 0 <=> count = 0)
           /\ Counter /\ Counter' /\ hits \in [Ages -> 0..Max] /\ passed \in [Ages -> 0..Most]
           /\ forgotten \in [Ages -> 0..Most]
           /\ AtRedis \in Nat /\ AtRedis' \in Nat /\ AtMemory \in Nat /\ AtMemory' \in Nat
           /\ Share \in Nat \ {0} /\ Max <= Share /\ AtRedis <= Share /\ AtMemory <= Share
BY Sizes, SizesNext, LimitAssumption DEF LimitTypeOK, Counter

\* The list decides, and the script has not run.
LEMMA ListDecides ==
    ASSUME LimitTypeOK, LimitTypeOK', limiter' = limiter, Grows(hits), Parts,
           NEW r \in Requests, req[r] # "handlerMemory", MemoryCheck(r), Untouched, UNCHANGED forgotten
    PROVE  Parts'
<1>1. PICK R, M \in [Ages -> Nat] : Split(R, M)
  BY DEF Parts
<1>2. /\ \E M2 \in [Ages -> Nat] : /\ Covers(R, M2, passed', forgotten')
                                   /\ MemoryPart(M2, AtMemory', hits', Share)
      /\ AtRedis' <= AtRedis
  BY <1>1, MemoryTakes DEF Split
<1>3. RedisPart(R, AtRedis', count', left', Share)
  BY <1>1, <1>2, NumbersFit, RedisLess DEF Split, Untouched
<1> QED  BY <1>2, <1>3, PartsNext

\* The list decides, and the script has run: its answer was lost.
LEMMA ListDecidesToo ==
    ASSUME LimitTypeOK, LimitTypeOK', limiter' = limiter, Grows(hits), Parts,
           NEW r \in Requests, req[r] \in {"evalsha", "eval"}, MemoryCheck(r), Increment, UNCHANGED forgotten
    PROVE  Parts'
<1>1. PICK R, M \in [Ages -> Nat] : Split(R, M)
  BY DEF Parts
<1>2. /\ \E M2 \in [Ages -> Nat] : /\ Covers(R, M2, passed', forgotten')
                                   /\ MemoryPart(M2, AtMemory', hits', Share)
      /\ limiter # "rateLimit" => AtRedis' + 1 <= AtRedis
  BY <1>1, MemoryTakes DEF Split
<1>3. \/ AtRedis = 0 /\ AtRedis' = 0 /\ Share = Max
      \/ AtRedis' + 1 <= AtRedis /\ AtRedis <= Share
  BY <1>2, Sizes, SizesNext
<1>4. RedisPart(R, AtRedis', count', left', Share)
  BY <1>1, <1>3, NumbersFit, RedisIncrements DEF Split
<1> QED  BY <1>2, <1>4, PartsNext

\* redisAllowed threw over the failure of a login: what Redis has counted is in R,
\* and what it has not is held by no counter.
LEMMA FailureThrows ==
    ASSUME LimitTypeOK, LimitTypeOK', limiter' = limiter, Grows(hits), Parts,
           NEW r \in Requests, req[r] \in {"handler", "evalsha", "eval"},
           limiter # "rateLimit", Counts(r), Hit,
           \/ Untouched /\ forgotten' = OneMore(forgotten, Most)
           \/ Increment /\ UNCHANGED forgotten
    PROVE  Parts'
<1>1. PICK R, M \in [Ages -> Nat] : Split(R, M)
  BY DEF Parts
<1>2. AtRedis' + 1 <= AtRedis /\ AtMemory' <= AtMemory
  BY RequestMoves DEF Counts, RequestStates
<1>3. MemoryPart(M, AtMemory', hits', Share)
  BY <1>1, <1>2, NumbersFit, MemoryHits DEF Split
<1>4. \A a \in Ages : /\ passed[a] \in Nat /\ passed'[a] \in 0..Most
                      /\ passed'[a] <= passed[a] + 1
  BY NumbersFit, OneMoreIs, LimitAssumption DEF Counts
<1>5. CASE Untouched /\ forgotten' = OneMore(forgotten, Most)
  <2>1. RedisPart(R, AtRedis', count', left', Share)
    <3>1. AtRedis' <= AtRedis
      BY <1>2, NumbersFit
    <3> QED  BY <1>1, <1>5, <3>1, NumbersFit, RedisLess DEF Split, Untouched
  <2>2. \A a \in Ages : /\ forgotten[a] \in 0..Most
                        /\ forgotten'[a] = Most \/ forgotten'[a] = forgotten[a] + 1
    BY <1>5, NumbersFit, LimitAssumption DEF OneMore
  <2>3. Covers(R, M, passed', forgotten')
    BY <1>1, <1>4, <2>2, LimitAssumption DEF Split, Covers
  <2> QED  BY <1>3, <2>1, <2>3, PartsNext
<1>6. CASE Increment /\ UNCHANGED forgotten
  <2>1. AtRedis > 0
    BY <1>2, NumbersFit
  <2>2. RedisPart(Plus(R), AtRedis', count', left', Share)
    BY <1>1, <1>2, <1>6, <2>1, NumbersFit, RedisIncrements DEF Split
  <2>3. Plus(R) \in [Ages -> Nat] /\ \A a \in Ages : Plus(R)[a] = R[a] + 1
    BY DEF Plus
  <2>4. Covers(Plus(R), M, passed', forgotten')
    BY <1>1, <1>4, <1>6, <2>3, NumbersFit DEF Split, Covers
  <2> QED  BY <1>3, <2>2, <2>3, <2>4, PartsNext
<1> QED  BY <1>5, <1>6

\* redisAllowed threw.
LEMMA Throws ==
    ASSUME LimitTypeOK, LimitTypeOK', limiter' = limiter, Grows(hits), Parts,
           NEW r \in Requests, req[r] \in {"handler", "evalsha", "eval"},
           \/ Untouched /\ ThrewUncounted(r)
           \/ Increment /\ Threw(r) /\ UNCHANGED forgotten /\ req[r] \in {"evalsha", "eval"}
    PROVE  Parts'
<1>1. CASE limiter = "rateLimit"
  BY <1>1, ListDecides, ListDecidesToo DEF Threw, ThrewUncounted
<1>2. CASE limiter # "rateLimit"
  BY <1>2, FailureThrows DEF Threw, ThrewUncounted
<1> QED  BY <1>1, <1>2

LEMMA ScriptDecides ==
    ASSUME LimitTypeOK, LimitTypeOK', limiter' = limiter, Parts,
           NEW r \in Requests, req[r] \in {"evalsha", "eval"}, Decided(r), Increment,
           UNCHANGED forgotten
    PROVE  Parts'
<1>1. PICK R, M \in [Ages -> Nat] : Split(R, M)
  BY DEF Parts
<1>2. /\ \E R2 \in [Ages -> Nat] : /\ Covers(R2, M, passed', forgotten')
                                   /\ RedisPart(R2, AtRedis', count', left', Share)
      /\ AtMemory' <= AtMemory
  BY <1>1, RedisDecides DEF Split
<1>3. hits' = hits
  BY DEF Decided
<1>4. MemoryPart(M, AtMemory', hits', Share)
  BY <1>1, <1>2, <1>3, NumbersFit, MemoryLess DEF Split
<1> QED  BY <1>2, <1>4, PartsNext

\* Nothing is counted: the request moves on, and where it is let in the counter is
\* below the limit.
LEMMA MovesOn ==
    ASSUME LimitTypeOK, LimitTypeOK', limiter' = limiter, Parts,
           NEW r \in Requests, NEW st \in RequestStates \ {"handlerMemory"}, Goes(r, st),
           UNCHANGED <<hits, passed, forgotten>>, Untouched,
           \/ limiter = "rateLimit" \/ count < Max
           \/ st \notin {"handler", "evalsha", "eval"} \/ req[r] \in {"handler", "evalsha", "eval"}
    PROVE  Parts'
<1>1. PICK R, M \in [Ages -> Nat] : Split(R, M)
  BY DEF Parts
<1>2. AtMemory' <= AtMemory
  BY RequestMoves
<1>3. MemoryPart(M, AtMemory', hits', Share)
  BY <1>1, <1>2, NumbersFit, MemoryLess DEF Split
<1>4. RedisPart(R, AtRedis', count', left', Share)
  <2>1. CASE AtRedis' <= AtRedis
    BY <1>1, <2>1, NumbersFit, RedisLess DEF Split, Untouched
  <2>2. CASE limiter # "rateLimit" /\ count < Max
    <3>1. /\ Share = Max + Cardinality(Requests) - 1 /\ Cardinality(Requests) \in Nat \ {0}
          /\ AtRedis' <= Cardinality(Requests)
      BY <2>2, Sizes, SizesNext
    <3> QED  BY <1>1, <2>2, <3>1, NumbersFit, RedisAdmits DEF Split, Untouched
  <2>3. limiter = "rateLimit" => AtRedis' <= AtRedis
    BY Sizes, SizesNext
  <2> QED  BY <2>1, <2>2, <2>3, RequestMoves
<1>5. Covers(R, M, passed', forgotten')
  BY <1>1 DEF Split
<1> QED  BY <1>3, <1>4, <1>5, PartsNext

\* A failure of a request that the list has let in.
LEMMA ListCounts ==
    ASSUME LimitTypeOK, LimitTypeOK', limiter' = limiter, Grows(hits), Parts,
           NEW r \in Requests, req[r] = "handlerMemory", limiter # "rateLimit",
           Counts(r), Hit, Untouched, UNCHANGED forgotten
    PROVE  Parts'
<1>1. PICK R, M \in [Ages -> Nat] : Split(R, M)
  BY DEF Parts
<1>2. AtRedis' <= AtRedis /\ AtMemory' + 1 <= AtMemory
  BY RequestMoves DEF Counts, RequestStates
<1>3. MemoryPart(Plus(M), AtMemory', hits', Share)
  BY <1>1, <1>2, NumbersFit, MemoryHits DEF Split
<1>4. RedisPart(R, AtRedis', count', left', Share)
  BY <1>1, <1>2, NumbersFit, RedisLess DEF Split, Untouched
<1>5. Plus(M) \in [Ages -> Nat] /\ \A a \in Ages : Plus(M)[a] = M[a] + 1
  BY DEF Plus
<1>6. \A a \in Ages : passed'[a] \in Nat /\ passed[a] \in Nat /\ passed'[a] <= passed[a] + 1
  BY NumbersFit, OneMoreIs, LimitAssumption DEF Counts
<1>7. Covers(R, Plus(M), passed', forgotten')
  BY <1>1, <1>5, <1>6, NumbersFit DEF Split, Covers
<1> QED  BY <1>3, <1>4, <1>5, <1>7, PartsNext

LEMMA StepParts ==
    ASSUME LimitTypeOK, LimitTypeOK', BInv, LimitStep, Grows(hits), AwaitsFit, Parts
    PROVE  Parts'
<1>1. PICK r \in Requests : Arrive(r) \/ Command(r) \/ \E b \in BOOLEAN : Handled(r, b)
  BY DEF LimitStep
<1>2. /\ limiter' = limiter
      /\ limiter \in {"rateLimit", "failureRateLimit"}
      /\ RequestStates = {"idle", "evalsha", "eval", "get", "pttl", "handler", "handlerMemory"}
  BY LimitStepDoes DEF LimitTypeOK, RequestStates
<1>3. Ends(r) => Goes(r, "idle") /\ passed' = passed
  BY DEF Ends
<1>4. CASE Arrive(r)
  <2>1. Untouched /\ UNCHANGED forgotten /\ req[r] = "idle"
    BY <1>4 DEF Arrive, Untouched
  <2>2. CASE Rejected
    BY <1>2, <1>4, <2>1, <2>2, ListDecides DEF Arrive
  <2>3. CASE ~Rejected
    <3>1. PICK st \in {"evalsha", "get"} : Goes(r, st) /\ (st = "evalsha" => limiter = "rateLimit")
      BY <1>4, <2>3 DEF Arrive
    <3>2. UNCHANGED <<hits, passed>>
      BY <1>4, <2>3 DEF Arrive
    <3> QED  BY <1>2, <2>1, <3>1, <3>2, MovesOn
  <2> QED  BY <2>2, <2>3
<1>5. CASE EvalSha(r)
  BY <1>2, <1>5, ScriptDecides, Throws DEF EvalSha
<1>6. CASE NoScript(r)
  <2>1. Untouched /\ req[r] = "evalsha"
    BY <1>6 DEF NoScript, Untouched
  <2>2. ThrewUncounted(r) \/ (Goes(r, "eval") /\ UNCHANGED <<hits, passed, forgotten>>)
    BY <1>6 DEF NoScript
  <2> QED  BY <1>2, <2>1, <2>2, Throws, MovesOn
<1>7. CASE Eval(r)
  BY <1>2, <1>7, ScriptDecides, Throws DEF Eval
<1>8. CASE Get(r)
  <2>1. Untouched /\ UNCHANGED forgotten /\ req[r] = "get"
    BY <1>8 DEF Get, Untouched
  <2>2. \/ MemoryCheck(r)
        \/ UNCHANGED <<hits, passed>> /\ Goes(r, "pttl")
        \/ UNCHANGED <<hits, passed>> /\ Goes(r, "handler") /\ ~(count >= Max)
    BY <1>8 DEF Get
  <2>3. ~(count >= Max) => count < Max
    BY LimitAssumption DEF LimitTypeOK
  <2> QED  BY <1>2, <2>1, <2>2, <2>3, ListDecides, MovesOn
<1>9. CASE Pttl(r)
  <2>1. Untouched /\ UNCHANGED forgotten /\ req[r] = "pttl"
    BY <1>9 DEF Pttl, Untouched
  <2>2. MemoryCheck(r) \/ (UNCHANGED <<hits, passed>> /\ Goes(r, "idle"))
    BY <1>3, <1>9 DEF Pttl
  <2> QED  BY <1>2, <2>1, <2>2, ListDecides, MovesOn
<1>10. CASE \E b \in BOOLEAN : Handled(r, b)
  <2>1. Untouched
    BY <1>10 DEF Handled, Untouched
  <2>2. \/ UNCHANGED <<hits, passed, forgotten>> /\ Goes(r, "idle")
        \/ req[r] = "handlerMemory" /\ Counts(r) /\ Hit /\ UNCHANGED forgotten
        \/ req[r] = "handler" /\ ThrewUncounted(r)
        \/ req[r] = "handler" /\ Goes(r, "evalsha") /\ UNCHANGED <<hits, passed, forgotten>>
    BY <1>3, <1>10 DEF Handled
  <2>3. req[r] = "handlerMemory" => limiter # "rateLimit"
    BY DEF AwaitsFit
  <2> QED  BY <1>2, <2>1, <2>2, <2>3, Throws, ListCounts, MovesOn
<1> QED  BY <1>1, <1>4, <1>5, <1>6, <1>7, <1>8, <1>9, <1>10 DEF Command

LEMMA StepGrows ==
    ASSUME BInv, LimitTypeOK, LimitStep, Grows(hits), Grows(passed)
    PROVE  Grows(hits)' /\ Grows(passed)'
BY LimitStepDoes, OneMoreGrows, LimitAssumption DEF LimitTypeOK, Hit, Grows

LEMMA StepCounts ==
    ASSUME BInv, LimitTypeOK, LimitTypeOK', LimitStep, CountIsSeen
    PROVE  CountIsSeen'
<1> SUFFICES ASSUME left' > 0, upFor' > Window - left'
             PROVE  count' <= passed'[Window - left'] \/ Max <= passed'[Window - left']
  BY DEF CountIsSeen
<1> DEFINE a == Window - left'
<1>1. /\ left \in 0..Window /\ left' \in 0..Window /\ (left = 0 <=> count = 0)
      /\ count \in 0..(Max + 1) /\ upFor \in Nat
  BY BreakerAssumption DEF LimitTypeOK, BInv, BreakerTypeOK
<1>2. a \in Ages /\ upFor' = upFor /\ upFor > 0
  <2>1. upFor' = upFor
    BY LimitStepDoes
  <2>2. \A w \in Nat \ {0} : \A l \in 0..w : \A u \in Nat :
           l > 0 /\ u > w - l => w - l \in 0..(w - 1) /\ u > 0
    OBVIOUS
  <2> QED  BY <1>1, <2>1, <2>2, LimitAssumption DEF Ages
<1>3. /\ passed[a] \in Nat /\ passed'[a] \in Nat /\ passed[a] <= passed'[a]
      /\ passed' = OneMore(passed, Most) => passed'[a] = passed[a] + 1 \/ passed[a] >= Max
  BY <1>2, LimitStepDoes, OneMoreIs, LimitAssumption DEF LimitTypeOK
<1>4. CASE Untouched
  BY <1>1, <1>2, <1>3, <1>4, LimitAssumption DEF Untouched, CountIsSeen
<1>5. CASE Increment /\ (count >= Max \/ passed' = OneMore(passed, Most))
  <2>1. CASE count = 0
    <3>1. count' = 1 /\ passed' = OneMore(passed, Most)
      BY <1>5, <2>1, LimitAssumption DEF Increment
    <3> QED  BY <1>3, <3>1, LimitAssumption
  <2>2. CASE count # 0
    <3>1. left' = left /\ left > 0 /\ count' \in Nat /\ count' <= count + 1
      BY <1>1, <1>5, <2>2 DEF Increment
    <3>2. count <= passed[a] \/ Max <= passed[a]
      BY <1>2, <3>1 DEF CountIsSeen
    <3> QED  BY <1>1, <1>3, <1>5, <3>1, <3>2, LimitAssumption
  <2> QED  BY <2>1, <2>2
<1> QED  BY <1>2, <1>4, <1>5, LimitStepDoes

LEMMA StepAwaits ==
    ASSUME BInv, LimitTypeOK, LimitTypeOK', LimitStep, AwaitsFit
    PROVE  AwaitsFit'
<1> DEFINE Fit(st, c) == /\ limiter = "rateLimit" => st \in {"idle", "evalsha", "eval"}
                         /\ st = "pttl" => c >= Max \/ upFor = 0
<1>1. PICK r \in Requests : Arrive(r) \/ Command(r) \/ \E b \in BOOLEAN : Handled(r, b)
  BY DEF LimitStep
<1>2. /\ limiter' = limiter /\ upFor' = upFor
      /\ count \in Nat /\ count' \in Nat /\ count <= count'
  BY LimitStepDoes, LimitAssumption DEF LimitTypeOK, Untouched, Increment
<1>3. ASSUME NEW st \in RequestStates, Goes(r, st), Fit(st, count') PROVE AwaitsFit'
  <2>1. \A q \in Requests : req'[q] = IF q = r THEN st ELSE req[q]
    BY <1>3 DEF Goes, LimitTypeOK
  <2>2. \A q \in Requests : Fit(req'[q], count')
    BY <1>2, <1>3, <2>1, LimitAssumption DEF AwaitsFit
  <2> QED  BY <1>2, <2>2 DEF AwaitsFit
<1>4. RequestStates = {"idle", "evalsha", "eval", "get", "pttl", "handler", "handlerMemory"}
  BY DEF RequestStates
<1>5. Ends(r) \/ Counts(r) \/ Decided(r) => Goes(r, "idle")
  BY DEF Ends, Counts, Decided
<1>6. MemoryCheck(r) \/ Threw(r) \/ ThrewUncounted(r) =>
         Goes(r, "idle") \/ (Goes(r, "handlerMemory") /\ limiter # "rateLimit")
  BY <1>5 DEF MemoryCheck, Threw, ThrewUncounted
<1>7. \A st : req[r] = st => Fit(st, count)
  BY DEF AwaitsFit
<1>8. \/ Goes(r, "idle")
      \/ Goes(r, "evalsha")
      \/ Goes(r, "eval")
      \/ Goes(r, "get") /\ limiter # "rateLimit"
      \/ Goes(r, "handlerMemory") /\ limiter # "rateLimit"
      \/ Goes(r, "handler") /\ limiter # "rateLimit"
      \/ Goes(r, "pttl") /\ limiter # "rateLimit" /\ count' >= Max
  <2>1. CASE Arrive(r)
    BY <1>6, <2>1 DEF Arrive
  <2>2. CASE EvalSha(r)
    BY <1>5, <1>6, <2>2 DEF EvalSha
  <2>3. CASE NoScript(r)
    BY <1>6, <2>3 DEF NoScript
  <2>4. CASE Eval(r)
    BY <1>5, <1>6, <2>4 DEF Eval
  <2>5. CASE Get(r)
    BY <1>6, <1>7, <2>5 DEF Get
  <2>6. CASE Pttl(r)
    BY <1>5, <1>6, <2>6 DEF Pttl
  <2>7. CASE \E b \in BOOLEAN : Handled(r, b)
    BY <1>5, <1>6, <2>7 DEF Handled
  <2> QED  BY <1>1, <2>1, <2>2, <2>3, <2>4, <2>5, <2>6, <2>7 DEF Command
<1> QED  BY <1>3, <1>4, <1>8

LEMMA LimitInvInit == Init => LInv
<1> SUFFICES ASSUME Init PROVE LInv
  OBVIOUS
<1> DEFINE zero == [a \in Ages |-> 0]
<1>1. /\ count = 0 /\ left = 0 /\ hits = zero /\ passed = zero
      /\ req = [r \in Requests |-> "idle"] /\ forgotten = zero
      /\ limiter \in {"rateLimit", "failureRateLimit"}
  BY DEF Init, LimitInit
<1>2. AtRedis = 0 /\ AtMemory = 0
  <2>1. /\ {r \in Requests : req[r] \in {"handler", "evalsha", "eval"}} = {}
        /\ {r \in Requests : req[r] = "handlerMemory"} = {}
    BY <1>1
  <2> QED  BY <2>1, FS_EmptySet DEF AtRedis, AtMemory
<1>3. LimitTypeOK
  BY <1>1, LimitAssumption DEF LimitTypeOK, RequestStates
<1>4. Share \in Nat \ {0}
  BY <1>3, Sizes
<1>5. zero \in [Ages -> Nat] /\ \A a \in Ages : zero[a] = 0
  OBVIOUS
<1>6. Grows(hits) /\ Grows(passed)
  BY <1>1 DEF Grows
<1>7. CountIsSeen /\ AwaitsFit
  BY <1>1 DEF CountIsSeen, AwaitsFit
<1>8. Split(zero, zero)
  <2> HIDE DEF zero
  <2>1. Covers(zero, zero, passed, forgotten)
    BY <1>1, <1>5 DEF Covers
  <2>2. RedisPart(zero, AtRedis, count, left, Share)
    BY <1>1, <1>4, <1>5 DEF RedisPart
  <2>3. MemoryPart(zero, AtMemory, hits, Share)
    BY <1>1, <1>2, <1>4, <1>5 DEF MemoryPart
  <2> QED  BY <2>1, <2>2, <2>3 DEF Split
<1>9. Parts
  BY <1>5, <1>8 DEF Parts
<1> QED  BY <1>6, <1>7, <1>9 DEF LInv

\* What stops a sound Redis leaves the limiter alone.
LEMMA LimitRests ==
    ASSUME LInv, UNCHANGED limitVars, upFor' = upFor \/ upFor' = 0, LimitTypeOK
    PROVE  LInv'
<1>1. UNCHANGED <<limiter, count, left, hits, req, passed, forgotten>>
  BY DEF limitVars
<1>2. Grows(hits)' /\ Grows(passed)'
  BY <1>1 DEF LInv, Grows
<1>3. CountIsSeen'
  <2>1. left \in 0..Window
    BY DEF LimitTypeOK
  <2>2. upFor' = 0 => ~(upFor' > Window - left)
    BY <2>1, LimitAssumption
  <2> QED  BY <1>1, <2>2 DEF LInv, CountIsSeen
<1>4. AwaitsFit'
  BY <1>1 DEF LInv, AwaitsFit
<1>5. Parts'
  <2>1. AtRedis' = AtRedis /\ AtMemory' = AtMemory /\ Share' = Share
    BY <1>1 DEF AtRedis, AtMemory, Share
  <2> HIDE DEF LInv
  <2>2. PICK R, M \in [Ages -> Nat] : Split(R, M)
    BY DEF LInv, Parts
  <2>3. Split(R, M)'
    BY <1>1, <2>1, <2>2 DEF Split
  <2> QED  BY <2>3 DEF Parts
<1> QED  BY <1>2, <1>3, <1>4, <1>5 DEF LInv

\* Redis is back: with the counter, or without it.
LEMMA CounterBack ==
    ASSUME BInv, LimitTypeOK, LInv, NEW kept \in BOOLEAN, RedisReturns(kept), CounterReturns(kept)
    PROVE  LInv'
<1>1. upFor = 0 /\ upFor' = 0
  BY DEF BInv, RedisReturns
<1>2. CASE kept
  <2>1. UNCHANGED limitVars
    BY <1>2 DEF CounterReturns, limitVars
  <2> QED  BY <1>1, <2>1, LimitRests
<1>3. CASE ~kept
  <2> DEFINE zero == [a \in Ages |-> 0]
  <2>1. /\ count' = 0 /\ left' = 0 /\ forgotten' = passed
        /\ UNCHANGED <<limiter, hits, req, passed>>
    BY <1>3 DEF CounterReturns
  <2>2. Grows(hits)' /\ Grows(passed)'
    BY <2>1 DEF LInv, Grows
  <2>3. CountIsSeen' /\ AwaitsFit'
    BY <1>1, <2>1 DEF LInv, CountIsSeen, AwaitsFit
  <2>4. /\ AtRedis' = AtRedis /\ AtMemory' = AtMemory /\ Share' = Share
        /\ AtMemory \in Nat /\ AtMemory <= Share /\ Share \in Nat \ {0}
    BY <2>1, Sizes DEF AtRedis, AtMemory, Share
  <2>5. /\ zero \in [Ages -> Nat] /\ \A a \in Ages : zero[a] = 0
        /\ \A a \in Ages : passed[a] \in Nat /\ hits[a] \in Nat
    BY DEF LimitTypeOK
  <2> HIDE DEF zero
  <2>6. Split(zero, zero)'
    BY <2>1, <2>4, <2>5 DEF Split, Covers, RedisPart, MemoryPart
  <2> QED  BY <2>2, <2>3, <2>5, <2>6 DEF LInv, Parts
<1> QED  BY <1>2, <1>3

LEMMA LimiterBack ==
    ASSUME BInv, LimitTypeOK, LimitTypeOK', LInv, BreakerRestarts, LimiterRestarts
    PROVE  LInv'
<1> DEFINE zero == [a \in Ages |-> 0]
<1>1. /\ req' = [r \in Requests |-> "idle"] /\ hits' = zero /\ forgotten' = passed
      /\ UNCHANGED <<limiter, count, left, passed>> /\ upFor' = upFor
  BY DEF LimiterRestarts, BreakerRestarts
<1>2. Grows(hits)' /\ Grows(passed)' /\ CountIsSeen' /\ AwaitsFit'
  BY <1>1 DEF LInv, Grows, CountIsSeen, AwaitsFit
<1>3. AtRedis' = 0 /\ AtMemory' = 0
  <2>1. /\ {r \in Requests : req'[r] \in {"handler", "evalsha", "eval"}} = {}
        /\ {r \in Requests : req'[r] = "handlerMemory"} = {}
    BY <1>1
  <2> QED  BY <2>1, FS_EmptySet DEF AtRedis, AtMemory
<1>4. Share' \in Nat \ {0} /\ count \in Nat /\ (left = 0 <=> count = 0) /\ left \in Nat
  BY <1>1, Sizes DEF Share, LimitTypeOK
<1>5. /\ zero \in [Ages -> Nat] /\ \A a \in Ages : zero[a] = 0
      /\ \A a \in Ages : passed[a] \in Nat
  BY DEF LimitTypeOK
<1> HIDE DEF zero
<1>6. RedisPart(zero, AtRedis, count, left, Share)'
  BY <1>1, <1>3, <1>4, <1>5 DEF RedisPart
<1>7. MemoryPart(zero, AtMemory, hits, Share)' /\ Covers(zero, zero, passed, forgotten)'
  BY <1>1, <1>3, <1>4, <1>5 DEF Covers, MemoryPart
<1>8. Split(zero, zero)'
  BY <1>6, <1>7 DEF Split
<1> QED  BY <1>2, <1>5, <1>8 DEF LInv, Parts

LEMMA LimiterOlder ==
    ASSUME BInv, BInv', LimitTypeOK, LimitTypeOK', LInv, LimiterMayAge, BreakerAges, LimiterAges
    PROVE  LInv'
<1>1. /\ left' = IF left > 0 THEN left - 1 ELSE 0
      /\ left' > 0 => count' = count
      /\ hits' = Older(hits) /\ passed' = Older(passed)
      /\ UNCHANGED <<limiter, req>>
  BY DEF LimiterAges
<1>2. Grows(hits)' /\ Grows(passed)'
  BY <1>1, OlderIs, LimitAssumption DEF LInv, LimitTypeOK, Grows
<1>3. AwaitsFit'
  BY <1>1 DEF LInv, AwaitsFit, LimiterMayAge
<1>4. CountIsSeen'
  <2> SUFFICES ASSUME left' > 0, upFor' > Window - left'
               PROVE  count' <= passed'[Window - left'] \/ Max <= passed'[Window - left']
    BY DEF CountIsSeen
  <2>1. left \in 0..Window /\ upFor \in Nat /\ upFor' \in Nat /\ upFor' <= upFor + 1
    BY BreakerAssumption DEF LimitTypeOK, BInv, BreakerTypeOK, BreakerAges
  <2>2. left > 0 /\ left' = left - 1 /\ count' = count
    BY <1>1, <2>1
  <2>3. upFor > Window - left /\ Window - left \in Ages /\ Window - left' \in Ages
        /\ Window - left' # 0 /\ (Window - left') - 1 = Window - left
    BY <2>1, <2>2, LimitAssumption DEF Ages
  <2>4. passed'[Window - left'] = passed[Window - left]
    BY <1>1, <2>3, OlderIs, LimitAssumption DEF LimitTypeOK
  <2> QED  BY <2>2, <2>3, <2>4 DEF LInv, CountIsSeen
<1>5. Parts'
  <2>1. /\ AtRedis' = AtRedis /\ AtMemory' = AtMemory /\ Share' = Share
    BY <1>1 DEF AtRedis, AtMemory, Share
  <2>2. /\ Share \in Nat \ {0} /\ AtRedis \in Nat /\ AtMemory \in Nat /\ AtMemory <= Share
    BY Sizes
  <2>3. PICK R, M \in [Ages -> Nat] : Split(R, M)
    BY DEF LInv, Parts
  <2>4. \A f \in [Ages -> Nat] :
           Older(f) \in [Ages -> Nat] /\ \A a \in Ages : Older(f)[a] = IF a = 0 THEN 0 ELSE f[a - 1]
    BY LimitAssumption DEF Older, Ages
  <2>5. RedisPart(Older(R), AtRedis, count', left', Share)
    BY <2>2, <2>3, RedisAges DEF Split
  <2>6. MemoryPart(Older(M), AtMemory, hits', Share)
    BY <2>2, <2>3, MemoryAges DEF Split
  <2>7. Covers(Older(R), Older(M), passed', forgotten')
    <3>1. \A a \in Ages : a # 0 => a - 1 \in Ages
      BY LimitAssumption DEF Ages
    <3>2. \A a \in Ages : /\ passed'[a] = IF a = 0 THEN 0 ELSE passed[a - 1]
                          /\ forgotten'[a] = IF a = 0 THEN 0 ELSE forgotten[a - 1]
      BY <1>1, OlderIs, LimitAssumption DEF LimitTypeOK, LimiterAges
    <3> QED  BY <2>3, <2>4, <3>1, <3>2 DEF Split, Covers
  <2>8. Split(Older(R), Older(M))'
    BY <2>1, <2>5, <2>6, <2>7 DEF Split
  <2> QED  BY <2>4, <2>8 DEF Parts
<1> QED  BY <1>2, <1>3, <1>4, <1>5 DEF LInv

LEMMA OthersLeaveUp ==
    ASSUME BInv, OtherCommand \/ CacheStep \/ RedisFails \/ UNCHANGED guardVars
    PROVE  upFor' = upFor \/ upFor' = 0
<1>1. Succeeds \/ Fails \/ UNCHANGED breakerVars => upFor' = upFor
  BY DEF Succeeds, Fails, CountsFailure, breakerVars
<1>2. CASE OtherCommand
  BY <1>1, <1>2 DEF OtherCommand
<1>3. CASE CacheStep
  BY <1>1, <1>3 DEF CacheStep, Ask, GetCached, Query, QueryThrows, SetCached, ChangeAdminRole,
                    ChangeOther, InvalidateManageScope
<1>4. CASE RedisFails \/ UNCHANGED guardVars
  BY <1>4 DEF RedisFails, guardVars, breakerVars
<1> QED  BY <1>2, <1>3, <1>4

LEMMA LimitInvStep == IInv /\ IInv' /\ LInv /\ [Next]_guardVars => LInv'
<1> SUFFICES ASSUME IInv, IInv', LInv, [Next]_guardVars PROVE LInv'
  OBVIOUS
<1>1. BInv /\ BInv' /\ LimitTypeOK /\ LimitTypeOK'
  BY DEF IInv
<1>2. CASE Limits
  <2>1. LimitStep
    BY <1>2 DEF Limits
  <2> QED  BY <1>1, <2>1, StepGrows, StepCounts, StepAwaits, StepParts DEF LInv
<1>3. CASE Caches \/ Others \/ Stop \/ UNCHANGED guardVars
  <2>1. UNCHANGED limitVars
    BY <1>3 DEF Caches, Others, Stop, guardVars
  <2> QED  BY <1>1, <1>3, <2>1, OthersLeaveUp, LimitRests DEF Caches, Others, Stop
<1>4. CASE \E kept \in BOOLEAN : Return(kept)
  BY <1>1, <1>4, CounterBack DEF Return
<1>5. CASE Restart
  BY <1>1, <1>5, LimiterBack DEF Restart
<1>6. CASE Tick
  BY <1>1, <1>6, LimiterOlder DEF Tick
<1> QED  BY <1>2, <1>3, <1>4, <1>5, <1>6 DEF Next

-------------------------------------------------------------------------------
(* The theorems *)

\* The inductive invariant of the guards.
THEOREM GuardsInvariant == Spec => []IInv
BY InitInv, InvStep, PTL DEF Spec

\* Breaker, counters and caches stay well formed.
THEOREM GuardsTypes == Spec => []GuardsTypeOK
<1>1. IInv => GuardsTypeOK
  BY DEF IInv, BInv, CInv, GuardsTypeOK
<1> QED  BY <1>1, GuardsInvariant, PTL

\* The breaker is open only because Redis fails, and no longer than a cooldown after.
THEOREM BreakerSound == Spec => []BreakerIsSound
<1>1. IInv => BreakerIsSound
  <2> SUFFICES ASSUME IInv PROVE FollowsRedis /\ OpenMeansFailing
    BY DEF BreakerIsSound
  <2>1. FollowsRedis
    BY BreakerAssumption DEF IInv, BInv, BreakerTypeOK, FollowsRedis, Rejected
  <2> QED  BY <2>1 DEF IInv, BInv
<1> QED  BY <1>1, GuardsInvariant, PTL

\* A cached right is wrong for less than a TTL and a flight, and only when excused.
THEOREM CacheSound == Spec => []CacheIsSound
<1>1. IInv => CacheIsSound
  <2> SUFFICES ASSUME IInv PROVE StaleNoLongerThanTTL /\ StaleIsExcused
    BY DEF CacheIsSound
  <2>1. since \in 0..Stalest /\ cache.left \in 0..TTL /\ Stalest \in Nat
    BY CacheAssumption DEF IInv, CInv, CacheTypeOK, Stalest
  <2> QED  BY <2>1, CacheAssumption DEF IInv, CInv, Stale, StaleNoLongerThanTTL
<1> QED  BY <1>1, GuardsInvariant, PTL

\* What has passed splits into what the two counters hold and what neither does.
THEOREM LimitInvariant == Spec => [](IInv /\ LInv)
<1>1. Spec => []LInv
  <2>1. Init => LInv
    BY LimitInvInit
  <2>2. IInv /\ IInv' /\ LInv /\ [Next]_guardVars => LInv'
    BY LimitInvStep
  <2> QED  BY <2>1, <2>2, GuardsInvariant, PTL DEF Spec
<1> QED  BY <1>1, GuardsInvariant, PTL

\* Any stretch of windowMs lets less than three shares through, apart from the failures
\* whose record failed and from what passed before a counter was lost.
THEOREM LimitKept == Spec => []LimitHolds
<1>1. IInv /\ LInv => LimitHolds
  <2> SUFFICES ASSUME IInv, LInv PROVE passed[Window - 1] < 3 * Share + forgotten[Window - 1]
    BY DEF LimitHolds, InAWindow
  <2> DEFINE a == Window - 1
  <2>1. LimitTypeOK /\ a \in Ages
    BY LimitAssumption DEF IInv, Ages
  <2>2. /\ Share \in Nat \ {0} /\ AtRedis \in Nat /\ AtMemory \in Nat
        /\ left \in 0..Window /\ passed[a] \in Nat /\ forgotten[a] \in Nat
    BY <2>1, Sizes DEF LimitTypeOK
  <2>3. PICK R, M \in [Ages -> Nat] : Split(R, M)
    BY DEF LInv, Parts
  <2>4. passed[a] <= R[a] + M[a] + forgotten[a] /\ R[a] \in Nat /\ M[a] \in Nat
    BY <2>1, <2>3 DEF Split, Covers
  <2>5. M[a] <= Share
    BY <2>1, <2>2, <2>3, <2>4 DEF Split, MemoryPart
  <2>6. R[a] < Share + Share
    <3>1. CASE left = 0
      BY <2>1, <2>2, <2>3, <2>4, <3>1 DEF Split, RedisPart
    <3>2. CASE left > 0
      <4>1. a >= Window - left
        BY <2>2, <3>2, LimitAssumption
      <4> QED  BY <2>1, <2>2, <2>3, <2>4, <3>2, <4>1 DEF Split, RedisPart
    <3> QED  BY <2>2, <3>1, <3>2
  <2> QED  BY <2>2, <2>4, <2>5, <2>6
<1> QED  BY <1>1, LimitInvariant, PTL

\* With Redis sound for a window, who is refused meets a limit's worth that was let through.
THEOREM RefusalsEarned == Spec => RefusalsAreEarned
<1> DEFINE Earned == \A r \in Requests :
                        Refused(r) /\ loaded /\ upFor >= Window => InAWindow >= Max
<1>1. IInv /\ LInv /\ [Next]_guardVars => [Earned]_guardVars
  <2> SUFFICES ASSUME IInv, LInv, Next, NEW r \in Requests,
                      Refused(r), loaded, upFor >= Window
               PROVE  InAWindow >= Max
    OBVIOUS
  <2>1. /\ req[r] \in {"get", "pttl"} \/ (limiter = "rateLimit" /\ req[r] \in {"evalsha", "eval"})
        /\ req'[r] = "idle" /\ passed' = passed /\ LimitStep
    BY DEF Refused
  <2>2. BInv /\ LimitTypeOK /\ AwaitsFit /\ CountIsSeen /\ Grows(passed) /\ upFor # 0
    BY LimitAssumption DEF IInv, LInv
  <2>3. PICK q \in Requests : Arrive(q) \/ Command(q) \/ \E b \in BOOLEAN : Handled(q, b)
    BY <2>1 DEF LimitStep
  <2>4. ~Fails
    BY <2>2 DEF Fails, BInv
  <2>5. \A p \in Requests \ {q} : req'[p] = req[p]
    <3>1. \A st : Goes(q, st) => \A p \in Requests \ {q} : req'[p] = req[p]
      BY <2>2 DEF Goes, LimitTypeOK
    <3>2. Ends(q) \/ Counts(q) \/ Decided(q) \/ MemoryCheck(q) \/ Threw(q) \/ ThrewUncounted(q) =>
             \E st : Goes(q, st)
      BY DEF Ends, Counts, Decided, MemoryCheck, Threw, ThrewUncounted
    <3>3. \E st : Goes(q, st)
      BY <2>3, <3>2 DEF Command, Arrive, EvalSha, NoScript, Eval, Get, Pttl, Handled
    <3> QED  BY <3>1, <3>3
  <2>6. q = r /\ req[r] \in {"get", "pttl", "evalsha", "eval"}
    BY <2>1, <2>5
  <2>7. Window - 1 \in Ages /\ passed[Window - 1] \in 0..Most /\ InAWindow = passed[Window - 1]
    BY <2>2, LimitAssumption DEF LimitTypeOK, Ages, InAWindow
  <2>8. Counts(r) => InAWindow >= Max
    <3>1. Counts(r) => passed' = OneMore(passed, Most)
      BY DEF Counts
    <3> QED  BY <2>1, <2>2, <2>7, <3>1, OneMoreIs, LimitAssumption DEF LimitTypeOK
  <2>9. CASE ~Counts(r)
    <3>1. count >= Max
      BY <2>1, <2>2, <2>3, <2>4, <2>6, <2>9
         DEF Command, Arrive, EvalSha, NoScript, Eval, Get, Pttl, Handled, Decided, Ends, Goes, ThrewUncounted,
             AwaitsFit, LimitTypeOK
    <3>2. left > 0 /\ Window - left \in Ages /\ upFor > Window - left
      BY <2>2, <3>1, LimitAssumption, BreakerAssumption DEF LimitTypeOK, Ages, BInv, BreakerTypeOK
    <3>3. passed[Window - left] \in 0..Most /\ passed[Window - left] >= Max
      BY <2>2, <3>1, <3>2, LimitAssumption DEF CountIsSeen, LimitTypeOK
    <3>4. passed[Window - left] <= passed[Window - 1]
      BY <2>2, <2>7, <3>2, LimitAssumption DEF Grows, LimitTypeOK, Ages
    <3> QED  BY <2>7, <3>3, <3>4, LimitAssumption
  <2> QED  BY <2>8, <2>9
<1> QED  BY <1>1, LimitInvariant, PTL DEF Spec, RefusalsAreEarned
===============================================================================
