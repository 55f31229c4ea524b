------------------------------ MODULE RequestLog ------------------------------
(***************************************************************************)
(* The request log: lib/logging.ts appends every request to a Redis        *)
(* stream, workers/request-log-worker.ts drains the stream into Postgres   *)
(* every five seconds and purges old rows once a day, and index.ts stops   *)
(* the worker with a final flush before it closes the pool and Redis.      *)
(*                                                                         *)
(* A drain is a loop of three awaits (XRANGE, INSERT, XDEL); when the      *)
(* batch is refused the INSERT is repeated row by row. Each await is a     *)
(* step, and each may fail: a Redis command by timeout or open breaker,    *)
(* after which it may have been applied, or be applied later; an INSERT by *)
(* an error with an SQLSTATE or by a lost connection.                      *)
(***************************************************************************)
EXTENDS Integers, FiniteSets

CONSTANTS
    Entries,        \* stream ids; Redis hands them out in increasing order
    Corrupt,        \* entries whose event does not parse
    Poison,         \* entries with a value some column refuses
    Ageing,         \* entries that may grow older than the retention
    MaxLen,         \* STREAM_MAXLEN
    BatchSize,      \* BATCH_SIZE
    MaxIterations,  \* MAX_ITERATIONS_PER_TICK
    PurgeBatch,     \* PURGE_BATCH_SIZE
    Wrapped,        \* where errors of an INSERT may carry the SQLSTATE: TRUE is
                    \* on their cause (drizzle's wrapper), FALSE on themselves
    ServerErrors    \* Postgres in trouble may answer with an SQLSTATE
                    \* (statement_timeout, restart, no connections left)

ASSUME EntriesAssumption ==
    /\ Entries \subseteq Nat /\ IsFiniteSet(Entries)
    /\ Corrupt \subseteq Entries /\ Poison \subseteq Entries /\ Ageing \subseteq Entries
    /\ MaxLen \in Nat /\ BatchSize \in Nat \ {0} /\ MaxIterations \in Nat \ {0}
    /\ PurgeBatch \in Nat \ {0}
    /\ Wrapped \subseteq BOOLEAN /\ Wrapped # {} /\ ServerErrors \in BOOLEAN

Storable == Entries \ (Corrupt \cup Poison)

VARIABLES
    seen,      \* history: entries appended so far
    stream,    \* the Redis stream
    trimmed,   \* history: entries MAXLEN took out of the stream
    late,      \* entries of XDELs that timed out and Redis may still execute
    rows,      \* the rows of request_log, by stream_id (UNIQUE)
    purged,    \* history: rows removed by retention
    old,       \* entries older than the retention
    pgUp,      \* Postgres answers as it should
    redisUp,   \* Redis answers in time and the breaker is closed
    proc,      \* the process: where its shutdown is
    dr,        \* dr[d]: where drain d is, and its locals
    tracked,   \* currentTick is the promise of the tick that did the work
    purgeDue,  \* a day has passed since lastPurgeAt
    cutoff     \* entries the running purge removes

data == <<seen, stream, trimmed, late, rows, purged, old>>
servers == <<pgUp, redisUp>>
memory == <<proc, dr, tracked, purgeDue, cutoff>>
vars == <<data, servers, memory>>

\* tick() never overlaps itself ("running"), but stop() calls drain() as well.
Drains == {"tick", "flush"}
DrainStates == {"idle", "read", "insert", "rowwise", "delete", "purge"}
ProcStates == {"up", "awaiting", "flushing", "closing", "down"}

Idle == [st |-> "idle", parsed |-> {}, toDelete |-> {}, full |-> FALSE, it |-> 0]
Begin == [Idle EXCEPT !.st = "read"]

Init ==
    /\ seen = {} /\ stream = {} /\ trimmed = {} /\ late = {}
    /\ rows = {} /\ purged = {} /\ old = {}
    /\ pgUp = TRUE /\ redisUp = TRUE
    /\ proc = "up"
    /\ dr = [d \in Drains |-> Idle]
    /\ tracked = TRUE
    /\ purgeDue = TRUE
    /\ cutoff = {}

RedisFails == ~redisUp \/ proc = "closing"
ConnectionFails == ~pgUp \/ proc = "closing"

-------------------------------------------------------------------------------
(* requestLogDrain: XADD with MAXLEN ~ *)

\* Approximate trimming takes any number of the oldest entries beyond MaxLen. An
\* XADD that fails is an append that does not happen: nobody awaits it.
RequestLogDrain(e, S) ==
    /\ proc # "down" /\ redisUp
    /\ \A f \in seen : f < e
    /\ S \subseteq stream
    /\ \A s \in S, f \in (stream \cup {e}) \ S : s < f
    /\ S # {} => Cardinality((stream \cup {e}) \ S) >= MaxLen
    /\ seen' = seen \cup {e}
    /\ stream' = (stream \cup {e}) \ S
    /\ trimmed' = trimmed \cup S
    /\ UNCHANGED <<late, rows, purged, old, servers, memory>>

-------------------------------------------------------------------------------
(* drain(), called by tick() and by stop() *)

Goes(d, r) == dr' = [dr EXCEPT ![d] = r]

\* Mutant: the purge is part of every drain.
ReturnAlwaysPurging(d) ==
    /\ UNCHANGED <<proc, tracked, purgeDue>>
    /\ Goes(d, [Idle EXCEPT !.st = "purge"])
    /\ cutoff' = old

\* drain() returns: the flush is over; the tick purges once a day.
Return(d) ==
    /\ UNCHANGED <<proc, tracked>>
    /\ \/ /\ d = "tick" /\ purgeDue
          /\ Goes(d, [Idle EXCEPT !.st = "purge"])
          /\ purgeDue' = FALSE /\ cutoff' = old
       \/ /\ d # "tick" \/ ~purgeDue
          /\ Goes(d, Idle)
          /\ UNCHANGED <<purgeDue, cutoff>>

\* drain() throws: tick() and stop() log the error and finish.
Throw(d) == Goes(d, Idle) /\ UNCHANGED <<proc, tracked, purgeDue, cutoff>>

\* XRANGE - + COUNT BATCH_SIZE
Oldest == {e \in stream : Cardinality({f \in stream : f < e}) < BatchSize}

Xrange(d) ==
    /\ dr[d].st = "read"
    /\ \/ redisUp /\ Oldest = {} /\ Return(d)
       \/ /\ redisUp /\ Oldest # {}
          /\ Goes(d, [st |-> IF Oldest \subseteq Corrupt THEN "delete" ELSE "insert",
                      parsed |-> Oldest \ Corrupt,
                      toDelete |-> Oldest \cap Corrupt,
                      full |-> Cardinality(Oldest) = BatchSize,
                      it |-> dr[d].it + 1])
          /\ UNCHANGED <<proc, tracked, purgeDue, cutoff>>
       \/ RedisFails /\ Throw(d)
    /\ UNCHANGED <<data, servers>>

\* insert ... on conflict do nothing: one statement, all rows or none.
InsertSucceeds(S) == pgUp /\ S \cap Poison = {} /\ rows' = rows \cup S

\* The statement is refused with an SQLSTATE.
Refused(S) == IF pgUp THEN S \cap Poison # {} ELSE ServerErrors

\* Mutant: an INSERT without a reply counts as done.
InsertAssumed(d, S) ==
    /\ ConnectionFails /\ UNCHANGED rows
    /\ Goes(d, [dr[d] EXCEPT !.st = "delete", !.parsed = {}, !.toDelete = @ \cup S])
    /\ UNCHANGED <<proc, tracked, purgeDue, cutoff>>

\* What isPgDataError takes for a connection error ends the drain: any error
\* without an SQLSTATE of its own. A lost connection may hide a commit.
InsertThrows(d, S) ==
    /\ \/ Refused(S) /\ TRUE \in Wrapped /\ UNCHANGED rows
       \/ ConnectionFails /\ UNCHANGED rows
       \/ ConnectionFails /\ S \cap Poison = {} /\ rows' = rows \cup S
    /\ Throw(d)

\* Mutant: every error condemns the rows, lost connections included.
TakenAsDataErrorAlways(S) == (Refused(S) \/ ConnectionFails) /\ UNCHANGED rows

\* What isPgDataError takes for an error of the data.
TakenAsDataError(S) == Refused(S) /\ FALSE \in Wrapped /\ UNCHANGED rows

InsertBatch(d) ==
    /\ dr[d].st = "insert"
    /\ \/ InsertThrows(d, dr[d].parsed)
       \/ /\ \/ /\ InsertSucceeds(dr[d].parsed)
                /\ Goes(d, [dr[d] EXCEPT !.st = "delete", !.parsed = {},
                                         !.toDelete = @ \cup dr[d].parsed])
             \/ /\ TakenAsDataError(dr[d].parsed)
                /\ Goes(d, [dr[d] EXCEPT !.st = "rowwise"])
          /\ UNCHANGED <<proc, tracked, purgeDue, cutoff>>
    /\ UNCHANGED <<seen, stream, trimmed, late, purged, old, servers>>

\* Mutant: a refused row is skipped but stays in the stream.
InsertRowOrSkip(d, e) ==
    /\ dr[d].st = "rowwise"
    /\ e \in dr[d].parsed /\ \A f \in dr[d].parsed : e <= f
    /\ \/ InsertThrows(d, {e})
       \/ /\ \E stored \in {{}, {e}} :
                /\ IF stored = {} THEN TakenAsDataError({e}) ELSE InsertSucceeds({e})
                /\ Goes(d, [dr[d] EXCEPT
                              !.st = IF dr[d].parsed = {e} THEN "delete" ELSE "rowwise",
                              !.parsed = @ \ {e},
                              !.toDelete = @ \cup stored])
          /\ UNCHANGED <<proc, tracked, purgeDue, cutoff>>
    /\ UNCHANGED <<seen, stream, trimmed, late, purged, old, servers>>

\* Row by row: a row that is refused is discarded, that is, deleted as well.
InsertRow(d, e) ==
    /\ dr[d].st = "rowwise"
    /\ e \in dr[d].parsed /\ \A f \in dr[d].parsed : e <= f
    /\ \/ InsertThrows(d, {e})
       \/ /\ InsertSucceeds({e}) \/ TakenAsDataError({e})
          /\ Goes(d, [dr[d] EXCEPT !.st = IF dr[d].parsed = {e} THEN "delete" ELSE "rowwise",
                                   !.parsed = @ \ {e},
                                   !.toDelete = @ \cup {e}])
          /\ UNCHANGED <<proc, tracked, purgeDue, cutoff>>
    /\ UNCHANGED <<seen, stream, trimmed, late, purged, old, servers>>

\* XDEL; then the next batch, if this one was full and iterations are left.
Xdel(d) ==
    /\ dr[d].st = "delete"
    /\ \/ /\ redisUp
          /\ stream' = stream \ dr[d].toDelete
          /\ UNCHANGED late
          /\ \/ /\ dr[d].full /\ dr[d].it < MaxIterations
                /\ Goes(d, [Begin EXCEPT !.it = dr[d].it])
                /\ UNCHANGED <<proc, tracked, purgeDue, cutoff>>
             \/ /\ ~(dr[d].full /\ dr[d].it < MaxIterations)
                /\ Return(d)
       \/ /\ RedisFails
          /\ \/ stream' = stream \ dr[d].toDelete /\ UNCHANGED late
             \/ UNCHANGED stream /\ late' = late \cup dr[d].toDelete
          /\ Throw(d)
    /\ UNCHANGED <<seen, trimmed, rows, purged, old, servers>>

\* Redis executes commands whose callers have given up.
LateXdel ==
    /\ late # {}
    /\ stream' = stream \ late
    /\ late' = {}
    /\ UNCHANGED <<seen, trimmed, rows, purged, old, servers, memory>>

\* purgeOldLogs: a DELETE ... RETURNING of any PurgeBatch rows before the cutoff,
\* repeated until one comes back with fewer.
PurgeOldLogs(S) ==
    /\ dr["tick"].st = "purge"
    /\ \/ /\ pgUp
          /\ S \subseteq rows \cap cutoff
          /\ Cardinality(S) <= PurgeBatch
          /\ Cardinality(S) < PurgeBatch => S = rows \cap cutoff
          /\ rows' = rows \ S
          /\ purged' = purged \cup S
          /\ Goes("tick", IF Cardinality(S) < PurgeBatch THEN Idle ELSE dr["tick"])
          /\ UNCHANGED <<proc, tracked, purgeDue, cutoff>>
       \/ ConnectionFails /\ S = {} /\ Throw("tick") /\ UNCHANGED <<rows, purged>>
    /\ UNCHANGED <<seen, stream, trimmed, late, old, servers>>

-------------------------------------------------------------------------------
(* The timer, shutdown() and restarts *)

\* setInterval: currentTick = tick(). A tick that finds another one running
\* returns at once, and its promise replaces the one of the running tick.
Interval ==
    /\ proc = "up"
    /\ \/ /\ dr["tick"].st = "idle"
          /\ Goes("tick", Begin)
          /\ tracked' = TRUE
       \/ /\ dr["tick"].st # "idle"
          /\ tracked' = FALSE
          /\ UNCHANGED dr
    /\ UNCHANGED <<data, servers, proc, purgeDue, cutoff>>

\* SIGTERM, once server.stop() has returned: stopped = true, clearInterval.
Stop ==
    /\ proc = "up"
    /\ proc' = "awaiting"
    /\ UNCHANGED <<data, servers, dr, tracked, purgeDue, cutoff>>

\* Mutant: the flush does not wait.
FlushAtOnce ==
    /\ proc = "awaiting"
    /\ proc' = "flushing"
    /\ Goes("flush", Begin)
    /\ UNCHANGED <<data, servers, tracked, purgeDue, cutoff>>

\* await currentTick, then the final drain().
AwaitTick ==
    /\ proc = "awaiting"
    /\ tracked => dr["tick"].st = "idle"
    /\ proc' = "flushing"
    /\ Goes("flush", Begin)
    /\ UNCHANGED <<data, servers, tracked, purgeDue, cutoff>>

\* closeDatabase(), redis.close()
Close ==
    /\ proc = "flushing"
    /\ dr["flush"].st = "idle"
    /\ proc' = "closing"
    /\ UNCHANGED <<data, servers, dr, tracked, purgeDue, cutoff>>

\* process.exit, in the end, after a second signal or an uncaught exception.
Exit ==
    /\ proc # "down"
    /\ proc' = "down"
    /\ dr' = [d \in Drains |-> Idle]
    /\ tracked' = TRUE /\ purgeDue' = TRUE /\ cutoff' = {}
    /\ UNCHANGED <<data, servers>>

\* "restart: unless-stopped": a new process, with lastPurgeAt = 0.
Restart ==
    /\ proc = "down"
    /\ proc' = "up"
    /\ UNCHANGED <<data, servers, dr, tracked, purgeDue, cutoff>>

-------------------------------------------------------------------------------
(* Time and the servers *)

\* Mutant: seconds compared with milliseconds; only a restart makes a purge due.
DayNever == purgeDue /\ UNCHANGED vars

\* The interval between purges has passed.
Day ==
    /\ ~purgeDue
    /\ purgeDue' = TRUE
    /\ UNCHANGED <<data, servers, proc, dr, tracked, cutoff>>

Age(e) ==
    /\ e \in (seen \cap Ageing) \ old
    /\ old' = old \cup {e}
    /\ UNCHANGED <<seen, stream, trimmed, late, rows, purged, servers, memory>>

PgChanges == pgUp' = ~pgUp /\ UNCHANGED <<data, redisUp, memory>>
RedisChanges == redisUp' = ~redisUp /\ UNCHANGED <<data, pgUp, memory>>

-------------------------------------------------------------------------------

DrainStep(d) == Xrange(d) \/ InsertBatch(d) \/ (\E e \in Entries : InsertRow(d, e)) \/ Xdel(d)
Purge == \E S \in SUBSET Entries : PurgeOldLogs(S)
Shutdown == AwaitTick \/ Close \/ (proc = "closing" /\ Exit)

Next ==
    \/ \E e \in Entries, S \in SUBSET Entries : RequestLogDrain(e, S)
    \/ \E d \in Drains : DrainStep(d)
    \/ LateXdel \/ Purge
    \/ Interval \/ Stop \/ AwaitTick \/ Close \/ Exit \/ Restart
    \/ Day \/ (\E e \in Entries : Age(e)) \/ PgChanges \/ RedisChanges

Spec == Init /\ [][Next]_vars

\* Every await settles, the timers run and docker restarts the server.
Fairness ==
    /\ WF_vars(DrainStep("tick") \/ Purge) /\ WF_vars(DrainStep("flush"))
    /\ WF_vars(Interval) /\ WF_vars(Day)
    /\ WF_vars(Shutdown \/ Restart)

FairSpec == Spec /\ Fairness

-------------------------------------------------------------------------------
(* Properties *)

DrainRecord == [st : DrainStates, parsed : SUBSET Entries, toDelete : SUBSET Entries,
                full : BOOLEAN, it : 0..MaxIterations]

DataOK ==
    /\ seen \subseteq Entries /\ stream \subseteq Entries /\ trimmed \subseteq Entries
    /\ late \subseteq Entries /\ rows \subseteq Entries /\ purged \subseteq Entries
    /\ old \subseteq Entries

MemoryOK ==
    /\ proc \in ProcStates
    /\ tracked \in BOOLEAN /\ purgeDue \in BOOLEAN
    /\ cutoff \subseteq Entries

\* Type invariant: sets of entries, drains at one of their awaits; the flush never
\* purges and no drain exceeds MAX_ITERATIONS_PER_TICK.
TypeOK ==
    /\ DataOK /\ MemoryOK
    /\ pgUp \in BOOLEAN /\ redisUp \in BOOLEAN
    /\ dr \in [Drains -> DrainRecord]
    /\ dr["flush"].st # "purge"

\* isPgDataError may take trouble of the server for an error of the data.
Misjudges == FALSE \in Wrapped /\ ServerErrors

Kept == rows \cup purged

\* "abortar el tick y reintentar más tarde sin perder datos" (worker:93-95,
\* 208-210): whatever fails and whenever, a storable entry is in the stream or
\* has reached the table, unless MAXLEN took it.
NothingLost == seen \cap Storable \subseteq stream \cup Kept \cup trimmed

\* "Espera el tick en vuelo (si lo hay)" before the final flush (worker:259), as
\* far as stop() does: the flush and a tick work on the stream at once only if the
\* timer fired again during that tick and replaced its promise.
FlushWaitsUnlessTickSkipped ==
    dr["flush"].st # "idle" /\ tracked => dr["tick"].st = "idle"

\* purgeOldLogs goes on until it has exhausted the old rows (worker:135-140): a
\* purge that ends leaves no row of before its cutoff, unless it failed.
PurgeExhaustsOldRows ==
    [][dr["tick"].st = "purge" /\ dr'["tick"].st # "purge" /\ ~ConnectionFails /\ proc' = proc
         => rows' \cap cutoff = {}]_vars

\* From now on both servers answer and nobody stops the process.
Calm == pgUp /\ redisUp /\ proc = "up"

\* "para no atascar el stream" (worker:101-104, log-schema.ts:57-59): entries no row
\* can be made of, corrupt or poisoned, do not block the stream; once the servers
\* answer, it is drained.
PoisonIsDiscarded == <>[]Calm => <>[](stream = {})

\* An INSERT that Postgres has refused ends the drain.
RefusalUnrecognised ==
    \E d \in Drains : /\ dr[d].st \in {"insert", "rowwise"} /\ dr'[d].st = "idle"
                      /\ ~ConnectionFails

\* From some point on nothing is in the way of the worker.
Undisturbed == <>[]Calm /\ <>[][~RefusalUnrecognised]_vars

\* As far as isPgDataError recognises the refusals, they do not.
StreamDrains == Undisturbed => <>[](stream = {})

\* Rows older than the retention go, whatever interrupted earlier purges.
OldRowsExpire == \A e \in Ageing : Undisturbed => (e \in old ~> e \notin rows)

Held == dr["tick"].parsed \cup dr["flush"].parsed

\* An entry is queued while the stream has it or a drain has yet to store it.
Fate(e) ==
    IF e \in Kept THEN "kept"
    ELSE IF e \in stream \cup Held THEN "queued"
    ELSE IF e \in seen THEN "dropped"
    ELSE "absent"

DL == INSTANCE DurableLog WITH
        Unstorable <- Corrupt \cup Poison,
        fate <- [e \in Entries |-> Fate(e)],
        evictable <- trimmed

\* Stream, worker and table together keep the promise of DurableLog: entries are
\* stored once, and given up only when unstorable or evicted.
ImplementsDurableLog == DL!Spec
===============================================================================
