--------------------------- MODULE RequestLogProofs ---------------------------
(***************************************************************************)
(* Proofs about module RequestLog, for every set of entries of each kind,  *)
(* every batch size and bound, and any number of failures and restarts.    *)
(***************************************************************************)
EXTENDS RequestLog, FiniteSetTheorems, TLAPS

\* The drains; one about to read has iterations left.
DrainsOK ==
    /\ dr \in [Drains -> DrainRecord]
    /\ dr["flush"].st # "purge"
    /\ \A d \in Drains : dr[d].st = "read" => dr[d].it < MaxIterations

ServersOK == pgUp \in BOOLEAN /\ redisUp \in BOOLEAN

BaseInv == DataOK /\ MemoryOK /\ ServersOK /\ DrainsOK

\* In the hands of the shutdown: the flush runs between the wait and the close.
FlushInv ==
    /\ dr["flush"].st # "idle" => proc = "flushing"
    /\ proc \in {"flushing", "closing"} /\ tracked => dr["tick"].st = "idle"

-------------------------------------------------------------------------------
(* Steps of a drain *)

LEMMA IdleType == Idle \in DrainRecord /\ Begin \in DrainRecord
  <1>1. 0 \in 0..MaxIterations
    BY EntriesAssumption
  <1>2. QED
    BY <1>1 DEF Idle, Begin, DrainRecord, DrainStates

\* Goes changes one drain only.
LEMMA GoesOne ==
    ASSUME dr \in [Drains -> DrainRecord], NEW d \in Drains,
           NEW r \in DrainRecord, Goes(d, r)
    PROVE  /\ dr' \in [Drains -> DrainRecord]
           /\ dr'[d] = r
           /\ \A x \in Drains : x # d => dr'[x] = dr[x]
  BY DEF Goes

\* A drain that returns or throws is idle, except for the tick that purges.
LEMMA Ends ==
    ASSUME dr \in [Drains -> DrainRecord], NEW d \in Drains, Return(d) \/ Throw(d)
    PROVE  /\ dr' \in [Drains -> DrainRecord]
           /\ \A x \in Drains : x # d => dr'[x] = dr[x]
           /\ dr'[d].st \in {"idle", "purge"}
           /\ dr'[d].st = "purge" => d = "tick"
           /\ dr'[d].parsed = {} /\ dr'[d].toDelete = {}
           /\ proc' = proc /\ tracked' = tracked
           /\ purgeDue' \in {purgeDue, FALSE}
           /\ cutoff' \in {old, cutoff}
  <1>1. Idle \in DrainRecord /\ Idle.st = "idle" /\ Idle.parsed = {} /\ Idle.toDelete = {}
    BY IdleType DEF Idle
  <1> DEFINE P == [Idle EXCEPT !.st = "purge"]
  <1>2. P \in DrainRecord /\ P.st = "purge" /\ P.parsed = {} /\ P.toDelete = {}
    BY IdleType DEF DrainRecord, DrainStates, Idle
  <1>3. CASE Goes(d, Idle) /\ UNCHANGED <<proc, tracked, purgeDue, cutoff>>
    BY <1>1, <1>3, GoesOne
  <1>4. CASE d = "tick" /\ Goes(d, P) /\ UNCHANGED <<proc, tracked>> /\ purgeDue' = FALSE /\ cutoff' = old
    BY <1>2, <1>4, GoesOne
  <1>5. QED
    BY <1>3, <1>4 DEF Return, Throw

\* Both outcomes of the reading of a batch.
LEMMA OldestType == Oldest \subseteq stream
  BY DEF Oldest

-------------------------------------------------------------------------------
(* Type correctness *)

LEMMA BaseInit == Init => BaseInv
  <1>1. Init => DrainsOK
    BY IdleType DEF Init, DrainsOK, Drains, Idle
  <1>2. Init => DataOK /\ MemoryOK /\ ServersOK
    BY DEF Init, DataOK, MemoryOK, ServersOK, ProcStates
  <1>3. QED
    BY <1>1, <1>2 DEF BaseInv

\* A drain that goes on to another await, not the purge.
LEMMA GoesOn ==
    ASSUME DrainsOK, MemoryOK, NEW d \in Drains, NEW r \in DrainRecord, Goes(d, r),
           r.st # "purge", r.st = "read" => r.it < MaxIterations,
           UNCHANGED <<proc, tracked, purgeDue, cutoff>>
    PROVE  DrainsOK' /\ MemoryOK'
  <1>1. DrainsOK'
    BY GoesOne DEF DrainsOK, Drains
  <1>2. QED
    BY <1>1 DEF MemoryOK

LEMMA EndsType ==
    ASSUME BaseInv, NEW d \in Drains, Return(d) \/ Throw(d)
    PROVE  DrainsOK' /\ MemoryOK'
  <1>1. DrainsOK'
    BY Ends DEF BaseInv, DrainsOK, Drains
  <1>2. MemoryOK'
    BY Ends DEF BaseInv, DrainsOK, MemoryOK, DataOK
  <1>3. QED
    BY <1>1, <1>2

LEMMA ServersStay == ASSUME ServersOK, UNCHANGED servers PROVE ServersOK'
  BY DEF ServersOK, servers

LEMMA BaseXrange ==
    ASSUME BaseInv, NEW d \in Drains, Xrange(d)
    PROVE  BaseInv'
  <1>1. DataOK' /\ ServersOK'
    BY ServersStay DEF BaseInv, Xrange, DataOK, data
  <1>2. DrainsOK' /\ MemoryOK'
    <2>1. CASE Return(d) \/ Throw(d)
      BY <2>1, EndsType
    <2>2. CASE ~Return(d) /\ ~Throw(d)
      <3> DEFINE r == [st |-> IF Oldest \subseteq Corrupt THEN "delete" ELSE "insert",
                       parsed |-> Oldest \ Corrupt,
                       toDelete |-> Oldest \cap Corrupt,
                       full |-> Cardinality(Oldest) = BatchSize,
                       it |-> dr[d].it + 1]
      <3>1. Goes(d, r) /\ UNCHANGED <<proc, tracked, purgeDue, cutoff>>
        BY <2>2 DEF Xrange
      <3>2. dr[d].it + 1 \in 0..MaxIterations
        BY EntriesAssumption DEF Xrange, BaseInv, DrainsOK, DrainRecord
      <3>3. r \in DrainRecord /\ r.st \notin {"read", "purge"}
        BY <3>2, OldestType DEF DrainRecord, DrainStates, BaseInv, DataOK
      <3> HIDE DEF r
      <3>4. QED
        BY <3>1, <3>3, GoesOn DEF BaseInv
    <2>3. QED
      BY <2>1, <2>2
  <1>3. QED
    BY <1>1, <1>2 DEF BaseInv

\* Rows come from batches.
LEMMA InsertsType ==
    ASSUME DataOK, NEW S \in SUBSET Entries,
           \/ InsertSucceeds(S) \/ TakenAsDataError(S)
           \/ \E d \in Drains : InsertThrows(d, S)
    PROVE  rows' \subseteq rows \cup S
  BY DEF InsertSucceeds, TakenAsDataError, InsertThrows

LEMMA BaseInsertBatch ==
    ASSUME BaseInv, NEW d \in Drains, InsertBatch(d)
    PROVE  BaseInv'
  <1> DEFINE S == dr[d].parsed
  <1>1. S \in SUBSET Entries /\ dr[d] \in DrainRecord
    BY DEF BaseInv, DrainsOK, DrainRecord
  <1>2. rows' \subseteq rows \cup S
    BY <1>1, InsertsType DEF InsertBatch, BaseInv
  <1>3. DataOK' /\ ServersOK'
    BY <1>1, <1>2, ServersStay DEF BaseInv, InsertBatch, DataOK
  <1>4. DrainsOK' /\ MemoryOK'
    <2>1. CASE Throw(d)
      BY <2>1, EndsType
    <2>2. CASE \E r \in DrainRecord : /\ Goes(d, r) /\ r.st \in {"delete", "rowwise"}
                                     /\ UNCHANGED <<proc, tracked, purgeDue, cutoff>>
      BY <2>2, GoesOn DEF BaseInv
    <2>3. /\ [dr[d] EXCEPT !.st = "delete", !.parsed = {}, !.toDelete = @ \cup S] \in DrainRecord
          /\ [dr[d] EXCEPT !.st = "rowwise"] \in DrainRecord
      BY <1>1 DEF DrainRecord, DrainStates
    <2>4. QED
      <3> DEFINE r1 == [dr[d] EXCEPT !.st = "delete", !.parsed = {}, !.toDelete = @ \cup S]
                 r2 == [dr[d] EXCEPT !.st = "rowwise"]
      <3>1. r1.st = "delete" /\ r2.st = "rowwise"
        BY <1>1 DEF DrainRecord
      <3>2. \/ Throw(d)
            \/ /\ Goes(d, r1) \/ Goes(d, r2)
               /\ UNCHANGED <<proc, tracked, purgeDue, cutoff>>
        BY DEF InsertBatch, InsertThrows
      <3> HIDE DEF r1, r2
      <3>3. r1 \in DrainRecord /\ r2 \in DrainRecord
        BY <2>3 DEF r1, r2
      <3>4. QED
        BY <2>1, <2>2, <3>1, <3>2, <3>3
  <1>5. QED
    BY <1>3, <1>4 DEF BaseInv

LEMMA BaseInsertRow ==
    ASSUME BaseInv, NEW d \in Drains, NEW e \in Entries, InsertRow(d, e)
    PROVE  BaseInv'
  <1>1. dr[d] \in DrainRecord
    BY DEF BaseInv, DrainsOK
  <1>2. rows' \subseteq rows \cup {e}
    BY InsertsType DEF InsertRow, BaseInv
  <1>3. DataOK' /\ ServersOK'
    BY <1>2, ServersStay DEF BaseInv, InsertRow, DataOK
  <1>4. DrainsOK' /\ MemoryOK'
    <2> DEFINE r == [dr[d] EXCEPT !.st = IF dr[d].parsed = {e} THEN "delete" ELSE "rowwise",
                                  !.parsed = @ \ {e},
                                  !.toDelete = @ \cup {e}]
    <2>1. r \in DrainRecord /\ r.st \in {"delete", "rowwise"}
      BY <1>1 DEF DrainRecord, DrainStates
    <2>2. Throw(d) \/ (Goes(d, r) /\ UNCHANGED <<proc, tracked, purgeDue, cutoff>>)
      BY DEF InsertRow, InsertThrows
    <2> HIDE DEF r
    <2>3. QED
      BY <2>1, <2>2, EndsType, GoesOn DEF BaseInv
  <1>5. QED
    BY <1>3, <1>4 DEF BaseInv

LEMMA BaseXdel ==
    ASSUME BaseInv, NEW d \in Drains, Xdel(d)
    PROVE  BaseInv'
  <1>1. dr[d] \in DrainRecord /\ dr[d].toDelete \subseteq Entries
    BY DEF BaseInv, DrainsOK, DrainRecord
  <1>2. DataOK' /\ ServersOK'
    <2>1. stream' \subseteq stream /\ late' \subseteq late \cup dr[d].toDelete
      BY DEF Xdel
    <2>2. QED
      BY <1>1, <2>1, ServersStay DEF BaseInv, Xdel, DataOK
  <1>3. DrainsOK' /\ MemoryOK'
    <2> DEFINE r == [Begin EXCEPT !.it = dr[d].it]
    <2>1. r \in DrainRecord /\ r.st = "read" /\ r.it = dr[d].it
      BY <1>1, IdleType DEF DrainRecord, Begin, Idle
    <2>2. \/ Return(d) \/ Throw(d)
          \/ /\ Goes(d, r) /\ dr[d].it < MaxIterations
             /\ UNCHANGED <<proc, tracked, purgeDue, cutoff>>
      BY DEF Xdel
    <2> HIDE DEF r
    <2>3. QED
      BY <2>1, <2>2, EndsType, GoesOn DEF BaseInv
  <1>4. QED
    BY <1>2, <1>3 DEF BaseInv

LEMMA BasePurge ==
    ASSUME BaseInv, NEW S \in SUBSET Entries, PurgeOldLogs(S)
    PROVE  BaseInv'
  <1>1. DataOK' /\ ServersOK'
    <2>1. rows' \subseteq rows /\ purged' \subseteq purged \cup S
      BY DEF PurgeOldLogs
    <2>2. QED
      BY <2>1, ServersStay DEF BaseInv, PurgeOldLogs, DataOK
  <1>2. DrainsOK' /\ MemoryOK'
    <2>1. CASE Throw("tick")
      BY <2>1, EndsType DEF Drains
    <2>2. CASE Goes("tick", Idle) /\ UNCHANGED <<proc, tracked, purgeDue, cutoff>>
      BY <2>2, GoesOn, IdleType DEF Idle, Drains, BaseInv
    <2>3. CASE Goes("tick", dr["tick"]) /\ UNCHANGED <<proc, tracked, purgeDue, cutoff>>
      <3>1. dr' = dr
        BY <2>3 DEF Goes, BaseInv, DrainsOK, Drains
      <3>2. QED
        BY <2>3, <3>1 DEF BaseInv, DrainsOK, MemoryOK
    <2>4. QED
      BY <2>1, <2>2, <2>3 DEF PurgeOldLogs
  <1>3. QED
    BY <1>1, <1>2 DEF BaseInv

\* The worker's timer, the shutdown and restarts leave the data alone.
LEMMA BaseProcess ==
    ASSUME BaseInv, Interval \/ Stop \/ AwaitTick \/ Close \/ Exit \/ Restart \/ Day
    PROVE  BaseInv'
  <1>1. UNCHANGED data /\ UNCHANGED servers
    BY DEF Interval, Stop, AwaitTick, Close, Exit, Restart, Day
  <1>2. DataOK' /\ ServersOK'
    BY <1>1, ServersStay DEF BaseInv, DataOK, data
  <1>3. MemoryOK'
    BY DEF BaseInv, MemoryOK, ProcStates, Interval, Stop, AwaitTick, Close, Exit, Restart, Day
  <1>4. DrainsOK'
    <2>1. CASE UNCHANGED dr
      BY <2>1 DEF BaseInv, DrainsOK
    <2>2. CASE \E d \in Drains : Goes(d, Begin)
      <3>1. PICK d \in Drains : Goes(d, Begin)
        BY <2>2
      <3>2. Begin.st = "read" /\ Begin.it < MaxIterations /\ Begin \in DrainRecord
        BY IdleType, EntriesAssumption DEF Begin, Idle
      <3>3. QED
        BY <3>1, <3>2, GoesOne DEF BaseInv, DrainsOK, Drains
    <2>3. CASE dr' = [d \in Drains |-> Idle]
      BY <2>3, IdleType DEF DrainsOK, Drains, Idle
    <2>4. QED
      BY <2>1, <2>2, <2>3
      DEF Interval, Stop, AwaitTick, Close, Exit, Restart, Day, Drains
  <1>5. QED
    BY <1>2, <1>3, <1>4 DEF BaseInv

\* So do the servers, time and appends with the process.
LEMMA BaseWorld ==
    ASSUME BaseInv,
           \/ \E e \in Entries, S \in SUBSET Entries : RequestLogDrain(e, S)
           \/ LateXdel \/ (\E e \in Entries : Age(e)) \/ PgChanges \/ RedisChanges
    PROVE  BaseInv'
  <1>1. UNCHANGED <<proc, dr, tracked, purgeDue, cutoff>>
    BY DEF RequestLogDrain, LateXdel, Age, PgChanges, RedisChanges, memory
  <1>2. DrainsOK' /\ MemoryOK'
    BY <1>1 DEF BaseInv, DrainsOK, MemoryOK
  <1>3. ServersOK'
    BY DEF BaseInv, ServersOK, RequestLogDrain, LateXdel, Age, PgChanges, RedisChanges, servers
  <1>4. DataOK'
    BY DEF BaseInv, DataOK, RequestLogDrain, LateXdel, Age, PgChanges, RedisChanges, data
  <1>5. QED
    BY <1>2, <1>3, <1>4 DEF BaseInv

LEMMA BaseStep == BaseInv /\ [Next]_vars => BaseInv'
  <1> SUFFICES ASSUME BaseInv, [Next]_vars PROVE BaseInv'
    OBVIOUS
  <1>1. CASE UNCHANGED vars
    BY <1>1 DEF vars, data, servers, memory, BaseInv, DataOK, MemoryOK, ServersOK, DrainsOK
  <1>2. CASE Next
    BY <1>2, BaseXrange, BaseInsertBatch, BaseInsertRow, BaseXdel, BasePurge, BaseProcess,
       BaseWorld
    DEF Next, DrainStep, Purge
  <1>3. QED
    BY <1>1, <1>2

\* Every variable of the log keeps its type, and no drain exceeds its iterations.
THEOREM LogTypeCorrect == Spec => []TypeOK
  <1>1. BaseInv => TypeOK
    BY DEF BaseInv, TypeOK, ServersOK, DrainsOK
  <1>2. QED
    BY <1>1, BaseInit, BaseStep, PTL DEF Spec

-------------------------------------------------------------------------------
(* The flush and the tick *)

\* A step of a drain leaves the process and the other drain alone.
LEMMA DrainStepsAreLocal ==
    ASSUME BaseInv, NEW d \in Drains, DrainStep(d)
    PROVE  /\ dr[d].st \in {"read", "insert", "rowwise", "delete"}
           /\ proc' = proc /\ tracked' = tracked
           /\ \A x \in Drains : x # d => dr'[x] = dr[x]
  <1>1. \/ Return(d) \/ Throw(d)
        \/ (\E r : Goes(d, r)) /\ UNCHANGED <<proc, tracked>>
    BY DEF DrainStep, Xrange, InsertBatch, InsertRow, InsertThrows, Xdel
  <1>2. \/ UNCHANGED <<proc, tracked>> /\ \E r : Goes(d, r)
    BY <1>1 DEF Return, Throw
  <1>3. dr[d].st \in {"read", "insert", "rowwise", "delete"}
    BY DEF DrainStep, Xrange, InsertBatch, InsertRow, Xdel
  <1>4. QED
    BY <1>2, <1>3 DEF Goes, BaseInv, DrainsOK

LEMMA PurgesAreLocal ==
    ASSUME BaseInv, NEW S, PurgeOldLogs(S)
    PROVE  /\ dr["tick"].st = "purge"
           /\ proc' = proc /\ tracked' = tracked
           /\ dr'["flush"] = dr["flush"]
  <1>1. dr["tick"].st = "purge" /\ UNCHANGED <<proc, tracked>> /\ \E r : Goes("tick", r)
    BY DEF PurgeOldLogs, Throw
  <1>2. QED
    BY <1>1 DEF Goes, BaseInv, DrainsOK, Drains

LEMMA FlushStep ==
    ASSUME BaseInv, FlushInv, [Next]_vars
    PROVE  FlushInv'
  <1>1. CASE \E d \in Drains : DrainStep(d)
    <2>1. PICK d \in Drains : DrainStep(d)
      BY <1>1
    <2>2. CASE d = "tick"
      BY <2>1, <2>2, DrainStepsAreLocal DEF FlushInv, Drains
    <2>3. CASE d = "flush"
      BY <2>1, <2>3, DrainStepsAreLocal DEF FlushInv, Drains
    <2>4. QED
      BY <2>2, <2>3 DEF Drains
  <1>2. CASE Purge
    BY <1>2, PurgesAreLocal DEF FlushInv, Purge
  <1>3. CASE Interval \/ AwaitTick
    BY <1>3 DEF FlushInv, Interval, AwaitTick, Goes, Begin, Idle, BaseInv, DrainsOK, Drains
  <1>4. CASE Exit
    BY <1>4 DEF FlushInv, Exit, Idle, Drains
  <1>5. CASE Stop \/ Close \/ Restart
    BY <1>5 DEF FlushInv, Stop, Close, Restart
  <1>6. CASE UNCHANGED <<proc, dr, tracked>>
    BY <1>6 DEF FlushInv
  <1>7. QED
    BY <1>1, <1>2, <1>3, <1>4, <1>5, <1>6
    DEF Next, Day, Age, PgChanges, RedisChanges, RequestLogDrain, LateXdel, memory, vars

\* The final flush meets a running tick only if the timer has fired during it.
THEOREM FlushWaits == Spec => []FlushWaitsUnlessTickSkipped
  <1>1. Init => FlushInv
    BY DEF Init, FlushInv, Idle, Drains
  <1>2. FlushInv => FlushWaitsUnlessTickSkipped
    BY DEF FlushInv, FlushWaitsUnlessTickSkipped
  <1>3. QED
    BY <1>1, <1>2, BaseInit, BaseStep, FlushStep, PTL DEF Spec

-------------------------------------------------------------------------------
(* The purge *)

\* A purge ends by exhausting the rows of before its cutoff, unless it fails.
THEOREM PurgeExhausts == Spec => PurgeExhaustsOldRows
  <1> DEFINE A == dr["tick"].st = "purge" /\ dr'["tick"].st # "purge" /\ ~ConnectionFails
                  /\ proc' = proc => rows' \cap cutoff = {}
  <1>1. ASSUME BaseInv, [Next]_vars, dr["tick"].st = "purge", dr'["tick"].st # "purge",
               ~ConnectionFails, proc' = proc
        PROVE  rows' \cap cutoff = {}
    <2>1. CASE Purge
      <3>1. PICK S \in SUBSET Entries : PurgeOldLogs(S)
        BY <1>1, <2>1 DEF Purge
      <3>2. /\ Cardinality(S) < PurgeBatch => S = rows \cap cutoff
            /\ rows' = rows \ S
            /\ Goes("tick", IF Cardinality(S) < PurgeBatch THEN Idle ELSE dr["tick"])
        BY <1>1, <3>1 DEF PurgeOldLogs
      <3>3. Cardinality(S) < PurgeBatch
        BY <1>1, <3>2 DEF Goes, BaseInv, DrainsOK, Drains
      <3>4. QED
        BY <3>2, <3>3
    <2>2. CASE \E d \in Drains : DrainStep(d)
      BY <1>1, <2>2, DrainStepsAreLocal DEF Drains
    <2>3. CASE Interval \/ AwaitTick
      BY <1>1, <2>3 DEF Interval, AwaitTick, Goes, BaseInv, DrainsOK, Drains
    <2>4. CASE Exit
      BY <1>1, <2>4 DEF Exit
    <2>5. CASE UNCHANGED dr
      BY <1>1, <2>5
    <2>6. QED
      BY <1>1, <2>1, <2>2, <2>3, <2>4, <2>5
      DEF Next, Stop, Close, Restart, Day, Age, PgChanges, RedisChanges, RequestLogDrain,
          LateXdel, memory, vars
  <1>2. BaseInv /\ [Next]_vars => [A]_vars
    BY <1>1
  <1>3. QED
    BY <1>2, BaseInit, BaseStep, PTL DEF Spec, PurgeExhaustsOldRows

-------------------------------------------------------------------------------
(* Nothing is lost *)

\* What a drain knows of its entries: they come from the stream, those still to
\* be stored parse, and those to be deleted are stored or cannot be.
DrainInv(d) ==
    /\ dr[d].parsed \subseteq seen \ Corrupt
    /\ dr[d].toDelete \cap Storable \subseteq Kept

LogInv ==
    /\ stream \subseteq seen /\ trimmed \subseteq seen /\ Kept \subseteq seen
    /\ \A d \in Drains : DrainInv(d)
    /\ late \cap Storable \subseteq Kept
    /\ NothingLost

\* Rows are only ever moved to the purged ones.
LEMMA InsertsGrow ==
    ASSUME NEW S, NEW d,
           InsertSucceeds(S) \/ TakenAsDataError(S) \/ InsertThrows(d, S)
    PROVE  /\ rows \subseteq rows' /\ rows' \subseteq rows \cup S
           /\ rows' # rows => S \cap Poison = {}
  BY DEF InsertSucceeds, TakenAsDataError, InsertThrows

\* A drain that returns or throws forgets its entries.
LEMMA LogEnds ==
    ASSUME BaseInv, NEW d \in Drains, Return(d) \/ Throw(d),
           \A x \in Drains : DrainInv(x), Kept \subseteq Kept', seen' = seen
    PROVE  \A x \in Drains : DrainInv(x)'
  BY Ends DEF DrainInv, BaseInv, DrainsOK

\* One that goes on takes entries of the stream and deletes settled ones.
LEMMA LogGoesOn ==
    ASSUME BaseInv, NEW d \in Drains, NEW r \in DrainRecord, Goes(d, r),
           \A x \in Drains : DrainInv(x), Kept \subseteq Kept', seen' = seen,
           r.parsed \subseteq seen \ Corrupt, r.toDelete \cap Storable \subseteq Kept'
    PROVE  \A x \in Drains : DrainInv(x)'
  BY GoesOne DEF DrainInv, BaseInv, DrainsOK

LEMMA LogXrange ==
    ASSUME BaseInv, LogInv, NEW d \in Drains, Xrange(d)
    PROVE  LogInv'
  <1>1. UNCHANGED <<seen, stream, trimmed, late, rows, purged>>
    BY DEF Xrange, data
  <1>2. \A x \in Drains : DrainInv(x)'
    <2>1. CASE Return(d) \/ Throw(d)
      BY <1>1, <2>1, LogEnds DEF LogInv, Kept
    <2>2. CASE ~Return(d) /\ ~Throw(d)
      <3> DEFINE r == [st |-> IF Oldest \subseteq Corrupt THEN "delete" ELSE "insert",
                       parsed |-> Oldest \ Corrupt,
                       toDelete |-> Oldest \cap Corrupt,
                       full |-> Cardinality(Oldest) = BatchSize,
                       it |-> dr[d].it + 1]
      <3>1. Goes(d, r)
        BY <2>2 DEF Xrange
      <3>2. dr[d].it + 1 \in 0..MaxIterations
        BY EntriesAssumption DEF Xrange, BaseInv, DrainsOK, DrainRecord
      <3>3. r \in DrainRecord
        BY <3>2, OldestType DEF DrainRecord, DrainStates, BaseInv, DataOK
      <3>4. r.parsed \subseteq seen \ Corrupt /\ r.toDelete \cap Storable = {}
        BY OldestType DEF LogInv, Storable
      <3> HIDE DEF r
      <3>5. QED
        BY <1>1, <3>1, <3>3, <3>4, LogGoesOn DEF LogInv, Kept
    <2>3. QED
      BY <2>1, <2>2
  <1>3. QED
    BY <1>1, <1>2 DEF LogInv, Kept, NothingLost

\* What any step of the table may do to the log.
LEMMA LogTable ==
    ASSUME LogInv, Kept \subseteq Kept', Kept' \subseteq seen,
           \A x \in Drains : DrainInv(x)',
           UNCHANGED <<seen, stream, trimmed, late>>
    PROVE  LogInv'
  BY DEF LogInv, NothingLost

LEMMA LogInsertBatch ==
    ASSUME BaseInv, LogInv, NEW d \in Drains, InsertBatch(d)
    PROVE  LogInv'
  <1> DEFINE S == dr[d].parsed
             r1 == [dr[d] EXCEPT !.st = "delete", !.parsed = {}, !.toDelete = @ \cup S]
             r2 == [dr[d] EXCEPT !.st = "rowwise"]
  <1>1. UNCHANGED <<seen, stream, trimmed, late, purged>>
    BY DEF InsertBatch
  <1>2. dr[d] \in DrainRecord /\ DrainInv(d)
    BY DEF BaseInv, DrainsOK, LogInv
  <1>3. rows \subseteq rows' /\ rows' \subseteq rows \cup S
    BY InsertsGrow DEF InsertBatch
  <1>4. Kept \subseteq Kept' /\ Kept' \subseteq seen
    BY <1>1, <1>2, <1>3 DEF Kept, LogInv, DrainInv
  <1>5. /\ r1 \in DrainRecord /\ r1.parsed = {} /\ r1.toDelete = dr[d].toDelete \cup S
        /\ r2 \in DrainRecord /\ r2.parsed = S /\ r2.toDelete = dr[d].toDelete
    BY <1>2 DEF DrainRecord, DrainStates
  <1>6. \/ Throw(d)
        \/ Goes(d, r1) /\ S \subseteq rows'
        \/ Goes(d, r2)
    BY DEF InsertBatch, InsertThrows, InsertSucceeds
  <1> HIDE DEF r1, r2
  <1>7. \A x \in Drains : DrainInv(x)'
    <2>1. CASE Throw(d)
      BY <1>1, <1>4, <2>1, LogEnds DEF LogInv
    <2>2. CASE Goes(d, r1) /\ S \subseteq rows'
      <3>1. r1.toDelete \cap Storable \subseteq Kept'
        BY <1>2, <1>4, <1>5, <2>2 DEF DrainInv, Kept
      <3>2. QED
        BY <1>1, <1>4, <1>5, <2>2, <3>1, LogGoesOn DEF LogInv
    <2>3. CASE Goes(d, r2)
      <3>1. r2.toDelete \cap Storable \subseteq Kept' /\ r2.parsed \subseteq seen \ Corrupt
        BY <1>2, <1>4, <1>5 DEF DrainInv
      <3>2. QED
        BY <1>1, <1>4, <1>5, <2>3, <3>1, LogGoesOn DEF LogInv
    <2>4. QED
      BY <1>6, <2>1, <2>2, <2>3
  <1>8. QED
    BY <1>1, <1>4, <1>7, LogTable

LEMMA LogInsertRow ==
    ASSUME BaseInv, LogInv, ~Misjudges, NEW d \in Drains, NEW e \in Entries, InsertRow(d, e)
    PROVE  LogInv'
  <1> DEFINE r == [dr[d] EXCEPT !.st = IF dr[d].parsed = {e} THEN "delete" ELSE "rowwise",
                                !.parsed = @ \ {e},
                                !.toDelete = @ \cup {e}]
  <1>1. UNCHANGED <<seen, stream, trimmed, late, purged>> /\ e \in dr[d].parsed
    BY DEF InsertRow
  <1>2. dr[d] \in DrainRecord /\ DrainInv(d)
    BY DEF BaseInv, DrainsOK, LogInv
  <1>3. rows \subseteq rows' /\ rows' \subseteq rows \cup {e}
    BY InsertsGrow DEF InsertRow
  <1>4. Kept \subseteq Kept' /\ Kept' \subseteq seen
    BY <1>1, <1>2, <1>3 DEF Kept, LogInv, DrainInv
  <1>5. /\ r \in DrainRecord
        /\ r.parsed = dr[d].parsed \ {e} /\ r.toDelete = dr[d].toDelete \cup {e}
    BY <1>2 DEF DrainRecord, DrainStates
  <1>6. \/ Throw(d)
        \/ Goes(d, r) /\ (InsertSucceeds({e}) \/ TakenAsDataError({e}))
    BY DEF InsertRow, InsertThrows
  <1> HIDE DEF r
  <1>7. CASE Throw(d)
    BY <1>1, <1>4, <1>7, LogEnds, LogTable DEF LogInv
  <1>8. CASE Goes(d, r) /\ (InsertSucceeds({e}) \/ TakenAsDataError({e}))
    <2>1. e \in Kept' \/ e \notin Storable
      <3>1. CASE InsertSucceeds({e})
        BY <3>1 DEF InsertSucceeds, Kept
      <3>2. CASE TakenAsDataError({e})
        BY <3>2 DEF TakenAsDataError, Refused, Misjudges, Storable
      <3>3. QED
        BY <1>8, <3>1, <3>2
    <2>2. r.toDelete \cap Storable \subseteq Kept' /\ r.parsed \subseteq seen \ Corrupt
      BY <1>2, <1>4, <1>5, <2>1 DEF DrainInv
    <2>3. QED
      BY <1>1, <1>4, <1>5, <1>8, <2>2, LogGoesOn, LogTable DEF LogInv
  <1>9. QED
    BY <1>6, <1>7, <1>8

LEMMA LogXdel ==
    ASSUME BaseInv, LogInv, NEW d \in Drains, Xdel(d)
    PROVE  LogInv'
  <1>1. UNCHANGED <<seen, trimmed, rows, purged>>
    BY DEF Xdel
  <1>2. dr[d].toDelete \cap Storable \subseteq Kept
    BY DEF LogInv, DrainInv
  <1>3. /\ stream' \subseteq stream /\ stream \subseteq stream' \cup dr[d].toDelete
        /\ late' \subseteq late \cup dr[d].toDelete
    BY DEF Xdel
  <1>4. \A x \in Drains : DrainInv(x)'
    <2> DEFINE r == [Begin EXCEPT !.it = dr[d].it]
    <2>1. dr[d] \in DrainRecord
      BY DEF BaseInv, DrainsOK
    <2>2. r \in DrainRecord /\ r.parsed = {} /\ r.toDelete = {}
      BY <2>1, IdleType DEF DrainRecord, Begin, Idle
    <2>3. Return(d) \/ Throw(d) \/ Goes(d, r)
      BY DEF Xdel
    <2> HIDE DEF r
    <2>4. QED
      BY <1>1, <2>2, <2>3, LogEnds, LogGoesOn DEF LogInv, Kept
  <1>5. QED
    BY <1>1, <1>2, <1>3, <1>4 DEF LogInv, Kept, NothingLost

LEMMA LogPurge ==
    ASSUME BaseInv, LogInv, NEW S \in SUBSET Entries, PurgeOldLogs(S)
    PROVE  LogInv'
  <1>1. UNCHANGED <<seen, stream, trimmed, late>> /\ Kept' = Kept
    BY DEF PurgeOldLogs, Kept
  <1>2. \A x \in Drains : DrainInv(x)'
    <2>1. Throw("tick") \/ Goes("tick", Idle) \/ Goes("tick", dr["tick"])
      BY DEF PurgeOldLogs
    <2>2. dr["tick"] \in DrainRecord /\ DrainInv("tick") /\ Idle.parsed = {} /\ Idle.toDelete = {}
      BY DEF BaseInv, DrainsOK, LogInv, Drains, Idle
    <2>3. QED
      BY <1>1, <2>1, <2>2, IdleType, LogEnds, LogGoesOn DEF LogInv, Drains, DrainInv
  <1>3. QED
    BY <1>1, <1>2, LogTable DEF LogInv

\* Steps of the process: its drains begin or are forgotten.
LEMMA LogProcess ==
    ASSUME BaseInv, LogInv, Interval \/ Stop \/ AwaitTick \/ Close \/ Exit \/ Restart \/ Day
    PROVE  LogInv'
  <1>1. UNCHANGED <<seen, stream, trimmed, late, rows, purged>>
    BY DEF Interval, Stop, AwaitTick, Close, Exit, Restart, Day, data
  <1>2. UNCHANGED dr \/ (\E d \in Drains : Goes(d, Begin)) \/ dr' = [d \in Drains |-> Idle]
    BY DEF Interval, Stop, AwaitTick, Close, Exit, Restart, Day, Drains
  <1>3. \A x \in Drains : DrainInv(x)'
    <2>1. CASE UNCHANGED dr
      BY <1>1, <2>1 DEF LogInv, DrainInv, Kept
    <2>2. CASE \E d \in Drains : Goes(d, Begin)
      BY <1>1, <2>2, IdleType, LogGoesOn DEF LogInv, Kept, Begin, Idle
    <2>3. CASE dr' = [d \in Drains |-> Idle]
      BY <2>3 DEF DrainInv, Idle
    <2>4. QED
      BY <1>2, <2>1, <2>2, <2>3
  <1>4. QED
    BY <1>1, <1>3 DEF LogInv, Kept, NothingLost

LEMMA LogAppend ==
    ASSUME LogInv, NEW e \in Entries, NEW S \in SUBSET Entries, RequestLogDrain(e, S)
    PROVE  LogInv'
  <1>1. /\ seen' = seen \cup {e} /\ stream' = (stream \cup {e}) \ S
        /\ trimmed' = trimmed \cup S /\ S \subseteq stream
        /\ UNCHANGED <<late, rows, purged, dr>>
    BY DEF RequestLogDrain, memory
  <1>2. \A x \in Drains : DrainInv(x)'
    BY <1>1 DEF LogInv, DrainInv, Kept
  <1>3. QED
    BY <1>1, <1>2 DEF LogInv, Kept, NothingLost

LEMMA LogStep ==
    ASSUME ~Misjudges, BaseInv, LogInv, [Next]_vars
    PROVE  LogInv'
  <1>1. CASE LateXdel
    BY <1>1 DEF LateXdel, LogInv, DrainInv, Kept, NothingLost, memory
  <1>2. CASE UNCHANGED <<seen, stream, trimmed, late, rows, purged, dr>>
    BY <1>2 DEF LogInv, DrainInv, Kept, NothingLost
  <1>3. CASE Next
    <2>1. CASE \E d \in Drains : DrainStep(d)
      BY <2>1, LogXrange, LogInsertBatch, LogInsertRow, LogXdel DEF DrainStep
    <2>2. CASE Purge
      BY <2>2, LogPurge DEF Purge
    <2>3. CASE Interval \/ Stop \/ AwaitTick \/ Close \/ Exit \/ Restart \/ Day
      BY <2>3, LogProcess
    <2>4. CASE \E e \in Entries, S \in SUBSET Entries : RequestLogDrain(e, S)
      BY <2>4, LogAppend
    <2>5. QED
      BY <1>1, <1>2, <1>3, <2>1, <2>2, <2>3, <2>4
      DEF Next, Age, PgChanges, RedisChanges, data, memory
  <1>4. QED
    BY <1>2, <1>3 DEF vars, data, memory

LEMMA LogInit == Init => LogInv
  BY DEF Init, LogInv, DrainInv, Kept, NothingLost, Idle, Drains

\* Whatever fails and whenever, no storable entry is lost but to MAXLEN, as long as
\* only errors of the data are taken for errors of the data.
THEOREM NothingIsLost == ASSUME ~Misjudges PROVE Spec => []NothingLost
  <1>1. LogInv => NothingLost
    BY DEF LogInv
  <1>2. BaseInv /\ LogInv /\ [Next]_vars => LogInv'
    BY LogStep
  <1>3. QED
    BY <1>1, <1>2, BaseInit, BaseStep, LogInit, PTL DEF Spec

-------------------------------------------------------------------------------
(* The log implements DurableLog *)

\* A step that keeps only entries held or in the stream, and takes hold of entries
\* of the stream only, settles the fate of some: what NothingLost allows.
LEMMA StepsSettle ==
    ASSUME BaseInv, LogInv, LogInv', UNCHANGED <<seen, trimmed>>,
           Kept \subseteq Kept',
           Kept' \ Kept \subseteq Held \cap Storable,
           stream' \cup Held' \subseteq stream \cup Held
    PROVE  DL!Next
  <1> DEFINE K == {e \in Entries : e \in Kept' \ Kept}
             D == {e \in Entries : Fate(e) = "queued" /\ Fate(e)' = "dropped"}
  <1>1. K \subseteq DL!With("queued") \ (Corrupt \cup Poison)
    BY DEF DL!With, Fate, Storable
  <1>2. D \subseteq DL!With("queued") \cap ((Corrupt \cup Poison) \cup trimmed)
    <2> SUFFICES ASSUME NEW e \in Entries, Fate(e) = "queued", Fate(e)' = "dropped",
                        e \in Storable
                 PROVE  e \in trimmed
      BY DEF DL!With, Storable
    <2>1. e \in seen' /\ e \notin stream' /\ e \notin Kept'
      BY DEF Fate
    <2>2. QED
      BY <2>1 DEF LogInv, NothingLost
  <1>3. ASSUME NEW e \in Entries
        PROVE  Fate(e)' = IF e \in K THEN "kept" ELSE IF e \in D THEN "dropped" ELSE Fate(e)
    <2>1. CASE e \in Kept'
      BY <2>1 DEF Fate
    <2>2. CASE e \notin Kept' /\ Fate(e) = "queued"
      <3>1. e \in seen
        BY <2>2 DEF Fate, Held, LogInv, DrainInv, Drains
      <3>2. QED
        BY <2>2, <3>1 DEF Fate
    <2>3. CASE e \notin Kept' /\ Fate(e) # "queued"
      <3>1. e \notin Kept /\ e \notin stream \cup Held /\ e \notin stream' \cup Held'
        BY <2>3 DEF Fate
      <3>2. QED
        BY <2>3, <3>1 DEF Fate
    <2>4. QED
      BY <2>1, <2>2, <2>3
  <1> HIDE DEF K, D
  <1>4. DL!Settle(K, D)
    BY <1>1, <1>2, <1>3 DEF DL!Settle
  <1>5. K \in SUBSET DL!With("queued") /\ D \in SUBSET DL!With("queued")
    BY <1>1, <1>2
  <1>6. QED
    BY <1>4, <1>5 DEF DL!Next

\* What a drain does to the entries held.
LEMMA EndsHeld ==
    ASSUME BaseInv, NEW d \in Drains, Return(d) \/ Throw(d)
    PROVE  Held' \subseteq Held
  BY Ends DEF Held, Drains, BaseInv, DrainsOK

LEMMA GoesHeld ==
    ASSUME BaseInv, NEW d \in Drains, NEW r, Goes(d, r)
    PROVE  Held' \subseteq Held \cup r.parsed
  BY DEF Held, Drains, Goes, BaseInv, DrainsOK

LEMMA InsertsSettle ==
    ASSUME BaseInv, LogInv, LogInv', NEW d \in Drains, NEW S \in SUBSET dr[d].parsed,
           InsertSucceeds(S) \/ TakenAsDataError(S) \/ InsertThrows(d, S),
           UNCHANGED <<seen, stream, trimmed, purged>>, Held' \subseteq Held
    PROVE  DL!Next
  <1>1. /\ rows \subseteq rows' /\ rows' \subseteq rows \cup S
        /\ rows' # rows => S \cap Poison = {}
    BY InsertsGrow
  <1>2. S \subseteq Held /\ S \cap Corrupt = {} /\ S \subseteq Entries
    BY DEF Held, Drains, LogInv, DrainInv, BaseInv, DrainsOK, DrainRecord
  <1>3. Kept \subseteq Kept' /\ Kept' \ Kept \subseteq Held \cap Storable
    BY <1>1, <1>2 DEF Kept, Storable
  <1>4. QED
    BY <1>3, StepsSettle

LEMMA DrainsSettle ==
    ASSUME BaseInv, LogInv, LogInv', NEW d \in Drains, DrainStep(d)
    PROVE  DL!Next
  <1>1. dr[d] \in DrainRecord
    BY DEF BaseInv, DrainsOK
  <1>2. CASE Xrange(d)
    <2>1. UNCHANGED <<seen, stream, trimmed, rows, purged>>
      BY <1>2 DEF Xrange, data
    <2>2. Held' \subseteq Held \cup stream
      <3>1. CASE Return(d) \/ Throw(d)
        BY <3>1, EndsHeld
      <3>2. CASE ~Return(d) /\ ~Throw(d)
        <4>1. PICK r : Goes(d, r) /\ r.parsed = Oldest \ Corrupt
          BY <1>2, <3>2 DEF Xrange
        <4>2. QED
          BY <4>1, GoesHeld, OldestType
      <3>3. QED
        BY <3>1, <3>2
    <2>3. QED
      BY <2>1, <2>2, StepsSettle DEF Kept
  <1>3. CASE InsertBatch(d)
    <2>1. Held' \subseteq Held
      <3>1. \/ Throw(d)
            \/ Goes(d, [dr[d] EXCEPT !.st = "delete", !.parsed = {},
                                     !.toDelete = @ \cup dr[d].parsed])
            \/ Goes(d, [dr[d] EXCEPT !.st = "rowwise"])
        BY <1>3 DEF InsertBatch, InsertThrows
      <3>2. /\ [dr[d] EXCEPT !.st = "delete", !.parsed = {},
                             !.toDelete = @ \cup dr[d].parsed].parsed = {}
            /\ [dr[d] EXCEPT !.st = "rowwise"].parsed = dr[d].parsed
        BY <1>1 DEF DrainRecord
      <3>3. dr[d].parsed \subseteq Held
        BY DEF Held, Drains
      <3>4. QED
        BY <3>1, <3>2, <3>3, EndsHeld, GoesHeld
    <2>2. QED
      BY <1>3, <2>1, InsertsSettle DEF InsertBatch
  <1>4. CASE \E e \in Entries : InsertRow(d, e)
    <2>1. PICK e \in Entries : InsertRow(d, e)
      BY <1>4
    <2>2. Held' \subseteq Held
      <3> DEFINE r == [dr[d] EXCEPT !.st = IF dr[d].parsed = {e} THEN "delete" ELSE "rowwise",
                                    !.parsed = @ \ {e},
                                    !.toDelete = @ \cup {e}]
      <3>1. Throw(d) \/ Goes(d, r)
        BY <2>1 DEF InsertRow, InsertThrows
      <3>2. r.parsed = dr[d].parsed \ {e}
        BY <1>1 DEF DrainRecord
      <3> HIDE DEF r
      <3>3. dr[d].parsed \subseteq Held
        BY DEF Held, Drains
      <3>4. QED
        BY <3>1, <3>2, <3>3, EndsHeld, GoesHeld
    <2>3. {e} \in SUBSET dr[d].parsed
      BY <2>1 DEF InsertRow
    <2>4. QED
      BY <2>1, <2>2, <2>3, InsertsSettle DEF InsertRow
  <1>5. CASE Xdel(d)
    <2>1. UNCHANGED <<seen, trimmed, rows, purged>> /\ stream' \subseteq stream
      BY <1>5 DEF Xdel
    <2>2. Held' \subseteq Held
      <3>1. Return(d) \/ Throw(d) \/ Goes(d, [Begin EXCEPT !.it = dr[d].it])
        BY <1>5 DEF Xdel
      <3>2. [Begin EXCEPT !.it = dr[d].it].parsed = {}
        BY DEF Begin, Idle
      <3>3. QED
        BY <3>1, <3>2, EndsHeld, GoesHeld
    <2>3. QED
      BY <2>1, <2>2, StepsSettle DEF Kept
  <1>6. QED
    BY <1>2, <1>3, <1>4, <1>5 DEF DrainStep

\* An append; what the full stream loses is dropped unless a drain has it.
LEMMA AppendsEnqueue ==
    ASSUME BaseInv, LogInv, BaseInv', NEW e \in Entries, NEW S \in SUBSET Entries,
           RequestLogDrain(e, S)
    PROVE  DL!Next
  <1> DEFINE D == {f \in S : f \notin Kept \cup Held}
  <1>1. /\ \A f \in seen : f < e
        /\ S \subseteq stream /\ \A s \in S, f \in (stream \cup {e}) \ S : s < f
        /\ S # {} => Cardinality((stream \cup {e}) \ S) >= MaxLen
        /\ seen' = seen \cup {e} /\ stream' = (stream \cup {e}) \ S
        /\ trimmed' = trimmed \cup S
        /\ Kept' = Kept /\ Held' = Held
    BY DEF RequestLogDrain, memory, Kept, Held
  <1>2. e \notin seen
    BY <1>1, EntriesAssumption
  <1>3. Held \subseteq seen /\ Kept \subseteq seen /\ stream \subseteq seen
    BY DEF LogInv, DrainInv, Held, Drains
  <1>4. D \subseteq DL!With("queued") \cap S
    BY <1>1 DEF DL!With, Fate
  <1>5. Fate(e) = "absent"
    BY <1>2, <1>3 DEF Fate
  <1>6. ASSUME NEW f \in Entries
        PROVE  Fate(f)' = IF f = e THEN "queued" ELSE IF f \in D THEN "dropped" ELSE Fate(f)
    <2>1. CASE f = e
      BY <1>1, <1>2, <1>3, <2>1 DEF Fate
    <2>2. CASE f # e /\ f \in S
      BY <1>1, <1>3, <2>2 DEF Fate
    <2>3. CASE f # e /\ f \notin S
      BY <1>1, <2>3 DEF Fate
    <2>4. QED
      BY <2>1, <2>2, <2>3
  <1>7. ASSUME NEW s \in S
        PROVE  \E F \in SUBSET {f \in Entries : Fate(f)' # "absent" /\ f > s} :
                  Cardinality(F) >= MaxLen
    <2>1. Cardinality(stream') >= MaxLen
      BY <1>1
    <2>2. \A f \in stream' : f \in Entries /\ f > s /\ Fate(f)' # "absent"
      BY <1>1, EntriesAssumption DEF BaseInv, DataOK, Fate
    <2>3. QED
      BY <2>1, <2>2
  <1> HIDE DEF D
  <1>8. DL!Enqueue(e, S, D)
    <2>1. \A F : DL!Cardinality(F) = Cardinality(F)
      BY DEF DL!Cardinality, Cardinality
    <2>2. QED
      BY <1>1, <1>4, <1>5, <1>6, <1>7, <2>1 DEF DL!Enqueue
  <1>9. D \in SUBSET S
    BY DEF D
  <1>10. QED
    BY <1>8, <1>9 DEF DL!Next

LEMMA FrameStutters ==
    ASSUME UNCHANGED <<seen, stream, trimmed, rows, purged, dr>>
    PROVE  UNCHANGED DL!vars
  BY DEF DL!vars, Fate, Kept, Held

LEMMA LogImplements ==
    ASSUME BaseInv, LogInv, BaseInv', LogInv', [Next]_vars
    PROVE  [DL!Next]_(DL!vars)
  <1>1. CASE \E d \in Drains : DrainStep(d)
    BY <1>1, DrainsSettle
  <1>2. CASE \E e \in Entries, S \in SUBSET Entries : RequestLogDrain(e, S)
    BY <1>2, AppendsEnqueue
  <1>3. CASE LateXdel
    <2>1. UNCHANGED <<seen, trimmed>> /\ Kept' = Kept /\ Held' = Held /\ stream' \subseteq stream
      BY <1>3 DEF LateXdel, memory, Kept, Held
    <2>2. QED
      BY <2>1, StepsSettle
  <1>4. CASE Purge
    <2>1. PICK S \in SUBSET Entries : PurgeOldLogs(S)
      BY <1>4 DEF Purge
    <2>2. UNCHANGED <<seen, stream, trimmed>> /\ Kept' = Kept
      BY <2>1 DEF PurgeOldLogs, Kept
    <2>3. Held' \subseteq Held
      <3>1. Goes("tick", Idle) \/ Goes("tick", dr["tick"])
        BY <2>1 DEF PurgeOldLogs, Throw
      <3>2. QED
        BY <3>1, GoesHeld DEF Idle, Held, Drains
    <2>4. QED
      BY <2>2, <2>3, StepsSettle
  <1>5. CASE Interval \/ AwaitTick \/ Exit
    <2>1. UNCHANGED <<seen, stream, trimmed, rows, purged>>
      BY <1>5 DEF Interval, AwaitTick, Exit, data
    <2>2. UNCHANGED dr \/ (\E d \in Drains : Goes(d, Begin)) \/ dr' = [d \in Drains |-> Idle]
      BY <1>5 DEF Interval, AwaitTick, Exit, Drains
    <2>3. Held' \subseteq Held
      BY <2>2, GoesHeld DEF Begin, Idle, Held, Drains
    <2>4. QED
      BY <2>1, <2>3, StepsSettle DEF Kept
  <1>6. CASE UNCHANGED <<seen, stream, trimmed, rows, purged, dr>>
    BY <1>6, FrameStutters
  <1>7. QED
    BY <1>1, <1>2, <1>3, <1>4, <1>5, <1>6
    DEF Next, Stop, Close, Restart, Day, Age, PgChanges, RedisChanges, data, memory, vars

\* Stream, worker and table implement the abstract log.
THEOREM LogImplementsDurableLog == ASSUME ~Misjudges PROVE Spec => ImplementsDurableLog
  <1>1. Init => DL!Init
    BY DEF Init, DL!Init, Fate, Kept, Held, Idle, Drains
  <1>2. BaseInv /\ LogInv /\ [Next]_vars => LogInv'
    BY LogStep
  <1>3. BaseInv /\ LogInv /\ BaseInv' /\ LogInv' /\ [Next]_vars => [DL!Next]_(DL!vars)
    BY LogImplements
  <1>4. QED
    BY <1>1, <1>2, <1>3, BaseInit, BaseStep, LogInit, PTL
    DEF Spec, ImplementsDurableLog, DL!Spec
===============================================================================
