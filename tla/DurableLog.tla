------------------------------ MODULE DurableLog ------------------------------
(***************************************************************************)
(* What the request log promises (lib/logging.ts:10-15,                    *)
(* db/log-schema.ts:28-33, workers/request-log-worker.ts:101-104): an      *)
(* entry that enters the buffer ends up in the table once and for good.    *)
(* It is given up only if the table cannot hold it, or if it was among the *)
(* oldest of a buffer that was full.                                       *)
(***************************************************************************)
EXTENDS Integers, FiniteSets

CONSTANTS
    Entries,     \* ids of log entries, in the order of the buffer
    Unstorable,  \* entries no row can be made of
    MaxLen       \* the buffer is never cut below this length

VARIABLES
    fate,      \* "absent", "queued", "kept" or "dropped"
    evictable  \* entries the full buffer may give up

vars == <<fate, evictable>>

With(f) == {e \in Entries : fate[e] = f}

Init ==
    /\ fate = [e \in Entries |-> "absent"]
    /\ evictable = {}

\* A new entry may push the oldest ones out: those with MaxLen younger ones.
\* They are dropped (D) unless somebody is still about to store them.
Enqueue(e, S, D) ==
    /\ fate[e] = "absent"
    /\ D \subseteq With("queued") \cap S
    /\ fate' = [f \in Entries |-> IF f = e THEN "queued"
                                 ELSE IF f \in D THEN "dropped" ELSE fate[f]]
    /\ evictable' = evictable \cup S
    /\ \A s \in S : \E F \in SUBSET {f \in Entries : fate'[f] # "absent" /\ f > s} :
                       Cardinality(F) >= MaxLen

\* Entries reach the table (K); entries are given up (D).
Settle(K, D) ==
    /\ K \subseteq With("queued") \ Unstorable
    /\ D \subseteq With("queued") \cap (Unstorable \cup evictable)
    /\ fate' = [e \in Entries |-> IF e \in K THEN "kept"
                                 ELSE IF e \in D THEN "dropped" ELSE fate[e]]
    /\ UNCHANGED evictable

Next ==
    \/ \E e \in Entries, S \in SUBSET Entries : \E D \in SUBSET S : Enqueue(e, S, D)
    \/ \E K, D \in SUBSET With("queued") : Settle(K, D)

Spec == Init /\ [][Next]_vars
===============================================================================
