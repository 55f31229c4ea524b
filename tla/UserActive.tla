------------------------------ MODULE UserActive ------------------------------
(***************************************************************************)
(* lib/user-active.ts: the cached answer to "is this account               *)
(* deactivated?", asked by every login and by every authenticated request, *)
(* and the writer that changes it, updateEmployee in                       *)
(* services/employee.service.ts.                                           *)
(*                                                                         *)
(* A call of isUserDeactivated is up to three awaits: GET the cached flag, *)
(* on a miss query the employee table, SET the answer with a TTL. An       *)
(* employee update is up to three as well: write the row, DEL the flag     *)
(* and, when it deactivates, delete the sessions of the user. Every await  *)
(* is a step here, so the calls interleave as they do in the server, and   *)
(* every query may throw, whether or not it took effect.                   *)
(***************************************************************************)
EXTENDS Naturals

CONSTANTS
    Users,         \* accounts
    Callers,       \* concurrent calls of isUserDeactivated
    Updates,       \* calls of updateEmployee that set "active", each made once
    RedisEnabled,  \* REDIS_URL is set: the flag is cached
    RedisMayFail   \* a Redis command may time out or meet the open breaker

ASSUME RedisAssumption == RedisEnabled \in BOOLEAN /\ RedisMayFail \in BOOLEAN

VARIABLES
    inactive,  \* users whose employee row says active = false
    cache,     \* deactivated:<user> in Redis: "none", "0" or "1"
    chk,       \* chk[p]: where call p of isUserDeactivated is, and its answer
    upd        \* upd[w]: where employee update w is, and what it sets

vars == <<inactive, cache, chk, upd>>

CheckStates == {"idle", "get", "db", "set", "answered"}
\* "failed": a statement threw, and nobody tries again.
UpdateStates == {"idle", "updated", "invalidated", "finished", "failed", "crashed"}

\* Type invariant: the flag holds what isUserDeactivated writes and reads.
TypeOK ==
    /\ inactive \subseteq Users
    /\ cache \in [Users -> {"none", "0", "1"}]
    /\ chk \in [Callers -> [st : CheckStates, user : Users, res : BOOLEAN]]
    /\ upd \in [Updates -> [st : UpdateStates, user : Users, active : BOOLEAN]]

Init ==
    /\ inactive = {}
    /\ cache = [u \in Users |-> "none"]
    /\ \E u \in Users :
         /\ chk = [p \in Callers |-> [st |-> "idle", user |-> u, res |-> FALSE]]
         /\ upd = [w \in Updates |-> [st |-> "idle", user |-> u, active |-> TRUE]]

-------------------------------------------------------------------------------
(* isUserDeactivated(u), call p *)

\* Without Redis both cache blocks are skipped.
Call(p, u) ==
    /\ chk[p].st = "idle"
    /\ chk' = [chk EXCEPT ![p] =
                 [st |-> IF RedisEnabled THEN "get" ELSE "db", user |-> u, res |-> FALSE]]
    /\ UNCHANGED <<inactive, cache, upd>>

\* A hit answers; a miss or a failed GET goes on to the database.
GetCached(p) ==
    /\ chk[p].st = "get"
    /\ \/ /\ cache[chk[p].user] # "none"
          /\ chk' = [chk EXCEPT ![p].st = "answered",
                                ![p].res = (cache[chk[p].user] = "1")]
       \/ /\ cache[chk[p].user] = "none" \/ RedisMayFail
          /\ chk' = [chk EXCEPT ![p].st = "db"]
    /\ UNCHANGED <<inactive, cache, upd>>

QueryUserDeactivated(p) ==
    /\ chk[p].st = "db"
    /\ chk' = [chk EXCEPT ![p].st = IF RedisEnabled THEN "set" ELSE "answered",
                          ![p].res = (chk[p].user \in inactive)]
    /\ UNCHANGED <<inactive, cache, upd>>

\* The query throws: the call has no answer, and no flag is stored.
QueryFails(p) ==
    /\ chk[p].st = "db"
    /\ chk' = [chk EXCEPT ![p].st = "idle", ![p].res = FALSE]
    /\ UNCHANGED <<inactive, cache, upd>>

\* Mutant: the flag is stored as the text of a boolean.
SetCachedAsBoolean(p) ==
    /\ chk[p].st = "set"
    /\ cache' = [cache EXCEPT ![chk[p].user] = IF chk[p].res THEN "true" ELSE "false"]
    /\ chk' = [chk EXCEPT ![p].st = "answered"]
    /\ UNCHANGED <<inactive, upd>>

\* A failed SET is swallowed.
SetCached(p) ==
    /\ chk[p].st = "set"
    /\ \/ cache' = [cache EXCEPT ![chk[p].user] = IF chk[p].res THEN "1" ELSE "0"]
       \/ RedisMayFail /\ UNCHANGED cache
    /\ chk' = [chk EXCEPT ![p].st = "answered"]
    /\ UNCHANGED <<inactive, upd>>

\* The caller has read the answer.
Return(p) ==
    /\ chk[p].st = "answered"
    /\ chk' = [chk EXCEPT ![p].st = "idle", ![p].res = FALSE]
    /\ UNCHANGED <<inactive, cache, upd>>

\* Mutant: only the flag of a deactivated account has a TTL.
ExpireDeactivated(u) ==
    /\ cache[u] = "1"
    /\ cache' = [cache EXCEPT ![u] = "none"]
    /\ UNCHANGED <<inactive, chk, upd>>

\* EX 15: the flag lapses on its own.
Expire(u) ==
    /\ cache[u] # "none"
    /\ cache' = [cache EXCEPT ![u] = "none"]
    /\ UNCHANGED <<inactive, chk, upd>>

-------------------------------------------------------------------------------
(* updateEmployee with "active" in the input, call w *)

\* The row may be written and its RETURNING lost: then the handler ends there.
UpdateRow(w, u, b) ==
    /\ upd[w].st = "idle"
    /\ \E st \in {"updated", "failed"} :
           upd' = [upd EXCEPT ![w] = [st |-> st, user |-> u, active |-> b]]
    /\ inactive' = IF b THEN inactive \ {u} ELSE inactive \cup {u}
    /\ UNCHANGED <<cache, chk>>

\* A failed DEL is swallowed too: the flag stays until its TTL.
InvalidateUserActiveCache(w) ==
    /\ upd[w].st = "updated"
    /\ \/ cache' = [cache EXCEPT ![upd[w].user] = "none"]
       \/ (RedisMayFail \/ ~RedisEnabled) /\ UNCHANGED cache
    /\ upd' = [upd EXCEPT ![w].st = IF upd[w].active THEN "finished" ELSE "invalidated"]
    /\ UNCHANGED <<inactive, chk>>

\* A deactivation ends by closing the sessions of the user, or failing to.
RevokeUserSessions(w) ==
    /\ upd[w].st = "invalidated"
    /\ \E st \in {"finished", "failed"} : upd' = [upd EXCEPT ![w].st = st]
    /\ UNCHANGED <<inactive, cache, chk>>

\* deleteEmployee / deleteUserAccount remove the row (or the account).
RemoveRow(u) ==
    /\ inactive' = inactive \ {u}
    /\ UNCHANGED <<cache, chk, upd>>

\* The server process dies: calls in flight are lost, Redis and Postgres stay.
Crash ==
    /\ chk' = [p \in Callers |-> [chk[p] EXCEPT !.st = "idle", !.res = FALSE]]
    /\ upd' = [w \in Updates |-> IF upd[w].st \in {"updated", "invalidated"}
                                 THEN [upd[w] EXCEPT !.st = "crashed"] ELSE upd[w]]
    /\ UNCHANGED <<inactive, cache>>

-------------------------------------------------------------------------------

Step(p) ==
    \/ GetCached(p) \/ QueryUserDeactivated(p) \/ QueryFails(p) \/ SetCached(p) \/ Return(p)
UpdateStep(w) == InvalidateUserActiveCache(w) \/ RevokeUserSessions(w)

Next ==
    \/ \E p \in Callers : Step(p) \/ \E u \in Users : Call(p, u)
    \/ \E w \in Updates : UpdateStep(w) \/ \E u \in Users, b \in BOOLEAN : UpdateRow(w, u, b)
    \/ \E u \in Users : Expire(u) \/ RemoveRow(u)
    \/ Crash

Spec == Init /\ [][Next]_vars

\* Every await settles (Postgres and Redis time out), and the TTL of Redis runs.
Fairness ==
    /\ \A p \in Callers : WF_vars(Step(p))
    /\ \A w \in Updates : WF_vars(UpdateStep(w))
    /\ \A u \in Users : WF_vars(Expire(u))

FairSpec == Spec /\ Fairness

-------------------------------------------------------------------------------
(* Properties *)

\* No update of u is under way.
Settled(u) == \A w \in Updates : upd[w].user = u => upd[w].st \in {"idle", "finished"}

\* What the code guarantees of "desactivar sigue cortando el acceso de inmediato; el
\* TTL solo cubre cambios hechos fuera de este servicio" (lib/user-active.ts:7-11),
\* even when Redis fails or the server restarts: the flag ends up agreeing with an
\* employee row that no longer changes.
CacheCatchesUp ==
    \A u \in Users : /\ <>[](u \in inactive) => <>[](cache[u] # "0")
                     /\ <>[](u \notin inactive) => <>[](cache[u] # "1")
===============================================================================
