------------------------------ MODULE AuthzCache ------------------------------
(***************************************************************************)
(* The three answers about one user that are cached in Redis for 30 s:     *)
(*   "admin": is the user a superadmin? (middleware/admin.ts)              *)
(*   "scope": which systems does the user administer?                      *)
(*            (services/system-admin.service.ts)                           *)
(*   "perm":  has the user a certain permission in a certain system?       *)
(*            (middleware/permission.ts)                                   *)
(* A check is a GET, on a miss the query and a SET, as for the             *)
(* deactivation flag. Only the routes that assign and remove roles         *)
(* invalidate anything: the first two keys, when the role is called admin. *)
(*                                                                         *)
(* The three keys are never read together: a behaviour watches one.        *)
(***************************************************************************)
EXTENDS RedisBreaker

CONSTANTS
    Checks,  \* checks that may be in flight at once
    Writers, \* assignments and removals of admin roles that may be, too
    TTL,     \* SCOPE_CACHE_TTL_SECONDS and the other two, in ticks
    Flight   \* ticks that a check may need from the query's snapshot to the SET

ASSUME CacheAssumption == Writers \in Nat /\ TTL \in Nat \ {0} /\ Flight \in Nat

\* What the rows of user_role, role, system and role_permission may say of the
\* user: admin of the auth system, admin of the system asked about (for the scope, an
\* active one), holder there of a role with the permission asked about.
Facts == {"super", "local", "granted"}
Keys == {"admin", "scope", "perm"}

\* The queries.
Answer(k, facts) ==
    CASE k = "admin" -> facts \cap {"super"}
      [] k = "scope" -> IF "super" \in facts THEN {"super"} ELSE facts \cap {"local"}
      [] k = "perm"  -> IF facts = {} THEN {} ELSE {"granted"}

VARIABLES
    facts,    \* what the tables say now
    key,      \* the key that is watched
    cache,    \* its cached answer and the ticks it has left, 0 if none
    check,    \* check[c]: the await of check c and what it has read
    pending,  \* assignments and removals of admin roles between statement and DEL
    since,    \* history: ticks since the answer changed
    excused   \* history: the cached answer was allowed to go stale

cacheVars == <<facts, key, cache, check, pending, since, excused>>

CheckStates == {"idle", "get", "db", "set"}

\* The bound on the staleness that the comments promise, and the flight of a SET.
Stalest == TTL + Flight

CacheTypeOK ==
    /\ facts \subseteq Facts
    /\ key \in Keys
    /\ cache \in [answer : SUBSET Facts, left : 0..TTL]
    /\ check \in [Checks -> [st : CheckStates, answer : SUBSET Facts,
                             age : 0..Flight, old : BOOLEAN]]
    /\ pending \in 0..Writers
    /\ since \in 0..Stalest
    /\ excused \in BOOLEAN

None == [answer |-> {}, left |-> 0]
NoCheck == [st |-> "idle", answer |-> {}, age |-> 0, old |-> FALSE]

CacheInit ==
    /\ facts \in SUBSET Facts
    /\ key \in Keys /\ cache = None
    /\ check = [c \in Checks |-> NoCheck]
    /\ pending = 0
    /\ since = Stalest /\ excused = FALSE

-------------------------------------------------------------------------------
(* isAdmin, getManageScope, hasPermission *)

Ask(c) ==
    /\ check[c].st = "idle"
    /\ check' = [check EXCEPT ![c].st = IF Rejected THEN "db" ELSE "get"]
    /\ UNCHANGED <<facts, key, cache, pending, since, excused>> /\ UNCHANGED breakerVars

\* Mutant: a hit renews the TTL.
GetCachedSliding(c) ==
    /\ check[c].st = "get"
    /\ \/ /\ Succeeds /\ cache.left > 0 /\ check' = [check EXCEPT ![c] = NoCheck]
          /\ cache' = [cache EXCEPT !.left = TTL]
       \/ /\ Succeeds /\ cache.left = 0 /\ check' = [check EXCEPT ![c].st = "db"]
          /\ UNCHANGED cache
       \/ Fails /\ check' = [check EXCEPT ![c].st = "db"] /\ UNCHANGED cache
    /\ UNCHANGED <<facts, key, pending, since, excused, loaded>>

\* A hit answers.
GetCached(c) ==
    /\ check[c].st = "get"
    /\ \/ Succeeds /\ cache.left > 0 /\ check' = [check EXCEPT ![c] = NoCheck]
       \/ Succeeds /\ cache.left = 0 /\ check' = [check EXCEPT ![c].st = "db"]
       \/ Fails /\ check' = [check EXCEPT ![c].st = "db"]
    /\ UNCHANGED <<facts, key, cache, pending, since, excused, loaded>>

\* The answer is there; while the breaker is open it is not cached.
Query(c) ==
    /\ check[c].st = "db"
    /\ check' = [check EXCEPT ![c] =
                   IF Rejected THEN NoCheck
                   ELSE [st |-> "set", age |-> 0, old |-> FALSE, answer |-> Answer(key, facts)]]
    /\ UNCHANGED <<facts, key, cache, pending, since, excused>> /\ UNCHANGED breakerVars

\* The query fails: the request is answered with an error.
QueryThrows(c) ==
    /\ check[c].st = "db"
    /\ check' = [check EXCEPT ![c] = NoCheck]
    /\ UNCHANGED <<facts, key, cache, pending, since, excused>> /\ UNCHANGED breakerVars

Stores(c) ==
    /\ cache' = [answer |-> check[c].answer, left |-> TTL]
    /\ excused' = check[c].old

\* A failed SET is swallowed, executed or not.
SetCached(c) ==
    /\ check[c].st = "set"
    /\ check' = [check EXCEPT ![c] = NoCheck]
    /\ \/ Succeeds /\ Stores(c)
       \/ Fails /\ (Stores(c) \/ UNCHANGED <<cache, excused>>)
    /\ UNCHANGED <<facts, key, pending, since, loaded>>

-------------------------------------------------------------------------------
(* Changes of the tables *)

\* What a change leaves behind: the answers that it changed, and the checks that
\* read before it.
Changes(new) ==
    /\ new # facts
    /\ facts' = new
    /\ since' = IF Answer(key, new) # Answer(key, facts) THEN 0 ELSE since
    /\ check' = [c \in Checks |-> [check[c] EXCEPT !.old =
                   @ \/ (check[c].st = "set" /\ check[c].answer # Answer(key, new))]]

\* Mutant: the keys are deleted before the statement.
ChangeAdminRoleLast(f) ==
    /\ f \in {"super", "local"}
    /\ UNCHANGED pending
    /\ Changes(IF f \in facts THEN facts \ {f} ELSE facts \cup {f})
    /\ excused' = (excused \/ key = "perm")
    /\ UNCHANGED <<key, cache>> /\ UNCHANGED breakerVars

\* createUserRole or deleteUserRole, of a role called admin.
ChangeAdminRole(f) ==
    /\ f \in {"super", "local"}
    /\ pending < Writers /\ pending' = pending + 1
    /\ Changes(IF f \in facts THEN facts \ {f} ELSE facts \cup {f})
    /\ excused' = (excused \/ key = "perm")
    /\ UNCHANGED <<key, cache>> /\ UNCHANGED breakerVars

\* Every other statement that changes an answer: any other role assigned or removed,
\* a role renamed, deleted or given other permissions, a system or a user changed or
\* deleted. Nothing is invalidated.
ChangeOther(new) ==
    /\ Changes(new)
    /\ excused' = (excused \/ Answer(key, new) # Answer(key, facts))
    /\ UNCHANGED <<key, cache, pending>> /\ UNCHANGED breakerVars

Dropped == {"scope", "admin"}

\* Mutant: the flag of middleware/admin.ts is forgotten.
DropScope ==
    /\ cache' = IF key = "scope" THEN None ELSE cache
    /\ excused' = (excused /\ key # "scope")

Drop ==
    /\ cache' = IF key \in Dropped THEN None ELSE cache
    /\ excused' = (excused /\ key \notin Dropped)

Keep == excused' = (excused \/ key \in Dropped) /\ UNCHANGED cache

\* One DEL of both keys; while the breaker is open there is none.
InvalidateManageScope ==
    /\ pending > 0 /\ pending' = pending - 1
    /\ \/ Rejected /\ Keep /\ UNCHANGED breakerVars
       \/ ~Rejected /\ Succeeds /\ Drop /\ UNCHANGED loaded
       \/ ~Rejected /\ Fails /\ (Drop \/ Keep) /\ UNCHANGED loaded
    /\ UNCHANGED <<facts, key, check, since>>

-------------------------------------------------------------------------------
(* Redis, the process and the clock *)

CacheReturns(kept) ==
    /\ cache' = IF kept THEN cache ELSE None
    /\ excused' = (kept /\ excused)
    /\ UNCHANGED <<facts, key, check, pending, since>>

\* A DEL that was to come is lost.
CacheRestarts ==
    /\ check' = [c \in Checks |-> NoCheck]
    /\ pending' = 0
    /\ excused' = (excused \/ (pending > 0 /\ key \in Dropped))
    /\ UNCHANGED <<facts, key, cache, since>>

\* Queries and commands have timeouts: from what a query sees to the end of the SET
\* passes at most a flight.
CacheMayAge ==
    \A c \in Checks : check[c].st # "get" /\ (check[c].st = "set" => check[c].age < Flight)

CacheAges ==
    /\ cache' = IF cache.left > 1 THEN [cache EXCEPT !.left = @ - 1] ELSE None
    /\ check' = [c \in Checks |-> [check[c] EXCEPT !.age =
                   IF check[c].st = "set" /\ @ < Flight THEN @ + 1 ELSE @]]
    /\ since' = IF since < Stalest THEN since + 1 ELSE since
    /\ excused' = (excused /\ cache.left > 1)
    /\ UNCHANGED <<facts, key, pending>>

CacheStep ==
    \/ \E c \in Checks : \/ Ask(c)
                         \/ GetCached(c) \/ Query(c) \/ QueryThrows(c) \/ SetCached(c)
    \/ \E f \in Facts : ChangeAdminRole(f)
    \/ \E new \in SUBSET Facts : ChangeOther(new)
    \/ InvalidateManageScope

-------------------------------------------------------------------------------
(* Properties *)

Stale == cache.left > 0 /\ cache.answer # Answer(key, facts)
===============================================================================
