------------------------------- MODULE Sessions -------------------------------
(***************************************************************************)
(* Logins and sessions of the identity server: signInFn                    *)
(* (services/auth.service.ts), bindSessionToSystem                         *)
(* (services/session-system.service.ts), the revocations of                *)
(* services/session.service.ts and what ends sessions from outside: an     *)
(* employee deactivated, an account or a system deleted.                   *)
(*                                                                         *)
(* A login is a handler with a dozen awaits; each of them is a step, and   *)
(* the steps of concurrent logins and of administrators interleave over    *)
(* the tables session ("live", with the user of the login that opened it)  *)
(* and sessionSystem ("link").  A login opens at most one session, so a    *)
(* session is named by its login.  The deactivation check and the employee *)
(* update are the steps of module UserActive.  Any await may throw, having *)
(* taken effect or not: then the handler answers with an error.            *)
(***************************************************************************)
EXTENDS Naturals

CONSTANTS
    Users, Systems,
    Logins,        \* calls of signInFn, each made once
    Requests,      \* slots for authenticated requests (middleware/session.ts)
    Updates,       \* calls of updateEmployee that set "active", each made once
    Panel,         \* the system of this server's own panel (ADMIN_SYSTEM_SLUG)
    NoSys,         \* a login without systemSlug
    None,          \* no session
    Assignable,    \* the role assignments administrators make and remove
    RedisEnabled, RedisMayFail,
    MaxCrashes     \* restarts of the server explored

RoleKinds == {"member", "admin"}

ASSUME SessionsAssumption ==
    /\ NoSys \notin Systems
    /\ None \notin Logins
    /\ Logins \cap Requests = {}
    /\ Assignable \subseteq Users \X Systems \X RoleKinds
    /\ MaxCrashes \in Nat

VARIABLES
    inactive, cache, chk, upd,  \* see UserActive
    users,      \* rows of user
    systems,    \* rows of system
    sysActive,  \* those with active = true
    roles,      \* userRole joined with role: <<user, system, kind of role>>
    live,       \* rows of session
    link,       \* sessionSystem, by its unique key <<userId, systemId>>
    login,      \* login[l]: program counter and locals of signInFn
    contended,  \* pairs whose binds have overlapped (history, for properties)
    misled,     \* logins that a stale flag let in (history)
    crashes

uaVars == <<inactive, cache, chk, upd>>
catalog == <<users, systems, sysActive, roles>>
history == <<contended, misled>>
vars == <<uaVars, catalog, live, link, login, history, crashes>>

Callers == Logins \cup Requests

UA == INSTANCE UserActive

BindStates == {"replace", "upsert"}
\* "aborted": an error before the cookies were forwarded; "failed": one after it.
Ended == {"done", "rejected", "denied", "aborted", "failed", "crashed"}
LoginStates == {"idle", "verify", "check", "role", "delegate", "revoke", "bind",
                "previous", "jwt"} \cup BindStates \cup Ended

Pairs == Users \X Systems
Pair(l) == <<login[l].user, login[l].sys>>

\* Type invariant: the rows, the links and the locals of signInFn; an active
\* system exists.
TypeOK ==
    /\ UA!TypeOK
    /\ users \subseteq Users
    /\ sysActive \subseteq systems /\ systems \subseteq Systems
    /\ roles \subseteq Assignable
    /\ live \subseteq Logins
    /\ link \in [Pairs -> Logins \cup {None}]
    /\ login \in [Logins -> [st : LoginStates, user : Users, sys : Systems \cup {NoSys},
                             prev : Logins \cup {None}]]
    /\ contended \subseteq Pairs /\ misled \subseteq Logins
    /\ crashes \in 0..MaxCrashes

Init ==
    /\ UA!Init
    /\ users = Users /\ systems = Systems /\ sysActive = Systems
    /\ roles = Assignable
    /\ live = {} /\ link = [x \in Pairs |-> None]
    /\ \E u \in Users : login = [l \in Logins |->
            [st |-> "idle", user |-> u, sys |-> NoSys, prev |-> None]]
    /\ contended = {} /\ misled = {} /\ crashes = 0

-------------------------------------------------------------------------------

\* Delete session rows; sessionSystem goes with them (ON DELETE CASCADE).
DeleteSessions(S) ==
    /\ live' = live \ S
    /\ link' = [x \in Pairs |-> IF link[x] \in S THEN None ELSE link[x]]

SessionsOf(u) == {s \in live : login[s].user = u}

Goto(l, st) == login' = [login EXCEPT ![l].st = st]

(* signInFn *)

\* resolveActiveSystem runs before any session exists.
ResolveActiveSystem(l, u, y) ==
    /\ login[l].st = "idle"
    /\ login' = [login EXCEPT ![l] =
                   [st |-> IF y \in sysActive \cup {NoSys} THEN "verify" ELSE "rejected",
                    user |-> u, sys |-> y, prev |-> None]]
    /\ UNCHANGED <<uaVars, catalog, live, link, history, crashes>>

\* auth.api.signInEmail: the session row exists before access is checked, and stays
\* if the reply to its INSERT is lost.
SignInEmail(l) ==
    /\ login[l].st = "verify"
    /\ \/ /\ login[l].user \in users
          /\ live' = live \cup {l}
          /\ \/ Goto(l, "check") /\ UA!Call(l, login[l].user)
             \/ Goto(l, "aborted") /\ UNCHANGED uaVars
       \/ Goto(l, "rejected") /\ UNCHANGED <<uaVars, live>>
    /\ UNCHANGED <<catalog, link, history, crashes>>

\* assertAccessOrRevoke, first await: isUserDeactivated has answered, or thrown.
AssertActive(l) ==
    /\ login[l].st = "check"
    /\ \/ UA!Return(l) /\ Goto(l, IF chk[l].res THEN "revoke" ELSE "role")
       \/ UA!QueryFails(l) /\ Goto(l, "aborted")
    /\ UNCHANGED <<catalog, live, link, history, crashes>>

UserHasRoleInSystem(u, y) == \E k \in RoleKinds : <<u, y, k>> \in roles
UserHasRoleInAnySystem(u) == \E y \in sysActive : UserHasRoleInSystem(u, y)

\* queryManageScope is empty unless the user is admin of the panel's system,
\* active or not, or of an active system.
IsScopeEmpty(u) == \A y \in sysActive \cup {Panel} : <<u, y, "admin">> \notin roles

\* Second await: a role in the system, or in any active one without slug.
AssertRole(l) ==
    LET u == login[l].user
        y == login[l].sys
    IN  /\ login[l].st = "role"
        /\ \/ Goto(l, IF y = NoSys THEN IF UserHasRoleInAnySystem(u) THEN "jwt" ELSE "revoke"
                      ELSE IF UserHasRoleInSystem(u, y) THEN "bind"
                      ELSE IF y = Panel THEN "delegate" ELSE "revoke")
           \/ Goto(l, "aborted")
        /\ UNCHANGED <<uaVars, catalog, live, link, history, crashes>>

\* Third await: an administrator of another system may enter the panel.
IsDelegatedAdminOfPanel(l) ==
    /\ login[l].st = "delegate"
    /\ \/ Goto(l, IF IsScopeEmpty(login[l].user) THEN "revoke" ELSE "bind")
       \/ Goto(l, "aborted")
    /\ UNCHANGED <<uaVars, catalog, live, link, history, crashes>>

\* Mutant: the refusal is thrown without the revocation.
RefuseOnly(l) ==
    /\ login[l].st = "revoke"
    /\ Goto(l, "denied")
    /\ UNCHANGED <<uaVars, catalog, live, link, history, crashes>>

\* Refused: the new session, if it is still there to authenticate with, is revoked
\* and the answer is a 403; or revokeSession threw.
RevokeOwn(l) ==
    /\ login[l].st = "revoke"
    /\ \/ l \in live /\ DeleteSessions({l}) /\ (Goto(l, "denied") \/ Goto(l, "aborted"))
       \/ Goto(l, "aborted") /\ UNCHANGED <<live, link>>
    /\ UNCHANGED <<uaVars, catalog, history, crashes>>

(* bindSessionToSystem *)

SelectCurrent(l) ==
    /\ login[l].st = "bind"
    /\ \/ l \in live /\ Goto(l, "previous")
       \/ Goto(l, "failed")
    /\ UNCHANGED <<uaVars, catalog, live, link, history, crashes>>

\* Mutant: the previous session is never looked up.
SelectNoPrevious(l) ==
    /\ login[l].st = "previous"
    /\ Goto(l, "upsert")
    /\ UNCHANGED <<uaVars, catalog, live, link, history, crashes>>

\* The unique key leaves at most one previous session.
SelectPrevious(l) ==
    LET p == link[Pair(l)]
    IN  /\ login[l].st = "previous"
        /\ \/ /\ login' = [login EXCEPT
                             ![l].st = IF p \in {None, l} THEN "upsert" ELSE "replace",
                             ![l].prev = IF p = l THEN None ELSE p]
              /\ contended' = IF \E m \in Logins \ {l} :
                                    login[m].st \in BindStates /\ Pair(m) = Pair(l)
                              THEN contended \cup {Pair(l)} ELSE contended
           \/ Goto(l, "failed") /\ UNCHANGED contended
        /\ UNCHANGED <<uaVars, catalog, live, link, misled, crashes>>

\* Mutant: every other session of the user is revoked, whatever its system.
RevokeAllPrevious(l) ==
    /\ login[l].st = "replace"
    /\ DeleteSessions(SessionsOf(login[l].user) \ {l})
    /\ Goto(l, "upsert")
    /\ UNCHANGED <<uaVars, catalog, history, crashes>>

\* Mutant: a revocation that fails is swallowed.
RevokePreviousOrGoOn(l) ==
    /\ login[l].st = "replace"
    /\ DeleteSessions({login[l].prev}) \/ UNCHANGED <<live, link>>
    /\ Goto(l, "upsert")
    /\ UNCHANGED <<uaVars, catalog, history, crashes>>

\* revokeSession authenticates with the new session, which must still exist.
RevokePrevious(l) ==
    /\ login[l].st = "replace"
    /\ \/ /\ l \in live
          /\ DeleteSessions({login[l].prev})
          /\ Goto(l, "upsert") \/ Goto(l, "failed")
       \/ Goto(l, "failed") /\ UNCHANGED <<live, link>>
    /\ UNCHANGED <<uaVars, catalog, history, crashes>>

\* Mutant: sessionSystem without its foreign keys.
UpsertLinkUnchecked(l) ==
    /\ login[l].st = "upsert"
    /\ link' = [link EXCEPT ![Pair(l)] = l]
    /\ Goto(l, "jwt")
    /\ UNCHANGED <<uaVars, catalog, live, history, crashes>>

\* INSERT ... ON CONFLICT (user_id, system_id) DO UPDATE SET session_id: fails
\* on a foreign key when the session or the system is gone.
UpsertLink(l) ==
    /\ login[l].st = "upsert"
    /\ \/ /\ l \in live /\ login[l].sys \in systems
          /\ link' = [link EXCEPT ![Pair(l)] = l]
          /\ Goto(l, "jwt") \/ Goto(l, "failed")
       \/ Goto(l, "failed") /\ UNCHANGED link
    /\ UNCHANGED <<uaVars, catalog, live, history, crashes>>

\* The JWT is issued for a session that still resolves; then the answer is 200.
IssueJwt(l) ==
    /\ login[l].st = "jwt"
    /\ \/ l \in live /\ Goto(l, "done")
       \/ Goto(l, "failed")
    /\ UNCHANGED <<uaVars, catalog, live, link, history, crashes>>

-------------------------------------------------------------------------------
(* Revocations: s is the session that asks. *)

Revoke(S) ==
    /\ DeleteSessions(S)
    /\ UNCHANGED <<uaVars, catalog, login, history, crashes>>

\* forwardAuthHeaders runs before the bind, so the cookies reach the browser
\* with the 200 and with the error of a bind or of issueJwt alike.
Usable(s) == s \in live /\ login[s].st \in {"done", "failed"}

SignOut(s) == Usable(s) /\ Revoke({s})
RevokeOne(s, t) == Usable(s) /\ t \in SessionsOf(login[s].user) /\ Revoke({t})
RevokeOthers(s) == Usable(s) /\ Revoke(SessionsOf(login[s].user) \ {s})
RevokeAll(s) == Usable(s) /\ Revoke(SessionsOf(login[s].user))

\* An administrator closes any session by its id.
AdminRevokeSession(s) == s \in live /\ Revoke({s})

\* adminChangeUserPassword with revokeSessions.
AdminChangeUserPassword(u) == u \in users /\ Revoke(SessionsOf(u))

-------------------------------------------------------------------------------
(* Authenticated requests: requireSession resolves the session in the
   database and asks isUserDeactivated, which may fill the cache. *)

RequestStart(r, s) ==
    /\ Usable(s)
    /\ UA!Call(r, login[s].user)
    /\ UNCHANGED <<catalog, live, link, login, history, crashes>>

RequestEnd(r) ==
    /\ UA!Return(r) \/ UA!QueryFails(r)
    /\ UNCHANGED <<catalog, live, link, login, history, crashes>>

\* A hit that calls a deactivated account active misleads the login that asks.
GetFlag(p) ==
    /\ UA!GetCached(p)
    /\ misled' = IF /\ cache[chk[p].user] = "0" /\ chk'[p].st = "answered"
                    /\ chk[p].user \in inactive
                 THEN misled \cup ({p} \cap Logins) ELSE misled
    /\ UNCHANGED <<catalog, live, link, login, contended, crashes>>

CheckStep(p) ==
    \/ GetFlag(p)
    \/ /\ UA!QueryUserDeactivated(p) \/ UA!SetCached(p)
       /\ UNCHANGED <<catalog, live, link, login, history, crashes>>

CacheExpire(u) ==
    /\ UA!Expire(u)
    /\ UNCHANGED <<catalog, live, link, login, history, crashes>>

-------------------------------------------------------------------------------
(* updateEmployee *)

UpdateEmployee(w, u, b) ==
    /\ u \in users
    /\ UA!UpdateRow(w, u, b)
    /\ UNCHANGED <<catalog, live, link, login, history, crashes>>

InvalidateFlag(w) ==
    /\ UA!InvalidateUserActiveCache(w)
    /\ UNCHANGED <<catalog, live, link, login, history, crashes>>

\* Mutant: only the sessions found through sessionSystem are deleted.
RevokeLinkedUserSessions(w) ==
    /\ UA!RevokeUserSessions(w)
    /\ DeleteSessions({s \in SessionsOf(upd[w].user) : Pair(s) \in Pairs /\ link[Pair(s)] = s})
    /\ UNCHANGED <<catalog, login, history, crashes>>

RevokeAllUserSessions(w) ==
    /\ UA!RevokeUserSessions(w)
    /\ \/ DeleteSessions(SessionsOf(upd[w].user))
       \/ upd'[w].st = "failed" /\ UNCHANGED <<live, link>>
    /\ UNCHANGED <<catalog, login, history, crashes>>

-------------------------------------------------------------------------------
(* The rest of the administration, as far as logins can see it *)

\* One transaction: the employee row and, by cascade, all the user owns.
DeleteUser(u) ==
    /\ u \in users
    /\ users' = users \ {u}
    /\ roles' = {a \in roles : a[1] # u}
    /\ DeleteSessions(SessionsOf(u))
    /\ UA!RemoveRow(u)
    /\ UNCHANGED <<systems, sysActive, login, history, crashes>>

\* Mutant: the update creates what it does not find.
UpdateSystemUnchecked(y) ==
    /\ sysActive' = IF y \in sysActive THEN sysActive \ {y} ELSE sysActive \cup {y}
    /\ UNCHANGED <<uaVars, users, systems, roles, live, link, login, history, crashes>>

UpdateSystem(y) ==
    /\ y \in systems
    /\ sysActive' = IF y \in sysActive THEN sysActive \ {y} ELSE sysActive \cup {y}
    /\ UNCHANGED <<uaVars, users, systems, roles, live, link, login, history, crashes>>

\* Its roles and links go by cascade; the sessions stay.
DeleteSystem(y) ==
    /\ y \in systems
    /\ systems' = systems \ {y} /\ sysActive' = sysActive \ {y}
    /\ roles' = {a \in roles : a[2] # y}
    /\ link' = [x \in Pairs |-> IF x[2] = y THEN None ELSE link[x]]
    /\ UNCHANGED <<uaVars, users, live, login, history, crashes>>

CreateUserRole(a) ==
    /\ a \in Assignable \ roles /\ a[1] \in users /\ a[2] \in systems
    /\ roles' = roles \cup {a}
    /\ UNCHANGED <<uaVars, users, systems, sysActive, live, link, login, history, crashes>>

\* Not the last administrator of a system other than the panel's.
DeleteUserRole(a) ==
    /\ a \in roles
    /\ a[3] = "admin" /\ a[2] # Panel =>
         \E b \in roles \ {a} : b[2] = a[2] /\ b[3] = "admin"
    /\ roles' = roles \ {a}
    /\ UNCHANGED <<uaVars, users, systems, sysActive, live, link, login, history, crashes>>

\* The server dies: handlers vanish, the tables and Redis stay.
Crash ==
    /\ crashes < MaxCrashes
    /\ crashes' = crashes + 1
    /\ UA!Crash
    /\ login' = [l \in Logins |-> IF login[l].st \in Ended \cup {"idle"} THEN login[l]
                                  ELSE [login[l] EXCEPT !.st = "crashed"]]
    /\ UNCHANGED <<catalog, live, link, history>>

-------------------------------------------------------------------------------

LoginStep(l) ==
    \/ SignInEmail(l) \/ AssertActive(l) \/ AssertRole(l) \/ IsDelegatedAdminOfPanel(l)
    \/ RevokeOwn(l) \/ SelectCurrent(l) \/ SelectPrevious(l) \/ RevokePrevious(l)
    \/ UpsertLink(l) \/ IssueJwt(l)

SelfService ==
    \E s \in Logins :
        \/ SignOut(s) \/ RevokeOthers(s) \/ RevokeAll(s)
        \/ \E t \in Logins : RevokeOne(s, t)
        \/ \E r \in Requests : RequestStart(r, s)

Administration ==
    \/ \E s \in Logins : AdminRevokeSession(s)
    \/ \E u \in Users : AdminChangeUserPassword(u) \/ DeleteUser(u)
    \/ \E w \in Updates, u \in Users, b \in BOOLEAN : UpdateEmployee(w, u, b)
    \/ \E y \in Systems : UpdateSystem(y) \/ DeleteSystem(y)
    \/ \E a \in Assignable : CreateUserRole(a) \/ DeleteUserRole(a)

Next ==
    \/ \E l \in Logins : LoginStep(l)
    \/ \E l \in Logins, u \in Users, y \in Systems \cup {NoSys} : ResolveActiveSystem(l, u, y)
    \/ \E p \in Callers : CheckStep(p)
    \/ \E r \in Requests : RequestEnd(r)
    \/ \E u \in Users : CacheExpire(u)
    \/ \E w \in Updates : InvalidateFlag(w) \/ RevokeAllUserSessions(w)
    \/ SelfService
    \/ Administration
    \/ Crash

Spec == Init /\ [][Next]_vars

\* Every handler in flight goes on: its awaits settle, by answer or by timeout.
Fairness ==
    /\ \A l \in Logins : WF_vars(LoginStep(l))
    /\ \A p \in Callers : WF_vars(CheckStep(p))
    /\ \A w \in Updates : WF_vars(InvalidateFlag(w) \/ RevokeAllUserSessions(w))

FairSpec == Spec /\ Fairness

-------------------------------------------------------------------------------
(* Properties *)

\* Past the check of assertAccessOrRevoke, with an answer that carries the cookies or
\* still may.
LetIn(l) == login[l].st \notin {"idle", "verify", "check", "revoke", "aborted", "crashed"}

\* An update has taken u's access away and is about to close the sessions, or will not
\* any more: a statement of it threw or the server stopped.
Closing(u) == \E w \in Updates : /\ upd[w].user = u /\ ~upd[w].active
                                 /\ upd[w].st \in {"updated", "invalidated"}
GivenUp(u) == \E w \in Updates : /\ upd[w].user = u /\ ~upd[w].active
                                 /\ upd[w].st \in {"failed", "crashed"}

\* Deactivating an employee (services/employee.service.ts:295, "Desactivar corta el
\* acceso ya: se cierran sus sesiones abiertas") leaves no session of the user that a
\* login could hand out, whatever the update interleaves with: one that passed the
\* check of assertAccessOrRevoke dies, unless a stale flag let it in or the update has
\* yet to reach its deletion or never will.
DeactivationClosesSessions ==
    \A l \in live : LetIn(l) /\ login[l].user \in inactive =>
        l \in misled \/ Closing(login[l].user) \/ GivenUp(login[l].user)

\* sessionSystem never points at a session that is gone, of another user, or
\* bound by a login that asked for another system or never passed the checks
\* (bindSessionToSystem, and the cascades of session, user and system).
LinksCoherent ==
    \A x \in Pairs : link[x] # None =>
        /\ link[x] \in live
        /\ Pair(link[x]) = x
        /\ login[link[x]].st \in {"jwt", "done", "failed", "crashed"}
        /\ x[1] \in users /\ x[2] \in systems

Bound(l) == l \in live /\ login[l].sys # NoSys /\ login[l].st \in {"jwt", "done"}

\* What bindSessionToSystem guarantees of "una sola sesion por usuario y sistema"
\* (session-system.service.ts:25-27): as long as two binds of the same user and
\* system never overlapped between the read of the previous session and the upsert,
\* at most one session is bound to the pair.
OneSessionUnlessContended ==
    \A l, m \in Logins :
        Bound(l) /\ Bound(m) /\ Pair(l) = Pair(m) /\ Pair(l) \notin contended => l = m

\* "Con slug, la sesion queda ligada a ese sistema" (auth.service.ts:116-117): while no
\* two binds of the pair have overlapped and its system exists, the live session of a
\* login that succeeded is the one linked to the pair, whatever failed, died or was
\* revoked around it.
SuccessfulLoginsAreBound ==
    \A l \in Logins : Bound(l) /\ Pair(l) \notin contended /\ login[l].sys \in systems
                         => link[Pair(l)] = l

\* The same sentence for every session that a login with slug handed out: the cookies
\* of a login whose bind fails are in the answer already (auth.service.ts:140).
SluggedSessionsAreBound ==
    \A l \in Logins :
        Usable(l) /\ login[l].sys \in systems /\ Pair(l) \notin contended
          => link[Pair(l)] = l

\* A login ends no session but its own and the previous one of the same user
\* in the same system: sessions in other systems and unbound ones survive.
LoginSparesOtherSessions ==
    [][\A l \in Logins : LoginStep(l) =>
         \A k \in live \ live' : k = l \/ Pair(k) = Pair(l)]_vars

\* An account that stays deactivated ends up without sessions, those of refused logins
\* included: what is left for good was let in by a stale flag, or belongs to a login or
\* survived an update that ended in an error or with the server, which nobody retries.
DeactivatedEndsWithoutSessions ==
    \A u \in Users : <>[](u \in inactive) =>
        <>[](\A s \in SessionsOf(u) :
               s \in misled \/ login[s].st \in {"aborted", "crashed"} \/ GivenUp(u))
===============================================================================
