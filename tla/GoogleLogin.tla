------------------------------ MODULE GoogleLogin ------------------------------
(***************************************************************************)
(* services/google-auth.service.ts: login with Google by redirect.  The    *)
(* callback of better-auth opens a session; "finish" checks that the user  *)
(* may enter, binds the session to the system and trades it for a code of  *)
(* one use, which the browser carries back to the application; the server  *)
(* of the application exchanges the code for the session token.            *)
(*                                                                         *)
(* A login is one of the callers of isUserDeactivated of UserActive, and   *)
(* the awaits of finish and exchange are steps, any of which may throw.    *)
(* Whether a system is active and a user has a role in it may change at    *)
(* any time, so either answer may come (Sessions follows those tables);    *)
(* such a question is joined to the await before or after it, and the      *)
(* bind, whose steps are those of Sessions, is one step.                   *)
(***************************************************************************)
EXTENDS UserActive

CONSTANTS
    Logins,       \* Google logins; the other callers are requests
    Exchanges,    \* calls of googleExchangeFn, each made once
    Systems,
    NoSys, NoOne

ASSUME GoogleAssumption == 
    Logins \subseteq Callers /\ NoSys \notin Systems /\ NoOne \notin Logins

VARIABLES
    fin,        \* fin[g]: where login g is, whose it is and into which system
    live,       \* logins whose row of session exists
    link,       \* session_system by its unique key: the login a pair points to
    code,       \* code[g]: the row of verification that finish made for g
    exch,       \* exch[x]: where exchange x is, and whose code it took
    misled      \* logins let in by a stale flag (history)

googleVars == <<fin, live, link, code, exch, misled>>
allVars == <<vars, googleVars>>

\* The awaits of finish, in order; "revoke" is its catch.
FinishSteps == {"access", "checking", "refuse", "bind", "purge", "insert", "revoke"}
\* "failed": revoked and sent back with an error; "stuck": it could not read or revoke
\* the session; "dead": the server stopped.
FinishStates == {"idle", "open", "redirected", "failed", "stuck", "dead"} \cup FinishSteps
ExchangeSteps == {"burn", "session", "jwt"}
\* "refused": no such code, or the wrong verifier; "failed": the right one, and an error
\* after it; "lost": it took the code and could neither use nor burn it.
ExchangeStates == {"idle", "served", "refused", "failed", "lost"} \cup ExchangeSteps

\* A code in the table; lapsed ones stay until the next login sweeps them.
CodeStates == {"none", "valid", "lapsed", "swept", "taken"}

\* Type invariant of the flag, of finish and exchange and of their tables.
GoogleTypeOK ==
    /\ TypeOK
    /\ fin \in [Logins -> [st : FinishStates, user : Users, sys : Systems \cup {NoSys}]]
    /\ live \subseteq Logins
    /\ link \in [Users \X Systems -> Logins \cup {NoOne}]
    /\ code \in [Logins -> CodeStates]
    /\ exch \in [Exchanges -> [st : ExchangeStates, took : Logins \cup {NoOne}]]
    /\ misled \subseteq Logins

GoogleInit ==
    /\ Init
    /\ \E u \in Users : fin = [g \in Logins |-> [st |-> "idle", user |-> u, sys |-> NoSys]]
    /\ live = {}
    /\ link = [k \in Users \X Systems |-> NoOne]
    /\ code = [g \in Logins |-> "none"]
    /\ exch = [x \in Exchanges |-> [st |-> "idle", took |-> NoOne]]
    /\ misled = {}

Goes(g, s) == fin' = [fin EXCEPT ![g].st = s]

\* Any error after the session was read ends in the catch, which revokes it.
Throws(g) == Goes(g, "revoke") /\ UNCHANGED <<live, link, code, misled>>

\* Deleting rows of session cascades to their links.
EndSessions(S) ==
    /\ live' = live \ S
    /\ link' = [k \in DOMAIN link |-> IF link[k] \in S THEN NoOne ELSE link[k]]

-------------------------------------------------------------------------------
(* googleCallbackFn, googleFinishFn *)

\* better-auth opens a session of an existing user and redirects to finish.
Callback(g, u, s) ==
    /\ fin[g].st = "idle"
    /\ fin' = [fin EXCEPT ![g] = [st |-> "open", user |-> u, sys |-> s]]
    /\ live' = live \cup {g}
    /\ UNCHANGED <<vars, link, code, exch, misled>>

\* getSession with the cookie: without its answer there is nothing to revoke.  The
\* resolveActiveSystem that follows may throw.
Finish(g) ==
    /\ fin[g].st = "open"
    /\ \/ g \in live /\ Goes(g, "access")
       \/ g \in live /\ fin[g].sys \in Systems /\ Goes(g, "revoke")
       \/ g \notin live /\ Goes(g, "failed")
       \/ Goes(g, "stuck")
    /\ UNCHANGED <<vars, live, link, code, exch, misled>>

\* assertAccessOrRevoke asks isUserDeactivated first.
AskDeactivated(g) ==
    /\ fin[g].st = "access"
    /\ Call(g, fin[g].user)
    /\ Goes(g, "checking")
    /\ UNCHANGED <<live, link, code, exch, misled>>

\* A hit answers; one that calls a deactivated account active misleads the login.
GetFlag(g) ==
    /\ GetCached(g)
    /\ misled' = IF /\ cache[chk[g].user] = "0" /\ chk'[g].st = "answered"
                    /\ chk[g].user \in inactive
                 THEN misled \cup {g} ELSE misled
    /\ UNCHANGED <<fin, live, link, code, exch>>

QueryFlag(g) == QueryUserDeactivated(g) /\ UNCHANGED googleVars
SetFlag(g) == SetCached(g) /\ UNCHANGED googleVars

\* The query of the employee table throws.
QueryThrows(g) == QueryFails(g) /\ Throws(g) /\ UNCHANGED exch

\* The answer, and if it is no, userHasRoleInSystem and isDelegatedAdminOfPanel or
\* userHasRoleInAnySystem.
FlagAnswered(g) ==
    /\ Return(g)
    /\ \/ Goes(g, "refuse")
       \/ ~chk[g].res /\ Goes(g, IF fin[g].sys = NoSys THEN "purge" ELSE "bind")
       \/ ~chk[g].res /\ Goes(g, "revoke")
    /\ UNCHANGED <<live, link, code, exch, misled>>

\* A refused user loses the session; then the 403 is thrown, or what
\* revokeSession threw.
Refuse(g) ==
    /\ fin[g].st = "refuse"
    /\ Goes(g, "revoke")
    /\ EndSessions({g}) \/ UNCHANGED <<live, link>>
    /\ UNCHANGED <<vars, code, exch, misled>>

\* The session of the pair until now ends and the link moves to this one; an
\* error comes before, between or after the two.
Bind(g) ==
    /\ fin[g].st = "bind"
    /\ LET k == <<fin[g].user, fin[g].sys>>
           previous == {link[k]} \ {g, NoOne} IN
       \/ /\ g \in live
          /\ live' = live \ previous
          /\ link' = [link EXCEPT ![k] = g]
          /\ Goes(g, "purge") \/ Goes(g, "revoke")
       \/ g \in live /\ EndSessions(previous) /\ Goes(g, "revoke")
       \/ Goes(g, "revoke") /\ UNCHANGED <<live, link>>
    /\ UNCHANGED <<vars, code, exch, misled>>

\* createLoginCode first deletes the codes that lapsed.
PurgeCodes(g) ==
    /\ fin[g].st = "purge"
    /\ \/ /\ code' = [h \in Logins |-> IF code[h] = "lapsed" THEN "swept" ELSE code[h]]
          /\ Goes(g, "insert") \/ Goes(g, "revoke")
       \/ Goes(g, "revoke") /\ UNCHANGED code
    /\ UNCHANGED <<vars, live, link, exch, misled>>

\* Mutant: a failed insert is tried again.
InsertCodeOrRetry(g) ==
    /\ fin[g].st = "insert"
    /\ \/ code' = [code EXCEPT ![g] = "valid"] /\ Goes(g, "redirected")
       \/ Goes(g, "purge") /\ UNCHANGED code
    /\ UNCHANGED <<vars, live, link, exch, misled>>

\* A lost reply leaves a code that nobody knows.
InsertCode(g) ==
    /\ fin[g].st = "insert"
    /\ \/ /\ code' = [code EXCEPT ![g] = "valid"]
          /\ Goes(g, "redirected") \/ Goes(g, "revoke")
       \/ Goes(g, "revoke") /\ UNCHANGED code
    /\ UNCHANGED <<vars, live, link, exch, misled>>

\* Mutant: the catch only reports the error.
FailWithoutRevoking(g) ==
    /\ fin[g].st = "revoke"
    /\ Goes(g, "failed")
    /\ UNCHANGED <<vars, live, link, code, exch, misled>>

\* The catch revokes; a failure of that is swallowed.
FailAndRevoke(g) ==
    /\ fin[g].st = "revoke"
    /\ \/ EndSessions({g}) /\ Goes(g, "failed")
       \/ Goes(g, "stuck") /\ UNCHANGED <<live, link>>
    /\ UNCHANGED <<vars, code, exch, misled>>

\* 60 s have passed.
LapseCode(g) ==
    /\ code[g] = "valid"
    /\ code' = [code EXCEPT ![g] = "lapsed"]
    /\ UNCHANGED <<vars, fin, live, link, exch, misled>>

-------------------------------------------------------------------------------
(* googleExchangeFn *)

ExchangeGoes(x, s) == exch' = [exch EXCEPT ![x].st = s]

\* Mutant: the code is read first and deleted at the end.
ExchangeWithoutDelete(x, g) ==
    /\ exch[x].st = "idle" /\ fin[g].st = "redirected" /\ code[g] = "valid"
    /\ \E s \in {"session", "burn", "lost"} :
           exch' = [exch EXCEPT ![x] = [st |-> s, took |-> g]]
    /\ UNCHANGED <<vars, fin, live, link, code, misled>>

\* DELETE ... RETURNING with the verifier of the login, with a wrong one, or with a
\* reply that is lost.
Exchange(x, g) ==
    /\ exch[x].st = "idle" /\ fin[g].st = "redirected" /\ code[g] = "valid"
    /\ code' = [code EXCEPT ![g] = "taken"]
    /\ \E s \in {"session", "burn", "lost"} :
           exch' = [exch EXCEPT ![x] = [st |-> s, took |-> g]]
    /\ UNCHANGED <<vars, fin, live, link, misled>>

\* No row: the code lapsed, was taken or never was; or the query failed.
ExchangeNothing(x) ==
    /\ exch[x].st = "idle"
    /\ ExchangeGoes(x, "refused")
    /\ UNCHANGED <<vars, fin, live, link, code, misled>>

\* Mutant: a wrong verifier spends the code and spares the session.
BurnCodeOnly(x) ==
    /\ exch[x].st = "burn"
    /\ ExchangeGoes(x, "refused")
    /\ UNCHANGED <<vars, fin, live, link, code, misled>>

\* A wrong verifier: the session is revoked, or the failure is swallowed.
Burn(x) ==
    /\ exch[x].st = "burn"
    /\ \/ EndSessions({exch[x].took}) /\ ExchangeGoes(x, "refused")
       \/ ExchangeGoes(x, "lost") /\ UNCHANGED <<live, link>>
    /\ UNCHANGED <<vars, fin, code, misled>>

\* The code is spent by now, and what fails leaves the session as it is.
GetSession(x) ==
    /\ exch[x].st = "session"
    /\ \/ exch[x].took \in live /\ ExchangeGoes(x, "jwt")
       \/ ExchangeGoes(x, "failed")
    /\ UNCHANGED <<vars, fin, live, link, code, misled>>

\* resolveActiveSystem, if the login was into one, and issueJwt.
IssueJwt(x) ==
    /\ exch[x].st = "jwt"
    /\ \/ exch[x].took \in live /\ ExchangeGoes(x, "served")
       \/ ExchangeGoes(x, "failed")
    /\ UNCHANGED <<vars, fin, live, link, code, misled>>

-------------------------------------------------------------------------------
(* The rest of the server *)

SessionsOf(u) == {g \in live : fin[g].user = u}

UpdateEmployee(w, u, b) == UpdateRow(w, u, b) /\ UNCHANGED googleVars
RequestStart(p, u) == p \notin Logins /\ Call(p, u) /\ UNCHANGED googleVars
RequestStep(p) == p \notin Logins /\ Step(p) /\ UNCHANGED googleVars
InvalidateFlag(w) == InvalidateUserActiveCache(w) /\ UNCHANGED googleVars
FlagExpires(u) == Expire(u) /\ UNCHANGED googleVars

\* Mutant: the update of an employee leaves the sessions alone.
KeepSessions(w) == RevokeUserSessions(w) /\ UNCHANGED googleVars

CloseSessions(w) ==
    /\ RevokeUserSessions(w)
    /\ \/ EndSessions(SessionsOf(upd[w].user))
       \/ upd'[w].st = "failed" /\ UNCHANGED <<live, link>>
    /\ UNCHANGED <<fin, code, exch, misled>>

\* deleteEmployee removes the account too; its sessions go with it.
DeleteAccount(u) ==
    /\ RemoveRow(u)
    /\ EndSessions(SessionsOf(u))
    /\ UNCHANGED <<fin, code, exch, misled>>

\* A session ends because its user or an administrator ends it.
SessionEnds(g) ==
    /\ g \in live
    /\ EndSessions({g})
    /\ UNCHANGED <<vars, fin, code, exch, misled>>

\* The server stops: handlers are lost, and with them a revocation that was due;
\* the browser and the tables stay.
Restart ==
    /\ Crash
    /\ fin' = [g \in Logins |-> IF fin[g].st \in FinishSteps
                                 THEN [fin[g] EXCEPT !.st = "dead"] ELSE fin[g]]
    /\ exch' = [x \in Exchanges |->
                  IF exch[x].st = "burn" THEN [exch[x] EXCEPT !.st = "lost"]
                  ELSE IF exch[x].st \in ExchangeSteps THEN [exch[x] EXCEPT !.st = "failed"]
                  ELSE exch[x]]
    /\ UNCHANGED <<live, link, code, misled>>

-------------------------------------------------------------------------------

FinishStep(g) ==
    \/ Finish(g) \/ AskDeactivated(g)
    \/ GetFlag(g) \/ QueryFlag(g) \/ QueryThrows(g) \/ SetFlag(g) \/ FlagAnswered(g)
    \/ Refuse(g) \/ Bind(g) \/ PurgeCodes(g) \/ InsertCode(g)
    \/ FailAndRevoke(g)
ExchangeStep(x) == Burn(x) \/ GetSession(x) \/ IssueJwt(x)
EmployeeStep(w) == InvalidateFlag(w) \/ CloseSessions(w)

GoogleNext ==
    \/ \E g \in Logins :
         \/ FinishStep(g) \/ LapseCode(g) \/ SessionEnds(g)
         \/ \E u \in Users, s \in Systems \cup {NoSys} : Callback(g, u, s)
         \/ \E x \in Exchanges : Exchange(x, g)
    \/ \E p \in Callers : RequestStep(p) \/ \E u \in Users : RequestStart(p, u)
    \/ \E x \in Exchanges : ExchangeNothing(x) \/ ExchangeStep(x)
    \/ \E w \in Updates :
         EmployeeStep(w) \/ \E u \in Users, b \in BOOLEAN : UpdateEmployee(w, u, b)
    \/ \E u \in Users : FlagExpires(u) \/ DeleteAccount(u)
    \/ Restart

GoogleSpec == GoogleInit /\ [][GoogleNext]_allVars

\* Every await settles: statement_timeout ends a query and redisCommand a command.
FinishRuns(g) == fin[g].st # "open" /\ FinishStep(g)
FinishSettles(g) == WF_allVars(FinishRuns(g))
ExchangeSettles(x) == WF_allVars(ExchangeStep(x))
HandlersSettle == /\ \A g \in Logins : FinishSettles(g)
                  /\ \A x \in Exchanges : ExchangeSettles(x)
OthersSettle == /\ \A p \in Callers : WF_allVars(RequestStep(p))
                /\ \A w \in Updates : WF_allVars(EmployeeStep(w))
\* Redis keeps its TTLs and codes their 60 s.
ClockRuns == /\ \A g \in Logins : WF_allVars(LapseCode(g))
             /\ \A u \in Users : WF_allVars(FlagExpires(u))

\* Whether a browser comes back or a code is exchanged is up to others.
GoogleFairness == HandlersSettle /\ OthersSettle /\ ClockRuns

GoogleFairSpec == GoogleSpec /\ GoogleFairness

-------------------------------------------------------------------------------
(* Properties *)

\* Somebody can still use or end the session of g: the browser or its handler, who
\* has the code, who took it.
Held(g) ==
    \/ fin[g].st \in {"open"} \cup FinishSteps
    \/ fin[g].st = "redirected" /\ code[g] = "valid"
    \/ \E x \in Exchanges : exch[x].took = g /\ exch[x].st \in {"served"} \cup ExchangeSteps

\* Why the server may leave a session that nobody holds: it stopped or the session
\* could not be read or revoked; nobody presented the code in time; the exchange
\* that took it failed, unless it was refused for its verifier.
Abandoned(g) ==
    \/ fin[g].st \in {"stuck", "dead"}
    \/ fin[g].st = "redirected" /\ code[g] \in {"lapsed", "swept"}
    \/ \E x \in Exchanges : exch[x].took = g /\ exch[x].st \in {"failed", "lost"}

\* "Cualquier fallo tras abrir sesión deja la sesión revocada" (google-auth:259-260) and
\* a wrong verifier burns the code with its session (:297-306): a session nobody
\* holds is one of those the code gives up knowingly.
SessionsAreHeldOrAbandoned == \A g \in live : Held(g) \/ Abandoned(g)

\* finish checks that the account is active before it binds and issues a code, while
\* updateEmployee deactivates it and deletes its sessions (employee.service:290-299):
\* a login in flight does not survive a finished deactivation, unless a flag that was
\* stale already let it in.
DeactivationSparesOnlyMisledLogins ==
    \A g \in live : /\ fin[g].st \in {"bind", "purge", "insert", "redirected"}
                    /\ fin[g].user \in inactive /\ Settled(fin[g].user)
                    => g \in misled

\* "canje atómico y de un solo uso" (google-auth:278-279): finish, the sweep of lapsed
\* codes and the concurrent exchanges implement a code that is taken once and gives
\* its session token to the one who took it.
OTC == INSTANCE OneTimeCode WITH
    Codes <- Logins,
    Takers <- Exchanges,
    phase <- [g \in Logins |-> CASE code[g] = "none" -> "unissued"
                                 [] code[g] = "valid" -> "issued"
                                 [] OTHER -> "spent"],
    holders <- [g \in Logins |-> {x \in Exchanges : exch[x].took = g}],
    given <- [g \in Logins |-> {x \in Exchanges : exch[x].took = g /\ exch[x].st = "served"}]

ImplementsOneTimeCode == OTC!Spec

FinishEnds(g) == fin[g].st \in FinishSteps ~> fin[g].st \notin FinishSteps
ExchangeEnds(x) == exch[x].st \in ExchangeSteps ~> exch[x].st \notin ExchangeSteps

\* Whatever throws and whatever Redis does, finish sends the browser back and exchange
\* answers.
LoginsEnd == /\ \A g \in Logins : FinishEnds(g)
             /\ \A x \in Exchanges : ExchangeEnds(x)
===============================================================================
