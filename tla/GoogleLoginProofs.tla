--------------------------- MODULE GoogleLoginProofs ---------------------------
(***************************************************************************)
(* Proofs about module GoogleLogin, for every set of users, systems,       *)
(* logins, requests, exchanges and employee updates, with Redis or without *)
(* it.                                                                     *)
(***************************************************************************)
EXTENDS GoogleLogin, TLAPS

(* A check is in flight only while its login waits for it, and it is about the
   user of the login. *)
ChecksBelong ==
    \A g \in Logins : chk[g].st # "idle" => fin[g].st = "checking" /\ chk[g].user = fin[g].user

(* A login makes its code at the end. *)
CodesComeLast ==
    \A g \in Logins :
        fin[g].st \in {"idle", "open"} \cup (FinishSteps \ {"revoke"}) => code[g] = "none"

(* What an exchange holds is taken, and by no other. *)
OneTaker ==
    \A x \in Exchanges :
        /\ exch[x].st = "idle" => exch[x].took = NoOne
        /\ exch[x].st \in {"served"} \cup ExchangeSteps => exch[x].took # NoOne
        /\ exch[x].took # NoOne =>
             /\ code[exch[x].took] = "taken"
             /\ \A y \in Exchanges : exch[y].took = exch[x].took => y = x

(* A login that was found active and may still be served. *)
Passed(g) ==
    \/ fin[g].st \in {"bind", "purge", "insert", "redirected"}
    \/ fin[g].st = "checking" /\ chk[g].st \in {"set", "answered"} /\ ~chk[g].res

Deactivating(w) == ~upd[w].active /\ upd[w].st \notin {"idle", "finished"}

(* The account of such a login is active, or was called so by a stale flag, or its
   deactivation has yet to delete the session. *)
PassedAreWatched ==
    \A g \in live : Passed(g) /\ fin[g].user \in inactive =>
        g \in misled \/ \E w \in Updates : upd[w].user = fin[g].user /\ Deactivating(w)

GoogleInv ==
    /\ GoogleTypeOK /\ ChecksBelong /\ CodesComeLast /\ OneTaker
    /\ SessionsAreHeldOrAbandoned /\ PassedAreWatched

-------------------------------------------------------------------------------
(* What a step may do to each part of the state *)

\* A login moves by Goes, starts with Callback or dies with the server.
LEMMA FinishMoves ==
    ASSUME [GoogleNext]_allVars
    PROVE
           \/ UNCHANGED fin
           \/ \E g \in Logins, s \in FinishStates : Goes(g, s)
           \/ \E g \in Logins, u \in Users, s \in Systems \cup {NoSys} : Callback(g, u, s)
           \/ Restart
  <1> DEFINE Moved ==
           \/ UNCHANGED fin
           \/ \E g \in Logins, s \in FinishStates : Goes(g, s)
           \/ \E g \in Logins, u \in Users, s \in Systems \cup {NoSys} : Callback(g, u, s)
           \/ Restart
  <1> USE DEF FinishStates, FinishSteps
  <1>1. ASSUME NEW g \in Logins, FinishStep(g) \/ LapseCode(g) \/ SessionEnds(g)
        PROVE  Moved
    BY <1>1 DEF FinishStep, Finish, AskDeactivated, GetFlag, QueryFlag, QueryThrows, QueryFails,
        Throws, SetFlag,
        FlagAnswered, Refuse, Bind, PurgeCodes, InsertCode, FailAndRevoke, LapseCode,
           SessionEnds, vars, googleVars
  <1>2. ASSUME NEW g \in Logins, NEW u \in Users, NEW s \in Systems \cup {NoSys}, Callback(g,
     u, s)
        PROVE  Moved
    BY <1>2
  <1>3. ASSUME NEW x \in Exchanges, \/ ExchangeNothing(x) \/ ExchangeStep(x)
                               \/ \E g \in Logins : Exchange(x, g)
        PROVE  Moved
    BY <1>3 DEF ExchangeNothing, ExchangeStep, Exchange, Burn, GetSession, IssueJwt, vars,
       googleVars
  <1>4. ASSUME NEW p \in Callers, RequestStep(p) \/ \E u \in Users : RequestStart(p, u)
        PROVE  Moved
    BY <1>4 DEF RequestStep, RequestStart, vars, googleVars
  <1>5. ASSUME NEW w \in Updates, EmployeeStep(w) \/ \E u \in Users,
     b \in BOOLEAN : UpdateEmployee(w, u, b)
        PROVE  Moved
    BY <1>5 DEF EmployeeStep, InvalidateFlag, CloseSessions, UpdateEmployee, vars, googleVars
  <1>6. ASSUME NEW u \in Users, FlagExpires(u) \/ DeleteAccount(u)
        PROVE  Moved
    BY <1>6 DEF FlagExpires, DeleteAccount, vars, googleVars
  <1>7. ASSUME Restart
        PROVE  Moved
    BY <1>7
  <1>8. CASE UNCHANGED allVars
    BY <1>8 DEF allVars, vars, googleVars
  <1>9. QED
    BY <1>1, <1>2, <1>3, <1>4, <1>5, <1>6, <1>7, <1>8 DEF GoogleNext

\* So does an exchange.
LEMMA ExchangeMoves ==
    ASSUME [GoogleNext]_allVars
    PROVE
           \/ UNCHANGED exch
           \/ \E x \in Exchanges, s \in ExchangeStates : ExchangeGoes(x, s)
           \/ \E g \in Logins, x \in Exchanges : Exchange(x, g)
           \/ Restart
  <1> DEFINE Moved ==
           \/ UNCHANGED exch
           \/ \E x \in Exchanges, s \in ExchangeStates : ExchangeGoes(x, s)
           \/ \E g \in Logins, x \in Exchanges : Exchange(x, g)
           \/ Restart
  <1> USE DEF ExchangeStates, ExchangeSteps
  <1>1. ASSUME NEW g \in Logins, FinishStep(g) \/ LapseCode(g) \/ SessionEnds(g)
        PROVE  Moved
    BY <1>1 DEF FinishStep, Finish, AskDeactivated, GetFlag, QueryFlag, QueryThrows, QueryFails,
        Throws, SetFlag,
        FlagAnswered, Refuse, Bind, PurgeCodes, InsertCode, FailAndRevoke, LapseCode,
           SessionEnds, vars, googleVars
  <1>2. ASSUME NEW g \in Logins, NEW u \in Users, NEW s \in Systems \cup {NoSys}, Callback(g,
     u, s)
        PROVE  Moved
    BY <1>2 DEF Callback, vars, googleVars
  <1>3. ASSUME NEW x \in Exchanges, \/ ExchangeNothing(x) \/ ExchangeStep(x)
                               \/ \E g \in Logins : Exchange(x, g)
        PROVE  Moved
    BY <1>3 DEF ExchangeNothing, ExchangeStep, Burn, GetSession, IssueJwt
  <1>4. ASSUME NEW p \in Callers, RequestStep(p) \/ \E u \in Users : RequestStart(p, u)
        PROVE  Moved
    BY <1>4 DEF RequestStep, RequestStart, vars, googleVars
  <1>5. ASSUME NEW w \in Updates, EmployeeStep(w) \/ \E u \in Users,
     b \in BOOLEAN : UpdateEmployee(w, u, b)
        PROVE  Moved
    BY <1>5 DEF EmployeeStep, InvalidateFlag, CloseSessions, UpdateEmployee, vars, googleVars
  <1>6. ASSUME NEW u \in Users, FlagExpires(u) \/ DeleteAccount(u)
        PROVE  Moved
    BY <1>6 DEF FlagExpires, DeleteAccount, vars, googleVars
  <1>7. ASSUME Restart
        PROVE  Moved
    BY <1>7
  <1>8. CASE UNCHANGED allVars
    BY <1>8 DEF allVars, vars, googleVars
  <1>9. QED
    BY <1>1, <1>2, <1>3, <1>4, <1>5, <1>6, <1>7, <1>8 DEF GoogleNext

\* Sessions begin with Callback, and end with their links except in Bind.
LEMMA SessionMoves ==
    ASSUME [GoogleNext]_allVars
    PROVE
           \/ UNCHANGED <<live, link>>
           \/ \E S : EndSessions(S)
           \/ \E g \in Logins, u \in Users, s \in Systems \cup {NoSys} : Callback(g, u, s)
           \/ \E g \in Logins : Bind(g)
  <1> DEFINE Moved ==
           \/ UNCHANGED <<live, link>>
           \/ \E S : EndSessions(S)
           \/ \E g \in Logins, u \in Users, s \in Systems \cup {NoSys} : Callback(g, u, s)
           \/ \E g \in Logins : Bind(g)
  <1>1. ASSUME NEW g \in Logins, FinishStep(g) \/ LapseCode(g) \/ SessionEnds(g)
        PROVE  Moved
    BY <1>1 DEF FinishStep, Finish, AskDeactivated, GetFlag, QueryFlag, QueryThrows, QueryFails,
        Throws, SetFlag,
        FlagAnswered, Refuse, PurgeCodes, InsertCode, FailAndRevoke, LapseCode, SessionEnds,
           vars, googleVars
  <1>2. ASSUME NEW g \in Logins, NEW u \in Users, NEW s \in Systems \cup {NoSys}, Callback(g,
     u, s)
        PROVE  Moved
    BY <1>2
  <1>3. ASSUME NEW x \in Exchanges, \/ ExchangeNothing(x) \/ ExchangeStep(x)
                               \/ \E g \in Logins : Exchange(x, g)
        PROVE  Moved
    BY <1>3 DEF ExchangeNothing, ExchangeStep, Exchange, Burn, GetSession, IssueJwt, vars,
       googleVars
  <1>4. ASSUME NEW p \in Callers, RequestStep(p) \/ \E u \in Users : RequestStart(p, u)
        PROVE  Moved
    BY <1>4 DEF RequestStep, RequestStart, vars, googleVars
  <1>5. ASSUME NEW w \in Updates, EmployeeStep(w) \/ \E u \in Users,
     b \in BOOLEAN : UpdateEmployee(w, u, b)
        PROVE  Moved
    BY <1>5 DEF EmployeeStep, InvalidateFlag, CloseSessions, UpdateEmployee, vars, googleVars
  <1>6. ASSUME NEW u \in Users, FlagExpires(u) \/ DeleteAccount(u)
        PROVE  Moved
    BY <1>6 DEF FlagExpires, DeleteAccount, vars, googleVars
  <1>7. ASSUME Restart
        PROVE  Moved
    BY <1>7 DEF Restart, vars, googleVars
  <1>8. CASE UNCHANGED allVars
    BY <1>8 DEF allVars, vars, googleVars
  <1>9. QED
    BY <1>1, <1>2, <1>3, <1>4, <1>5, <1>6, <1>7, <1>8 DEF GoogleNext

\* What a stop does to each handler.
LEMMA RestartEffect ==
    ASSUME Restart, GoogleTypeOK
    PROVE  /\ \A p \in Callers : chk'[p].st = "idle"
           /\ \A g \in Logins :
                 /\ fin'[g].user = fin[g].user
                 /\ fin'[g].st = IF fin[g].st \in FinishSteps THEN "dead" ELSE fin[g].st
           /\ \A w \in Updates :
                 /\ upd'[w].user = upd[w].user /\ upd'[w].active = upd[w].active
                 /\ upd'[w].st = IF upd[w].st \in {"updated", "invalidated"} THEN "crashed"
                                 ELSE upd[w].st
  <1> USE DEF GoogleTypeOK, TypeOK
  <1>1. ASSUME NEW p \in Callers
        PROVE  chk'[p].st = "idle"
    <2>1. chk'[p] = [chk[p] EXCEPT !.st = "idle", !.res = FALSE]
      BY DEF Restart, Crash
    <2>2. chk[p] \in [st : CheckStates, user : Users, res : BOOLEAN]
      OBVIOUS
    <2>3. QED
      BY <2>1, <2>2
  <1>2. ASSUME NEW g \in Logins
        PROVE  /\ fin'[g].user = fin[g].user
               /\ fin'[g].st = IF fin[g].st \in FinishSteps THEN "dead" ELSE fin[g].st
    <2>1. fin'[g] = IF fin[g].st \in FinishSteps THEN [fin[g] EXCEPT !.st = "dead"] ELSE fin[g]
      BY DEF Restart
    <2>2. QED
      BY <2>1
  <1>3. ASSUME NEW w \in Updates
        PROVE  /\ upd'[w].user = upd[w].user /\ upd'[w].active = upd[w].active
               /\ upd'[w].st = IF upd[w].st \in {"updated", "invalidated"} THEN "crashed"
                               ELSE upd[w].st
    <2>1. upd'[w] = IF upd[w].st \in {"updated", "invalidated"}
                    THEN [upd[w] EXCEPT !.st = "crashed"] ELSE upd[w]
      BY DEF Restart, Crash
    <2>2. QED
      BY <2>1
  <1>4. QED
    BY <1>1, <1>2, <1>3

(* Type correctness *)

\* The steps of isUserDeactivated keep the type of the flag.
LEMMA CheckType ==
    ASSUME TypeOK, NEW p \in Callers,
           Step(p) \/ \E u \in Users : Call(p, u)
    PROVE  TypeOK'
  <1> USE DEF TypeOK, CheckStates, UpdateStates
  <1>1. CASE GetCached(p)
    BY <1>1 DEF GetCached
  <1>2. CASE QueryUserDeactivated(p)
    <2>1. ASSUME NEW res \in BOOLEAN, res = (chk[p].user \in inactive)
          PROVE  TypeOK'
      <3>1. chk' = [chk EXCEPT ![p].st = IF RedisEnabled THEN "set" ELSE "answered",
         ![p].res = res]
        BY <1>2, <2>1, Zenon DEF QueryUserDeactivated
      <3>2. UNCHANGED <<inactive, cache, upd>>
        BY <1>2 DEF QueryUserDeactivated
      <3>3. QED
        BY <3>1, <3>2
    <2>2. (chk[p].user \in inactive) \in BOOLEAN
      OBVIOUS
    <2>3. QED
      BY <2>1, <2>2, Zenon
  <1>3. CASE SetCached(p)
    BY <1>3 DEF SetCached
  <1>4. CASE Return(p)
    BY <1>4 DEF Return
  <1>5. ASSUME NEW u \in Users, Call(p, u)
        PROVE  TypeOK'
    BY <1>5 DEF Call
  <1>6. CASE QueryFails(p)
    BY <1>6 DEF QueryFails
  <1>7. QED
    BY <1>1, <1>2, <1>3, <1>4, <1>5, <1>6 DEF Step

\* So does every step of GoogleLogin.
LEMMA FlagType ==
    ASSUME [GoogleNext]_allVars, GoogleTypeOK
    PROVE  TypeOK'
  <1>0. TypeOK /\ \A g \in Logins : g \in Callers /\ fin[g].user \in Users
    BY GoogleAssumption DEF GoogleTypeOK
  <1>1. ASSUME UNCHANGED vars
        PROVE  TypeOK'
    BY <1>0, <1>1 DEF TypeOK, vars
  <1>2. ASSUME NEW g \in Logins, FinishStep(g) \/ LapseCode(g) \/ SessionEnds(g)
        PROVE  TypeOK'
    <2>1. CASE GetFlag(g) \/ QueryFlag(g) \/ SetFlag(g) \/ FlagAnswered(g) \/ AskDeactivated(g)
      BY <1>0, <2>1, CheckType DEF GetFlag, QueryFlag, SetFlag, FlagAnswered, AskDeactivated,
         Step
    <2>2. CASE QueryThrows(g)
      BY <1>0, <2>2 DEF QueryThrows, QueryFails, TypeOK, CheckStates
    <2>3. QED
      BY <1>2, <1>1, <2>1, <2>2 DEF FinishStep, Finish, Refuse, Bind, PurgeCodes, InsertCode,
         FailAndRevoke, LapseCode, SessionEnds
  <1>3. ASSUME NEW p \in Callers, RequestStep(p) \/ \E u \in Users : RequestStart(p, u)
        PROVE  TypeOK'
    BY <1>0, <1>3, CheckType DEF RequestStep, RequestStart
  <1>4. ASSUME NEW w \in Updates,
               EmployeeStep(w) \/ \E u \in Users, b \in BOOLEAN : UpdateEmployee(w, u, b)
        PROVE  TypeOK'
    <2> USE DEF TypeOK, UpdateStates
    <2>1. CASE InvalidateFlag(w)
      BY <1>0, <2>1 DEF InvalidateFlag, InvalidateUserActiveCache
    <2>2. CASE CloseSessions(w)
      BY <1>0, <2>2 DEF CloseSessions, RevokeUserSessions
    <2>3. ASSUME NEW u \in Users, NEW b \in BOOLEAN, UpdateEmployee(w, u, b)
          PROVE  TypeOK'
      BY <1>0, <2>3 DEF UpdateEmployee, UpdateRow
    <2>4. QED
      BY <1>4, <2>1, <2>2, <2>3 DEF EmployeeStep
  <1>5. ASSUME NEW u \in Users, FlagExpires(u) \/ DeleteAccount(u)
        PROVE  TypeOK'
    BY <1>0, <1>5 DEF FlagExpires, Expire, DeleteAccount, RemoveRow, TypeOK
  <1>6. CASE Restart
    BY <1>0, <1>6 DEF Restart, Crash, TypeOK, CheckStates, UpdateStates
  <1>7. QED
    BY <1>1, <1>2, <1>3, <1>4, <1>5, <1>6 DEF GoogleNext, allVars, Callback, Exchange,
       ExchangeNothing, ExchangeStep, Burn, GetSession, IssueJwt

\* The rest of the state keeps its type.
LEMMA TypeStep ==
    ASSUME [GoogleNext]_allVars, GoogleTypeOK
    PROVE  GoogleTypeOK'
  <1> DEFINE SessionsTyped ==
           /\ live' \subseteq Logins
           /\ link' \in [Users \X Systems -> Logins \cup {NoOne}]
  <1> DEFINE CodesTyped == code' \in [Logins -> CodeStates] /\ misled' \subseteq Logins
  <1> USE GoogleAssumption
  <1>1. fin' \in [Logins -> [st : FinishStates, user : Users, sys : Systems \cup {NoSys}]]
    <2> USE DEF GoogleTypeOK, FinishStates
    <2>1. CASE \E g \in Logins, s \in FinishStates : Goes(g, s)
      BY <2>1 DEF Goes
    <2>2. CASE \E g \in Logins, u \in Users, s \in Systems \cup {NoSys} : Callback(g, u, s)
      BY <2>2 DEF Callback
    <2>3. CASE Restart
      BY <2>3 DEF Restart
    <2>4. QED
      BY FinishMoves, <2>1, <2>2, <2>3
  <1>2. exch' \in [Exchanges -> [st : ExchangeStates, took : Logins \cup {NoOne}]]
    BY ExchangeMoves DEF GoogleTypeOK, ExchangeGoes, Exchange, Restart, ExchangeStates,
       ExchangeSteps
  <1>3. SessionsTyped
    <2>1. ASSUME NEW g \in Logins, Bind(g)
          PROVE  SessionsTyped
      BY <2>1 DEF GoogleTypeOK, Bind, EndSessions
    <2>2. QED
      BY SessionMoves, <2>1 DEF GoogleTypeOK, EndSessions, Callback
  <1>4. CodesTyped
    <2> USE DEF GoogleTypeOK, CodeStates
    <2>1. ASSUME NEW g \in Logins, FinishStep(g) \/ LapseCode(g) \/ SessionEnds(g)
          PROVE  CodesTyped
      BY <2>1 DEF FinishStep, Finish, AskDeactivated, GetFlag, QueryFlag, QueryThrows, QueryFails,
         Throws, SetFlag,
          FlagAnswered, Refuse, Bind, PurgeCodes, InsertCode, FailAndRevoke, LapseCode,
             SessionEnds, vars, googleVars
    <2>2. ASSUME NEW g \in Logins, NEW u \in Users, NEW s \in Systems \cup {NoSys},
       Callback(g, u, s)
          PROVE  CodesTyped
      BY <2>2 DEF Callback, vars, googleVars
    <2>3. ASSUME NEW x \in Exchanges, \/ ExchangeNothing(x) \/ ExchangeStep(x)
                                 \/ \E g \in Logins : Exchange(x, g)
          PROVE  CodesTyped
      BY <2>3 DEF ExchangeNothing, ExchangeStep, Exchange, Burn, GetSession, IssueJwt, vars,
         googleVars
    <2>4. ASSUME NEW p \in Callers, RequestStep(p) \/ \E u \in Users : RequestStart(p, u)
          PROVE  CodesTyped
      BY <2>4 DEF RequestStep, RequestStart, vars, googleVars
    <2>5. ASSUME NEW w \in Updates, EmployeeStep(w) \/ \E u \in Users,
       b \in BOOLEAN : UpdateEmployee(w, u, b)
          PROVE  CodesTyped
      BY <2>5 DEF EmployeeStep, InvalidateFlag, CloseSessions, UpdateEmployee, vars, googleVars
    <2>6. ASSUME NEW u \in Users, FlagExpires(u) \/ DeleteAccount(u)
          PROVE  CodesTyped
      BY <2>6 DEF FlagExpires, DeleteAccount, vars, googleVars
    <2>7. ASSUME Restart
          PROVE  CodesTyped
      BY <2>7 DEF Restart, vars, googleVars
    <2>8. CASE UNCHANGED allVars
      BY <2>8 DEF allVars, vars, googleVars
    <2>9. QED
      BY <2>1, <2>2, <2>3, <2>4, <2>5, <2>6, <2>7, <2>8 DEF GoogleNext
  <1>5. QED
    BY <1>1, <1>2, <1>3, <1>4, FlagType DEF GoogleTypeOK

-------------------------------------------------------------------------------
(* The invariant, part by part *)

\* Only a login that waits has a check in flight.
LEMMA ChecksStep ==
    ASSUME [GoogleNext]_allVars, GoogleTypeOK, ChecksBelong
    PROVE  ChecksBelong'
  <1> USE GoogleAssumption DEF GoogleTypeOK, Goes, ExchangeGoes, TypeOK, ChecksBelong
  <1>1. ASSUME NEW g \in Logins, FinishStep(g) \/ LapseCode(g) \/ SessionEnds(g)
        PROVE  ChecksBelong'
    BY <1>1 DEF FinishStep, Finish, AskDeactivated, GetFlag, QueryFlag, QueryThrows, QueryFails,
        Throws, SetFlag,
        FlagAnswered, Refuse, Bind, PurgeCodes, InsertCode, FailAndRevoke, LapseCode,
           SessionEnds, Call, GetCached, QueryUserDeactivated, SetCached, Return, vars,
              googleVars
  <1>2. ASSUME NEW g \in Logins, NEW u \in Users, NEW s \in Systems \cup {NoSys}, Callback(g,
     u, s)
        PROVE  ChecksBelong'
    BY <1>2 DEF Callback, vars, googleVars
  <1>3. ASSUME NEW x \in Exchanges, \/ ExchangeNothing(x) \/ ExchangeStep(x)
                               \/ \E g \in Logins : Exchange(x, g)
        PROVE  ChecksBelong'
    BY <1>3 DEF ExchangeNothing, ExchangeStep, Exchange, Burn, GetSession, IssueJwt, vars,
       googleVars
  <1>4. ASSUME NEW p \in Callers, RequestStep(p) \/ \E u \in Users : RequestStart(p, u)
        PROVE  ChecksBelong'
    BY <1>4 DEF RequestStep, RequestStart, Step, Call, GetCached,
       QueryUserDeactivated, QueryFails, SetCached, Return, vars, googleVars
  <1>5. ASSUME NEW w \in Updates, EmployeeStep(w) \/ \E u \in Users,
     b \in BOOLEAN : UpdateEmployee(w, u, b)
        PROVE  ChecksBelong'
    BY <1>5 DEF EmployeeStep, InvalidateFlag, CloseSessions, UpdateEmployee,
       InvalidateUserActiveCache, RevokeUserSessions, UpdateRow, vars, googleVars
  <1>6. ASSUME NEW u \in Users, FlagExpires(u) \/ DeleteAccount(u)
        PROVE  ChecksBelong'
    BY <1>6 DEF FlagExpires, DeleteAccount, Expire, RemoveRow, vars, googleVars
  <1>7. ASSUME Restart
        PROVE  ChecksBelong'
    BY <1>7, RestartEffect
  <1>8. CASE UNCHANGED allVars
    BY <1>8 DEF allVars, vars, googleVars
  <1>9. QED
    BY <1>1, <1>2, <1>3, <1>4, <1>5, <1>6, <1>7, <1>8 DEF GoogleNext

\* No code exists before the end of finish.
LEMMA CodesStep ==
    ASSUME [GoogleNext]_allVars, GoogleTypeOK, ChecksBelong, CodesComeLast
    PROVE  CodesComeLast'
  <1> USE GoogleAssumption DEF GoogleTypeOK, Goes, ExchangeGoes, ChecksBelong, CodesComeLast,
     FinishSteps
  <1>1. ASSUME NEW g \in Logins, FinishStep(g) \/ LapseCode(g) \/ SessionEnds(g)
        PROVE  CodesComeLast'
    BY <1>1 DEF FinishStep, Finish, AskDeactivated, GetFlag, QueryFlag, QueryThrows, QueryFails,
        Throws, SetFlag,
        FlagAnswered, Refuse, Bind, PurgeCodes, InsertCode, FailAndRevoke, LapseCode,
           SessionEnds, Call, GetCached, QueryUserDeactivated, SetCached, Return, vars,
              googleVars
  <1>2. ASSUME NEW g \in Logins, NEW u \in Users, NEW s \in Systems \cup {NoSys}, Callback(g,
     u, s)
        PROVE  CodesComeLast'
    BY <1>2 DEF Callback, vars, googleVars
  <1>3. ASSUME NEW x \in Exchanges, \/ ExchangeNothing(x) \/ ExchangeStep(x)
                               \/ \E g \in Logins : Exchange(x, g)
        PROVE  CodesComeLast'
    BY <1>3 DEF ExchangeNothing, ExchangeStep, Exchange, Burn, GetSession, IssueJwt, vars,
       googleVars
  <1>4. ASSUME NEW p \in Callers, RequestStep(p) \/ \E u \in Users : RequestStart(p, u)
        PROVE  CodesComeLast'
    BY <1>4 DEF RequestStep, RequestStart, vars, googleVars
  <1>5. ASSUME NEW w \in Updates, EmployeeStep(w) \/ \E u \in Users,
     b \in BOOLEAN : UpdateEmployee(w, u, b)
        PROVE  CodesComeLast'
    BY <1>5 DEF EmployeeStep, InvalidateFlag, CloseSessions, UpdateEmployee, vars, googleVars
  <1>6. ASSUME NEW u \in Users, FlagExpires(u) \/ DeleteAccount(u)
        PROVE  CodesComeLast'
    BY <1>6 DEF FlagExpires, DeleteAccount, vars, googleVars
  <1>7. ASSUME Restart
        PROVE  CodesComeLast'
    BY <1>7 DEF Restart, vars, googleVars
  <1>8. CASE UNCHANGED allVars
    BY <1>8 DEF allVars, vars, googleVars
  <1>9. QED
    BY <1>1, <1>2, <1>3, <1>4, <1>5, <1>6, <1>7, <1>8 DEF GoogleNext

\* Two exchanges never hold one code.
LEMMA TakersStep ==
    ASSUME [GoogleNext]_allVars, GoogleTypeOK, CodesComeLast, OneTaker
    PROVE  OneTaker'
  <1> USE GoogleAssumption DEF GoogleTypeOK, Goes, ExchangeGoes, CodesComeLast, OneTaker,
     FinishSteps, ExchangeSteps
  <1>1. ASSUME NEW g \in Logins, FinishStep(g) \/ LapseCode(g) \/ SessionEnds(g)
        PROVE  OneTaker'
    BY <1>1 DEF FinishStep, Finish, AskDeactivated, GetFlag, QueryFlag, QueryThrows, QueryFails,
        Throws, SetFlag,
        FlagAnswered, Refuse, Bind, PurgeCodes, InsertCode, FailAndRevoke, LapseCode,
           SessionEnds, vars, googleVars
  <1>2. ASSUME NEW g \in Logins, NEW u \in Users, NEW s \in Systems \cup {NoSys}, Callback(g,
     u, s)
        PROVE  OneTaker'
    BY <1>2 DEF Callback, vars, googleVars
  <1>3. ASSUME NEW x \in Exchanges, \/ ExchangeNothing(x) \/ ExchangeStep(x)
                               \/ \E g \in Logins : Exchange(x, g)
        PROVE  OneTaker'
    <2>1. ASSUME NEW g \in Logins, Exchange(x, g)
          PROVE  OneTaker'
      <3>1. /\ code[g] = "valid" /\ code' = [code EXCEPT ![g] = "taken"]
            /\ exch[x].st = "idle"
            /\ \E s \in {"session", "burn", "lost"} :
                  exch' = [exch EXCEPT ![x] = [st |-> s, took |-> g]]
        BY <2>1 DEF Exchange
      <3>2. \A y \in Exchanges : exch[y].took # g
        BY <3>1
      <3>3. QED
        BY <3>1, <3>2
    <2>2. ASSUME NEW s \in {"refused", "lost", "jwt", "served", "failed"},
                 ExchangeGoes(x, s), UNCHANGED code, exch[x].st \in {"idle"} \cup ExchangeSteps,
                 exch[x].st = "idle" => s = "refused"
          PROVE  OneTaker'
      BY <2>2
    <2>3. QED
      BY <1>3, <2>1, <2>2 DEF ExchangeNothing, ExchangeStep, Burn, GetSession, IssueJwt
  <1>4. ASSUME NEW p \in Callers, RequestStep(p) \/ \E u \in Users : RequestStart(p, u)
        PROVE  OneTaker'
    BY <1>4 DEF RequestStep, RequestStart, vars, googleVars
  <1>5. ASSUME NEW w \in Updates, EmployeeStep(w) \/ \E u \in Users,
     b \in BOOLEAN : UpdateEmployee(w, u, b)
        PROVE  OneTaker'
    BY <1>5 DEF EmployeeStep, InvalidateFlag, CloseSessions, UpdateEmployee, vars, googleVars
  <1>6. ASSUME NEW u \in Users, FlagExpires(u) \/ DeleteAccount(u)
        PROVE  OneTaker'
    BY <1>6 DEF FlagExpires, DeleteAccount, vars, googleVars
  <1>7. ASSUME Restart
        PROVE  OneTaker'
    BY <1>7 DEF Restart, vars, googleVars
  <1>8. CASE UNCHANGED allVars
    BY <1>8 DEF allVars, vars, googleVars
  <1>9. QED
    BY <1>1, <1>2, <1>3, <1>4, <1>5, <1>6, <1>7, <1>8 DEF GoogleNext

\* A session is held until it is revoked or abandoned.
LEMMA HeldStep ==
    ASSUME [GoogleNext]_allVars, GoogleTypeOK, ChecksBelong, OneTaker,
       SessionsAreHeldOrAbandoned
    PROVE  SessionsAreHeldOrAbandoned'
  <1> USE GoogleAssumption DEF GoogleTypeOK, Goes, ExchangeGoes, EndSessions,
     SessionsAreHeldOrAbandoned, Held, Abandoned, FinishSteps, ExchangeSteps
  <1>1. ASSUME NEW g \in Logins, FinishStep(g) \/ LapseCode(g) \/ SessionEnds(g)
        PROVE  SessionsAreHeldOrAbandoned'
    BY <1>1 DEF FinishStep, Finish, AskDeactivated, GetFlag, QueryFlag, QueryThrows, QueryFails,
        Throws, SetFlag,
        FlagAnswered, Refuse, Bind, PurgeCodes, InsertCode, FailAndRevoke, LapseCode,
           SessionEnds, ChecksBelong, Call, GetCached, QueryUserDeactivated, SetCached,
              Return, vars, googleVars
  <1>2. ASSUME NEW g \in Logins, NEW u \in Users, NEW s \in Systems \cup {NoSys}, Callback(g,
     u, s)
        PROVE  SessionsAreHeldOrAbandoned'
    BY <1>2 DEF Callback, vars, googleVars
  <1>3. ASSUME NEW x \in Exchanges, \/ ExchangeNothing(x) \/ ExchangeStep(x)
                               \/ \E g \in Logins : Exchange(x, g)
        PROVE  SessionsAreHeldOrAbandoned'
    <2>1. ASSUME NEW g \in Logins, Exchange(x, g)
          PROVE  SessionsAreHeldOrAbandoned'
      BY <2>1 DEF Exchange
    <2>2. CASE Burn(x)
      <3>1. exch[x].took \in Logins /\ UNCHANGED <<fin, code>>
        BY <2>2 DEF Burn, OneTaker
      <3>2. CASE EndSessions({exch[x].took}) /\ ExchangeGoes(x, "refused")
        BY <3>1, <3>2
      <3>3. CASE ExchangeGoes(x, "lost") /\ UNCHANGED live
        BY <3>1, <3>3
      <3>4. QED
        BY <2>2, <3>2, <3>3 DEF Burn
    <2>3. CASE ExchangeNothing(x)
      BY <2>3 DEF ExchangeNothing
    <2>4. CASE GetSession(x) \/ IssueJwt(x)
      <3>1. /\ exch[x].took \in Logins /\ UNCHANGED <<fin, live, code>>
            /\ \E s \in {"jwt", "served", "failed"} : ExchangeGoes(x, s)
        BY <2>4 DEF GetSession, IssueJwt, OneTaker
      <3>2. QED
        BY <3>1
    <2>5. QED
      BY <1>3, <2>1, <2>2, <2>3, <2>4 DEF ExchangeStep
  <1>4. ASSUME NEW p \in Callers, RequestStep(p) \/ \E u \in Users : RequestStart(p, u)
        PROVE  SessionsAreHeldOrAbandoned'
    BY <1>4 DEF RequestStep, RequestStart, vars, googleVars
  <1>5. ASSUME NEW w \in Updates, EmployeeStep(w) \/ \E u \in Users,
     b \in BOOLEAN : UpdateEmployee(w, u, b)
        PROVE  SessionsAreHeldOrAbandoned'
    BY <1>5 DEF EmployeeStep, InvalidateFlag, CloseSessions, UpdateEmployee, vars, googleVars
  <1>6. ASSUME NEW u \in Users, FlagExpires(u) \/ DeleteAccount(u)
        PROVE  SessionsAreHeldOrAbandoned'
    BY <1>6 DEF FlagExpires, DeleteAccount, vars, googleVars
  <1>7. ASSUME Restart
        PROVE  SessionsAreHeldOrAbandoned'
    BY <1>7 DEF Restart, vars, googleVars
  <1>8. CASE UNCHANGED allVars
    BY <1>8 DEF allVars, vars, googleVars
  <1>9. QED
    BY <1>1, <1>2, <1>3, <1>4, <1>5, <1>6, <1>7, <1>8 DEF GoogleNext

\* A login past the check is found by the deactivation that overtakes it.
LEMMA WatchStep ==
    ASSUME [GoogleNext]_allVars, GoogleTypeOK, ChecksBelong, PassedAreWatched
    PROVE  PassedAreWatched'
  <1> USE GoogleAssumption DEF GoogleTypeOK, Goes, ExchangeGoes, TypeOK, EndSessions,
     SessionsOf, ChecksBelong, PassedAreWatched, Passed, Deactivating, FinishSteps
  <1>1. ASSUME NEW g \in Logins, FinishStep(g) \/ LapseCode(g) \/ SessionEnds(g)
        PROVE  PassedAreWatched'
    <2>1. CASE GetFlag(g)
      BY <2>1 DEF GetFlag, GetCached
    <2>2. CASE QueryFlag(g)
      BY <2>2 DEF QueryFlag, QueryUserDeactivated, googleVars
    <2>3. CASE SetFlag(g)
      BY <2>3 DEF SetFlag, SetCached, googleVars
    <2>4. CASE FlagAnswered(g)
      <3>1. /\ chk[g].st = "answered" /\ g \in Callers
            /\ chk' = [chk EXCEPT ![g].st = "idle", ![g].res = FALSE]
            /\ UNCHANGED <<inactive, upd, live, misled>>
        BY <2>4 DEF FlagAnswered, Return
      <3>2. fin[g].st = "checking" /\ \A h \in Logins \ {g} : Passed(h)' => Passed(h)
        BY <2>4, <3>1 DEF FlagAnswered
      <3>3. Passed(g)' => Passed(g)
        BY <2>4, <3>1, <3>2 DEF FlagAnswered
      <3>4. \A h \in Logins : fin'[h].user = fin[h].user
        <4>1. PICK s : fin' = [fin EXCEPT ![g].st = s]
          BY <2>4 DEF FlagAnswered
        <4>2. QED
          BY <4>1
      <3>5. QED
        BY <3>1, <3>2, <3>3, <3>4
    <2>5. CASE Bind(g)
      <3>1. /\ fin[g].st = "bind" /\ live' \subseteq live
            /\ fin' = [fin EXCEPT ![g].st = "purge"] \/ fin' = [fin EXCEPT ![g].st = "revoke"]
            /\ UNCHANGED <<inactive, chk, upd, misled>>
        BY <2>5 DEF Bind, vars
      <3>2. QED
        BY <3>1
    <2>6. CASE QueryThrows(g)
      BY <2>6 DEF QueryThrows, QueryFails, Throws
    <2>7. CASE AskDeactivated(g)
      BY <2>7 DEF AskDeactivated, Call
    <2>8. CASE \/ Finish(g) \/ Refuse(g) \/ PurgeCodes(g) \/ InsertCode(g) \/ FailAndRevoke(g)
               \/ LapseCode(g) \/ SessionEnds(g)
      BY <2>8 DEF Finish, Refuse, PurgeCodes, InsertCode, FailAndRevoke, LapseCode,
         SessionEnds, vars
    <2>9. QED
      BY <1>1, <2>1, <2>2, <2>3, <2>4, <2>5, <2>6, <2>7, <2>8 DEF FinishStep
  <1>2. ASSUME NEW g \in Logins, NEW u \in Users, NEW s \in Systems \cup {NoSys}, Callback(g,
     u, s)
        PROVE  PassedAreWatched'
    BY <1>2 DEF Callback, vars, googleVars
  <1>3. ASSUME NEW x \in Exchanges, \/ ExchangeNothing(x) \/ ExchangeStep(x)
                               \/ \E g \in Logins : Exchange(x, g)
        PROVE  PassedAreWatched'
    BY <1>3 DEF ExchangeNothing, ExchangeStep, Exchange, Burn, GetSession, IssueJwt, vars,
       googleVars
  <1>4. ASSUME NEW p \in Callers, RequestStep(p) \/ \E u \in Users : RequestStart(p, u)
        PROVE  PassedAreWatched'
    <2>1. UNCHANGED <<googleVars, inactive, upd>> /\ p \notin Logins
      BY <1>4 DEF RequestStep, RequestStart, Step, Call, GetCached, QueryUserDeactivated,
         QueryFails, SetCached, Return
    <2>2. \A g \in Logins : chk'[g] = chk[g]
      BY <1>4, <2>1 DEF RequestStep, RequestStart, Step, Call, GetCached,
         QueryUserDeactivated, QueryFails, SetCached, Return
    <2>3. QED
      BY <2>1, <2>2 DEF googleVars
  <1>5. ASSUME NEW w \in Updates, EmployeeStep(w) \/ \E u \in Users,
     b \in BOOLEAN : UpdateEmployee(w, u, b)
        PROVE  PassedAreWatched'
    <2>1. CASE InvalidateFlag(w)
      BY <1>5, <2>1 DEF InvalidateFlag, InvalidateUserActiveCache, googleVars
    <2>2. CASE CloseSessions(w)
      <3>1. /\ UNCHANGED <<inactive, chk, fin, misled>> /\ live' \subseteq live
            /\ upd[w].st = "invalidated"
            /\ \A v \in Updates : upd'[v].user = upd[v].user /\ upd'[v].active = upd[v].active
            /\ \A v \in Updates \ {w} : upd'[v].st = upd[v].st
        BY <2>2 DEF CloseSessions, RevokeUserSessions
      <3>2. \/ \A g \in live' : fin[g].user # upd[w].user
            \/ upd'[w].st = "failed"
        BY <2>2 DEF CloseSessions
      <3>3. ASSUME NEW v \in Updates, Deactivating(v), v # w \/ upd'[w].st = "failed"
            PROVE  Deactivating(v)'
        BY <3>1, <3>3
      <3>4. QED
        BY <3>1, <3>2, <3>3
    <2>3. ASSUME NEW u \in Users, NEW b \in BOOLEAN, UpdateEmployee(w, u, b)
          PROVE  PassedAreWatched'
      BY <2>3 DEF UpdateEmployee, UpdateRow, googleVars
    <2>4. QED
      BY <1>5, <2>1, <2>2, <2>3 DEF EmployeeStep
  <1>6. ASSUME NEW u \in Users, FlagExpires(u) \/ DeleteAccount(u)
        PROVE  PassedAreWatched'
    BY <1>6 DEF FlagExpires, DeleteAccount, Expire, RemoveRow, vars, googleVars
  <1>7. ASSUME Restart
        PROVE  PassedAreWatched'
    <2>1. UNCHANGED <<live, misled, inactive>>
      BY <1>7 DEF Restart, Crash
    <2>2. ASSUME NEW g \in live, Passed(g)'
          PROVE  Passed(g)
      BY <1>7, <2>2, RestartEffect
    <2>3. ASSUME NEW w \in Updates, Deactivating(w)
          PROVE  Deactivating(w)'
      BY <1>7, <2>3, RestartEffect
    <2>4. QED
      BY <1>7, <2>1, <2>2, <2>3, RestartEffect
  <1>8. CASE UNCHANGED allVars
    BY <1>8 DEF allVars, vars, googleVars
  <1>9. QED
    BY <1>1, <1>2, <1>3, <1>4, <1>5, <1>6, <1>7, <1>8 DEF GoogleNext

-------------------------------------------------------------------------------
(* The code of a login is a one-time code. *)

\* The variables of OneTimeCode as functions of the state of GoogleLogin.
Phase(g) == CASE code[g] = "none" -> "unissued"
              [] code[g] = "valid" -> "issued"
              [] OTHER -> "spent"
Holders(g) == {x \in Exchanges : exch[x].took = g}
Given(g) == {x \in Exchanges : exch[x].took = g /\ exch[x].st = "served"}
codeView == <<[g \in Logins |-> Phase(g)], [g \in Logins |-> Holders(g)],
              [g \in Logins |-> Given(g)]>>

\* The three variables of OneTimeCode change only where these do.
LEMMA SameView ==
    ASSUME \A g \in Logins : Phase(g)' = Phase(g) /\ Holders(g)' = Holders(g) /\ Given(g)' = Given(g)
    PROVE  UNCHANGED OTC!vars
  <1>1. UNCHANGED codeView
    BY DEF codeView
  <1>2. QED
    BY <1>1, Zenon DEF OTC!vars, codeView, Phase, Holders, Given

\* Only a change of the codes or of what the exchanges hold can be seen.
LEMMA ViewStutters ==
    ASSUME UNCHANGED code,
           \A x \in Exchanges : /\ exch'[x].took = exch[x].took
                                /\ exch'[x].st = "served" <=> exch[x].st = "served"
    PROVE  UNCHANGED OTC!vars
  <1>1. \A g \in Logins : Phase(g)' = Phase(g) /\ Holders(g)' = Holders(g) /\ Given(g)' = Given(g)
    BY DEF Phase, Holders, Given
  <1>2. QED
    BY <1>1, SameView

\* One code changes, or what one exchange holds of it.
LEMMA CodeStep ==
    ASSUME GoogleTypeOK, NEW g \in Logins,
           \A h \in Logins \ {g} : Phase(h)' = Phase(h) /\ Holders(h)' = Holders(h)
                                   /\ Given(h)' = Given(h),
           \/ /\ Phase(g) = "unissued" /\ Phase(g)' = "issued"
              /\ Holders(g)' = Holders(g) /\ Given(g)' = Given(g)
           \/ /\ Phase(g) = "issued" /\ Phase(g)' = "spent"
              /\ Holders(g)' = Holders(g) /\ Given(g)' = Given(g)
           \/ /\ Phase(g) = "issued" /\ Phase(g)' = "spent"
              /\ \E x \in Exchanges : Holders(g)' = {x}
              /\ Given(g)' = Given(g)
           \/ \E x \in Exchanges :
                /\ Holders(g) = {x} /\ Given(g) = {} /\ Given(g)' = {x}
                /\ Phase(g)' = Phase(g) /\ Holders(g)' = Holders(g)
    PROVE  OTC!Next
  <1> DEFINE phase == [h \in Logins |-> Phase(h)]
             holders == [h \in Logins |-> Holders(h)]
             given == [h \in Logins |-> Given(h)]
  <1>1. /\ phase' = [phase EXCEPT ![g] = Phase(g)']
        /\ holders' = [holders EXCEPT ![g] = Holders(g)']
        /\ given' = [given EXCEPT ![g] = Given(g)']
    OBVIOUS
  <1>3. CASE /\ Phase(g) = "unissued" /\ Phase(g)' = "issued"
             /\ Holders(g)' = Holders(g) /\ Given(g)' = Given(g)
    <2>1. /\ phase[g] = "unissued" /\ phase' = [phase EXCEPT ![g] = "issued"]
          /\ UNCHANGED <<holders, given>>
      BY <1>1, <1>3
    <2>2. OTC!Issue(g)
      BY <2>1, Zenon DEF OTC!Issue, Phase, Holders, Given
    <2>3. QED
      BY <2>2 DEF OTC!Next
  <1>4. CASE /\ Phase(g) = "issued" /\ Phase(g)' = "spent"
             /\ Holders(g)' = Holders(g) /\ Given(g)' = Given(g)
    <2>1. /\ phase[g] = "issued" /\ phase' = [phase EXCEPT ![g] = "spent"]
          /\ UNCHANGED <<holders, given>>
      BY <1>1, <1>4
    <2>2. OTC!Lapse(g)
      BY <2>1, Zenon DEF OTC!Lapse, Phase, Holders, Given
    <2>3. QED
      BY <2>2 DEF OTC!Next
  <1>5. ASSUME NEW x \in Exchanges, Phase(g) = "issued", Phase(g)' = "spent",
               Holders(g)' = {x}, Given(g)' = Given(g)
        PROVE  OTC!Next
    <2>1. /\ phase[g] = "issued" /\ phase' = [phase EXCEPT ![g] = "spent"]
          /\ holders' = [holders EXCEPT ![g] = {x}] /\ UNCHANGED given
      BY <1>1, <1>5
    <2>2. OTC!Take(g, x)
      BY <2>1, Zenon DEF OTC!Take, Phase, Holders, Given
    <2>3. QED
      BY <2>2 DEF OTC!Next
  <1>6. ASSUME NEW x \in Exchanges, Holders(g) = {x}, Given(g) = {}, Given(g)' = {x},
               Phase(g)' = Phase(g), Holders(g)' = Holders(g)
        PROVE  OTC!Next
    <2>1. /\ holders[g] = {x} /\ given[g] = {} /\ given' = [given EXCEPT ![g] = {x}]
          /\ UNCHANGED <<phase, holders>>
      BY <1>1, <1>6
    <2>2. OTC!Give(g, x)
      BY <2>1, Zenon DEF OTC!Give, Phase, Holders, Given
    <2>3. QED
      BY <2>2 DEF OTC!Next
  <1>7. QED
    BY <1>3, <1>4, <1>5, <1>6

\* Every step of GoogleLogin is one of OneTimeCode or invisible to it.
LEMMA CodesRefine ==
    ASSUME [GoogleNext]_allVars, GoogleTypeOK, CodesComeLast, OneTaker
    PROVE  OTC!Next \/ UNCHANGED OTC!vars
  <1> USE GoogleAssumption DEF GoogleTypeOK
  <1>1. ASSUME NEW g \in Logins, FinishStep(g) \/ LapseCode(g) \/ SessionEnds(g)
        PROVE  OTC!Next \/ UNCHANGED OTC!vars
    <2>0. UNCHANGED exch
      BY <1>1 DEF FinishStep, Finish, AskDeactivated, GetFlag, QueryFlag, QueryThrows, QueryFails,
        Throws, SetFlag, FlagAnswered, Refuse, Bind, PurgeCodes, InsertCode, FailAndRevoke, LapseCode,
         SessionEnds, googleVars
    <2>1. CASE InsertCode(g) /\ code' = [code EXCEPT ![g] = "valid"]
      <3>1. code[g] = "none"
        BY <2>1 DEF InsertCode, CodesComeLast, FinishSteps
      <3>2. QED
        BY <2>0, <2>1, <3>1, CodeStep DEF Phase, Holders, Given
    <2>2. CASE LapseCode(g)
      BY <2>0, <2>2, CodeStep DEF LapseCode, Phase, Holders, Given
    <2>3. CASE PurgeCodes(g)
      BY <2>0, <2>3, SameView DEF PurgeCodes, Phase, Holders, Given
    <2>4. CASE UNCHANGED code
      BY <2>0, <2>4, ViewStutters
    <2>5. QED
      BY <1>1, <2>1, <2>2, <2>3, <2>4 DEF FinishStep, Finish, AskDeactivated, GetFlag,
         QueryFlag,
         QueryThrows, QueryFails, Throws, SetFlag, FlagAnswered, Refuse, Bind, InsertCode, FailAndRevoke,
         SessionEnds, googleVars
  <1>2. ASSUME NEW x \in Exchanges, NEW g \in Logins, Exchange(x, g)
        PROVE  OTC!Next
    <2>1. /\ exch[x].took = NoOne /\ exch[x].st = "idle" /\ code[g] = "valid"
          /\ code' = [code EXCEPT ![g] = "taken"]
          /\ \E s \in {"session", "burn", "lost"} :
                exch' = [exch EXCEPT ![x] = [st |-> s, took |-> g]]
      BY <1>2 DEF Exchange, OneTaker
    <2>2. \A y \in Exchanges : exch[y].took # g
      BY <2>1 DEF OneTaker
    <2>3. Phase(g) = "issued" /\ Phase(g)' = "spent" /\ \A h \in Logins \ {g} : Phase(h)' = Phase(h)
      BY <2>1 DEF Phase
    <2>4. Holders(g)' = {x} /\ \A h \in Logins \ {g} : Holders(h)' = Holders(h)
      BY <2>1, <2>2 DEF Holders
    <2>5. \A h \in Logins : Given(h)' = Given(h)
      BY <2>1 DEF Given
    <2>6. QED
      BY <2>3, <2>4, <2>5, CodeStep
  <1>3. ASSUME NEW x \in Exchanges, ExchangeNothing(x) \/ ExchangeStep(x)
        PROVE  OTC!Next \/ UNCHANGED OTC!vars
    <2>1. CASE IssueJwt(x) /\ ExchangeGoes(x, "served")
      <3>0. PICK g \in Logins : exch[x].took = g
        BY <2>1 DEF IssueJwt, OneTaker, ExchangeSteps
      <3>1. /\ exch[x].st = "jwt" /\ UNCHANGED code
            /\ exch' = [exch EXCEPT ![x].st = "served"]
            /\ \A y \in Exchanges : exch[y].took = g => y = x
        BY <2>1, <3>0 DEF IssueJwt, ExchangeGoes, OneTaker
      <3>2. \A h \in Logins : Phase(h)' = Phase(h) /\ Holders(h)' = Holders(h)
        BY <3>1 DEF Phase, Holders
      <3>3. Holders(g) = {x} /\ Given(g) = {} /\ Given(g)' = {x}
        BY <3>0, <3>1 DEF Holders, Given
      <3>4. \A h \in Logins \ {g} : Given(h)' = Given(h)
        BY <3>0, <3>1 DEF Given
      <3>5. QED
        BY <3>2, <3>3, <3>4, CodeStep
    <2>2. ASSUME NEW s \in {"refused", "lost", "jwt", "failed"}, ExchangeGoes(x, s),
                 exch[x].st # "served", UNCHANGED code
          PROVE  UNCHANGED OTC!vars
      BY <2>2, ViewStutters DEF ExchangeGoes
    <2>3. QED
      BY <1>3, <2>1, <2>2 DEF ExchangeNothing, ExchangeStep, Burn, GetSession, IssueJwt
  <1>4. ASSUME Restart
        PROVE  UNCHANGED OTC!vars
    <2>1. ASSUME NEW x \in Exchanges
          PROVE  exch'[x].took = exch[x].took /\ (exch'[x].st = "served" <=> exch[x].st = "served")
      BY <1>4 DEF Restart, ExchangeSteps
    <2>2. UNCHANGED code
      BY <1>4 DEF Restart
    <2>3. QED
      BY <2>1, <2>2, ViewStutters
  <1>5. CASE UNCHANGED <<code, exch>>
    BY <1>5, ViewStutters
  <1>6. QED
    BY <1>1, <1>2, <1>3, <1>4, <1>5 DEF GoogleNext, allVars, googleVars, Callback, RequestStart,
       RequestStep, EmployeeStep, InvalidateFlag, CloseSessions, UpdateEmployee, FlagExpires,
       DeleteAccount

-------------------------------------------------------------------------------
(* Theorems *)

\* The invariant holds at first.
LEMMA GoogleInitInv == GoogleInit => GoogleInv
  <1> SUFFICES ASSUME GoogleInit
               PROVE  GoogleInv
    OBVIOUS
  <1> USE DEF GoogleInit, Init
  <1>1. GoogleTypeOK
    BY GoogleAssumption DEF GoogleTypeOK, TypeOK, CheckStates, UpdateStates, FinishStates,
       ExchangeStates, CodeStates
  <1>2. ChecksBelong
    BY GoogleAssumption DEF ChecksBelong
  <1>3. CodesComeLast /\ OneTaker
    BY DEF CodesComeLast, OneTaker, ExchangeSteps
  <1>4. SessionsAreHeldOrAbandoned /\ PassedAreWatched
    BY DEF SessionsAreHeldOrAbandoned, PassedAreWatched
  <1>5. QED
    BY <1>1, <1>2, <1>3, <1>4 DEF GoogleInv

\* The inductive invariant: types, the bookkeeping of checks and codes, and the two
\* safety properties in the form that every step preserves.
THEOREM GoogleInvariant == GoogleSpec => []GoogleInv
  <1>1. GoogleInv /\ [GoogleNext]_allVars => GoogleInv'
    BY TypeStep, ChecksStep, CodesStep, TakersStep, HeldStep, WatchStep DEF GoogleInv
  <1>2. QED
    BY GoogleInitInv, <1>1, PTL DEF GoogleSpec

\* Every variable of GoogleLogin, those of UserActive included, keeps its type.
THEOREM GoogleTypes == GoogleSpec => []GoogleTypeOK
  <1>1. GoogleInv => GoogleTypeOK
    BY DEF GoogleInv
  <1>2. QED
    BY GoogleInvariant, <1>1, PTL

\* A failed finish leaves no session alive, nor does a wrong verifier, but for the
\* cases that Abandoned lists.
THEOREM SessionsHeld == GoogleSpec => []SessionsAreHeldOrAbandoned
  <1>1. GoogleInv => SessionsAreHeldOrAbandoned
    BY DEF GoogleInv
  <1>2. QED
    BY GoogleInvariant, <1>1, PTL

\* A finished deactivation ends the Google logins in flight that no stale flag let in.
THEOREM DeactivationReachesLogins == GoogleSpec => []DeactivationSparesOnlyMisledLogins
  <1>1. GoogleInv => DeactivationSparesOnlyMisledLogins
    BY DEF GoogleInv, GoogleTypeOK, PassedAreWatched, DeactivationSparesOnlyMisledLogins,
       Passed,
       Settled, Deactivating
  <1>2. QED
    BY GoogleInvariant, <1>1, PTL

\* finish, exchange and the sweep of lapsed codes implement OneTimeCode.
THEOREM CodesAreTakenOnce == GoogleSpec => ImplementsOneTimeCode
  <1>1. GoogleInit => OTC!Init
    <2> SUFFICES ASSUME GoogleInit
                 PROVE  OTC!Init
      OBVIOUS
    <2>1. GoogleTypeOK /\ \A x \in Exchanges : exch[x] = [st |-> "idle", took |-> NoOne]
      BY GoogleInitInv DEF GoogleInit, GoogleInv
    <2>2. /\ [g \in Logins |-> Phase(g)] = [g \in Logins |-> "unissued"]
          /\ [g \in Logins |-> Holders(g)] = [g \in Logins |-> {}]
          /\ [g \in Logins |-> Given(g)] = [g \in Logins |-> {}]
      BY <2>1, GoogleAssumption DEF GoogleInit, Phase, Holders, Given
    <2>3. QED
      BY <2>2, Zenon DEF OTC!Init, Phase, Holders, Given
  <1>2. GoogleInv /\ [GoogleNext]_allVars => [OTC!Next]_OTC!vars
    BY CodesRefine DEF GoogleInv
  <1>3. QED
    BY GoogleInvariant, <1>1, <1>2, PTL DEF GoogleSpec, ImplementsOneTimeCode, OTC!Spec

-------------------------------------------------------------------------------
(* Every handler ends *)

\* A login that waits for isUserDeactivated has a call of it in flight.
WaitsHaveChecks == \A g \in Logins : fin[g].st = "checking" => chk[g].st # "idle"

\* The guards of FinishStep, but for the session that comes back as "open".
AwaitReady(g) ==
    \/ fin[g].st \in FinishSteps \ {"access", "checking"}
    \/ fin[g].st = "access" /\ chk[g].st = "idle"
    \/ fin[g].st = "checking" /\ chk[g].st # "idle"

\* What the guards say of ENABLED, state by state.  Every branch of an await may fail,
\* so each of these is true of the actions alone, whatever the behaviour; tlapm has no
\* rule for ENABLED, and TLC evaluates them.
FinishCanRun(g) == GoogleTypeOK /\ AwaitReady(g) => ENABLED <<FinishRuns(g)>>_allVars
ExchangeCanRun(x) ==
    GoogleTypeOK /\ exch[x].st \in ExchangeSteps => ENABLED <<ExchangeStep(x)>>_allVars
FinishAlwaysCan(g) == []FinishCanRun(g)
ExchangeAlwaysCan(x) == []ExchangeCanRun(x)
GuardsEnable == /\ \A g \in Logins : FinishAlwaysCan(g)
                /\ \A x \in Exchanges : ExchangeAlwaysCan(x)

\* The most awaits that a login has left.
AwaitsLeft(g) ==
    CASE fin[g].st = "access" -> 9
      [] fin[g].st = "checking" /\ chk[g].st = "get" -> 8
      [] fin[g].st = "checking" /\ chk[g].st = "db" -> 7
      [] fin[g].st = "checking" /\ chk[g].st = "set" -> 6
      [] fin[g].st = "checking" /\ chk[g].st = "answered" -> 5
      [] fin[g].st = "bind" -> 4
      [] fin[g].st = "purge" -> 3
      [] fin[g].st \in {"insert", "refuse"} -> 2
      [] fin[g].st = "revoke" -> 1
      [] OTHER -> 0
At(g, n) == AwaitsLeft(g) = n
Below(g, n) == AwaitsLeft(g) < n
Drops(g, n) == At(g, n) ~> Below(g, n)

\* Only a login's own handler, the callback before it and a stop of the server move it.
LEMMA OwnSteps ==
    ASSUME [GoogleNext]_allVars, GoogleTypeOK, NEW g \in Logins
    PROVE  \/ FinishStep(g)
           \/ \E u \in Users, s \in Systems \cup {NoSys} : Callback(g, u, s)
           \/ Restart
           \/ fin'[g].st = fin[g].st /\ chk'[g].st = chk[g].st
  <1> DEFINE Own == \/ FinishStep(g)
                    \/ \E u \in Users, s \in Systems \cup {NoSys} : Callback(g, u, s)
                    \/ Restart
             Same == fin'[g].st = fin[g].st /\ chk'[g].st = chk[g].st
  <1> USE GoogleAssumption DEF GoogleTypeOK, TypeOK
  <1>1. ASSUME NEW h \in Logins, FinishStep(h), h # g
        PROVE  Same
    BY <1>1 DEF FinishStep, Goes, Finish, AskDeactivated, GetFlag, QueryFlag, QueryThrows, QueryFails,
       Throws, SetFlag, FlagAnswered, Refuse, Bind, PurgeCodes, InsertCode, FailAndRevoke,
       Call, GetCached, QueryUserDeactivated, SetCached, Return, vars, googleVars
  <1>2. ASSUME NEW h \in Logins, LapseCode(h) \/ SessionEnds(h)
        PROVE  Same
    BY <1>2 DEF LapseCode, SessionEnds, vars
  <1>3. ASSUME NEW h \in Logins, NEW u \in Users, NEW s \in Systems \cup {NoSys},
               Callback(h, u, s), h # g
        PROVE  Same
    BY <1>3 DEF Callback, vars
  <1>4. ASSUME NEW x \in Exchanges, \/ ExchangeNothing(x) \/ ExchangeStep(x)
                                    \/ \E h \in Logins : Exchange(x, h)
        PROVE  Same
    BY <1>4 DEF ExchangeNothing, ExchangeStep, Exchange, Burn, GetSession, IssueJwt, vars
  <1>5. ASSUME NEW p \in Callers, RequestStep(p) \/ \E u \in Users : RequestStart(p, u)
        PROVE  Same
    <2>1. p # g /\ fin' = fin
      BY <1>5 DEF RequestStep, RequestStart, googleVars
    <2>2. QED
      BY <1>5, <2>1 DEF RequestStep, RequestStart, Step, Call, GetCached,
       QueryUserDeactivated, QueryFails, SetCached, Return
  <1>6. ASSUME NEW w \in Updates, \/ EmployeeStep(w)
                                  \/ \E u \in Users, b \in BOOLEAN : UpdateEmployee(w, u, b)
        PROVE  Same
    BY <1>6 DEF EmployeeStep, InvalidateFlag, CloseSessions, UpdateEmployee,
       InvalidateUserActiveCache, RevokeUserSessions, UpdateRow, googleVars
  <1>7. ASSUME NEW u \in Users, FlagExpires(u) \/ DeleteAccount(u)
        PROVE  Same
    BY <1>7 DEF FlagExpires, DeleteAccount, Expire, RemoveRow, googleVars
  <1>8. ASSUME UNCHANGED allVars
        PROVE  Same
    BY <1>8 DEF allVars, vars, googleVars
  <1>9. ASSUME NEW h \in Logins,
               \/ FinishStep(h)
               \/ \E u \in Users, s \in Systems \cup {NoSys} : Callback(h, u, s)
        PROVE  Own \/ Same
    <2>1. CASE h = g
      BY <1>9, <2>1
    <2>2. CASE h # g
      BY <1>1, <1>3, <1>9, <2>2
    <2>3. QED
      BY <2>1, <2>2
  <1>10. ASSUME Restart
         PROVE  Own
    BY <1>10
  <1>11. Own \/ Same
    <2> HIDE DEF Own, Same
    <2>1. QED
      BY <1>2, <1>4, <1>5, <1>6, <1>7, <1>8, <1>9, <1>10 DEF GoogleNext
  <1>12. QED
    BY <1>11

\* Every step of a handler leaves it fewer awaits, and keeps its check in flight.
LEMMA FinishLowers ==
    ASSUME GoogleTypeOK, ChecksBelong, NEW g \in Logins, FinishRuns(g)
    PROVE  /\ AwaitsLeft(g)' < AwaitsLeft(g)
           /\ fin'[g].st = "checking" => chk'[g].st # "idle"
  <1> USE GoogleAssumption DEF GoogleTypeOK, TypeOK, ChecksBelong, AwaitsLeft, Goes, CheckStates
  <1>1. CASE AskDeactivated(g)
    BY <1>1 DEF AskDeactivated, Call
  <1>2. CASE GetFlag(g)
    BY <1>2 DEF GetFlag, GetCached
  <1>3. CASE QueryFlag(g)
    BY <1>3 DEF QueryFlag, QueryUserDeactivated, googleVars
  <1>4. CASE QueryThrows(g)
    BY <1>4 DEF QueryThrows, QueryFails, Throws
  <1>5. CASE SetFlag(g)
    BY <1>5 DEF SetFlag, SetCached, googleVars
  <1>6. CASE FlagAnswered(g)
    BY <1>6 DEF FlagAnswered, Return
  <1>7. CASE Refuse(g) \/ PurgeCodes(g) \/ InsertCode(g) \/ FailAndRevoke(g)
    BY <1>7 DEF Refuse, PurgeCodes, InsertCode, FailAndRevoke, vars
  <1>8. CASE Bind(g)
    BY <1>8 DEF Bind, vars
  <1>9. ~Finish(g)
    BY DEF FinishRuns, Finish
  <1>10. QED
    BY <1>1, <1>2, <1>3, <1>4, <1>5, <1>6, <1>7, <1>8, <1>9 DEF FinishRuns, FinishStep

\* A check stays in flight as long as its login waits for it.
LEMMA WaitsStep ==
    ASSUME [GoogleNext]_allVars, GoogleTypeOK, ChecksBelong, WaitsHaveChecks
    PROVE  WaitsHaveChecks'
  <1> SUFFICES ASSUME NEW g \in Logins, fin'[g].st = "checking"
               PROVE  chk'[g].st # "idle"
    BY DEF WaitsHaveChecks
  <1>1. CASE FinishStep(g)
    <2>1. CASE Finish(g)
      BY <2>1 DEF Finish, Goes, GoogleTypeOK
    <2>2. CASE ~Finish(g)
      <3>1. FinishRuns(g)
        BY <1>1, <2>2 DEF FinishRuns, FinishStep, AskDeactivated, GetFlag, GetCached,
           QueryFlag, QueryUserDeactivated, QueryThrows, QueryFails, SetFlag, SetCached, FlagAnswered,
           Return, Refuse, Bind, PurgeCodes, InsertCode, FailAndRevoke, ChecksBelong
      <3>2. QED
        BY <3>1, FinishLowers
    <2>3. QED
      BY <2>1, <2>2
  <1>2. CASE \E u \in Users, s \in Systems \cup {NoSys} : Callback(g, u, s)
    BY <1>2 DEF Callback, GoogleTypeOK
  <1>3. CASE Restart
    BY <1>3, RestartEffect DEF FinishSteps
  <1>4. CASE fin'[g].st = fin[g].st /\ chk'[g].st = chk[g].st
    BY <1>4 DEF WaitsHaveChecks
  <1>5. QED
    BY <1>1, <1>2, <1>3, <1>4, OwnSteps

\* Nothing but its own handler changes what a login has left, or the server stops.
LEMMA LevelsOnlyFall ==
    ASSUME [GoogleNext]_allVars, GoogleTypeOK, ChecksBelong, NEW g \in Logins,
           AwaitsLeft(g) # 0
    PROVE  AwaitsLeft(g)' = AwaitsLeft(g) \/ AwaitsLeft(g)' < AwaitsLeft(g)
  <1>1. fin[g].st \in FinishSteps
    BY DEF AwaitsLeft, FinishSteps
  <1>2. CASE FinishStep(g)
    BY <1>1, <1>2, FinishLowers DEF FinishRuns, FinishSteps
  <1>3. CASE \E u \in Users, s \in Systems \cup {NoSys} : Callback(g, u, s)
    BY <1>1, <1>3 DEF Callback, FinishSteps
  <1>4. CASE Restart
    <2>1. fin'[g].st = "dead"
      BY <1>1, <1>4, RestartEffect
    <2>2. AwaitsLeft(g)' = 0
      BY <2>1 DEF AwaitsLeft
    <2>3. AwaitsLeft(g) \in 1 .. 9
      BY DEF AwaitsLeft
    <2>4. QED
      BY <2>2, <2>3
  <1>5. CASE fin'[g].st = fin[g].st /\ chk'[g].st = chk[g].st
    BY <1>5 DEF AwaitsLeft
  <1>6. QED
    BY <1>2, <1>3, <1>4, <1>5, OwnSteps

\* A login that waits for an await finds it ready, and so one of its steps can happen.
LEMMA WaitersAreReady ==
    ASSUME GoogleInv, WaitsHaveChecks, NEW g \in Logins, fin[g].st \in FinishSteps
    PROVE  AwaitReady(g)
  BY DEF GoogleInv, ChecksBelong, WaitsHaveChecks, AwaitReady, FinishSteps

\* From n awaits left, a fair handler comes to fewer.
LEMMA LevelDrops ==
    ASSUME NEW g \in Logins, NEW n \in 1 .. 9
    PROVE  /\ []GoogleInv /\ []WaitsHaveChecks /\ [][GoogleNext]_allVars
           /\ FinishAlwaysCan(g) /\ FinishSettles(g)
           => Drops(g, n)
  <1>1. GoogleInv /\ WaitsHaveChecks /\ FinishCanRun(g) /\ At(g, n)
        => ENABLED <<FinishRuns(g)>>_allVars
    <2> SUFFICES ASSUME GoogleInv, WaitsHaveChecks, FinishCanRun(g), At(g, n)
                 PROVE  ENABLED <<FinishRuns(g)>>_allVars
      OBVIOUS
    <2>1. fin[g].st \in FinishSteps
      BY DEF At, AwaitsLeft, FinishSteps
    <2>2. GoogleTypeOK /\ AwaitReady(g)
      BY <2>1, WaitersAreReady DEF GoogleInv
    <2>3. QED
      BY <2>2 DEF FinishCanRun
  <1>2. GoogleInv /\ At(g, n) /\ [GoogleNext]_allVars => At(g, n)' \/ Below(g, n)'
    BY LevelsOnlyFall DEF GoogleInv, At, Below
  <1>3. GoogleInv /\ At(g, n) /\ <<FinishRuns(g)>>_allVars => Below(g, n)'
    BY FinishLowers DEF GoogleInv, At, Below
  <1>4. QED
    BY <1>1, <1>2, <1>3, PTL DEF FinishAlwaysCan, FinishSettles, Drops

\* Level by level, it comes to none.
LEMMA FinishComesToEnd ==
    ASSUME NEW g \in Logins
    PROVE  /\ []GoogleInv /\ []WaitsHaveChecks /\ [][GoogleNext]_allVars
           /\ FinishAlwaysCan(g) /\ FinishSettles(g)
           => FinishEnds(g)
  <1> DEFINE Hyp == /\ []GoogleInv /\ []WaitsHaveChecks /\ [][GoogleNext]_allVars
                    /\ FinishAlwaysCan(g) /\ FinishSettles(g)
  <1>1. /\ Hyp => Drops(g, 1)
        /\ Hyp => Drops(g, 2)
        /\ Hyp => Drops(g, 3)
        /\ Hyp => Drops(g, 4)
        /\ Hyp => Drops(g, 5)
        /\ Hyp => Drops(g, 6)
        /\ Hyp => Drops(g, 7)
        /\ Hyp => Drops(g, 8)
        /\ Hyp => Drops(g, 9)
    BY LevelDrops
  <1>2. GoogleInv /\ WaitsHaveChecks /\ fin[g].st \in FinishSteps
        => \/ At(g, 1) \/ At(g, 2) \/ At(g, 3) \/ At(g, 4) \/ At(g, 5)
           \/ At(g, 6) \/ At(g, 7) \/ At(g, 8) \/ At(g, 9)
    BY GoogleAssumption DEF GoogleInv, GoogleTypeOK, TypeOK, CheckStates, WaitsHaveChecks,
       FinishSteps, At, AwaitsLeft
  <1>3. AwaitsLeft(g) \in 0 .. 9
    BY DEF AwaitsLeft
  <1>4. /\ Below(g, 9) => At(g, 8) \/ Below(g, 8)
        /\ Below(g, 8) => At(g, 7) \/ Below(g, 7)
        /\ Below(g, 7) => At(g, 6) \/ Below(g, 6)
        /\ Below(g, 6) => At(g, 5) \/ Below(g, 5)
        /\ Below(g, 5) => At(g, 4) \/ Below(g, 4)
        /\ Below(g, 4) => At(g, 3) \/ Below(g, 3)
        /\ Below(g, 3) => At(g, 2) \/ Below(g, 2)
        /\ Below(g, 2) => At(g, 1) \/ Below(g, 1)
    <2> HIDE DEF AwaitsLeft
    <2>1. QED
      BY <1>3 DEF At, Below
  <1>5. GoogleInv /\ WaitsHaveChecks /\ Below(g, 1) => fin[g].st \notin FinishSteps
    <2>1. Below(g, 1) => \A n \in 1 .. 9 : ~At(g, n)
      BY <1>3 DEF Below, At
    <2>2. QED
      BY <1>2, <2>1
  <1>6. QED
    BY <1>1, <1>2, <1>4, <1>5, PTL DEF Drops, FinishEnds

\* An exchange under way is moved by its own steps and by a stop of the server.
LEMMA ExchangeOwnSteps ==
    ASSUME [GoogleNext]_allVars, GoogleTypeOK, NEW x \in Exchanges,
           exch[x].st \in ExchangeSteps
    PROVE  ExchangeStep(x) \/ Restart \/ exch'[x].st = exch[x].st
  <1> USE DEF GoogleTypeOK, ExchangeSteps
  <1>1. ASSUME NEW g \in Logins, FinishStep(g) \/ LapseCode(g) \/ SessionEnds(g)
        PROVE  exch' = exch
    BY <1>1 DEF FinishStep, Finish, AskDeactivated, GetFlag, QueryFlag, QueryThrows, QueryFails, SetFlag,
       FlagAnswered, Refuse, Bind, PurgeCodes, InsertCode, FailAndRevoke, LapseCode,
       SessionEnds, googleVars
  <1>2. ASSUME NEW g \in Logins, NEW u \in Users, NEW s \in Systems \cup {NoSys},
               Callback(g, u, s)
        PROVE  exch' = exch
    BY <1>2 DEF Callback
  <1>3. ASSUME NEW y \in Exchanges, \/ ExchangeNothing(y) \/ ExchangeStep(y)
                                    \/ \E g \in Logins : Exchange(y, g)
        PROVE  (y = x /\ ExchangeStep(x)) \/ exch'[x] = exch[x]
    <2>1. CASE y = x
      BY <1>3, <2>1 DEF ExchangeNothing, Exchange
    <2>2. CASE y # x
      BY <1>3, <2>2 DEF ExchangeNothing, ExchangeStep, Exchange, Burn, GetSession, IssueJwt,
         ExchangeGoes
    <2>3. QED
      BY <2>1, <2>2
  <1>4. ASSUME NEW p \in Callers, RequestStep(p) \/ \E u \in Users : RequestStart(p, u)
        PROVE  exch' = exch
    BY <1>4 DEF RequestStep, RequestStart, googleVars
  <1>5. ASSUME NEW w \in Updates, \/ EmployeeStep(w)
                                  \/ \E u \in Users, b \in BOOLEAN : UpdateEmployee(w, u, b)
        PROVE  exch' = exch
    BY <1>5 DEF EmployeeStep, InvalidateFlag, CloseSessions, UpdateEmployee, googleVars
  <1>6. ASSUME NEW u \in Users, FlagExpires(u) \/ DeleteAccount(u)
        PROVE  exch' = exch
    BY <1>6 DEF FlagExpires, DeleteAccount, googleVars
  <1>7. ASSUME UNCHANGED allVars
        PROVE  exch' = exch
    BY <1>7 DEF allVars, googleVars
  <1>8. QED
    BY <1>1, <1>2, <1>3, <1>4, <1>5, <1>6, <1>7 DEF GoogleNext

\* The same for an exchange, which has at most the session and the token to get.
LEMMA ExchangeComesToEnd ==
    ASSUME NEW x \in Exchanges
    PROVE  /\ []GoogleInv /\ [][GoogleNext]_allVars
           /\ ExchangeAlwaysCan(x) /\ ExchangeSettles(x)
           => ExchangeEnds(x)
  <1> DEFINE Two == exch[x].st = "session"
             One == exch[x].st \in {"burn", "jwt"}
             Done == exch[x].st \notin ExchangeSteps
  <1>1. GoogleInv /\ ExchangeCanRun(x) /\ ~Done => ENABLED <<ExchangeStep(x)>>_allVars
    BY DEF ExchangeCanRun, GoogleInv
  <1>2. Done \/ One \/ Two
    BY DEF ExchangeSteps
  <1>3. ASSUME GoogleInv, ExchangeStep(x)
        PROVE  (One => Done') /\ (Two => One' \/ Done')
    BY <1>3 DEF ExchangeStep, ExchangeGoes, Burn, GetSession, IssueJwt, GoogleInv,
       GoogleTypeOK, ExchangeSteps
  <1>4. ASSUME GoogleInv, [GoogleNext]_allVars, ~Done
        PROVE  ExchangeStep(x) \/ Done' \/ ((One => One') /\ (Two => Two'))
    <2>1. CASE Restart
      BY <1>4, <2>1 DEF Restart, GoogleInv, GoogleTypeOK, ExchangeSteps
    <2>2. QED
      BY <1>4, <2>1, ExchangeOwnSteps DEF GoogleInv
  <1>5. GoogleInv /\ One /\ [GoogleNext]_allVars => One' \/ Done'
    BY <1>3, <1>4 DEF ExchangeSteps
  <1>6. GoogleInv /\ Two /\ [GoogleNext]_allVars => Two' \/ One' \/ Done'
    BY <1>3, <1>4 DEF ExchangeSteps
  <1>7. GoogleInv /\ One /\ <<ExchangeStep(x)>>_allVars => Done'
    BY <1>3
  <1>8. GoogleInv /\ Two /\ <<ExchangeStep(x)>>_allVars => One' \/ Done'
    BY <1>3
  <1> HIDE DEF One, Two, Done
  <1>9. /\ exch[x].st \in ExchangeSteps <=> ~Done
        /\ exch[x].st \notin ExchangeSteps <=> Done
        /\ (One => ~Done) /\ (Two => ~Done)
    BY DEF One, Two, Done, ExchangeSteps
  <1>10. QED
    BY <1>1, <1>2, <1>5, <1>6, <1>7, <1>8, <1>9, PTL
       DEF ExchangeAlwaysCan, ExchangeSettles, ExchangeEnds

\* A login that waits for isUserDeactivated has a call of it in flight, with or without
\* Redis and through every stop of the server: no handler waits for an answer that
\* nobody is working on.
THEOREM WaitsAreServed == GoogleSpec => []WaitsHaveChecks
  <1>1. GoogleInit => WaitsHaveChecks
    BY DEF GoogleInit, WaitsHaveChecks
  <1>2. GoogleInv /\ WaitsHaveChecks /\ [GoogleNext]_allVars => WaitsHaveChecks'
    BY WaitsStep DEF GoogleInv
  <1>3. QED
    BY GoogleInvariant, <1>1, <1>2, PTL DEF GoogleSpec

\* finish and exchange end, whatever throws, whoever else runs and however many there
\* are: given what the guards say of ENABLED, no handler waits for another and every
\* await leaves it fewer.
THEOREM LoginsFinish == GoogleFairSpec /\ GuardsEnable => LoginsEnd
  <1>1. GoogleFairSpec => []GoogleInv /\ []WaitsHaveChecks /\ [][GoogleNext]_allVars
    BY GoogleInvariant, WaitsAreServed, PTL DEF GoogleFairSpec, GoogleSpec
  <1>2. ASSUME NEW g \in Logins
        PROVE  GoogleFairSpec /\ GuardsEnable => FinishEnds(g)
    <2>1. GoogleFairSpec /\ GuardsEnable => FinishSettles(g) /\ FinishAlwaysCan(g)
      BY DEF GoogleFairSpec, GoogleFairness, HandlersSettle, GuardsEnable
    <2>2. QED
      BY <1>1, <2>1, FinishComesToEnd, PTL
  <1>3. ASSUME NEW x \in Exchanges
        PROVE  GoogleFairSpec /\ GuardsEnable => ExchangeEnds(x)
    <2>1. GoogleFairSpec /\ GuardsEnable => ExchangeSettles(x) /\ ExchangeAlwaysCan(x)
      BY DEF GoogleFairSpec, GoogleFairness, HandlersSettle, GuardsEnable
    <2>2. QED
      BY <1>1, <2>1, ExchangeComesToEnd, PTL
  <1>4. QED
    BY <1>2, <1>3 DEF LoginsEnd
================================================================================
