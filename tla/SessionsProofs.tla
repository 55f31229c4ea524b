---------------------------- MODULE SessionsProofs ----------------------------
(***************************************************************************)
(* Proofs about module Sessions, for every set of users, systems, logins,  *)
(* requests and updates.                                                   *)
(***************************************************************************)
EXTENDS Sessions, TLAPS

(* Every session has a login past signInEmail and a user; a login that binds
   has a system. *)
Lifecycle ==
    \A l \in Logins :
        /\ l \in live => login[l].st \notin {"idle", "verify"} /\ login[l].user \in users
        /\ login[l].st \in {"delegate", "bind", "previous", "replace", "upsert"}
             => login[l].sys \in Systems

BaseInv == TypeOK /\ Lifecycle

-------------------------------------------------------------------------------
(* Revocations, from wherever they come, delete the rows of some set of
   sessions and touch nothing else. *)

\* Every revocation of SelfService and Administration is a Revoke.
LEMMA RevocationsRevoke ==
    ASSUME NEW s \in Logins, NEW t \in Logins, NEW u \in Users,
           \/ SignOut(s) \/ RevokeOthers(s) \/ RevokeAll(s) \/ RevokeOne(s, t)
           \/ AdminRevokeSession(s) \/ AdminChangeUserPassword(u)
    PROVE  \E S : Revoke(S)
  BY DEF SignOut, RevokeOthers, RevokeAll, RevokeOne, AdminRevokeSession,
         AdminChangeUserPassword

\* The cases of Next, with the revocations as one.
LEMMA NextCases ==
    ASSUME Next
    PROVE  \/ \E l \in Logins : LoginStep(l)
           \/ \E l \in Logins, u \in Users, y \in Systems \cup {NoSys} :
                  ResolveActiveSystem(l, u, y)
           \/ \E p \in Callers : CheckStep(p)
           \/ \E r \in Requests : RequestEnd(r)
           \/ \E r \in Requests, s \in Logins : RequestStart(r, s)
           \/ \E u \in Users : CacheExpire(u) \/ DeleteUser(u)
           \/ \E w \in Updates, u \in Users, b \in BOOLEAN : UpdateEmployee(w, u, b)
           \/ \E w \in Updates : InvalidateFlag(w) \/ RevokeAllUserSessions(w)
           \/ \E y \in Systems : UpdateSystem(y) \/ DeleteSystem(y)
           \/ \E a \in Assignable : CreateUserRole(a) \/ DeleteUserRole(a)
           \/ \E S : Revoke(S)
           \/ Crash
  <1>1. CASE SelfService
    BY <1>1, RevocationsRevoke DEF SelfService, SignOut, RevokeOthers, RevokeAll, RevokeOne
  <1>2. CASE Administration
    BY <1>2, RevocationsRevoke DEF Administration, AdminRevokeSession, AdminChangeUserPassword
  <1>3. QED
    BY <1>1, <1>2 DEF Next

-------------------------------------------------------------------------------
(* Type correctness *)

LEMMA DeleteSessionsType ==
    ASSUME TypeOK, NEW S, DeleteSessions(S)
    PROVE  /\ live' \subseteq live
           /\ link' \in [Pairs -> Logins \cup {None}]
  BY DEF TypeOK, DeleteSessions

\* The steps of UserActive keep its own type invariant.
LEMMA UserActiveType ==
    ASSUME UA!TypeOK,
           \/ \E p \in Callers : \/ UA!GetCached(p) \/ UA!QueryUserDeactivated(p)
                                 \/ UA!QueryFails(p) \/ UA!SetCached(p) \/ UA!Return(p)
                                 \/ \E u \in Users : UA!Call(p, u)
           \/ \E w \in Updates : \/ UA!InvalidateUserActiveCache(w)
                                 \/ UA!RevokeUserSessions(w)
                                 \/ \E u \in Users, b \in BOOLEAN : UA!UpdateRow(w, u, b)
           \/ \E u \in Users : UA!Expire(u) \/ UA!RemoveRow(u)
           \/ UA!Crash
           \/ UNCHANGED uaVars
    PROVE  UA!TypeOK'
  <1> USE DEF UA!TypeOK, UA!CheckStates, UA!UpdateStates
  <1>1. ASSUME NEW p \in Callers, UA!GetCached(p) PROVE UA!TypeOK'
    BY <1>1 DEF UA!GetCached
  <1>2. ASSUME NEW p \in Callers, UA!QueryUserDeactivated(p) PROVE UA!TypeOK'
    BY <1>2 DEF UA!QueryUserDeactivated
  <1>3. ASSUME NEW p \in Callers, UA!SetCached(p) PROVE UA!TypeOK'
    BY <1>3 DEF UA!SetCached
  <1>4. ASSUME NEW p \in Callers, UA!Return(p) PROVE UA!TypeOK'
    BY <1>4 DEF UA!Return
  <1>5. ASSUME NEW p \in Callers, NEW u \in Users, UA!Call(p, u) PROVE UA!TypeOK'
    BY <1>5 DEF UA!Call
  <1>6. ASSUME NEW w \in Updates, UA!InvalidateUserActiveCache(w) PROVE UA!TypeOK'
    BY <1>6 DEF UA!InvalidateUserActiveCache
  <1>7. ASSUME NEW w \in Updates, UA!RevokeUserSessions(w) PROVE UA!TypeOK'
    BY <1>7 DEF UA!RevokeUserSessions
  <1>8. ASSUME NEW w \in Updates, NEW u \in Users, NEW b \in BOOLEAN, UA!UpdateRow(w, u, b)
        PROVE  UA!TypeOK'
    BY <1>8 DEF UA!UpdateRow
  <1>9. ASSUME NEW u \in Users, UA!Expire(u) \/ UA!RemoveRow(u) PROVE UA!TypeOK'
    BY <1>9 DEF UA!Expire, UA!RemoveRow
  <1>10. ASSUME UA!Crash PROVE UA!TypeOK'
    BY <1>10 DEF UA!Crash
  <1>11. CASE UNCHANGED uaVars
    BY <1>11 DEF uaVars
  <1>12. ASSUME NEW p \in Callers, UA!QueryFails(p) PROVE UA!TypeOK'
    BY <1>12 DEF UA!QueryFails
  <1>13. QED
    BY <1>1, <1>2, <1>3, <1>4, <1>5, <1>6, <1>7, <1>8, <1>9, <1>10, <1>11, <1>12

LEMMA InitBase == Init => BaseInv
  BY SessionsAssumption
  DEF Init, BaseInv, TypeOK, Lifecycle, Pairs, LoginStates, BindStates, Ended,
      UA!Init, UA!TypeOK, UA!CheckStates, UA!UpdateStates

\* A step that leaves the tables, the logins and the history alone keeps BaseInv.
LEMMA StutterBase ==
    ASSUME BaseInv, UA!TypeOK', misled' \subseteq Logins,
           UNCHANGED <<catalog, live, link, login, contended, crashes>>
    PROVE  BaseInv'
  BY DEF BaseInv, TypeOK, Lifecycle, catalog

LEMMA LoginStepBase ==
    ASSUME BaseInv, NEW l \in Logins, LoginStep(l)
    PROVE  BaseInv'
  <1> USE SessionsAssumption
      DEF BaseInv, TypeOK, Lifecycle, LoginStates, BindStates, Ended, Pairs, Pair, Goto,
          catalog, history, Callers
  <1>1. CASE SignInEmail(l)
    <2>1. UA!TypeOK'
      BY <1>1, UserActiveType DEF SignInEmail
    <2>2. QED
      BY <1>1, <2>1 DEF SignInEmail
  <1>2. CASE AssertActive(l)
    <2>1. UA!TypeOK'
      BY <1>2, UserActiveType DEF AssertActive
    <2>2. QED
      BY <1>2, <2>1 DEF AssertActive
  <1>3. CASE RevokeOwn(l)
    <2>1. UA!TypeOK'
      BY <1>3, UserActiveType DEF RevokeOwn
    <2>2. QED
      BY <1>3, <2>1, DeleteSessionsType DEF RevokeOwn
  <1>4. CASE RevokePrevious(l)
    <2>1. UA!TypeOK'
      BY <1>4, UserActiveType DEF RevokePrevious
    <2>2. QED
      BY <1>4, <2>1, DeleteSessionsType DEF RevokePrevious
  <1>5. CASE AssertRole(l) \/ IsDelegatedAdminOfPanel(l) \/ SelectCurrent(l) \/ IssueJwt(l)
    <2>1. UA!TypeOK'
      BY <1>5, UserActiveType
      DEF AssertRole, IsDelegatedAdminOfPanel, SelectCurrent, IssueJwt
    <2>2. QED
      BY <1>5, <2>1 DEF AssertRole, IsDelegatedAdminOfPanel, SelectCurrent, IssueJwt
  <1>6. CASE SelectPrevious(l)
    <2>1. UA!TypeOK'
      BY <1>6, UserActiveType DEF SelectPrevious
    <2>2. Pair(l) \in Pairs /\ link[Pair(l)] \in Logins \cup {None}
      BY <1>6 DEF SelectPrevious
    <2>3. contended' \subseteq Pairs
      <3> HIDE DEF Pairs, Pair
      <3> QED
        BY <1>6, <2>2 DEF SelectPrevious
    <2>4. PICK st \in BindStates \cup {"failed"}, p \in Logins \cup {None} :
            login' = [login EXCEPT ![l].st = st, ![l].prev = p]
      <3> HIDE DEF Pairs, Pair
      <3>1. CASE Goto(l, "failed")
        <4>1. login' = [login EXCEPT ![l].st = "failed", ![l].prev = login[l].prev]
          BY <3>1
        <4>2. QED
          BY <4>1
      <3>2. QED
        BY <1>6, <2>2, <3>1 DEF SelectPrevious
    <2>5. login[l].st = "previous" /\ UNCHANGED <<catalog, live, link, misled, crashes>>
      BY <1>6 DEF SelectPrevious
    <2>6. login' \in [Logins -> [st : LoginStates, user : Users,
                                 sys : Systems \cup {NoSys}, prev : Logins \cup {None}]]
      <3>1. [login[l] EXCEPT !.st = st, !.prev = p] \in
              [st : LoginStates, user : Users, sys : Systems \cup {NoSys},
               prev : Logins \cup {None}]
        OBVIOUS
      <3>2. login' = [login EXCEPT ![l] = [login[l] EXCEPT !.st = st, !.prev = p]]
        BY <2>4
      <3>3. QED
        BY <3>1, <3>2
    <2>7. TypeOK'
      BY <2>1, <2>3, <2>5, <2>6
    <2>8. Lifecycle'
      BY <2>4, <2>5
    <2>9. QED
      BY <2>7, <2>8
  <1>7. CASE UpsertLink(l)
    <2>1. UA!TypeOK'
      BY <1>7, UserActiveType DEF UpsertLink
    <2>2. QED
      BY <1>7, <2>1 DEF UpsertLink
  <1>8. QED
    BY <1>1, <1>2, <1>3, <1>4, <1>5, <1>6, <1>7 DEF LoginStep

LEMMA NextBase ==
    ASSUME BaseInv, [Next]_vars
    PROVE  BaseInv'
  <1>1. ASSUME NEW l \in Logins, LoginStep(l) PROVE BaseInv'
    BY <1>1, LoginStepBase
  <1>2. ASSUME NEW l \in Logins, NEW u \in Users, NEW y \in Systems \cup {NoSys},
               ResolveActiveSystem(l, u, y)
        PROVE  BaseInv'
    <2>1. UA!TypeOK'
      BY <1>2, UserActiveType DEF ResolveActiveSystem, BaseInv, TypeOK
    <2>2. QED
      BY <1>2, <2>1 DEF ResolveActiveSystem, BaseInv, TypeOK, Lifecycle, LoginStates, Ended,
                        BindStates, catalog, history
  <1>3. ASSUME \/ \E p \in Callers : CheckStep(p)
               \/ \E r \in Requests : RequestEnd(r)
               \/ \E r \in Requests, s \in Logins : RequestStart(r, s)
               \/ \E u \in Users : CacheExpire(u)
               \/ \E w \in Updates, u \in Users, b \in BOOLEAN : UpdateEmployee(w, u, b)
               \/ \E w \in Updates : InvalidateFlag(w)
        PROVE  BaseInv'
    <2>1. /\ UNCHANGED <<catalog, live, link, login, contended, crashes>>
          /\ misled' \subseteq Logins
      BY <1>3 DEF CheckStep, GetFlag, RequestEnd, RequestStart, CacheExpire, UpdateEmployee,
                  InvalidateFlag, history, BaseInv, TypeOK
    <2>2. \A s \in Logins : login[s].user \in Users
      BY DEF BaseInv, TypeOK
    <2>3. UA!TypeOK'
      BY <1>3, <2>2, UserActiveType
      DEF BaseInv, TypeOK, Callers, CheckStep, GetFlag, RequestEnd, RequestStart, CacheExpire,
          UpdateEmployee, InvalidateFlag
    <2>4. QED
      BY <2>1, <2>3, StutterBase
  <1>4. ASSUME NEW w \in Updates, RevokeAllUserSessions(w) PROVE BaseInv'
    <2>1. UA!TypeOK'
      BY <1>4, UserActiveType DEF RevokeAllUserSessions, BaseInv, TypeOK
    <2>2. QED
      BY <1>4, <2>1, DeleteSessionsType
      DEF RevokeAllUserSessions, BaseInv, TypeOK, Lifecycle, catalog, history
  <1>5. ASSUME NEW u \in Users, DeleteUser(u) PROVE BaseInv'
    <2>1. UA!TypeOK'
      BY <1>5, UserActiveType DEF DeleteUser, BaseInv, TypeOK
    <2>2. TypeOK'
      BY <1>5, <2>1, DeleteSessionsType DEF DeleteUser, BaseInv, TypeOK, history
    <2>3. Lifecycle'
      BY <1>5 DEF DeleteUser, DeleteSessions, SessionsOf, BaseInv, TypeOK, Lifecycle
    <2>4. QED
      BY <2>2, <2>3 DEF BaseInv
  <1>6. ASSUME NEW y \in Systems, UpdateSystem(y) \/ DeleteSystem(y) PROVE BaseInv'
    <2>1. UA!TypeOK'
      BY <1>6, UserActiveType DEF UpdateSystem, DeleteSystem, BaseInv, TypeOK
    <2>2. QED
      BY <1>6, <2>1 DEF UpdateSystem, DeleteSystem, BaseInv, TypeOK, Lifecycle, history
  <1>7. ASSUME NEW a \in Assignable, CreateUserRole(a) \/ DeleteUserRole(a) PROVE BaseInv'
    <2>1. UA!TypeOK'
      BY <1>7, UserActiveType DEF CreateUserRole, DeleteUserRole, BaseInv, TypeOK
    <2>2. QED
      BY <1>7, <2>1 DEF CreateUserRole, DeleteUserRole, BaseInv, TypeOK, Lifecycle, history
  <1>8. ASSUME NEW S, Revoke(S) PROVE BaseInv'
    <2>1. UA!TypeOK'
      BY <1>8, UserActiveType DEF Revoke, BaseInv, TypeOK
    <2>2. QED
      BY <1>8, <2>1, DeleteSessionsType
      DEF Revoke, BaseInv, TypeOK, Lifecycle, catalog, history
  <1>9. CASE Crash
    <2>1. UA!TypeOK'
      BY <1>9, UserActiveType DEF Crash, BaseInv, TypeOK
    <2>2. \A l \in Logins : login'[l] \in {login[l], [login[l] EXCEPT !.st = "crashed"]}
      BY <1>9 DEF Crash
    <2>3. login' \in [Logins -> [st : LoginStates, user : Users,
                                 sys : Systems \cup {NoSys}, prev : Logins \cup {None}]]
      BY <1>9, <2>2 DEF Crash, BaseInv, TypeOK, LoginStates, Ended
    <2>4. TypeOK'
      BY <1>9, <2>1, <2>3, SessionsAssumption DEF Crash, BaseInv, TypeOK, catalog, history
    <2>5. Lifecycle'
      BY <1>9, <2>2 DEF Crash, BaseInv, TypeOK, Lifecycle, catalog
    <2>6. QED
      BY <2>4, <2>5 DEF BaseInv
  <1>10. CASE UNCHANGED vars
    <2>1. UA!TypeOK'
      BY <1>10, UserActiveType DEF vars, BaseInv, TypeOK
    <2>2. QED
      BY <1>10, <2>1, StutterBase DEF vars, history, BaseInv, TypeOK
  <1>11. QED
    BY <1>1, <1>2, <1>3, <1>4, <1>5, <1>6, <1>7, <1>8, <1>9, <1>10, NextCases

THEOREM BaseInvariant == Spec => []BaseInv
  BY InitBase, NextBase, PTL DEF Spec

\* Every variable of the logins and their tables keeps its type.
THEOREM TypeCorrect == Spec => []TypeOK
  <1>1. BaseInv => TypeOK
    BY DEF BaseInv
  <1>2. QED
    BY <1>1, BaseInvariant, PTL

-------------------------------------------------------------------------------
(* Links *)

\* The steps that leave the tables and the logins alone.
QuietStep == UNCHANGED <<users, systems, live, link, login, contended>>

LEMMA QuietSteps ==
    ASSUME \/ \E p \in Callers : CheckStep(p)
           \/ \E r \in Requests : RequestEnd(r)
           \/ \E r \in Requests, s \in Logins : RequestStart(r, s)
           \/ \E u \in Users : CacheExpire(u)
           \/ \E w \in Updates, u \in Users, b \in BOOLEAN : UpdateEmployee(w, u, b)
           \/ \E w \in Updates : InvalidateFlag(w)
           \/ \E y \in Systems : UpdateSystem(y)
           \/ \E a \in Assignable : CreateUserRole(a) \/ DeleteUserRole(a)
           \/ UNCHANGED vars
    PROVE  QuietStep
  BY DEF QuietStep, CheckStep, GetFlag, RequestEnd, RequestStart, CacheExpire,
         UpdateEmployee, InvalidateFlag, UpdateSystem, CreateUserRole, DeleteUserRole, vars,
         catalog, history

\* The steps that delete sessions and leave users, systems and logins alone.
LEMMA RevokingSteps ==
    ASSUME \/ \E w \in Updates : RevokeAllUserSessions(w)
           \/ \E S : Revoke(S)
    PROVE  /\ (\E S : DeleteSessions(S)) \/ UNCHANGED <<live, link>>
           /\ UNCHANGED <<users, systems, login, contended>>
  BY DEF RevokeAllUserSessions, Revoke, catalog, history

\* A crash only turns logins in flight into crashed ones.
LEMMA CrashStep ==
    ASSUME TypeOK, Crash
    PROVE  /\ UNCHANGED <<users, systems, live, link, contended>>
           /\ \A l \in Logins :
                /\ login'[l].user = login[l].user /\ login'[l].sys = login[l].sys
                /\ login'[l].prev = login[l].prev
                /\ \/ login'[l].st = login[l].st
                   \/ login'[l].st = "crashed" /\ login[l].st \notin Ended \cup {"idle"}
  BY DEF Crash, catalog, history, TypeOK

LEMMA LinksLogin ==
    ASSUME BaseInv, LinksCoherent, NEW l \in Logins, LoginStep(l)
    PROVE  LinksCoherent'
  <1> USE DEF BaseInv, TypeOK, Lifecycle, LinksCoherent, Pairs, Pair, Goto, catalog
  <1>1. CASE SignInEmail(l)
    BY <1>1 DEF SignInEmail
  <1>2. CASE AssertActive(l) \/ AssertRole(l) \/ IsDelegatedAdminOfPanel(l) \/ SelectCurrent(l)
    BY <1>2 DEF AssertActive, AssertRole, IsDelegatedAdminOfPanel, SelectCurrent
  <1>3. CASE RevokeOwn(l)
    BY <1>3, SessionsAssumption DEF RevokeOwn, DeleteSessions
  <1>4. CASE RevokePrevious(l)
    BY <1>4, SessionsAssumption DEF RevokePrevious, DeleteSessions
  <1>5. CASE SelectPrevious(l)
    BY <1>5 DEF SelectPrevious
  <1>6. CASE UpsertLink(l)
    BY <1>6, SessionsAssumption DEF UpsertLink
  <1>7. CASE IssueJwt(l)
    BY <1>7 DEF IssueJwt
  <1>8. QED
    BY <1>1, <1>2, <1>3, <1>4, <1>5, <1>6, <1>7 DEF LoginStep

LEMMA LinksNext ==
    ASSUME BaseInv, LinksCoherent, [Next]_vars
    PROVE  LinksCoherent'
  <1> USE DEF BaseInv, TypeOK, Lifecycle, LinksCoherent, Pairs, Pair
  <1>1. ASSUME NEW l \in Logins, LoginStep(l) PROVE LinksCoherent'
    BY <1>1, LinksLogin
  <1>2. ASSUME NEW l \in Logins, NEW u \in Users, NEW y \in Systems \cup {NoSys},
               ResolveActiveSystem(l, u, y)
        PROVE  LinksCoherent'
    BY <1>2 DEF ResolveActiveSystem, catalog
  <1>3. ASSUME QuietStep PROVE LinksCoherent'
    BY <1>3 DEF QuietStep
  <1>4. ASSUME NEW S, DeleteSessions(S), UNCHANGED <<users, systems, login, contended>>
        PROVE  LinksCoherent'
    BY <1>4 DEF DeleteSessions
  <1>5. ASSUME NEW u \in Users, DeleteUser(u) PROVE LinksCoherent'
    BY <1>5 DEF DeleteUser, DeleteSessions, SessionsOf
  <1>6. ASSUME NEW y \in Systems, DeleteSystem(y) PROVE LinksCoherent'
    BY <1>6 DEF DeleteSystem
  <1>7. CASE Crash
    BY <1>7, CrashStep
  <1>8. QED
    BY <1>1, <1>2, <1>3, <1>4, <1>5, <1>6, <1>7, NextCases, QuietSteps, RevokingSteps

\* sessionSystem stays coherent with session, user and system, whatever the
\* interleaving of logins, revocations, deletions and crashes.
THEOREM LinksStayCoherent == Spec => []LinksCoherent
  <1>1. Init => LinksCoherent
    BY DEF Init, LinksCoherent
  <1>2. QED
    BY <1>1, LinksNext, BaseInvariant, PTL DEF Spec

-------------------------------------------------------------------------------
(* One session per user and system *)

InBind(m) == login[m].st \in BindStates

\* Two binds of the same pair under way have been recorded as contention.
OverlapsRecorded ==
    \A m, n \in Logins : InBind(m) /\ InBind(n) /\ Pair(m) = Pair(n) /\ m # n
                           => Pair(m) \in contended

\* A bind under way is about to revoke the bound session, or there is none.
BoundIsReplaced ==
    \A l, m \in Logins :
        Bound(l) /\ InBind(m) /\ l # m /\ Pair(l) = Pair(m)
        /\ Pair(m) \notin contended /\ login[m].sys \in systems
          => login[m].st = "replace" /\ login[m].prev = l

BindInv == /\ OverlapsRecorded /\ SuccessfulLoginsAreBound /\ BoundIsReplaced
           /\ OneSessionUnlessContended

\* What Goto does to the program counters.
LEMMA GotoEffect ==
    ASSUME TypeOK, NEW l \in Logins, NEW st, Goto(l, st)
    PROVE  /\ \A k \in Logins \ {l} : login'[k] = login[k]
           /\ login'[l].st = st /\ login'[l].prev = login[l].prev
           /\ login'[l].user = login[l].user /\ login'[l].sys = login[l].sys
  BY DEF TypeOK, Goto

\* A step that binds no session, starts no bind and moves no link of a session
\* that stays bound keeps the invariant.
LEMMA BindFrame ==
    ASSUME BindInv,
           \A k \in Logins : Bound(k)' => Bound(k) /\ Pair(k)' = Pair(k),
           \A k \in Logins : InBind(k)' => InBind(k) /\ login'[k] = login[k],
           contended' = contended, systems' \subseteq systems,
           \A k \in Logins :
               Bound(k)' /\ login[k].sys \in systems' /\ link[Pair(k)] = k
               /\ Pair(k) \notin contended
                 => link'[Pair(k)] = k
    PROVE  BindInv'
  <1>1. \A k \in Logins : InBind(k)' => Pair(k)' = Pair(k)
    BY DEF Pair
  <1>2. OverlapsRecorded'
    BY <1>1 DEF BindInv, OverlapsRecorded
  <1>3. SuccessfulLoginsAreBound'
    BY DEF BindInv, SuccessfulLoginsAreBound, Pair
  <1>4. BoundIsReplaced'
    BY <1>1 DEF BindInv, BoundIsReplaced, Pair
  <1>5. OneSessionUnlessContended'
    BY DEF BindInv, OneSessionUnlessContended
  <1>6. QED
    BY <1>2, <1>3, <1>4, <1>5 DEF BindInv

\* A step of a login under way that ends it with an error keeps the invariant, if it
\* deletes at most some sessions or makes at most its own upsert.
LEMMA BindFails ==
    ASSUME BaseInv, BindInv, NEW l \in Logins, Goto(l, "failed"),
           UNCHANGED <<systems, contended>>,
           login[l].st \notin {"done", "failed"},
           \/ UNCHANGED <<live, link>>
           \/ \E S : DeleteSessions(S)
           \/ login[l].st = "upsert" /\ link' = [link EXCEPT ![Pair(l)] = l]
                /\ live' = live
    PROVE  BindInv'
  <1>0. TypeOK
    BY DEF BaseInv
  <1>1. /\ \A k \in Logins \ {l} : login'[k] = login[k]
        /\ login'[l].st = "failed"
        /\ login'[l].user = login[l].user /\ login'[l].sys = login[l].sys
    BY <1>0, GotoEffect
  <1>2. live' \subseteq live
    BY DEF DeleteSessions
  <1>3. \A k \in Logins : Bound(k)' => k # l /\ Bound(k) /\ Pair(k)' = Pair(k)
    BY <1>1, <1>2 DEF Bound, Pair
  <1>4. \A k \in Logins : InBind(k)' => InBind(k) /\ login'[k] = login[k]
    BY <1>1 DEF InBind, BindStates
  <1>5. ASSUME NEW k \in Logins, Bound(k)', login[k].sys \in systems', link[Pair(k)] = k,
               Pair(k) \notin contended
        PROVE  link'[Pair(k)] = k
    <2>1. Pair(k) \in Pairs /\ k \in live'
      BY <1>0, <1>3, <1>5 DEF Bound, TypeOK, Pairs, Pair
    <2>2. CASE \E S : DeleteSessions(S)
      BY <2>1, <2>2, <1>5 DEF DeleteSessions
    <2>3. CASE login[l].st = "upsert" /\ link' = [link EXCEPT ![Pair(l)] = l]
      <3>1. Pair(k) # Pair(l)
        BY <2>3, <1>3, <1>5 DEF BindInv, BoundIsReplaced, InBind, BindStates, Pair
      <3>2. QED
        BY <2>1, <2>3, <3>1, <1>0, <1>5 DEF TypeOK
    <2>4. QED
      BY <2>2, <2>3, <1>5
  <1>6. QED
    BY <1>3, <1>4, <1>5, BindFrame

LEMMA BindSelectPrevious ==
    ASSUME BaseInv, BindInv, NEW l \in Logins, SelectPrevious(l)
    PROVE  BindInv'
  <1>0. login[l].st = "previous" /\ UNCHANGED <<systems, live, link>>
    BY DEF SelectPrevious, catalog
  <1>1. ASSUME login' = [login EXCEPT
                  ![l].st = IF link[Pair(l)] \in {None, l} THEN "upsert" ELSE "replace",
                  ![l].prev = IF link[Pair(l)] = l THEN None ELSE link[Pair(l)]],
               contended' = IF \E m \in Logins \ {l} :
                                  login[m].st \in BindStates /\ Pair(m) = Pair(l)
                            THEN contended \cup {Pair(l)} ELSE contended
        PROVE  BindInv'
    <2> DEFINE p == link[Pair(l)]
    <2>1. /\ login[l].st = "previous" /\ login[l].sys \in Systems
          /\ UNCHANGED <<systems, live, link>> /\ contended \subseteq contended'
          /\ \A k \in Logins \ {l} : login'[k] = login[k]
          /\ login'[l].user = login[l].user /\ login'[l].sys = login[l].sys
      BY <1>1 DEF SelectPrevious, BaseInv, TypeOK, Lifecycle, catalog
    <2>2. /\ login'[l].st = IF p \in {None, l} THEN "upsert" ELSE "replace"
          /\ login'[l].prev = IF p = l THEN None ELSE p
      BY <1>1 DEF BaseInv, TypeOK
    <2>3. \A k \in Logins : Pair(k)' = Pair(k)
      BY <2>1 DEF Pair
    <2>4. \A k \in Logins : Bound(k)' <=> Bound(k) /\ k # l
      BY <2>1, <2>2 DEF Bound
    <2>5. \A k \in Logins \ {l} : InBind(k)' <=> InBind(k)
      BY <2>1 DEF InBind
    <2>6. \A m \in Logins \ {l} : InBind(m) /\ Pair(m) = Pair(l) => Pair(l) \in contended'
      BY <1>1 DEF InBind
    <2>7. OverlapsRecorded'
      BY <2>1, <2>3, <2>5, <2>6 DEF BindInv, OverlapsRecorded
    <2>8. SuccessfulLoginsAreBound'
      BY <2>1, <2>3, <2>4 DEF BindInv, SuccessfulLoginsAreBound, Pair
    <2>9. OneSessionUnlessContended'
      BY <2>1, <2>3, <2>4 DEF BindInv, OneSessionUnlessContended
    <2>10. ASSUME NEW k \in Logins, Bound(k)', k # l, Pair(k)' = Pair(l)',
                  Pair(l)' \notin contended', login'[l].sys \in systems'
           PROVE  login'[l].st = "replace" /\ login'[l].prev = k
      <3>1. link[Pair(k)] = k
        BY <2>1, <2>3, <2>4, <2>10 DEF BindInv, SuccessfulLoginsAreBound, Pair
      <3>2. p = k
        BY <3>1, <2>3, <2>10
      <3>3. QED
        BY <3>2, <2>2, <2>10, SessionsAssumption
    <2>11. BoundIsReplaced'
      BY <2>1, <2>3, <2>4, <2>5, <2>10 DEF BindInv, BoundIsReplaced, Pair
    <2>12. QED
      BY <2>7, <2>8, <2>9, <2>11 DEF BindInv
  <1>2. CASE Goto(l, "failed") /\ UNCHANGED contended
    BY <1>0, <1>2, BindFails
  <1>3. QED
    BY <1>1, <1>2 DEF SelectPrevious

LEMMA BindRevokePrevious ==
    ASSUME BaseInv, BindInv, NEW l \in Logins, RevokePrevious(l)
    PROVE  BindInv'
  <1>0. TypeOK
    BY DEF BaseInv
  <1>1. CASE DeleteSessions({login[l].prev}) /\ Goto(l, "upsert")
    <2>1. /\ login[l].st = "replace" /\ DeleteSessions({login[l].prev}) /\ Goto(l, "upsert")
          /\ UNCHANGED <<systems, contended>>
      BY <1>1 DEF RevokePrevious, catalog, history
    <2>2. /\ \A k \in Logins \ {l} : login'[k] = login[k]
          /\ login'[l].st = "upsert" /\ login'[l].prev = login[l].prev
          /\ login'[l].user = login[l].user /\ login'[l].sys = login[l].sys
      BY <1>0, <2>1, GotoEffect
    <2>3. \A k \in Logins : Pair(k)' = Pair(k)
      BY <2>2 DEF Pair
    <2>4. \A k \in Logins : Bound(k)' => Bound(k) /\ k # l /\ k # login[l].prev
      BY <2>1, <2>2 DEF Bound, DeleteSessions
    <2>5. \A k \in Logins : InBind(k)' <=> InBind(k)
      BY <2>1, <2>2 DEF InBind, BindStates
    <2>6. OverlapsRecorded'
      BY <2>1, <2>3, <2>5 DEF BindInv, OverlapsRecorded
    <2>7. \A k \in Logins : Bound(k) /\ login[k].sys \in Systems => Pair(k) \in Pairs
      BY <1>0 DEF TypeOK, Pairs, Pair
    <2>8. SuccessfulLoginsAreBound'
      BY <1>0, <2>1, <2>2, <2>3, <2>4, <2>7
      DEF BindInv, SuccessfulLoginsAreBound, DeleteSessions, TypeOK, Pair
    <2>9. BoundIsReplaced'
      BY <2>1, <2>2, <2>3, <2>4, <2>5 DEF BindInv, BoundIsReplaced, Pair, InBind
    <2>10. OneSessionUnlessContended'
      BY <2>1, <2>3, <2>4 DEF BindInv, OneSessionUnlessContended
    <2>11. QED
      BY <2>6, <2>8, <2>9, <2>10 DEF BindInv
  <1>2. CASE /\ Goto(l, "failed")
             /\ DeleteSessions({login[l].prev}) \/ UNCHANGED <<live, link>>
    <2>1. login[l].st = "replace" /\ UNCHANGED <<systems, contended>>
      BY DEF RevokePrevious, catalog, history
    <2>2. QED
      BY <1>2, <2>1, BindFails
  <1>3. QED
    BY <1>1, <1>2 DEF RevokePrevious

LEMMA BindUpsertLink ==
    ASSUME BaseInv, BindInv, NEW l \in Logins, UpsertLink(l)
    PROVE  BindInv'
  <1>0. TypeOK /\ login[l].st = "upsert" /\ UNCHANGED <<systems, contended, live>>
    BY DEF BaseInv, UpsertLink, catalog, history
  <1>1. CASE /\ l \in live /\ login[l].sys \in systems
             /\ link' = [link EXCEPT ![Pair(l)] = l] /\ Goto(l, "jwt")
    <2>1. link' = [link EXCEPT ![Pair(l)] = l] /\ Goto(l, "jwt")
      BY <1>1
    <2>2. /\ \A k \in Logins \ {l} : login'[k] = login[k]
          /\ login'[l].st = "jwt"
          /\ login'[l].user = login[l].user /\ login'[l].sys = login[l].sys
      BY <1>0, <2>1, GotoEffect
    <2>3. \A k \in Logins : Pair(k)' = Pair(k)
      BY <2>2 DEF Pair
    <2>4. \A k \in Logins : Bound(k)' => Bound(k) \/ k = l
      BY <1>0, <2>2 DEF Bound
    <2>5. \A k \in Logins : InBind(k)' <=> InBind(k) /\ k # l
      BY <1>0, <2>2 DEF InBind, BindStates
    \* No session is bound to the pair, and no other bind of it is under way,
    \* unless it is contended.
    <2>6. \A k \in Logins \ {l} : Bound(k) /\ Pair(k) = Pair(l) => Pair(l) \in contended
      BY <1>0, <1>1 DEF BindInv, BoundIsReplaced, InBind, BindStates
    <2>7. \A k \in Logins \ {l} : InBind(k) /\ Pair(k) = Pair(l) => Pair(l) \in contended
      BY <1>0 DEF BindInv, OverlapsRecorded, InBind, BindStates
    <2>8. OverlapsRecorded'
      BY <1>0, <2>3, <2>5 DEF BindInv, OverlapsRecorded
    <2>9. Pair(l) \in DOMAIN link
      BY <1>0, <1>1 DEF TypeOK, Pairs, Pair
    <2>10. SuccessfulLoginsAreBound'
      BY <1>0, <2>1, <2>2, <2>3, <2>4, <2>6, <2>9 DEF BindInv, SuccessfulLoginsAreBound, Pair
    <2>11. BoundIsReplaced'
      BY <1>0, <2>2, <2>3, <2>4, <2>5, <2>7 DEF BindInv, BoundIsReplaced, Pair
    <2>12. OneSessionUnlessContended'
      BY <1>0, <2>3, <2>4, <2>6 DEF BindInv, OneSessionUnlessContended
    <2>13. QED
      BY <2>8, <2>10, <2>11, <2>12 DEF BindInv
  <1>2. CASE /\ Goto(l, "failed")
             /\ link' = [link EXCEPT ![Pair(l)] = l] \/ UNCHANGED link
    BY <1>0, <1>2, BindFails
  <1>3. QED
    BY <1>1, <1>2 DEF UpsertLink

LEMMA BindNext ==
    ASSUME BaseInv, BindInv, [Next]_vars
    PROVE  BindInv'
  <1>0. TypeOK
    BY DEF BaseInv
  <1>1. ASSUME NEW l \in Logins, LoginStep(l) PROVE BindInv'
    <2>1. CASE SelectPrevious(l) \/ RevokePrevious(l) \/ UpsertLink(l)
      BY <2>1, BindSelectPrevious, BindRevokePrevious, BindUpsertLink
    <2>2. CASE IssueJwt(l)
      <3>1. PICK st \in {"done", "failed"} :
              /\ login[l].st = "jwt" /\ UNCHANGED <<systems, contended, live, link>>
              /\ Goto(l, st)
        BY <2>2 DEF IssueJwt, catalog, history
      <3>2. /\ \A k \in Logins \ {l} : login'[k] = login[k]
            /\ login'[l].st \in {"done", "failed"}
            /\ login'[l].user = login[l].user /\ login'[l].sys = login[l].sys
        BY <1>0, <3>1, GotoEffect
      <3>3. \A k \in Logins : Bound(k)' => Bound(k) /\ Pair(k)' = Pair(k)
        BY <3>1, <3>2 DEF Bound, Pair
      <3>4. \A k \in Logins : InBind(k)' => InBind(k) /\ login'[k] = login[k]
        BY <3>2 DEF InBind, BindStates
      <3>5. QED
        BY <3>1, <3>3, <3>4, BindFrame
    <2>3. CASE SignInEmail(l) \/ AssertActive(l) \/ AssertRole(l)
                \/ IsDelegatedAdminOfPanel(l) \/ RevokeOwn(l) \/ SelectCurrent(l)
      <3>1. PICK st : Goto(l, st) /\ st \notin BindStates \cup {"done"}
                      /\ (st = "jwt" => login[l].sys = NoSys)
        BY <2>3 DEF SignInEmail, AssertActive, AssertRole, IsDelegatedAdminOfPanel, RevokeOwn,
                    SelectCurrent, BindStates
      <3>2. /\ login[l].st \notin BindStates \cup {"jwt", "done"}
            /\ UNCHANGED <<systems, contended>> /\ live' \subseteq live \cup {l}
            /\ \A x \in Pairs : link'[x] = IF link[x] = l THEN link'[x] ELSE link[x]
        BY <2>3, <1>0
        DEF SignInEmail, AssertActive, AssertRole, IsDelegatedAdminOfPanel, RevokeOwn,
            SelectCurrent, BindStates, DeleteSessions, catalog, history, TypeOK
      <3>3. /\ \A k \in Logins \ {l} : login'[k] = login[k]
            /\ login'[l].st = st /\ login'[l].sys = login[l].sys
        BY <1>0, <3>1, GotoEffect
      <3>4. \A k \in Logins : Bound(k)' => k # l /\ Bound(k) /\ Pair(k)' = Pair(k)
        BY <3>1, <3>2, <3>3 DEF Bound, Pair
      <3>5. \A k \in Logins : InBind(k)' => InBind(k) /\ login'[k] = login[k]
        BY <3>1, <3>3 DEF InBind
      <3>6. \A k \in Logins : Bound(k)' => Pair(k) \in Pairs
        BY <1>0, <3>4 DEF Bound, TypeOK, Pairs, Pair
      <3>7. QED
        BY <3>2, <3>4, <3>5, <3>6, BindFrame
    <2>4. QED
      BY <1>1, <2>1, <2>2, <2>3 DEF LoginStep
  <1>2. ASSUME NEW l \in Logins, NEW u \in Users, NEW y \in Systems \cup {NoSys},
               ResolveActiveSystem(l, u, y)
        PROVE  BindInv'
    <2>1. /\ \A k \in Logins \ {l} : login'[k] = login[k]
          /\ login'[l].st \in {"verify", "rejected"}
          /\ UNCHANGED <<systems, contended, live, link>>
      BY <1>0, <1>2 DEF ResolveActiveSystem, TypeOK, catalog, history
    <2>2. \A k \in Logins : Bound(k)' => Bound(k) /\ Pair(k)' = Pair(k)
      BY <2>1 DEF Bound, Pair
    <2>3. \A k \in Logins : InBind(k)' => InBind(k) /\ login'[k] = login[k]
      BY <2>1 DEF InBind, BindStates
    <2>4. QED
      BY <2>1, <2>2, <2>3, BindFrame
  <1>3. ASSUME QuietStep PROVE BindInv'
    BY <1>3, BindFrame DEF QuietStep, Bound, InBind, Pair
  <1>4. ASSUME NEW S, DeleteSessions(S), systems' \subseteq systems,
               UNCHANGED <<login, contended>>
        PROVE  BindInv'
    <2>1. \A k \in Logins : Bound(k)' => Bound(k) /\ k \notin S /\ Pair(k)' = Pair(k)
      BY <1>4 DEF Bound, Pair, DeleteSessions
    <2>2. \A k \in Logins : Bound(k)' => Pair(k) \in Pairs
      BY <1>0, <2>1 DEF Bound, TypeOK, Pairs, Pair
    <2>3. \A k \in Logins : Bound(k)' /\ link[Pair(k)] = k => link'[Pair(k)] = k
      BY <1>4, <2>1, <2>2 DEF DeleteSessions
    <2>4. QED
      BY <1>4, <2>1, <2>3, BindFrame DEF InBind
  <1>5. ASSUME NEW u \in Users, DeleteUser(u) PROVE BindInv'
    BY <1>4, <1>5 DEF DeleteUser, history
  <1>6. ASSUME NEW y \in Systems, DeleteSystem(y) PROVE BindInv'
    <2>1. UNCHANGED <<login, contended, live>> /\ systems' = systems \ {y}
      BY <1>6 DEF DeleteSystem, history
    <2>2. \A k \in Logins : Bound(k)' => Bound(k) /\ Pair(k)' = Pair(k) /\ Pair(k) \in Pairs
      BY <1>0, <2>1 DEF Bound, TypeOK, Pairs, Pair
    <2>3. \A k \in Logins : Bound(k)' /\ login[k].sys \in systems' /\ link[Pair(k)] = k
                              => link'[Pair(k)] = k
      BY <1>6, <2>1, <2>2 DEF DeleteSystem, Pair
    <2>4. QED
      BY <2>1, <2>2, <2>3, BindFrame DEF InBind
  <1>7. CASE Crash
    <2>1. \A k \in Logins : Bound(k)' => Bound(k) /\ Pair(k)' = Pair(k)
      BY <1>0, <1>7, CrashStep DEF Bound, Pair
    <2>2. \A k \in Logins : InBind(k)' => InBind(k) /\ login'[k] = login[k]
      BY <1>0, <1>7 DEF InBind, BindStates, Crash, Ended, TypeOK
    <2>3. QED
      BY <1>0, <1>7, <2>1, <2>2, CrashStep, BindFrame
  <1>8. ASSUME \/ \E w \in Updates : RevokeAllUserSessions(w)
               \/ \E S : Revoke(S)
        PROVE  BindInv'
    BY <1>3, <1>4, <1>8, RevokingSteps DEF QuietStep
  <1>9. QED
    BY <1>1, <1>2, <1>3, <1>5, <1>6, <1>7, <1>8, NextCases, QuietSteps

LEMMA BindInvariant == Spec => []BindInv
  <1>1. Init => BindInv
    BY DEF Init, BindInv, OverlapsRecorded, SuccessfulLoginsAreBound, BoundIsReplaced,
           OneSessionUnlessContended, Bound, InBind, BindStates
  <1>2. QED
    BY <1>1, BindNext, BaseInvariant, PTL DEF Spec

\* As long as no two binds of a user and system overlapped, at most one
\* session is bound to them.
THEOREM SingleSession == Spec => []OneSessionUnlessContended
  <1>1. BindInv => OneSessionUnlessContended
    BY DEF BindInv
  <1>2. QED
    BY <1>1, BindInvariant, PTL

\* Meanwhile the live session of a login that succeeded is the one sessionSystem holds,
\* whatever statement of whatever login, revocation or update failed.
THEOREM LoginsAreBound == Spec => []SuccessfulLoginsAreBound
  <1>1. BindInv => SuccessfulLoginsAreBound
    BY DEF BindInv
  <1>2. QED
    BY <1>1, BindInvariant, PTL

-------------------------------------------------------------------------------
(* Deactivation *)

\* A login in its check waits for isUserDeactivated or has its answer about its own
\* user; no other login is in a check.
ChecksFollowLogins ==
    \A l \in Logins :
        IF login[l].st = "check"
        THEN chk[l].st # "idle" /\ chk[l].user = login[l].user
        ELSE chk[l].st = "idle"

\* The check of l has found that its user is active.
Checked(l) == login[l].st = "check" /\ chk[l].st \in {"set", "answered"} /\ ~chk[l].res

\* A deactivation of u has still to delete the sessions, or never will.
Pending(u) == \E w \in Updates : /\ upd[w].user = u /\ ~upd[w].active
                                 /\ upd[w].st \notin {"idle", "finished"}

\* DeactivationClosesSessions, from the moment the check has found the user active.
CutInv == \A l \in live : (LetIn(l) \/ Checked(l)) /\ login[l].user \in inactive =>
                            l \in misled \/ Pending(login[l].user)

\* Checks are undisturbed by the steps that leave chk and login alone.
LEMMA ChecksNext ==
    ASSUME BaseInv, ChecksFollowLogins, [Next]_vars
    PROVE  ChecksFollowLogins'
  <1> USE DEF BaseInv, TypeOK, UA!TypeOK, ChecksFollowLogins, Callers
  <1>1. ASSUME NEW l \in Logins, LoginStep(l) PROVE ChecksFollowLogins'
    <2> USE DEF Goto, uaVars
    <2>1. CASE SignInEmail(l)
      BY <2>1 DEF SignInEmail, UA!Call
    <2>2. CASE AssertActive(l)
      BY <2>2 DEF AssertActive, UA!Return, UA!QueryFails
    <2>3. CASE AssertRole(l) \/ IsDelegatedAdminOfPanel(l) \/ SelectCurrent(l) \/ IssueJwt(l)
      <3>1. /\ login[l].st # "check" /\ chk' = chk
            /\ \E st \in LoginStates \ {"check"} : Goto(l, st)
        BY <2>3 DEF AssertRole, IsDelegatedAdminOfPanel, SelectCurrent, IssueJwt, LoginStates,
                    BindStates, Ended
      <3>2. QED
        BY <3>1
    <2>4. CASE RevokeOwn(l) \/ RevokePrevious(l) \/ UpsertLink(l)
      BY <2>4 DEF RevokeOwn, RevokePrevious, UpsertLink
    <2>5. CASE SelectPrevious(l)
      BY <2>5 DEF SelectPrevious
    <2>6. QED
      BY <1>1, <2>1, <2>2, <2>3, <2>4, <2>5 DEF LoginStep
  <1>2. ASSUME NEW l \in Logins, NEW u \in Users, NEW y \in Systems \cup {NoSys},
               ResolveActiveSystem(l, u, y)
        PROVE  ChecksFollowLogins'
    BY <1>2 DEF ResolveActiveSystem, uaVars
  <1>3. ASSUME NEW p \in Callers, CheckStep(p) PROVE ChecksFollowLogins'
    BY <1>3 DEF CheckStep, GetFlag, UA!GetCached, UA!QueryUserDeactivated, UA!SetCached
  <1>4. ASSUME NEW r \in Requests, NEW s \in Logins, RequestStart(r, s)
        PROVE  ChecksFollowLogins'
    BY <1>4, SessionsAssumption DEF RequestStart, UA!Call
  <1>5. ASSUME NEW r \in Requests, RequestEnd(r)
        PROVE  ChecksFollowLogins'
    BY <1>5, SessionsAssumption DEF RequestEnd, UA!Return, UA!QueryFails
  <1>6. ASSUME NEW u \in Users, CacheExpire(u) \/ DeleteUser(u) PROVE ChecksFollowLogins'
    BY <1>6 DEF CacheExpire, DeleteUser, UA!Expire, UA!RemoveRow
  <1>7. ASSUME NEW w \in Updates, NEW u \in Users, NEW b \in BOOLEAN, UpdateEmployee(w, u, b)
        PROVE  ChecksFollowLogins'
    BY <1>7 DEF UpdateEmployee, UA!UpdateRow
  <1>8. ASSUME NEW w \in Updates, InvalidateFlag(w) \/ RevokeAllUserSessions(w)
        PROVE  ChecksFollowLogins'
    BY <1>8 DEF InvalidateFlag, RevokeAllUserSessions, UA!InvalidateUserActiveCache,
                UA!RevokeUserSessions
  <1>10. ASSUME NEW y \in Systems, UpdateSystem(y) \/ DeleteSystem(y)
         PROVE  ChecksFollowLogins'
    BY <1>10 DEF UpdateSystem, DeleteSystem, uaVars
  <1>11. ASSUME NEW a \in Assignable, CreateUserRole(a) \/ DeleteUserRole(a)
         PROVE  ChecksFollowLogins'
    BY <1>11 DEF CreateUserRole, DeleteUserRole, uaVars
  <1>12. ASSUME NEW S, Revoke(S) PROVE ChecksFollowLogins'
    BY <1>12 DEF Revoke, uaVars
  <1>13. CASE Crash
    <2>1. \A l \in Logins : chk'[l].st = "idle"
      BY <1>13 DEF Crash, UA!Crash
    <2>2. \A l \in Logins : login'[l].st # "check"
      BY <1>13 DEF Crash, Ended
    <2>3. QED
      BY <2>1, <2>2
  <1>14. CASE UNCHANGED vars
    BY <1>14 DEF vars, uaVars
  <1>15. QED
    BY <1>1, <1>2, <1>3, <1>4, <1>5, <1>6, <1>7, <1>8, <1>10, <1>11, <1>12, <1>13, <1>14,
       NextCases

\* A step keeps CutInv if no session that survives it was let through by it, no
\* user was deactivated and no pending deactivation ended.
LEMMA CutFrame ==
    ASSUME CutInv,
           \A l \in live' : (LetIn(l) \/ Checked(l))' =>
               /\ l \in live /\ (LetIn(l) \/ Checked(l))
               /\ login'[l].user = login[l].user,
           inactive' \subseteq inactive, misled \subseteq misled',
           \A u : Pending(u) => Pending(u)'
    PROVE  CutInv'
  BY DEF CutInv

LEMMA CutNext ==
    ASSUME BaseInv, ChecksFollowLogins, CutInv, [Next]_vars
    PROVE  CutInv'
  <1>0. TypeOK /\ UA!TypeOK /\ live \subseteq Logins
    BY DEF BaseInv, TypeOK
  <1>1. ASSUME NEW l \in Logins, LoginStep(l) PROVE CutInv'
    <2>1. CASE AssertActive(l)
      <3>1. /\ UNCHANGED <<inactive, upd, live, misled>> /\ login[l].st = "check"
            /\ \A k \in Logins \ {l} : chk'[k] = chk[k]
        BY <2>1, <1>0 DEF AssertActive, UA!Return, UA!QueryFails, UA!TypeOK, Callers, history
      <3>2. PICK st \in {"revoke", "role", "aborted"} :
              Goto(l, st) /\ (st = "role" => Checked(l))
        BY <2>1 DEF AssertActive, UA!Return, Checked
      <3>3. /\ \A k \in Logins \ {l} : login'[k] = login[k]
            /\ login'[l].st = st /\ login'[l].user = login[l].user
        BY <3>2, <1>0, GotoEffect
      <3>4. \A k \in live' : (LetIn(k) \/ Checked(k))' =>
               /\ k \in live /\ (LetIn(k) \/ Checked(k))
               /\ login'[k].user = login[k].user
        BY <1>0, <3>1, <3>2, <3>3 DEF LetIn, Checked
      <3>5. QED
        BY <3>1, <3>4, CutFrame DEF Pending
    <2>2. CASE SignInEmail(l)
      <3>1. /\ UNCHANGED <<inactive, upd, misled>> /\ live' \subseteq live \cup {l}
            /\ \A k \in Logins \ {l} : chk'[k] = chk[k]
            /\ login[l].st = "verify"
        BY <2>2, <1>0 DEF SignInEmail, UA!Call, UA!TypeOK, Callers, uaVars, history
      <3>2. PICK st \in {"check", "aborted", "rejected"} :
              Goto(l, st) /\ (st = "check" => chk'[l].st \notin {"set", "answered"})
                          /\ (st = "rejected" => live' = live)
        BY <2>2, <1>0 DEF SignInEmail, UA!Call, UA!TypeOK, Callers
      <3>3. /\ \A k \in Logins \ {l} : login'[k] = login[k]
            /\ login'[l].st = st
        BY <3>2, <1>0, GotoEffect
      <3>4. l \notin live
        BY <3>1 DEF BaseInv, Lifecycle
      <3>5. \A k \in live' : (LetIn(k) \/ Checked(k))' =>
               /\ k \in live /\ (LetIn(k) \/ Checked(k))
               /\ login'[k].user = login[k].user
        BY <1>0, <3>1, <3>2, <3>3, <3>4 DEF LetIn, Checked
      <3>6. QED
        BY <3>1, <3>5, CutFrame DEF Pending
    <2>3. CASE \/ AssertRole(l) \/ IsDelegatedAdminOfPanel(l) \/ RevokeOwn(l)
               \/ SelectCurrent(l) \/ SelectPrevious(l) \/ RevokePrevious(l)
               \/ UpsertLink(l) \/ IssueJwt(l)
      <3>1. /\ UNCHANGED <<inactive, upd, chk, misled>> /\ live' \subseteq live
            /\ login[l].st = "revoke" => login'[l].st \in {"denied", "aborted"}
                                         /\ (login'[l].st = "denied" => l \notin live')
            /\ LetIn(l) \/ login[l].st = "revoke"
        BY <2>3, <1>0
        DEF AssertRole, IsDelegatedAdminOfPanel, RevokeOwn, SelectCurrent, SelectPrevious,
            RevokePrevious, UpsertLink, IssueJwt, DeleteSessions, uaVars, history, LetIn, Goto,
            TypeOK
      <3>2. /\ \A k \in Logins \ {l} : login'[k] = login[k]
            /\ login'[l].user = login[l].user
        BY <2>3, <1>0
        DEF AssertRole, IsDelegatedAdminOfPanel, RevokeOwn, SelectCurrent, SelectPrevious,
            RevokePrevious, UpsertLink, IssueJwt, Goto, TypeOK
      <3>3. login'[l].st # "check"
        BY <2>3, <1>0
        DEF AssertRole, IsDelegatedAdminOfPanel, RevokeOwn, SelectCurrent, SelectPrevious,
            RevokePrevious, UpsertLink, IssueJwt, Goto, TypeOK
      <3>4. \A k \in live' : (LetIn(k) \/ Checked(k))' =>
               /\ k \in live /\ (LetIn(k) \/ Checked(k))
               /\ login'[k].user = login[k].user
        BY <1>0, <3>1, <3>2, <3>3 DEF LetIn, Checked
      <3>5. QED
        BY <3>1, <3>4, CutFrame DEF Pending
    <2>4. QED
      BY <1>1, <2>1, <2>2, <2>3 DEF LoginStep
  <1>2. ASSUME NEW l \in Logins, NEW u \in Users, NEW y \in Systems \cup {NoSys},
               ResolveActiveSystem(l, u, y)
        PROVE  CutInv'
    <2>1. /\ UNCHANGED <<inactive, upd, chk, live, misled>> /\ l \notin live
          /\ \A k \in Logins \ {l} : login'[k] = login[k]
      BY <1>0, <1>2 DEF ResolveActiveSystem, uaVars, history, BaseInv, Lifecycle, TypeOK
    <2>2. QED
      BY <1>0, <2>1, CutFrame DEF LetIn, Checked, Pending
  <1>3. ASSUME NEW p \in Callers, CheckStep(p) PROVE CutInv'
    <2>1. /\ UNCHANGED <<inactive, upd, live, login>> /\ misled \subseteq misled'
          /\ \A k \in Callers \ {p} : chk'[k] = chk[k]
          /\ chk'[p].user = chk[p].user
      BY <1>0, <1>3 DEF CheckStep, GetFlag, UA!GetCached, UA!QueryUserDeactivated,
                        UA!SetCached, UA!TypeOK, Callers, history
    <2>2. SUFFICES ASSUME NEW l \in live, (LetIn(l) \/ Checked(l))',
                          login[l].user \in inactive
                   PROVE  l \in misled' \/ Pending(login[l].user)
      BY <2>1 DEF CutInv, Pending
    <2>3. LetIn(l) \/ Checked(l) \/ l \in misled'
      <3>1. CASE LetIn(l)
        BY <3>1
      <3>2. CASE Checked(l)' /\ l # p
        BY <1>0, <2>1, <3>2 DEF Checked, Callers
      <3>3. CASE Checked(l)' /\ l = p
        <4>1. chk[l].user = login[l].user /\ login[l].st = "check"
          BY <1>0, <2>1, <3>3 DEF ChecksFollowLogins, Checked
        <4>2. CASE GetFlag(p)
          BY <1>0, <2>2, <3>3, <4>1, <4>2
          DEF GetFlag, UA!GetCached, UA!TypeOK, Checked, Callers
        <4>3. CASE UA!QueryUserDeactivated(p)
          BY <1>0, <2>2, <3>3, <4>1, <4>3 DEF UA!QueryUserDeactivated, UA!TypeOK, Checked, Callers
        <4>4. CASE UA!SetCached(p)
          BY <1>0, <3>3, <4>1, <4>4 DEF UA!SetCached, UA!TypeOK, Checked, Callers
        <4>5. QED
          BY <1>3, <4>2, <4>3, <4>4 DEF CheckStep
      <3>4. QED
        BY <2>1, <2>2, <3>1, <3>2, <3>3 DEF LetIn
    <2>4. QED
      BY <2>1, <2>2, <2>3 DEF CutInv
  <1>4. ASSUME NEW r \in Requests,
               RequestEnd(r) \/ \E s \in Logins : RequestStart(r, s)
        PROVE  CutInv'
    <2>1. /\ UNCHANGED <<inactive, upd, live, login, misled>>
          /\ \A k \in Logins : chk'[k] = chk[k]
      BY <1>0, <1>4, SessionsAssumption
      DEF RequestEnd, RequestStart, UA!Return, UA!QueryFails, UA!Call, UA!TypeOK, Callers,
          history
    <2>2. QED
      BY <1>0, <2>1, CutFrame DEF LetIn, Checked, Pending
  <1>5. ASSUME NEW u \in Users, CacheExpire(u) \/ DeleteUser(u) PROVE CutInv'
    <2>1. /\ UNCHANGED <<chk, upd, login, misled>> /\ live' \subseteq live
          /\ inactive' \subseteq inactive
      BY <1>5 DEF CacheExpire, DeleteUser, DeleteSessions, UA!Expire, UA!RemoveRow, history
    <2>2. QED
      BY <1>0, <2>1, CutFrame DEF LetIn, Checked, Pending
  <1>6. ASSUME NEW w \in Updates, NEW u \in Users, NEW b \in BOOLEAN, UpdateEmployee(w, u, b)
        PROVE  CutInv'
    <2>1. /\ UNCHANGED <<chk, live, login, misled>>
          /\ inactive' = IF b THEN inactive \ {u} ELSE inactive \cup {u}
          /\ upd[w].st = "idle"
          /\ upd'[w].st \in {"updated", "failed"} /\ upd'[w].user = u /\ upd'[w].active = b
          /\ \A v \in Updates \ {w} : upd'[v] = upd[v]
      BY <1>0, <1>6 DEF UpdateEmployee, UA!UpdateRow, UA!TypeOK, history
    <2>2. \A v : Pending(v) => Pending(v)'
      BY <2>1 DEF Pending
    <2>3. CASE b = TRUE
      BY <1>0, <2>1, <2>2, <2>3, CutFrame DEF LetIn, Checked
    <2>4. CASE b = FALSE
      <3>1. Pending(u)'
        BY <2>1, <2>4 DEF Pending
      <3>2. QED
        BY <2>1, <2>2, <2>4, <3>1 DEF CutInv, LetIn, Checked
    <2>5. QED
      BY <2>3, <2>4
  <1>7. ASSUME NEW w \in Updates, InvalidateFlag(w) PROVE CutInv'
    <2>1. /\ UNCHANGED <<inactive, chk, live, login, misled>>
          /\ upd[w].st = "updated"
          /\ upd'[w].user = upd[w].user /\ upd'[w].active = upd[w].active
          /\ upd'[w].st = IF upd[w].active THEN "finished" ELSE "invalidated"
          /\ \A v \in Updates \ {w} : upd'[v] = upd[v]
      BY <1>0, <1>7 DEF InvalidateFlag, UA!InvalidateUserActiveCache, UA!TypeOK, history
    <2>2. \A v : Pending(v) => Pending(v)'
      BY <2>1 DEF Pending
    <2>3. QED
      BY <1>0, <2>1, <2>2, CutFrame DEF LetIn, Checked
  <1>8. ASSUME NEW w \in Updates, RevokeAllUserSessions(w) PROVE CutInv'
    <2>1. /\ UNCHANGED <<inactive, chk, login, misled>> /\ live' \subseteq live
          /\ upd'[w].user = upd[w].user /\ upd'[w].active = upd[w].active
          /\ \A v \in Updates \ {w} : upd'[v] = upd[v]
      BY <1>0, <1>8 DEF RevokeAllUserSessions, DeleteSessions, UA!RevokeUserSessions,
                        UA!TypeOK, history
    <2>2. CASE upd'[w].st = "failed"
      <3>1. \A v : Pending(v) => Pending(v)'
        BY <2>1, <2>2 DEF Pending
      <3>2. QED
        BY <1>0, <2>1, <3>1, CutFrame DEF LetIn, Checked
    <2>3. CASE upd'[w].st # "failed"
      <3>1. \A l \in live' : l \in live /\ login[l].user # upd[w].user
        BY <1>8, <2>3 DEF RevokeAllUserSessions, DeleteSessions, SessionsOf
      <3>2. \A v : v # upd[w].user /\ Pending(v) => Pending(v)'
        BY <2>1 DEF Pending
      <3>3. QED
        BY <2>1, <3>1, <3>2 DEF CutInv, LetIn, Checked
    <2>4. QED
      BY <2>2, <2>3
  <1>9. ASSUME \/ \E y \in Systems : UpdateSystem(y) \/ DeleteSystem(y)
               \/ \E a \in Assignable : CreateUserRole(a) \/ DeleteUserRole(a)
               \/ \E S : Revoke(S)
               \/ UNCHANGED vars
        PROVE  CutInv'
    <2>1. UNCHANGED <<inactive, chk, upd, login, misled>> /\ live' \subseteq live
      BY <1>9 DEF UpdateSystem, DeleteSystem, CreateUserRole, DeleteUserRole, Revoke,
                  DeleteSessions, vars, uaVars, history
    <2>2. QED
      BY <1>0, <2>1, CutFrame DEF LetIn, Checked, Pending
  <1>10. CASE Crash
    <2>1. /\ UNCHANGED <<inactive, live, misled>>
          /\ \A k \in Logins : chk'[k].st = "idle"
          /\ \A v \in Updates :
               /\ upd'[v].user = upd[v].user /\ upd'[v].active = upd[v].active
               /\ upd'[v].st = IF upd[v].st \in {"updated", "invalidated"} THEN "crashed"
                               ELSE upd[v].st
      BY <1>0, <1>10 DEF Crash, UA!Crash, UA!TypeOK, Callers, history
    <2>2. \A v : Pending(v) => Pending(v)'
      BY <2>1 DEF Pending
    <2>3. \A l \in live' : (LetIn(l) \/ Checked(l))' => LetIn(l) /\ login'[l] = login[l]
      BY <1>0, <1>10, <2>1 DEF Crash, LetIn, Checked
    <2>4. QED
      BY <1>0, <2>1, <2>2, <2>3, CutFrame
  <1>11. QED
    BY <1>1, <1>2, <1>3, <1>4, <1>5, <1>6, <1>7, <1>8, <1>9, <1>10, NextCases

\* A deactivation leaves the user no session that a login could hand out, but to those
\* a stale flag let in or while, or because, its deletion has not been made.
THEOREM DeactivationCutsAccess == Spec => []DeactivationClosesSessions
  <1>1. Init => ChecksFollowLogins /\ CutInv
    BY DEF Init, UA!Init, ChecksFollowLogins, CutInv, Callers
  <1>2. BaseInv /\ CutInv => DeactivationClosesSessions
    BY DEF CutInv, DeactivationClosesSessions, Pending, Closing, GivenUp, BaseInv, TypeOK,
           UA!TypeOK, UA!UpdateStates
  <1>3. BaseInv /\ ChecksFollowLogins /\ CutInv /\ [Next]_vars
          => ChecksFollowLogins' /\ CutInv'
    BY ChecksNext, CutNext
  <1>4. QED
    BY <1>1, <1>2, <1>3, BaseInvariant, PTL DEF Spec

-------------------------------------------------------------------------------
(* Logins and the sessions of others *)

\* What RevokePrevious is about to delete is a session of the same user and
\* system, and its login has started: its pair no longer changes.
PreviousIsSamePair ==
    \A l \in Logins : login[l].st = "replace" =>
        /\ login[l].prev \in Logins
        /\ Pair(login[l].prev) = Pair(l)
        /\ login[login[l].prev].st # "idle"

\* A step keeps it if no login enters "replace", leaves "idle" behind or
\* changes its locals.
LEMMA PreviousFrame ==
    ASSUME PreviousIsSamePair,
           \A l \in Logins : login'[l].st = "replace" => login[l].st = "replace",
           \A l \in Logins : login[l].st # "idle" =>
               /\ login'[l].user = login[l].user /\ login'[l].sys = login[l].sys
               /\ login'[l].prev = login[l].prev /\ login'[l].st # "idle"
    PROVE  PreviousIsSamePair'
  BY DEF PreviousIsSamePair, Pair

LEMMA PreviousNext ==
    ASSUME BaseInv, LinksCoherent, PreviousIsSamePair, [Next]_vars
    PROVE  PreviousIsSamePair'
  <1>0. TypeOK
    BY DEF BaseInv
  <1>1. ASSUME NEW l \in Logins, LoginStep(l) PROVE PreviousIsSamePair'
    <2>1. CASE SelectPrevious(l)
      <3> DEFINE p == link[Pair(l)]
      <3>1. /\ login[l].st = "previous" /\ login[l].sys \in Systems
            /\ Pair(l) \in Pairs /\ p \in Logins \cup {None}
        BY <2>1, <1>0 DEF SelectPrevious, BaseInv, Lifecycle, TypeOK, Pairs, Pair
      <3>2. /\ \A k \in Logins \ {l} : login'[k] = login[k]
            /\ login'[l].user = login[l].user /\ login'[l].sys = login[l].sys
            /\ login'[l].st = "replace" =>
                 p \notin {None, l} /\ login'[l].prev = p
            /\ login'[l].st # "idle"
        BY <2>1, <1>0 DEF SelectPrevious, Goto, TypeOK
      <3>3. p # None => Pair(p) = Pair(l) /\ login[p].st # "idle"
        BY <3>1 DEF LinksCoherent
      <3>4. \A k \in Logins : Pair(k)' = Pair(k)
        BY <3>2 DEF Pair
      <3>5. ASSUME NEW k \in Logins, login'[k].st = "replace"
            PROVE  /\ login'[k].prev \in Logins
                   /\ Pair(login'[k].prev) = Pair(k)
                   /\ login'[login'[k].prev].st # "idle"
        <4>1. CASE k = l
          BY <3>1, <3>2, <3>3, <3>5, <4>1
        <4>2. CASE k # l
          <5>1. login[k].st = "replace" /\ login'[k].prev = login[k].prev
            BY <3>2, <3>5, <4>2
          <5>2. QED
            BY <3>2, <5>1 DEF PreviousIsSamePair
        <4>3. QED
          BY <4>1, <4>2
      <3>6. QED
        BY <3>4, <3>5 DEF PreviousIsSamePair, Pair
    <2>2. CASE \/ SignInEmail(l) \/ AssertActive(l) \/ AssertRole(l)
               \/ IsDelegatedAdminOfPanel(l) \/ RevokeOwn(l) \/ SelectCurrent(l)
               \/ RevokePrevious(l) \/ UpsertLink(l) \/ IssueJwt(l)
      <3>1. \E st \in {"rejected", "check", "revoke", "role", "jwt", "bind", "delegate",
                        "denied", "aborted", "previous", "failed", "upsert", "done"} :
              Goto(l, st)
        BY <2>2
        DEF SignInEmail, AssertActive, AssertRole, IsDelegatedAdminOfPanel, RevokeOwn,
            SelectCurrent, RevokePrevious, UpsertLink, IssueJwt
      <3>2. QED
        BY <1>0, <3>1, GotoEffect, PreviousFrame
    <2>3. QED
      BY <1>1, <2>1, <2>2 DEF LoginStep
  <1>2. ASSUME NEW l \in Logins, NEW u \in Users, NEW y \in Systems \cup {NoSys},
               ResolveActiveSystem(l, u, y)
        PROVE  PreviousIsSamePair'
    <2>1. /\ login[l].st = "idle" /\ login'[l].st # "replace" /\ login'[l].st # "idle"
          /\ \A k \in Logins \ {l} : login'[k] = login[k]
      BY <1>0, <1>2 DEF ResolveActiveSystem, TypeOK
    <2>2. QED
      BY <2>1, PreviousFrame
  <1>3. CASE UNCHANGED login
    BY <1>3, PreviousFrame
  <1>4. ASSUME \/ \E u \in Users : DeleteUser(u)
               \/ \E y \in Systems : DeleteSystem(y)
        PROVE  UNCHANGED login
    BY <1>4 DEF DeleteUser, DeleteSystem
  <1>5. CASE Crash
    BY <1>0, <1>5, CrashStep, PreviousFrame
  <1>6. QED
    BY <1>1, <1>2, <1>3, <1>4, <1>5, NextCases, QuietSteps, RevokingSteps DEF QuietStep

\* A login ends no session but its own and the one it replaces.
THEOREM LoginsSpareOthers == Spec => LoginSparesOtherSessions
  <1>1. Init => PreviousIsSamePair
    BY DEF Init, PreviousIsSamePair
  <1>2. ASSUME BaseInv, PreviousIsSamePair, NEW l \in Logins, LoginStep(l),
               NEW k \in live \ live'
        PROVE  k = l \/ Pair(k) = Pair(l)
    <2>1. CASE RevokeOwn(l)
      BY <2>1 DEF RevokeOwn, DeleteSessions
    <2>2. CASE RevokePrevious(l)
      BY <1>2, <2>2 DEF RevokePrevious, DeleteSessions, PreviousIsSamePair
    <2>3. CASE \/ SignInEmail(l) \/ AssertActive(l) \/ AssertRole(l)
               \/ IsDelegatedAdminOfPanel(l) \/ SelectCurrent(l) \/ SelectPrevious(l)
               \/ UpsertLink(l) \/ IssueJwt(l)
      BY <2>3 DEF SignInEmail, AssertActive, AssertRole, IsDelegatedAdminOfPanel,
                  SelectCurrent, SelectPrevious, UpsertLink, IssueJwt
    <2>4. QED
      BY <1>2, <2>1, <2>2, <2>3 DEF LoginStep
  <1>3. BaseInv /\ PreviousIsSamePair =>
          (\A l \in Logins : LoginStep(l) => \A k \in live \ live' : k = l \/ Pair(k) = Pair(l))
    BY <1>2
  <1>4. QED
    BY <1>1, <1>3, PreviousNext, BaseInvariant, LinksStayCoherent, PTL
    DEF Spec, LoginSparesOtherSessions
===============================================================================
