------------------------ MODULE EmployeeAccountsProofs ------------------------
(***************************************************************************)
(* Proofs about module EmployeeAccounts, for any accounts, employees,      *)
(* requests and any number of connections.                                 *)
(***************************************************************************)
EXTENDS EmployeeAccounts, SequenceTheorems, TLAPS

ReqType == [st : Awaits, user : Users \cup {None}, emp : Employees \cup {None},
            caller : Users \cup {None}, since : SUBSET {"role", "link"}]

\* The types of the tables; an employee with an account has a row, and who is invited
\* has been given an account.
TablesOK ==
    /\ born \subseteq Users \cup Employees
    /\ accounts \subseteq Users \cap born /\ admins \subseteq accounts
    /\ bare \subseteq accounts
    /\ rows \subseteq Employees \cap born
    /\ link \in [Employees -> accounts \cup {None}]
    /\ \A e \in Employees : link[e] # None => e \in rows
    /\ queue \in Seq(Users)
    /\ \A i \in DOMAIN queue : queue[i] \in born

\* What a request knows is so.
ReqOK(q) ==
    /\ q.st \in Creating => q.user \in Users \cap born
    /\ q.st \in Checking => q.user \in Users /\ EntitledToDelete(q)
    /\ q.st = "findProfile" => q.user # q.caller /\ q.emp = None
    /\ q.st = "edit" /\ q.user \in admins => "role" \in q.since

\* Two requests hold different employees and create different accounts.
Apart(p, q) ==
    /\ p.st \in Checking /\ q.st \in Checking /\ p.emp = q.emp => p.emp = None
    /\ p.st \in Creating /\ q.st \in Creating => p.user # q.user

IInv ==
    /\ TablesOK
    /\ req \in [Requests -> ReqType]
    /\ \A r \in Requests : ReqOK(req[r])
    /\ \A r, s \in Requests : r # s => Apart(req[r], req[s])
    /\ NoOrphans
    /\ InvitedAreFinished

LEMMA StateNames ==
    /\ Creating \subseteq Awaits /\ Checking \subseteq Awaits
    /\ Creating \cap Checking = {}
    /\ {"idle", "signUp", "editable", "edit", "deleteRow", "findProfile"} \subseteq Awaits
    /\ {"idle", "signUp", "editable", "edit", "deleteRow", "findProfile"}
          \cap (Creating \cup Checking) = {}
    /\ Creating = {"insert", "link", "cleanup"}
    /\ Checking = {"isTargetAdmin", "isCallerAdmin", "delete"}
  BY DEF Creating, Checking, Awaits, Transactions

-------------------------------------------------------------------------------
(* The requests that do not move *)

\* What the step of another request leaves of s.
Kept(s) ==
    /\ req'[s].st = req[s].st /\ req'[s].user = req[s].user
    /\ req'[s].emp = req[s].emp /\ req'[s].caller = req[s].caller
    /\ req[s].since \subseteq req'[s].since
    /\ req[s].st \in {"delete", "edit"}
       /\ (req[s].user \in admins' \ admins \/ req[s].caller \in admins \ admins')
       => "role" \in req'[s].since
    /\ req[s].st \in Checking /\ req[s].emp = None
       /\ (\E e \in Employees : link'[e] = req[s].user /\ link[e] # req[s].user)
       => "link" \in req'[s].since

\* Nobody takes from s the employee that it holds.
Undisturbed(s) ==
    req[s].st \in Checking /\ req[s].emp # None
    => req[s].emp \in rows' /\ link'[req[s].emp] = link[req[s].emp]

LEMMA MarkedFields ==
    ASSUME NEW q \in ReqType
    PROVE
    /\ Marked(q) \in ReqType
    /\ Marked(q).st = q.st /\ Marked(q).user = q.user
    /\ Marked(q).emp = q.emp /\ Marked(q).caller = q.caller
    /\ Marked(q).since = q.since \cup Changed(q)
  <1>1. Changed(q) \subseteq {"role", "link"}
    BY DEF Changed
  <1>2. q.since \cup Changed(q) \in SUBSET {"role", "link"}
    BY <1>1 DEF ReqType
  <1>3. QED
    BY <1>2 DEF Marked, ReqType

LEMMA MarkedIsKept ==
    ASSUME req \in [Requests -> ReqType], NEW s \in Requests, req'[s] = Marked(req[s])
    PROVE  Kept(s) /\ req'[s] \in ReqType
  <1>1. req[s] \in ReqType
    OBVIOUS
  <1>2. /\ req[s].st \in {"delete", "edit"}
           /\ (req[s].user \in admins' \ admins \/ req[s].caller \in admins \ admins')
           => "role" \in Changed(req[s])
        /\ req[s].st \in Checking /\ req[s].emp = None
           /\ (\E e \in Employees : link'[e] = req[s].user /\ link[e] # req[s].user)
           => "link" \in Changed(req[s])
    BY Zenon DEF Changed
  <1>3. QED
    BY <1>1, <1>2, MarkedFields DEF Kept

LEMMA GoesMoves ==
    ASSUME req \in [Requests -> ReqType], NEW r \in Requests, NEW q \in ReqType, Goes(r, q)
    PROVE  /\ req' \in [Requests -> ReqType] /\ req'[r] = q
           /\ \A s \in Requests \ {r} : Kept(s)
  <1>1. /\ req' = [s \in Requests |-> IF s = r THEN q ELSE Marked(req[s])]
        /\ req'[r] = q
        /\ \A s \in Requests \ {r} : req'[s] = Marked(req[s])
    BY DEF Goes
  <1>2. \A s \in Requests \ {r} : Kept(s) /\ req'[s] \in ReqType
    BY <1>1, MarkedIsKept
  <1>3. QED
    BY <1>1, <1>2

LEMMA OthersMove ==
    ASSUME req \in [Requests -> ReqType], Others
    PROVE  req' \in [Requests -> ReqType] /\ \A s \in Requests : Kept(s)
  <1>1. /\ req' = [s \in Requests |-> Marked(req[s])]
        /\ \A s \in Requests : req'[s] = Marked(req[s])
    BY DEF Others
  <1>2. \A s \in Requests : Kept(s) /\ req'[s] \in ReqType
    BY <1>1, MarkedIsKept
  <1>3. QED
    BY <1>1, <1>2

\* A request that keeps its fields, and its employee, still knows what is so.
LEMMA KeptIsOK ==
    ASSUME IInv, TablesOK', born \subseteq born', NEW s \in Requests, Kept(s), Undisturbed(s)
    PROVE  ReqOK(req[s])'
  <1>1. ReqOK(req[s]) /\ req[s] \in ReqType
    BY DEF IInv
  <1>2. req'[s].st \in Creating => req'[s].user \in Users \cap born'
    BY <1>1 DEF Kept, ReqOK
  <1>3. ASSUME req'[s].st \in Checking
        PROVE  req'[s].user \in Users /\ EntitledToDelete(req[s])'
    <2>1. req[s].st \in Checking /\ req[s].user \in Users /\ EntitledToDelete(req[s])
      BY <1>1, <1>3 DEF Kept, ReqOK
    <2>2. req'[s].user # req'[s].caller
      BY <2>1 DEF Kept, EntitledToDelete
    <2>3. req'[s].emp # None => req'[s].emp \in rows' /\ link'[req'[s].emp] = req'[s].user
      BY <2>1 DEF Kept, EntitledToDelete, Undisturbed
    <2>4. ASSUME req'[s].emp = None, NEW e \in rows', link'[e] = req'[s].user
          PROVE  "link" \in req'[s].since
      <3>1. req[s].emp = None /\ link'[e] = req[s].user /\ e \in Employees
        BY <2>4 DEF Kept, TablesOK
      <3>2. CASE link[e] # req[s].user
        BY <3>1, <3>2, <2>1 DEF Kept
      <3>3. CASE link[e] = req[s].user
        <4>1. link[e] # None
          BY <3>3, <2>1, AccountsAssumption
        <4>2. Linked(req[s].user)
          BY <3>1, <3>3, <4>1 DEF Linked, IInv, TablesOK
        <4>3. QED
          BY <4>2, <2>1, <3>1 DEF EntitledToDelete, Kept
      <3>4. QED
        BY <3>2, <3>3
    <2>5. ASSUME req'[s].st = "delete", req'[s].user \in admins'
          PROVE  req'[s].caller \in admins' \/ "role" \in req'[s].since
      BY <2>1, <2>5 DEF Kept, EntitledToDelete
    <2>6. QED
      BY <2>1, <2>2, <2>3, <2>4, <2>5 DEF EntitledToDelete, Linked, Kept
  <1>4. req'[s].st = "findProfile" => req'[s].user # req'[s].caller /\ req'[s].emp = None
    BY <1>1 DEF Kept, ReqOK
  <1>5. req'[s].st = "edit" /\ req'[s].user \in admins' => "role" \in req'[s].since
    BY <1>1 DEF Kept, ReqOK
  <1>6. QED
    BY <1>2, <1>3, <1>4, <1>5 DEF ReqOK

\* A step of the requests R, and what it has to show.
LEMMA Keeps ==
    ASSUME IInv, NEW R \in SUBSET Requests,
           req' \in [Requests -> ReqType], TablesOK', born \subseteq born',
           \A s \in Requests \ R : Kept(s) /\ Undisturbed(s),
           \A r \in R : ReqOK(req[r])',
           \A r \in R, s \in Requests : r # s => Apart(req[r], req[s])',
           NoOrphans', InvitedAreFinished'
    PROVE  IInv'
  <1>1. \A r \in Requests : ReqOK(req[r])'
    BY KeptIsOK
  <1>2. ASSUME NEW r \in Requests, NEW s \in Requests, r # s
        PROVE  Apart(req[r], req[s])'
    <2>1. CASE r \in R
      BY <2>1, <1>2
    <2>2. CASE s \in R
      <3>1. Apart(req[s], req[r])'
        BY <2>2, <1>2
      <3>2. QED
        BY <3>1 DEF Apart
    <2>3. CASE r \notin R /\ s \notin R
      <3>1. Kept(r) /\ Kept(s) /\ Apart(req[r], req[s])
        BY <2>3, <1>2 DEF IInv
      <3>2. QED
        BY <3>1 DEF Kept, Apart
    <2>4. QED
      BY <2>1, <2>2, <2>3
  <1>3. QED
    BY <1>1, <1>2 DEF IInv

\* Who is held after a step of r that goes on with q.
LEMMA HeldMoves ==
    ASSUME req \in [Requests -> ReqType], NEW r \in Requests, NEW q \in ReqType, Goes(r, q),
           NEW u
    PROVE  Held(u)' <=> \/ q.st \in Creating /\ q.user = u
                        \/ \E s \in Requests \ {r} : req[s].st \in Creating /\ req[s].user = u
  <1>1. req'[r] = q /\ \A s \in Requests \ {r} : Kept(s)
    BY GoesMoves
  <1>2. QED
    BY <1>1 DEF Held, Kept

LEMMA HeldByOthers ==
    ASSUME req \in [Requests -> ReqType], Others, NEW u
    PROVE  Held(u)' <=> Held(u)
  BY OthersMove DEF Held, Kept

\* A step of r that goes on with q.
LEMMA Moving ==
    ASSUME IInv, NEW r \in Requests, NEW q \in ReqType, Goes(r, q),
           TablesOK', born \subseteq born',
           \A s \in Requests \ {r} : Undisturbed(s) /\ Apart(q, req[s]),
           ReqOK(req[r])', NoOrphans', InvitedAreFinished'
    PROVE  IInv'
  <1>1. /\ req' \in [Requests -> ReqType] /\ req'[r] = q
        /\ \A s \in Requests \ {r} : Kept(s)
    BY GoesMoves DEF IInv
  <1>2. ASSUME NEW s \in Requests, r # s
        PROVE  Apart(req[r], req[s])'
    <2>1. Kept(s) /\ Apart(q, req[s])
      BY <1>1, <1>2
    <2>2. QED
      BY <1>1, <2>1 DEF Apart, Kept
  <1>3. {r} \in SUBSET Requests
    OBVIOUS
  <1>4. \A s \in Requests \ {r} : Kept(s) /\ Undisturbed(s)
    BY <1>1
  <1>5. \A s \in {r} : ReqOK(req[s])'
    OBVIOUS
  <1>6. \A p \in {r}, s \in Requests : p # s => Apart(req[p], req[s])'
    BY <1>2
  <1>7. QED
    BY <1>1, <1>3, <1>4, <1>5, <1>6, Keeps

\* A step that only others take note of.
LEMMA Unmoved ==
    ASSUME IInv, Others \/ UNCHANGED <<req, admins, link>>, TablesOK', born \subseteq born',
           \A s \in Requests : Undisturbed(s),
           NoOrphans', InvitedAreFinished'
    PROVE  IInv'
  <1>1. req \in [Requests -> ReqType]
    BY DEF IInv
  <1>2. req' \in [Requests -> ReqType] /\ \A s \in Requests : Kept(s)
    <2>1. CASE Others
      BY <1>1, <2>1, OthersMove
    <2>2. CASE UNCHANGED <<req, admins, link>>
      BY <1>1, <2>2 DEF Kept
    <2>3. QED
      BY <2>1, <2>2
  <1>3. QED
    BY <1>2, Keeps, {} \in SUBSET Requests

-------------------------------------------------------------------------------
(* Steps that leave the tables alone *)

\* r reads: it holds afterwards only what it held, or an employee that nobody holds.
LEMMA Reading ==
    ASSUME IInv, NEW r \in Requests, NEW q \in ReqType, Goes(r, q),
           UNCHANGED <<tables, queue, bare>>, ReqOK(q),
           req[r].st \in Creating \/ q.st \in Creating
               => req[r].st \in Creating /\ q.st \in Creating /\ q.user = req[r].user,
           q.st \in Checking /\ q.emp # None
               => ~Locked(q.emp) \/ (req[r].st \in Checking /\ req[r].emp = q.emp)
    PROVE  IInv'
  <1>1. /\ req \in [Requests -> ReqType] /\ TablesOK /\ NoOrphans /\ InvitedAreFinished
        /\ \A s \in Requests : ReqOK(req[s])
        /\ \A s, t \in Requests : s # t => Apart(req[s], req[t])
    BY DEF IInv
  <1>2. TablesOK' /\ born \subseteq born'
    BY <1>1 DEF TablesOK, tables
  <1>3. ASSUME NEW s \in Requests \ {r}
        PROVE  Undisturbed(s) /\ Apart(q, req[s])
    <2>1. Undisturbed(s)
      BY <1>1 DEF Undisturbed, ReqOK, EntitledToDelete, tables
    <2>2. Apart(req[r], req[s])
      BY <1>1
    <2>3. q.st \in Checking /\ req[s].st \in Checking /\ q.emp = req[s].emp => q.emp = None
      BY <2>2 DEF Locked, Apart
    <2>4. q.st \in Creating /\ req[s].st \in Creating => q.user # req[s].user
      BY <2>2 DEF Apart
    <2>5. QED
      BY <2>1, <2>3, <2>4 DEF Apart
  <1>4. req'[r] = q
    BY <1>1, GoesMoves
  <1>5. ReqOK(req[r])'
    BY <1>4 DEF ReqOK, EntitledToDelete, Linked, tables
  <1>6. \A u : Held(u)' <=> Held(u)
    <2>1. ASSUME NEW u
          PROVE  Held(u)' <=> Held(u)
      <3>1. Held(u)' <=> \/ q.st \in Creating /\ q.user = u
                         \/ \E s \in Requests \ {r} : req[s].st \in Creating /\ req[s].user = u
        BY <1>1, HeldMoves
      <3>2. QED
        BY <3>1 DEF Held
    <2>2. QED
      BY <2>1
  <1>7. NoOrphans' /\ InvitedAreFinished'
    BY <1>1, <1>6 DEF NoOrphans, InvitedAreFinished, Linked, tables
  <1>8. QED
    BY <1>2, <1>3, <1>5, <1>7, Moving

\* r has answered.
LEMMA IdleIsOK ==
    /\ Idle \in ReqType /\ Idle.st = "idle"
    /\ ReqOK(Idle)
    /\ \A q : Apart(Idle, q)
  <1>1. Idle \in ReqType /\ Idle.st = "idle"
    BY StateNames DEF Idle, ReqType
  <1>2. Idle.st \notin Creating \cup Checking
    BY <1>1, StateNames
  <1>3. QED
    BY <1>1, <1>2 DEF ReqOK, Apart

LEMMA ThrowsStep ==
    ASSUME IInv, NEW r \in Requests, req[r].st \notin Creating, Throws(r)
    PROVE  IInv'
  <1>1. Idle.st \notin Creating \cup Checking
    BY IdleIsOK, StateNames
  <1>2. QED
    BY <1>1, IdleIsOK, Reading DEF Throws

\* The requests that arrive have checked nothing yet.
LEMMA ArriveStep ==
    ASSUME IInv, NEW r \in Requests, Arrive(r)
    PROVE  IInv'
  <1>1. Idle \in ReqType /\ req[r].st \notin Creating
    <2>1. req[r].st = "idle"
      BY DEF Arrive, CreateEmployeeWithUser, CreateAccountForEmployee, DeleteEmployee,
             DeleteUserAccount, UpdateManagedUser
    <2>2. QED
      BY <2>1, IdleIsOK, StateNames
  <1>2. ASSUME NEW q \in ReqType, Goes(r, q), UNCHANGED <<tables, queue, bare>>,
               q.st \in {"signUp", "deleteRow", "findProfile", "editable"},
               q.st = "findProfile" => q.user # q.caller /\ q.emp = None
        PROVE  IInv'
    <2>1. q.st \notin Creating \cup Checking /\ q.st # "edit"
      BY <1>2, StateNames
    <2>2. ReqOK(q)
      BY <1>2, <2>1 DEF ReqOK
    <2>3. QED
      BY <1>1, <1>2, <2>1, <2>2, Reading
  <1>3. CASE CreateEmployeeWithUser(r)
    <2>1. [Idle EXCEPT !.st = "signUp"] \in ReqType
      BY StateNames DEF Idle, ReqType
    <2>2. [Idle EXCEPT !.st = "signUp"].st = "signUp"
      BY DEF Idle
    <2>3. QED
      BY <1>2, <1>3, <2>1, <2>2 DEF CreateEmployeeWithUser
  <1>4. ASSUME NEW e \in Employees, CreateAccountForEmployee(r, e)
        PROVE  IInv'
    <2>1. [Idle EXCEPT !.st = "signUp", !.emp = e] \in ReqType
      BY StateNames DEF Idle, ReqType
    <2>2. [Idle EXCEPT !.st = "signUp", !.emp = e].st = "signUp"
      BY DEF Idle
    <2>3. QED
      BY <1>2, <1>4, <2>1, <2>2 DEF CreateAccountForEmployee
  <1>5. ASSUME NEW e \in Employees, NEW c \in Users, DeleteEmployee(r, e, c)
        PROVE  IInv'
    <2>1. [Idle EXCEPT !.st = "deleteRow", !.emp = e, !.caller = c] \in ReqType
      BY StateNames DEF Idle, ReqType
    <2>2. [Idle EXCEPT !.st = "deleteRow", !.emp = e, !.caller = c].st = "deleteRow"
      BY DEF Idle
    <2>3. QED
      BY <1>2, <1>5, <2>1, <2>2 DEF DeleteEmployee
  <1>6. ASSUME NEW u \in Users, NEW c \in Users, DeleteUserAccount(r, u, c)
        PROVE  IInv'
    <2> DEFINE q == [Idle EXCEPT !.st = "findProfile", !.user = u, !.caller = c]
    <2>1. q \in ReqType
      BY StateNames DEF Idle, ReqType
    <2>2. q.st = "findProfile" /\ q.user = u /\ q.caller = c /\ q.emp = None
      BY DEF Idle
    <2>3. u # c /\ Goes(r, q) /\ UNCHANGED <<tables, queue, bare>>
      BY <1>6 DEF DeleteUserAccount
    <2>4. QED
      BY <1>2, <2>1, <2>2, <2>3
  <1>7. ASSUME NEW u \in Users, UpdateManagedUser(r, u)
        PROVE  IInv'
    <2>1. [Idle EXCEPT !.st = "editable", !.user = u] \in ReqType
      BY StateNames DEF Idle, ReqType
    <2>2. [Idle EXCEPT !.st = "editable", !.user = u].st = "editable"
      BY DEF Idle
    <2>3. QED
      BY <1>2, <1>7, <2>1, <2>2 DEF UpdateManagedUser
  <1>8. QED
    BY <1>3, <1>4, <1>5, <1>6, <1>7 DEF Arrive

\* The next of the checks of a deletion, or of an edit.
LEMMA ReadsOn ==
    ASSUME IInv, NEW r \in Requests, NEW st \in Checking \cup {"edit"}, Reads(r, st),
           req[r].st \notin Creating,
           st \in Checking => /\ req[r].user \in Users
                              /\ EntitledToDelete([req[r] EXCEPT !.st = st])
                              /\ req[r].emp # None => req[r].st \in Checking,
           st = "edit" => req[r].user \notin admins
    PROVE  IInv'
  <1> DEFINE q == [req[r] EXCEPT !.st = st]
  <1>1. req[r] \in ReqType
    BY DEF IInv
  <1>2. /\ q \in ReqType /\ q.st = st /\ q.user = req[r].user /\ q.emp = req[r].emp
        /\ q.caller = req[r].caller /\ q.since = req[r].since
    BY <1>1, StateNames DEF ReqType
  <1>3. st \notin Creating /\ st # "findProfile" /\ (st = "edit" => st \notin Checking)
    BY StateNames
  <1>4. ReqOK(q)
    <2>1. q.st \in Checking => q.user \in Users /\ EntitledToDelete(q)
      BY <1>2
    <2>2. QED
      BY <1>2, <1>3, <2>1 DEF ReqOK
  <1>5. Goes(r, q) /\ UNCHANGED <<tables, queue, bare>>
    BY DEF Reads
  <1>6. QED
    BY <1>2, <1>3, <1>4, <1>5, Reading

LEMMA ReadStep ==
    ASSUME IInv, NEW r \in Requests,
           \/ SignUpFails(r) \/ FindProfile(r) \/ IsTargetAdmin(r) \/ IsCallerAdmin(r)
           \/ AssertUserEditable(r) \/ Edit(r)
    PROVE  IInv'
  <1>1. req[r] \in ReqType /\ ReqOK(req[r]) /\ req[r].st \notin Creating
    BY StateNames DEF IInv, SignUpFails, FindProfile, IsTargetAdmin, IsCallerAdmin,
                      AssertUserEditable, Edit
  <1>2. CASE Throws(r)
    BY <1>1, <1>2, ThrowsStep
  <1>3. ASSUME NEW st \in Awaits
        PROVE  /\ [req[r] EXCEPT !.st = st].st = st
               /\ [req[r] EXCEPT !.st = st].user = req[r].user
               /\ [req[r] EXCEPT !.st = st].emp = req[r].emp
               /\ [req[r] EXCEPT !.st = st].caller = req[r].caller
               /\ [req[r] EXCEPT !.st = st].since = req[r].since
    BY <1>1 DEF ReqType
  <1>4. CASE FindProfile(r) /\ ~Throws(r)
    <2>1. /\ req[r].st = "findProfile" /\ req[r].user \in accounts
          /\ ~Linked(req[r].user) /\ Reads(r, "isTargetAdmin")
      BY <1>4 DEF FindProfile
    <2>2. req[r].user # req[r].caller /\ req[r].emp = None /\ req[r].user \in Users
      BY <1>1, <2>1 DEF ReqOK, IInv, TablesOK
    <2>3. EntitledToDelete([req[r] EXCEPT !.st = "isTargetAdmin"])
      BY <1>3, <2>1, <2>2, StateNames DEF EntitledToDelete
    <2>4. QED
      BY <1>1, <2>1, <2>2, <2>3, ReadsOn, StateNames
  <1>5. CASE IsTargetAdmin(r) /\ ~Throws(r)
    <2>1. req[r].st = "isTargetAdmin" /\ req[r].st \in Checking
      BY <1>5, StateNames DEF IsTargetAdmin
    <2>2. req[r].user \in Users /\ EntitledToDelete(req[r])
      BY <1>1, <2>1 DEF ReqOK
    <2>3. CASE req[r].user \in admins
      <3>1. Reads(r, "isCallerAdmin")
        BY <1>5, <2>3 DEF IsTargetAdmin
      <3>2. EntitledToDelete([req[r] EXCEPT !.st = "isCallerAdmin"])
        BY <1>3, <2>2, StateNames DEF EntitledToDelete
      <3>3. QED
        BY <1>1, <2>1, <2>2, <3>1, <3>2, ReadsOn, StateNames
    <2>4. CASE req[r].user \notin admins
      <3>1. Reads(r, "delete")
        BY <1>5, <2>4 DEF IsTargetAdmin
      <3>2. EntitledToDelete([req[r] EXCEPT !.st = "delete"])
        BY <1>3, <2>2, <2>4, StateNames DEF EntitledToDelete
      <3>3. QED
        BY <1>1, <2>1, <2>2, <3>1, <3>2, ReadsOn, StateNames
    <2>5. QED
      BY <2>3, <2>4
  <1>6. CASE IsCallerAdmin(r) /\ ~Throws(r)
    <2>1. /\ req[r].st = "isCallerAdmin" /\ req[r].st \in Checking
          /\ req[r].caller \in admins /\ Reads(r, "delete")
      BY <1>6, StateNames DEF IsCallerAdmin
    <2>2. req[r].user \in Users /\ EntitledToDelete(req[r])
      BY <1>1, <2>1 DEF ReqOK
    <2>3. EntitledToDelete([req[r] EXCEPT !.st = "delete"])
      BY <1>3, <2>1, <2>2, StateNames DEF EntitledToDelete
    <2>4. QED
      BY <1>1, <2>1, <2>2, <2>3, ReadsOn, StateNames
  <1>7. CASE AssertUserEditable(r) /\ ~Throws(r)
    <2>1. Reads(r, "edit") /\ req[r].user \notin admins
      BY <1>7 DEF AssertUserEditable
    <2>2. "edit" \notin Checking
      BY StateNames
    <2>3. QED
      BY <1>1, <2>1, <2>2, ReadsOn
  <1>8. QED
    BY <1>2, <1>4, <1>5, <1>6, <1>7 DEF SignUpFails, Edit

-------------------------------------------------------------------------------
(* Steps that write *)

\* What IInv says, for the lemmas below.
LEMMA Known ==
    ASSUME IInv
    PROVE  /\ TablesOK /\ req \in [Requests -> ReqType]
           /\ NoOrphans /\ InvitedAreFinished
           /\ \A s \in Requests : req[s] \in ReqType /\ ReqOK(req[s])
           /\ \A s, t \in Requests : s # t => Apart(req[s], req[t])
           /\ \A s \in Requests : req[s].st \in Checking /\ req[s].emp # None =>
                 /\ req[s].emp \in rows /\ link[req[s].emp] = req[s].user
                 /\ Locked(req[s].emp)
  BY DEF IInv, ReqOK, EntitledToDelete, Locked

\* A step that leaves the employees that others hold, and their accounts, alone.
LEMMA LeftAlone ==
    ASSUME IInv, NEW s \in Requests,
           \A e \in rows : Locked(e) => e \in rows' /\ link'[e] = link[e]
    PROVE  Undisturbed(s)
  BY Known DEF Undisturbed

LEMMA SignUpEmailStep ==
    ASSUME IInv, NEW r \in Requests, NEW u \in Users, SignUpEmail(r, u)
    PROVE  IInv'
  <1>1. /\ req[r].st = "signUp" /\ u \notin born
        /\ born' = born \cup {u} /\ accounts' = accounts \cup {u}
        /\ admins' = admins /\ rows' = rows /\ link' = link /\ queue' = queue
    BY DEF SignUpEmail
  <1>2. req[r] \in ReqType /\ u # None
    BY Known, AccountsAssumption
  <1>3. req[r].st \notin Creating
    BY <1>1, StateNames
  <1> DEFINE q == [req[r] EXCEPT !.st = IF req[r].emp = None THEN "insert" ELSE "link",
                                 !.user = u]
  <1>4. PICK q0 \in ReqType :
           /\ Goes(r, q0)
           /\ \/ q0.st \in Creating /\ q0.user = u /\ bare' = bare
              \/ q0 = Idle /\ bare' = bare \cup {u}
    <2>1. CASE Goes(r, q) /\ UNCHANGED bare
      <3>1. (IF req[r].emp = None THEN "insert" ELSE "link") \in Creating
        BY StateNames
      <3>2. q \in ReqType /\ q.st \in Creating /\ q.user = u
        BY <1>2, <3>1, StateNames DEF ReqType
      <3>3. QED
        BY <2>1, <3>2
    <2>2. CASE Goes(r, Idle) /\ bare' = bare \cup {u}
      BY <2>2, IdleIsOK
    <2>3. QED
      BY <2>1, <2>2 DEF SignUpEmail
  <1>5. TablesOK' /\ born \subseteq born'
    BY <1>1, <1>4, Known DEF TablesOK
  <1>6. q0.st \notin Checking /\ q0.st \notin {"findProfile", "edit"}
    BY <1>4, IdleIsOK, StateNames
  <1>7. ASSUME NEW s \in Requests \ {r}
        PROVE  Undisturbed(s) /\ Apart(q0, req[s])
    <2>1. req[s].st \in Creating => req[s].user # u
      BY <1>1, Known DEF ReqOK
    <2>2. q0.st \in Creating => q0.user = u
      BY <1>4, IdleIsOK, StateNames
    <2>3. QED
      BY <1>1, <1>6, <2>1, <2>2, LeftAlone DEF Apart
  <1>8. ReqOK(req[r])'
    <2>1. req'[r] = q0
      BY <1>4, GoesMoves, Known
    <2>2. q0.st \in Creating => q0.user \in Users \cap born'
      BY <1>1, <1>4, IdleIsOK, StateNames
    <2>3. QED
      BY <1>6, <2>1, <2>2 DEF ReqOK
  <1>9. ASSUME NEW v
        PROVE  /\ v # u => (Held(v)' <=> Held(v))
               /\ u = v => (Held(v)' \/ v \in bare')
    <2>1. Held(v)' <=> \/ q0.st \in Creating /\ q0.user = v
                       \/ \E s \in Requests \ {r} : req[s].st \in Creating /\ req[s].user = v
      BY <1>4, HeldMoves, Known
    <2>2. QED
      BY <2>1, <1>3, <1>4, IdleIsOK, StateNames DEF Held
  <1>10. NoOrphans'
    <2>1. SUFFICES ASSUME NEW v \in accounts'
                   PROVE  Linked(v)' \/ Held(v)' \/ v \in bare'
      BY DEF NoOrphans
    <2>2. CASE v = u
      BY <2>2, <1>9
    <2>3. CASE v # u
      <3>1. Linked(v) \/ Held(v) \/ v \in bare
        BY <1>1, <2>3, Known DEF NoOrphans
      <3>2. QED
        BY <3>1, <2>3, <1>1, <1>4, <1>9 DEF Linked
    <2>4. QED
      BY <2>2, <2>3
  <1>11. InvitedAreFinished'
    <2>1. \A i \in DOMAIN queue : queue[i] # u /\ ~Held(queue[i])
      BY <1>1, Known DEF TablesOK, InvitedAreFinished
    <2>2. QED
      BY <2>1, <1>1, <1>9 DEF InvitedAreFinished
  <1>12. QED
    BY <1>4, <1>5, <1>7, <1>8, <1>10, <1>11, Moving

\* The response of a creation, or its catch, once the account is its employee's.
LEMMA CreatedOrCaught ==
    ASSUME IInv, NEW r \in Requests, req[r].st \in Creating,
           Created(r) \/ Catches(r)
    PROVE  \E q \in ReqType :
             /\ Goes(r, q)
             /\ \/ q = Idle /\ (queue' = queue \/ queue' = Append(queue, req[r].user))
                \/ q.st \in Creating /\ q.user = req[r].user /\ queue' = queue
             /\ q.st \notin Checking /\ q.st \notin {"findProfile", "edit"}
  <1>1. CASE Created(r)
    BY <1>1, IdleIsOK, StateNames DEF Created
  <1>2. CASE Catches(r)
    <2>1. req[r] \in ReqType
      BY Known
    <2> DEFINE q == [req[r] EXCEPT !.st = "cleanup"]
    <2>2. q \in ReqType /\ q.st = "cleanup" /\ q.user = req[r].user
      BY <2>1, StateNames DEF ReqType
    <2>3. Goes(r, q) /\ queue' = queue
      BY <1>2 DEF Catches
    <2>4. q.st \in Creating /\ q.st \notin Checking /\ q.st \notin {"findProfile", "edit"}
      BY <2>2, StateNames
    <2> HIDE DEF q
    <2>5. QED
      BY <2>2, <2>3, <2>4
  <1>3. QED
    BY <1>1, <1>2

\* The end of a creation: e has the account of r and had none.
LEMMA LinkedStep ==
    ASSUME IInv, NEW r \in Requests, req[r].st \in Creating, Created(r) \/ Catches(r),
           NEW e \in Employees, SetLink(e, req[r].user), link[e] = None, ~Locked(e),
           req[r].user \in accounts, rows' = rows \cup {e}, e \in born',
           born' \in {born, born \cup {e}}, UNCHANGED <<accounts, admins>>
    PROVE  IInv'
  <1> DEFINE u == req[r].user
  <1>1. PICK q \in ReqType :
             /\ Goes(r, q)
             /\ \/ q = Idle /\ (queue' = queue \/ queue' = Append(queue, u))
                \/ q.st \in Creating /\ q.user = u /\ queue' = queue
             /\ q.st \notin Checking /\ q.st \notin {"findProfile", "edit"}
    BY CreatedOrCaught
  <1>2. u \in Users \cap born /\ u # None
    BY Known, AccountsAssumption DEF ReqOK
  <1>3. /\ link' = [link EXCEPT ![e] = u] /\ bare' = bare \ {u}
        /\ link'[e] = u /\ \A f \in Employees \ {e} : link'[f] = link[f]
    BY Known DEF SetLink, TablesOK
  <1>4. queue' \in Seq(Users) /\ \A i \in DOMAIN queue' : queue'[i] \in born'
    <2>1. queue \in Seq(Users) /\ \A i \in DOMAIN queue : queue[i] \in born
      BY Known DEF TablesOK
    <2>2. QED
      BY <1>1, <1>2, <2>1
  <1>5. TablesOK' /\ born \subseteq born'
    BY <1>2, <1>3, <1>4, Known DEF TablesOK
  <1>6. ASSUME NEW s \in Requests \ {r}
        PROVE  Undisturbed(s) /\ Apart(q, req[s])
    <2>1. \A f \in rows : Locked(f) => f \in rows' /\ link'[f] = link[f]
      BY <1>3, Known DEF TablesOK
    <2>2. q.st \in Creating => q.user = u
      BY <1>1, IdleIsOK, StateNames
    <2>3. QED
      BY <1>1, <2>1, <2>2, LeftAlone, Known DEF Apart
  <1>7. ReqOK(req[r])'
    <2>1. req'[r] = q
      BY <1>1, GoesMoves, Known
    <2>2. q.st \in Creating => q.user \in Users \cap born'
      BY <1>1, <1>2, <1>5, IdleIsOK, StateNames
    <2>3. QED
      BY <1>1, <2>1, <2>2 DEF ReqOK
  <1>8. ASSUME NEW v
        PROVE  /\ v # u => (Held(v)' <=> Held(v))
               /\ Held(v)' => Held(v) /\ (v = u => queue' = queue)
    <2>1. Held(v)' <=> \/ q.st \in Creating /\ q.user = v
                       \/ \E s \in Requests \ {r} : req[s].st \in Creating /\ req[s].user = v
      BY <1>1, HeldMoves, Known
    <2>2. \A s \in Requests \ {r} : req[s].st \in Creating => req[s].user # u
      BY Known DEF Apart
    <2>3. QED
      BY <2>1, <2>2, <1>1, IdleIsOK, StateNames DEF Held
  <1>9. NoOrphans'
    <2>1. SUFFICES ASSUME NEW v \in accounts
                   PROVE  Linked(v)' \/ Held(v)' \/ v \in bare'
      BY DEF NoOrphans
    <2>2. CASE v = u
      BY <2>2, <1>3 DEF Linked
    <2>3. CASE v # u
      <3>1. Linked(v) \/ Held(v) \/ v \in bare
        BY Known DEF NoOrphans
      <3>2. ASSUME Linked(v) PROVE Linked(v)'
        <4>1. PICK f \in rows : link[f] = v
          BY <3>2 DEF Linked
        <4>2. v # None
          BY Known, AccountsAssumption DEF TablesOK
        <4>3. f \in Employees /\ f # e
          BY <4>1, <4>2, Known DEF TablesOK
        <4>4. QED
          BY <4>1, <4>3, <1>3 DEF Linked
      <3>3. QED
        BY <3>1, <3>2, <2>3, <1>3, <1>8
    <2>4. QED
      BY <2>2, <2>3
  <1>10. InvitedAreFinished'
    <2>1. SUFFICES ASSUME NEW i \in DOMAIN queue', NEW v, v = queue'[i], Held(v)'
                   PROVE  FALSE
      BY DEF InvitedAreFinished, Held
    <2>2. Held(queue'[i]) /\ (queue'[i] = u => queue' = queue)
      BY <2>1, <1>8
    <2>3. CASE queue' = queue
      BY <2>1, <2>2, <2>3, Known DEF InvitedAreFinished
    <2>4. CASE queue' = Append(queue, u) /\ queue'[i] # u
      <3>1. queue \in Seq(Users)
        BY Known DEF TablesOK
      <3>2. i \in DOMAIN queue /\ queue'[i] = queue[i]
        BY <2>1, <2>4, <3>1
      <3>3. QED
        BY <2>2, <3>2, Known DEF InvitedAreFinished
    <2>5. QED
      BY <2>2, <2>3, <2>4, <1>1
  <1>11. QED
    BY <1>1, <1>5, <1>6, <1>7, <1>9, <1>10, Moving

LEMMA CaughtStep ==
    ASSUME IInv, NEW r \in Requests, req[r].st \in Creating,
           UNCHANGED <<tables, bare>>, Catches(r)
    PROVE  IInv'
  <1> DEFINE q == [req[r] EXCEPT !.st = "cleanup"]
  <1>1. req[r] \in ReqType /\ ReqOK(req[r])
    BY Known
  <1>2. q \in ReqType /\ q.st = "cleanup" /\ q.user = req[r].user
    BY <1>1, StateNames DEF ReqType
  <1>3. Goes(r, q) /\ UNCHANGED <<tables, queue, bare>>
    BY DEF Catches
  <1>4. q.st \in Creating /\ q.st \notin Checking /\ q.st \notin {"findProfile", "edit"}
    BY <1>2, StateNames
  <1> HIDE DEF q
  <1>5. ReqOK(q)
    BY <1>1, <1>2, <1>4 DEF ReqOK
  <1>6. QED
    BY <1>2, <1>3, <1>4, <1>5, Reading

LEMMA InsertStep ==
    ASSUME IInv, NEW r \in Requests, NEW e \in Employees, Insert(r, e)
    PROVE  IInv'
  <1>1. req[r].st \in Creating
    BY StateNames DEF Insert
  <1>2. CASE UNCHANGED <<tables, bare>> /\ Catches(r)
    BY <1>1, <1>2, CaughtStep
  <1>3. CASE ~(UNCHANGED <<tables, bare>> /\ Catches(r))
    <2>1. /\ e \notin born /\ req[r].user \in accounts
          /\ born' = born \cup {e} /\ rows' = rows \cup {e}
          /\ SetLink(e, req[r].user) /\ UNCHANGED <<accounts, admins>>
          /\ Created(r) \/ Catches(r)
      BY <1>3 DEF Insert
    <2>2. e \notin rows /\ link[e] = None
      BY <2>1, Known DEF TablesOK
    <2>3. ~Locked(e)
      BY <2>2, Known, AccountsAssumption DEF Locked
    <2>4. QED
      BY <1>1, <2>1, <2>2, <2>3, LinkedStep
  <1>4. QED
    BY <1>2, <1>3

LEMMA LinkNewAccountStep ==
    ASSUME IInv, NEW r \in Requests, LinkNewAccount(r)
    PROVE  IInv'
  <1>1. req[r].st \in Creating
    BY StateNames DEF LinkNewAccount
  <1>2. CASE UNCHANGED <<tables, bare>> /\ Catches(r)
    BY <1>1, <1>2, CaughtStep
  <1>3. CASE ~(UNCHANGED <<tables, bare>> /\ Catches(r))
    <2>1. /\ req[r].emp \in rows /\ req[r].user \in accounts
          /\ ~Locked(req[r].emp) /\ link[req[r].emp] = None
          /\ SetLink(req[r].emp, req[r].user) /\ UNCHANGED <<born, accounts, admins, rows>>
          /\ Created(r) \/ Catches(r)
      BY <1>3 DEF LinkNewAccount
    <2>2. /\ req[r].emp \in Employees /\ req[r].emp \in born'
          /\ rows' = rows \cup {req[r].emp}
      BY <2>1, Known DEF TablesOK
    <2>3. QED
      BY <1>1, <2>1, <2>2, LinkedStep
  <1>4. QED
    BY <1>2, <1>3

\* A request answers after it has deleted an account, employees, or nothing.
LEMMA Deleting ==
    ASSUME IInv, NEW r \in Requests, Goes(r, Idle), queue' = queue,
           TablesOK', born' = born,
           \A e \in rows : Locked(e) /\ (req[r].st \in Checking => e # req[r].emp)
               => e \in rows' /\ link'[e] = link[e],
           accounts' \subseteq accounts,
           \A v \in accounts' : Linked(v) => Linked(v)' \/ v \in bare',
           \A v \in accounts' \cap bare : v \in bare',
           \A v \in accounts' : req[r].st \in Creating /\ req[r].user = v
               => Linked(v)' \/ v \in bare'
    PROVE  IInv'
  <1>1. ASSUME NEW s \in Requests \ {r}
        PROVE  Undisturbed(s) /\ Apart(Idle, req[s])
    <2>1. Apart(req[r], req[s])
      BY Known
    <2>2. Undisturbed(s)
      BY <2>1, Known DEF Undisturbed, Apart
    <2>3. QED
      BY <2>2, IdleIsOK
  <1>2. ReqOK(req[r])'
    <2>1. req'[r] = Idle /\ Idle.st = "idle"
      BY GoesMoves, Known, IdleIsOK
    <2>2. Idle.st \notin Creating /\ Idle.st \notin Checking
      BY <2>1, StateNames
    <2>3. QED
      BY <2>1, <2>2 DEF ReqOK
  <1>3. ASSUME NEW v
        PROVE  /\ Held(v)' => Held(v)
               /\ Held(v) => Held(v)' \/ (req[r].st \in Creating /\ req[r].user = v)
    <2>1. Held(v)' <=> \/ Idle.st \in Creating /\ Idle.user = v
                       \/ \E s \in Requests \ {r} : req[s].st \in Creating /\ req[s].user = v
      BY HeldMoves, Known, IdleIsOK
    <2>2. QED
      BY <2>1, IdleIsOK, StateNames DEF Held
  <1>4. NoOrphans'
    <2>1. SUFFICES ASSUME NEW v \in accounts'
                   PROVE  Linked(v)' \/ Held(v)' \/ v \in bare'
      BY DEF NoOrphans
    <2>2. Linked(v) \/ Held(v) \/ v \in bare
      BY Known DEF NoOrphans
    <2>3. QED
      BY <2>2, <1>3
  <1>5. InvitedAreFinished'
    BY <1>3, Known DEF InvitedAreFinished
  <1>6. QED
    BY <1>1, <1>2, <1>4, <1>5, Moving, IdleIsOK

\* DeleteUser(u, es), where the employees es have the account u or none.
LEMMA DeleteUserEffect ==
    ASSUME IInv, NEW u \in Users, NEW es \in SUBSET Employees, DeleteUser(u, es),
           queue' = queue, \A e \in es : link[e] \in {u, None}
    PROVE  /\ TablesOK' /\ born' = born /\ accounts' = accounts \ {u}
           /\ bare' = bare \ {u} /\ rows' = rows \ es
           /\ \A e \in Employees \ es : link[e] # u => link'[e] = link[e]
           /\ \A v \in accounts' : Linked(v) => Linked(v)'
  <1>1. /\ accounts' = accounts \ {u} /\ admins' = admins \ {u} /\ bare' = bare \ {u}
        /\ rows' = rows \ es /\ born' = born
        /\ link' = [e \in Employees |-> IF link[e] = u \/ e \in es THEN None ELSE link[e]]
    BY DEF DeleteUser
  <1>2. TablesOK
    BY Known
  <1>3. TablesOK'
    BY <1>1, <1>2 DEF TablesOK
  <1>4. \A e \in Employees \ es : link[e] # u => link'[e] = link[e]
    BY <1>1
  <1>5. ASSUME NEW v \in accounts', Linked(v)
        PROVE  Linked(v)'
    <2>1. PICK e \in rows : link[e] = v
      BY <1>5 DEF Linked
    <2>2. v # u /\ v # None
      BY <1>1, <1>2, AccountsAssumption DEF TablesOK
    <2>3. e \notin es /\ e \in Employees
      BY <2>1, <2>2, <1>2 DEF TablesOK
    <2>4. QED
      BY <2>1, <2>2, <2>3, <1>1, <1>4 DEF Linked
  <1>6. QED
    BY <1>1, <1>3, <1>4, <1>5

LEMMA CleanupStep ==
    ASSUME IInv, NEW r \in Requests, Cleanup(r)
    PROVE  IInv'
  <1>1. req[r].st \in Creating /\ req[r].st \notin Checking /\ queue' = queue
    BY StateNames DEF Cleanup
  <1>2. req[r].user \in Users
    BY <1>1, Known DEF ReqOK
  <1>3. CASE ~LinkLocked(req[r].user) /\ DeleteUser(req[r].user, {}) /\ Goes(r, Idle)
    <2>1. /\ TablesOK' /\ born' = born /\ accounts' = accounts \ {req[r].user}
          /\ bare' = bare \ {req[r].user} /\ rows' = rows \ {}
          /\ \A e \in Employees \ {} : link[e] # req[r].user => link'[e] = link[e]
          /\ \A v \in accounts' : Linked(v) => Linked(v)'
      BY <1>1, <1>2, <1>3, DeleteUserEffect, {} \in SUBSET Employees
    <2>2. \A e \in rows : Locked(e) => e \in rows' /\ link'[e] = link[e]
      BY <1>3, <2>1, Known DEF LinkLocked, TablesOK
    <2>3. QED
      BY <1>1, <1>3, <2>1, <2>2, Deleting
  <1>4. CASE /\ bare' = bare \cup {u \in accounts : u = req[r].user /\ ~Linked(u)}
             /\ UNCHANGED tables /\ Goes(r, Idle)
    <2>1. TablesOK' /\ born' = born /\ accounts' = accounts /\ rows' = rows /\ link' = link
      BY <1>1, <1>4, Known DEF TablesOK, tables
    <2>2. \A v : Linked(v)' <=> Linked(v)
      BY <2>1 DEF Linked
    <2>3. QED
      BY <1>1, <1>4, <2>1, <2>2, Deleting
  <1>5. QED
    BY <1>3, <1>4 DEF Cleanup

LEMMA DeleteRowStep ==
    ASSUME IInv, NEW r \in Requests, DeleteRow(r)
    PROVE  IInv'
  <1> DEFINE e == req[r].emp
  <1>1. req[r].st = "deleteRow" /\ queue' = queue /\ bare' = bare
    BY DEF DeleteRow
  <1>2. req[r].st \notin Creating /\ req[r].st \notin Checking /\ req[r] \in ReqType
    BY <1>1, StateNames, Known
  <1>3. CASE /\ ~Locked(e) /\ e \in rows /\ link[e] = None
             /\ rows' = rows \ {e}
             /\ UNCHANGED <<born, accounts, admins, link>> /\ Goes(r, Idle)
    <2>1. TablesOK'
      BY <1>1, <1>3, Known DEF TablesOK
    <2>2. ASSUME NEW v \in accounts', Linked(v)
          PROVE  Linked(v)'
      <3>1. v # None
        BY <1>3, Known, AccountsAssumption DEF TablesOK
      <3>2. QED
        BY <2>2, <3>1, <1>3 DEF Linked
    <2>3. QED
      BY <1>1, <1>2, <1>3, <2>1, <2>2, Deleting
  <1>4. CASE /\ ~Locked(e) /\ e \in rows /\ link[e] \notin {None, req[r].caller}
             /\ UNCHANGED tables
             /\ Goes(r, [req[r] EXCEPT !.st = "isTargetAdmin", !.user = link[e]])
    <2> DEFINE q == [req[r] EXCEPT !.st = "isTargetAdmin", !.user = link[e]]
    <2>1. e \in Employees /\ link[e] \in Users
      BY <1>4, Known DEF TablesOK
    <2>2. /\ q \in ReqType /\ q.st = "isTargetAdmin" /\ q.user = link[e] /\ q.emp = e
          /\ q.caller = req[r].caller
      BY <1>2, <2>1, StateNames DEF ReqType
    <2>3. Goes(r, q)
      BY <1>4
    <2> HIDE DEF q
    <2>4. q.st \in Checking /\ q.st \notin Creating /\ e # None
      BY <2>1, <2>2, StateNames, AccountsAssumption
    <2>5. ReqOK(q)
      BY <1>4, <2>1, <2>2, <2>4 DEF ReqOK, EntitledToDelete
    <2>6. QED
      BY <1>1, <1>2, <1>4, <2>2, <2>3, <2>4, <2>5, Reading
  <1>5. CASE UNCHANGED tables /\ Goes(r, Idle)
    BY <1>1, <1>2, <1>5, ThrowsStep DEF Throws
  <1>6. QED
    BY <1>3, <1>4, <1>5 DEF DeleteRow

LEMMA DeleteStep ==
    ASSUME IInv, NEW r \in Requests, Delete(r)
    PROVE  IInv'
  <1> DEFINE es == {req[r].emp} \ {None}
  <1>1. req[r].st \in Checking /\ req[r].st \notin Creating /\ queue' = queue
    BY StateNames DEF Delete
  <1>2. /\ req[r].user \in Users /\ req[r] \in ReqType
        /\ req[r].emp # None => req[r].emp \in rows /\ link[req[r].emp] = req[r].user
    BY <1>1, Known DEF ReqOK
  <1>3. CASE /\ \A e \in rows \ {req[r].emp} : link[e] = req[r].user => ~Locked(e)
             /\ DeleteUser(req[r].user, es) /\ Goes(r, Idle)
    <2>1. es \in SUBSET Employees /\ \A e \in es : link[e] \in {req[r].user, None}
      BY <1>2 DEF ReqType
    <2>2. /\ TablesOK' /\ born' = born /\ accounts' = accounts \ {req[r].user}
          /\ bare' = bare \ {req[r].user} /\ rows' = rows \ es
          /\ \A e \in Employees \ es : link[e] # req[r].user => link'[e] = link[e]
          /\ \A v \in accounts' : Linked(v) => Linked(v)'
      BY <1>1, <1>2, <1>3, <2>1, DeleteUserEffect
    <2>3. ASSUME NEW e \in rows, Locked(e), e # req[r].emp
          PROVE  e \in rows' /\ link'[e] = link[e]
      BY <1>3, <2>2, <2>3, Known DEF TablesOK
    <2>4. QED
      BY <1>1, <1>3, <2>2, <2>3, Deleting
  <1>4. CASE UNCHANGED <<tables, bare>> /\ Goes(r, Idle)
    BY <1>1, <1>4, ThrowsStep DEF Throws
  <1>5. QED
    BY <1>3, <1>4 DEF Delete

-------------------------------------------------------------------------------
(* Single statements, the queue and the process *)

\* A statement that gives out ids and leaves the queue alone.
LEMMA Giving ==
    ASSUME IInv, Others, TablesOK', born \subseteq born', queue' = queue,
           \A e \in rows : Locked(e) => e \in rows' /\ link'[e] = link[e],
           \A v \in accounts' : Linked(v)' \/ Held(v) \/ v \in bare'
    PROVE  IInv'
  <1>1. \A v : Held(v)' <=> Held(v)
    BY HeldByOthers, Known
  <1>2. NoOrphans'
    BY <1>1 DEF NoOrphans
  <1>3. InvitedAreFinished'
    BY <1>1, Known DEF InvitedAreFinished
  <1>4. QED
    BY <1>2, <1>3, LeftAlone, Unmoved

LEMMA SignUpStep ==
    ASSUME IInv, NEW u \in Users, SignUp(u)
    PROVE  IInv'
  <1>1. /\ u \notin born /\ born' = born \cup {u} /\ accounts' = accounts \cup {u}
        /\ bare' = bare \cup {u} /\ admins' = admins /\ rows' = rows /\ link' = link
        /\ queue' = queue /\ Others
    BY DEF SignUp
  <1>2. TablesOK' /\ born \subseteq born'
    BY <1>1, Known DEF TablesOK
  <1>3. \A v \in accounts' : Linked(v)' \/ Held(v) \/ v \in bare'
    BY <1>1, Known DEF NoOrphans, Linked
  <1>4. QED
    BY <1>1, <1>2, <1>3, Giving

\* e gets the account u, or none; the one it had is nobody's.
LEMMA SetLinkStep ==
    ASSUME IInv, NEW e \in Employees, NEW u, u = None \/ u \in accounts,
           SetLink(e, u), Others, ~Locked(e), rows' = rows \cup {e}, e \in born',
           born' \in {born, born \cup {e}}, UNCHANGED <<accounts, admins, queue>>
    PROVE  IInv'
  <1>1. /\ link' = [link EXCEPT ![e] = u] /\ bare' = (bare \cup ({link[e]} \ {None})) \ {u}
        /\ link'[e] = u /\ \A f \in Employees \ {e} : link'[f] = link[f]
    BY Known DEF SetLink, TablesOK
  <1>2. TablesOK' /\ born \subseteq born'
    BY <1>1, Known DEF TablesOK
  <1>3. \A f \in rows : Locked(f) => f \in rows' /\ link'[f] = link[f]
    BY <1>1, Known DEF TablesOK
  <1>4. ASSUME NEW v \in accounts'
        PROVE  Linked(v)' \/ Held(v) \/ v \in bare'
    <2>1. v # None /\ v \in accounts
      BY Known, AccountsAssumption DEF TablesOK
    <2>2. CASE v = u
      BY <2>2, <1>1 DEF Linked
    <2>3. CASE v # u
      <3>1. CASE Linked(v)
        <4>1. PICK f \in rows : link[f] = v
          BY <3>1 DEF Linked
        <4>2. CASE f = e
          BY <4>1, <4>2, <2>1, <2>3, <1>1
        <4>3. CASE f # e
          BY <4>1, <4>3, <1>1, Known DEF Linked, TablesOK
        <4>4. QED
          BY <4>2, <4>3
      <3>2. CASE ~Linked(v)
        BY <2>1, <2>3, <3>2, <1>1, Known DEF NoOrphans
      <3>3. QED
        BY <3>1, <3>2
    <2>4. QED
      BY <2>2, <2>3
  <1>5. QED
    BY <1>2, <1>3, <1>4, Giving

LEMMA EmployeeStep ==
    ASSUME IInv, NEW e \in Employees, NEW u,
           \/ u \in Users \cup {None} /\ CreateEmployee(e, u)
           \/ u \in Users /\ UpdateEmployee(e, u)
    PROVE  IInv'
  <1>1. CASE CreateEmployee(e, u)
    <2>1. e \notin born /\ e \notin rows
      BY <1>1, Known DEF CreateEmployee, TablesOK
    <2>2. ~Locked(e)
      BY <2>1, Known, AccountsAssumption DEF Locked
    <2>3. QED
      BY <1>1, <2>1, <2>2, SetLinkStep DEF CreateEmployee
  <1>2. CASE UpdateEmployee(e, u)
    <2>1. e \in born /\ rows' = rows \cup {e} /\ born' = born
      BY <1>2, Known DEF UpdateEmployee, TablesOK
    <2>2. QED
      BY <1>2, <2>1, SetLinkStep DEF UpdateEmployee
  <1>3. QED
    BY <1>1, <1>2

LEMMA ChangeAdminStep ==
    ASSUME IInv, NEW u \in Users, ChangeAdmin(u)
    PROVE  IInv'
  <1>1. /\ u \in accounts /\ Others
        /\ admins' = IF u \in admins THEN admins \ {u} ELSE admins \cup {u}
        /\ born' = born /\ accounts' = accounts /\ rows' = rows /\ link' = link
        /\ queue' = queue /\ bare' = bare
    BY DEF ChangeAdmin
  <1>2. admins' \subseteq accounts'
    BY <1>1, Known DEF TablesOK
  <1>3. TablesOK'
    BY <1>1, <1>2, Known DEF TablesOK
  <1>4. \A v \in accounts' : Linked(v)' \/ Held(v) \/ v \in bare'
    BY <1>1, Known DEF NoOrphans, Linked
  <1>5. QED
    BY <1>1, <1>3, <1>4, Giving

LEMMA SendInviteStep ==
    ASSUME IInv, SendInvite
    PROVE  IInv'
  <1>1. queue # <<>> /\ queue' = Tail(queue) /\ UNCHANGED <<tables, req, bare>>
    BY DEF SendInvite
  <1>2. queue \in Seq(Users) /\ \A i \in DOMAIN queue : queue[i] \in born
    BY Known DEF TablesOK
  <1>3. /\ queue' \in Seq(Users)
        /\ \A i \in DOMAIN queue' : i + 1 \in DOMAIN queue /\ queue'[i] = queue[i + 1]
    BY <1>1, <1>2
  <1>4. TablesOK'
    BY <1>1, <1>2, <1>3, Known DEF TablesOK, tables
  <1>5. NoOrphans'
    BY <1>1, Known DEF NoOrphans, Linked, Held, tables
  <1>6. \A v : Held(v)' <=> Held(v)
    BY <1>1 DEF Held
  <1>7. InvitedAreFinished'
    BY <1>3, <1>6, Known DEF InvitedAreFinished
  <1>8. QED
    BY <1>1, <1>4, <1>5, <1>7, LeftAlone, Unmoved DEF tables

LEMMA RestartStep ==
    ASSUME IInv, Restart
    PROVE  IInv'
  <1>1. /\ req' = [r \in Requests |-> Idle] /\ queue' = <<>> /\ UNCHANGED tables
        /\ bare' = bare \cup {u \in accounts : ~Linked(u) /\ \E r \in Requests :
                                              req[r].st \in Creating /\ req[r].user = u}
    BY DEF Restart
  <1>2. TablesOK'
    BY <1>1, Known DEF TablesOK, tables
  <1>3. /\ req' \in [Requests -> ReqType]
        /\ \A r \in Requests : req'[r] = Idle /\ Idle.st \notin Creating \cup Checking
    BY <1>1, IdleIsOK, StateNames
  <1>4. \A r \in Requests : ReqOK(req[r])'
    BY <1>3, IdleIsOK DEF ReqOK
  <1>5. \A r, s \in Requests : r # s => Apart(req[r], req[s])'
    BY <1>3 DEF Apart
  <1>6. NoOrphans'
    BY <1>1, Known DEF NoOrphans, Linked, Held, tables
  <1>7. InvitedAreFinished'
    BY <1>1 DEF InvitedAreFinished
  <1>8. QED
    BY <1>2, <1>3, <1>4, <1>5, <1>6, <1>7 DEF IInv

-------------------------------------------------------------------------------
(* The invariant *)

\* A step of the specification is one of these.
LEMMA NextCases ==
    ASSUME Next
    PROVE  \/ \E r \in Requests :
                \/ Arrive(r) \/ LinkNewAccount(r) \/ Cleanup(r) \/ DeleteRow(r) \/ Delete(r)
                \/ SignUpFails(r) \/ FindProfile(r) \/ IsTargetAdmin(r) \/ IsCallerAdmin(r)
                \/ AssertUserEditable(r) \/ Edit(r)
                \/ \E u \in Users : SignUpEmail(r, u)
                \/ \E e \in Employees : Insert(r, e)
           \/ \E u \in Users : SignUp(u) \/ ChangeAdmin(u)
           \/ \E e \in Employees : \/ \E u \in Users \cup {None} : CreateEmployee(e, u)
                                   \/ \E u \in Users : UpdateEmployee(e, u)
           \/ SendInvite \/ Restart
  BY Zenon DEF Next, RequestStep

LEMMA InitInv == Init => IInv
  <1> SUFFICES ASSUME Init PROVE IInv
    OBVIOUS
  <1>1. PICK u \in Users : accounts = {u} /\ born = {u} /\ bare = {u}
    BY DEF Init
  <1>2. /\ admins \subseteq accounts /\ rows = {} /\ link = [e \in Employees |-> None]
        /\ req = [r \in Requests |-> Idle] /\ queue = <<>>
    BY DEF Init
  <1>3. TablesOK
    BY <1>1, <1>2 DEF TablesOK
  <1>4. /\ req \in [Requests -> ReqType]
        /\ \A r \in Requests : ReqOK(req[r]) /\ \A s \in Requests : Apart(req[r], req[s])
    BY <1>2, IdleIsOK
  <1>5. NoOrphans /\ InvitedAreFinished
    BY <1>1, <1>2 DEF NoOrphans, InvitedAreFinished
  <1>6. QED
    BY <1>3, <1>4, <1>5 DEF IInv

LEMMA InvStep == IInv /\ [Next]_vars => IInv'
  <1> SUFFICES ASSUME IInv, [Next]_vars PROVE IInv'
    OBVIOUS
  <1>1. CASE UNCHANGED vars
    <2>1. TablesOK' /\ NoOrphans' /\ InvitedAreFinished'
      BY <1>1, Known DEF TablesOK, NoOrphans, InvitedAreFinished, Linked, Held, vars, tables
    <2>2. \A r \in Requests : ReqOK(req[r])'
      BY <1>1, Known DEF ReqOK, EntitledToDelete, Linked, vars, tables
    <2>3. QED
      BY <1>1, <2>1, <2>2, Known DEF IInv, Apart, vars
  <1>2. ASSUME NEW r \in Requests, NEW u \in Users, SignUpEmail(r, u) PROVE IInv'
    BY <1>2, SignUpEmailStep
  <1>3. ASSUME NEW r \in Requests, NEW e \in Employees, Insert(r, e) PROVE IInv'
    BY <1>3, InsertStep
  <1>4. ASSUME NEW r \in Requests,
               \/ SignUpFails(r) \/ FindProfile(r) \/ IsTargetAdmin(r) \/ IsCallerAdmin(r)
               \/ AssertUserEditable(r) \/ Edit(r)
        PROVE  IInv'
    BY <1>4, ReadStep
  <1>5. ASSUME NEW r \in Requests,
               Arrive(r) \/ LinkNewAccount(r) \/ Cleanup(r) \/ DeleteRow(r) \/ Delete(r)
        PROVE  IInv'
    BY <1>5, ArriveStep, LinkNewAccountStep, CleanupStep, DeleteRowStep, DeleteStep
  <1>6. ASSUME NEW u \in Users, SignUp(u) \/ ChangeAdmin(u) PROVE IInv'
    BY <1>6, SignUpStep, ChangeAdminStep
  <1>7. ASSUME NEW e \in Employees, NEW u \in Users \cup {None}, CreateEmployee(e, u) PROVE IInv'
    BY <1>7, EmployeeStep
  <1>8. ASSUME NEW e \in Employees, NEW u \in Users, UpdateEmployee(e, u) PROVE IInv'
    BY <1>8, EmployeeStep
  <1>9. CASE SendInvite \/ Restart
    BY <1>9, SendInviteStep, RestartStep
  <1>10. QED
    BY <1>1, <1>2, <1>3, <1>4, <1>5, <1>6, <1>7, <1>8, <1>9, NextCases

\* What the theorems below are read off: the types of the tables and of the requests,
\* what each request knows, and that requests hold different employees and accounts.
THEOREM AccountsInvariant == Spec => []IInv
  BY InitInv, InvStep, PTL DEF Spec

\* Every table, request and queue of employee.service.ts keeps its type; an account
\* is linked from employee.userId only while it exists.
THEOREM AccountsTypes == Spec => []AccountsTypeOK
  <1>1. IInv => AccountsTypeOK
    BY DEF IInv, TablesOK, AccountsTypeOK, ReqType
  <1>2. QED
    BY <1>1, AccountsInvariant, PTL

\* However many requests create, link and delete, whatever fails and wherever the
\* process stops: no account without its employee but for the listed reasons, and no
\* invitation to an account that a compensation may still delete.
THEOREM SignUpsWhole == Spec => []SignUpsAreWhole
  <1>1. IInv => SignUpsAreWhole
    BY DEF IInv, SignUpsAreWhole
  <1>2. QED
    BY <1>1, AccountsInvariant, PTL

\* What deleteEmployee, deleteUserAccount and assertUserEditable checked before their
\* statements is still so when these run, but for what others have changed since.
THEOREM ActsEntitled == Spec => []ActsAreEntitled
  <1>1. IInv => ActsAreEntitled
    BY StateNames DEF IInv, ReqOK, ActsAreEntitled
  <1>2. QED
    BY <1>1, AccountsInvariant, PTL

\* A link that is replaced.
Replaced(e) == e \in rows /\ e \in rows' /\ link'[e] \notin {link[e], None} /\ link[e] # None

LEMMA OnlyUpdateReplaces ==
    ASSUME IInv, [Next]_vars, NEW e \in Employees, Replaced(e)
    PROVE  \E u \in Users : UpdateEmployee(e, u)
  <1>1. link'[e] # link[e] /\ link'[e] # None /\ link[e] # None /\ e \in rows
    BY DEF Replaced
  <1>2. link \in [Employees -> accounts \cup {None}] /\ rows \subseteq born
    BY Known DEF TablesOK
  <1>3. ASSUME NEW f \in Employees, NEW u, SetLink(f, u) PROVE f = e
    BY <1>1, <1>2, <1>3 DEF SetLink
  <1>4. ASSUME NEW u, NEW es, DeleteUser(u, es) PROVE FALSE
    BY <1>1, <1>4 DEF DeleteUser
  <1>5. CASE UNCHANGED link
    BY <1>1, <1>5
  <1>6. ASSUME NEW r \in Requests, NEW f \in Employees, Insert(r, f), ~UNCHANGED link
        PROVE  FALSE
    BY <1>2, <1>3, <1>1, <1>6 DEF Insert, tables
  <1>7. ASSUME NEW r \in Requests, LinkNewAccount(r), ~UNCHANGED link
        PROVE  FALSE
    <2>1. req[r].emp \in Employees /\ link[req[r].emp] = None /\ SetLink(req[r].emp, req[r].user)
      BY <1>7, Known DEF LinkNewAccount, tables, TablesOK
    <2>2. QED
      BY <2>1, <1>1, <1>3
  <1>8. ASSUME NEW r \in Requests, Cleanup(r) \/ Delete(r) PROVE UNCHANGED link
    BY <1>4, <1>8 DEF Cleanup, Delete, tables
  <1>9. ASSUME NEW f \in Employees, NEW u, CreateEmployee(f, u) PROVE FALSE
    BY <1>1, <1>2, <1>3, <1>9 DEF CreateEmployee
  <1>10. ASSUME NEW f \in Employees, NEW u \in Users, UpdateEmployee(f, u)
         PROVE  UpdateEmployee(e, u)
    BY <1>3, <1>10 DEF UpdateEmployee
  <1>11. ASSUME NEW r \in Requests,
                \/ Arrive(r) \/ DeleteRow(r)
                \/ SignUpFails(r) \/ FindProfile(r) \/ IsTargetAdmin(r) \/ IsCallerAdmin(r)
                \/ AssertUserEditable(r) \/ Edit(r) \/ \E u \in Users : SignUpEmail(r, u)
         PROVE  UNCHANGED link
    BY <1>11 DEF Arrive, CreateEmployeeWithUser, CreateAccountForEmployee, DeleteEmployee,
           DeleteUserAccount, UpdateManagedUser, DeleteRow, SignUpFails, FindProfile,
           IsTargetAdmin, IsCallerAdmin, AssertUserEditable, Edit, SignUpEmail, Reads,
           Throws, tables
  <1>12. ASSUME NEW u \in Users, SignUp(u) \/ ChangeAdmin(u) PROVE UNCHANGED link
    BY <1>12 DEF SignUp, ChangeAdmin
  <1>13. CASE SendInvite \/ Restart \/ UNCHANGED vars
    BY <1>13, <1>5 DEF SendInvite, Restart, tables, vars
  <1>14. QED
    BY <1>5, <1>6, <1>7, <1>8, <1>9, <1>10, <1>11, <1>12, <1>13, NextCases

\* Only updateEmployee gives an employee another account: of two requests that create
\* one for the same employee, the second gives up.
THEOREM AccountsKept == Spec => AccountsAreKept
  <1>1. ASSUME IInv, [Next]_vars
        PROVE  [\A e \in rows \cap rows' :
                   link'[e] \notin {link[e], None} /\ link[e] # None
                   => \E u \in Users : UpdateEmployee(e, u)]_vars
    <2>1. rows \subseteq Employees
      BY <1>1, Known DEF TablesOK
    <2>2. QED
      BY <1>1, <2>1, OnlyUpdateReplaces DEF Replaced
  <1>2. QED
    BY <1>1, AccountsInvariant, PTL DEF Spec, AccountsAreKept
===============================================================================
