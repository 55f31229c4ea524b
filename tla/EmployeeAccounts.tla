--------------------------- MODULE EmployeeAccounts ---------------------------
(***************************************************************************)
(* services/employee.service.ts and services/managed-user.service.ts: the  *)
(* rows of user and employee, the requests that create, link, edit and     *)
(* delete them, the queue of invitations (lib/invite.ts) and the pool of   *)
(* connections (db/index.ts).                                              *)
(*                                                                         *)
(* An account is created outside the transaction of its employee: whoever  *)
(* created it deletes it again when the rest fails. A deletion is a        *)
(* transaction, which holds a connection and asks the pool for a second    *)
(* one to query who is an administrator.                                   *)
(*                                                                         *)
(* Every await is a step of req[r]. A statement that fails may have been   *)
(* executed; one that finds a row locked waits or fails.                   *)
(***************************************************************************)
EXTENDS Integers, FiniteSets, Sequences

CONSTANTS
    Users,      \* ids of accounts, each given out once
    Employees,  \* ids of employees, each given out once
    Requests,   \* requests that may be in flight at once
    Pool,       \* connections of the pool ("max")
    None

ASSUME AccountsAssumption ==
    /\ None \notin Users \cup Employees
    /\ IsFiniteSet(Requests) /\ Pool \in Nat \ {0}

VARIABLES
    born,      \* ids given out so far
    accounts,  \* rows of user
    admins,    \* accounts with the role admin of the auth system
    rows,      \* rows of employee
    link,      \* employee.userId
    req,       \* req[r]: the await of request r, and what it knows
    queue,     \* inviteQueue
    bare       \* history: accounts nobody is giving an employee to

tables == <<born, accounts, admins, rows, link>>
vars == <<tables, req, queue, bare>>

\* The awaits of a creation, of a deletion and of an edit.
Creating == {"insert", "link", "cleanup"}
Checking == {"isTargetAdmin", "isCallerAdmin", "delete"}
Transactions == {"deleteRow", "findProfile"} \cup Checking
Awaits == {"idle", "signUp", "editable", "edit"} \cup Creating \cup Transactions

Idle == [st |-> "idle", user |-> None, emp |-> None, caller |-> None, since |-> {}]

Init ==
    /\ \E u \in Users : accounts = {u} /\ born = {u} /\ bare = {u}
    /\ admins \in SUBSET accounts
    /\ rows = {} /\ link = [e \in Employees |-> None]
    /\ req = [r \in Requests |-> Idle]
    /\ queue = <<>>

Linked(u) == \E e \in rows : link[e] = u

-------------------------------------------------------------------------------
(* The pool and the locks *)

InTransaction(r) == req[r].st \in Transactions

\* A connection is free for a statement.
Free == Cardinality({r \in Requests : InTransaction(r)}) < Pool

\* A deletion holds the row of its employee until it commits or rolls back.
Locked(e) == \E r \in Requests : req[r].st \in Checking /\ req[r].emp = e
LinkLocked(u) == \E e \in rows : link[e] = u /\ Locked(e)

-------------------------------------------------------------------------------
(* What a statement does to the tables, and to what requests have checked *)

\* Mutant: the roles of the account outlive it.
DeleteUserKeepingRoles(u, es) ==
    /\ accounts' = accounts \ {u} /\ bare' = bare \ {u}
    /\ rows' = rows \ es
    /\ link' = [e \in Employees |-> IF link[e] = u \/ e \in es THEN None ELSE link[e]]
    /\ UNCHANGED <<born, admins>>

DeleteUser(u, es) ==
    /\ accounts' = accounts \ {u} /\ admins' = admins \ {u} /\ bare' = bare \ {u}
    /\ rows' = rows \ es
    /\ link' = [e \in Employees |-> IF link[e] = u \/ e \in es THEN None ELSE link[e]]
    /\ UNCHANGED born

\* employee.userId = u, where it was another account or none.
SetLink(e, u) ==
    /\ link' = [link EXCEPT ![e] = u]
    /\ bare' = (bare \cup ({link[e]} \ {None})) \ {u}

\* What has changed since a request checked it: that the target is no admin or the
\* caller is one, and that the target has no employee.
Changed(q) ==
    (IF q.st \in {"delete", "edit"} /\ (q.user \in admins' \ admins \/ q.caller \in admins \ admins')
     THEN {"role"} ELSE {})
    \cup
    (IF q.st \in Checking /\ q.emp = None /\ \E e \in Employees : link'[e] = q.user /\ link[e] # q.user
     THEN {"link"} ELSE {})

Marked(q) == [q EXCEPT !.since = @ \cup Changed(q)]

\* The step of r that goes on with q; the others take note.
Goes(r, q) == req' = [s \in Requests |-> IF s = r THEN q ELSE Marked(req[s])]
Others == req' = [s \in Requests |-> Marked(req[s])]

Reads(r, st) == UNCHANGED <<tables, queue, bare>> /\ Goes(r, [req[r] EXCEPT !.st = st])

\* The error is answered; a transaction is rolled back.
Throws(r) == UNCHANGED <<tables, queue, bare>> /\ Goes(r, Idle)

-------------------------------------------------------------------------------
(* createEmployeeWithUser and createAccountForEmployee *)

\* The checks before the account is created: the CI is free, or the employee has no
\* account yet.
CreateEmployeeWithUser(r) ==
    /\ req[r].st = "idle"
    /\ UNCHANGED <<tables, queue, bare>>
    /\ Goes(r, [Idle EXCEPT !.st = "signUp"])

CreateAccountForEmployee(r, e) ==
    /\ req[r].st = "idle"
    /\ e \in rows /\ link[e] = None
    /\ UNCHANGED <<tables, queue, bare>>
    /\ Goes(r, [Idle EXCEPT !.st = "signUp", !.emp = e])

\* Mutant: the invitation is queued with the account.
SignUpEmailInvites(r, u) ==
    /\ req[r].st = "signUp" /\ Free
    /\ u \in Users \ born
    /\ born' = born \cup {u} /\ accounts' = accounts \cup {u}
    /\ queue' = Append(queue, u)
    /\ UNCHANGED <<admins, rows, link, bare>>
    /\ Goes(r, [req[r] EXCEPT !.st = IF req[r].emp = None THEN "insert" ELSE "link",
                              !.user = u])

\* auth.api.signUpEmail. It fails, before it has written the account or after, outside
\* the try of the compensation.
SignUpEmail(r, u) ==
    /\ req[r].st = "signUp" /\ Free
    /\ u \in Users \ born
    /\ born' = born \cup {u} /\ accounts' = accounts \cup {u}
    /\ UNCHANGED <<admins, rows, link, queue>>
    /\ \/ /\ Goes(r, [req[r] EXCEPT !.st = IF req[r].emp = None THEN "insert" ELSE "link",
                                    !.user = u])
          /\ UNCHANGED bare
       \/ Goes(r, Idle) /\ bare' = bare \cup {u}

SignUpFails(r) == req[r].st = "signUp" /\ Throws(r)

\* The response, with the invitation in the queue if one was asked for.
Created(r) ==
    /\ Goes(r, Idle)
    /\ UNCHANGED queue \/ queue' = Append(queue, req[r].user)

\* Mutant: the error is answered and nothing is undone.
CatchesNothing(r) == Goes(r, Idle) /\ UNCHANGED queue

\* The statement failed, executed or not: on to the compensation.
Catches(r) == Goes(r, [req[r] EXCEPT !.st = "cleanup"]) /\ UNCHANGED queue

\* INSERT of the employee with the new account.
Insert(r, e) ==
    /\ req[r].st = "insert"
    /\ \/ /\ Free /\ e \in Employees \ born /\ req[r].user \in accounts
          /\ ~Linked(req[r].user)
          /\ born' = born \cup {e} /\ rows' = rows \cup {e}
          /\ SetLink(e, req[r].user)
          /\ UNCHANGED <<accounts, admins>>
          /\ Created(r) \/ Catches(r)
       \/ UNCHANGED <<tables, bare>> /\ Catches(r)

\* Mutant: the link is set whatever it was.
LinkNewAccountAnyway(r) ==
    /\ req[r].st = "link"
    /\ \/ /\ Free /\ req[r].emp \in rows /\ req[r].user \in accounts
          /\ ~Linked(req[r].user) /\ ~Locked(req[r].emp)
          /\ SetLink(req[r].emp, req[r].user)
          /\ UNCHANGED <<born, accounts, admins, rows>>
          /\ Created(r) \/ Catches(r)
       \/ UNCHANGED <<tables, bare>> /\ Catches(r)

\* UPDATE ... SET user_id = ... WHERE id = ... AND user_id IS NULL
LinkNewAccount(r) ==
    /\ req[r].st = "link"
    /\ \/ /\ Free /\ req[r].emp \in rows /\ req[r].user \in accounts
          /\ ~Linked(req[r].user) /\ ~Locked(req[r].emp)
          /\ link[req[r].emp] = None
          /\ SetLink(req[r].emp, req[r].user)
          /\ UNCHANGED <<born, accounts, admins, rows>>
          /\ Created(r) \/ Catches(r)
       \/ UNCHANGED <<tables, bare>> /\ Catches(r)

\* The compensation; its own failure is only logged.
Cleanup(r) ==
    /\ req[r].st = "cleanup" /\ UNCHANGED queue
    /\ \/ Free /\ ~LinkLocked(req[r].user) /\ DeleteUser(req[r].user, {}) /\ Goes(r, Idle)
       \/ /\ bare' = bare \cup {u \in accounts : u = req[r].user /\ ~Linked(u)}
          /\ UNCHANGED tables /\ Goes(r, Idle)

-------------------------------------------------------------------------------
(* deleteEmployee and deleteUserAccount *)

\* BEGIN: the transaction has its connection.
DeleteEmployee(r, e, c) ==
    /\ req[r].st = "idle" /\ Free
    /\ e \in rows /\ c \in accounts
    /\ UNCHANGED <<tables, queue, bare>>
    /\ Goes(r, [Idle EXCEPT !.st = "deleteRow", !.emp = e, !.caller = c])

DeleteUserAccount(r, u, c) ==
    /\ req[r].st = "idle" /\ Free
    /\ u \in accounts /\ c \in accounts \ {u}
    /\ UNCHANGED <<tables, queue, bare>>
    /\ Goes(r, [Idle EXCEPT !.st = "findProfile", !.user = u, !.caller = c])

\* DELETE of the employee, RETURNING its account, once nobody else has it locked.
\* One without an account is all there is to delete; nobody deletes their own.
DeleteRow(r) ==
    /\ req[r].st = "deleteRow" /\ UNCHANGED <<queue, bare>>
    /\ \/ /\ ~Locked(req[r].emp) /\ req[r].emp \in rows
          /\ link[req[r].emp] = None
          /\ rows' = rows \ {req[r].emp}
          /\ UNCHANGED <<born, accounts, admins, link>> /\ Goes(r, Idle)
       \/ /\ ~Locked(req[r].emp) /\ req[r].emp \in rows
          /\ link[req[r].emp] \notin {None, req[r].caller}
          /\ UNCHANGED tables
          /\ Goes(r, [req[r] EXCEPT !.st = "isTargetAdmin", !.user = link[req[r].emp]])
       \/ UNCHANGED tables /\ Goes(r, Idle)

\* Mutant: the account may have an employee.
FindProfileOfAny(r) ==
    /\ req[r].st = "findProfile"
    /\ (req[r].user \in accounts /\ Reads(r, "isTargetAdmin")) \/ Throws(r)

\* The SELECTs of the account and of its employee, which lock nothing.
FindProfile(r) ==
    /\ req[r].st = "findProfile"
    /\ \/ req[r].user \in accounts /\ ~Linked(req[r].user) /\ Reads(r, "isTargetAdmin")
       \/ Throws(r)

\* Mutant: the pool makes a request wait for as long as it takes.
IsTargetAdminWaits(r) ==
    /\ req[r].st = "isTargetAdmin" /\ Free
    /\ Reads(r, IF req[r].user \in admins THEN "isCallerAdmin" ELSE "delete")

\* queryIsAdmin asks the pool for a connection while the transaction holds one;
\* after five seconds without one it throws.
IsTargetAdmin(r) ==
    /\ req[r].st = "isTargetAdmin"
    /\ \/ Free /\ Reads(r, IF req[r].user \in admins THEN "isCallerAdmin" ELSE "delete")
       \/ Throws(r)

IsCallerAdmin(r) ==
    /\ req[r].st = "isCallerAdmin"
    /\ \/ Free /\ req[r].caller \in admins /\ Reads(r, "delete")
       \/ Throws(r)

\* DELETE of the account and COMMIT.
Delete(r) ==
    /\ req[r].st = "delete" /\ UNCHANGED queue
    /\ \/ /\ \A e \in rows \ {req[r].emp} : link[e] = req[r].user => ~Locked(e)
          /\ DeleteUser(req[r].user, {req[r].emp} \ {None})
          /\ Goes(r, Idle)
       \/ UNCHANGED <<tables, bare>> /\ Goes(r, Idle)

-------------------------------------------------------------------------------
(* updateManagedUser and the change of a password, behind assertUserEditable *)

\* The account has a role in a system that the caller administers.
UpdateManagedUser(r, u) ==
    /\ req[r].st = "idle"
    /\ u \in accounts
    /\ UNCHANGED <<tables, queue, bare>>
    /\ Goes(r, [Idle EXCEPT !.st = "editable", !.user = u])

\* Mutant: the roles in other systems are not looked at.
AssertUserInScope(r) ==
    /\ req[r].st = "editable"
    /\ (Free /\ req[r].user \in accounts /\ Reads(r, "edit")) \/ Throws(r)

\* None of its other roles, that of admin for one, is in another system.
AssertUserEditable(r) ==
    /\ req[r].st = "editable"
    /\ \/ Free /\ req[r].user \in accounts \ admins /\ Reads(r, "edit")
       \/ Throws(r)

\* The UPDATEs.
Edit(r) == req[r].st = "edit" /\ Throws(r)

-------------------------------------------------------------------------------
(* Single statements *)

\* signUpFn: an account without an employee.
SignUp(u) ==
    /\ Free /\ u \in Users \ born
    /\ born' = born \cup {u} /\ accounts' = accounts \cup {u} /\ bare' = bare \cup {u}
    /\ UNCHANGED <<admins, rows, link, queue>> /\ Others

\* createEmployee, with an account or without.
CreateEmployee(e, u) ==
    /\ Free /\ e \in Employees \ born
    /\ u = None \/ (u \in accounts /\ ~Linked(u))
    /\ born' = born \cup {e} /\ rows' = rows \cup {e}
    /\ SetLink(e, u)
    /\ UNCHANGED <<accounts, admins, queue>> /\ Others

\* updateEmployee with another userId.
UpdateEmployee(e, u) ==
    /\ Free /\ e \in rows /\ ~Locked(e)
    /\ u \in accounts /\ ~Linked(u)
    /\ SetLink(e, u)
    /\ UNCHANGED <<born, accounts, admins, rows, queue>> /\ Others

\* createUserRole and deleteUserRole.
ChangeAdmin(u) ==
    /\ Free /\ u \in accounts
    /\ admins' = IF u \in admins THEN admins \ {u} ELSE admins \cup {u}
    /\ UNCHANGED <<born, accounts, rows, link, queue, bare>> /\ Others

-------------------------------------------------------------------------------
(* Invitations, and the process *)

\* sendAccountInvite, which never throws.
SendInvite ==
    /\ queue # <<>>
    /\ queue' = Tail(queue)
    /\ UNCHANGED <<tables, req, bare>>

\* The process ends and starts again; Postgres rolls back.
Restart ==
    /\ req' = [r \in Requests |-> Idle]
    /\ queue' = <<>>
    /\ bare' = bare \cup {u \in accounts : ~Linked(u) /\ \E r \in Requests :
                                              req[r].st \in Creating /\ req[r].user = u}
    /\ UNCHANGED tables

Arrive(r) ==
    \/ CreateEmployeeWithUser(r)
    \/ \E e \in Employees : CreateAccountForEmployee(r, e)
    \/ \E e \in Employees, c \in Users : DeleteEmployee(r, e, c)
    \/ \E u, c \in Users : DeleteUserAccount(r, u, c)
    \/ \E u \in Users : UpdateManagedUser(r, u)

RequestStep(r) ==
    \/ (\E u \in Users : SignUpEmail(r, u)) \/ SignUpFails(r)
    \/ (\E e \in Employees : Insert(r, e)) \/ LinkNewAccount(r) \/ Cleanup(r)
    \/ DeleteRow(r) \/ FindProfile(r) \/ IsTargetAdmin(r) \/ IsCallerAdmin(r) \/ Delete(r)
    \/ AssertUserEditable(r) \/ Edit(r)

Next ==
    \/ \E r \in Requests : Arrive(r) \/ RequestStep(r)
    \/ \E u \in Users : SignUp(u) \/ ChangeAdmin(u)
    \/ \E e \in Employees : (\E u \in Users \cup {None} : CreateEmployee(e, u))
                            \/ (\E u \in Users : UpdateEmployee(e, u))
    \/ SendInvite \/ Restart

Spec == Init /\ [][Next]_vars

-------------------------------------------------------------------------------
(* Properties *)

AccountsTypeOK ==
    /\ born \subseteq Users \cup Employees
    /\ accounts \subseteq Users \cap born /\ admins \subseteq accounts
    /\ bare \subseteq accounts
    /\ rows \subseteq Employees \cap born
    /\ link \in [Employees -> accounts \cup {None}]
    /\ req \in [Requests -> [st : Awaits, user : Users \cup {None},
                            emp : Employees \cup {None}, caller : Users \cup {None},
                            since : SUBSET {"role", "link"}]]
    /\ \A i \in DOMAIN queue : queue[i] \in Users

\* An account that a request has created and not yet linked or given up.
Held(u) == \E r \in Requests : req[r].st \in Creating /\ req[r].user = u

\* "Si la ficha falla ..., se elimina el usuario para no dejar un huerfano"
\* (employee.service.ts:150-156): an account without an employee is one that signed
\* up alone, that lost its employee to another account, whose creator is still at
\* it, or whose compensation failed or never ran. Deleting an employee never leaves
\* its account behind.
NoOrphans == \A u \in accounts : Linked(u) \/ Held(u) \/ u \in bare

\* What a deletion or an edit has checked is still so while it is under way, but for
\* what another request has changed since: nobody deletes their own account, only an
\* administrator deletes one, nobody edits one from a system of their own, and the
\* account deleted is the employee's own or one that had none.
EntitledToDelete(q) ==
    /\ q.user # q.caller
    /\ q.emp # None => q.emp \in rows /\ link[q.emp] = q.user
    /\ q.emp = None /\ Linked(q.user) => "link" \in q.since
    /\ q.st = "delete" /\ q.user \in admins => q.caller \in admins \/ "role" \in q.since

ActsAreEntitled ==
    \A r \in Requests :
        /\ req[r].st \in Checking => EntitledToDelete(req[r])
        /\ req[r].st = "edit" /\ req[r].user \in admins => "role" \in req[r].since

\* An invitation is queued for an account whose creation is over: no compensation
\* deletes an account that somebody is being invited to.
InvitedAreFinished == \A i \in DOMAIN queue : ~Held(queue[i])

\* createEmployeeWithUser and createAccountForEmployee: both.
SignUpsAreWhole == NoOrphans /\ InvitedAreFinished

\* The guarded UPDATE of createAccountForEmployee: of two that create an account for
\* an employee at once one gives up, and only updateEmployee replaces an account.
AccountsAreKept ==
    [][\A e \in rows \cap rows' :
         link'[e] \notin {link[e], None} /\ link[e] # None
         => \E u \in Users : UpdateEmployee(e, u)]_vars

\* Deletions that hold every connection and all wait for one more end: no request
\* waits for a thing that only those that wait could give.
NobodyIsStuck ==
    \A r \in Requests : req[r].st # "idle" => ENABLED RequestStep(r)
===============================================================================
