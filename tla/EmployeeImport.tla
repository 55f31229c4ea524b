---------------------------- MODULE EmployeeImport ----------------------------
(***************************************************************************)
(* The import of employees of the frontend                                 *)
(* (modules/employees/lib/import-validate.ts and                           *)
(* components/import-dialog.tsx), over the tables of the server.           *)
(*                                                                         *)
(* Opening a file lists every employee and account and decides what each   *)
(* row will do; running it calls the server for one row after another. A   *)
(* call may fail, executed or not; whoever imports may open the same file  *)
(* again; other administrators create, change and delete employees         *)
(* meanwhile. A call that failed is not executed later than the next one,  *)
(* and the roles of a row are one role.                                    *)
(*                                                                         *)
(* The listing is a FULL JOIN of employee and user: an entry is an         *)
(* employee with an account or without, or an account without an employee, *)
(* whose id there is that of the account.                                  *)
(***************************************************************************)
EXTENDS Integers, Sequences, FiniteSetsExt

CONSTANTS
    Cis, Names, Mails,
    MaxPeople,   \* entries before the import
    MaxRows,     \* rows of a file
    MaxImports,  \* times the file is opened
    MaxOthers,   \* changes by other administrators
    None

ASSUME ImportAssumption ==
    /\ None \notin Cis \cup Names \cup Mails \cup Nat
    /\ {MaxPeople, MaxRows, MaxImports, MaxOthers} \subseteq Nat

VARIABLES
    people,   \* the listing: who there is, by id; ids are given in order of creation
    users,    \* the account of each entry, by its id
    given,    \* the last id; some of the first ones may be nobody's
    file,     \* the rows of the file, RawImportRow
    plan,     \* rows of the dialog: what each row will do
    at,       \* the call of the row that runs; "closed" outside an import
    row,      \* the row that runs
    account,  \* the account its roles go to
    saved,    \* the employee it has saved, between two of its calls
    results,  \* outcomes of the rows so far
    imports,  \* times the file has been opened
    others,   \* changes by others
    made,     \* history: employees created for each row, still there under its name
    stale,    \* history: somebody else has changed the tables since the preview
    edited    \* history: the employees that others have changed since then

tables == <<people, users, given, made>>
dialog == <<plan, at, row, account, saved, results, imports>>
importVars == <<tables, dialog, file, others, stale, edited>>

Optional(S) == S \cup {None}

\* An entry has an employee (profile) or only an account; role is the one a file assigns.
Entry == [profile : BOOLEAN, ci : Optional(Cis), name : Names, mail : Optional(Mails),
          role : BOOLEAN]
IsEntry(e) ==
    /\ ~e.profile => e.ci = None /\ e.mail # None
    /\ e.role => e.mail # None

\* Ids are random: a file names none that is yet to be given.
Row == [id : Optional(1..MaxPeople), ci : Optional(Cis), name : Names, mail : Optional(Mails),
        role : BOOLEAN]

\* UNIQUE of employee.ci and user.email.
Unique(p) ==
    \A i, j \in DOMAIN p :
        i # j => /\ p[i].ci # None => p[i].ci # p[j].ci
                 /\ p[i].mail # None => p[i].mail # p[j].mail

\* UNIQUE of employee.user_id; an account alone has its own id in the listing, and no id is
\* that of an employee and of an account.
UsersOK ==
    /\ users \in [DOMAIN people -> Optional(1..given)]
    /\ \A i \in DOMAIN people : /\ people[i].mail # None <=> users[i] # None
                                /\ ~people[i].profile => users[i] = i
    /\ \A i, j \in DOMAIN people : /\ users[i] # None /\ users[i] = users[j] => i = j
                                   /\ people[i].profile => users[j] # i

ImportInit ==
    /\ \E n \in 0..MaxPeople :
          people \in [1..n -> {e \in Entry : IsEntry(e) /\ ~e.role}]
    /\ users = [i \in DOMAIN people |-> IF people[i].mail = None THEN None
                                       ELSE IF people[i].profile THEN MaxPeople + i ELSE i]
    /\ given = 2 * MaxPeople /\ Unique(people)
    /\ \E n \in 1..MaxRows, role \in BOOLEAN :
          file \in [1..n -> {r \in Row : r.role = role}]
    /\ plan = <<>> /\ at = "closed" /\ row = 0 /\ account = None /\ saved = None
    /\ results = <<>> /\ imports = 0 /\ others = 0
    /\ made = [i \in DOMAIN file |-> {}] /\ stale = FALSE /\ edited = {}

-------------------------------------------------------------------------------
(* mapImportRow, flagImportDuplicates and resolveImportRoles *)

Error == [kind |-> "error", id |-> None, mail |-> None, user |-> None]

CiOwner(ci) == {i \in DOMAIN people : ci # None /\ people[i].ci = ci}
EmailOwner(mail) == {i \in DOMAIN people : mail # None /\ people[i].mail = mail}

\* The listing is by createdAt, the newest first, and the last of a name is kept.
NameOwner(name) ==
    LET same == {i \in DOMAIN people : people[i].name = name}
    IN IF same = {} THEN {} ELSE {Min(same)}

\* Mutant: a row without an id is matched by CI and e-mail only.
TargetByKeys(r) ==
    IF r.id # None THEN {r.id}
    ELSE IF CiOwner(r.ci) # {} THEN CiOwner(r.ci) ELSE EmailOwner(r.mail)

\* Whom the row updates, if anybody: the id of the row, or the owner of its CI, of its
\* e-mail or of its name.
Target(r) ==
    IF r.id # None THEN {r.id}
    ELSE IF CiOwner(r.ci) # {} THEN CiOwner(r.ci)
    ELSE IF EmailOwner(r.mail) # {} THEN EmailOwner(r.mail)
    ELSE NameOwner(r.name)

\* Mutant: the roles of a row are resolved and nobody asks for an account.
HasAccountForRoleAnyway(r, hit) == TRUE

\* A row with roles needs an e-mail, or a target with an account.
HasAccountForRole(r, hit) ==
    r.role => r.mail # None \/ \E i \in hit : people[i].mail # None

\* What the row will do once it is accepted; user is the account that its target has.
Accepted(r, hit) ==
    LET id == IF hit = {} THEN None ELSE CHOOSE i \in hit : TRUE
        user == IF hit = {} THEN None ELSE users[id]
    IN [kind |-> IF hit = {} THEN "create" ELSE "update", id |-> id, user |-> user,
        mail |-> IF user # None THEN None ELSE r.mail]

\* The checks, one after the other. What a row has passed counts as seen for the next
\* ones, even if it fails a later check; whether a row with the same value has passed one
\* does not depend on what it found seen, for then a row before it has passed.
Hit(i) == Target(file[i])
Earlier(i) == 1..(i - 1)
Same(v, w) == v = w /\ v # None

\* seenIds
IdPasses(i) ==
    Hit(i) \subseteq DOMAIN people /\ \A j \in Earlier(i) : Hit(j) \cap Hit(i) = {}

\* seenCis
CiFits(i) == IdPasses(i) /\ CiOwner(file[i].ci) \subseteq Hit(i)

\* Mutant: the CI of a row is forgotten.
CiPassesUnseen(i) == CiFits(i)

CiPasses(i) ==
    CiFits(i) /\ \A j \in Earlier(i) : CiFits(j) => ~Same(file[i].ci, file[j].ci)

\* seenNames
NamePasses(i) ==
    /\ CiPasses(i)
    /\ Hit(i) = {} =>
          \A j \in Earlier(i) : CiPasses(j) /\ Hit(j) = {} => file[i].name # file[j].name

\* seenEmails
MailFits(i) == NamePasses(i) /\ EmailOwner(file[i].mail) \subseteq Hit(i)
MailPasses(i) ==
    MailFits(i) /\ \A j \in Earlier(i) : MailFits(j) => ~Same(file[i].mail, file[j].mail)

Plan ==
    [i \in DOMAIN file |-> IF MailPasses(i) /\ HasAccountForRole(file[i], Hit(i))
                           THEN Accepted(file[i], Hit(i)) ELSE Error]

\* handleFile
HandleFile ==
    /\ at = "closed" /\ imports < MaxImports
    /\ plan' = Plan
    /\ at' = "row" /\ row' = 1 /\ account' = None /\ saved' = None /\ results' = <<>>
    /\ imports' = imports + 1 /\ stale' = FALSE /\ edited' = {}
    /\ UNCHANGED <<tables, file, others>>

-------------------------------------------------------------------------------
(* The server *)

\* Mutant: without UNIQUE.
CiNeverTaken(ci, self) == FALSE

CiTaken(ci, self) == \E i \in CiOwner(ci) : i # self
MailTaken(mail) == EmailOwner(mail) # {}

\* Entry i is now e, with account a. If a was an entry of its own it is no more, and the
\* account that i had is one, under its own name, which the listing did not show.
Puts(i, e, a) ==
    LET left == {users[k] : k \in {i} \cap DOMAIN people} \ {None, a}
        ids == (DOMAIN people \ {a}) \cup {i} \cup left
    IN /\ users' = [k \in ids |-> IF k = i THEN a ELSE IF k \in left THEN k ELSE users[k]]
       /\ \E name \in IF left = {} THEN {e.name} ELSE Names :
             people' = [k \in ids |->
                           IF k = i THEN e
                           ELSE IF k \in left
                                THEN [people[i] EXCEPT !.profile = FALSE, !.ci = None,
                                                       !.name = name]
                                ELSE people[k]]

\* Of what the rows have made, employee i is still under its name.
Recounts(i, name) ==
    made' = [r \in DOMAIN file |-> IF file[r].name = name THEN made[r] ELSE made[r] \ {i}]

Counts(i) == made' = [made EXCEPT ![row] = @ \cup {i}]

-------------------------------------------------------------------------------
(* runImport *)

r0 == file[row]
p0 == plan[row]

Runs(call) == at = call /\ UNCHANGED <<plan, imports, file, others, stale, edited>>

Reports(result) ==
    /\ results' = Append(results, result)
    /\ row' = row + 1 /\ account' = None /\ saved' = None
    /\ at' = IF row = Len(file) THEN "closed" ELSE "row"

\* Employee i is saved, and the next call is for account a.
Calls(call, i, a) ==
    at' = call /\ saved' = i /\ account' = a /\ UNCHANGED <<row, results>>

\* The server says no to what it is asked.
Refused == UNCHANGED tables /\ Reports("refused")

\* The call fails, and the server has done nothing.
Fails == UNCHANGED tables /\ Reports("failed")

\* After the row is saved: its roles, if it has any, for account a.
ThenRoles(i, a) == IF r0.role THEN Calls("role", i, a) ELSE Reports("ok")

SkipRow == Runs("row") /\ p0.kind = "error" /\ UNCHANGED tables /\ Reports("error")

\* POST /employees/with-user: both, or a lost answer, or an account whose compensation
\* failed.
CreateWithUser ==
    /\ Runs("row") /\ p0.kind = "create" /\ p0.mail # None
    /\ LET e == [profile |-> TRUE, ci |-> r0.ci, name |-> r0.name, mail |-> r0.mail,
                 role |-> FALSE]
           a == given + 1
           i == given + 2
           taken == CiTaken(r0.ci, None) \/ MailTaken(r0.mail)
       IN \/ taken /\ Refused
          \/ /\ ~taken /\ given' = i /\ Puts(i, e, a) /\ Counts(i)
             /\ ThenRoles(i, a) \/ Reports("failed")
          \/ /\ ~taken /\ given' = a /\ Puts(a, [e EXCEPT !.profile = FALSE, !.ci = None], a)
             /\ UNCHANGED made /\ Reports("failed")
          \/ Fails

\* POST /employees
CreateEmployeeRow ==
    /\ Runs("row") /\ p0.kind = "create" /\ p0.mail = None
    /\ LET e == [profile |-> TRUE, ci |-> r0.ci, name |-> r0.name, mail |-> None,
                 role |-> FALSE]
       IN \/ CiTaken(r0.ci, None) /\ Refused
          \/ /\ ~CiTaken(r0.ci, None)
             /\ given' = given + 1 /\ Puts(given', e, None) /\ Counts(given')
             /\ Reports("ok") \/ Reports("failed")
          \/ Fails

IsEmployee(i) == i \in DOMAIN people /\ people[i].profile

\* PATCH /employees/{id}, and then its account, which is the one of the preview.
UpdateRow ==
    /\ Runs("row") /\ p0.kind = "update"
    /\ LET i == p0.id
           takes == IsEmployee(i) /\ ~CiTaken(r0.ci, i)
       IN \/ ~takes /\ Refused
          \/ /\ takes /\ UNCHANGED given /\ Recounts(i, r0.name)
             /\ Puts(i, [people[i] EXCEPT !.name = r0.name,
                                          !.ci = IF r0.ci = None THEN @ ELSE r0.ci], users[i])
             /\ \/ IF p0.mail # None THEN Calls("account", i, None)
                   ELSE IF p0.user # None THEN ThenRoles(i, p0.user) ELSE Reports("ok")
                \/ Reports("failed")
          \/ Fails

\* POST /employees/{id}/account
CreateAccount ==
    /\ Runs("account")
    /\ LET i == p0.id
           a == given + 1
           takes == IsEmployee(i) /\ people[i].mail = None /\ ~MailTaken(p0.mail)
       IN \/ ~takes /\ Refused
          \/ /\ takes /\ given' = a /\ UNCHANGED made
             /\ Puts(i, [people[i] EXCEPT !.mail = p0.mail], a)
             /\ ThenRoles(i, a) \/ Reports("failed")
          \/ /\ takes /\ given' = a /\ UNCHANGED made
             /\ Puts(a, [people[i] EXCEPT !.profile = FALSE, !.ci = None, !.mail = p0.mail], a)
             /\ Reports("failed")
          \/ Fails

\* POST /user-roles for the account of the row, whose it may be by now; a 409 is as good.
AssignRoles ==
    /\ Runs("role")
    /\ LET held == {i \in DOMAIN people : users[i] = account}
       IN \/ held = {} /\ Refused
          \/ /\ \E i \in held : Puts(i, [people[i] EXCEPT !.role = TRUE], account)
             /\ UNCHANGED <<given, made>>
             /\ Reports("ok") \/ Reports("failed")
          \/ Fails

RunImport ==
    \/ SkipRow \/ CreateWithUser \/ CreateEmployeeRow \/ UpdateRow \/ CreateAccount
    \/ AssignRoles

-------------------------------------------------------------------------------
(* Other administrators *)

Others ==
    /\ others < MaxOthers /\ others' = others + 1
    /\ stale' = TRUE
    /\ UNCHANGED <<dialog, file>>

\* The accounts that have no employee.
Accounts == {i \in DOMAIN people : ~people[i].profile}

\* What POST and PATCH of /employees link: account a, if a new one of none or of an entry
\* of its own, with what it has.
Linked(e, a) ==
    IF a \in Accounts THEN [e EXCEPT !.mail = people[a].mail, !.role = people[a].role] ELSE e

\* POST /employees, which may name an account, or POST /employees/with-user.
OthersCreate ==
    /\ Others /\ UNCHANGED <<made, edited>>
    /\ \E e \in Entry, a \in Accounts \cup {None, given + 1} :
          /\ e.profile /\ ~e.role /\ ~CiTaken(e.ci, None) /\ ~MailTaken(e.mail)
          /\ e.mail # None <=> a = given + 1
          /\ given' = given + 2 /\ Puts(given', Linked(e, a), a)

\* PATCH /employees/{id}, the fields that change: the name, the CI, the account.
OthersUpdate ==
    /\ Others /\ UNCHANGED given
    /\ \E i \in DOMAIN people \ Accounts, name \in Names :
       \E ci \in Cis \cup {people[i].ci}, a \in Accounts \cup {users[i]} :
          /\ ~CiTaken(ci, i)
          /\ Puts(i, Linked([people[i] EXCEPT !.name = name, !.ci = ci], a), a)
          /\ Recounts(i, name) /\ edited' = edited \cup {i}

OthersDelete ==
    /\ Others /\ UNCHANGED <<given, edited>>
    /\ \E i \in DOMAIN people :
          /\ people' = [j \in DOMAIN people \ {i} |-> people[j]]
          /\ users' = [j \in DOMAIN people \ {i} |-> users[j]]
          /\ made' = [r \in DOMAIN file |-> made[r] \ {i}]

OthersGiveAccount ==
    /\ Others /\ UNCHANGED <<made, edited>>
    /\ \E i \in DOMAIN people, mail \in Mails :
          /\ people[i].mail = None /\ ~MailTaken(mail)
          /\ given' = given + 1 /\ Puts(i, [people[i] EXCEPT !.mail = mail], given')

ImportNext ==
    \/ HandleFile \/ RunImport
    \/ OthersCreate \/ OthersUpdate \/ OthersDelete \/ OthersGiveAccount

ImportSpec == ImportInit /\ [][ImportNext]_importVars

-------------------------------------------------------------------------------
(* Properties *)

ImportTypeOK ==
    /\ given \in Nat /\ DOMAIN people \subseteq 1..given
    /\ \A i \in DOMAIN people : people[i] \in Entry /\ IsEntry(people[i])
    /\ Unique(people) /\ UsersOK
    /\ file \in Seq(Row) /\ Len(file) \in 1..MaxRows
    /\ at \in {"closed", "row", "account", "role"}
    /\ results \in Seq({"ok", "error", "refused", "failed"})
    /\ at # "closed" => /\ DOMAIN plan = DOMAIN file
                        /\ row = Len(results) + 1 /\ row <= Len(file)
    /\ at = "role" => account \in 1..given
    /\ at \in {"account", "role"} => saved \in 1..given
    /\ edited \subseteq 1..given
    /\ made \in [DOMAIN file -> SUBSET (1..given)]
    /\ imports \in 0..MaxImports /\ others \in 0..MaxOthers

\* "detectar duplicados (CI, correo, ids inexistentes) ANTES de enviar nada"
\* (import-dialog.tsx:84-85): while nobody else changes the tables the server refuses
\* no row that the preview let through, but one that was matched with an account
\* without an employee, which has no /employees/{id}.
AcceptedRowsRun ==
    \A i \in DOMAIN results :
        results[i] = "refused" => stale \/ (plan[i].kind = "update" /\ ~IsEmployee(plan[i].id))

\* "muestra un resumen antes de tocar la API" (import-dialog.tsx:34-38) and the comment on
\* line 84, as worded: what the server will refuse shows in that preview.
RefusalsShowInPreview == \A i \in DOMAIN results : results[i] = "refused" => stale

\* A file is opened again after an import that failed half-way, or whose answers were
\* lost: no row makes a second employee while the first is there under its name. It may
\* not be: others delete, and another row may find it by its CI and rename it.
NobodyTwice == \A i \in DOMAIN file : \A a, b \in made[i] : a = b

\* A row that is reported as done is: there is an employee with its CI and its name,
\* with an account if it had an e-mail and with its role if it had one. There is one
\* excuse, which another administrator has to change the same employee for: after the
\* preview, if the account was another one, for the role goes to the account of the
\* preview; or between two calls of the row.
Done(r, p) ==
    \E i \in DOMAIN p :
        /\ p[i].profile /\ p[i].name = r.name
        /\ r.ci # None => p[i].ci = r.ci
        /\ r.mail # None => p[i].mail # None
        /\ r.role => p[i].role

OkMeansDone ==
    [][Len(results') > Len(results) /\ results'[row] = "ok" =>
           Done(r0, people') \/ saved \in edited]_importVars
===============================================================================
