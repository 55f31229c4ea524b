------------------------- MODULE EmployeeImportProofs -------------------------
(***************************************************************************)
(* The import of employees: what the preview accepts runs, what it reports *)
(* as done is, and no row makes its employee twice, for any people, files, *)
(* numbers of imports and changes by others.                               *)
(***************************************************************************)
EXTENDS MCDataTransfer, DatabaseDumpProofs

-------------------------------------------------------------------------------
(* The inductive invariant *)

\* What a row asks and what the preview says of it belong together.
Fits(r, p) ==
    \/ p.kind = "error"
    \/ /\ p.kind = "create" /\ p.mail = r.mail
       /\ r.role => p.mail # None
    \/ /\ p.kind = "update" /\ p.id \in 1..given /\ p.user \in Optional(1..given)
       /\ p.mail = IF p.user # None THEN None ELSE r.mail
       /\ r.role => p.mail # None \/ p.user # None

\* Two accepted rows act on different people, with different CIs and e-mails.
Apart(j, k) ==
    plan[j].kind # "error" /\ plan[k].kind # "error" =>
       /\ ~Same(file[j].ci, file[k].ci) /\ ~Same(file[j].mail, file[k].mail)
       /\ plan[j].kind = "update" /\ plan[k].kind = "update" => plan[j].id # plan[k].id

PlanOK ==
    /\ DOMAIN plan \in {{}, DOMAIN file} /\ DOMAIN results \subseteq DOMAIN plan
    /\ \A k \in DOMAIN plan : Fits(file[k], plan[k])
    /\ \A j, k \in DOMAIN plan : j < k => Apart(j, k)

\* An employee that had an account has one, the same unless others have changed it.
UsersKept ==
    \A k \in DOMAIN plan :
       plan[k].kind = "update" /\ plan[k].user # None /\ IsEmployee(plan[k].id) =>
          /\ people[plan[k].id].mail # None
          /\ users[plan[k].id] = plan[k].user \/ plan[k].id \in edited

\* The rows that have yet to run.
Ahead(k) == at # "closed" /\ k \in DOMAIN plan /\ (k > row \/ (k = row /\ at = "row"))

\* The tables have a place for what row k will do.
Ready(k) ==
    /\ plan[k].kind = "create" => CiOwner(file[k].ci) = {}
    /\ plan[k].kind = "update" =>
          /\ plan[k].id \in DOMAIN people /\ CiOwner(file[k].ci) \subseteq {plan[k].id}
          /\ plan[k].mail # None => people[plan[k].id].mail = None
    /\ plan[k].kind # "error" => EmailOwner(plan[k].mail) = {}

\* Entry i has what row r says of its employee.
Saved(p, i, r) == p[i].profile /\ p[i].name = r.name /\ (r.ci # None => p[i].ci = r.ci)

\* The roles for account a are for employee i, unless others have changed it.
RoleFor(p, u, i, a) ==
    /\ \A k \in DOMAIN p : u[k] = a => (k = i /\ Saved(p, k, r0)) \/ i \in edited
    /\ ~stale => \E k \in DOMAIN p : u[k] = a

\* Between two calls for the row: what the first has done is there, unless others have
\* deleted or changed it, and nobody else has the account that the roles go to.
MidRow ==
    /\ at = "account" =>
          /\ p0.kind = "update" /\ p0.mail # None /\ saved = p0.id
          /\ IsEmployee(p0.id) => Saved(people, p0.id, r0) \/ saved \in edited
          /\ ~stale => /\ IsEmployee(p0.id) /\ people[p0.id].mail = None
                       /\ EmailOwner(p0.mail) = {}
    /\ at = "role" => r0.role /\ RoleFor(people, users, saved, account)

Unedited == ~stale => edited = {}

\* What a row has made is found by its name, so that it is not made again.
MadeAreThere ==
    \A i \in DOMAIN file : \A k \in made[i] :
       k \in DOMAIN people /\ people[k].profile /\ people[k].name = file[i].name
MadeOnce == \A k \in DOMAIN file : Ahead(k) /\ plan[k].kind = "create" => made[k] = {}

\* While nobody else changes the tables, what the preview has seen stays so.
RestReady == ~stale => \A k \in DOMAIN plan : Ahead(k) => Ready(k)

ImportInv ==
    /\ ImportTypeOK
    /\ PlanOK /\ UsersKept /\ MidRow /\ Unedited
    /\ RestReady
    /\ AcceptedRowsRun
    /\ MadeAreThere /\ MadeOnce /\ NobodyTwice

-------------------------------------------------------------------------------
(* The preview *)

LEMMA Files ==
    ASSUME ImportTypeOK
    PROVE  /\ DOMAIN file = 1..Len(file) /\ Len(file) \in Nat
           /\ \A k \in DOMAIN file : file[k] \in Row /\ k \in Nat
           /\ DOMAIN results = 1..Len(results) /\ Len(results) \in Nat
BY DEF ImportTypeOK

\* An owner is one, and whom nobody owns makes a new employee.
LEMMA Targets ==
    ASSUME ImportTypeOK, NEW r \in Row
    PROVE  /\ \A a, b \in Target(r) : a = b
           /\ Target(r) = {} => /\ CiOwner(r.ci) = {} /\ EmailOwner(r.mail) = {}
                                /\ \A i \in DOMAIN people : people[i].name # r.name
<1>1. \A ci : \A a, b \in CiOwner(ci) : a = b
  BY DEF ImportTypeOK, Unique, CiOwner
<1>2. \A mail : \A a, b \in EmailOwner(mail) : a = b
  BY DEF ImportTypeOK, Unique, EmailOwner
<1>3. /\ \A a, b \in NameOwner(r.name) : a = b
      /\ NameOwner(r.name) = {} => \A i \in DOMAIN people : people[i].name # r.name
  BY DEF NameOwner
<1> QED  BY <1>1, <1>2, <1>3 DEF Target

\* What an accepted row has passed.
LEMMA AcceptedRow ==
    ASSUME ImportTypeOK, NEW k \in DOMAIN file, Plan[k].kind # "error"
    PROVE  /\ MailPasses(k) /\ MailFits(k) /\ NamePasses(k) /\ CiPasses(k) /\ CiFits(k)
           /\ IdPasses(k) /\ HasAccountForRole(file[k], Hit(k))
           /\ CiOwner(file[k].ci) \subseteq Hit(k) /\ EmailOwner(file[k].mail) \subseteq Hit(k)
           /\ Plan[k] = Accepted(file[k], Hit(k))
<1>1. Plan[k] = IF MailPasses(k) /\ HasAccountForRole(file[k], Hit(k))
                THEN Accepted(file[k], Hit(k)) ELSE Error
  BY DEF Plan
<1>2. Error.kind = "error"
  BY DEF Error
<1>3. MailPasses(k) /\ HasAccountForRole(file[k], Hit(k)) /\ Plan[k] = Accepted(file[k], Hit(k))
  BY <1>1, <1>2
<1> QED  BY <1>3 DEF MailPasses, MailFits, NamePasses, CiPasses, CiFits

\* What it will do.
LEMMA AcceptedFields ==
    ASSUME ImportTypeOK, NEW k \in DOMAIN file, Plan[k].kind # "error"
    PROVE  /\ Plan[k].user \in Optional(1..given)
           /\ \/ /\ Plan[k].kind = "create" /\ Hit(k) = {} /\ Plan[k].user = None
                 /\ Plan[k].mail = file[k].mail
              \/ /\ Plan[k].kind = "update" /\ Hit(k) = {Plan[k].id}
                 /\ Plan[k].id \in DOMAIN people /\ Plan[k].user = users[Plan[k].id]
                 /\ Plan[k].user # None <=> people[Plan[k].id].mail # None
                 /\ Plan[k].mail = IF Plan[k].user # None THEN None ELSE file[k].mail
<1> DEFINE h == Hit(k)
           id == IF h = {} THEN None ELSE CHOOSE i \in h : TRUE
           u == IF h = {} THEN None ELSE users[id]
<1>1. Plan[k] = Accepted(file[k], h) /\ h \subseteq DOMAIN people
  BY AcceptedRow DEF IdPasses
<1>2. /\ Plan[k].kind = IF h = {} THEN "create" ELSE "update"
      /\ Plan[k].id = id /\ Plan[k].user = u
      /\ Plan[k].mail = IF u # None THEN None ELSE file[k].mail
  BY <1>1 DEF Accepted
<1>3. \A a, b \in h : a = b
  BY Files, Targets DEF Hit
<1> HIDE DEF h
<1>4. CASE h = {}
  BY <1>2, <1>4 DEF h, Optional
<1>5. CASE h # {}
  <2>1. id \in h
    BY <1>5
  <2>2. h = {id} /\ id \in DOMAIN people
    BY <1>1, <1>3, <2>1
  <2>3. u = users[id] /\ users[id] \in Optional(1..given)
        /\ (users[id] # None <=> people[id].mail # None)
    BY <1>5, <2>2 DEF ImportTypeOK, UsersOK
  <2> HIDE DEF id, u
  <2> QED  BY <1>2, <1>5, <2>2, <2>3 DEF h
<1> QED  BY <1>4, <1>5

LEMMA PlanFits ==
    ASSUME ImportTypeOK
    PROVE  /\ DOMAIN Plan = DOMAIN file
           /\ \A k \in DOMAIN file : Fits(file[k], Plan[k])
<1>1. DOMAIN Plan = DOMAIN file
  BY DEF Plan
<1>2. ASSUME NEW k \in DOMAIN file, Plan[k].kind # "error" PROVE Fits(file[k], Plan[k])
  <2>1. HasAccountForRole(file[k], Hit(k))
    BY <1>2, AcceptedRow
  <2>2. CASE Plan[k].kind = "create"
    BY <1>2, <2>1, <2>2, AcceptedFields DEF Fits, HasAccountForRole
  <2>3. CASE Plan[k].kind = "update"
    <3>1. Plan[k].id \in 1..given
      BY <1>2, <2>3, AcceptedFields DEF ImportTypeOK
    <3>2. file[k].role => Plan[k].mail # None \/ Plan[k].user # None
      BY <1>2, <2>1, <2>3, AcceptedFields DEF HasAccountForRole
    <3> QED  BY <1>2, <2>3, <3>1, <3>2, AcceptedFields DEF Fits
  <2> QED  BY <1>2, <2>2, <2>3, AcceptedFields
<1> QED  BY <1>1, <1>2 DEF Fits

\* Of two rows the first is seen by the second.
LEMMA PlanApart ==
    ASSUME ImportTypeOK, NEW j \in DOMAIN file, NEW k \in DOMAIN file, j < k,
           Plan[j].kind # "error", Plan[k].kind # "error"
    PROVE  /\ ~Same(file[j].ci, file[k].ci) /\ ~Same(file[j].mail, file[k].mail)
           /\ Plan[j].kind = "update" /\ Plan[k].kind = "update" => Plan[j].id # Plan[k].id
<1>1. j \in Earlier(k)
  BY Files DEF Earlier
<1>2. CiFits(j) /\ CiPasses(k) /\ MailFits(j) /\ MailPasses(k) /\ IdPasses(k)
  BY AcceptedRow
<1>3. /\ ~Same(file[k].ci, file[j].ci) /\ ~Same(file[k].mail, file[j].mail)
      /\ Hit(j) \cap Hit(k) = {}
  BY <1>1, <1>2 DEF CiPasses, MailPasses, IdPasses
<1>4. Plan[j].kind = "update" /\ Plan[k].kind = "update" => Plan[j].id # Plan[k].id
  BY <1>3, AcceptedFields
<1> QED  BY <1>3, <1>4 DEF Same

\* The tables have a place for every row that is accepted.
LEMMA PlanReady ==
    ASSUME ImportTypeOK, NEW k \in DOMAIN file
    PROVE  /\ Plan[k].kind = "create" => CiOwner(file[k].ci) = {}
           /\ Plan[k].kind = "update" =>
                 /\ Plan[k].id \in DOMAIN people /\ CiOwner(file[k].ci) \subseteq {Plan[k].id}
                 /\ Plan[k].mail # None => people[Plan[k].id].mail = None
                 /\ Plan[k].user # None => /\ people[Plan[k].id].mail # None
                                          /\ users[Plan[k].id] = Plan[k].user
           /\ Plan[k].kind # "error" => EmailOwner(Plan[k].mail) = {}
<1>1. SUFFICES ASSUME Plan[k].kind # "error"
               PROVE  /\ Plan[k].kind = "create" => CiOwner(file[k].ci) = {}
                      /\ Plan[k].kind = "update" =>
                            /\ Plan[k].id \in DOMAIN people
                            /\ CiOwner(file[k].ci) \subseteq {Plan[k].id}
                            /\ Plan[k].mail # None => people[Plan[k].id].mail = None
                            /\ Plan[k].user # None =>
                                  /\ people[Plan[k].id].mail # None
                                  /\ users[Plan[k].id] = Plan[k].user
                      /\ EmailOwner(Plan[k].mail) = {}
  OBVIOUS
<1>2. CiOwner(file[k].ci) \subseteq Hit(k) /\ EmailOwner(file[k].mail) \subseteq Hit(k)
  BY <1>1, AcceptedRow
<1>3. EmailOwner(None) = {}
  BY DEF EmailOwner
<1>4. CASE Plan[k].kind = "create"
  BY <1>1, <1>2, <1>4, AcceptedFields
<1>5. CASE Plan[k].kind = "update"
  <2>1. /\ Hit(k) = {Plan[k].id} /\ Plan[k].id \in DOMAIN people
        /\ Plan[k].user = users[Plan[k].id]
        /\ Plan[k].user # None <=> people[Plan[k].id].mail # None
        /\ Plan[k].mail = IF Plan[k].user # None THEN None ELSE file[k].mail
    BY <1>1, <1>5, AcceptedFields
  <2>2. EmailOwner(Plan[k].mail) = {}
    <3>1. CASE Plan[k].mail = None
      BY <1>3, <3>1
    <3>2. CASE Plan[k].mail # None
      <4>1. Plan[k].mail = file[k].mail /\ people[Plan[k].id].mail = None
        BY <2>1, <3>2
      <4>2. \A i \in EmailOwner(file[k].mail) : people[i].mail # None
        BY DEF EmailOwner
      <4> QED  BY <1>2, <2>1, <4>1, <4>2
    <3> QED  BY <3>1, <3>2
  <2> QED  BY <1>2, <1>5, <2>1, <2>2
<1> QED  BY <1>1, <1>4, <1>5, AcceptedFields

\* What a row has made already is its target.
LEMMA PlanMakesOnce ==
    ASSUME ImportTypeOK, MadeAreThere, NEW k \in DOMAIN file, Plan[k].kind = "create"
    PROVE  made[k] = {}
<1>1. Target(file[k]) = {}
  BY AcceptedFields DEF Hit
<1>2. \A i \in DOMAIN people : people[i].name # file[k].name
  BY <1>1, Files, Targets
<1> QED  BY <1>2 DEF MadeAreThere

-------------------------------------------------------------------------------
(* The tables *)

TablesOK ==
    /\ given \in Nat /\ DOMAIN people \subseteq 1..given
    /\ \A i \in DOMAIN people : people[i] \in Entry /\ IsEntry(people[i])
    /\ Unique(people) /\ UsersOK
    /\ made \in [DOMAIN file -> SUBSET (1..given)]
    /\ MadeAreThere

\* A step of a row takes nothing from the entries of before, gives them no CI, e-mail or
\* account, but for c and m to those in S, and nobody new another CI or e-mail than c and m.
Touches(S, c, m) ==
    /\ DOMAIN people \subseteq DOMAIN people' /\ given' >= given
    /\ \A i \in DOMAIN people' \ DOMAIN people :
          i > given /\ people'[i].ci \in {c, None} /\ people'[i].mail \in {m, None}
    /\ \A i \in DOMAIN people :
          /\ people'[i].profile = people[i].profile
          /\ people'[i].ci = people[i].ci \/ (i \in S /\ people'[i].ci = c)
          /\ people'[i].mail = people[i].mail
             \/ (i \in S /\ people[i].mail = None /\ people'[i].mail = m)
          /\ users[i] # None => users'[i] = users[i]

LEMMA OwnersStay ==
    ASSUME NEW S, NEW c, NEW m, Touches(S, c, m), NEW v
    PROVE  /\ ~Same(c, v) => CiOwner(v)' \subseteq CiOwner(v)
           /\ ~Same(m, v) => EmailOwner(v)' \subseteq EmailOwner(v)
BY DEF CiOwner, EmailOwner, Touches, Same

LEMMA ReadyStays ==
    ASSUME UNCHANGED <<plan, file>>, NEW k, Ready(k),
           NEW S, NEW c, NEW m, Touches(S, c, m),
           plan[k].kind = "update" => plan[k].id \notin S,
           plan[k].kind # "error" => ~Same(c, file[k].ci) /\ ~Same(m, plan[k].mail)
    PROVE  Ready(k)'
<1>1. /\ plan[k].kind # "error" => CiOwner(file[k].ci)' \subseteq CiOwner(file[k].ci)
      /\ plan[k].kind # "error" => EmailOwner(plan[k].mail)' \subseteq EmailOwner(plan[k].mail)
  BY OwnersStay
<1>3. ASSUME plan[k].kind = "create" PROVE CiOwner(file[k].ci)' = {}
  BY <1>1, <1>3 DEF Ready
<1>4. ASSUME plan[k].kind = "update"
      PROVE  /\ plan[k].id \in DOMAIN people' /\ CiOwner(file[k].ci)' \subseteq {plan[k].id}
             /\ plan[k].mail # None => people'[plan[k].id].mail = None
  BY <1>1, <1>4 DEF Ready, Touches
<1>5. ASSUME plan[k].kind # "error" PROVE EmailOwner(plan[k].mail)' = {}
  BY <1>1, <1>5 DEF Ready
<1> QED  BY <1>3, <1>4, <1>5 DEF Ready

\* Entry i becomes e with account a; the entry of a goes, and that of the account left comes.
Becomes(i, e, a) ==
    /\ i \in DOMAIN people' /\ people'[i] = e /\ users'[i] = a
    /\ \A k \in DOMAIN people : k # i /\ k # a =>
          k \in DOMAIN people' /\ people'[k] = people[k] /\ users'[k] = users[k]
    /\ \A k \in DOMAIN people' : k # i =>
          \/ k \in DOMAIN people /\ k # a
          \/ /\ i \in DOMAIN people /\ k = users[i] /\ k # a /\ k # None
             /\ people'[k] \in Entry /\ ~people'[k].profile /\ people'[k].ci = None
             /\ people'[k].mail = people[i].mail /\ people'[k].role = people[i].role
             /\ users'[k] = k

\* The account that entry i gets: the one it has, or a new one, or that of an entry of its
\* own, or none if i is new.
MayHave(i, e, a) ==
    /\ given' \in Nat /\ given' >= given /\ i \in 1..given' /\ a \in Optional(1..given')
    /\ i \in DOMAIN people \/ i > given
    /\ e.mail # None <=> a # None
    /\ e.profile <=> i # a
    /\ i \in DOMAIN people => (people[i].profile <=> e.profile)
    /\ CiOwner(e.ci) \subseteq {i}
    /\ \/ a > given /\ EmailOwner(e.mail) = {}
          /\ (i \in DOMAIN people => users[i] = None)
       \/ i \in DOMAIN people /\ a = users[i] /\ e.mail = people[i].mail
       \/ a \in Accounts /\ e.profile /\ e.mail = people[a].mail
       \/ a = None /\ i > given

LEMMA PutsDoes ==
    ASSUME TablesOK, NEW i, NEW e \in Entry, NEW a, IsEntry(e), Puts(i, e, a), MayHave(i, e, a)
    PROVE  Becomes(i, e, a)
<1> DEFINE left == {users[k] : k \in {i} \cap DOMAIN people} \ {None, a}
           ids == (DOMAIN people \ {a}) \cup {i} \cup left
<1>1. PICK name \in IF left = {} THEN {e.name} ELSE Names :
         people' = [k \in ids |->
                       IF k = i THEN e
                       ELSE IF k \in left
                            THEN [people[i] EXCEPT !.profile = FALSE, !.ci = None,
                                                   !.name = name]
                            ELSE people[k]]
  BY DEF Puts
<1>2. users' = [k \in ids |-> IF k = i THEN a ELSE IF k \in left THEN k ELSE users[k]]
  BY DEF Puts
<1>3. \A k \in left : i \in DOMAIN people /\ k = users[i] /\ k # None /\ k # a
  OBVIOUS
<1>4. \A k \in left : k # i => k \notin DOMAIN people
  <2> SUFFICES ASSUME NEW k \in left, k # i, k \in DOMAIN people PROVE FALSE
    OBVIOUS
  <2>1. i \in DOMAIN people /\ k = users[i] /\ k # None
    BY <1>3
  <2>2. ~people[k].profile
    BY <2>1 DEF TablesOK, UsersOK
  <2>3. users[k] = k
    BY <2>2 DEF TablesOK, UsersOK
  <2> QED  BY <2>1, <2>3 DEF TablesOK, UsersOK
<1>5. \A k \in left : [people[i] EXCEPT !.profile = FALSE, !.ci = None, !.name = name] \in Entry
  BY <1>1, <1>3 DEF TablesOK, Entry, Optional
<1>6. \A k \in left :
         /\ ~[people[i] EXCEPT !.profile = FALSE, !.ci = None, !.name = name].profile
         /\ [people[i] EXCEPT !.profile = FALSE, !.ci = None, !.name = name].ci = None
         /\ [people[i] EXCEPT !.profile = FALSE, !.ci = None, !.name = name].mail
               = people[i].mail
         /\ [people[i] EXCEPT !.profile = FALSE, !.ci = None, !.name = name].role
               = people[i].role
  BY <1>3 DEF TablesOK, Entry
<1> HIDE DEF left
<1>7. i \in DOMAIN people' /\ people'[i] = e /\ users'[i] = a
  BY <1>1, <1>2
<1>8. \A k \in DOMAIN people : k # i /\ k # a =>
         k \in DOMAIN people' /\ people'[k] = people[k] /\ users'[k] = users[k]
  BY <1>1, <1>2, <1>4
<1>9. ASSUME NEW k \in DOMAIN people', k # i
      PROVE  \/ k \in DOMAIN people /\ k # a
             \/ /\ i \in DOMAIN people /\ k = users[i] /\ k # a /\ k # None
                /\ people'[k] \in Entry /\ ~people'[k].profile /\ people'[k].ci = None
                /\ people'[k].mail = people[i].mail /\ people'[k].role = people[i].role
                /\ users'[k] = k
  <2>1. CASE k \in left
    <3>1. /\ people'[k] = [people[i] EXCEPT !.profile = FALSE, !.ci = None, !.name = name]
          /\ users'[k] = k
      BY <1>1, <1>2, <1>9, <2>1
    <3> QED  BY <1>3, <1>5, <1>6, <2>1, <3>1
  <2>2. CASE k \notin left
    BY <1>1, <1>9, <2>2
  <2> QED  BY <2>1, <2>2
<1> QED  BY <1>7, <1>8, <1>9 DEF Becomes

\* What the rows have made is still there under its name.
LEMMA MadeStays ==
    ASSUME TablesOK, NEW i, NEW e, NEW a, MayHave(i, e, a), Becomes(i, e, a), UNCHANGED file,
           \/ /\ UNCHANGED made
              /\ i \in DOMAIN people => e.name = people[i].name
           \/ Recounts(i, e.name)
           \/ /\ Counts(i) /\ row \in DOMAIN file /\ e.profile
              /\ e.name = file[row].name /\ i > given
    PROVE  MadeAreThere' /\ made' \in [DOMAIN file' -> SUBSET (1..given')]
<1>1. ASSUME NEW r \in DOMAIN file, NEW k \in made[r],
             k = i => e.name = file[r].name /\ i \in DOMAIN people
      PROVE  k \in DOMAIN people' /\ people'[k].profile /\ people'[k].name = file[r].name
  <2>1. k \in DOMAIN people /\ people[k].profile /\ people[k].name = file[r].name
    BY DEF TablesOK, MadeAreThere
  <2>2. CASE k = i
    BY <1>1, <2>1, <2>2 DEF Becomes, MayHave
  <2>3. CASE k # i
    <3>1. k # a
      <4>1. a > given => k # a
        BY <2>1 DEF TablesOK, MayHave
      <4>2. ASSUME i \in DOMAIN people, a = users[i] PROVE k # a
        BY <2>1, <4>2 DEF TablesOK, UsersOK
      <4>3. a \in Accounts => k # a
        BY <2>1 DEF Accounts
      <4>4. a = None => k # a
        BY <2>1, ImportAssumption DEF TablesOK
      <4> QED  BY <4>1, <4>2, <4>3, <4>4 DEF MayHave
    <3> QED  BY <2>1, <2>3, <3>1 DEF Becomes
  <2> QED  BY <2>2, <2>3
<1>2. \A r \in DOMAIN file : \A k \in made[r] : k \in DOMAIN people /\ k \in 1..given
  BY DEF TablesOK, MadeAreThere
<1>3. \A r \in DOMAIN file : made[r] \in SUBSET (1..given')
  BY <1>2 DEF MayHave, TablesOK
<1>4. i \in 1..given' /\ DOMAIN made = DOMAIN file
  BY DEF MayHave, TablesOK
<1>5. ASSUME UNCHANGED made, i \in DOMAIN people => e.name = people[i].name
      PROVE  MadeAreThere' /\ made' \in [DOMAIN file' -> SUBSET (1..given')]
  <2>1. \A r \in DOMAIN file : \A k \in made[r] :
           k = i => e.name = file[r].name /\ i \in DOMAIN people
    BY <1>2, <1>5 DEF TablesOK, MadeAreThere
  <2>2. MadeAreThere'
    BY <1>1, <1>5, <2>1 DEF MadeAreThere
  <2>3. made \in [DOMAIN file -> SUBSET (1..given')]
    BY <1>3 DEF TablesOK
  <2> QED  BY <1>5, <2>2, <2>3
<1>6. ASSUME Recounts(i, e.name)
      PROVE  MadeAreThere' /\ made' \in [DOMAIN file' -> SUBSET (1..given')]
  <2>1. made' = [r \in DOMAIN file |-> IF file[r].name = e.name THEN made[r] ELSE made[r] \ {i}]
    BY <1>6 DEF Recounts
  <2>2. \A r \in DOMAIN file :
           made'[r] \subseteq made[r] /\ (i \in made'[r] => file[r].name = e.name)
    BY <2>1
  <2>3. MadeAreThere'
    BY <1>1, <1>2, <2>2 DEF MadeAreThere
  <2> QED  BY <1>3, <2>1, <2>3
<1>7. ASSUME Counts(i), row \in DOMAIN file, e.profile, e.name = file[row].name, i > given
      PROVE  MadeAreThere' /\ made' \in [DOMAIN file' -> SUBSET (1..given')]
  <2>1. made' = [made EXCEPT ![row] = @ \cup {i}]
    BY <1>7 DEF Counts
  <2>2. \A r \in DOMAIN file : made'[r] = made[r] \/ (r = row /\ made'[r] = made[r] \cup {i})
    BY <1>4, <1>7, <2>1
  <2>3. \A r \in DOMAIN file : i \notin made[r]
    BY <1>2, <1>7 DEF TablesOK
  <2>4. MadeAreThere'
    BY <1>1, <1>7, <2>2, <2>3 DEF MadeAreThere, Becomes
  <2>5. \A r \in DOMAIN file : made'[r] \in SUBSET (1..given')
    BY <1>3, <1>4, <2>2
  <2>6. DOMAIN made' = DOMAIN file /\ made' = [r \in DOMAIN file |-> made'[r]]
    BY <1>4, <2>1
  <2> QED  BY <2>4, <2>5, <2>6
<1> QED  BY <1>5, <1>6, <1>7

\* The tables stay well formed.
LEMMA PutsKeeps ==
    ASSUME TablesOK, NEW i, NEW e \in Entry, NEW a, IsEntry(e), Puts(i, e, a),
           MayHave(i, e, a), UNCHANGED file,
           \/ /\ UNCHANGED made
              /\ i \in DOMAIN people => e.name = people[i].name
           \/ Recounts(i, e.name)
           \/ /\ Counts(i) /\ row \in DOMAIN file /\ e.profile
              /\ e.name = file[row].name /\ i > given
    PROVE  TablesOK' /\ Becomes(i, e, a)
<1>1. Becomes(i, e, a)
  BY PutsDoes
<1>2. MadeAreThere' /\ made' \in [DOMAIN file' -> SUBSET (1..given')]
  BY <1>1, MadeStays
<1>3. /\ given' \in Nat /\ given \in Nat /\ given' >= given /\ i \in 1..given'
      /\ DOMAIN people \subseteq 1..given /\ a \in Optional(1..given')
      /\ \A k \in DOMAIN people : users[k] \in Optional(1..given) /\ k \in 1..given'
      /\ None \notin Nat
  BY ImportAssumption DEF TablesOK, MayHave, UsersOK
\* The accounts of the others are theirs.
<1>4. \A k \in DOMAIN people : k # i /\ k # a => users[k] # a \/ a = None
  BY <1>3 DEF TablesOK, UsersOK, MayHave, Accounts, Optional
<1>5. DOMAIN people' \subseteq 1..given'
  BY <1>1, <1>3 DEF Becomes, Optional
<1>6. \A k \in DOMAIN people' : people'[k] \in Entry /\ IsEntry(people'[k])
  <2> SUFFICES ASSUME NEW k \in DOMAIN people', k # i PROVE people'[k] \in Entry /\ IsEntry(people'[k])
    BY <1>1 DEF Becomes
  <2>1. CASE k \in DOMAIN people /\ k # a
    BY <1>1, <2>1 DEF Becomes, TablesOK
  <2>2. ASSUME ~(k \in DOMAIN people /\ k # a) PROVE people'[k] \in Entry /\ IsEntry(people'[k])
    <3>1. /\ i \in DOMAIN people /\ k = users[i] /\ k # None
          /\ people'[k] \in Entry /\ ~people'[k].profile /\ people'[k].ci = None
          /\ people'[k].mail = people[i].mail
      BY <1>1, <2>2 DEF Becomes
    <3> QED  BY <3>1 DEF TablesOK, UsersOK, IsEntry
  <2> QED  BY <2>1, <2>2
<1>7. Unique(people')
  <2>1. \A k \in DOMAIN people : k # i => (e.ci # None => people[k].ci # e.ci)
    BY DEF MayHave, CiOwner
  <2>2. \A k \in DOMAIN people : k # i /\ k # a => (e.mail # None => people[k].mail # e.mail)
    BY <1>3 DEF MayHave, EmailOwner, TablesOK, Unique, Accounts
  <2>3. ASSUME i \in DOMAIN people, users[i] # None, users[i] # a
        PROVE  e.mail # None => e.mail # people[i].mail
    BY <1>3, <2>3 DEF MayHave, TablesOK, Unique, Accounts, UsersOK
  <2>4. ASSUME NEW j \in DOMAIN people', NEW k \in DOMAIN people', j # k, k # i
        PROVE  /\ people'[j].ci # None => people'[j].ci # people'[k].ci
               /\ people'[j].mail # None => people'[j].mail # people'[k].mail
    <3>1. CASE k \in DOMAIN people /\ k # a
      <4>1. people'[k] = people[k]
        BY <1>1, <2>4, <3>1 DEF Becomes
      <4>2. CASE j = i
        BY <1>1, <2>1, <2>2, <2>4, <3>1, <4>1, <4>2 DEF Becomes
      <4>3. CASE j # i /\ j \in DOMAIN people /\ j # a
        BY <1>1, <2>4, <3>1, <4>1, <4>3 DEF Becomes, TablesOK, Unique
      <4>4. ASSUME j # i, ~(j \in DOMAIN people /\ j # a)
            PROVE  /\ people'[j].ci # None => people'[j].ci # people'[k].ci
                   /\ people'[j].mail # None => people'[j].mail # people'[k].mail
        <5>1. people'[j].ci = None /\ people'[j].mail = people[i].mail /\ i \in DOMAIN people
          BY <1>1, <4>4 DEF Becomes
        <5> QED  BY <2>4, <3>1, <4>1, <5>1 DEF TablesOK, Unique
      <4> QED  BY <4>2, <4>3, <4>4
    <3>2. ASSUME ~(k \in DOMAIN people /\ k # a)
          PROVE  /\ people'[j].ci # None => people'[j].ci # people'[k].ci
                 /\ people'[j].mail # None => people'[j].mail # people'[k].mail
      <4>1. /\ people'[k].ci = None /\ people'[k].mail = people[i].mail /\ i \in DOMAIN people
            /\ k = users[i] /\ k # a /\ k # None
        BY <1>1, <2>4, <3>2 DEF Becomes
      <4>2. CASE j = i
        BY <1>1, <2>3, <4>1, <4>2 DEF Becomes
      <4>3. CASE j # i /\ j \in DOMAIN people /\ j # a
        <5>1. people'[j] = people[j]
          BY <1>1, <4>3 DEF Becomes
        <5> QED  BY <4>1, <4>3, <5>1 DEF TablesOK, Unique
      <4>4. ASSUME j # i, ~(j \in DOMAIN people /\ j # a) PROVE FALSE
        BY <1>1, <2>4, <4>1, <4>4 DEF Becomes
      <4> QED  BY <4>1, <4>2, <4>3, <4>4
    <3> QED  BY <3>1, <3>2
  <2> QED  BY <2>4 DEF Unique
<1>8. UsersOK'
  <2>1. /\ DOMAIN users' = DOMAIN people'
        /\ users' = [k \in DOMAIN people' |-> users'[k]]
    BY DEF Puts
  <2>2. \A k \in DOMAIN people' :
           /\ users'[k] \in Optional(1..given')
           /\ people'[k].mail # None <=> users'[k] # None
           /\ ~people'[k].profile => users'[k] = k
    <3> SUFFICES ASSUME NEW k \in DOMAIN people'
                 PROVE  /\ users'[k] \in Optional(1..given')
                        /\ people'[k].mail # None <=> users'[k] # None
                        /\ ~people'[k].profile => users'[k] = k
      OBVIOUS
    <3>1. CASE k = i
      BY <1>1, <1>3, <3>1 DEF Becomes, MayHave
    <3>2. CASE k # i /\ k \in DOMAIN people /\ k # a
      <4>1. users'[k] = users[k] /\ people'[k] = people[k]
        BY <1>1, <3>2 DEF Becomes
      <4> QED  BY <1>3, <3>2, <4>1 DEF Optional, TablesOK, UsersOK
    <3>3. ASSUME k # i, ~(k \in DOMAIN people /\ k # a)
          PROVE  /\ users'[k] \in Optional(1..given')
                 /\ people'[k].mail # None <=> users'[k] # None
                 /\ ~people'[k].profile => users'[k] = k
      <4>1. /\ i \in DOMAIN people /\ k = users[i] /\ k # None /\ users'[k] = k
            /\ people'[k].mail = people[i].mail
        BY <1>1, <3>3 DEF Becomes
      <4> QED  BY <1>3, <1>5, <4>1 DEF Optional, TablesOK, UsersOK
    <3> QED  BY <3>1, <3>2, <3>3
  <2>3. ASSUME NEW j \in DOMAIN people', NEW k \in DOMAIN people', users'[j] # None,
               users'[j] = users'[k], j # k, k # i
        PROVE  FALSE
    <3>1. CASE k \in DOMAIN people /\ k # a
      <4>1. users'[k] = users[k]
        BY <1>1, <2>3, <3>1 DEF Becomes
      <4>2. CASE j = i
        BY <1>1, <1>4, <2>3, <3>1, <4>1, <4>2 DEF Becomes
      <4>3. CASE j # i /\ j \in DOMAIN people /\ j # a
        BY <1>1, <2>3, <3>1, <4>1, <4>3 DEF Becomes, TablesOK, UsersOK
      <4>4. ASSUME j # i, ~(j \in DOMAIN people /\ j # a) PROVE FALSE
        <5>1. users'[j] = users[i] /\ i \in DOMAIN people
          BY <1>1, <4>4 DEF Becomes
        <5> QED  BY <2>3, <3>1, <4>1, <5>1 DEF TablesOK, UsersOK
      <4> QED  BY <4>2, <4>3, <4>4
    <3>2. ASSUME ~(k \in DOMAIN people /\ k # a) PROVE FALSE
      <4>1. k = users[i] /\ k # a /\ users'[k] = k /\ i \in DOMAIN people
        BY <1>1, <2>3, <3>2 DEF Becomes
      <4>2. CASE j = i
        BY <1>1, <2>3, <4>1, <4>2 DEF Becomes
      <4>3. CASE j # i /\ j \in DOMAIN people /\ j # a
        <5>1. users'[j] = users[j]
          BY <1>1, <4>3 DEF Becomes
        <5> QED  BY <2>3, <4>1, <4>3, <5>1 DEF TablesOK, UsersOK
      <4>4. ASSUME j # i, ~(j \in DOMAIN people /\ j # a) PROVE FALSE
        BY <1>1, <2>3, <4>1, <4>4 DEF Becomes
      <4> QED  BY <4>2, <4>3, <4>4
    <3> QED  BY <3>1, <3>2
  <2>4. ASSUME NEW j \in DOMAIN people', NEW k \in DOMAIN people', people'[j].profile
        PROVE  users'[k] # j
    <3>1. \/ j = i /\ e.profile /\ i # a
          \/ j # i /\ j # a /\ j \in DOMAIN people /\ people[j].profile
      BY <1>1, <2>4 DEF Becomes, MayHave
    <3>2. CASE k = i
      <4>1. users'[k] = a
        BY <1>1, <3>2 DEF Becomes
      <4> QED  BY <3>1, <4>1
    <3>3. CASE k # i /\ k \in DOMAIN people /\ k # a
      <4>1. users'[k] = users[k]
        BY <1>1, <3>3 DEF Becomes
      <4>2. CASE i \in DOMAIN people
        BY <3>1, <3>3, <4>1, <4>2 DEF TablesOK, UsersOK, MayHave
      <4>3. CASE i > given
        BY <1>3, <3>1, <3>3, <4>1, <4>3 DEF TablesOK, UsersOK, Optional
      <4> QED  BY <4>2, <4>3 DEF MayHave
    <3>4. ASSUME k # i, ~(k \in DOMAIN people /\ k # a) PROVE users'[k] # j
      <4>1. i \in DOMAIN people /\ k = users[i] /\ users'[k] = k
        BY <1>1, <3>4 DEF Becomes
      <4>2. CASE j = i
        BY <3>4, <4>1, <4>2
      <4>3. CASE j \in DOMAIN people /\ people[j].profile
        BY <4>1, <4>3 DEF TablesOK, UsersOK
      <4> QED  BY <3>1, <4>2, <4>3
    <3> QED  BY <3>2, <3>3, <3>4
  <2>5. users' \in [DOMAIN people' -> Optional(1..given')]
    BY <2>1, <2>2
  <2> QED  BY <2>2, <2>3, <2>4, <2>5 DEF UsersOK
<1> QED  BY <1>1, <1>2, <1>3, <1>5, <1>6, <1>7, <1>8 DEF TablesOK

\* A row gives an entry no account but a new one, so that no entry goes.
LEMMA PutsTouches ==
    ASSUME TablesOK, NEW i, NEW e \in Entry, NEW a, MayHave(i, e, a), Becomes(i, e, a),
           a > given \/ (i \in DOMAIN people /\ a = users[i]) \/ a = None,
           NEW S, NEW c, NEW m,
           i \notin DOMAIN people => e.ci \in {c, None} /\ e.mail \in {m, None},
           i \in DOMAIN people =>
              /\ e.ci = people[i].ci \/ (i \in S /\ e.ci = c)
              /\ e.mail = people[i].mail \/ (i \in S /\ people[i].mail = None /\ e.mail = m)
              /\ a = None => users[i] = None
    PROVE  Touches(S, c, m)
<1>1. \A k \in DOMAIN people : k = a => k = i
  BY ImportAssumption DEF TablesOK, UsersOK, Optional
<1>2. \A k \in DOMAIN people : k # i => k # a
  BY <1>1
<1>3. i \in DOMAIN people /\ users[i] # None => a = users[i]
  BY DEF MayHave, TablesOK, UsersOK, Accounts
<1>4. ASSUME NEW k \in DOMAIN people', k \notin DOMAIN people, k # i PROVE FALSE
  BY <1>3, <1>4 DEF Becomes
<1>5. DOMAIN people \subseteq DOMAIN people' /\ given' >= given
  BY <1>2 DEF Becomes, MayHave
<1>6. \A k \in DOMAIN people' \ DOMAIN people :
         k > given /\ people'[k].ci \in {c, None} /\ people'[k].mail \in {m, None}
  BY <1>4 DEF Becomes, MayHave
<1>7. ASSUME NEW k \in DOMAIN people
      PROVE  /\ people'[k].profile = people[k].profile
             /\ people'[k].ci = people[k].ci \/ (k \in S /\ people'[k].ci = c)
             /\ people'[k].mail = people[k].mail
                \/ (k \in S /\ people[k].mail = None /\ people'[k].mail = m)
             /\ users[k] # None => users'[k] = users[k]
  <2>1. CASE k = i
    <3>1. people[k].profile \in BOOLEAN /\ e.profile \in BOOLEAN
      BY DEF TablesOK, Entry
    <3> QED  BY <1>3, <2>1, <3>1 DEF Becomes, MayHave
  <2>2. CASE k # i
    BY <1>2, <2>2 DEF Becomes
  <2> QED  BY <2>1, <2>2
<1> QED  BY <1>5, <1>6, <1>7 DEF Touches

LEMMA DeleteDoes ==
    ASSUME TablesOK, NEW i \in DOMAIN people,
           people' = [j \in DOMAIN people \ {i} |-> people[j]],
           users' = [j \in DOMAIN people \ {i} |-> users[j]],
           made' = [r \in DOMAIN file |-> made[r] \ {i}], UNCHANGED <<given, file>>
    PROVE  TablesOK'
<1>1. DOMAIN people' = DOMAIN people \ {i} /\ \A j \in DOMAIN people' : people'[j] = people[j]
  OBVIOUS
<1>2. made' \in [DOMAIN file' -> SUBSET (1..given')] /\ MadeAreThere'
  BY <1>1 DEF TablesOK, MadeAreThere
<1>3. Unique(people')
  BY <1>1 DEF TablesOK, Unique
<1>4. UsersOK'
  BY <1>1 DEF TablesOK, UsersOK
<1> QED  BY <1>1, <1>2, <1>3, <1>4 DEF TablesOK

-------------------------------------------------------------------------------
(* The calls *)

LEMMA TablesAre == ImportInv => TablesOK
BY DEF ImportInv, ImportTypeOK, TablesOK

\* What a step of the row that runs does to the tables and where it goes.
RowDoes ==
    /\ TablesOK'
    /\ UNCHANGED <<plan, imports, file, others, stale, edited>>
    /\ \E S, c, m :
          /\ Touches(S, c, m) /\ c \in {None, r0.ci} /\ m \in {None, p0.mail}
          /\ p0.kind = "error" => c = None /\ m = None
          /\ p0.kind # "update" => S = {}
          /\ S \subseteq {p0.id}
    /\ \A k \in DOMAIN file : k # row => made'[k] \subseteq made[k]
    /\ \A a, b \in made'[row] : a = b
    /\ \/ /\ \/ Reports("ok") /\ (Done(r0, people') \/ saved \in edited)
             \/ Reports("error") \/ Reports("failed")
             \/ Reports("refused") /\ (stale \/ (p0.kind = "update" /\ ~IsEmployee(p0.id)))
       \/ /\ Calls("account", p0.id, None)
          /\ p0.kind = "update" /\ p0.mail # None /\ p0.id \in 1..given'
          /\ p0.id \in DOMAIN people' /\ Saved(people', p0.id, r0)
          /\ ~stale => /\ people'[p0.id].mail = None
                       /\ \A i \in DOMAIN people' : people'[i].mail # p0.mail
       \/ \E i, a : /\ Calls("role", i, a) /\ r0.role /\ i \in 1..given' /\ a \in 1..given'
                    /\ RoleFor(people', users', i, a)

\* What holds of the row that runs.
LEMMA RowIs ==
    ASSUME ImportInv, at # "closed"
    PROVE  /\ row \in DOMAIN file /\ row \in DOMAIN plan /\ DOMAIN plan = DOMAIN file
           /\ r0 \in Row /\ Fits(r0, p0) /\ row \in Nat
           /\ ~stale /\ at = "row" => Ready(row)
           /\ p0.kind = "create" /\ at = "row" => made[row] = {}
           /\ \A a, b \in made[row] : a = b
<1>1. /\ row = Len(results) + 1 /\ row <= Len(file) /\ DOMAIN plan = DOMAIN file
      /\ Len(results) \in Nat /\ Len(file) \in Nat /\ DOMAIN file = 1..Len(file)
  BY Files DEF ImportInv, ImportTypeOK
<1>2. row \in DOMAIN file
  BY <1>1
<1>3. at = "row" => Ahead(row)
  BY <1>1, <1>2 DEF Ahead
<1> QED  BY <1>1, <1>2, <1>3, Files
         DEF ImportInv, PlanOK, RestReady, MadeOnce, NobodyTwice, r0, p0

\* The tables stay, and the row is over.
LEMMA StaysPut ==
    ASSUME ImportInv, at # "closed", UNCHANGED tables,
           UNCHANGED <<plan, imports, file, others, stale, edited>>,
           \/ Reports("error") \/ Reports("failed")
           \/ Reports("refused") /\ (stale \/ (p0.kind = "update" /\ ~IsEmployee(p0.id)))
    PROVE  RowDoes
<1>1. people' = people /\ users' = users /\ given' = given /\ made' = made
  BY DEF tables
<1>2. TablesOK'
  BY <1>1, TablesAre DEF TablesOK, UsersOK, MadeAreThere
<1>3. Touches({}, None, None)
  BY <1>1, TablesAre DEF Touches, TablesOK
<1> QED  BY <1>1, <1>2, <1>3, RowIs DEF RowDoes

LEMMA SkipDoes == ImportInv /\ SkipRow => RowDoes
BY StaysPut DEF SkipRow, Runs

\* An account of a new id is nobody's yet.
LEMMA Nobodys ==
    ASSUME TablesOK, NEW i, NEW e, NEW a \in Nat, Becomes(i, e, a), a > given, NEW k \in DOMAIN people',
           users'[k] = a, i \in DOMAIN people => users[i] = None
    PROVE  k = i
<1> SUFFICES ASSUME k # i PROVE FALSE
  OBVIOUS
<1>1. CASE k \in DOMAIN people /\ k # a
  BY <1>1, ImportAssumption DEF Becomes, TablesOK, UsersOK, Optional
<1>2. ASSUME ~(k \in DOMAIN people /\ k # a) PROVE FALSE
  BY <1>2 DEF Becomes
<1> QED  BY <1>1, <1>2

LEMMA CreateWithUserDoes == ImportInv /\ CreateWithUser => RowDoes
<1> SUFFICES ASSUME ImportInv, CreateWithUser PROVE RowDoes
  OBVIOUS
<1> DEFINE e == [profile |-> TRUE, ci |-> r0.ci, name |-> r0.name, mail |-> r0.mail,
                 role |-> FALSE]
           x == [e EXCEPT !.profile = FALSE, !.ci = None]
           a == given + 1
           i == given + 2
           taken == CiTaken(r0.ci, None) \/ MailTaken(r0.mail)
<1>1. /\ at = "row" /\ p0.kind = "create" /\ p0.mail # None
      /\ UNCHANGED <<plan, imports, file, others, stale, edited>>
      /\ \/ taken /\ Refused
         \/ /\ ~taken /\ given' = i /\ Puts(i, e, a) /\ Counts(i)
            /\ ThenRoles(i, a) \/ Reports("failed")
         \/ ~taken /\ given' = a /\ Puts(a, x, a) /\ UNCHANGED made /\ Reports("failed")
         \/ Fails
  BY DEF CreateWithUser, Runs
<1>2. /\ row \in DOMAIN file /\ r0 \in Row /\ Fits(r0, p0) /\ (~stale => Ready(row))
      /\ made[row] = {} /\ TablesOK /\ given \in Nat /\ None \notin Nat
  BY <1>1, RowIs, TablesAre, ImportAssumption DEF TablesOK
<1>3. p0.mail = r0.mail /\ r0.mail \in Mails
  BY <1>1, <1>2 DEF Fits, Row, Optional
<1>4. /\ e \in Entry /\ IsEntry(e) /\ e.ci = r0.ci /\ e.mail = p0.mail
      /\ e.profile /\ e.name = file[row].name
      /\ x \in Entry /\ IsEntry(x) /\ x.ci = None /\ x.mail = p0.mail /\ ~x.profile
  BY <1>1, <1>2, <1>3 DEF Entry, Row, IsEntry, Optional, r0
<1>5. /\ a \in Nat /\ i \in Nat /\ a > given /\ i > given /\ i # a
      /\ a \in 1..a /\ a \in 1..i /\ i \in 1..i
      /\ \A k \in DOMAIN people : k <= given /\ k # None
      /\ a \notin DOMAIN people /\ i \notin DOMAIN people /\ CiOwner(None) = {}
  BY <1>2 DEF TablesOK, CiOwner
<1>6. ~taken => CiOwner(r0.ci) = {} /\ EmailOwner(p0.mail) = {}
  BY <1>2, <1>3, <1>5 DEF CiTaken, MailTaken, CiOwner
<1> HIDE DEF e, x, a, i
<1>7. CASE taken /\ Refused
  <2>1. stale
    BY <1>1, <1>2, <1>3, <1>7 DEF Ready, CiTaken, MailTaken, r0, p0
  <2> QED  BY <1>1, <1>7, <2>1, StaysPut DEF Refused
<1>8. CASE Fails
  BY <1>1, <1>8, StaysPut DEF Fails
<1>9. ASSUME ~taken, given' = i, Puts(i, e, a), Counts(i), ThenRoles(i, a) \/ Reports("failed")
      PROVE  RowDoes
  <2>1. MayHave(i, e, a)
    BY <1>1, <1>2, <1>4, <1>5, <1>6, <1>9 DEF MayHave, Optional
  <2>2. TablesOK' /\ Becomes(i, e, a)
    BY <1>1, <1>2, <1>4, <1>5, <1>9, <2>1, PutsKeeps
  <2>3. Touches({}, r0.ci, p0.mail)
    BY <1>2, <1>4, <1>5, <2>1, <2>2, PutsTouches
  <2>4. /\ \A k \in DOMAIN file : k # row => made'[k] \subseteq made[k]
        /\ \A b, c \in made'[row] : b = c
    BY <1>2, <1>9 DEF Counts, TablesOK
  <2>5. Saved(people', i, r0) /\ people'[i].mail # None /\ i \in DOMAIN people'
    BY <1>1, <1>4, <2>2 DEF Saved, Becomes, r0
  <2>6. ~r0.role => Done(r0, people')
    BY <2>5 DEF Done, Saved
  <2>7. RoleFor(people', users', i, a)
    <3>1. \A k \in DOMAIN people' : users'[k] = a => k = i
      BY <1>2, <1>5, <2>2, Nobodys
    <3> QED  BY <2>2, <2>5, <3>1 DEF Becomes, RoleFor
  <2> QED  BY <1>1, <1>5, <1>9, <2>2, <2>3, <2>4, <2>6, <2>7 DEF RowDoes, ThenRoles
<1>10. ASSUME ~taken, given' = a, Puts(a, x, a), UNCHANGED made, Reports("failed")
       PROVE  RowDoes
  <2>1. MayHave(a, x, a)
    BY <1>1, <1>2, <1>4, <1>5, <1>6, <1>10 DEF MayHave, Optional
  <2>2. TablesOK' /\ Becomes(a, x, a)
    BY <1>1, <1>2, <1>4, <1>5, <1>10, <2>1, PutsKeeps
  <2>3. Touches({}, None, p0.mail)
    BY <1>2, <1>4, <1>5, <2>1, <2>2, PutsTouches
  <2> QED  BY <1>1, <1>2, <1>10, <2>2, <2>3 DEF RowDoes
<1> QED  BY <1>1, <1>7, <1>8, <1>9, <1>10

LEMMA CreateEmployeeDoes == ImportInv /\ CreateEmployeeRow => RowDoes
<1> SUFFICES ASSUME ImportInv, CreateEmployeeRow PROVE RowDoes
  OBVIOUS
<1> DEFINE e == [profile |-> TRUE, ci |-> r0.ci, name |-> r0.name, mail |-> None,
                 role |-> FALSE]
           i == given + 1
<1>1. /\ at = "row" /\ p0.kind = "create" /\ p0.mail = None
      /\ UNCHANGED <<plan, imports, file, others, stale, edited>>
      /\ \/ CiTaken(r0.ci, None) /\ Refused
         \/ /\ ~CiTaken(r0.ci, None) /\ given' = i /\ Puts(i, e, None) /\ Counts(i)
            /\ Reports("ok") \/ Reports("failed")
         \/ Fails
  BY DEF CreateEmployeeRow, Runs
<1>2. /\ row \in DOMAIN file /\ r0 \in Row /\ (~stale => Ready(row)) /\ made[row] = {}
      /\ TablesOK /\ given \in Nat /\ None \notin Nat
  BY <1>1, RowIs, TablesAre, ImportAssumption DEF TablesOK
<1>3. r0.mail = None /\ ~r0.role
  BY <1>1, RowIs DEF Fits
<1>4. /\ e \in Entry /\ IsEntry(e) /\ e.ci = r0.ci /\ e.mail = None
      /\ e.profile /\ e.name = file[row].name
  BY <1>2 DEF Entry, Row, IsEntry, Optional, r0
<1>5. /\ i \in Nat /\ i > given /\ i \in 1..i /\ i \notin DOMAIN people
      /\ \A k \in DOMAIN people : k <= given /\ k # None
  BY <1>2 DEF TablesOK
<1> HIDE DEF e, i
<1>6. CASE CiTaken(r0.ci, None) /\ Refused
  <2>1. stale
    BY <1>1, <1>2, <1>6 DEF Ready, CiTaken, r0, p0
  <2> QED  BY <1>1, <1>6, <2>1, StaysPut DEF Refused
<1>7. CASE Fails
  BY <1>1, <1>7, StaysPut DEF Fails
<1>8. ASSUME ~CiTaken(r0.ci, None), given' = i, Puts(i, e, None), Counts(i),
             Reports("ok") \/ Reports("failed")
      PROVE  RowDoes
  <2>1. MayHave(i, e, None)
    <3>1. CiOwner(r0.ci) = {}
      BY <1>5, <1>8 DEF CiTaken, CiOwner
    <3> QED  BY <1>2, <1>4, <1>5, <1>8, <3>1 DEF MayHave, Optional
  <2>2. TablesOK' /\ Becomes(i, e, None)
    BY <1>1, <1>2, <1>4, <1>5, <1>8, <2>1, PutsKeeps
  <2>3. Touches({}, r0.ci, None)
    BY <1>2, <1>4, <1>5, <2>1, <2>2, PutsTouches
  <2>4. /\ \A k \in DOMAIN file : k # row => made'[k] \subseteq made[k]
        /\ \A b, c \in made'[row] : b = c
    BY <1>2, <1>8 DEF Counts, TablesOK
  <2>5. Done(r0, people')
    BY <1>3, <1>4, <2>2 DEF Done, Becomes, r0
  <2> QED  BY <1>1, <1>8, <2>2, <2>3, <2>4, <2>5 DEF RowDoes
<1> QED  BY <1>1, <1>6, <1>7, <1>8

LEMMA UpdateRowDoes == ImportInv /\ UpdateRow => RowDoes
<1> SUFFICES ASSUME ImportInv, UpdateRow PROVE RowDoes
  OBVIOUS
<1> DEFINE i == p0.id
           takes == IsEmployee(i) /\ ~CiTaken(r0.ci, i)
           e == [people[i] EXCEPT !.name = r0.name, !.ci = IF r0.ci = None THEN @ ELSE r0.ci]
<1>1. /\ at = "row" /\ p0.kind = "update"
      /\ UNCHANGED <<plan, imports, file, others, stale, edited>>
      /\ \/ ~takes /\ Refused
         \/ /\ takes /\ UNCHANGED given /\ Recounts(i, r0.name) /\ Puts(i, e, users[i])
            /\ \/ p0.mail # None /\ Calls("account", i, None)
               \/ p0.mail = None /\ p0.user # None /\ ThenRoles(i, p0.user)
               \/ p0.mail = None /\ p0.user = None /\ Reports("ok")
               \/ Reports("failed")
         \/ Fails
  BY DEF UpdateRow, Runs
<1>2. /\ row \in DOMAIN file /\ r0 \in Row /\ Fits(r0, p0) /\ (~stale => Ready(row))
      /\ row \in DOMAIN plan /\ TablesOK /\ given \in Nat
      /\ \A a, b \in made[row] : a = b
  BY <1>1, RowIs, TablesAre DEF TablesOK
<1>3. CASE ~takes /\ Refused
  <2>1. stale \/ ~IsEmployee(p0.id)
    BY <1>1, <1>2, <1>3 DEF Ready, CiTaken, r0, p0
  <2> QED  BY <1>1, <1>3, <2>1, StaysPut DEF Refused
<1>4. CASE Fails
  BY <1>1, <1>4, StaysPut DEF Fails
<1>5. ASSUME takes, UNCHANGED given, Recounts(i, r0.name), Puts(i, e, users[i]),
             \/ p0.mail # None /\ Calls("account", i, None)
             \/ p0.mail = None /\ p0.user # None /\ ThenRoles(i, p0.user)
             \/ p0.mail = None /\ p0.user = None /\ Reports("ok")
             \/ Reports("failed")
      PROVE  RowDoes
  <2>1. /\ i \in DOMAIN people /\ people[i] \in Entry /\ IsEntry(people[i]) /\ people[i].profile
        /\ i \in 1..given /\ users[i] \in Optional(1..given) /\ i # users[i]
        /\ people[i].mail # None <=> users[i] # None
    BY <1>2, <1>5 DEF TablesOK, UsersOK, IsEmployee
  <2>2. /\ e \in Entry /\ IsEntry(e) /\ e.profile /\ e.name = r0.name
        /\ e.ci = (IF r0.ci = None THEN people[i].ci ELSE r0.ci)
        /\ e.mail = people[i].mail
    BY <1>2, <2>1 DEF Entry, Row, IsEntry
  <2>3. CiOwner(e.ci) \subseteq {i}
    BY <1>2, <1>5, <2>1, <2>2 DEF CiTaken, CiOwner, TablesOK, Unique
  <2> HIDE DEF takes, e
  <2>4. MayHave(i, e, users[i])
    BY <1>2, <1>5, <2>1, <2>2, <2>3 DEF MayHave
  <2>5. TablesOK' /\ Becomes(i, e, users[i])
    BY <1>1, <1>2, <1>5, <2>2, <2>4, PutsKeeps
  <2>6. Touches({i}, r0.ci, None)
    BY <1>2, <2>1, <2>2, <2>4, <2>5, PutsTouches
  <2>7. Saved(people', i, r0) /\ i \in DOMAIN people' /\ people'[i].mail = people[i].mail
    BY <2>2, <2>5 DEF Becomes, Saved
  <2>8. /\ \A k \in DOMAIN file : made'[k] \subseteq made[k]
        /\ \A a, b \in made'[row] : a = b
    BY <1>2, <1>5 DEF Recounts
  <2>9. ASSUME p0.mail # None, ~stale
        PROVE  /\ people'[i].mail = None
               /\ \A k \in DOMAIN people' : people'[k].mail # p0.mail
    <3>1. people[i].mail = None /\ EmailOwner(p0.mail) = {}
      BY <1>1, <1>2, <2>9 DEF Ready, p0
    <3>2. \A k \in DOMAIN people : people[k].mail # p0.mail
      BY <2>9, <3>1 DEF EmailOwner
    <3>3. \A k \in DOMAIN people' : people'[k].mail \in {None} \cup {people[j].mail : j \in DOMAIN people}
      BY <2>6 DEF Touches
    <3> QED  BY <2>7, <2>9, <3>1, <3>2, <3>3
  <2>10. p0.user # None => /\ people[i].mail # None
                           /\ users[i] = p0.user \/ i \in edited
    BY <1>1, <1>2, <1>5 DEF ImportInv, UsersKept, p0, takes
  <2>11. ASSUME p0.mail = None, p0.user = None PROVE Done(r0, people')
    <3>1. r0.mail = None /\ ~r0.role
      BY <1>1, <1>2, <2>11 DEF Fits
    <3> QED  BY <2>7, <3>1 DEF Done, Saved
  <2>12. p0.user # None /\ ~r0.role => Done(r0, people')
    BY <2>7, <2>10 DEF Done, Saved
  <2>13. ASSUME p0.user # None PROVE p0.user \in 1..given /\ RoleFor(people', users', i, p0.user)
    <3>1. p0.user \in 1..given
      BY <1>1, <1>2, <2>13 DEF Fits, Optional
    <3>2. ~stale => edited = {}
      BY DEF ImportInv, Unedited
    <3>3. users'[i] = users[i]
      BY <2>5 DEF Becomes
    <3>4. \A k \in DOMAIN people' : users'[k] = p0.user /\ users[i] = p0.user => k = i
      BY <2>5, <2>7, <2>13, <3>3 DEF TablesOK, UsersOK
    <3> QED  BY <2>7, <2>10, <2>13, <3>1, <3>2, <3>3, <3>4 DEF RoleFor
  <2>14. given' = given
    BY <1>5
  <2> QED  BY <1>1, <1>5, <2>1, <2>5, <2>6, <2>7, <2>8, <2>9, <2>11, <2>12, <2>13, <2>14
           DEF RowDoes, ThenRoles
<1> QED  BY <1>1, <1>3, <1>4, <1>5

LEMMA CreateAccountDoes == ImportInv /\ CreateAccount => RowDoes
<1> SUFFICES ASSUME ImportInv, CreateAccount PROVE RowDoes
  OBVIOUS
<1> DEFINE i == p0.id
           a == given + 1
           takes == IsEmployee(i) /\ people[i].mail = None /\ ~MailTaken(p0.mail)
           e == [people[i] EXCEPT !.mail = p0.mail]
           x == [people[i] EXCEPT !.profile = FALSE, !.ci = None, !.mail = p0.mail]
<1>1. /\ at = "account"
      /\ UNCHANGED <<plan, imports, file, others, stale, edited>>
      /\ \/ ~takes /\ Refused
         \/ /\ takes /\ given' = a /\ UNCHANGED made /\ Puts(i, e, a)
            /\ ThenRoles(i, a) \/ Reports("failed")
         \/ takes /\ given' = a /\ UNCHANGED made /\ Puts(a, x, a) /\ Reports("failed")
         \/ Fails
  BY DEF CreateAccount, Runs
<1>2. /\ row \in DOMAIN file /\ r0 \in Row /\ Fits(r0, p0) /\ TablesOK /\ given \in Nat
      /\ p0.kind = "update" /\ p0.mail # None /\ saved = i
      /\ \A b, c \in made[row] : b = c
      /\ IsEmployee(i) => Saved(people, i, r0) \/ saved \in edited
      /\ ~stale => /\ IsEmployee(i) /\ people[i].mail = None
                   /\ EmailOwner(p0.mail) = {}
  BY <1>1, RowIs, TablesAre DEF ImportInv, MidRow, TablesOK
<1>3. p0.mail \in Mails
  BY <1>2 DEF Fits, Row, Optional
<1>4. CASE ~takes /\ Refused
  <2>1. stale
    BY <1>2, <1>4 DEF MailTaken
  <2> QED  BY <1>1, <1>4, <2>1, StaysPut DEF Refused
<1>5. CASE Fails
  BY <1>1, <1>5, StaysPut DEF Fails
<1>6. ASSUME takes
      PROVE  /\ i \in DOMAIN people /\ people[i] \in Entry /\ IsEntry(people[i])
             /\ people[i].profile /\ i \in 1..given /\ i # a /\ a \notin DOMAIN people
             /\ users[i] = None /\ EmailOwner(p0.mail) = {} /\ CiOwner(people[i].ci) \subseteq {i}
             /\ a \in Nat /\ a > given /\ CiOwner(None) = {} /\ a \in 1..a /\ i \in 1..a
  BY <1>2, <1>6 DEF TablesOK, UsersOK, IsEmployee, MailTaken, CiOwner, Unique
<1> HIDE DEF a
<1>7. ASSUME takes, given' = a, UNCHANGED made, Puts(i, e, a),
             ThenRoles(i, a) \/ Reports("failed")
      PROVE  RowDoes
  <2>1. /\ e \in Entry /\ IsEntry(e) /\ e.profile /\ e.name = people[i].name
        /\ e.ci = people[i].ci /\ e.mail = p0.mail
    BY <1>2, <1>3, <1>6, <1>7 DEF Entry, IsEntry, Optional
  <2> HIDE DEF takes, e
  <2>2. MayHave(i, e, a)
    BY <1>2, <1>6, <1>7, <2>1, ImportAssumption DEF MayHave, Optional
  <2>3. TablesOK' /\ Becomes(i, e, a)
    BY <1>1, <1>2, <1>7, <2>1, <2>2, PutsKeeps
  <2>4. Touches({i}, None, p0.mail)
    BY <1>2, <1>6, <1>7, <2>1, <2>2, <2>3, PutsTouches DEF takes
  <2>5. Saved(people', i, r0) \/ i \in edited
    BY <1>2, <1>7, <2>1, <2>3 DEF Saved, Becomes, takes
  <2>6. people'[i].mail # None /\ i \in DOMAIN people' /\ users'[i] = a
    BY <1>2, <2>1, <2>3 DEF Becomes
  <2>7. ~r0.role => Done(r0, people') \/ saved \in edited
    BY <1>2, <2>5, <2>6 DEF Done, Saved
  <2>8. RoleFor(people', users', i, a)
    <3>1. \A k \in DOMAIN people' : users'[k] = a => k = i
      BY <1>2, <1>6, <1>7, <2>3, Nobodys
    <3> QED  BY <2>5, <2>6, <3>1 DEF RoleFor
  <2> QED  BY <1>1, <1>2, <1>6, <1>7, <2>3, <2>4, <2>7, <2>8 DEF RowDoes, ThenRoles
<1>8. ASSUME takes, given' = a, UNCHANGED made, Puts(a, x, a), Reports("failed")
      PROVE  RowDoes
  <2>1. x \in Entry /\ x.ci = None /\ x.mail = p0.mail /\ IsEntry(x) /\ ~x.profile
    BY <1>2, <1>3, <1>6, <1>8 DEF Entry, IsEntry, Optional
  <2> HIDE DEF takes, x
  <2>2. MayHave(a, x, a)
    BY <1>2, <1>6, <1>8, <2>1, ImportAssumption DEF MayHave, Optional
  <2>3. TablesOK' /\ Becomes(a, x, a)
    BY <1>1, <1>2, <1>6, <1>8, <2>1, <2>2, PutsKeeps
  <2>4. Touches({}, None, p0.mail)
    BY <1>2, <1>6, <1>8, <2>1, <2>2, <2>3, PutsTouches
  <2> QED  BY <1>1, <1>2, <1>8, <2>3, <2>4 DEF RowDoes
<1> QED  BY <1>1, <1>4, <1>5, <1>7, <1>8

LEMMA AssignRolesDoes == ImportInv /\ AssignRoles => RowDoes
<1> SUFFICES ASSUME ImportInv, AssignRoles PROVE RowDoes
  OBVIOUS
<1> DEFINE held == {k \in DOMAIN people : users[k] = account}
<1>1. /\ at = "role"
      /\ UNCHANGED <<plan, imports, file, others, stale, edited>>
      /\ \/ held = {} /\ Refused
         \/ /\ \E k \in held : Puts(k, [people[k] EXCEPT !.role = TRUE], account)
            /\ UNCHANGED <<given, made>> /\ (Reports("ok") \/ Reports("failed"))
         \/ Fails
  BY DEF AssignRoles, Runs
<1>2. /\ row \in DOMAIN file /\ TablesOK /\ given \in Nat /\ None \notin Nat
      /\ \A b, c \in made[row] : b = c
      /\ RoleFor(people, users, saved, account) /\ account \in 1..given
  BY <1>1, RowIs, TablesAre, ImportAssumption DEF ImportInv, MidRow, ImportTypeOK
<1>3. CASE held = {} /\ Refused
  <2>1. stale
    BY <1>2, <1>3 DEF RoleFor
  <2> QED  BY <1>1, <1>3, <2>1, StaysPut DEF Refused
<1>4. CASE Fails
  BY <1>1, <1>4, StaysPut DEF Fails
<1>5. ASSUME NEW k \in held, Puts(k, [people[k] EXCEPT !.role = TRUE], account),
             UNCHANGED <<given, made>>, Reports("ok") \/ Reports("failed")
      PROVE  RowDoes
  <2> DEFINE e == [people[k] EXCEPT !.role = TRUE]
  <2>1. /\ k \in DOMAIN people /\ users[k] = account /\ people[k] \in Entry /\ k \in 1..given
        /\ IsEntry(people[k]) /\ people[k].mail # None
        /\ people[k].profile <=> k # account
    BY <1>2 DEF TablesOK, UsersOK
  <2>2. /\ e \in Entry /\ e.profile = people[k].profile /\ e.name = people[k].name
        /\ e.ci = people[k].ci /\ e.mail = people[k].mail /\ e.role
    BY <2>1 DEF Entry
  <2>3. IsEntry(e)
    BY <2>1, <2>2 DEF IsEntry
  <2>4. CiOwner(e.ci) \subseteq {k}
    BY <1>2, <2>1, <2>2 DEF CiOwner, TablesOK, Unique
  <2> HIDE DEF e
  <2>5. MayHave(k, e, account)
    BY <1>2, <1>5, <2>1, <2>2, <2>4 DEF MayHave, Optional
  <2>6. TablesOK' /\ Becomes(k, e, account)
    BY <1>1, <1>2, <1>5, <2>2, <2>3, <2>5, PutsKeeps DEF e
  <2>7. Touches({}, None, None)
    BY <1>2, <2>1, <2>2, <2>5, <2>6, PutsTouches
  <2>8. Done(r0, people') \/ saved \in edited
    BY <1>2, <2>1, <2>2, <2>6 DEF RoleFor, Saved, Done, Becomes
  <2> QED  BY <1>1, <1>2, <1>5, <2>6, <2>7, <2>8 DEF RowDoes
<1> QED  BY <1>1, <1>3, <1>4, <1>5

LEMMA RunDoes == ImportInv /\ RunImport => RowDoes
BY SkipDoes, CreateWithUserDoes, CreateEmployeeDoes, UpdateRowDoes, CreateAccountDoes,
   AssignRolesDoes DEF RunImport


-------------------------------------------------------------------------------
(* The steps *)

\* Whom a row updates is of before, and a row takes no account away.
LEMMA TargetsStay ==
    ASSUME ImportInv, UNCHANGED plan, NEW k \in DOMAIN plan, plan[k].kind = "update",
           NEW S, NEW c, NEW m, Touches(S, c, m), plan[k].id \in DOMAIN people'
    PROVE  /\ plan[k].id \in DOMAIN people
           /\ people'[plan[k].id].profile = people[plan[k].id].profile
           /\ people[plan[k].id].mail # None => people'[plan[k].id].mail # None
           /\ users[plan[k].id] # None => users'[plan[k].id] = users[plan[k].id]
<1>1. plan[k].id \in 1..given /\ given \in Nat
  BY DEF ImportInv, PlanOK, Fits, ImportTypeOK
<1>2. plan[k].id \in DOMAIN people
  BY <1>1 DEF Touches
<1> QED  BY <1>2 DEF Touches

LEMMA Appended ==
    ASSUME NEW T, NEW s \in Seq(T), NEW x \in T
    PROVE  /\ Append(s, x) \in Seq(T) /\ Len(Append(s, x)) = Len(s) + 1
           /\ DOMAIN Append(s, x) = 1..(Len(s) + 1) /\ Append(s, x)[Len(s) + 1] = x
           /\ \A i \in 1..(Len(s) + 1) : i # Len(s) + 1 =>
                 i \in DOMAIN s /\ Append(s, x)[i] = s[i]
OBVIOUS

\* Where a step of a row goes.
LEMMA RowGoes ==
    ASSUME ImportInv, RowDoes, at # "closed"
    PROVE  /\ results' \in Seq({"ok", "error", "refused", "failed"})
           /\ DOMAIN results' \subseteq DOMAIN plan
           /\ \A i \in DOMAIN results' :
                 i # row => i \in DOMAIN results /\ results'[i] = results[i]
           /\ row \in DOMAIN results' /\ results'[row] = "refused" =>
                 stale \/ (p0.kind = "update" /\ ~IsEmployee(p0.id))
           /\ at' \in {"closed", "row", "account", "role"}
           /\ at' # "closed" => row' = Len(results') + 1 /\ row' <= Len(file)
           /\ \A k \in DOMAIN file : Ahead(k)' => k > row /\ Ahead(k)
           /\ at' \in {"account", "role"} => row' = row
<1>1. /\ row = Len(results) + 1 /\ row <= Len(file) /\ DOMAIN plan = DOMAIN file
      /\ Len(results) \in Nat /\ Len(file) \in Nat /\ DOMAIN file = 1..Len(file)
      /\ results \in Seq({"ok", "error", "refused", "failed"})
      /\ DOMAIN results = 1..Len(results) /\ UNCHANGED <<plan, file>>
  BY Files DEF ImportInv, ImportTypeOK, RowDoes
<1>2. ASSUME NEW x \in {"ok", "error", "refused", "failed"}, Reports(x)
      PROVE  /\ results' \in Seq({"ok", "error", "refused", "failed"})
             /\ Len(results') = row /\ DOMAIN results' = 1..row /\ results'[row] = x
             /\ \A i \in 1..row : i # row => i \in DOMAIN results /\ results'[i] = results[i]
             /\ row' = row + 1 /\ at' = IF row = Len(file) THEN "closed" ELSE "row"
  <2>1. /\ results' = Append(results, x) /\ row' = row + 1
        /\ at' = IF row = Len(file) THEN "closed" ELSE "row"
    BY <1>2 DEF Reports
  <2>2. /\ Append(results, x) \in Seq({"ok", "error", "refused", "failed"})
        /\ Len(Append(results, x)) = row /\ DOMAIN Append(results, x) = 1..row
        /\ Append(results, x)[row] = x
        /\ \A i \in 1..row :
              i # row => i \in DOMAIN results /\ Append(results, x)[i] = results[i]
    BY <1>1, Appended
  <2> QED  BY <2>1, <2>2
<1>3. ASSUME NEW x \in {"account", "role"}, NEW i, NEW a, Calls(x, i, a)
      PROVE  UNCHANGED <<row, results>> /\ at' = x
  BY <1>3 DEF Calls
<1>4. CASE \E x \in {"ok", "error", "refused", "failed"} :
              /\ Reports(x)
              /\ x = "refused" => stale \/ (p0.kind = "update" /\ ~IsEmployee(p0.id))
  <2>1. PICK x \in {"ok", "error", "refused", "failed"} :
           /\ Reports(x)
           /\ x = "refused" => stale \/ (p0.kind = "update" /\ ~IsEmployee(p0.id))
    BY <1>4
  <2>2. /\ results' \in Seq({"ok", "error", "refused", "failed"})
        /\ Len(results') = row /\ DOMAIN results' = 1..row /\ results'[row] = x
        /\ \A i \in 1..row : i # row => i \in DOMAIN results /\ results'[i] = results[i]
        /\ row' = row + 1 /\ at' = IF row = Len(file) THEN "closed" ELSE "row"
    BY <1>2, <2>1
  <2>3. \A k \in DOMAIN file : Ahead(k)' => k > row /\ Ahead(k)
    <3>1. row \in Nat /\ UNCHANGED plan /\ \A k \in DOMAIN file : k \in Nat
      BY <1>1
    <3> QED  BY <2>2, <3>1 DEF Ahead
  <2>4. \A i \in DOMAIN results' :
           i # row => i \in DOMAIN results /\ results'[i] = results[i]
    BY <2>2
  <2> DEFINE n == Len(file)
  <2>5. row \in Nat /\ n \in Nat /\ row <= n /\ DOMAIN plan = 1..n
    BY <1>1
  <2>6. /\ DOMAIN results' = 1..row /\ Len(results') = row /\ row' = row + 1
        /\ at' = IF row = n THEN "closed" ELSE "row"
    BY <2>2
  <2> HIDE DEF n
  <2>7. /\ DOMAIN results' \subseteq DOMAIN plan
        /\ at' # "closed" => row' = Len(results') + 1 /\ row' <= n
    BY <2>5, <2>6
  <2> QED  BY <2>1, <2>2, <2>3, <2>4, <2>7 DEF n
<1>5. CASE \E i, a : Calls("account", i, a) \/ Calls("role", i, a)
  BY <1>1, <1>3, <1>5 DEF Ahead
<1> QED  BY <1>4, <1>5 DEF RowDoes

LEMMA RowKeeps == ImportInv /\ RowDoes /\ at # "closed" => ImportInv'
<1> SUFFICES ASSUME ImportInv, RowDoes, at # "closed" PROVE ImportInv'
  OBVIOUS
<1>1. /\ row \in DOMAIN file /\ DOMAIN plan = DOMAIN file /\ DOMAIN file = 1..Len(file)
      /\ Fits(r0, p0) /\ UNCHANGED <<plan, file, imports, others, stale, edited>> /\ TablesOK'
      /\ \A k \in DOMAIN file : k \in Nat
  BY RowIs, Files DEF RowDoes, ImportInv
<1>2. PICK S, c, m :
         /\ Touches(S, c, m) /\ c \in {None, r0.ci} /\ m \in {None, p0.mail}
         /\ p0.kind = "error" => c = None /\ m = None
         /\ p0.kind # "update" => S = {}
         /\ S \subseteq {p0.id}
  BY DEF RowDoes
<1>3. ImportTypeOK'
  <2>1. /\ at' = "role" => account' \in 1..given'
        /\ at' \in {"account", "role"} => saved' \in 1..given'
    BY <1>1 DEF RowDoes, Reports, Calls, TablesOK
  <2>2. edited \subseteq 1..given'
    BY <1>1, <1>2 DEF ImportInv, ImportTypeOK, TablesOK, Touches
  <2> QED  BY <1>1, <2>1, <2>2, RowGoes DEF ImportInv, ImportTypeOK, TablesOK
<1>4. PlanOK'
  <2>1. \A k \in DOMAIN plan : Fits(file[k], plan[k])'
    BY <1>1, <1>2 DEF ImportInv, ImportTypeOK, PlanOK, Fits, Touches, TablesOK, Optional
  <2>2. \A j, k \in DOMAIN plan : j < k => Apart(j, k)'
    BY <1>1 DEF ImportInv, PlanOK, Apart
  <2> QED  BY <1>1, <2>1, <2>2, RowGoes DEF PlanOK
<1>5. UsersKept'
  <2> SUFFICES ASSUME NEW k \in DOMAIN plan, plan[k].kind = "update", plan[k].user # None,
                      plan[k].id \in DOMAIN people', people'[plan[k].id].profile
               PROVE  /\ people'[plan[k].id].mail # None
                      /\ users'[plan[k].id] = plan[k].user \/ plan[k].id \in edited
    BY <1>1 DEF UsersKept, IsEmployee
  <2>1. /\ plan[k].id \in DOMAIN people /\ people[plan[k].id].profile
        /\ people[plan[k].id].mail # None => people'[plan[k].id].mail # None
        /\ users[plan[k].id] # None => users'[plan[k].id] = users[plan[k].id]
    BY <1>1, <1>2, TargetsStay
  <2>2. /\ people[plan[k].id].mail # None
        /\ users[plan[k].id] = plan[k].user \/ plan[k].id \in edited
    BY <2>1 DEF ImportInv, UsersKept, IsEmployee
  <2> QED  BY <2>1, <2>2
<1>6. MidRow' /\ Unedited'
  <2>1. ASSUME at' = "account"
        PROVE  /\ p0.kind = "update" /\ p0.mail # None /\ row' = row /\ saved' = p0.id
               /\ p0.id \in DOMAIN people' /\ Saved(people', p0.id, r0)
               /\ ~stale => /\ people'[p0.id].mail = None
                            /\ \A i \in DOMAIN people' : people'[i].mail # p0.mail
    BY <2>1 DEF RowDoes, Reports, Calls
  <2>2. ASSUME at' = "role"
        PROVE  /\ r0.role /\ row' = row /\ RoleFor(people', users', saved', account')
    BY <2>2 DEF RowDoes, Reports, Calls
  <2>3. MidRow'
    BY <1>1, <2>1, <2>2 DEF MidRow, RoleFor, EmailOwner, IsEmployee, Saved, r0, p0
  <2> QED  BY <1>1, <2>3 DEF ImportInv, Unedited
<1>7. RestReady'
  <2> SUFFICES ASSUME ~stale, NEW k \in DOMAIN plan, Ahead(k)' PROVE Ready(k)'
    BY <1>1 DEF RestReady
  <2>1. k > row /\ Ready(k) /\ Fits(file[k], plan[k])
    BY <1>1, RowGoes DEF ImportInv, RestReady, PlanOK
  <2>2. Apart(row, k)
    BY <1>1, <2>1 DEF ImportInv, PlanOK
  <2>3. plan[k].kind = "update" => plan[k].id \notin S
    BY <1>2, <2>2 DEF Apart, p0
  <2>4. plan[k].kind # "error" => ~Same(c, file[k].ci)
    BY <1>2, <2>2 DEF Apart, p0, r0, Same
  <2>5. plan[k].kind # "error" => ~Same(m, plan[k].mail)
    BY <1>1, <1>2, <2>1, <2>2 DEF Apart, p0, r0, Same, Fits
  <2> QED  BY <1>1, <1>2, <2>1, <2>3, <2>4, <2>5, ReadyStays
<1>8. AcceptedRowsRun'
  <2> SUFFICES ASSUME NEW i \in DOMAIN results', results'[i] = "refused", ~stale
               PROVE  plan[i].kind = "update" /\ ~(plan[i].id \in DOMAIN people'
                                                   /\ people'[plan[i].id].profile)
    BY <1>1 DEF AcceptedRowsRun, IsEmployee
  <2>1. plan[i].kind = "update" /\ ~IsEmployee(plan[i].id)
    BY RowGoes DEF ImportInv, AcceptedRowsRun, p0
  <2>2. i \in DOMAIN plan
    BY RowGoes
  <2> QED  BY <1>1, <1>2, <2>1, <2>2, TargetsStay DEF IsEmployee
<1>9. MadeAreThere'
  BY <1>1 DEF TablesOK
<1>10. MadeOnce'
  <2> SUFFICES ASSUME NEW k \in DOMAIN file, Ahead(k)', plan[k].kind = "create"
               PROVE  made'[k] = {}
    BY <1>1 DEF MadeOnce
  <2>1. k > row /\ Ahead(k)
    BY RowGoes
  <2> QED  BY <1>1, <2>1 DEF ImportInv, MadeOnce, RowDoes
<1>11. NobodyTwice'
  BY <1>1 DEF ImportInv, NobodyTwice, RowDoes
<1> QED  BY <1>3, <1>4, <1>5, <1>6, <1>7, <1>8, <1>9, <1>10, <1>11 DEF ImportInv

LEMMA RunKeeps == ImportInv /\ RunImport => ImportInv'
<1>1. RunImport => at # "closed"
  BY DEF RunImport, SkipRow, CreateWithUser, CreateEmployeeRow, UpdateRow, CreateAccount,
         AssignRoles, Runs
<1> QED  BY <1>1, RunDoes, RowKeeps

LEMMA HandleFileKeeps == ImportInv /\ HandleFile => ImportInv'
<1> SUFFICES ASSUME ImportInv, HandleFile PROVE ImportInv'
  OBVIOUS
<1> DEFINE P == Plan
<1>1. /\ plan' = P /\ at' = "row" /\ row' = 1 /\ results' = <<>> /\ imports' = imports + 1
      /\ imports < MaxImports /\ UNCHANGED <<people, users, given, made, file, others>>
      /\ edited' = {}
  BY DEF HandleFile, tables
<1>2. ImportTypeOK /\ MadeAreThere /\ NobodyTwice
  BY DEF ImportInv
<1>3. DOMAIN P = DOMAIN file /\ \A k \in DOMAIN file : Fits(file[k], P[k])
  BY <1>2, PlanFits
<1>4. \A j, k \in DOMAIN file : j < k /\ P[j].kind # "error" /\ P[k].kind # "error" =>
         /\ ~Same(file[j].ci, file[k].ci) /\ ~Same(file[j].mail, file[k].mail)
         /\ P[j].kind = "update" /\ P[k].kind = "update" => P[j].id # P[k].id
  BY <1>2, PlanApart
<1>5. \A k \in DOMAIN file :
         /\ P[k].kind = "create" => CiOwner(file[k].ci) = {}
         /\ P[k].kind = "update" =>
               /\ P[k].id \in DOMAIN people /\ CiOwner(file[k].ci) \subseteq {P[k].id}
               /\ P[k].mail # None => people[P[k].id].mail = None
               /\ P[k].user # None => people[P[k].id].mail # None /\ users[P[k].id] = P[k].user
         /\ P[k].kind # "error" => EmailOwner(P[k].mail) = {}
  BY <1>2, PlanReady
<1>6. \A k \in DOMAIN file : P[k].kind = "create" => made[k] = {}
  BY <1>2, PlanMakesOnce
<1> HIDE DEF P
<1>7. ImportTypeOK'
  BY <1>1, <1>2, <1>3, ImportAssumption DEF ImportTypeOK, UsersOK
<1>8. PlanOK'
  <2>1. \A k \in DOMAIN file : Fits(file[k], plan[k])'
    BY <1>1, <1>3 DEF Fits
  <2> QED  BY <1>1, <1>3, <1>4, <2>1 DEF PlanOK, Apart, Fits
<1>9. UsersKept'
  BY <1>1, <1>3, <1>5 DEF UsersKept
<1>10. MidRow' /\ Unedited'
  BY <1>1 DEF MidRow, Unedited
<1>11. RestReady'
  BY <1>1, <1>3, <1>5 DEF RestReady, Ready, CiOwner, EmailOwner
<1>12. AcceptedRowsRun'
  BY <1>1 DEF AcceptedRowsRun
<1>13. MadeAreThere' /\ MadeOnce' /\ NobodyTwice'
  BY <1>1, <1>2, <1>3, <1>6 DEF MadeAreThere, MadeOnce, NobodyTwice, Ahead
<1> QED  BY <1>7, <1>8, <1>9, <1>10, <1>11, <1>12, <1>13 DEF ImportInv

\* What others do to whom there was: whom they change is edited, and who has an account of
\* before had it, or whoever had it is edited.
LEMMA OthersKeep ==
    ASSUME ImportInv, Others, TablesOK', given' >= given,
           edited' \subseteq 1..given', edited \subseteq edited',
           \A k \in DOMAIN file : made'[k] \subseteq made[k],
           \A i \in DOMAIN people' : people'[i].profile /\ i <= given =>
              /\ i \in DOMAIN people /\ people[i].profile
              /\ people[i].mail # None => people'[i].mail # None
              /\ \/ i \in edited'
                 \/ /\ people'[i].name = people[i].name /\ people'[i].ci = people[i].ci
                    /\ users[i] # None => users'[i] = users[i],
           \A i \in DOMAIN people' : users'[i] \in 1..given =>
              \E j \in DOMAIN people :
                 users[j] = users'[i] /\ (people[j].profile => i = j \/ j \in edited')
    PROVE  ImportInv'
<1>1. /\ UNCHANGED <<plan, at, row, account, saved, results, imports, file>> /\ stale'
      /\ others < MaxOthers /\ others' = others + 1 /\ given \in Nat /\ given' \in Nat
  BY DEF Others, dialog, ImportInv, ImportTypeOK, TablesOK
<1>2. ImportTypeOK'
  <2>1. /\ at = "role" => account \in 1..given'
        /\ at \in {"account", "role"} => saved \in 1..given'
    BY <1>1 DEF ImportInv, ImportTypeOK
  <2> QED  BY <1>1, <2>1, ImportAssumption DEF ImportInv, ImportTypeOK, TablesOK
<1>3. PlanOK'
  <2>1. \A k \in DOMAIN plan : Fits(file[k], plan[k])'
    BY <1>1 DEF ImportInv, PlanOK, Fits, Optional
  <2> QED  BY <1>1, <2>1 DEF ImportInv, PlanOK, Apart
<1>4. UsersKept'
  <2> SUFFICES ASSUME NEW k \in DOMAIN plan, plan[k].kind = "update", plan[k].user # None,
                      plan[k].id \in DOMAIN people', people'[plan[k].id].profile
               PROVE  /\ people'[plan[k].id].mail # None
                      /\ users'[plan[k].id] = plan[k].user \/ plan[k].id \in edited'
    BY <1>1 DEF UsersKept, IsEmployee
  <2>1. plan[k].id \in 1..given
    BY DEF ImportInv, PlanOK, Fits
  <2>2. /\ plan[k].id \in DOMAIN people /\ people[plan[k].id].profile
        /\ people[plan[k].id].mail # None => people'[plan[k].id].mail # None
        /\ plan[k].id \in edited'
           \/ (users[plan[k].id] # None => users'[plan[k].id] = users[plan[k].id])
    BY <1>1, <2>1
  <2> QED  BY <2>2 DEF ImportInv, UsersKept, IsEmployee
<1>5. MidRow' /\ Unedited'
  <2>1. ASSUME at = "account", p0.id \in DOMAIN people', people'[p0.id].profile
        PROVE  Saved(people', p0.id, r0) \/ saved \in edited'
    <3>1. p0.id \in 1..given /\ saved = p0.id
          /\ (IsEmployee(p0.id) => Saved(people, p0.id, r0) \/ saved \in edited)
      BY <2>1, RowIs DEF ImportInv, MidRow, Fits
    <3> QED  BY <1>1, <2>1, <3>1 DEF Saved, IsEmployee
  <2>2. ASSUME at = "role", NEW k \in DOMAIN people', users'[k] = account
        PROVE  (k = saved /\ Saved(people', k, r0)) \/ saved \in edited'
    <3>1. RoleFor(people, users, saved, account) /\ account \in 1..given /\ saved \in 1..given
      BY <2>2 DEF ImportInv, MidRow, ImportTypeOK
    <3>2. PICK j \in DOMAIN people :
             users[j] = account /\ (people[j].profile => k = j \/ j \in edited')
      BY <2>2, <3>1
    <3>3. CASE saved \in edited
      BY <3>3
    <3>4. CASE j = saved /\ Saved(people, saved, r0)
      <4>1. people[saved].profile /\ (k = saved \/ saved \in edited')
        BY <3>2, <3>4 DEF Saved
      <4>2. k = saved => people'[saved].profile
        <5>1. users[saved] = account /\ saved # account
          BY <3>2, <3>4, <4>1 DEF ImportInv, ImportTypeOK, UsersOK
        <5> QED  BY <2>2, <5>1 DEF TablesOK, UsersOK
      <4> QED  BY <2>2, <3>1, <3>4, <4>1, <4>2 DEF Saved
    <3> QED  BY <3>1, <3>2, <3>3, <3>4 DEF RoleFor
  <2>3. MidRow'
    BY <1>1, <2>1, <2>2 DEF ImportInv, MidRow, RoleFor, IsEmployee, r0, p0
  <2> QED  BY <1>1, <2>3 DEF Unedited
<1>6. RestReady' /\ AcceptedRowsRun'
  BY <1>1 DEF RestReady, AcceptedRowsRun
<1>7. MadeAreThere' /\ MadeOnce' /\ NobodyTwice'
  BY <1>1 DEF ImportInv, TablesOK, MadeOnce, NobodyTwice, Ahead
<1> QED  BY <1>2, <1>3, <1>4, <1>5, <1>6, <1>7 DEF ImportInv

\* So does an entry that becomes another.
LEMMA OthersPut ==
    ASSUME ImportInv, Others, TablesOK', NEW i, NEW e \in Entry, NEW a,
           MayHave(i, e, a), Becomes(i, e, a),
           edited' = edited \/ (edited' = edited \cup {i} /\ i \in DOMAIN people),
           i \in DOMAIN people => \/ i \in edited'
                                  \/ e.name = people[i].name /\ e.ci = people[i].ci
                                     /\ users[i] = None,
           i \in DOMAIN people => e.profile /\ (people[i].mail # None => e.mail # None),
           \A k \in DOMAIN file : made'[k] \subseteq made[k]
    PROVE  ImportInv'
<1>1. /\ TablesOK /\ given \in Nat /\ given' \in Nat /\ given' >= given /\ i \in 1..given'
      /\ None \notin Nat /\ edited \subseteq 1..given
  BY TablesAre, ImportAssumption DEF ImportInv, ImportTypeOK, MayHave
<1>2. edited \subseteq edited' /\ edited' \subseteq 1..given'
  <2>1. 1..given \subseteq 1..given'
    BY ONLY <1>1
  <2> QED  BY ONLY <1>1, <2>1, edited' = edited \/ (edited' = edited \cup {i} /\ i \in DOMAIN people)
<1>3. ASSUME NEW k \in DOMAIN people', people'[k].profile, k <= given
      PROVE  /\ k \in DOMAIN people /\ people[k].profile
             /\ people[k].mail # None => people'[k].mail # None
             /\ \/ k \in edited'
                \/ /\ people'[k].name = people[k].name /\ people'[k].ci = people[k].ci
                   /\ users[k] # None => users'[k] = users[k]
  <2>1. CASE k = i
    BY <1>1, <1>3, <2>1 DEF MayHave, Becomes
  <2>2. CASE k # i
    BY <1>3, <2>2 DEF Becomes
  <2> QED  BY <2>1, <2>2
<1>4. ASSUME NEW k \in DOMAIN people', users'[k] \in 1..given
      PROVE  \E j \in DOMAIN people :
                users[j] = users'[k] /\ (people[j].profile => k = j \/ j \in edited')
  <2>1. CASE k = i
    <3>1. users'[k] = a /\ a \in 1..given
      BY <1>4, <2>1 DEF Becomes
    <3>2. CASE a \in Accounts
      <4>1. a \in DOMAIN people /\ ~people[a].profile /\ users[a] = a
        BY <1>1, <3>2 DEF Accounts, TablesOK, UsersOK
      <4> QED  BY <3>1, <4>1
    <3>3. CASE i \in DOMAIN people /\ a = users[i]
      BY <2>1, <3>1, <3>3
    <3> QED  BY <1>1, <3>1, <3>2, <3>3 DEF MayHave
  <2>2. CASE k # i /\ k \in DOMAIN people /\ k # a
    BY <2>2 DEF Becomes
  <2>3. ASSUME k # i, ~(k \in DOMAIN people /\ k # a)
        PROVE  \E j \in DOMAIN people :
                  users[j] = users'[k] /\ (people[j].profile => k = j \/ j \in edited')
    <3>1. i \in DOMAIN people /\ k = users[i] /\ users'[k] = k /\ k # None
      BY <2>3 DEF Becomes
    <3> QED  BY <3>1
  <2> QED  BY <2>1, <2>2, <2>3
<1> QED  BY <1>1, <1>2, <1>3, <1>4, OthersKeep

\* What is linked is an entry, with the account.
LEMMA LinkedIs ==
    ASSUME TablesOK, NEW e \in Entry, e.profile, NEW a
    PROVE  /\ Linked(e, a) \in Entry /\ Linked(e, a).profile
           /\ Linked(e, a).name = e.name /\ Linked(e, a).ci = e.ci
           /\ a \in Accounts => /\ Linked(e, a).mail = people[a].mail
                                /\ people[a].mail # None /\ a # None /\ users[a] = a
                                /\ a \in 1..given
           /\ a \notin Accounts => Linked(e, a) = e
<1>1. CASE a \in Accounts
  <2>1. a \in DOMAIN people /\ ~people[a].profile /\ people[a] \in Entry /\ a \in 1..given
    BY <1>1 DEF Accounts, TablesOK
  <2>2. users[a] = a /\ people[a].mail # None /\ a # None
    BY <2>1, ImportAssumption DEF TablesOK, UsersOK
  <2>3. Linked(e, a) = [e EXCEPT !.mail = people[a].mail, !.role = people[a].role]
    BY <1>1 DEF Linked
  <2> QED  BY <1>1, <2>1, <2>2, <2>3 DEF Entry
<1>2. CASE a \notin Accounts
  BY <1>2 DEF Linked
<1> QED  BY <1>1, <1>2

LEMMA OthersCreateKeeps == ImportInv /\ OthersCreate => ImportInv'
<1> SUFFICES ASSUME ImportInv, OthersCreate PROVE ImportInv'
  OBVIOUS
<1>1. Others /\ UNCHANGED <<made, file, edited>> /\ TablesOK /\ given \in Nat /\ None \notin Nat
  BY TablesAre, ImportAssumption DEF OthersCreate, Others, TablesOK
<1>2. PICK f \in Entry, a \in Accounts \cup {None, given + 1} :
         /\ f.profile /\ ~f.role /\ ~CiTaken(f.ci, None) /\ ~MailTaken(f.mail)
         /\ f.mail # None <=> a = given + 1
         /\ given' = given + 2 /\ Puts(given', Linked(f, a), a)
  BY DEF OthersCreate
<1> DEFINE i == given + 2
           e == Linked(f, a)
<1>3. /\ e \in Entry /\ e.profile /\ e.ci = f.ci
      /\ a \in Accounts => e.mail = people[a].mail /\ e.mail # None /\ a # None /\ a \in 1..given
      /\ a \notin Accounts => e = f
  BY <1>1, <1>2, LinkedIs
<1>4. /\ i \in Nat /\ i > given /\ i \in 1..i /\ i \notin DOMAIN people
      /\ \A k \in DOMAIN people : k # None
      /\ a \in Accounts => a \in 1..given /\ a # given + 1
  BY <1>1, <1>3 DEF TablesOK
<1>5. CiOwner(e.ci) = {} /\ EmailOwner(f.mail) = {}
  BY <1>2, <1>3, <1>4 DEF CiTaken, MailTaken, CiOwner
<1>6. a # i /\ a \in Optional(1..i) /\ (e.mail # None <=> a # None)
  BY <1>1, <1>2, <1>3, <1>4 DEF Optional
<1> HIDE DEF e, i
<1>7. MayHave(i, e, a)
  <2>1. given' = i
    BY <1>2 DEF i
  <2>2. a = given + 1 => a > given /\ EmailOwner(e.mail) = {}
    BY <1>1, <1>3, <1>4, <1>5
  <2> QED  BY <1>1, <1>2, <1>3, <1>4, <1>5, <1>6, <2>1, <2>2 DEF MayHave
<1>8. TablesOK' /\ Becomes(i, e, a)
  <2>1. IsEntry(e)
    BY <1>1, <1>2, <1>3, <1>6 DEF IsEntry
  <2>2. Puts(i, e, a)
    BY <1>2 DEF e, i
  <2> QED  BY <1>1, <1>3, <1>4, <1>7, <2>1, <2>2, PutsKeeps
<1> QED  BY <1>1, <1>3, <1>4, <1>7, <1>8, OthersPut

LEMMA OthersUpdateKeeps == ImportInv /\ OthersUpdate => ImportInv'
<1> SUFFICES ASSUME ImportInv, OthersUpdate PROVE ImportInv'
  OBVIOUS
<1>1. Others /\ UNCHANGED <<given, file>> /\ TablesOK /\ given \in Nat /\ None \notin Nat
  BY TablesAre, ImportAssumption DEF OthersUpdate, Others, TablesOK
<1>2. PICK i \in DOMAIN people \ Accounts, name \in Names :
        \E ci \in Cis \cup {people[i].ci}, a \in Accounts \cup {users[i]} :
          /\ ~CiTaken(ci, i)
          /\ Puts(i, Linked([people[i] EXCEPT !.name = name, !.ci = ci], a), a)
          /\ Recounts(i, name) /\ edited' = edited \cup {i}
  BY DEF OthersUpdate
<1>3. PICK ci \in Cis \cup {people[i].ci}, a \in Accounts \cup {users[i]} :
          /\ ~CiTaken(ci, i)
          /\ Puts(i, Linked([people[i] EXCEPT !.name = name, !.ci = ci], a), a)
          /\ Recounts(i, name) /\ edited' = edited \cup {i}
  BY <1>2
<1> DEFINE f == [people[i] EXCEPT !.name = name, !.ci = ci]
           e == Linked(f, a)
<1>4. /\ i \in DOMAIN people /\ people[i] \in Entry /\ IsEntry(people[i]) /\ people[i].profile
      /\ i \in 1..given /\ users[i] \in Optional(1..given) /\ i # users[i]
      /\ people[i].mail # None <=> users[i] # None
  BY <1>1 DEF TablesOK, UsersOK, Accounts
<1>5. /\ f \in Entry /\ f.profile /\ f.name = name /\ f.ci = ci /\ f.mail = people[i].mail
      /\ f.role = people[i].role
  BY <1>4 DEF Entry, Optional
<1>6. users[i] \notin Accounts
  <2> SUFFICES ASSUME users[i] \in Accounts PROVE FALSE
    OBVIOUS
  <2>1. users[i] \in DOMAIN people /\ ~people[users[i]].profile
    BY DEF Accounts
  <2>2. users[users[i]] = users[i] /\ users[i] # None
    BY <1>1, <2>1 DEF TablesOK, UsersOK
  <2> QED  BY <1>1, <1>4, <2>1, <2>2 DEF TablesOK, UsersOK
<1> HIDE DEF f
<1>7. /\ e \in Entry /\ e.profile /\ e.name = name /\ e.ci = ci
      /\ a \in Accounts => /\ e.mail = people[a].mail /\ e.mail # None /\ a # None
                           /\ a \in 1..given
      /\ a = users[i] => e = f
  BY <1>1, <1>5, <1>6, LinkedIs
<1>8. CiOwner(e.ci) \subseteq {i} /\ i # a /\ (e.mail # None <=> a # None)
  BY <1>3, <1>4, <1>5, <1>7 DEF CiTaken, Accounts
<1> HIDE DEF e
<1>9. MayHave(i, e, a)
  BY <1>1, <1>3, <1>4, <1>5, <1>7, <1>8 DEF MayHave, Optional
<1>10. TablesOK' /\ Becomes(i, e, a)
  <2>1. IsEntry(e)
    BY <1>4, <1>5, <1>7, <1>8 DEF IsEntry
  <2>2. Puts(i, e, a) /\ Recounts(i, e.name)
    BY <1>3, <1>7 DEF e, f
  <2> QED  BY <1>1, <1>7, <1>9, <2>1, <2>2, PutsKeeps
<1>11. \A k \in DOMAIN file : made'[k] \subseteq made[k]
  BY <1>3 DEF Recounts
<1> QED  BY <1>1, <1>3, <1>4, <1>5, <1>7, <1>8, <1>9, <1>10, <1>11, OthersPut

LEMMA OthersDeleteKeeps == ImportInv /\ OthersDelete => ImportInv'
<1> SUFFICES ASSUME ImportInv, OthersDelete PROVE ImportInv'
  OBVIOUS
<1>1. Others /\ UNCHANGED <<given, file, edited>>
  BY DEF OthersDelete, Others
<1>2. PICK i \in DOMAIN people :
         /\ people' = [j \in DOMAIN people \ {i} |-> people[j]]
         /\ users' = [j \in DOMAIN people \ {i} |-> users[j]]
         /\ made' = [r \in DOMAIN file |-> made[r] \ {i}]
  BY DEF OthersDelete
<1>3. TablesOK'
  BY <1>1, <1>2, DeleteDoes, TablesAre
<1>4. given \in Nat /\ edited \subseteq 1..given
  BY DEF ImportInv, ImportTypeOK
<1> QED  BY <1>1, <1>2, <1>3, <1>4, OthersKeep

LEMMA OthersGiveAccountKeeps == ImportInv /\ OthersGiveAccount => ImportInv'
<1> SUFFICES ASSUME ImportInv, OthersGiveAccount PROVE ImportInv'
  OBVIOUS
<1>1. /\ Others /\ UNCHANGED <<made, file, edited>> /\ TablesOK /\ given \in Nat
      /\ None \notin Nat \cup Mails
  BY TablesAre, ImportAssumption DEF OthersGiveAccount, Others, TablesOK
<1>2. PICK i \in DOMAIN people, mail \in Mails :
         /\ people[i].mail = None /\ ~MailTaken(mail)
         /\ given' = given + 1 /\ Puts(i, [people[i] EXCEPT !.mail = mail], given')
  BY DEF OthersGiveAccount
<1> DEFINE a == given + 1
           e == [people[i] EXCEPT !.mail = mail]
<1>3. /\ people[i] \in Entry /\ IsEntry(people[i]) /\ people[i].profile /\ i \in 1..given
      /\ users[i] = None
  BY <1>1, <1>2 DEF TablesOK, UsersOK, IsEntry
<1>4. /\ e \in Entry /\ e.profile /\ e.name = people[i].name /\ e.ci = people[i].ci
      /\ e.mail = mail /\ e.mail # None /\ IsEntry(e)
  BY <1>1, <1>3 DEF Entry, IsEntry, Optional
<1>5. CiOwner(e.ci) \subseteq {i} /\ EmailOwner(mail) = {} /\ a > given /\ a \in Nat /\ i # a
      /\ i \in 1..a /\ a \in 1..a
  BY <1>1, <1>2, <1>3, <1>4 DEF MailTaken, CiOwner, TablesOK, Unique
<1>6. given' = a /\ Puts(i, e, a)
  BY <1>2
<1> HIDE DEF e, a
<1>7. MayHave(i, e, a)
  BY <1>1, <1>3, <1>4, <1>5, <1>6 DEF MayHave, Optional
<1>8. TablesOK' /\ Becomes(i, e, a)
  BY <1>1, <1>4, <1>6, <1>7, PutsKeeps
<1> QED  BY <1>1, <1>3, <1>4, <1>7, <1>8, OthersPut

LEMMA ImportInvInit == ImportInit => ImportInv
<1> SUFFICES ASSUME ImportInit PROVE ImportInv
  OBVIOUS
<1>1. /\ given = 2 * MaxPeople /\ Unique(people) /\ plan = <<>> /\ at = "closed"
      /\ stale = FALSE /\ edited = {}
      /\ results = <<>> /\ imports = 0 /\ others = 0 /\ made = [i \in DOMAIN file |-> {}]
      /\ MaxPeople \in Nat /\ MaxRows \in Nat /\ MaxImports \in Nat /\ MaxOthers \in Nat
  BY ImportAssumption DEF ImportInit
<1>2. /\ DOMAIN people \subseteq 1..given
      /\ \A i \in DOMAIN people : people[i] \in Entry /\ IsEntry(people[i])
  BY <1>1 DEF ImportInit
<1>3. file \in Seq(Row) /\ Len(file) \in 1..MaxRows
  BY <1>1 DEF ImportInit
<1>4. UsersOK
  <2>1. /\ users = [i \in DOMAIN people |-> IF people[i].mail = None THEN None
                                           ELSE IF people[i].profile THEN MaxPeople + i ELSE i]
        /\ \A i \in DOMAIN people : i \in 1..MaxPeople
        /\ None \notin Nat
    BY <1>1, ImportAssumption DEF ImportInit
  <2>2. \A i \in DOMAIN people : ~people[i].profile => people[i].mail # None
    BY <1>2 DEF IsEntry
  <2> QED  BY <1>1, <2>1, <2>2 DEF UsersOK, Optional
<1>5. ImportTypeOK
  BY <1>1, <1>2, <1>3, <1>4 DEF ImportTypeOK
<1> QED  BY <1>1, <1>5
         DEF ImportInv, PlanOK, UsersKept, MidRow, Unedited, RestReady, Ahead, AcceptedRowsRun,
             MadeAreThere, MadeOnce, NobodyTwice

LEMMA ImportInvStep == ImportInv /\ [ImportNext]_importVars => ImportInv'
<1>1. ImportInv /\ UNCHANGED importVars => ImportInv'
  BY DEF importVars, tables, dialog, ImportInv, ImportTypeOK, PlanOK, Fits, Apart, UsersKept,
         MidRow, RoleFor, Unedited, UsersOK, Saved, EmailOwner, CiOwner, RestReady, Ahead, Ready, AcceptedRowsRun, IsEmployee,
         MadeAreThere, MadeOnce, NobodyTwice, r0, p0
<1> QED  BY <1>1, HandleFileKeeps, RunKeeps, OthersCreateKeeps, OthersUpdateKeeps,
            OthersDeleteKeeps, OthersGiveAccountKeeps DEF ImportNext

-------------------------------------------------------------------------------
(* What is done *)

\* Only the step that reports a row as done adds an "ok", and by then it is done, or others
\* have changed the employee.
LEMMA OkStep == ImportInv /\ [ImportNext]_importVars =>
                   (Len(results') > Len(results) /\ results'[row] = "ok" =>
                       Done(r0, people') \/ saved \in edited)
<1> SUFFICES ASSUME ImportInv, ImportNext \/ UNCHANGED importVars,
                    Len(results') > Len(results), results'[row] = "ok"
             PROVE  Done(r0, people') \/ saved \in edited
  OBVIOUS
<1>1. Len(results) \in Nat /\ results \in Seq({"ok", "error", "refused", "failed"})
  BY DEF ImportInv, ImportTypeOK
<1>2. results' # results
  BY <1>1
<1>3. ~HandleFile
  <2>1. HandleFile => Len(results') = 0
    BY DEF HandleFile
  <2> QED  BY <1>1, <2>1
<1>4. RunImport /\ at # "closed"
  BY <1>2, <1>3 DEF ImportNext, OthersCreate, OthersUpdate, OthersDelete, OthersGiveAccount,
       Others, dialog, importVars, RunImport, SkipRow, CreateWithUser, CreateEmployeeRow, UpdateRow,
       CreateAccount, AssignRoles, Runs
<1>5. ASSUME NEW x \in {"ok", "error", "refused", "failed"}, Reports(x) PROVE x = "ok"
  <2>1. results' = Append(results, x)
    BY <1>5 DEF Reports
  <2>2. row = Len(results) + 1
    BY <1>4 DEF ImportInv, ImportTypeOK
  <2> QED  BY <1>1, <2>1, <2>2, Appended
<1>6. ASSUME NEW x, NEW i, NEW a PROVE ~Calls(x, i, a)
  BY <1>2 DEF Calls
<1>7. \/ Reports("ok") /\ (Done(r0, people') \/ saved \in edited)
      \/ Reports("error") \/ Reports("failed") \/ Reports("refused")
  BY <1>4, <1>6, RunDoes DEF RowDoes
<1> QED  BY <1>5, <1>7

-------------------------------------------------------------------------------
(* The theorems *)

\* The tables, the dialog and what is known of the rows stay as above.
THEOREM ImportInvariant == ImportSpec => []ImportInv
BY ImportInvInit, ImportInvStep, PTL DEF ImportSpec

\* No CI or e-mail twice in the tables, a plan for each row and an outcome for each that ran.
THEOREM ImportTypes == ImportSpec => []ImportTypeOK
<1>1. ImportInv => ImportTypeOK
  BY DEF ImportInv
<1> QED  BY <1>1, ImportInvariant, PTL

\* While nobody else changes the tables the server refuses no row that the preview of
\* import-dialog.tsx let through, whatever rows of the file ran before it.
THEOREM AcceptedRun == ImportSpec => []AcceptedRowsRun
<1>1. ImportInv => AcceptedRowsRun
  BY DEF ImportInv
<1> QED  BY <1>1, ImportInvariant, PTL

\* However often a file is opened, after any failures and changes by others, no row makes
\* a second employee while the first is there under its name.
THEOREM NobodyMadeTwice == ImportSpec => []NobodyTwice
<1>1. ImportInv => NobodyTwice
  BY DEF ImportInv
<1> QED  BY <1>1, ImportInvariant, PTL

\* A row that runImport reports as done is done in the tables, unless another administrator
\* has changed the same employee since the preview.
THEOREM OkIsDone == ImportSpec => OkMeansDone
BY ImportInvariant, OkStep, PTL DEF ImportSpec, OkMeansDone

\* Each tool is itself beside the other.
THEOREM TransferIsBoth == TransferSpec => ImportSpec /\ DumpSpec
<1>1. TransferInit => ImportInit /\ DumpInit
  BY DEF TransferInit
<1>2. [TransferNext]_transferVars => [ImportNext]_importVars /\ [DumpNext]_dumpVars
  BY DEF TransferNext, transferVars
<1> QED  BY <1>1, <1>2, PTL DEF TransferSpec, ImportSpec, DumpSpec

\* The tables, the dialog and the script of the tool that moves stay well formed.
THEOREM TransferTypes == TransferSpec => []TransferTypeOK
<1>1. ImportTypeOK /\ DumpTypeOK => TransferTypeOK
  BY DEF TransferTypeOK
<1> QED  BY <1>1, TransferIsBoth, ImportTypes, DumpTypes, PTL
===============================================================================
