------------------------------ MODULE RoleAdmin ------------------------------
(***************************************************************************)
(* Administration of roles, their assignments and their permissions:       *)
(* services/user-role.service.ts, role.service.ts, permission.service.ts,  *)
(* the routes before them and the queries that decide who may what         *)
(* (middleware/permission.ts).                                             *)
(*                                                                         *)
(* A request is a handler at one of its awaits; the requests in flight     *)
(* are the records of "flight", each with the scope requireSystemManager   *)
(* left it.  How old that scope is (it is cached) does not matter here:    *)
(* any scope may arrive.  Each statement is a step.  The two transactions  *)
(* run at READ COMMITTED: a statement reads what is committed when it      *)
(* starts, then waits for the row locks of others, then goes on with the   *)
(* rows that are left.  A row is locked from the statement that locks or   *)
(* deletes it to the commit.  A request refused at once changes nothing    *)
(* and is not modelled.                                                    *)
(***************************************************************************)
EXTENDS Naturals, FiniteSets

CONSTANTS
    Users, Systems,
    Auth,           \* the system that stands for this server (ADMIN_SYSTEM_SLUG)
    RoleIds, PermIds,
    SystemOf,       \* their systems: no request changes system_id
    Keys,           \* resource:action
    FirstRoles, FirstPerms, FirstRows, FirstGrants,  \* what the tables hold at first
    Delegations,    \* sets of systems a delegated administrator may have
    MaxRequests

\* ADMIN_ROLE_NAME, which is unique in its system, and all other names.
RoleNames == {"admin", "other"}
Rows == [id : 0..MaxRequests, user : Users, role : RoleIds]

ASSUME RoleAdminAssumption ==
    /\ Auth \in Systems
    /\ SystemOf \in [RoleIds \cup PermIds -> Systems]
    /\ Keys \cap {"unborn", "gone"} = {}
    /\ FirstRoles \in [RoleIds -> RoleNames \cup {"unborn"}]
    /\ FirstPerms \in [PermIds -> Keys \cup {"unborn"}]
    /\ FirstRows \subseteq Rows /\ FirstGrants \subseteq RoleIds \X PermIds
    /\ \A x \in FirstRows : FirstRoles[x.role] \in RoleNames
    /\ \A g \in FirstGrants :
          /\ FirstRoles[g[1]] \in RoleNames /\ FirstPerms[g[2]] \in Keys
          /\ SystemOf[g[1]] = SystemOf[g[2]]
    /\ Delegations \subseteq SUBSET (Systems \ {Auth})
    /\ MaxRequests \in Nat

VARIABLES
    systems,   \* rows of system
    users,     \* rows of user
    roleName,  \* rows of role, by id
    rows,      \* rows of user_role; id: the request that inserted it
    permKey,   \* rows of permission, by id
    grants,    \* rows of role_permission
    flight,    \* requests at an await
    asked,     \* requests so far
    linked     \* what was granted one by one (history, for ReplacementIsWhole)

tables == <<systems, users, roleName, rows, permKey, grants>>
vars == <<tables, flight, asked, linked>>

Exists(r) == roleName[r] \in RoleNames
Listed(p) == permKey[p] \in Keys
GrantsOf(r) == {p \in PermIds : <<r, p>> \in grants}

\* ManageScope and canManage
Super == [all |-> TRUE, ids |-> {}]
Scopes == {Super} \cup [all : {FALSE}, ids : Delegations]
CanManage(scope, s) == scope.all \/ s \in scope.ids

\* A system has one role of the name "admin" (role_systemId_name_uidx), and a
\* permission of each key.
NameIsFree(r, n) ==
    n = "admin" => \A x \in RoleIds : SystemOf[x] = SystemOf[r] => roleName[x] # "admin"
KeyIsFree(p, k) == \A x \in PermIds : SystemOf[x] = SystemOf[p] => permKey[x] # k

Init ==
    /\ systems = Systems /\ users = Users
    /\ roleName = FirstRoles /\ permKey = FirstPerms
    /\ rows = FirstRows
    /\ grants = FirstGrants
    /\ flight = {} /\ asked = 0 /\ linked = {}

Arrives(j) ==
    /\ asked < MaxRequests
    /\ asked' = asked + 1
    /\ flight' = flight \cup {j}
    /\ UNCHANGED <<tables, linked>>

Becomes(j, k) == flight' = (flight \ {j}) \cup {k} /\ UNCHANGED <<asked, linked>>
Ends(j) == flight' = flight \ {j} /\ UNCHANGED <<asked, linked>>

\* Rows that the open transactions of other requests have locked or deleted.
LockedRows(j) == UNION {k.seen : k \in {f \in flight \ {j} : f.st = "remove"}}
LockedGrants(j) ==
    UNION {{k.role} \X k.seen : k \in {f \in flight \ {j} : f.st = "fill"}}

-------------------------------------------------------------------------------
(* POST /api/user-roles *)

\* getRoleScope, assertCanManageSystem
Assign(scope, u, r) ==
    /\ Exists(r) /\ CanManage(scope, SystemOf[r])
    /\ Arrives([q |-> asked + 1, scope |-> scope, st |-> "existing", user |-> u, role |-> r])

\* createUserRole: 409 if the user has the role, then the INSERT, which fails on a
\* foreign key or on the unique index.
Existing(j) ==
    /\ j.st = "existing"
    /\ IF \E x \in rows : x.user = j.user /\ x.role = j.role
       THEN Ends(j) ELSE Becomes(j, [j EXCEPT !.st = "insert"])
    /\ UNCHANGED tables

InsertRow(j) ==
    /\ j.st = "insert"
    /\ rows' = IF /\ j.user \in users /\ Exists(j.role)
                  /\ \A x \in rows : ~(x.user = j.user /\ x.role = j.role)
               THEN rows \cup {[id |-> j.q, user |-> j.user, role |-> j.role]}
               ELSE rows
    /\ Ends(j)
    /\ UNCHANGED <<systems, users, roleName, permKey, grants>>

-------------------------------------------------------------------------------
(* DELETE /api/user-roles/{id} *)

\* Mutant: the system of the assignment is not checked.
RevokeAnywhere(scope, t) ==
    /\ t \in rows
    /\ Arrives([q |-> asked + 1, scope |-> scope, st |-> "target", row |-> t,
                name |-> roleName[t.role], seen |-> {}])

\* getUserRoleScope, assertCanManageSystem
Revoke(scope, t) ==
    /\ t \in rows /\ CanManage(scope, SystemOf[t.role])
    /\ Arrives([q |-> asked + 1, scope |-> scope, st |-> "target", row |-> t,
                name |-> roleName[t.role], seen |-> {}])

\* deleteUserRole, in a transaction: the assignment with the name of its role. The
\* assignments of an admin role are counted first, except in this server's system.
Target(j) ==
    /\ j.st = "target"
    /\ LET n == roleName[j.row.role]
           counted == n = "admin" /\ SystemOf[j.row.role] # Auth
       IN IF j.row \in rows
          THEN Becomes(j, [j EXCEPT !.name = n, !.st = IF counted THEN "forUpdate" ELSE "remove"])
          ELSE Ends(j)
    /\ UNCHANGED tables

\* SELECT ... FOR UPDATE of the assignments of the admin role: reads,
ForUpdate(j) ==
    /\ j.st = "forUpdate"
    /\ Becomes(j, [j EXCEPT !.st = "waiting", !.seen = {x \in rows : x.role = j.row.role}])
    /\ UNCHANGED tables

\* Mutant: without FOR UPDATE nothing is waited for.
CountedUnlocked(j) ==
    /\ j.st = "waiting"
    /\ IF Cardinality(j.seen) <= 1
       THEN Ends(j) ELSE Becomes(j, [j EXCEPT !.st = "remove", !.seen = {}])
    /\ UNCHANGED tables

\* and, once no one else has them locked, locks and returns what is left. 409
\* LAST_SYSTEM_ADMIN if that is one row.
Counted(j) ==
    /\ j.st = "waiting"
    /\ j.seen \cap LockedRows(j) = {}
    /\ IF Cardinality(j.seen \cap rows) <= 1
       THEN Ends(j)
       ELSE Becomes(j, [j EXCEPT !.st = "remove", !.seen = @ \cap rows])
    /\ UNCHANGED tables

\* DELETE by id, COMMIT
Remove(j) ==
    /\ j.st = "remove"
    /\ j.row \notin LockedRows(j)
    /\ rows' = rows \ {j.row}
    /\ Ends(j)
    /\ UNCHANGED <<systems, users, roleName, permKey, grants>>

-------------------------------------------------------------------------------
(* /api/roles *)

\* assertNotAdminRoleEdit: only a superadmin touches or makes an admin role.
MayEdit(scope, n) == scope.all \/ n # "admin"

\* One statement, after checks on the input alone.
CreateRole(scope, r, n) ==
    /\ roleName[r] = "unborn" /\ SystemOf[r] \in systems
    /\ CanManage(scope, SystemOf[r]) /\ MayEdit(scope, n) /\ NameIsFree(r, n)
    /\ roleName' = [roleName EXCEPT ![r] = n]
    /\ UNCHANGED <<systems, users, rows, permKey, grants, flight, asked, linked>>

\* getRole, the assertions, then the UPDATE or DELETE by id.
UpdateRole(scope, r, n) ==
    /\ Exists(r) /\ CanManage(scope, SystemOf[r])
    /\ MayEdit(scope, roleName[r]) /\ MayEdit(scope, n)
    /\ Arrives([q |-> asked + 1, scope |-> scope, st |-> "rename", role |-> r, name |-> n])

Rename(j) ==
    /\ j.st = "rename"
    /\ roleName' = IF Exists(j.role) /\ NameIsFree(j.role, j.name)
                   THEN [roleName EXCEPT ![j.role] = j.name] ELSE roleName
    /\ Ends(j)
    /\ UNCHANGED <<systems, users, rows, permKey, grants>>

DeleteRole(scope, r) ==
    /\ Exists(r) /\ CanManage(scope, SystemOf[r]) /\ MayEdit(scope, roleName[r])
    /\ Arrives([q |-> asked + 1, scope |-> scope, st |-> "drop", role |-> r])

\* Mutant: the assignments survive the role.
DropBare(j) ==
    /\ j.st = "drop"
    /\ roleName' = [roleName EXCEPT ![j.role] = "gone"]
    /\ Ends(j)
    /\ UNCHANGED <<systems, users, rows, permKey, grants>>

\* The cascades wait for the rows that transactions have locked.
Drop(j) ==
    /\ j.st = "drop"
    /\ \A x \in LockedRows(j) : x.role # j.role
    /\ \A g \in LockedGrants(j) : g[1] # j.role
    /\ roleName' = [roleName EXCEPT ![j.role] = "gone"]
    /\ rows' = {x \in rows : x.role # j.role}
    /\ grants' = {g \in grants : g[1] # j.role}
    /\ Ends(j)
    /\ UNCHANGED <<systems, users, permKey>>

\* PUT /api/roles/{id}/permissions
SetPermissions(scope, r, P) ==
    /\ Exists(r) /\ CanManage(scope, SystemOf[r])
    /\ Arrives([q |-> asked + 1, scope |-> scope, st |-> "check", role |-> r,
                perms |-> P, seen |-> {}])

\* Mutant: only that they exist.
CheckExistence(j) ==
    /\ j.st = "check"
    /\ IF \A p \in j.perms : Listed(p)
       THEN Becomes(j, [j EXCEPT !.st = "clear"]) ELSE Ends(j)
    /\ UNCHANGED tables

\* setRolePermissions: 404 or 400 unless all are permissions of the role's system.
CheckPermissions(j) ==
    /\ j.st = "check"
    /\ IF \A p \in j.perms : Listed(p) /\ SystemOf[p] = SystemOf[j.role]
       THEN Becomes(j, [j EXCEPT !.st = "clear"]) ELSE Ends(j)
    /\ UNCHANGED tables

\* The transaction: the DELETE reads the rows there are,
Clear(j) ==
    /\ j.st = "clear"
    /\ Becomes(j, [j EXCEPT !.st = "clearing", !.seen = GrantsOf(j.role)])
    /\ UNCHANGED tables

\* waits for those being deleted and deletes those left; later ones it does not see.
Cleared(j) ==
    /\ j.st = "clearing"
    /\ ({j.role} \X j.seen) \cap LockedGrants(j) = {}
    /\ Becomes(j, [j EXCEPT !.st = "fill", !.seen = @ \cap GrantsOf(j.role)])
    /\ UNCHANGED tables

\* The INSERT and the COMMIT; a foreign key or a row already there rolls back.
Fill(j) ==
    /\ j.st = "fill"
    /\ ({j.role} \X j.perms) \cap LockedGrants(j) = {}
    /\ LET kept == grants \ ({j.role} \X j.seen)
           new  == {j.role} \X j.perms
       IN grants' = IF /\ new # {} => Exists(j.role)
                       /\ \A p \in j.perms : Listed(p)
                       /\ kept \cap new = {}
                    THEN kept \cup new ELSE grants
    /\ Ends(j)
    /\ UNCHANGED <<systems, users, roleName, rows, permKey>>

-------------------------------------------------------------------------------
(* /api/permissions *)

\* PUT and DELETE /{id}/roles/{roleId}: both systems are checked, and that they are
\* the same (assignPermissionToRole); system_id never changes.
AssignToRole(scope, r, p) ==
    /\ Exists(r) /\ Listed(p)
    /\ CanManage(scope, SystemOf[r]) /\ CanManage(scope, SystemOf[p])
    /\ SystemOf[r] = SystemOf[p]
    /\ Arrives([q |-> asked + 1, scope |-> scope, st |-> "link", role |-> r, perm |-> p])

UnassignFromRole(scope, r, p) ==
    /\ Exists(r) /\ Listed(p)
    /\ CanManage(scope, SystemOf[r]) /\ CanManage(scope, SystemOf[p])
    /\ Arrives([q |-> asked + 1, scope |-> scope, st |-> "unlink", role |-> r, perm |-> p])

\* INSERT ... ON CONFLICT DO NOTHING waits for a row that is being deleted.
Link(j) ==
    /\ j.st = "link"
    /\ <<j.role, j.perm>> \notin LockedGrants(j)
    /\ grants' = IF Exists(j.role) /\ Listed(j.perm)
                 THEN grants \cup {<<j.role, j.perm>>} ELSE grants
    /\ flight' = flight \ {j}
    /\ linked' = linked \cup (grants' \ grants)
    /\ UNCHANGED <<systems, users, roleName, rows, permKey, asked>>

Unlink(j) ==
    /\ j.st = "unlink"
    /\ <<j.role, j.perm>> \notin LockedGrants(j)
    /\ grants' = grants \ {<<j.role, j.perm>>}
    /\ Ends(j)
    /\ UNCHANGED <<systems, users, roleName, rows, permKey>>

\* POST /assign: the role belongs to the system of the request.
AssignPermission(scope, r, k) ==
    /\ Exists(r) /\ CanManage(scope, SystemOf[r])
    /\ Arrives([q |-> asked + 1, scope |-> scope, st |-> "find", role |-> r, key |-> k])

ToLink(j, p) ==
    Becomes(j, [q |-> j.q, scope |-> j.scope, st |-> "link", role |-> j.role, perm |-> p])

OfKey(r, k) == {p \in PermIds : SystemOf[p] = SystemOf[r] /\ permKey[p] = k}

\* findOrCreatePermission: the SELECT,
Find(j) ==
    /\ j.st = "find"
    /\ \/ \E p \in OfKey(j.role, j.key) : ToLink(j, p)
       \/ OfKey(j.role, j.key) = {} /\ Becomes(j, [j EXCEPT !.st = "create"])
    /\ UNCHANGED tables

\* and the INSERT, which a unique or a foreign key makes fail.
CreatePermission(j) ==
    /\ j.st = "create"
    /\ IF SystemOf[j.role] \in systems /\ OfKey(j.role, j.key) = {}
       THEN \E p \in PermIds :
                /\ permKey[p] = "unborn" /\ SystemOf[p] = SystemOf[j.role]
                /\ permKey' = [permKey EXCEPT ![p] = j.key]
                /\ ToLink(j, p)
       ELSE Ends(j) /\ UNCHANGED permKey
    /\ UNCHANGED <<systems, users, roleName, rows, grants>>

\* PATCH and DELETE of a permission: getPermissionSystemId, the assertion, and the
\* statement by id. removePermissionFromSystem deletes it as well.
UpdatePermission(scope, p, k) ==
    /\ Listed(p) /\ CanManage(scope, SystemOf[p])
    /\ Arrives([q |-> asked + 1, scope |-> scope, st |-> "rekey", perm |-> p, key |-> k])

Rekey(j) ==
    /\ j.st = "rekey"
    /\ permKey' = IF Listed(j.perm) /\ KeyIsFree(j.perm, j.key)
                  THEN [permKey EXCEPT ![j.perm] = j.key] ELSE permKey
    /\ Ends(j)
    /\ UNCHANGED <<systems, users, roleName, rows, grants>>

DeletePermission(scope, p) ==
    /\ Listed(p) /\ CanManage(scope, SystemOf[p])
    /\ Arrives([q |-> asked + 1, scope |-> scope, st |-> "unlist", perm |-> p])

Unlist(j) ==
    /\ j.st = "unlist"
    /\ \A g \in LockedGrants(j) : g[2] # j.perm
    /\ permKey' = [permKey EXCEPT ![j.perm] = "gone"]
    /\ grants' = {g \in grants : g[2] # j.perm}
    /\ Ends(j)
    /\ UNCHANGED <<systems, users, roleName, rows>>

-------------------------------------------------------------------------------
(* From elsewhere: one statement each, whose cascades wait for locks *)

\* deleteEmployee and deleteUserAccount
DeleteUser(u) ==
    /\ u \in users
    /\ \A j \in flight : j.st = "remove" => \A x \in j.seen : x.user # u
    /\ users' = users \ {u}
    /\ rows' = {x \in rows : x.user # u}
    /\ UNCHANGED <<systems, roleName, permKey, grants, flight, asked, linked>>

DeleteSystem(s) ==
    /\ s \in systems
    /\ \A j \in flight :
          /\ j.st = "remove" => \A x \in j.seen : SystemOf[x.role] # s
          /\ j.st = "fill" /\ j.seen # {} => SystemOf[j.role] # s
    /\ systems' = systems \ {s}
    /\ roleName' = [r \in RoleIds |->
                      IF SystemOf[r] = s /\ Exists(r) THEN "gone" ELSE roleName[r]]
    /\ permKey' = [p \in PermIds |->
                      IF SystemOf[p] = s /\ Listed(p) THEN "gone" ELSE permKey[p]]
    /\ rows' = {x \in rows : SystemOf[x.role] # s}
    /\ grants' = {g \in grants : SystemOf[g[1]] # s /\ SystemOf[g[2]] # s}
    /\ UNCHANGED <<users, flight, asked, linked>>

\* An await throws, or the server is down, or Postgres ends a deadlock by aborting
\* one of its transactions: the transaction rolls back, the handler ends.
Fails(j) == Ends(j) /\ UNCHANGED tables

-------------------------------------------------------------------------------

Arrival ==
    \/ \E scope \in Scopes, r \in RoleIds :
          \/ \E u \in Users : Assign(scope, u, r)
          \/ \E n \in RoleNames : UpdateRole(scope, r, n)
          \/ DeleteRole(scope, r)
          \/ \E P \in SUBSET PermIds : SetPermissions(scope, r, P)
          \/ \E p \in PermIds : AssignToRole(scope, r, p) \/ UnassignFromRole(scope, r, p)
          \/ \E k \in Keys : AssignPermission(scope, r, k)
    \/ \E scope \in Scopes, t \in rows : Revoke(scope, t)
    \/ \E scope \in Scopes, p \in PermIds :
          DeletePermission(scope, p) \/ \E k \in Keys : UpdatePermission(scope, p, k)

Continues(j) ==
    \/ Existing(j) \/ InsertRow(j)
    \/ Target(j) \/ ForUpdate(j) \/ Counted(j) \/ Remove(j)
    \/ Rename(j) \/ Drop(j)
    \/ CheckPermissions(j) \/ Clear(j) \/ Cleared(j) \/ Fill(j)
    \/ Link(j) \/ Unlink(j) \/ Find(j) \/ CreatePermission(j)
    \/ Rekey(j) \/ Unlist(j)
    \/ Fails(j)

Next ==
    \/ Arrival
    \/ \E j \in flight : Continues(j)
    \/ \E scope \in Scopes, r \in RoleIds, n \in RoleNames : CreateRole(scope, r, n)
    \/ \E u \in Users : DeleteUser(u)
    \/ \E s \in Systems : DeleteSystem(s)

Spec == Init /\ [][Next]_vars

-------------------------------------------------------------------------------
(* What the tables say of a user *)

\* queryHasPermission: admin of this server, admin of the system, or a role of the
\* system with the permission.
HasPermission(u, s, k) ==
    \E x \in rows :
        /\ x.user = u
        /\ \/ roleName[x.role] = "admin" /\ SystemOf[x.role] \in {Auth, s}
           \/ /\ SystemOf[x.role] = s
              /\ \E p \in GrantsOf(x.role) : SystemOf[p] = s /\ permKey[p] = k

Catalogue(s) == {permKey[p] : p \in {x \in PermIds : Listed(x) /\ SystemOf[x] = s}}

\* Mutant: the administrator of the system itself has no wildcard.
MyPermissionsLocal(u, s) ==
    LET mine == {x \in rows : x.user = u /\ SystemOf[x.role] \in {s, Auth}}
    IN IF \E x \in mine : roleName[x.role] = "admin" /\ SystemOf[x.role] = Auth
       THEN Catalogue(s)
       ELSE {permKey[p] : p \in UNION {GrantsOf(x.role) : x \in {y \in mine : SystemOf[y.role] = s}}}

\* listMyPermissions, what the panels show. It does not look at the system of the
\* permission.
MyPermissions(u, s) ==
    LET mine == {x \in rows : x.user = u /\ SystemOf[x.role] \in {s, Auth}}
    IN IF \E x \in mine : roleName[x.role] = "admin"
       THEN Catalogue(s)
       ELSE {permKey[p] : p \in UNION {GrantsOf(x.role) : x \in {y \in mine : SystemOf[y.role] = s}}}

Admins(s) == {x \in rows : roleName[x.role] = "admin" /\ SystemOf[x.role] = s}

-------------------------------------------------------------------------------
(* Properties *)

\* The requests and where they are.
Jobs ==
    LET Q == 1..MaxRequests
    IN [q : Q, scope : Scopes, st : {"existing", "insert"}, user : Users, role : RoleIds]
       \cup [q : Q, scope : Scopes, st : {"target", "forUpdate", "waiting", "remove"},
             row : Rows, name : RoleNames, seen : SUBSET Rows]
       \cup [q : Q, scope : Scopes, st : {"rename"}, role : RoleIds, name : RoleNames]
       \cup [q : Q, scope : Scopes, st : {"drop"}, role : RoleIds]
       \cup [q : Q, scope : Scopes, st : {"check", "clear", "clearing", "fill"}, role : RoleIds,
             perms : SUBSET PermIds, seen : SUBSET PermIds]
       \cup [q : Q, scope : Scopes, st : {"link", "unlink"}, role : RoleIds, perm : PermIds]
       \cup [q : Q, scope : Scopes, st : {"find", "create"}, role : RoleIds, key : Keys]
       \cup [q : Q, scope : Scopes, st : {"rekey"}, perm : PermIds, key : Keys]
       \cup [q : Q, scope : Scopes, st : {"unlist"}, perm : PermIds]

ForeignKeys ==
    /\ \A x \in rows : x.user \in users /\ Exists(x.role)
    /\ \A g \in grants : Exists(g[1]) /\ Listed(g[2])
    /\ \A r \in RoleIds : Exists(r) => SystemOf[r] \in systems
    /\ \A p \in PermIds : Listed(p) => SystemOf[p] \in systems

\* What the columns hold.
Columns ==
    /\ systems \subseteq Systems /\ users \subseteq Users
    /\ roleName \in [RoleIds -> RoleNames \cup {"unborn", "gone"}]
    /\ permKey \in [PermIds -> Keys \cup {"unborn", "gone"}]
    /\ rows \subseteq Rows
    /\ grants \subseteq RoleIds \X PermIds

\* Type invariant: columns and foreign keys, and requests at one of their awaits.
TypeOK ==
    /\ Columns /\ ForeignKeys
    /\ flight \subseteq Jobs
    /\ asked \in 0..MaxRequests
    /\ linked \subseteq RoleIds \X PermIds

\* "un rol solo puede llevar permisos de su propio sistema" (business-schema.ts:
\* 123-124): the code checks it, some awaits before it inserts; no key does.
RolesCarryOwnPermissions == \A g \in grants : SystemOf[g[1]] = SystemOf[g[2]]

\* "ambas deben coincidir, o un panel podría mostrar un botón que luego el 403 de este
\* middleware rechaza" (middleware/permission.ts:28-30): the permissions listed for a
\* user are those of the catalogue that the middleware lets pass.
PanelAgreesWithMiddleware ==
    \A u \in Users, s \in Systems, k \in Keys :
        k \in MyPermissions(u, s) <=> k \in Catalogue(s) /\ HasPermission(u, s, k)

\* "para que dos revocaciones simultáneas no dejen el sistema sin admin"
\* (user-role.service.ts:132-134): however revocations interleave with each other
\* and with the rest, one that found the role to be the admin role leaves a system
\* that has administrators with at least one.
LastAdminStays ==
    [][\A j \in flight \ flight' :
          j.st = "remove" /\ j.name = "admin" =>
             \A s \in Systems \ {Auth} : Admins(s) # {} => Admins(s)' # {}]_vars

\* What an administrator of s administers.
Content(s) ==
    << {r \in RoleIds : SystemOf[r] = s /\ roleName[r] = "admin"},
       {r \in RoleIds : SystemOf[r] = s /\ roleName[r] = "other"},
       {x \in rows : SystemOf[x.role] = s},
       {<<p, permKey[p]>> : p \in {x \in PermIds : SystemOf[x] = s}},
       {g \in grants : SystemOf[g[1]] = s \/ SystemOf[g[2]] = s} >>

\* "un admin de `pos` nunca toca permisos de otro sistema" (permissions.routes.ts:
\* 289-291), nor roles or assignments: whatever happens between the check of the scope
\* and its statements, a request changes nothing in a system out of its scope.
ChangesStayInScope ==
    [][\A j \in flight \ flight', s \in Systems :
          ~CanManage(j.scope, s) => Content(s)' = Content(s)]_vars

\* "Reemplaza el conjunto completo de permisos del rol [...]: o se aplica el conjunto
\* nuevo entero, o no se toca nada" (permission.service.ts:366-368): apart from what
\* others grant one by one, the role is left with the set, or as it was.
ReplacementIsWhole ==
    [][\A j \in flight \ flight' :
          j.st = "fill" =>
             \/ GrantsOf(j.role)' = GrantsOf(j.role)
             \/ {p \in GrantsOf(j.role)' : <<j.role, p>> \notin linked} \subseteq j.perms]_vars
===============================================================================
