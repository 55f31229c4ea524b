--------------------------- MODULE RoleAdminProofs ---------------------------
(***************************************************************************)
(* Proofs about module RoleAdmin, for any tables to begin with, any        *)
(* delegation and any number of requests.                                  *)
(***************************************************************************)
EXTENDS RoleAdmin, FiniteSetTheorems, TLAPS

\* A request that has passed its checks acts in its scope,
InScope(j) ==
    /\ j.st \in {"target", "forUpdate", "waiting", "remove"}
          => CanManage(j.scope, SystemOf[j.row.role])
    /\ j.st \in {"existing", "insert", "rename", "drop", "check", "clear", "clearing", "fill",
                 "link", "unlink", "find", "create"}
          => CanManage(j.scope, SystemOf[j.role])
    /\ j.st \in {"link", "unlink", "rekey", "unlist"} => CanManage(j.scope, SystemOf[j.perm])

\* gives a role the permissions of its system,
OwnPermissions(j) ==
    /\ j.st \in {"clear", "clearing", "fill"} => \A p \in j.perms : SystemOf[p] = SystemOf[j.role]
    /\ j.st = "link" => SystemOf[j.perm] = SystemOf[j.role]

\* and counts the assignments of one role.
SameRole(j) ==
    j.st \in {"target", "forUpdate", "waiting", "remove"} => \A x \in j.seen : x.role = j.row.role

JobOK(j) == InScope(j) /\ OwnPermissions(j) /\ SameRole(j)

\* Before the assignment of an administrator goes, two are locked, and there.
TwoLocked(j) ==
    j.st = "remove" /\ j.name = "admin" /\ SystemOf[j.row.role] # Auth =>
        /\ j.seen \subseteq rows
        /\ \E x, y \in j.seen : x # y

IInv ==
    /\ TypeOK
    /\ RolesCarryOwnPermissions
    /\ \A j \in flight : JobOK(j)
    /\ \A j \in flight : TwoLocked(j)

-------------------------------------------------------------------------------
(* Requests *)

\* The fields of a request, by its await.
LEMMA JobFields ==
    ASSUME NEW j \in Jobs
    PROVE
    /\ j.q \in 1..MaxRequests /\ j.scope \in Scopes
    /\ j.st \in {"existing", "insert"} =>
          j \in [q : 1..MaxRequests, scope : Scopes, st : {"existing", "insert"},
                 user : Users, role : RoleIds]
    /\ j.st \in {"target", "forUpdate", "waiting", "remove"} =>
          j \in [q : 1..MaxRequests, scope : Scopes,
                 st : {"target", "forUpdate", "waiting", "remove"},
                 row : Rows, name : RoleNames, seen : SUBSET Rows]
    /\ j.st = "rename" => j.role \in RoleIds /\ j.name \in RoleNames
    /\ j.st = "drop" => j.role \in RoleIds
    /\ j.st \in {"check", "clear", "clearing", "fill"} =>
          j \in [q : 1..MaxRequests, scope : Scopes,
                 st : {"check", "clear", "clearing", "fill"}, role : RoleIds,
                 perms : SUBSET PermIds, seen : SUBSET PermIds]
    /\ j.st \in {"link", "unlink"} => j.role \in RoleIds /\ j.perm \in PermIds
    /\ j.st \in {"find", "create"} =>
          j \in [q : 1..MaxRequests, scope : Scopes, st : {"find", "create"},
                 role : RoleIds, key : Keys]
    /\ j.st = "rekey" => j.perm \in PermIds /\ j.key \in Keys
    /\ j.st = "unlist" => j.perm \in PermIds
  BY DEF Jobs

-------------------------------------------------------------------------------
(* What moves the requests *)

\* A request arrives, fit for its first await.
LEMMA ArrivalMoves ==
    ASSUME IInv, Arrival
    PROVE  /\ UNCHANGED <<tables, linked>> /\ asked' \in 0..MaxRequests
           /\ \E k \in Jobs : JobOK(k) /\ k.st # "remove" /\ flight' = flight \cup {k}
  <1> DEFINE Q == asked + 1
             New(k) == /\ UNCHANGED <<tables, linked>> /\ asked' \in 0..MaxRequests
                       /\ JobOK(k) /\ k.st # "remove" /\ flight' = flight \cup {k}
  <1>1. ASSUME NEW k, Arrives(k) PROVE Q \in 1..MaxRequests /\ asked' \in 0..MaxRequests
    BY RoleAdminAssumption, <1>1 DEF Arrives, IInv, TypeOK
  <1> USE DEF JobOK, InScope, OwnPermissions, SameRole
  <1>2. ASSUME NEW scope \in Scopes, NEW r \in RoleIds, NEW u \in Users, Assign(scope, u, r)
        PROVE  \E k \in Jobs : New(k)
    <2> DEFINE k == [q |-> Q, scope |-> scope, st |-> "existing", user |-> u, role |-> r]
    <2>1. k \in Jobs
      BY <1>1, <1>2 DEF Assign, Jobs
    <2>2. New(k)
      BY <1>1, <1>2 DEF Assign, Arrives
    <2>3. QED
      BY <2>1, <2>2
  <1>3. ASSUME NEW scope \in Scopes, NEW r \in RoleIds, NEW n \in RoleNames, UpdateRole(scope, r, n)
        PROVE  \E k \in Jobs : New(k)
    <2> DEFINE k == [q |-> Q, scope |-> scope, st |-> "rename", role |-> r, name |-> n]
    <2>1. k \in Jobs
      BY <1>1, <1>3 DEF UpdateRole, Jobs
    <2>2. New(k)
      BY <1>1, <1>3 DEF UpdateRole, Arrives
    <2>3. QED
      BY <2>1, <2>2
  <1>4. ASSUME NEW scope \in Scopes, NEW r \in RoleIds, DeleteRole(scope, r)
        PROVE  \E k \in Jobs : New(k)
    <2> DEFINE k == [q |-> Q, scope |-> scope, st |-> "drop", role |-> r]
    <2>1. k \in Jobs
      BY <1>1, <1>4 DEF DeleteRole, Jobs
    <2>2. New(k)
      BY <1>1, <1>4 DEF DeleteRole, Arrives
    <2>3. QED
      BY <2>1, <2>2
  <1>5. ASSUME NEW scope \in Scopes, NEW r \in RoleIds, NEW P \in SUBSET PermIds,
               SetPermissions(scope, r, P)
        PROVE  \E k \in Jobs : New(k)
    <2> DEFINE k == [q |-> Q, scope |-> scope, st |-> "check", role |-> r,
                     perms |-> P, seen |-> {}]
    <2>1. k \in Jobs
      BY <1>1, <1>5 DEF SetPermissions, Jobs
    <2>2. New(k)
      BY <1>1, <1>5 DEF SetPermissions, Arrives
    <2>3. QED
      BY <2>1, <2>2
  <1>6. ASSUME NEW scope \in Scopes, NEW r \in RoleIds, NEW p \in PermIds,
               AssignToRole(scope, r, p) \/ UnassignFromRole(scope, r, p)
        PROVE  \E k \in Jobs : New(k)
    <2>1. CASE AssignToRole(scope, r, p)
      <3> DEFINE k == [q |-> Q, scope |-> scope, st |-> "link", role |-> r, perm |-> p]
      <3>1. k \in Jobs
        BY <1>1, <2>1 DEF AssignToRole, Jobs
      <3>2. New(k)
        BY <1>1, <2>1 DEF AssignToRole, Arrives
      <3>3. QED
        BY <3>1, <3>2
    <2>2. CASE UnassignFromRole(scope, r, p)
      <3> DEFINE k == [q |-> Q, scope |-> scope, st |-> "unlink", role |-> r, perm |-> p]
      <3>1. k \in Jobs
        BY <1>1, <2>2 DEF UnassignFromRole, Jobs
      <3>2. New(k)
        BY <1>1, <2>2 DEF UnassignFromRole, Arrives
      <3>3. QED
        BY <3>1, <3>2
    <2>3. QED
      BY <1>6, <2>1, <2>2
  <1>7. ASSUME NEW scope \in Scopes, NEW r \in RoleIds, NEW c \in Keys,
               AssignPermission(scope, r, c)
        PROVE  \E k \in Jobs : New(k)
    <2> DEFINE k == [q |-> Q, scope |-> scope, st |-> "find", role |-> r, key |-> c]
    <2>1. k \in Jobs
      BY <1>1, <1>7 DEF AssignPermission, Jobs
    <2>2. New(k)
      BY <1>1, <1>7 DEF AssignPermission, Arrives
    <2>3. QED
      BY <2>1, <2>2
  <1>8. ASSUME NEW scope \in Scopes, NEW t \in rows, Revoke(scope, t)
        PROVE  \E k \in Jobs : New(k)
    <2> DEFINE k == [q |-> Q, scope |-> scope, st |-> "target", row |-> t,
                     name |-> roleName[t.role], seen |-> {}]
    <2>1. t \in Rows /\ roleName[t.role] \in RoleNames
      BY DEF IInv, TypeOK, Columns, ForeignKeys, Exists
    <2>2. k \in Jobs
      BY <1>1, <1>8, <2>1 DEF Revoke, Jobs
    <2>3. New(k)
      BY <1>1, <1>8 DEF Revoke, Arrives
    <2>4. QED
      BY <2>2, <2>3
  <1>9. ASSUME NEW scope \in Scopes, NEW p \in PermIds, DeletePermission(scope, p)
        PROVE  \E k \in Jobs : New(k)
    <2> DEFINE k == [q |-> Q, scope |-> scope, st |-> "unlist", perm |-> p]
    <2>1. k \in Jobs
      BY <1>1, <1>9 DEF DeletePermission, Jobs
    <2>2. New(k)
      BY <1>1, <1>9 DEF DeletePermission, Arrives
    <2>3. QED
      BY <2>1, <2>2
  <1>10. ASSUME NEW scope \in Scopes, NEW p \in PermIds, NEW c \in Keys,
                UpdatePermission(scope, p, c)
         PROVE  \E k \in Jobs : New(k)
    <2> DEFINE k == [q |-> Q, scope |-> scope, st |-> "rekey", perm |-> p, key |-> c]
    <2>1. k \in Jobs
      BY <1>1, <1>10 DEF UpdatePermission, Jobs
    <2>2. New(k)
      BY <1>1, <1>10 DEF UpdatePermission, Arrives
    <2>3. QED
      BY <2>1, <2>2
  <1> HIDE DEF New
  <1>11. \E k \in Jobs : New(k)
    BY <1>2, <1>3, <1>4, <1>5, <1>6, <1>7, <1>8, <1>9, <1>10 DEF Arrival
  <1>12. QED
    BY <1>11 DEF New

\* Requests that read.
Reads(j) ==
    \/ Existing(j) \/ Target(j) \/ ForUpdate(j) \/ Counted(j)
    \/ CheckPermissions(j) \/ Clear(j) \/ Cleared(j) \/ Find(j) \/ Fails(j)

\* More than one of a set.
LEMMA MoreThanOne ==
    ASSUME NEW S, ~(Cardinality(S) <= 1)
    PROVE  \E x, y \in S : x # y
  <1>1. SUFFICES ASSUME \A x, y \in S : x = y PROVE FALSE
    OBVIOUS
  <1>2. CASE S = {}
    BY <1>2, FS_EmptySet
  <1>3. CASE S # {}
    <2>1. PICK x \in S : TRUE
      BY <1>3
    <2>2. S = {x}
      BY <1>1, <2>1
    <2>3. QED
      BY <2>2, FS_Singleton
  <1>4. QED
    BY <1>2, <1>3

\* The request with which POST /assign goes on links two of one system.
LEMMA ToLinkMoves ==
    ASSUME NEW j \in Jobs, JobOK(j), j.st \in {"find", "create"},
           NEW p \in PermIds, SystemOf[p] = SystemOf[j.role], ToLink(j, p)
    PROVE  \E k \in Jobs : /\ JobOK(k) /\ k.st # "remove"
                           /\ flight' = (flight \ {j}) \cup {k} /\ UNCHANGED <<asked, linked>>
  <1> DEFINE k == [q |-> j.q, scope |-> j.scope, st |-> "link", role |-> j.role, perm |-> p]
  <1>1. k \in Jobs
    BY JobFields DEF Jobs
  <1>2. JobOK(k)
    BY DEF JobOK, InScope, OwnPermissions, SameRole
  <1>3. QED
    BY <1>1, <1>2 DEF ToLink, Becomes

\* A request that reads ends, or is fit for its next await.
LEMMA ReadMoves ==
    ASSUME IInv, NEW j \in flight, Reads(j)
    PROVE  /\ UNCHANGED <<tables, asked, linked>>
           /\ \/ flight' = flight \ {j}
              \/ \E k \in Jobs : JobOK(k) /\ TwoLocked(k) /\ flight' = (flight \ {j}) \cup {k}
  <1>1. j \in Jobs /\ JobOK(j)
    BY DEF IInv, TypeOK
  <1> USE DEF JobOK, InScope, OwnPermissions, SameRole
  <1>2. CASE Existing(j)
    <2> DEFINE k == [j EXCEPT !.st = "insert"]
    <2>1. k \in Jobs /\ k.st = "insert" /\ k.scope = j.scope /\ k.role = j.role
      BY <1>1, <1>2, JobFields DEF Existing, Jobs
    <2>2. JobOK(k) /\ TwoLocked(k)
      BY <1>1, <1>2, <2>1 DEF Existing, TwoLocked
    <2>3. UNCHANGED tables /\ (Ends(j) \/ Becomes(j, k))
      BY <1>2 DEF Existing
    <2> HIDE DEF k
    <2>4. QED
      BY <2>1, <2>2, <2>3 DEF Becomes, Ends
  <1>3. CASE Target(j)
    <2> DEFINE n == roleName[j.row.role]
               c == n = "admin" /\ SystemOf[j.row.role] # Auth
               k == [j EXCEPT !.name = n, !.st = IF c THEN "forUpdate" ELSE "remove"]
    <2>1. CASE j.row \in rows
      <3>1. n \in RoleNames
        BY <2>1 DEF IInv, TypeOK, ForeignKeys, Exists
      <3>2. /\ k \in Jobs /\ k.st \in {"forUpdate", "remove"} /\ k.name = n
            /\ k.scope = j.scope /\ k.row = j.row /\ k.seen = j.seen
            /\ k.st = "remove" => ~c
        BY <1>1, <1>3, <3>1, JobFields DEF Target, Jobs
      <3>3. TwoLocked(k)
        BY <3>2 DEF TwoLocked
      <3>4. JobOK(k)
        <4>1. InScope(k) /\ OwnPermissions(k)
          BY <1>1, <1>3, <3>2 DEF Target
        <4>2. SameRole(k)
          BY <1>1, <1>3, <3>2, <2>1 DEF Target
        <4>3. QED
          BY <4>1, <4>2
      <3>5. Becomes(j, k) /\ UNCHANGED tables
        BY <1>3, <2>1 DEF Target
      <3> HIDE DEF k
      <3>6. QED
        BY <3>2, <3>3, <3>4, <3>5 DEF Becomes
    <2>2. CASE j.row \notin rows
      BY <1>3, <2>2 DEF Target, Ends
    <2>3. QED
      BY <2>1, <2>2
  <1>4. CASE ForUpdate(j)
    <2> DEFINE S == {x \in rows : x.role = j.row.role}
               k == [j EXCEPT !.st = "waiting", !.seen = S]
    <2>1. S \subseteq Rows
      BY DEF IInv, TypeOK, Columns
    <2>2. /\ k \in Jobs /\ k.st = "waiting" /\ k.scope = j.scope /\ k.row = j.row
          /\ k.seen = S
      BY <1>1, <1>4, <2>1, JobFields DEF ForUpdate, Jobs
    <2>3. JobOK(k) /\ TwoLocked(k)
      BY <1>1, <1>4, <2>2 DEF ForUpdate, TwoLocked
    <2>4. Becomes(j, k) /\ UNCHANGED tables
      BY <1>4 DEF ForUpdate
    <2> HIDE DEF k
    <2>5. QED
      BY <2>2, <2>3, <2>4 DEF Becomes
  <1>5. CASE Counted(j)
    <2> DEFINE S == j.seen \cap rows
               k == [j EXCEPT !.st = "remove", !.seen = S]
    <2>1. CASE Cardinality(S) <= 1
      BY <1>5, <2>1 DEF Counted, Ends
    <2>2. CASE ~(Cardinality(S) <= 1)
      <3>1. /\ k \in Jobs /\ k.st = "remove" /\ k.scope = j.scope /\ k.row = j.row
            /\ k.seen = S
        BY <1>1, <1>5, JobFields DEF Counted, Jobs
      <3>2. TwoLocked(k)
        BY <2>2, <3>1, MoreThanOne DEF TwoLocked
      <3>3. JobOK(k)
        BY <1>1, <1>5, <3>1 DEF Counted
      <3>4. Becomes(j, k) /\ UNCHANGED tables
        <4>1. k = [j EXCEPT !.st = "remove", !.seen = @ \cap rows]
          OBVIOUS
        <4> HIDE DEF k
        <4>2. QED
          BY <1>5, <2>2, <4>1 DEF Counted
      <3> HIDE DEF k
      <3>5. QED
        BY <3>1, <3>2, <3>3, <3>4 DEF Becomes
    <2>3. QED
      BY <2>1, <2>2
  <1>6. CASE CheckPermissions(j)
    <2> DEFINE k == [j EXCEPT !.st = "clear"]
    <2>1. CASE \A p \in j.perms : Listed(p) /\ SystemOf[p] = SystemOf[j.role]
      <3>1. /\ k \in Jobs /\ k.st = "clear" /\ k.scope = j.scope /\ k.role = j.role
            /\ k.perms = j.perms
        BY <1>1, <1>6, JobFields DEF CheckPermissions, Jobs
      <3>2. JobOK(k) /\ TwoLocked(k)
        BY <1>1, <1>6, <2>1, <3>1 DEF CheckPermissions, TwoLocked
      <3>3. Becomes(j, k) /\ UNCHANGED tables
        BY <1>6, <2>1 DEF CheckPermissions
      <3> HIDE DEF k
      <3>4. QED
        BY <3>1, <3>2, <3>3 DEF Becomes
    <2>2. CASE ~\A p \in j.perms : Listed(p) /\ SystemOf[p] = SystemOf[j.role]
      BY <1>6, <2>2 DEF CheckPermissions, Ends
    <2>3. QED
      BY <2>1, <2>2
  <1>7. CASE Clear(j)
    <2> DEFINE k == [j EXCEPT !.st = "clearing", !.seen = GrantsOf(j.role)]
    <2>1. /\ k \in Jobs /\ k.st = "clearing" /\ k.scope = j.scope /\ k.role = j.role
          /\ k.perms = j.perms
      BY <1>1, <1>7, JobFields DEF Clear, Jobs, GrantsOf
    <2>2. JobOK(k) /\ TwoLocked(k)
      BY <1>1, <1>7, <2>1 DEF Clear, TwoLocked
    <2>3. Becomes(j, k) /\ UNCHANGED tables
      BY <1>7 DEF Clear
    <2> HIDE DEF k
    <2>4. QED
      BY <2>1, <2>2, <2>3 DEF Becomes
  <1>8. CASE Cleared(j)
    <2> DEFINE k == [j EXCEPT !.st = "fill", !.seen = @ \cap GrantsOf(j.role)]
    <2>1. /\ k \in Jobs /\ k.st = "fill" /\ k.scope = j.scope /\ k.role = j.role
          /\ k.perms = j.perms
      BY <1>1, <1>8, JobFields DEF Cleared, Jobs
    <2>2. JobOK(k) /\ TwoLocked(k)
      BY <1>1, <1>8, <2>1 DEF Cleared, TwoLocked
    <2>3. Becomes(j, k) /\ UNCHANGED tables
      BY <1>8 DEF Cleared
    <2> HIDE DEF k
    <2>4. QED
      BY <2>1, <2>2, <2>3 DEF Becomes
  <1>9. CASE Find(j)
    <2>1. CASE \E p \in OfKey(j.role, j.key) : ToLink(j, p)
      <3>1. \E k \in Jobs : /\ JobOK(k) /\ k.st # "remove"
                            /\ flight' = (flight \ {j}) \cup {k} /\ UNCHANGED <<asked, linked>>
        BY <1>1, <1>9, <2>1, ToLinkMoves DEF Find, OfKey
      <3>2. QED
        BY <1>9, <3>1 DEF Find, TwoLocked
    <2>2. CASE Becomes(j, [j EXCEPT !.st = "create"])
      <3> DEFINE k == [j EXCEPT !.st = "create"]
      <3>1. k \in Jobs /\ k.st = "create" /\ k.scope = j.scope /\ k.role = j.role
        BY <1>1, <1>9, JobFields DEF Find, Jobs
      <3>2. JobOK(k) /\ TwoLocked(k)
        BY <1>1, <1>9, <3>1 DEF Find, TwoLocked
      <3> HIDE DEF k
      <3>3. QED
        BY <1>9, <2>2, <3>1, <3>2 DEF Find, Becomes, k
    <2>3. QED
      BY <1>9, <2>1, <2>2 DEF Find
  <1>10. CASE Fails(j)
    BY <1>10 DEF Fails, Ends
  <1>11. QED
    BY <1>2, <1>3, <1>4, <1>5, <1>6, <1>7, <1>8, <1>9, <1>10 DEF Reads

-------------------------------------------------------------------------------
(* The invariant *)

Keyed == Columns /\ ForeignKeys /\ RolesCarryOwnPermissions

LEMMA InvParts ==
    ASSUME IInv, NEW j \in flight
    PROVE  j \in Jobs /\ JobOK(j) /\ TwoLocked(j) /\ Keyed
  BY DEF IInv, TypeOK, Keyed

\* While nobody deletes the rows that a request has locked.
LEMMA LocksHold ==
    ASSUME NEW j, TwoLocked(j), j.st = "remove" => j.seen \cap rows \subseteq rows'
    PROVE  TwoLocked(j)'
  BY DEF TwoLocked

LEMMA TablesStay ==
    ASSUME UNCHANGED tables
    PROVE  /\ Keyed => Keyed'
           /\ \A j : TwoLocked(j) => TwoLocked(j)'
  <1> USE DEF tables
  <1>1. Columns => Columns'
    BY DEF Columns
  <1>2. ForeignKeys => ForeignKeys'
    BY DEF ForeignKeys, Exists, Listed
  <1>3. RolesCarryOwnPermissions => RolesCarryOwnPermissions'
    BY DEF RolesCarryOwnPermissions
  <1>4. QED
    BY <1>1, <1>2, <1>3 DEF Keyed, TwoLocked

\* A request that ends takes nothing away from the others.
LEMMA EndsInv ==
    ASSUME IInv, NEW j \in flight, Ends(j), Keyed',
           \A k \in flight \ {j} : TwoLocked(k)'
    PROVE  IInv'
  BY DEF IInv, TypeOK, Keyed, Ends

LEMMA InitInv == Init => IInv
  <1> USE RoleAdminAssumption
  <1>1. Init => Columns
    BY DEF Init, Columns
  <1>2. Init => ForeignKeys
    <2>1. ASSUME Init, NEW x \in rows PROVE x.user \in users /\ Exists(x.role)
      BY <2>1 DEF Init, Rows, Exists
    <2>2. ASSUME Init, NEW g \in grants PROVE Exists(g[1]) /\ Listed(g[2])
      BY <2>2 DEF Init, Exists, Listed
    <2>3. Init => /\ \A r \in RoleIds : SystemOf[r] \in systems
                  /\ \A p \in PermIds : SystemOf[p] \in systems
      BY DEF Init
    <2>4. QED
      BY <2>1, <2>2, <2>3 DEF ForeignKeys
  <1>3. Init => RolesCarryOwnPermissions
    BY DEF Init, RolesCarryOwnPermissions
  <1>4. QED
    BY <1>1, <1>2, <1>3 DEF Init, IInv, TypeOK

LEMMA ArrivalInv == ASSUME IInv, Arrival PROVE IInv'
  <1>1. PICK k \in Jobs : JobOK(k) /\ k.st # "remove" /\ flight' = flight \cup {k}
    BY ArrivalMoves
  <1>2. UNCHANGED <<tables, linked>> /\ asked' \in 0..MaxRequests
    BY ArrivalMoves
  <1>3. Keyed' /\ \A j \in flight' : TwoLocked(j)'
    BY <1>1, <1>2, TablesStay DEF IInv, TypeOK, Keyed, TwoLocked
  <1>4. QED
    BY <1>1, <1>2, <1>3 DEF IInv, TypeOK, Keyed

LEMMA ReadInv == ASSUME IInv, NEW j \in flight, Reads(j) PROVE IInv'
  <1>1. UNCHANGED <<tables, asked, linked>>
    BY ReadMoves
  <1>2. Keyed' /\ \A k \in Jobs : TwoLocked(k) => TwoLocked(k)'
    BY <1>1, TablesStay DEF IInv, TypeOK, Keyed
  <1>3. CASE flight' = flight \ {j}
    BY <1>1, <1>2, <1>3 DEF IInv, TypeOK, Keyed
  <1>4. ASSUME NEW k \in Jobs, JobOK(k), TwoLocked(k), flight' = (flight \ {j}) \cup {k}
        PROVE  IInv'
    BY <1>1, <1>2, <1>4 DEF IInv, TypeOK, Keyed
  <1>5. QED
    BY <1>3, <1>4, ReadMoves

LEMMA InsertRowInv == ASSUME IInv, NEW j \in flight, InsertRow(j) PROVE IInv'
  <1> DEFINE x == [id |-> j.q, user |-> j.user, role |-> j.role]
  <1>1. x \in Rows
    BY RoleAdminAssumption, InvParts, JobFields DEF InsertRow, Rows
  <1>2. rows \subseteq rows' /\ rows' \subseteq rows \cup {x}
    BY DEF InsertRow
  <1>3. \A y \in rows' : y.user \in users /\ Exists(y.role)
    BY InvParts DEF InsertRow, Keyed, ForeignKeys
  <1> HIDE DEF x
  <1>4. Keyed'
    BY <1>1, <1>2, <1>3, InvParts
       DEF InsertRow, Keyed, Columns, ForeignKeys, Exists, Listed, RolesCarryOwnPermissions
  <1>5. \A k \in flight : TwoLocked(k)'
    BY <1>2, InvParts, LocksHold
  <1>6. QED
    BY <1>4, <1>5, EndsInv DEF InsertRow

\* The row is not one that another request has locked.
LEMMA RemoveInv == ASSUME IInv, NEW j \in flight, Remove(j) PROVE IInv'
  <1>1. Keyed'
    BY InvParts DEF Remove, Keyed, Columns, ForeignKeys, Exists, Listed, RolesCarryOwnPermissions
  <1>2. ASSUME NEW k \in flight \ {j} PROVE TwoLocked(k)'
    <2>1. k.st = "remove" => j.row \notin k.seen
      BY DEF Remove, LockedRows
    <2>2. QED
      BY <2>1, InvParts, LocksHold DEF Remove
  <1>3. QED
    BY <1>1, <1>2, EndsInv DEF Remove

LEMMA RenameInv == ASSUME IInv, NEW j \in flight, Rename(j) PROVE IInv'
  <1>1. j.role \in RoleIds /\ j.name \in RoleNames
    BY InvParts, JobFields DEF Rename
  <1>2. /\ roleName' \in [RoleIds -> RoleNames \cup {"unborn", "gone"}]
        /\ \A r \in RoleIds : Exists(r) <=> Exists(r)'
    BY <1>1, InvParts DEF Rename, Keyed, Columns, Exists
  <1>3. Keyed'
    BY <1>2, InvParts
       DEF Rename, Keyed, Columns, ForeignKeys, Rows, Listed, RolesCarryOwnPermissions
  <1>4. \A k \in flight : TwoLocked(k)'
    BY InvParts, LocksHold DEF Rename
  <1>5. QED
    BY <1>3, <1>4, EndsInv DEF Rename

\* The cascade spares the rows that another request has locked.
LEMMA DropInv == ASSUME IInv, NEW j \in flight, Drop(j) PROVE IInv'
  <1>1. j.role \in RoleIds
    BY InvParts, JobFields DEF Drop
  <1>2. /\ roleName' \in [RoleIds -> RoleNames \cup {"unborn", "gone"}]
        /\ \A r \in RoleIds : Exists(r)' <=> Exists(r) /\ r # j.role
    BY <1>1, InvParts DEF Drop, Keyed, Columns, Exists, RoleNames
  <1>3. Keyed'
    BY <1>2, InvParts
       DEF Drop, Keyed, Columns, ForeignKeys, Rows, Listed, RolesCarryOwnPermissions
  <1>4. ASSUME NEW k \in flight \ {j} PROVE TwoLocked(k)'
    <2>1. k.st = "remove" => \A x \in k.seen : x.role # j.role
      BY DEF Drop, LockedRows
    <2>2. QED
      BY <2>1, InvParts, LocksHold DEF Drop
  <1>5. QED
    BY <1>3, <1>4, EndsInv DEF Drop

\* A change of grants that leaves the other tables alone.
LEMMA GrantsInv ==
    ASSUME IInv, NEW j \in flight, flight' = flight \ {j}, UNCHANGED <<systems, users, roleName, rows, permKey, asked>>,
           linked' \subseteq RoleIds \X PermIds, grants' \subseteq RoleIds \X PermIds,
           \A g \in grants' \ grants :
              Exists(g[1]) /\ Listed(g[2]) /\ SystemOf[g[1]] = SystemOf[g[2]]
    PROVE  IInv'
  <1>1. Keyed'
    BY InvParts DEF Keyed, Columns, ForeignKeys, Exists, Listed, RolesCarryOwnPermissions
  <1>2. \A k \in flight : TwoLocked(k)'
    BY InvParts, LocksHold
  <1>3. QED
    BY <1>1, <1>2 DEF IInv, TypeOK, Keyed

LEMMA FillInv == ASSUME IInv, NEW j \in flight, Fill(j) PROVE IInv'
  <1>1. j.role \in RoleIds /\ j.perms \subseteq PermIds
    BY InvParts, JobFields DEF Fill
  <1>2. \A p \in j.perms : SystemOf[p] = SystemOf[j.role]
    BY InvParts DEF Fill, JobOK, OwnPermissions
  <1>3. grants' \ grants # {} => Exists(j.role) /\ \A p \in j.perms : Listed(p)
    BY DEF Fill
  <1>4. grants' \ grants \subseteq {j.role} \X j.perms
    BY DEF Fill
  <1>5. grants' \subseteq RoleIds \X PermIds
    BY <1>1, <1>4, InvParts DEF Keyed, Columns
  <1>6. \A g \in grants' \ grants :
           Exists(g[1]) /\ Listed(g[2]) /\ SystemOf[g[1]] = SystemOf[g[2]]
    BY <1>2, <1>3, <1>4
  <1>7. linked' \subseteq RoleIds \X PermIds
    BY DEF Fill, Ends, IInv, TypeOK
  <1>8. QED
    BY <1>5, <1>6, <1>7, GrantsInv DEF Fill, Ends

LEMMA LinkInv == ASSUME IInv, NEW j \in flight, Link(j) \/ Unlink(j) PROVE IInv'
  <1>1. j.role \in RoleIds /\ j.perm \in PermIds
    BY InvParts, JobFields DEF Link, Unlink
  <1>2. CASE Link(j)
    <2>1. SystemOf[j.perm] = SystemOf[j.role]
      BY <1>2, InvParts DEF Link, JobOK, OwnPermissions
    <2>2. grants' \ grants # {} => Exists(j.role) /\ Listed(j.perm)
      BY <1>2 DEF Link
    <2>3. grants' \subseteq grants \cup {<<j.role, j.perm>>}
      BY <1>2 DEF Link
    <2>4. grants' \subseteq RoleIds \X PermIds
      BY <1>1, <2>3, InvParts DEF Keyed, Columns
    <2>5. linked' \subseteq RoleIds \X PermIds
      BY <1>2, <2>4 DEF Link, IInv, TypeOK
    <2>6. \A g \in grants' \ grants :
             Exists(g[1]) /\ Listed(g[2]) /\ SystemOf[g[1]] = SystemOf[g[2]]
      BY <2>1, <2>2, <2>3
    <2>7. QED
      BY <1>2, <2>4, <2>5, <2>6, GrantsInv DEF Link
  <1>3. CASE Unlink(j)
    <2>1. grants' \subseteq grants
      BY <1>3 DEF Unlink
    <2>2. grants' \subseteq RoleIds \X PermIds /\ linked' \subseteq RoleIds \X PermIds
      BY <1>3, <2>1, InvParts DEF Unlink, Ends, IInv, TypeOK, Keyed, Columns
    <2>3. QED
      BY <1>3, <2>1, <2>2, GrantsInv DEF Unlink, Ends
  <1>4. QED
    BY <1>2, <1>3

\* What POST /assign lists is of the role's system.
LEMMA CreatePermissionInv == ASSUME IInv, NEW j \in flight, CreatePermission(j) PROVE IInv'
  <1>1. j \in Jobs /\ JobOK(j) /\ Keyed /\ j.role \in RoleIds /\ j.key \in Keys
    BY InvParts, JobFields DEF CreatePermission
  <1>2. CASE Ends(j) /\ UNCHANGED permKey
    <2>1. UNCHANGED tables
      BY <1>2 DEF CreatePermission, tables
    <2>2. QED
      BY <1>1, <1>2, <2>1, TablesStay, InvParts, EndsInv
  <1>3. ASSUME NEW p \in PermIds, SystemOf[j.role] \in systems,
               SystemOf[p] = SystemOf[j.role],
               permKey' = [permKey EXCEPT ![p] = j.key], ToLink(j, p)
        PROVE  IInv'
    <2>1. /\ permKey' \in [PermIds -> Keys \cup {"unborn", "gone"}]
          /\ Listed(p)'
          /\ \A o \in PermIds : Listed(o) => Listed(o)'
          /\ \A o \in PermIds : Listed(o)' => Listed(o) \/ o = p
      BY <1>1, <1>3 DEF Keyed, Columns, Listed
    <2>2. Keyed'
      BY <1>1, <1>3, <2>1
         DEF CreatePermission, Keyed, Columns, ForeignKeys, Exists, RolesCarryOwnPermissions
    <2>3. PICK k \in Jobs : /\ JobOK(k) /\ k.st # "remove"
                            /\ flight' = (flight \ {j}) \cup {k} /\ UNCHANGED <<asked, linked>>
      BY <1>1, <1>3, ToLinkMoves DEF CreatePermission
    <2>4. \A i \in flight' : TwoLocked(i)'
      BY <2>3, InvParts DEF CreatePermission, TwoLocked
    <2>5. QED
      BY <2>2, <2>3, <2>4 DEF IInv, TypeOK, Keyed
  <1>4. QED
    BY <1>2, <1>3 DEF CreatePermission

LEMMA RekeyInv == ASSUME IInv, NEW j \in flight, Rekey(j) PROVE IInv'
  <1>1. j.perm \in PermIds /\ j.key \in Keys
    BY InvParts, JobFields DEF Rekey
  <1>2. /\ permKey' \in [PermIds -> Keys \cup {"unborn", "gone"}]
        /\ \A p \in PermIds : Listed(p) <=> Listed(p)'
    BY <1>1, InvParts DEF Rekey, Keyed, Columns, Listed
  <1>3. Keyed'
    BY <1>2, InvParts DEF Rekey, Keyed, Columns, ForeignKeys, Exists, RolesCarryOwnPermissions
  <1>4. \A k \in flight : TwoLocked(k)'
    BY InvParts, LocksHold DEF Rekey
  <1>5. QED
    BY <1>3, <1>4, EndsInv DEF Rekey

LEMMA UnlistInv == ASSUME IInv, NEW j \in flight, Unlist(j) PROVE IInv'
  <1>1. j.perm \in PermIds
    BY InvParts, JobFields DEF Unlist
  <1>2. /\ permKey' \in [PermIds -> Keys \cup {"unborn", "gone"}]
        /\ \A p \in PermIds : Listed(p)' <=> Listed(p) /\ p # j.perm
    BY <1>1, InvParts, RoleAdminAssumption DEF Unlist, Keyed, Columns, Listed
  <1>3. Keyed'
    BY <1>2, InvParts DEF Unlist, Keyed, Columns, ForeignKeys, Exists, RolesCarryOwnPermissions
  <1>4. \A k \in flight : TwoLocked(k)'
    BY InvParts, LocksHold DEF Unlist
  <1>5. QED
    BY <1>3, <1>4, EndsInv DEF Unlist

LEMMA CreateRoleInv ==
    ASSUME IInv, NEW scope \in Scopes, NEW r \in RoleIds, NEW n \in RoleNames,
           CreateRole(scope, r, n)
    PROVE  IInv'
  <1>1. /\ roleName' \in [RoleIds -> RoleNames \cup {"unborn", "gone"}]
        /\ \A o \in RoleIds : Exists(o)' <=> Exists(o) \/ o = r
    BY DEF CreateRole, IInv, TypeOK, Columns, Exists
  <1>2. Keyed'
    BY <1>1
       DEF CreateRole, IInv, TypeOK, Keyed, Columns, ForeignKeys, Rows, Listed, RolesCarryOwnPermissions
  <1>3. QED
    BY <1>2 DEF CreateRole, IInv, TypeOK, Keyed, TwoLocked

LEMMA DeleteUserInv == ASSUME IInv, NEW u \in Users, DeleteUser(u) PROVE IInv'
  <1>1. Keyed'
    BY DEF DeleteUser, IInv, TypeOK, Keyed, Columns, ForeignKeys, Exists, Listed,
           RolesCarryOwnPermissions
  <1>2. ASSUME NEW k \in flight PROVE TwoLocked(k)'
    BY InvParts, LocksHold DEF DeleteUser
  <1>3. QED
    BY <1>1, <1>2 DEF DeleteUser, IInv, TypeOK, Keyed

LEMMA DeleteSystemInv == ASSUME IInv, NEW s \in Systems, DeleteSystem(s) PROVE IInv'
  <1>1. /\ roleName' \in [RoleIds -> RoleNames \cup {"unborn", "gone"}]
        /\ \A r \in RoleIds : Exists(r)' <=> Exists(r) /\ SystemOf[r] # s
    BY DEF DeleteSystem, IInv, TypeOK, Columns, Exists, RoleNames
  <1>2. /\ permKey' \in [PermIds -> Keys \cup {"unborn", "gone"}]
        /\ \A p \in PermIds : Listed(p)' <=> Listed(p) /\ SystemOf[p] # s
    BY RoleAdminAssumption DEF DeleteSystem, IInv, TypeOK, Columns, Listed
  <1>3. Columns' /\ RolesCarryOwnPermissions'
    BY <1>1, <1>2 DEF DeleteSystem, IInv, TypeOK, Columns, RolesCarryOwnPermissions
  <1>4. ForeignKeys'
    <2>1. \A x \in rows' : x.user \in users' /\ Exists(x.role)'
      BY <1>1 DEF DeleteSystem, IInv, TypeOK, Columns, ForeignKeys, Rows
    <2>2. \A g \in grants' : Exists(g[1])' /\ Listed(g[2])'
      BY <1>1, <1>2 DEF DeleteSystem, IInv, TypeOK, Columns, ForeignKeys
    <2>3. /\ \A r \in RoleIds : Exists(r)' => SystemOf[r] \in systems'
          /\ \A p \in PermIds : Listed(p)' => SystemOf[p] \in systems'
      BY <1>1, <1>2 DEF DeleteSystem, IInv, TypeOK, ForeignKeys
    <2>4. QED
      BY <2>1, <2>2, <2>3 DEF ForeignKeys
  <1>5. ASSUME NEW k \in flight PROVE TwoLocked(k)'
    BY InvParts, LocksHold DEF DeleteSystem
  <1>6. QED
    BY <1>3, <1>4, <1>5 DEF DeleteSystem, IInv, TypeOK

LEMMA ContinuesInv == ASSUME IInv, NEW j \in flight, Continues(j) PROVE IInv'
  <1>1. Reads(j) => IInv'
    BY ReadInv
  <1>2. InsertRow(j) \/ Remove(j) \/ Rename(j) \/ Drop(j) => IInv'
    BY InsertRowInv, RemoveInv, RenameInv, DropInv
  <1>3. Fill(j) \/ Link(j) \/ Unlink(j) => IInv'
    BY FillInv, LinkInv
  <1>4. CreatePermission(j) \/ Rekey(j) \/ Unlist(j) => IInv'
    BY CreatePermissionInv, RekeyInv, UnlistInv
  <1>5. QED
    BY <1>1, <1>2, <1>3, <1>4 DEF Continues, Reads

LEMMA NextInv == IInv /\ [Next]_vars => IInv'
  <1> SUFFICES ASSUME IInv, [Next]_vars PROVE IInv'
    OBVIOUS
  <1>1. CASE Arrival
    BY <1>1, ArrivalInv
  <1>2. CASE \E j \in flight : Continues(j)
    BY <1>2, ContinuesInv
  <1>3. CASE \E scope \in Scopes, r \in RoleIds, n \in RoleNames : CreateRole(scope, r, n)
    BY <1>3, CreateRoleInv
  <1>4. CASE (\E u \in Users : DeleteUser(u)) \/ \E s \in Systems : DeleteSystem(s)
    BY <1>4, DeleteUserInv, DeleteSystemInv
  <1>5. CASE UNCHANGED vars
    <2>1. UNCHANGED tables
      BY <1>5 DEF vars
    <2>2. Keyed' /\ \A j \in flight : TwoLocked(j)'
      BY <2>1, TablesStay DEF IInv, TypeOK, Keyed
    <2>3. QED
      BY <1>5, <2>2 DEF vars, IInv, TypeOK, Keyed
  <1>6. QED
    BY <1>1, <1>2, <1>3, <1>4, <1>5 DEF Next

LEMMA Invariant == Spec => []IInv
  BY InitInv, NextInv, PTL DEF Spec

\* Columns, foreign keys and requests are always as TypeOK says (type correctness).
THEOREM RoleAdminTypes == Spec => []TypeOK
  <1>1. IInv => TypeOK
    BY DEF IInv
  <1>2. QED
    BY <1>1, Invariant, PTL

\* A role never carries a permission of another system, whatever happens between the
\* check of setRolePermissions or of the assignments and their INSERT.
THEOREM OwnPermissionsOnly == Spec => []RolesCarryOwnPermissions
  <1>1. IInv => RolesCarryOwnPermissions
    BY DEF IInv
  <1>2. QED
    BY <1>1, Invariant, PTL

-------------------------------------------------------------------------------
(* The panel and the middleware *)

\* A user who is administrator of s or of this server.
IsAdmin(u, s) ==
    \E x \in rows : /\ x.user = u /\ roleName[x.role] = "admin"
                    /\ SystemOf[x.role] \in {s, Auth}

\* What is granted to a user in s belongs to s (RolesCarryOwnPermissions), hence it is
\* in the catalogue and the middleware finds it.
LEMMA PanelFromTables == ASSUME IInv PROVE PanelAgreesWithMiddleware
  <1> SUFFICES ASSUME NEW u \in Users, NEW s \in Systems, NEW k \in Keys
               PROVE  k \in MyPermissions(u, s) <=> k \in Catalogue(s) /\ HasPermission(u, s, k)
    BY DEF PanelAgreesWithMiddleware
  <1> DEFINE Granted == \E x \in rows : /\ x.user = u /\ SystemOf[x.role] = s
                                        /\ \E p \in GrantsOf(x.role) : permKey[p] = k
  <1>1. CASE IsAdmin(u, s)
    <2>1. MyPermissions(u, s) = Catalogue(s)
      BY <1>1 DEF IsAdmin, MyPermissions
    <2>2. HasPermission(u, s, k)
      BY <1>1 DEF IsAdmin, HasPermission
    <2>3. QED
      BY <2>1, <2>2
  <1>2. CASE ~IsAdmin(u, s)
    <2>1. k \in MyPermissions(u, s) <=> Granted
      <3> DEFINE mine == {x \in rows : x.user = u /\ SystemOf[x.role] \in {s, Auth}}
      <3>1. ~\E x \in mine : roleName[x.role] = "admin"
        BY <1>2 DEF IsAdmin
      <3>2. MyPermissions(u, s) =
               {permKey[p] : p \in UNION {GrantsOf(x.role) :
                                             x \in {y \in mine : SystemOf[y.role] = s}}}
        BY <3>1 DEF MyPermissions
      <3>3. QED
        BY <3>2
    <2>2. ASSUME NEW x \in rows, NEW p \in GrantsOf(x.role)
          PROVE  SystemOf[p] = SystemOf[x.role] /\ Listed(p)
      BY DEF GrantsOf, IInv, RolesCarryOwnPermissions, TypeOK, ForeignKeys
    <2>3. Granted => k \in Catalogue(s)
      BY <2>2 DEF Catalogue, GrantsOf
    <2>4. HasPermission(u, s, k) <=> Granted
      BY <1>2, <2>2 DEF IsAdmin, HasPermission
    <2>5. QED
      BY <2>1, <2>3, <2>4
  <1>3. QED
    BY <1>1, <1>2

\* The permissions that a panel lists are those of the catalogue that the middleware
\* lets pass, in every reachable state of the tables.
THEOREM PanelAgrees == Spec => []PanelAgreesWithMiddleware
  BY PanelFromTables, Invariant, PTL

-------------------------------------------------------------------------------
(* The last administrator *)

\* Only the request that moves can end.
LEMMA OneMoves ==
    ASSUME IInv, [Next]_vars, NEW j \in flight \ flight'
    PROVE  Continues(j)
  <1>1. CASE Arrival
    BY <1>1, ArrivalMoves
  <1>2. CASE \E i \in flight : Continues(i)
    <2>1. PICK i \in flight : Continues(i)
      BY <1>2
    <2>2. CASE Reads(i)
      BY <2>1, <2>2, ReadMoves
    <2>3. CASE CreatePermission(i)
      BY <2>1, <2>3 DEF CreatePermission, ToLink, Becomes, Ends
    <2>4. CASE \/ InsertRow(i) \/ Remove(i) \/ Rename(i) \/ Drop(i) \/ Fill(i)
               \/ Link(i) \/ Unlink(i) \/ Rekey(i) \/ Unlist(i)
      BY <2>1, <2>4 DEF InsertRow, Remove, Rename, Drop, Fill, Link, Unlink, Rekey, Unlist, Ends
    <2>5. QED
      BY <2>1, <2>2, <2>3, <2>4 DEF Continues, Reads
  <1>3. CASE \/ \E scope \in Scopes, r \in RoleIds, n \in RoleNames : CreateRole(scope, r, n)
             \/ \E u \in Users : DeleteUser(u)
             \/ \E s \in Systems : DeleteSystem(s)
             \/ UNCHANGED vars
    BY <1>3 DEF CreateRole, DeleteUser, DeleteSystem, vars
  <1>4. QED
    BY <1>1, <1>2, <1>3 DEF Next

\* Of the two assignments that the request has locked, one is left.
LEMMA RemoveSpares ==
    ASSUME IInv, NEW j \in flight, Remove(j), j.name = "admin",
           NEW s \in Systems \ {Auth}, Admins(s) # {}
    PROVE  Admins(s)' # {}
  <1>1. PICK x \in rows : roleName[x.role] = "admin" /\ SystemOf[x.role] = s
    BY DEF Admins
  <1>2. CASE x # j.row
    BY <1>1, <1>2 DEF Remove, Admins
  <1>3. CASE x = j.row
    <2>1. TwoLocked(j) /\ SameRole(j)
      BY InvParts DEF JobOK
    <2>2. PICK y, z \in j.seen : y # z /\ y \in rows /\ z \in rows
      BY <1>1, <1>3, <2>1 DEF Remove, TwoLocked
    <2>3. y.role = j.row.role /\ z.role = j.row.role
      BY <2>1, <2>2 DEF Remove, SameRole
    <2>4. \E w \in rows' : w.role = j.row.role
      BY <2>2, <2>3 DEF Remove
    <2>5. QED
      BY <1>1, <1>3, <2>4 DEF Remove, Admins
  <1>4. QED
    BY <1>2, <1>3

\* Requests at "remove" end in Remove, or fail.
LEMMA EndAtRemove ==
    ASSUME NEW j, Continues(j), j.st = "remove"
    PROVE  Remove(j) \/ Fails(j)
  BY DEF Continues, Existing, InsertRow, Target, ForUpdate, Counted, Rename, Drop,
         CheckPermissions, Clear, Cleared, Fill, Link, Unlink, Find, CreatePermission,
         Rekey, Unlist

\* However the revocations interleave, with each other and with what else changes the
\* tables, none of them takes the last administrator of a system.
THEOREM LastAdminKept == Spec => LastAdminStays
  <1> DEFINE A == \A j \in flight \ flight' :
                     j.st = "remove" /\ j.name = "admin" =>
                        \A s \in Systems \ {Auth} : Admins(s) # {} => Admins(s)' # {}
  <1>1. ASSUME IInv, [Next]_vars PROVE A
    <2> SUFFICES ASSUME NEW j \in flight \ flight', j.st = "remove", j.name = "admin",
                        NEW s \in Systems \ {Auth}, Admins(s) # {}
                 PROVE  Admins(s)' # {}
      OBVIOUS
    <2>1. Remove(j) \/ Fails(j)
      BY <1>1, OneMoves, EndAtRemove
    <2>2. CASE Remove(j)
      BY <1>1, <2>2, RemoveSpares
    <2>3. CASE Fails(j)
      BY <2>3 DEF Fails, tables, Admins
    <2>4. QED
      BY <2>1, <2>2, <2>3
  <1>2. IInv /\ [Next]_vars => [A]_vars
    BY <1>1
  <1>3. QED
    BY <1>2, Invariant, PTL DEF Spec, LastAdminStays

-------------------------------------------------------------------------------
(* The scope *)

\* What s contains, table by table.
LEMMA SameContent ==
    ASSUME NEW s,
           \A r \in RoleIds : SystemOf[r] = s => roleName'[r] = roleName[r],
           \A x \in rows \cup rows' : SystemOf[x.role] = s => (x \in rows <=> x \in rows'),
           \A p \in PermIds : SystemOf[p] = s => permKey'[p] = permKey[p],
           \A g \in grants \cup grants' :
              SystemOf[g[1]] = s \/ SystemOf[g[2]] = s => (g \in grants <=> g \in grants')
    PROVE  Content(s)' = Content(s)
  <1>1. \A n : {r \in RoleIds : SystemOf[r] = s /\ roleName'[r] = n}
                  = {r \in RoleIds : SystemOf[r] = s /\ roleName[r] = n}
    OBVIOUS
  <1>2. {x \in rows' : SystemOf[x.role] = s} = {x \in rows : SystemOf[x.role] = s}
    OBVIOUS
  <1>3. {<<p, permKey'[p]>> : p \in {x \in PermIds : SystemOf[x] = s}}
           = {<<p, permKey[p]>> : p \in {x \in PermIds : SystemOf[x] = s}}
    OBVIOUS
  <1>4. {g \in grants' : SystemOf[g[1]] = s \/ SystemOf[g[2]] = s}
           = {g \in grants : SystemOf[g[1]] = s \/ SystemOf[g[2]] = s}
    OBVIOUS
  <1>5. QED
    BY <1>1, <1>2, <1>3, <1>4 DEF Content

\* The statements of a request touch the system of its role, assignment or permission;
\* with RolesCarryOwnPermissions the cascades stay there too.
LEMMA ContinuesInScope ==
    ASSUME IInv, NEW j \in flight, Continues(j), NEW s \in Systems, ~CanManage(j.scope, s)
    PROVE  Content(s)' = Content(s)
  <1>1. j \in Jobs /\ InScope(j) /\ OwnPermissions(j) /\ Keyed
    BY InvParts DEF JobOK
  <1>2. \A g \in grants : SystemOf[g[1]] = SystemOf[g[2]]
    BY DEF IInv, RolesCarryOwnPermissions
  <1>3. CASE Reads(j)
    <2>1. UNCHANGED tables
      BY <1>3, ReadMoves
    <2>2. QED
      BY <2>1 DEF tables, Content
  <1>4. CASE InsertRow(j)
    <2>1. SystemOf[j.role] # s
      BY <1>1, <1>4 DEF InsertRow, InScope
    <2>2. \A x \in rows \cup rows' : SystemOf[x.role] = s => (x \in rows <=> x \in rows')
      BY <1>4, <2>1 DEF InsertRow
    <2>3. QED
      BY <1>4, <2>2, SameContent DEF InsertRow
  <1>5. CASE Remove(j)
    <2>1. SystemOf[j.row.role] # s
      BY <1>1, <1>5 DEF Remove, InScope
    <2>2. QED
      BY <1>5, <2>1, SameContent DEF Remove
  <1>6. CASE Rename(j)
    <2>1. SystemOf[j.role] # s
      BY <1>1, <1>6 DEF Rename, InScope
    <2>2. \A r \in RoleIds : SystemOf[r] = s => roleName'[r] = roleName[r]
      BY <1>1, <1>6, <2>1 DEF Rename, Keyed, Columns
    <2>3. QED
      BY <1>6, <2>2, SameContent DEF Rename
  <1>7. CASE Drop(j)
    <2>1. SystemOf[j.role] # s
      BY <1>1, <1>7 DEF Drop, InScope
    <2>2. \A r \in RoleIds : SystemOf[r] = s => roleName'[r] = roleName[r]
      BY <1>1, <1>7, <2>1 DEF Drop, Keyed, Columns
    <2>3. \A g \in grants : SystemOf[g[1]] = s \/ SystemOf[g[2]] = s => g \in grants'
      BY <1>2, <1>7, <2>1 DEF Drop
    <2>4. QED
      BY <1>7, <2>1, <2>2, <2>3, SameContent DEF Drop
  <1>8. CASE Fill(j)
    <2>1. SystemOf[j.role] # s /\ \A p \in j.perms : SystemOf[p] # s
      BY <1>1, <1>8 DEF Fill, InScope, OwnPermissions
    <2>2. \A g \in grants \cup grants' :
             g[1] # j.role => (g \in grants <=> g \in grants')
      BY <1>8 DEF Fill
    <2>3. \A g \in grants \cup grants' : g[1] = j.role => SystemOf[g[2]] # s
      BY <1>2, <1>8, <2>1 DEF Fill
    <2>4. QED
      BY <1>8, <2>1, <2>2, <2>3, SameContent DEF Fill
  <1>9. CASE Link(j) \/ Unlink(j)
    <2>1. SystemOf[j.role] # s /\ SystemOf[j.perm] # s
      BY <1>1, <1>9 DEF Link, Unlink, InScope
    <2>2. \A g \in grants \cup grants' :
             g # <<j.role, j.perm>> => (g \in grants <=> g \in grants')
      BY <1>9 DEF Link, Unlink
    <2>3. QED
      BY <1>9, <2>1, <2>2, SameContent DEF Link, Unlink
  <1>10. CASE CreatePermission(j)
    <2>1. SystemOf[j.role] # s
      BY <1>1, <1>10 DEF CreatePermission, InScope
    <2>2. \A p \in PermIds : SystemOf[p] = s => permKey'[p] = permKey[p]
      BY <1>1, <1>10, <2>1 DEF CreatePermission, Keyed, Columns
    <2>3. QED
      BY <1>10, <2>2, SameContent DEF CreatePermission
  <1>11. CASE Rekey(j)
    <2>1. SystemOf[j.perm] # s
      BY <1>1, <1>11 DEF Rekey, InScope
    <2>2. \A p \in PermIds : SystemOf[p] = s => permKey'[p] = permKey[p]
      BY <1>1, <1>11, <2>1 DEF Rekey, Keyed, Columns
    <2>3. QED
      BY <1>11, <2>2, SameContent DEF Rekey
  <1>12. CASE Unlist(j)
    <2>1. SystemOf[j.perm] # s
      BY <1>1, <1>12 DEF Unlist, InScope
    <2>2. \A p \in PermIds : SystemOf[p] = s => permKey'[p] = permKey[p]
      BY <1>1, <1>12, <2>1 DEF Unlist, Keyed, Columns
    <2>3. \A g \in grants : SystemOf[g[1]] = s \/ SystemOf[g[2]] = s => g \in grants'
      BY <1>2, <1>12, <2>1 DEF Unlist
    <2>4. QED
      BY <1>12, <2>2, <2>3, SameContent DEF Unlist
  <1>13. QED
    BY <1>3, <1>4, <1>5, <1>6, <1>7, <1>8, <1>9, <1>10, <1>11, <1>12 DEF Continues, Reads

\* A request changes no role, assignment, permission or grant of a system out of its
\* scope, whatever changed since the scope was checked.
THEOREM ScopeKept == Spec => ChangesStayInScope
  <1> DEFINE A == \A j \in flight \ flight', s \in Systems :
                     ~CanManage(j.scope, s) => Content(s)' = Content(s)
  <1>1. IInv /\ [Next]_vars => A
    BY OneMoves, ContinuesInScope
  <1>2. IInv /\ [Next]_vars => [A]_vars
    BY <1>1
  <1>3. QED
    BY <1>2, Invariant, PTL DEF Spec, ChangesStayInScope
===============================================================================
