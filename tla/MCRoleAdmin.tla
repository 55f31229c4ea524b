----------------------------- MODULE MCRoleAdmin -----------------------------
(* The tables of RoleAdmin for TLC: a system with two administrators, this server *)
(* with one, a role of each without the name "admin", some yet to be created.     *)
EXTENDS RoleAdmin

CONSTANTS auth, pos, u1, u2, authAdmin, posAdmin, posStaff, posNew, p1, p2, pa

MCSystemOf == [x \in RoleIds \cup PermIds |-> IF x \in {authAdmin, pa} THEN auth ELSE pos]

MCDelegations == {{pos}}

MCFirstRoles ==
    [r \in RoleIds |-> CASE r = posNew -> "unborn" [] r = posStaff -> "other" [] OTHER -> "admin"]

MCFirstPerms == [p \in PermIds |-> IF p = p2 THEN "unborn" ELSE "read"]

\* Both permissions of pos exist.
MCTwoPerms == [p \in PermIds |-> IF p = p2 THEN "write" ELSE "read"]

MCFirstRows ==
    {[id |-> 0, user |-> u, role |-> posAdmin] : u \in Users}
        \cup {[id |-> 0, user |-> u2, role |-> posStaff]}

MCFirstGrants == {<<posStaff, p1>>}
===============================================================================
