\* Two replacements of the permissions of a role.
SPECIFICATION Spec
CONSTANTS
    auth = auth  pos = pos  u1 = u1  u2 = u2
    authAdmin = authAdmin  posAdmin = posAdmin  posStaff = posStaff  posNew = posNew
    p1 = p1  p2 = p2  pa = pa
    Users = {u1, u2}
    Systems = {auth, pos}
    Auth = auth
    RoleIds = {authAdmin, posAdmin, posStaff, posNew}
    PermIds = {p1, p2, pa}
    SystemOf <- MCSystemOf
    Keys = {"read", "write"}
    FirstRoles <- MCFirstRoles
    FirstPerms <- MCTwoPerms
    FirstRows <- MCFirstRows
    FirstGrants <- MCFirstGrants
    Delegations <- MCDelegations
    MaxRequests = 2
PROPERTY ReplacementIsWhole
CHECK_DEADLOCK FALSE
