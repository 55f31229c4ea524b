\* Three accounts, two employees, and two requests on a pool of two connections.
SPECIFICATION Spec
CONSTANTS
    u1 = u1  u2 = u2  u3 = u3
    Users = {u1, u2, u3}
    e1 = e1  e2 = e2
    Employees = {e1, e2}
    r1 = r1  r2 = r2
    Requests = {r1, r2}
    Pool = 2
    None = None
INVARIANTS AccountsTypeOK SignUpsAreWhole ActsAreEntitled NobodyIsStuck
PROPERTIES AccountsAreKept
SYMMETRY MCSymmetry
CHECK_DEADLOCK FALSE
