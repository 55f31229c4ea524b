\* Two logins, a request and an employee update over a Redis that may fail; the panel is another system.
SPECIFICATION FairSpec
CONSTANTS
    u1 = u1  u2 = u2  y1 = y1  y2 = y2
    Users = {u1}
    Systems = {y1}
    Logins = {l1, l2}
    Requests = {r1}
    Updates = {w1}
    Panel = y2
    NoSys = NoSys
    None = None
    Assignable <- MembersEverywhere
    RedisEnabled = TRUE
    RedisMayFail = TRUE
    MaxCrashes = 0
INVARIANT DeactivationClosesSessions
PROPERTY DeactivatedEndsWithoutSessions
CHECK_DEADLOCK FALSE
