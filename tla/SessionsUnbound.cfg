\* One login of a delegated administrator of the panel.
SPECIFICATION Spec
CONSTANTS
    u1 = u1  u2 = u2  y1 = y1  y2 = y2
    Users = {u1}
    Systems = {y1, y2}
    Logins = {l1}
    Requests = {}
    Updates = {}
    Panel = y1
    NoSys = NoSys
    None = None
    Assignable <- DelegatedAdmin
    RedisEnabled = FALSE
    RedisMayFail = FALSE
    MaxCrashes = 1
INVARIANT SluggedSessionsAreBound
CHECK_DEADLOCK FALSE
