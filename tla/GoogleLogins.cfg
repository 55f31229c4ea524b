\* A login, a request, two exchanges, an update of the employee; Redis and the database may fail.
SPECIFICATION GoogleFairSpec
CONSTANTS
    Users = {u1}
    Callers = {g1, r1}
    Logins = {g1}
    Updates = {w1}
    RedisEnabled = TRUE
    RedisMayFail = TRUE
    Exchanges = {x1, x2}
    Systems = {y1}
    NoSys = NoSys
    NoOne = NoOne
INVARIANTS GoogleTypeOK SessionsAreHeldOrAbandoned DeactivationSparesOnlyMisledLogins
PROPERTIES CacheCatchesUp ImplementsOneTimeCode LoginsEnd
CHECK_DEADLOCK FALSE
