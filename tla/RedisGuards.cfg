\* Two requests at a limiter, or two checks of a cached right, over a failing Redis.
SPECIFICATION Spec
CONSTANTS
    Threshold = 2
    Cooldown = 2
    LongUp = 2
    r1 = r1  r2 = r2
    Requests = {r1, r2}
    Window = 2
    Max = 2
    Most = 12
    c1 = c1  c2 = c2
    Checks = {c1, c2}
    Writers = 2
    TTL = 2
    Flight = 1
INVARIANTS GuardsTypeOK BreakerIsSound LimitHolds CacheIsSound
PROPERTIES RefusalsAreEarned
SYMMETRY MCSymmetry
CHECK_DEADLOCK FALSE
