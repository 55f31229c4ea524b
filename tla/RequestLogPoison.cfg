\* A poisoned entry; the SQLSTATE is on the cause, where drizzle leaves it.
SPECIFICATION FairSpec
CONSTANTS
    Entries = {1, 2}
    Corrupt = {}
    Poison = {1}
    Ageing = {2}
    MaxLen = 2
    BatchSize = 2
    MaxIterations = 2
    PurgeBatch = 1
    Wrapped = {TRUE}
    ServerErrors = FALSE
PROPERTIES PoisonIsDiscarded
CHECK_DEADLOCK FALSE
