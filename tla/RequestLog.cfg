\* An entry of each kind; fair timers, the SQLSTATE anywhere.
SPECIFICATION FairSpec
CONSTANTS
    Entries = {1, 2, 3}
    Corrupt = {3}
    Poison = {1}
    Ageing = {2}
    MaxLen = 2
    BatchSize = 2
    MaxIterations = 2
    PurgeBatch = 1
    Wrapped = {TRUE, FALSE}
    ServerErrors = FALSE
INVARIANTS TypeOK NothingLost FlushWaitsUnlessTickSkipped
PROPERTIES StreamDrains OldRowsExpire ImplementsDurableLog
CHECK_DEADLOCK FALSE
