SPECIFICATION FairSpec
CONSTANTS
    Calls = {c1}
    c1 = c1
    PipeCap = 1
    MaxIn = 2
    MaxOut = 2
    Statuses <- TwoStatuses
    Programs = {"any", "filter"}
    AutoReap = {TRUE, FALSE}
    MayFail = TRUE
INVARIANTS
    NoFdLeak
    NoOrphanChild
    OutputComplete
    OutputHasReader
    PidLiveAtKill
    FilterSeesAllInput
PROPERTIES
    EndsUnlessHeld
    FilterNeedsNoTimeout
    ImplementsCommand
\* A finite set of calls: the system stops when all have ended.
CHECK_DEADLOCK FALSE
