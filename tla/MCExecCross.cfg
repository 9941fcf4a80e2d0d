SPECIFICATION FairSpec
CONSTANTS
    Calls = {c1, c2}
    c1 = c1
    c2 = c2
    PipeCap = 1
    MaxIn = 0
    MaxOut = 0
    Statuses <- OneStatus
    Programs = {"filter"}
    AutoReap = {FALSE}
    MayFail = FALSE
PROPERTIES
    FilterNeedsNoTimeout
\* A finite set of calls: the system stops when all have ended.
CHECK_DEADLOCK FALSE
