SPECIFICATION MCSpec
CONSTANTS
    EnvModes = {"unset", "host-tools", "other"}
    EnvPorts = {"unset", "99999"}
    ArgLists <- AllArgLists
    Kernels = {"ok", "enosys", "other"}
    Roots = {"directory", "missing", "file"}
    MayFail = TRUE
    Watched <- PlainStarts
    Requests = {r1, r2, r3}
    Workers = {w1, w2}
    Bodies <- MixedBodies
    Debug = {TRUE, FALSE}
    RootTexts = {TRUE, FALSE}
    Nobody = Nobody
    r1 = r1
    r2 = r2
    r3 = r3
    w1 = w1
    w2 = w2
INVARIANTS
    ModeAsRequested
    FailClosed
    AnswersMatchBody
    CallsInOrder
    
PROPERTIES
    EveryRequestAnswered
\* main exits, or it serves and no more requests come.
CHECK_DEADLOCK FALSE
