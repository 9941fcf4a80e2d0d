SPECIFICATION MCSpec
CONSTANTS
    EnvModes = {"unset", "host-tools", "disabled"}
    EnvPorts = {"unset"}
    ArgLists <- AllArgLists
    Kernels = {"ok", "enosys"}
    Roots = {"directory", "missing"}
    MayFail = FALSE
    Watched = {}
    Requests = {r1}
    Workers = {w1}
    Bodies <- MixedBodies
    Debug = {FALSE}
    RootTexts = {TRUE}
    Nobody = Nobody
    r1 = r1
    w1 = w1
PROPERTIES
    SandboxAsDocumented
\* main exits, or it serves and nothing stops it.
CHECK_DEADLOCK FALSE
