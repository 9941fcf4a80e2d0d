SPECIFICATION Spec
CONSTANTS
    Calls = {c1, c2}
    c1 = c1
    c2 = c2
    Asked <- AllAsked
    Trees <- AllTrees
    Names = {"a", "b", "d", ".."}
    MaxDepth = 4
    MayFail = TRUE
INVARIANT
    TypeOK
PROPERTIES
    LandsWhole
    FilesKept
    MovedKept
    RemovalStaysBelow
    OutsideKept
\* The calls end.
CHECK_DEADLOCK FALSE
