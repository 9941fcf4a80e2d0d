SPECIFICATION FairSpec
CONSTANTS
    Calls = {c1, c2}
    c1 = c1
    c2 = c2
    Requests <- AllRequests
    Asked <- AllAsked
    Edited = {"f"}
    Files = {"f", "g"}
    Branches = {"main", "topic", "side"}
    Starts <- AllStarts
    MaxContent = 5
    MayFail = TRUE
INVARIANTS
    WorktreesTogether
    LinkedApart
PROPERTIES
    UncommittedKept
    BranchesAdvance
    CleanStaysClean
    FailureHarmless
    GitCallsEnd
\* The calls end, and the content of edits runs out.
CHECK_DEADLOCK FALSE
