SPECIFICATION FairSpec
CONSTANTS
    Calls = {c1}
    c1 = c1
    Requests <- PullRequests
    Asked <- PullAsked
    Edited = {"f"}
    Files = {"f", "g"}
    Branches = {"main", "topic", "side"}
    Starts <- AllStarts
    MaxContent = 5
    MayFail = FALSE
PROPERTIES
    PullUpdatesTree
\* The call ends, and the content of edits runs out.
CHECK_DEADLOCK FALSE
