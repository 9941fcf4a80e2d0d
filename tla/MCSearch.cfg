SPECIFICATION Spec
CONSTANTS
    Trees <- AllTrees
    Queries <- AllQueries
INVARIANTS
    WalkAsDefined
    WindowIsContext
    GrepAsDefined
    TailAsDefined
\* A call ends.
CHECK_DEADLOCK FALSE
