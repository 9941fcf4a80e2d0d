SPECIFICATION Spec
CONSTANTS
    Letters = {"a", "b"}
    Texts <- RepeatedTexts
    OpLists <- InsertAll
INVARIANTS
    AppliedAsSchema
\* A call ends with its result.
CHECK_DEADLOCK FALSE
