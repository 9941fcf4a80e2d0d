SPECIFICATION Spec
CONSTANTS
    Letters = {"a", "b"}
    Texts <- AllTexts
    OpLists <- AllOpLists
PROPERTIES
    ImplementsAtomicPatch
    ReplaceAllAdvances
\* A call ends with its result.
CHECK_DEADLOCK FALSE
