SPECIFICATION Spec
CONSTANTS
    Calls = {c1, c2, c3}
    Requests <- AllCalls
    Asked <- Mixed
    Initial <- Text
    Hole = Hole
    Nothing = Nothing
    MayFail = TRUE
    c1 = c1
    c2 = c2
    c3 = c3
SYMMETRY Symmetry
INVARIANTS
    TypeOK
    AloneHonest
    VerifiedMeansHeld
    AppendsSurvive
    ReadInPlace
\* Every call ends.
CHECK_DEADLOCK FALSE
