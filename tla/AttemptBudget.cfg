SPECIFICATION BothSpec
CONSTANTS
    Process = {p1, p2, p3}
    Identity = {sign, submit}
    NoIdentity = NoIdentity
INVARIANTS
    Inductive
    AtMostOnce
    PerformedIsRecorded
    DealSurvivesCrash
PROPERTY
    ImplementsOneShot
    AttemptsKept
CHECK_DEADLOCK FALSE
