SPECIFICATION Spec
CONSTANTS
    Steps <- RailThenReveal
    Handler = {h1, h2}
    NoAction = NoAction
    Written = {"LOCK"}
    MaxCrashes = 1
SYMMETRY Symmetry
CONSTRAINT LoneAfterCrash
INVARIANTS
    Inductive
    PredecessorsHappened
    RecordedAttemptsAreTrue
    RecoveryOnlyAfterUncertain
    ExclusiveExecution
    OneEffectPerAttempt
    ServedRecordHappened
    OneRailLock
CHECK_DEADLOCK FALSE
