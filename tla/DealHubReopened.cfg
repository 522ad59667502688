SPECIFICATION Spec
CONSTANTS
    Steps <- LockOnly
    Handler = {h1, h2}
    NoAction = NoAction
    Written = {}
    MaxCrashes = 0
PROPERTY
    FinalizedStays
CHECK_DEADLOCK FALSE
