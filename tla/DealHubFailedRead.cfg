SPECIFICATION Spec
CONSTANTS
    Steps <- LockOnly
    Handler = {h1}
    NoAction = NoAction
    Written = {}
    MaxCrashes = 0
PROPERTY
    RecoveryOnlyIfAbsent
CHECK_DEADLOCK FALSE
