SPECIFICATION Spec
CONSTANTS
    Steps <- LockOnly
    Handler = {h1, h2}
    NoAction = NoAction
    Written = {}
    MaxCrashes = 0
PROPERTY
    AttemptsImmutable
CHECK_DEADLOCK FALSE
