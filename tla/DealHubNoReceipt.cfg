SPECIFICATION Spec
CONSTANTS
    Steps <- RailOnly
    Handler = {h1}
    NoAction = NoAction
    Written = {"LOCK"}
    MaxCrashes = 0
INVARIANT
    RailNeedsReceipt
CHECK_DEADLOCK FALSE
