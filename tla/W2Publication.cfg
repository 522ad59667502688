SPECIFICATION Spec
CONSTANTS
    Draft = {d1}
    Caller = {c1, c2, c3}
    MaxNonce = 2
    MaxCrashes = 1
SYMMETRY Symmetry
INVARIANTS
    Inductive
    SpentBeforeEffect
    ClaimsAreTrue
PROPERTIES
    ImplementsPublication
    EvidenceKept
    CompleteLeftOnlyByAnswer
CHECK_DEADLOCK FALSE
