SPECIFICATION Spec
CONSTANTS
  Order <- Rails
  Process = {p1, p2}
SYMMETRY Commands
INVARIANTS EvidenceHolds OneCopyPerBudget
PROPERTIES ImplementsStages ObservationsStand

