CONSTANTS
  Active = {"W1", "W2", "W3"}
  Left = {"attempt1 of W1", "attempt1 of W3", "attempt2 of W3"}
  Begun = {}
  Process = {p1, p2}
  Single = {p0}
SYMMETRY Commands
SPECIFICATION MCSpec
INVARIANTS
  AllInductive
  PublicOnceInOrder
  CapsuleIsTrue
  RailEvidenceStands
CHECK_DEADLOCK FALSE
