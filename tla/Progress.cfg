CONSTANT NoAction = NoAction
SPECIFICATION Spec
PROPERTIES
  ApprovedExecutionEnds
  ResultsAreSaved
  CallsEnd
CHECK_DEADLOCK FALSE
