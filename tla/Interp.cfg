SPECIFICATION Spec
CONSTANTS
  Sessions <- AllSessions
  MaxSteps = 60
INVARIANTS Correct ErrorsReported
PROPERTIES ContinuationsStable ReadsOwnText Ends
CHECK_DEADLOCK FALSE
