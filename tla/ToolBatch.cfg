SPECIFICATION Spec
CONSTANTS
  N = 3
  Immediate = TRUE
INVARIANT WorkIsNotSkipped
PROPERTIES RunsInOrder CompletedResultKept SteerEndsWaits AbortEndsBatch
CHECK_DEADLOCK FALSE
