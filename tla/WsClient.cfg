SPECIFICATION Spec
CONSTANTS
  MaxRetries = 5
  Impatient = TRUE
INVARIANTS OneAfterFinish
PROPERTIES FinishReturnsUnlessCrash IsConnection
CHECK_DEADLOCK FALSE
