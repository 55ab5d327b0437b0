SPECIFICATION Spec
CONSTANTS
  Clients = {c1, c2}
  Worker = Worker
  Owner = Owner
  Nobody = Nobody
  MaxCalls = 2
INVARIANTS EachOnce DeletedWhenDone
PROPERTIES WaitSeesDone  DestructorReturnsUnlessPendingOrStarved
CHECK_DEADLOCK FALSE
