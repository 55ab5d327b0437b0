SPECIFICATION Spec
CONSTANTS
  Objects = {c1, c2, c3}
  NoCon = NoCon
  MaxHosts = 2
  Faults = {"dns", "connect", "drop"}
INVARIANTS Covered HeldOnce StoppedAfterItRan
PROPERTIES StartReturnsUnlessSilent FinishReturnsUnlessSilent FeedReturns
CHECK_DEADLOCK FALSE
