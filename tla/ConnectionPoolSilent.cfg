SPECIFICATION AnsweredSpec
CONSTANTS
  Objects = {c1, c2, c3}
  NoCon = NoCon
  MaxHosts = 2
  Faults = {"connect"}
PROPERTIES StartReturns
CHECK_DEADLOCK FALSE
