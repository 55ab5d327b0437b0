SPECIFICATION Spec
CONSTANTS
  Levels <- MCLevels
  Amounts = {0, 1, 2}
  NoOrder = 0
  LastId = 8
  Exchange <- MCExchange
  Diffs <- MCDiffs
  Snapshots <- MCSnapshots
  Deep = {"p3"}
  MaxSize = 3
  Garbage = {}
INVARIANTS TypeOK QueueOrdered BookIsExchange QueueWaits
PROPERTIES OnlyForward GapOnlyWhenFull
