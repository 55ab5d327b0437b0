SPECIFICATION Spec
CONSTANTS
  Levels <- MCLevels
  Amounts = {0, 1, 2}
  NoOrder = 0
  LastId = 8
  Exchange <- MCExchange
  Diffs <- MCDiffs
  Snapshots <- MCSnapshots
  Deep = {"p3"}
  MaxSize = 3
  Garbage = {0, 9}
PROPERTIES GapOnlyWhenFull
