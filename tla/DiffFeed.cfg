SPECIFICATION Spec
CONSTANTS
  Levels <- MCLevels
  Amounts = {0, 1, 2}
  NoOrder = 0
  LastId = 8
  Exchange <- MCExchange
  Diffs <- MCDiffs
  Snapshots <- LateSnapshots
  Deep = {}
  MaxSize = 3
  Garbage = {}
  Symbols = {"A", "B"}
  Threads = {"one", "two", "B"}
  Messages <- MCMessages
  Answers <- TwoSymbols
  Feeds <- Reconnects
  Late = {"two"}
INVARIANTS NothingLost BooksAreExchange StartIsExclusive
PROPERTIES AllCatchUpUnlessCutOff PushReturns
CHECK_DEADLOCK FALSE
