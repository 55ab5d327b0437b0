SPECIFICATION ContextSpec
CONSTANTS
  Info <- MCInfo
  Asked <- MCAsked
  MaxBatch = 2
  MaxRetries = 3
  MaxSymbols = 5
  Faults = {"bad", "empty", "unanswered", "missing", "silent"}
INVARIANTS CallbackFindsConsumer FetchIsAwaited AllSubscribed
PROPERTIES ConstructorReturnsUnlessHung DestructorReturnsUnlessHung
CHECK_DEADLOCK FALSE
