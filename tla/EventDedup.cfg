SPECIFICATION Spec
CONSTANTS
  Threads = {t1, t2}
  Messages <- MCMessages
  Expiry = 2
  MaxForth = 6
  MaxBack = 2
INVARIANTS SetIsQueue WithinExpiry NoneSwallowed
PROPERTIES OncePerExpiry
