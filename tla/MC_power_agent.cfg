SPECIFICATION FairSpec
CONSTANTS
  Inhibitor = {i1, i2}
  NoInhibitor = NoInhibitor
  MaxSignals = 3
  MaxLate = 1
  MayRefuse = TRUE
  Unreliable = TRUE
  MayStop = TRUE
INVARIANTS
  TypeOK
  NoLockIsLost
  WaitsWithLock
  BackIsKnown
PROPERTIES
  SleepIsReported
  SleepGoesAhead
  TermEndsAgent
