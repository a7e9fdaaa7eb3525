SPECIFICATION Spec
CONSTANTS
  MaxCommands = 3
  Thread = {t1, t2}
  MaxTries = 2
  Unreliable = TRUE
  MayRestart = TRUE
SYMMETRY Symmetric
INVARIANTS
  TypeOK
  OnlyLatestPending
  DoneIsDone
PROPERTIES
  NothingComesBack
