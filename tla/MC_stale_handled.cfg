SPECIFICATION Spec
CONSTANTS
  OfflineWait = 3
  PromptWait = 2
  SuspendWait = 3
  WakeTimeout = 1
  ShutdownWait = 1
  MaxWait = 7
  SuspendDue = 3
  PollEvery = 1
  Pass = 1
  Push = 1
  Send = 1
  Steady = 0
  MaxWorkers = 2
CHECK_DEADLOCK FALSE
PROPERTIES
  CutFollowsFlow
