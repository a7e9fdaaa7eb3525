SPECIFICATION Spec
CONSTANTS
  Primary = {p}
  Observer = {}
  DesktopOf <- OneDesktop
  NoDesktop = NoDesktop
  Thread = {t1, t2}
  NoThread = NoThread
  NoUPS = NoUPS
  Reports <- MainsOrBattery
  Notices <- SwitchesAndDue
  Statuses <- DownReported
  MayBeBlind = TRUE
  MayRestart = TRUE
SYMMETRY Symmetric
INVARIANTS
  NoStaleShutdown
  SingleStart
  LocksAreReleased
  ShutdownHasWorker
