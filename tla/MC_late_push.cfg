SPECIFICATION Spec
CONSTANTS
  Primary = {p}
  Observer = {}
  DesktopOf <- OneDesktop
  NoDesktop = NoDesktop
  Thread = {t1, t2}
  NoThread = NoThread
  NoUPS = NoUPS
  Reports <- MainsOrBattery
  Notices <- NoNotices
  Statuses <- NothingReported
  MayBeBlind = FALSE
  MayRestart = FALSE
SYMMETRY Symmetric
INVARIANTS
  CancelledWithTheOutage
