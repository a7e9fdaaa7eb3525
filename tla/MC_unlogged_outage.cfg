SPECIFICATION Spec
CONSTANTS
  Primary = {p}
  Observer = {o}
  DesktopOf <- OneDesktop
  NoDesktop = NoDesktop
  Thread = {t1, t2}
  NoThread = NoThread
  NoUPS = NoUPS
  Reports <- MainsOrBattery
  Notices <- OnBattOnly
  Statuses <- NothingReported
  MayBeBlind = FALSE
  MayRestart = FALSE
SYMMETRY Symmetric
INVARIANTS
  OutageLogFollowsPower
