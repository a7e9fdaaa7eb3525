SPECIFICATION FairSpec
CONSTANTS
  Primary = {p}
  Observer = {o}
  DesktopOf <- OneDesktop
  NoDesktop = NoDesktop
  Thread = {t1, t2}
  NoThread = NoThread
  NoUPS = NoUPS
  Reports <- DesktopUpsOnly
  Notices <- NoNotices
  Statuses <- NothingReported
  MayBeBlind = FALSE
  MayRestart = FALSE
INVARIANTS
  NoShutdownWithoutOutage
  ObserverSparesDesktop
PROPERTIES
  OutageIsAnswered
  StandsDown
  KeepsPromise
