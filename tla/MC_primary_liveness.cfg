SPECIFICATION FairSpec
CONSTANTS
  Primary = {p}
  Observer = {}
  DesktopOf <- OneDesktop
  NoDesktop = NoDesktop
  Thread = {t1, t2}
  NoThread = NoThread
  NoUPS = NoUPS
  Reports <- MainsOrLow
  Notices <- NoNotices
  Statuses <- SuspendedOrDown
  MayBeBlind = FALSE
  MayRestart = FALSE
INVARIANT TypeOK
PROPERTIES
  OutageIsAnswered
  StandsDown
  Decides
  KeepsPromise
