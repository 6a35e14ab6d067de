SPECIFICATION FairSpec
CONSTANTS
  Engine = {e1}
  Session = {s1}
  Call = {c1, c2}
  NoEngine = NoEngine
  NoSession = NoSession
  DbMayFail = FALSE
  PayoutCheck = TRUE
  LossLimited = {}
PROPERTIES
  StopCompletes
  StartReleasesLock
  LostConnectionResolves
  OrphanNotices
  ShutdownStopsAll
CHECK_DEADLOCK FALSE
