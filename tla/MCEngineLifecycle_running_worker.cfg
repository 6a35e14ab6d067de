SPECIFICATION Spec
CONSTANTS
  Engine = {e1}
  Session = {s1}
  Call = {c1, c2}
  NoEngine = NoEngine
  NoSession = NoSession
  DbMayFail = FALSE
  PayoutCheck = FALSE
  LossLimited = {}
SYMMETRY Symmetric
INVARIANT RunningHasWorker
CHECK_DEADLOCK FALSE
