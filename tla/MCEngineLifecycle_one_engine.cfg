SPECIFICATION Spec
CONSTANTS
  Engine = {e1, e2, e3}
  Session = {s1}
  Call = {c1, c2}
  NoEngine = NoEngine
  NoSession = NoSession
  DbMayFail = FALSE
  PayoutCheck = FALSE
  LossLimited = {}
SYMMETRY Symmetric
INVARIANT OneEnginePerSession
CHECK_DEADLOCK FALSE
