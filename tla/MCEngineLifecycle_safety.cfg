SPECIFICATION Spec
CONSTANTS
  Engine = {e1, e2}
  Session = {s1}
  Call = {c1, c2}
  NoEngine = NoEngine
  NoSession = NoSession
  DbMayFail = TRUE
  PayoutCheck = TRUE
  LossLimited = {e2}
SYMMETRY Symmetric
VIEW View
INVARIANTS
  TypeOK
  StoppedIsQuiet
  AtMostOneLateOrder
  ActiveOrderWhilePlacing
  RiskLockHolds
PROPERTIES
  StoppedIsFinal
  ErrorIsTerminal
  ImplementsContract
CHECK_DEADLOCK FALSE
