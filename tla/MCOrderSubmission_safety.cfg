SPECIFICATION Spec
CONSTANTS
  Worker = {w1, w2, w3}
  Signature = {s1, s2}
  NoSignature = NoSignature
  MayFail = TRUE
SYMMETRY Symmetric
INVARIANTS
  AtMostOnePost
  TradesAreRecorded
  AnswersSettle
PROPERTY
  ImplementsOrderBook
