SPECIFICATION ScoreSpec
CONSTANTS
  Minimum = {9, 14, 16, 18}
  Difference = 4
INVARIANTS
  ScoreTypeOK
  MirrorImage
  MirrorIsNoSignalToo
  CallNeedsBuyers
CHECK_DEADLOCK FALSE
