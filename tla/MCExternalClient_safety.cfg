SPECIFICATION FairSpec
CONSTANTS
  Worker = {w1, w2}
  Handler = {h1}
  Nobody = Nobody
  MinPayout = TRUE
INVARIANT
  AttemptsAreUsed
PROPERTIES
  LatencyIsOwn
  EndsForCause
  IterationEnds
