SPECIFICATION FairSpec
CONSTANTS
  N = 2
  CPU = {0, 1}
INVARIANTS LinesWhole NobodyBackEarly NoThreadLeftAtDestroy SuccessIsTrue
PROPERTY CleanRunEnds
CHECK_DEADLOCK FALSE
