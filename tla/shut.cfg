CONSTANT
  Calls = {c1, c2, c3}
SPECIFICATION FairSpec
CHECK_DEADLOCK FALSE
INVARIANT ExitZeroDrained ServesValid
PROPERTY ShutdownEnds
