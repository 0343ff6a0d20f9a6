SPECIFICATION Spec
CONSTANTS
  ApproveCmds = {a1}
  StartCmds = {s1}
  CancelCmds = {c1}
  Lifetime = 1
  MaxClock = 2
  MaxChallenges = 2
  MaxDrifts = 1
PROPERTIES DriftBlocksStart
CHECK_DEADLOCK FALSE
