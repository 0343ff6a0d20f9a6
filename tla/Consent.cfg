SPECIFICATION Spec
CONSTANTS
  ApproveCmds = {a1, a2}
  StartCmds = {s1, s2}
  CancelCmds = {c1}
  Lifetime = 1
  MaxClock = 1
  MaxChallenges = 2
  MaxDrifts = 1
SYMMETRY SameCommands
INVARIANTS
  ConsentWasGiven
  StartedOnce
  SessionMatchesConsent
PROPERTIES
  CancelIsFinal
  ImplementsGate
CHECK_DEADLOCK FALSE
