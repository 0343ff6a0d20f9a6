SPECIFICATION Spec
CONSTANTS
  NOps = 1
  Directories = {}
  Stages = {}
  Deps <- OneMove
  FinalizeCmds = {finalize}
  StartCmds = {start}
  RollbackCmds = {r1, r2}
  CancelCmds = {cancel}
  Recovery = recover
  MaxCrashes = 1
  MaxFaults = 0
  MaxUserChanges = 0
  MaxEvents = 6
  LateMutation = TRUE
  Overlap = TRUE
SYMMETRY SameRollbacks
INVARIANTS
  IntentBeforeMutation
  AppliedIsJournalled
  MutationNeedsConsent
PROPERTIES
  ImplementsWriteAhead
CHECK_DEADLOCK FALSE
