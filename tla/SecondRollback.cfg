SPECIFICATION Spec
CONSTANTS
  NOps = 1
  Directories = {}
  Stages = {}
  Deps <- OneMove
  FinalizeCmds = {finalize}
  StartCmds = {start}
  RollbackCmds = {rollback}
  CancelCmds = {cancel}
  Recovery = recover
  MaxCrashes = 2
  MaxFaults = 0
  MaxUserChanges = 0
  MaxEvents = 100
  LateMutation = FALSE
  Overlap = FALSE
INVARIANTS AmbiguousOnlyWhenTouched
CHECK_DEADLOCK FALSE
