SPECIFICATION Spec
CONSTANTS
  NOps = 1
  Directories = {}
  Stages = {}
  Deps <- OneMove
  FinalizeCmds = {finalize}
  StartCmds = {start}
  RollbackCmds = {rollback}
  CancelCmds = {cancel}
  Recovery = recover
  MaxCrashes = 0
  MaxFaults = 0
  MaxUserChanges = 0
  MaxEvents = 8
  LateMutation = FALSE
  Overlap = TRUE
INVARIANTS CancelBetweenUnits
CHECK_DEADLOCK FALSE
