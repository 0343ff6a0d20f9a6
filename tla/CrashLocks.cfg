SPECIFICATION Spec
CONSTANTS
  NOps = 3
  Directories = {1}
  Stages = {2}
  Deps <- StagedMove
  FinalizeCmds = {finalize}
  StartCmds = {start}
  RollbackCmds = {rollback}
  CancelCmds = {cancel}
  Recovery = recover
  MaxCrashes = 1
  MaxFaults = 0
  MaxUserChanges = 0
  MaxEvents = 100
  LateMutation = FALSE
  Overlap = FALSE
INVARIANTS InterruptionIsRecoverable
CHECK_DEADLOCK FALSE
