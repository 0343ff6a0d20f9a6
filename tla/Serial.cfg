SPECIFICATION FairSpec
CONSTANTS
  NOps = 3
  Directories = {1}
  Stages = {2}
  Deps <- StagedMove
  FinalizeCmds = {finalize}
  StartCmds = {start}
  RollbackCmds = {rollback}
  CancelCmds = {cancel}
  Recovery = recover
  MaxCrashes = 1
  MaxFaults = 1
  MaxUserChanges = 1
  MaxEvents = 100
  LateMutation = FALSE
  Overlap = FALSE
INVARIANTS
  TypeOK
  FinalIsSettled
  RolledBackRestores
  ReportMatchesDisk
  ProofsAreTrue
  CycleNotSplit
PROPERTIES
  NoMutationWhileBlocked
  InterruptedSettles
CHECK_DEADLOCK FALSE
