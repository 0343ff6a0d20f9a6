SPECIFICATION MCSpec
CONSTANTS
  None = None
  Operations = {"rename", "mkdir", "rmdir"}
  Approved = Approved
  Misreports = {"io"}
  Foreign = Foreign
  Created = Created
  Stranger = Stranger
  SourceDir = SourceDir
  TargetDir = TargetDir
  OtherDir = OtherDir
  Outside = Outside
  MaxAttempts = 3
  MaxChanges = 3
  Ops <- PlanOps
  Deps <- PlanDeps
  SessionLife = 2
  MessageLife = 1
  Attempts = 2
  MaxSessions = 2
  MaxTime = 2
  Executions = {first, second}
  Cuts = {"torn"}
  MaxEvents = 3
  MaxStops = 2
  Enabled = TRUE
  TransferChanges = 2
SYMMETRY Symmetry
INVARIANTS
  PlanIsSound AnswersAreTrue OnlyApprovedIsDone
PROPERTIES
  NothingIsLost
CHECK_DEADLOCK FALSE
