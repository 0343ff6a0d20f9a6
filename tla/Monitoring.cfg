SPECIFICATION MCSpec
CONSTANTS
  Nil = Nil
  MaxProposals = 2
  MaxRevision = 2
  MaxJobs = 1
  MaxSwitches = 2
  Race = {"switch", "user", "pause", "command"}
  Inodes = {i1, i2}
  Holders = {h1, h2}
  Lease = 2
  MaxAttempts = 2
  MaxEvents = 3
  MaxClaims = 3
  MaxTime = 4
SYMMETRY Symmetry
INVARIANTS
  EndedCoversEvents OneOwner NoChangeIsLost AutomaticIsGuarded
  CatalogueIsTrue
PROPERTIES
  ImplementsLedger FinishedIsComplete
CHECK_DEADLOCK FALSE
