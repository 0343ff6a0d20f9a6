SPECIFICATION Spec
CONSTANTS
  None = None
  Workers = {w1, w2}
  RuleIds = {1, 2, 3}
  RuleFiles = {"f1", "f2"}
  Roots = {"r1", "r2"}
  RootOf <- RootOfFile
  Values = {"a"}
  ValueOf <- ValueOfFile
  Decisions = {"keep"}
  Keeping = {"keep"}
  Threshold = 3
  MaxRules = 2
  MaxObservations = 4
  Documents = {1, 2, 3}
  Budgets <- UserBudgets
  Corrections = {2}
  CoreOf <- Cores
  Overlap = TRUE
  MaxIdentities = 6
SYMMETRY Symmetry
INVARIANTS
  ProposalIsSound RulesDecide IdentitiesAreSound
PROPERTIES
  DecisionsLast
CHECK_DEADLOCK FALSE
