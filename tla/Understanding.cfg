SPECIFICATION Spec
CONSTANTS
  Nil = Nil
  Unknown = Unknown
  Missing = Missing
  IndexedFiles = {f1, f2}
  Indexers = {t1, t2}
  Assets = {a1, a2}
SYMMETRY Symmetry
INVARIANTS
  ResultsAreTrue FieldsAreExactOrFlagged VectorsAreTrue SearchIsSound
PROPERTIES
  NothingUsableIsLost
CHECK_DEADLOCK FALSE
