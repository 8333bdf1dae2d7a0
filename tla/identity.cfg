CONSTANTS
  Records <- FourRecords
  Core <- ThreeRecords
  MinActive = 3
  MaxRevision = 4
SPECIFICATION Spec
CHECK_DEADLOCK FALSE
INVARIANTS
  TypeOK
  ReconcileNeverFails
  LedgerMatchesResolution
  LineageComplete
PROPERTIES
  NothingReturns
  AffectedMatchesFull
  ContinuityByAnchor
