CONSTANTS
  x = x y = y
  SourceRecords = {1, 2, 3, 4}
  Records = {1, 2, 3, 4}
  Rows <- MCRows
  Rules <- MCRules
  Similar <- MCSimilar
  MaxBlock = 3
  MaxPairs = 4
  Identities = {x, y}
  Fields <- MCFields
  Second = 2
  Documents <- MCDocuments
  Homes <- MCHomes
  Raws = {"a", "z"}
  MaxDirectives = 2
SPECIFICATION MCSpec
CONSTRAINT Kept
INVARIANTS
  EvaluatesCompletely
  AgreementSurvives
PROPERTIES
  SelectionBySeconds
