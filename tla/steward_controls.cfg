SPECIFICATION Spec
CONSTANTS
  Records = {1, 2, 3}
  Anchors = {1}
  fieldName = f
  Fields <- MCFields
  Definitions <- MCDefinitions
  Clients = {s1, s2}
  MaxEpoch = 3
  MaxRevision = 1
SYMMETRY Stewards
INVARIANTS
  TypeOK
  EpochsExact
  ChangesSeeded
  AlwaysSatisfiable
PROPERTIES
  NoLostUpdate
