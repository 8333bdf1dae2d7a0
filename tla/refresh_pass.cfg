SPECIFICATION Spec
CONSTANTS
  Records = {1, 2, 3}
  Values = {1, 2}
  Versions = {1, 2}
  Unites = {1}
  crm = crm
  erp = erp
  Sources = {crm, erp}
  SourceOf <- MCSourceOf
  Capturable = {crm}
  Decidable <- MCDecidable
  Anchors = {1}
  InitialSources <- MCInitialSources
  MaxChanges = 4
INVARIANTS
  TypeOK
  DeltaCovers
PROPERTIES
  PublishesInput
