CONSTANTS
  Records <- MCRecords
  Rules <- MCRules
  RuleStrength <- MCRuleStrength
  RuleGroup <- MCRuleGroup
  SourceLabels <- MCSourceLabels
  Inputs <- AllInputs
SPECIFICATION Spec
CHECK_DEADLOCK FALSE
INVARIANTS
  TypeOK
  NoCannotLinkInside
  AuthorityOnlyBySteward
  ExplainedByFacts
  NoWeakChain
  ContradictionExact
