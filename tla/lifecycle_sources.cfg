SPECIFICATION Spec
CONSTANTS
  Clients = {c1, c2}
  one = one
  both = both
  Sources = {"s", "t"}
  Definitions <- MCDefinitions
  SourcesOf <- MCSourcesOf
  FieldsOf <- MCFieldsOf
  MaxEntity = 2
  MaxVersion = 2
  MaxGraph = 2
  MaxEvents = 2
CHECK_DEADLOCK FALSE
INVARIANT CreatedCanRefresh
