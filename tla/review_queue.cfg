SPECIFICATION Spec
CONSTANTS
  Records = {1, 2, 3}
  Ids = {1, 2, 3, 4}
  Fields = {"f", "g"}
  Summaries = {"a", "b"}
  Worlds <- IssueWorlds
  MaxRevision = 3
  MaxEpoch = 1
  MaxVersion = 2
INVARIANT
  QueueComplete
CHECK_DEADLOCK FALSE
