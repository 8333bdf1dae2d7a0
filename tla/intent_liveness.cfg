CONSTANTS
  s1 = s1 s2 = s2
  k1 = k1 k2 = k2
  b1 = b1 b2 = b2
  FirstBinding = b1
  AllowedActions <- AllActions
  Sessions = {s1, s2}
  Keys = {k1}
  Bindings = {b1, b2}
  Requests <- OneQueue
  Policy <- OnePolicy
  AllowedQueues = {1}
  MaxDueInterval = 1
  MaxEscalationLevel = 1
  OpenedAtFirst = 1
  Controls <- None
  Sendable <- TwoBodies
  MaxRevision = 1
  MaxVersion = 2
  MaxEpoch = 1
  MaxNow = 1
SPECIFICATION FairSpec
PROPERTIES
  EveryCallEnds
