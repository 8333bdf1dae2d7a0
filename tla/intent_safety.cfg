CONSTANTS
  s1 = s1 s2 = s2
  k1 = k1 k2 = k2
  b1 = b1 b2 = b2
  FirstBinding = b1
  AllowedActions <- AllActions
  Sessions = {s1, s2}
  Keys = {k1}
  Bindings = {b1, b2}
  Requests <- AnyRequest
  Policy <- PolicyEach
  AllowedQueues = {1, 2}
  MaxDueInterval = 1
  MaxEscalationLevel = 1
  OpenedAtFirst = 0
  Controls <- AnyControl
  Sendable <- TwoBodies
  MaxRevision = 4
  MaxVersion = 3
  MaxEpoch = 2
  MaxNow = 2
SPECIFICATION Spec
CONSTRAINT Worlds
SYMMETRY Clients
INVARIANTS
  TypeOK
  AnswersTrue
  EscalateOnce
  OneEffectPerRevision
PROPERTIES
  LiveAuthority
  NoLostChange
