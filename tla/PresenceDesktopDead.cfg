CONSTANTS
  Socket = {s1, s2}
  DeviceId = {desktop}
  AgentId = {desktop}
  NoSocket = NoSocket
  NoId = NoId
  StatementsFail = FALSE
  MaxCrashes = 0
SPECIFICATION Spec
INVARIANTS NoClosedSocketRegistered
CHECK_DEADLOCK FALSE
