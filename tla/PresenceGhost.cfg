CONSTANTS
  Socket = {s1, s2}
  DeviceId = {}
  AgentId = {pc}
  NoSocket = NoSocket
  NoId = NoId
  StatementsFail = FALSE
  MaxCrashes = 0
SPECIFICATION Spec
INVARIANTS NoGhostAgent
CHECK_DEADLOCK FALSE
