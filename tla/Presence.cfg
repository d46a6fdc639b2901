CONSTANTS
  Socket = {s1, s2}
  DeviceId = {desktop, phone}
  AgentId = {desktop, pc}
  NoSocket = NoSocket
  NoId = NoId
  StatementsFail = TRUE
  MaxCrashes = 1
SPECIFICATION FairSpec
INVARIANTS TypeOK NoClosedSocketOfSingleClient SettledPresenceAgrees
PROPERTIES RegistryIsARoster EntryLeavesWithItsSocket ListensWithNobodyOnline DisconnectIsRecorded
CHECK_DEADLOCK FALSE
