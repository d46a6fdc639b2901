CONSTANTS
  Dash = {phone}
  MaxHandlers = 2
  MaxMessages = 2
  MaxFailures = 1
  MaxOverviews = 1
  MaxQueued = 0
SPECIFICATION FairSpec
INVARIANTS TypeOK EveryChangeShown
PROPERTIES HeartbeatHeals
