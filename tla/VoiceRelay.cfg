CONSTANTS
  Flow = {f1, f2}
  Play = {p1, p2}
  NoFlow = NoFlow
  NoPlay = NoPlay
  MaxInits = 2
SPECIFICATION FairSpec
INVARIANTS TypeOK BusyMeansRunning MicIsReleased
PROPERTIES FlowsEnd
CHECK_DEADLOCK FALSE
