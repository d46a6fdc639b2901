CONSTANTS
  Conn = {c1, c2, c3, c4}
  NoConn = NoConn
  MaxOutages = 2
SPECIFICATION FairSpec
INVARIANTS TypeOK NoLeakedConnection
PROPERTIES ForgetsOnlyClosed LossArmsRetry AttemptEnds
