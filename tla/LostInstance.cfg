\* The smallest case: one connect(), no crash.
CONSTANTS
  Conns = {c1, c2, c3, c4}
  NoConn = NoConn
  MaxCalls = 1
  MaxCrashes = 0
SPECIFICATION FairSpec
PROPERTY Asked
