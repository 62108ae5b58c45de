\* One click calls connect() twice; no crash.
CONSTANTS
  Conns = {c1, c2, c3, c4}
  NoConn = NoConn
  MaxCalls = 2
  MaxCrashes = 0
SPECIFICATION FairSpec
PROPERTY ContactMade
