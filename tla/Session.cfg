\* One click calls connect() twice; the device crashes once.
CONSTANTS
  Conns = {c1, c2, c3, c4}
  NoConn = NoConn
  MaxCalls = 2
  MaxCrashes = 1
SPECIFICATION FairSpec
INVARIANT TypeOK
PROPERTIES Reconnects AskedUnlessRaced
