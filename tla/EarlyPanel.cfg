\* One start of each program and no click is enough.
CONSTANTS
  NoConn = NoConn
  Conns = {c1, c2, c3}
  NetCap = 1
  MaxClicks = 1
  MaxExits = 0
  MaxSourceStarts = 0
  MaxFaults = 0
SPECIFICATION FairSpec
CHECK_DEADLOCK FALSE
PROPERTY GuidShown
