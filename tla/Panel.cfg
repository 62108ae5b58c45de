\* Each program is restarted once: two connections of the source may overlap in
\* the panel, and a third one is enough for the one that follows.
CONSTANTS
  NoConn = NoConn
  Conns = {c1, c2, c3}
  NetCap = 1
  MaxClicks = 2
  MaxExits = 1
  MaxSourceStarts = 1
  MaxFaults = 1
SPECIFICATION FairSpec
\* The panel need not be started, and the bounds run out.
CHECK_DEADLOCK FALSE
INVARIANT TypeOK
PROPERTIES ShownUnlessEarly ClickEnds TrueUnlessRaced
