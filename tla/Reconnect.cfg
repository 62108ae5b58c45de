\* The device's two channels and a host with two outputs, so that an answer cut
\* by a broken connection lacks either package or a part of it.  Two connections
\* break.  What a block holds plays no part here: all blocks are one.
CONSTANTS
  PDChannels = 2
  OutputCounts = {2}
  BlockMod = 1
  NetCap = 2
  MaxBreaks = 2
SPECIFICATION ReconnectSpec
INVARIANT OnePullUnlessDoubled
PROPERTY PullSurvives
