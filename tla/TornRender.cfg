\* As in Reconnect.cfg, with one connection that breaks, whether or not a pull
\* outlived it.
CONSTANTS
  PDChannels = 2
  OutputCounts = {2}
  BlockMod = 1
  NetCap = 2
  MaxBreaks = 1
SPECIFICATION ReconnectSpec
INVARIANT NoTornRender
