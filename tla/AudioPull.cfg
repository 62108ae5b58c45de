\* A device with three channels; the host asks for fewer and for more outputs.
CONSTANTS
  PDChannels = 3
  OutputCounts = {2, 4}
  BlockMod = 4
  NetCap = 2
SPECIFICATION FairSpec
INVARIANTS TypeOK OneToken NoTornRender ChannelsAligned
PROPERTIES EveryBlockOnceInOrder KeepsPlaying StopEnds
