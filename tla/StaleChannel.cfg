\* The two channels of DK_PD_CHANNEL_MAX; the host plays in stereo, then mono.
CONSTANTS
  PDChannels = 2
  OutputCounts = {1, 2}
  BlockMod = 4
  NetCap = 2
SPECIFICATION FairSpec
PROPERTY NoBlockTwice
