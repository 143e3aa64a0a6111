SPECIFICATION ChannelSpec
CONSTANTS
  Channels = {1, 2}
  Dirs <- TwoDirs
  MemSize = 3
  IoSize = 3
  Windows <- OneWindows
  IoAddrs = {0, 2}
  Sizes = {0, 1, 2}
  MultiThreaded = FALSE
  McAnywhere = FALSE
INVARIANTS
  NoAssertionFails NoStalledTransfer InterruptNotStuck
PROPERTIES TransferExact TransferEnds
