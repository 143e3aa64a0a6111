SPECIFICATION IopSpec
CONSTANTS
  MaxPrint = 3
  MaxTyped = 2
  MaxDrop = 1
  Tracks = 2
  Heads = 2
  Sectors = 3
  MaxChange = 2
  StartupIop = 0
  MaxSend = 2
  MaxClear = 1
  TapeImages <- SomeTapes
  BmxImages <- ShortTapes
  MaxSize = 2
  MaxItems = 3
  MaxFile = 4
  SenseSize = 2
  DelayLimit = 1
  BmxItems = 2
  BmxFile = 3
  ResponseTimeout = 2
  Lengths = {2}
  LcpWords = 2
  SegWords = 2
  MaxSegs = 2
  MaxMsgs = 2
  MaxCalls = 2
  MaxResets = 1
INVARIANTS NoLostCompletion PrintedInOrder DiskReadsBack ParcelsAnswered StallEnds MarkFlagsExact PokeOffsetExact InterruptsAnnounced PduPerTransfer DownlineFramed
PROPERTY SpacesOneFile
CHECK_DEADLOCK FALSE
