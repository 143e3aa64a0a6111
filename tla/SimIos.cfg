SPECIFICATION IosSpec
CONSTANTS
  Configs <- ThreeConfigs
  Disks <- TwoDrives
  ERequests <- EReqs
  DRequests <- DReqs
  MaxBatch = 2
  MaxReq = 2
  MaxSingle = 3
  MaxTyped = 1
  MaxClear = 1
  SeqRange = 3
  InSize = 2
  OutSize = 3
  MaxFrames = 2
  MaxPuts = 3
  MaxOpens = 2
  MaxKicks = 1
INVARIANTS BufferInOrder AnswerAcknowledges FramesIntact PacketsSentOnce ClosedIsQuiet
PROPERTIES ImplementsPool AllDelivered NoLostWakeup
CHECK_DEADLOCK FALSE
