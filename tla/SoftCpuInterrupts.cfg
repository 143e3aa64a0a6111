SPECIFICATION InterruptsSpec
CONSTANTS
  CpuCnt = 2
  ClusterCnt = 1
  Sems = {}
  Slots = {0, 1, 2}
  BootSlot = 0
  Task <- MCTask
  BootTask <- MCBootTask
  Image <- MCImage
  Templates <- MCTemplates
  XaOf <- MCXaOf
  StartupCpu = 0
  Limits = {}
  TimerIncrement = 1
  SizeMod = 4
  Insts = {"SIPI", "STORE", "EX", "RESET", "CIPI"}
INVARIANTS
  ResetIsQuiet
  ExchangeHasCause
PROPERTY NoInterruptLost
