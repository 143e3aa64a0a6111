SPECIFICATION LivenessSpec
CONSTANTS
  CpuCnt = 1
  ClusterCnt = 1
  Sems = {0}
  Slots = {0, 1, 2}
  BootSlot = 0
  Task <- MCTask
  BootTask <- MCBootTask
  Image <- MCImage
  Templates <- MCTemplates
  XaOf <- MCXaOf
  StartupCpu = 0
  Limits = {}
  TimerIncrement = 2
  SizeMod = 4
  Insts = {"EX", "IOI", "RESET", "TS", "SM1", "ORE", "ERI", "DRI"}
PROPERTIES IoInterruptTaken DeadStartTakesEffect
