SPECIFICATION ContextsSpec
CONSTANTS
  CpuCnt = 2
  ClusterCnt = 1
  Sems = {0}
  Slots = {0, 1, 2}
  BootSlot = 0
  Task <- MCTask
  BootTask <- MCBootTask
  Image <- MCImage
  Templates <- MCTemplates
  XaOf <- MCXaOf
  StartupCpu = 0
  Limits = {}
  TimerIncrement = 1
  SizeMod = 3
  Insts = {"SIPI", "STORE", "EX", "TS"}
INVARIANTS
  TypeOK
  ClusterCountExact
  ContextsUnique
  SemaphoreExclusion
