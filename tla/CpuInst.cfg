SPECIFICATION Spec
CONSTANTS
  FractSize = 3
  ExpSize = 3
  Guard = 3
  Correction = 1
  HalfDrop = 2
  AW = 4
  XW = 3
  SW = 2
  MemSize = 8
  Semaphores <- Sems
  Contexts <- AllContexts
  ReciprocApprox <- Recip
PROPERTIES VectorAgreesWithScalar ShiftIsArithmetic FaultRestartable FloatArithmetic
CHECK_DEADLOCK FALSE
