SPECIFICATION Spec
CONSTANTS
  MaxPrint = 2
  MaxTyped = 2
  MaxDrop = 1
INVARIANT ReceiveBufferFree
CHECK_DEADLOCK FALSE
