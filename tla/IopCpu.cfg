SPECIFICATION Spec
CONSTANTS
  Depth = 6
  Keep = 2
  Burst = 2
  MaxDepth = 5
  MaxSaved = 4
  Devices = {8}
INVARIANTS CallStackExact InterruptsInTime
PROPERTY InterruptsSpaced
