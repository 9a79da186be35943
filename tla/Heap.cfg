CONSTANTS
  Header = 3
  Grain = 2
  KernelEnd = 10
  ModsStart = 10
  ModsEnd = 10
  HeapEnd = 45
  Requests = {1, 3, 4, 6}
SPECIFICATION Spec
INVARIANTS TypeOK BlocksTile  FreeIsMerged
