CONSTANTS
  NumSlots = 2
  TickMod = 2
  SleepTicks = {1}
  ExitCodes = {3}
  MaxPid = 4
SPECIFICATION FpuSpec
INVARIANTS FpuPreserved
