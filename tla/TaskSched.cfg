CONSTANTS
  NumSlots = 3
  TickMod = 4
  SleepTicks = {0, 1}
  ExitCodes = {257}
  MaxPid = 4
SPECIFICATION FairSpec
INVARIANTS TypeOK PidsUnique RunningSlotIsCurrent WaiterHasLiveChild ExitReportedOnce
PROPERTIES  ImplementsProcessLife 
