CONSTANTS
  NumSlots = 2
  TickMod = 2
  SleepTicks = {1}
  ExitCodes = {3}
  MaxPid = 3
  TlsBases = {7}
SPECIFICATION CtxSpec
INVARIANTS  RegistersFollowProcess
