CONSTANTS
  Procs = {p1, p2}
  MaxSockets = 3
  MaxFds = 2
  RingSize = 2
  Backlogs = {1}
  Capacity = 2
  SendLengths = {1, 2}
  RecvLengths = {2}
  Handoffs = {TRUE}
  MaxBytes = 2
  Calls = {"poll"}
SPECIFICATION Spec
INVARIANTS SleepersHaveNothing 
SYMMETRY Symmetry
CHECK_DEADLOCK FALSE
