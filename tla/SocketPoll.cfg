CONSTANTS
  Procs = {p1, p2}
  MaxSockets = 3
  MaxFds = 2
  RingSize = 2
  Backlogs = {1}
  Capacity = 2
  SendLengths = {1}
  RecvLengths = {2}
  Handoffs = {TRUE}
  MaxBytes = 1
  Calls = {"poll"}
SPECIFICATION Spec
INVARIANTS PollersWoken
SYMMETRY Symmetry
CHECK_DEADLOCK FALSE
