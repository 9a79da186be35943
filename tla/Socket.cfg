CONSTANTS
  Procs = {p1, p2}
  MaxSockets = 3
  MaxFds = 2
  RingSize = 2
  Backlogs = {1}
  Capacity = 2
  SendLengths = {1}
  RecvLengths = {2}
  Handoffs = {TRUE}
  MaxBytes = 0
  Calls = {"fork", "exit", "relisten", "shutdown"}
SPECIFICATION Spec
INVARIANTS TypeOK PeersMutual WaitersAsleep 
SYMMETRY Symmetry
CHECK_DEADLOCK FALSE
