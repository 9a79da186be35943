CONSTANTS
  Procs = {p1, p2}
  Fds = {3, 4}
  Pipes = {pipe1}
  Sockets = {sock1}
  MaxRef = 4
SPECIFICATION Spec
INVARIANTS TypeOK HoldersAreCounted
CHECK_DEADLOCK FALSE
