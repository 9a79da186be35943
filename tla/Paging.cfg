CONSTANTS
  Procs = {p1, p2}
  ImagePages = {1}
  MmapPages = {2}
  TotalFrames = 7
  FirstFrame = 1
  TempPresent = TRUE
  Shadowed = {4}
  Values = {0, 1}
SPECIFICATION Spec
INVARIANTS TypeOK   
SYMMETRY Symmetry
CHECK_DEADLOCK FALSE
