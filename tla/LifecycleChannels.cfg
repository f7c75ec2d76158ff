SPECIFICATION Spec
CONSTANTS
  Simple = {}
  Containers = {s}
  Chans = {c1, c2, c3}
  Users = {u1}
  MaxRuntimes = 2
  MaxRoots = 1
  MaxChildren = 2
  MayExit = TRUE
  None = None
SYMMETRY Symmetry
CHECK_DEADLOCK FALSE
INVARIANTS PublishedFirst 
