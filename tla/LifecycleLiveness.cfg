SPECIFICATION FairSpec
CONSTANTS
  Simple = {a}
  Containers = {s}
  Chans = {c1, c2}
  Users = {u1}
  MaxRuntimes = 2
  MaxRoots = 1
  MaxChildren = 2
  MayExit = FALSE
  None = None
CHECK_DEADLOCK FALSE
PROPERTIES LossNoticed CleanupCompletes CommandsReturn
