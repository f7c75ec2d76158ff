SPECIFICATION Spec
CONSTANTS
  Simple = {a, b}
  Containers = {}
  Chans = {}
  Users = {u1, u2}
  MaxRuntimes = 3
  MaxRoots = 1
  MaxChildren = 2
  MayExit = FALSE
  None = None
CHECK_DEADLOCK FALSE
INVARIANTS  RegistryCurrent LossReportedOnce 
