SPECIFICATION Spec
CONSTANTS
  SyncCallers = {c1}
  AsyncCallers = {}
  Owners = {o1, o2}
  Subs = {s1, s2}
  Closers = {k1}
  CommandCapacity = 2
  SubCapacity = 1
  StartupLimit = 1
  MaxChunk = 2
  MaxBytes = 2
  SerialOwners = FALSE
  None = None
SYMMETRY Symmetry
INVARIANTS BoundedMemory StreamIntact DriverOwnership NoUseAfterShutdown DisconnectVisibleFirst
