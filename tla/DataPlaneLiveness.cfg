SPECIFICATION FairSpec
CONSTANTS
  SyncCallers = {c1}
  AsyncCallers = {a1}
  Owners = {o1, o2}
  Subs = {s1}
  Closers = {k1}
  CommandCapacity = 2
  SubCapacity = 1
  StartupLimit = 1
  MaxChunk = 1
  MaxBytes = 1
  SerialOwners = TRUE
  None = None
PROPERTIES AdmissionStopsReads CallsAnswered AcquisitionsEnd ShutdownCompletes
