SPECIFICATION Spec
CONSTANTS
  Transfers = {t1, t2}
  Strategies = {"inline", "auxiliary"}
  MaxActive = 1
  MaxRuntimes = 2
  MaxWire = 2
  UserActs = {"dismiss"}
CHECK_DEADLOCK FALSE
SYMMETRY Symmetry
INVARIANTS SlotsHeld ClosedCancels AcceptedIsJoined TerminalIsSettled
PROPERTIES NoRevival
