SPECIFICATION FairSpec
CONSTANTS
  Transfers = {t1}
  Strategies = {"inline", "auxiliary"}
  MaxActive = 1
  MaxRuntimes = 2
  MaxWire = 2
  UserActs = {"cancel", "dismiss", "disconnect"}
CHECK_DEADLOCK FALSE
INVARIANTS LiveIsLive
PROPERTIES SlotsReturn StartedFinishes ViewSettles
