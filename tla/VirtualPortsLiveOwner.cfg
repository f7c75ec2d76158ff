SPECIFICATION Spec
CONSTANTS
    Gui = {g1, g2}
    MaxBus = 1
    Names = {n1, n2}
    MaxPairs = 2
    MaxFaults = 1
    Meddling = FALSE
    Foreign = Foreign
    NoName = NoName
    Nobody = Nobody
PROPERTY LiveOwnerKeepsPair
CHECK_DEADLOCK FALSE
