SPECIFICATION ProtocolsSpec
CONSTANTS
    Faults = 2
    FewFaults = 2
    FileBlocks = 5
    Modulus = 4
    BlockTries = 3
    FirstTries = 2
 
PROPERTY XmodemDeliversInOrder
PROPERTY TransfersEnd
CHECK_DEADLOCK FALSE
