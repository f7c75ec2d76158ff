SPECIFICATION ServicesSpec
CONSTANTS
    None = None
    Foreign = Foreign
    NoName = NoName
    NoOwner = NoOwner
    NoPeer = NoPeer
    AllPeers = AllPeers
    SavedSessions = {"s1"}
    LibraryCommands = {"c1", "c2"}
    StoreFaults = 1
    BatchFiles = 2
    SftpFaults = 1
    Logged = {1}
    Producers = {"p1"}
    SessionPlaces = 1
    SystemPlaces = 1
    QueueSize = 3
    Segments = 1
    LogFaults = 1
    Guis = {"g1", "g2"}
    LastBus = 1
    PortNames = {"n1", "n2"}
    PairsAtOnce = 1
    PortFaults = 1
    Meddlers = TRUE
    Clients = {"p1", "p2"}
    ClientLimit = 1
    Hosts = {"c1", "c2"}
    Algorithms = {"a", "b"}
    Fingerprints = {1, 2}
    TrustFaults = 2
    Budget = 3
    Interval = 2
    Depth = 3
    CommandSlots = 1
    Chunks = 1
    Reloads = 2
INVARIANTS  SharedAccounted TrustGranted ScriptsBounded
PROPERTY ServicesAnswer
CHECK_DEADLOCK FALSE
