SPECIFICATION PluginsSpec
CONSTANTS
    Absent = Absent
    Pollers = {"w1"}
    Reads = 1
    WritesAgain = FALSE
    Requests = 2
    WatchCommands = 1
    Listeners = {"t1", "t2", "t3"}
    Slots = 2
    RingSizes = {1, 3}
    RingBytes = 5
    HostBytes = 3
    Upsets = 1
    Indices = {0, 1, 2}
    IndicesNamed = {1, 2}
    NoIndex = 99
    Probing = {"s1", "s2"}
    Settings = {"x", "y"}
    ProbeThreads = {"w1", "w2"}
    ProbeSlots = 1
    ProbeCommands = 2
    TrdpCallers = {"c1"}
    TrdpConnect = "conn"
    TrdpBridges = 2
    TrdpCommands = 1
    ServerCalls = {"c1", "c2", "c3"}
    Serving = {"t1", "t2", "t3"}
    ClientRounds = {"r1"}
    Connections = {"h1", "h2"}
    HandlersMax = 2
    ReverseSenders = 2
    UnitsMax = 1
    ParallelStreams = {1, 2}
    UdpClients = {"p1"}
    Datagrams = 3
    Fins = 2
    Reports = 1
    Overtakes = 1
    RoundsMax = 3
    IntervalsMax = 2
INVARIANTS    TestsReported
PROPERTY PluginsSettle
CHECK_DEADLOCK FALSE
