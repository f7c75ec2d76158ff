------------------------------ MODULE MCPlugins ------------------------------
(***************************************************************************)
(* The protocol plugins side by side: Modbus, the TFTP server, RTT with    *)
(* SystemView and the debug probe, TRDP and iperf.  They do not share state*)
(* in the program; a behaviour is one module, or one independent part of   *)
(* one, chosen in Init as plugin, and the modules share the variables p1 to *)
(* p14 here, each from p1 on.                                              *)
(***************************************************************************)
EXTENDS Naturals

CONSTANTS Absent,
          Pollers, Reads, WritesAgain, Requests, WatchCommands,       \* of Modbus
          Listeners, Slots,                                           \* of TftpServer
          RingSizes, RingBytes, HostBytes, Upsets,                    \* of RttRing
          Indices, IndicesNamed, NoIndex,                             \* of RttChannels
          Probing, Settings, ProbeThreads, ProbeSlots, ProbeCommands, \* of DebugTarget
          TrdpCallers, TrdpConnect, TrdpBridges, TrdpCommands,        \* of TrdpRuntime
          ServerCalls, Serving, ClientRounds,                         \* of IperfServer
          Connections, HandlersMax, ReverseSenders, UnitsMax, ParallelStreams, \* of Iperf2Tcp
          UdpClients, Datagrams, Fins, Reports, Overtakes,            \* of Iperf2Udp
          RoundsMax, IntervalsMax                                     \* of Iperf3Rounds

VARIABLES plugin, p1, p2, p3, p4, p5, p6, p7, p8, p9, p10, p11, p12, p13, p14

others3 == <<p4, p5, p6, p7, p8, p9, p10, p11, p12, p13, p14>>
others6 == <<p7, p8, p9, p10, p11, p12, p13, p14>>
others7 == <<p8, p9, p10, p11, p12, p13, p14>>
others8 == <<p9, p10, p11, p12, p13, p14>>
others9 == <<p10, p11, p12, p13, p14>>
others11 == <<p12, p13, p14>>
pluginvars == <<plugin, p1, p2, p3, others3>>

(* Modbus, the TFTP server, the RTT ring and channels, the debug probe,    *)
(* TRDP and iperf are taken with their proofs, so that what is proved there *)
(* is about the actions and properties below.                              *)
P == INSTANCE PluginProofs WITH
    Worker <- Pollers, ReadRetries <- Reads, RetryWrites <- WritesAgain,
    MaxRequests <- Requests, MaxStarts <- WatchCommands,
    mode <- p1, tx <- p2, tid <- p3, wire <- p4, replies <- p5, link <- p6, server <- p7,
    ran <- p8, done <- p9, watch <- p10, worker <- p11, main <- p12, down <- p13, starts <- p14,
    Thread <- Listeners, MaxTransfers <- Slots,
    abort <- p1, running <- p2, thread <- p3, active <- p4, transfers <- p5, closed <- p6,
    overlapped <- p7,
    Sizes <- RingSizes, Length <- RingBytes, HostBuffer <- HostBytes, MaxUpsets <- Upsets,
    up <- p1, size <- p2, ring <- p3, wr <- p4, rd <- p5, sent <- p6, got <- p7, target <- p8,
    host <- p9, upsets <- p10, wild <- p11,
    Channel <- Indices, Named <- IndicesNamed, NoChannel <- NoIndex,
    readable <- p1, writable <- p2, source <- p3, send <- p4, claims <- p5, observers <- p6,
    control <- p7, suppressed <- p8, sync <- p9,
    Session <- Probing, Config <- Settings, ProbeThread <- ProbeThreads, ProbeQueue <- ProbeSlots,
    ProbeOps <- ProbeCommands, None <- Absent,
    slot <- p1, mutex <- p2, wk <- p3, queue <- p4, shut <- p5, lease <- p6, ses <- p7,
    Caller <- TrdpCallers, Connector <- TrdpConnect, Bridges <- TrdpBridges,
    Commands <- TrdpCommands,
    session <- p2, told <- p3, bridge <- p4, flags <- p5, child <- p6, locks <- p7,
    pending <- p8, asked <- p9, store <- p10, capture <- p11, ops <- p12, at <- p13,
    local <- p14,
    Call <- ServerCalls, ServerThreads <- Serving, Round <- ClientRounds,
    rt <- p1, th <- p2, call <- p3, port <- p4, shown <- p5, rnd <- p6, client <- p7,
    Handler <- Connections, MaxHandlers <- HandlersMax, Threads <- ReverseSenders, MaxBytes <- UnitsMax,
    Stream <- ParallelStreams,
    hands <- p1, tcp <- p2, rev <- p3, ended <- p4, halt <- p5, st <- p6, sender <- p7,
    Peer <- UdpClients, MaxSent <- Datagrams, MaxFins <- Fins, MaxReports <- Reports,
    MaxLate <- Overtakes,
    cl <- p1, net <- p2, back <- p3, clients <- p4, closing <- p5, seq <- p6, events <- p7,
    loop <- p8,
    MaxRounds <- RoundsMax, MaxIntervals <- IntervalsMax,
    turn <- p1, chan <- p2, emitted <- p3, barrier <- p4, tests <- p6
Runtime == INSTANCE RttRuntime WITH
    Caller <- {"c1"}, None <- Absent, Capacity <- 1, MaxPending <- 1, Overlap <- FALSE,
    run <- p1, worker <- p2, startup <- p3, queue <- p4, pending <- p5, connect <- p6,
    sd <- p7, call <- p8, dec <- p9, observer <- p10, reported <- p11
Observer == INSTANCE RttStream WITH
    Length <- 6, HistoryLimit <- 4, Capacity <- 1, MaxAttach <- 1, sent <- p1, chunk <- p2,
    history <- p3, queue <- p4, drops <- p5, observer <- p6, decoder <- p7, events <- p8,
    gaps <- p9
Trace == INSTANCE SystemViewTrace WITH
    Task <- {"t1", "t2"}, None <- Absent, MaxCycles <- 1, MaxDepth <- 2, MaxHistory <- 1,
    last <- p1, window <- p2, active <- p3, interrupted <- p4, depth <- p5, tasks <- p6,
    events <- p7, entry <- p8, resync <- p9
Capture == INSTANCE TrdpCapture WITH
    Link <- {"l1", "l2"}, Length <- 6, HeadSize <- 2, Whole <- 3, MaxSegment <- 3, Cap <- 5,
    FlowLimit <- 1, FrameLimit <- 2, SeqMod <- 6, MaxFrames <- 3, flows <- p1, sent <- p2,
    clean <- p3, capture <- p4, sender <- p5, file <- p6
Dataset == INSTANCE TrdpDataset WITH
    Primitive <- {2}, DatasetId <- {1000, 1001}, Sizes <- {0, 2}, MaxElements <- 2,
    MaxDatasets <- 2, MaxItems <- 2, datasets <- p1, current <- p2, parse <- p3

------------------------------------------------------------------------------
Blank11 == p12 = 0 /\ p13 = 0 /\ p14 = 0
Blank9 == p10 = 0 /\ p11 = 0 /\ Blank11
Blank8 == p9 = 0 /\ Blank9
Blank7 == p8 = 0 /\ Blank8
Blank6 == p7 = 0 /\ Blank7
Blank3 == p4 = 0 /\ p5 = 0 /\ p6 = 0 /\ Blank6

PluginsInit ==
    \/ plugin = "modbus" /\ P!Modbus!Init
    \/ plugin = "tftp" /\ P!Tftp!Init /\ Blank7
    \/ plugin = "rtt" /\ Runtime!Init /\ Blank11
    \/ plugin = "channels" /\ P!Channels!Init /\ Blank9
    \/ plugin = "ring" /\ P!Ring!Init /\ Blank11
    \/ plugin = "stream" /\ Observer!Init /\ Blank9
    \/ plugin = "trace" /\ Trace!Init /\ Blank9
    \/ plugin = "target" /\ P!Target!Init /\ Blank7
    \/ plugin = "trdp" /\ P!Trdp!Init
    \/ /\ plugin \in {"segments", "counters", "save"} /\ Capture!Init /\ Blank6
       /\ plugin # "counters" => p5.base = 0
    \/ plugin = "dataset" /\ Dataset!Init /\ Blank3
    \/ plugin = "iperf" /\ P!Iperf!Init /\ Blank7
    \/ plugin \in {"tcp server", "tcp client"} /\ P!Tcp!Init /\ Blank7
    \/ plugin = "udp" /\ P!Udp!Init /\ Blank8
    \/ plugin = "iperf3" /\ P!Rounds!Init /\ Blank6

PluginsNext ==
    /\ UNCHANGED plugin
    /\ \/ plugin = "modbus" /\ P!Modbus!Next
       \/ plugin = "tftp" /\ P!Tftp!Next /\ UNCHANGED others7
       \/ plugin = "rtt" /\ Runtime!Next /\ UNCHANGED others11
       \/ plugin = "channels" /\ P!Channels!Next /\ UNCHANGED others9
       \/ plugin = "ring" /\ P!Ring!Next /\ UNCHANGED others11
       \/ plugin = "stream" /\ Observer!Next /\ UNCHANGED others9
       \/ plugin = "trace" /\ Trace!Next /\ UNCHANGED others9
       \/ plugin = "target" /\ P!Target!Next /\ UNCHANGED others7
       \/ plugin = "trdp" /\ P!Trdp!Next
       \/ plugin = "segments" /\ Capture!Decodes /\ UNCHANGED others6
       \/ plugin = "counters" /\ Capture!Counts /\ UNCHANGED others6
       \/ plugin = "save" /\ Capture!Saves /\ UNCHANGED others6
       \/ plugin = "dataset" /\ Dataset!Next /\ UNCHANGED others3
       \/ plugin = "iperf" /\ P!Iperf!Next /\ UNCHANGED others7
       \/ plugin = "tcp server" /\ P!Tcp!ServerNext /\ UNCHANGED others7
       \/ plugin = "tcp client" /\ P!Tcp!ClientNext /\ UNCHANGED others7
       \/ plugin = "udp" /\ P!Udp!Next /\ UNCHANGED others8
       \/ plugin = "iperf3" /\ P!Rounds!Next /\ UNCHANGED others6

(* The fairness of the modules: threads that are told to work do so.       *)
PluginsWork ==
    /\ UNCHANGED plugin
    /\ \/ plugin = "modbus" /\ P!Modbus!ClientRuns
       \/ plugin = "tftp" /\ P!Tftp!Progress /\ UNCHANGED others7
       \/ plugin = "rtt" /\ Runtime!WorkerRuns /\ UNCHANGED others11
       \/ plugin = "target" /\ P!Target!Runs /\ UNCHANGED others7
       \/ plugin = "trdp" /\ P!Trdp!Progress
       \/ plugin = "iperf" /\ P!Iperf!Progress /\ UNCHANGED others7
       \/ plugin = "tcp server" /\ P!Tcp!ServerProgress /\ UNCHANGED others7
       \/ plugin = "tcp client" /\ P!Tcp!ClientRuns /\ UNCHANGED others7
       \/ plugin = "udp" /\ P!Udp!Progress /\ UNCHANGED others8
       \/ plugin = "iperf3" /\ P!Rounds!Progress /\ UNCHANGED others6

PluginsAlsoWork ==
    /\ UNCHANGED plugin
    /\ \/ plugin = "modbus" /\ P!Modbus!MainRuns
       \/ plugin = "rtt" /\ Runtime!Works /\ UNCHANGED others11

DecodersEnd == plugin = "rtt" /\ Runtime!DecodersEnd /\ UNCHANGED <<plugin, others11>>

PluginsSpec ==
    /\ PluginsInit /\ [][PluginsNext]_pluginvars
    /\ WF_pluginvars(PluginsWork) /\ WF_pluginvars(PluginsAlsoWork) /\ WF_pluginvars(DecodersEnd)

------------------------------------------------------------------------------
(* What is shown is what was sent: the RTT ring is a queue, the SystemView *)
(* decoder makes up no packet and misses none silently, no cycle is        *)
(* charged twice, TRDP telegrams are cut out of the stream exactly, the    *)
(* missing ones are counted, and a dataset is decoded as it was encoded.   *)
StreamsExact ==
    /\ plugin = "ring" => P!Ring!RingIsQueue
    /\ plugin = "stream" => Observer!NoFalseEvents /\ Observer!GapsAreDrops
    /\ plugin = "trace" => Trace!CyclesChargedOnce
    /\ plugin = "segments" => Capture!TelegramsExact
    /\ plugin = "counters" => Capture!MissedIsExact
    /\ plugin = "dataset" => Dataset!PayloadsRoundTrip

(* A write over Modbus TCP whose outcome is told was told right: done once *)
(* if it succeeded, not done if it is not said to be unknown.              *)
OutcomeTold == plugin = "modbus" => P!Modbus!OutcomeTold

(* What has one owner keeps one: the debug probe, the SystemView command   *)
(* channel, the captures of a TRDP session and its bridge, the file a      *)
(* capture is saved over, the places of the TFTP server.                   *)
OwnersHold ==
    /\ plugin = "target" => P!Target!OneProbeOwner
    /\ plugin = "channels" => P!Channels!ChannelsApart
    /\ plugin = "trdp" => P!Trdp!CapturesReleased /\ P!Trdp!OpenIsUsable
    /\ plugin = "save" => Capture!SourceSurvives
    /\ plugin = "tftp" => P!Tftp!LimitHeld /\ P!Tftp!RunningHasListener

(* What the front end is told of iperf is true: the state of the server,   *)
(* and of every test that it started, what it carried and lost and that it *)
(* ended, once and last.                                                   *)
TestsReported ==
    /\ plugin = "iperf" => P!Iperf!StatusAgrees
    /\ plugin = "tcp server" => P!Tcp!TestsAccounted
    /\ plugin = "udp" => P!Udp!TestsPaired /\ P!Udp!LossAccounted
    /\ plugin = "iperf3" => P!Rounds!DoneIsLast

(* What is stopped or closed comes to rest and what is waited for comes:   *)
(* Modbus transactions end, servers told to stop leave, a closed RTT or    *)
(* TRDP session settles and a lost target closes it, nobody waits for ever *)
(* for a probe and an unused one is let go of, and every iperf test ends.  *)
(* Sessions and workers of a probe are interchangeable: one stands for all.*)
PluginAwaited(i) ==
    \/ plugin = "modbus" /\ P!Modbus!Awaited
    \/ plugin = "tftp" /\ P!Tftp!Awaited
    \/ plugin = "rtt" /\ (IF i = 1 THEN Runtime!Closed ELSE Runtime!Lost)
    \/ plugin = "target" /\ (IF i = 1 THEN P!Target!Waiting("s1") ELSE P!Target!Unused("w1"))
    \/ plugin = "trdp" /\ P!Trdp!Awaited
    \/ plugin = "iperf" /\ P!Iperf!Awaited
    \/ plugin = "tcp server" /\ P!Tcp!Awaited(i)
    \/ plugin = "tcp client" /\ P!Tcp!Sending
    \/ plugin = "udp" /\ (IF i = 1 THEN \E c \in UdpClients : P!Udp!Sending(c) ELSE P!Udp!Awaited)
    \/ plugin = "iperf3" /\ (IF i = 1 THEN P!Rounds!Waiting ELSE P!Rounds!Stopped)
PluginReached(i) ==
    \/ plugin = "modbus" /\ P!Modbus!Reached
    \/ plugin = "tftp" /\ P!Tftp!Reached
    \/ plugin = "rtt" /\ (IF i = 1 THEN Runtime!Settled ELSE Runtime!Reported)
    \/ plugin = "target" /\ (IF i = 1 THEN ~P!Target!Waiting("s1") ELSE P!Target!LetGo("w1"))
    \/ plugin = "trdp" /\ P!Trdp!Reached
    \/ plugin = "iperf" /\ P!Iperf!Reached
    \/ plugin = "tcp server" /\ P!Tcp!Reached(i)
    \/ plugin = "tcp client" /\ P!Tcp!Reported
    \/ plugin = "udp" /\ (IF i = 1 THEN \A c \in UdpClients : P!Udp!Sent(c) ELSE P!Udp!Reached)
    \/ plugin = "iperf3" /\ (IF i = 1 THEN P!Rounds!Returned ELSE P!Rounds!Left)

PluginsSettle == \A i \in 1..2 : PluginAwaited(i) ~> PluginReached(i)
=============================================================================
