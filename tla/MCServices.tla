----------------------------- MODULE MCServices -----------------------------
(***************************************************************************)
(* The services of the kernel and of the sessions side by side: the saved  *)
(* sessions, the logs, the display batcher, SFTP and the file editor,      *)
(* virtual serial ports, the peers of a network session, SSH host keys and *)
(* the script engine.  They do not share state in the program; a behaviour *)
(* is one of them, chosen in Init as focus, and the modules share the      *)
(* variables v1 to v14 here, each from v1 on.                              *)
(***************************************************************************)
EXTENDS Naturals

CONSTANTS None, Foreign, NoName, NoOwner, NoPeer, AllPeers,
          SavedSessions, LibraryCommands, StoreFaults,              \* of SessionLibrary
          BatchFiles, SftpFaults,                                   \* of SftpFiles
          Logged, Producers, SessionPlaces, SystemPlaces, QueueSize, Segments, LogFaults,
                                                                    \* of LogEngine
          Guis, LastBus, PortNames, PairsAtOnce, PortFaults, Meddlers,  \* of VirtualPorts
          Clients, ClientLimit,                                     \* of NetworkPeers
          Hosts, Algorithms, Fingerprints, TrustFaults,             \* of HostTrust
          Budget, Interval, Depth, CommandSlots, Chunks, Reloads    \* of ScriptEngine

VARIABLES focus, v1, v2, v3, v4, v5, v6, v7, v8, v9, v10, v11, v12, v13, v14

rest4 == <<v5, v6, v7, v8, v9, v10, v11, v12, v13, v14>>
rest8 == <<v9, v10, v11, v12, v13, v14>>
rest10 == <<v11, v12, v13, v14>>
rest11 == <<v12, v13, v14>>
servicevars == <<focus, v1, v2, v3, v4, rest4>>

Batcher == INSTANCE DataBatcher WITH
    Session <- {"quiet", "busy"}, Capacity <- 2, Threshold <- 3, queue <- v1, pending <- v2,
    due <- v3, thread <- v4
(* The others are taken with their proofs, so that what is proved there is *)
(* about the actions and properties below.                                 *)
Sftp == INSTANCE SftpProofs WITH
    Files <- BatchFiles, MaxTrouble <- SftpFaults, dir <- v1, policy <- v2, fs <- v3, node <- v4,
    cancel <- v5, lock <- v6, t <- v7, results <- v8, d <- v9, victims <- v10, blind <- v11,
    edits <- v12, faults <- v13, broken <- v14
S == INSTANCE ServiceProofs WITH
    Session <- Logged, Producer <- Producers, SessionLimit <- SessionPlaces,
    SystemLimit <- SystemPlaces, Capacity <- QueueSize, MaxSegments <- Segments,
    MaxFaults <- LogFaults, queue <- v1, pending <- v2, producer <- v3, setting <- v4,
    update <- v5, starter <- v6, active <- v7, writers <- v8, disk <- v9, consumer <- v10,
    faults <- v11,
    Gui <- Guis, MaxBus <- LastBus, Names <- PortNames, MaxPairs <- PairsAtOnce,
    Mishaps <- PortFaults, Meddling <- Meddlers, Foreign <- Foreign, NoName <- NoName,
    Nobody <- NoOwner, mode <- v1, driver <- v2, ledger <- v3, tracked <- v4, conn <- v5,
    watch <- v6, alive <- v7, job <- v8, lost <- v9, mishaps <- v10,
    Peer <- Clients, MaxClients <- ClientLimit, NoPeer <- NoPeer, AllPeers <- AllPeers,
    role <- v1, root <- v2, running <- v3, line <- v4, reg <- v5, handles <- v6, child <- v7,
    opened <- v8, listed <- v9, target <- v10, leaving <- v11, closing <- v12, joined <- v13,
    left <- v14,
    Limit <- Budget, Every <- Interval, MaxDepth <- Depth, Commands <- CommandSlots,
    MaxData <- Chunks, MaxLoads <- Reloads, worker <- v1, stack <- v2, frame <- v3, slice <- v4,
    hook <- v5, spent <- v6, shutdown <- v7, commands <- v8, source <- v9, given <- v10,
    Stored <- SavedSessions, Command <- LibraryCommands, LibraryFaults <- StoreFaults,
    None <- None, backend <- v1, unlocked <- v2, file <- v3, secret <- v4, index <- v5,
    lock <- v6, cmd <- v7, errors <- v8,
    Conn <- Hosts, Alg <- Algorithms, Finger <- Fingerprints, TrustFaults <- TrustFaults,
    known <- v1, store <- v2, reset <- v3, client <- v4, ask <- v5, granted <- v6,
    damaged <- v7, failures <- v8

------------------------------------------------------------------------------
Unused11 == v12 = 0 /\ v13 = 0 /\ v14 = 0
Unused10 == v11 = 0 /\ Unused11
Unused8 == v9 = 0 /\ v10 = 0 /\ Unused10
Unused4 == v5 = 0 /\ v6 = 0 /\ v7 = 0 /\ v8 = 0 /\ Unused8

ServicesInit ==
    \/ focus = "library" /\ S!Library!Init /\ Unused8
    \/ focus = "log" /\ S!Log!Init /\ Unused11
    \/ focus = "batcher" /\ Batcher!Init /\ Unused4
    \/ focus = "sftp" /\ Sftp!Init
    \/ focus = "ports" /\ S!Ports!Init /\ Unused10
    \/ focus = "peers" /\ S!Peers!Init
    \/ focus = "trust" /\ S!Trust!Init /\ Unused8
    \/ focus = "script" /\ S!Script!Init /\ Unused10

ServicesNext ==
    /\ UNCHANGED focus
    /\ \/ focus = "library" /\ S!Library!Next /\ UNCHANGED rest8
       \/ focus = "log" /\ S!Log!Next /\ UNCHANGED rest11
       \/ focus = "batcher" /\ Batcher!Next /\ UNCHANGED rest4
       \/ focus = "sftp" /\ Sftp!Next
       \/ focus = "ports" /\ S!Ports!Next /\ UNCHANGED rest10
       \/ focus = "peers" /\ S!Peers!Next
       \/ focus = "trust" /\ S!Trust!Next /\ UNCHANGED rest8
       \/ focus = "script" /\ S!Script!Next /\ UNCHANGED rest10

(* The fairness of the modules: threads that are told to work do so.       *)
Works ==
    /\ UNCHANGED focus
    /\ \/ focus = "library" /\ S!Library!Progress /\ UNCHANGED rest8
       \/ focus = "log" /\ S!Log!ConsumerRuns /\ UNCHANGED rest11
       \/ focus = "batcher" /\ Batcher!Progress /\ UNCHANGED rest4
       \/ focus = "sftp" /\ Sftp!TransferRuns
       \/ focus = "ports" /\ S!Ports!Works /\ UNCHANGED rest10
       \/ focus = "peers" /\ S!Peers!Progress
       \/ focus = "trust" /\ S!Trust!Waits /\ UNCHANGED rest8
       \/ focus = "script" /\ S!Script!Runs /\ UNCHANGED rest10

AlsoWorks ==
    /\ UNCHANGED focus
    /\ \/ focus = "log" /\ S!Log!StarterRuns /\ UNCHANGED rest11
       \/ focus = "sftp" /\ Sftp!SaveRuns

(* Threads that wait for the lock of the port manager get it in the end.   *)
Hangups == focus = "ports" /\ S!Ports!Hangups /\ UNCHANGED <<focus, rest10>>
Wakeups == focus = "ports" /\ S!Ports!Wakeups /\ UNCHANGED <<focus, rest10>>

ServicesSpec ==
    /\ ServicesInit /\ [][ServicesNext]_servicevars
    /\ WF_servicevars(Works) /\ WF_servicevars(AlsoWorks)
    /\ SF_servicevars(Hangups) /\ SF_servicevars(Wakeups)

------------------------------------------------------------------------------
(* What is stored stays whole when a step of several fails, when another   *)
(* actor changes it in between and after a crash: a saved session and its  *)
(* secret change together or not at all; no file content disappears that   *)
(* was not meant to, none is put in place half, and no temporary file is   *)
(* left; a log segment that is written to is not removed.                  *)
StoresIntact ==
    /\ focus = "library" => S!Library!AllOrNothing
    /\ focus = "sftp" => Sftp!NothingLost /\ Sftp!WholeVersions /\ Sftp!CleanEnd
    /\ focus = "log" => S!Log!OpenSegmentsKept

(* What is shared is accounted for: no pair of virtual ports TauTerm made  *)
(* is forgotten, the three places that know the peers of a session agree   *)
(* once nothing is under way, and data never takes the places the log      *)
(* keeps for commands.                                                     *)
SharedAccounted ==
    /\ focus = "ports" => S!Ports!PairsAccounted
    /\ focus = "peers" => S!Peers!PeersAgree
    /\ focus = "log" => S!Log!ControlHasRoom

(* Only a host key the user granted and did not withdraw is trusted, over  *)
(* late answers, failing writes, damaged files and restarts.               *)
TrustGranted == focus = "trust" => S!Trust!TrustIsGranted

(* No script runs longer than one entry may, however it nests protected    *)
(* calls and coroutines.                                                   *)
ScriptsBounded == focus = "script" => S!Script!EntryBounded

(* What is asked for happens: a command on the library answers, a log that *)
(* is started is answered, the batcher and a cancelled script end, batches *)
(* and saves of files end, the ports of an ended program are released, a   *)
(* peer that hung up is reported and a question about a host key is closed.*)
(* Clients of one kind are interchangeable in the modules: one of them     *)
(* stands for all.                                                         *)
Awaited ==
    \/ focus = "library" /\ S!Library!Awaited("c1")
    \/ focus = "log" /\ S!Log!Awaited
    \/ focus = "batcher" /\ Batcher!Awaited
    \/ focus = "sftp" /\ Sftp!Awaited
    \/ focus = "ports" /\ S!Ports!Awaited("g1")
    \/ focus = "peers" /\ S!Peers!Awaited("p1")
    \/ focus = "trust" /\ S!Trust!Awaited("c1")
    \/ focus = "script" /\ S!Script!Awaited
Reached ==
    \/ focus = "library" /\ S!Library!Reached("c1")
    \/ focus = "log" /\ S!Log!Reached
    \/ focus = "batcher" /\ Batcher!Reached
    \/ focus = "sftp" /\ Sftp!Reached
    \/ focus = "ports" /\ S!Ports!Reached("g1")
    \/ focus = "peers" /\ S!Peers!Reached("p1")
    \/ focus = "trust" /\ S!Trust!Reached("c1")
    \/ focus = "script" /\ S!Script!Reached

ServicesAnswer == Awaited ~> Reached
=============================================================================
