--------------------------- MODULE CompositionProofs ---------------------------
(***************************************************************************)
(* What the proofs about single components say of the compositions that    *)
(* the runs check (MCServices, MCProtocols and MCPlugins): a behaviour of  *)
(* a composition is one of its components and leaves the variables of the  *)
(* others alone, so an invariant of the component is one of the            *)
(* composition.  The constants are those of the components, not the values *)
(* a run gives them.                                                       *)
(***************************************************************************)
EXTENDS MCServices, MCProtocols, MCPlugins, TLAPS

-----------------------------------------------------------------------------
(* The services *)

(* Host trust is one of the services, and the invariant behind it is kept  *)
(* by every step of any of them.                                           *)
LEMMA TrustAmongServices ==
  ServicesSpec => [](focus = "trust" => S!TrustInv)
<1> DEFINE Inv == focus = "trust" => S!TrustInv
<1>1. ServicesInit => Inv
  BY S!TrustInit DEF ServicesInit
<1>2. Inv /\ [ServicesNext]_servicevars => Inv'
  <2> SUFFICES ASSUME Inv, [ServicesNext]_servicevars, focus' = "trust" PROVE S!TrustInv'
    OBVIOUS
  <2>1. focus = "trust"
    BY DEF ServicesNext, servicevars
  <2>2. [S!Trust!Next]_(S!Trust!htvars)
    BY <2>1 DEF ServicesNext, servicevars, rest4, S!Trust!htvars
  <2> QED BY <2>1, <2>2, S!TrustStep
<1> QED BY <1>1, <1>2, PTL DEF ServicesSpec

(* A host key is trusted only if the user granted it and has not withdrawn *)
(* it, for any number of connections, keys and faults (host_trust.rs).     *)
THEOREM TrustGrantedHolds == ServicesSpec => []TrustGranted
<1>1. S!TrustInv => S!Trust!TrustIsGranted
  BY S!TrustGrants
<1>2. (focus = "trust" => S!TrustInv) => TrustGranted
  BY <1>1 DEF TrustGranted
<1> QED BY <1>2, TrustAmongServices, PTL

(* So is the script engine.                                                *)
LEMMA ScriptAmongServices ==
  ASSUME S!Budgeted
  PROVE  ServicesSpec => [](focus = "script" => S!EntryInv)
<1> DEFINE Inv == focus = "script" => S!EntryInv
<1>1. ServicesInit => Inv
  BY S!EntryInit DEF ServicesInit
<1>2. Inv /\ [ServicesNext]_servicevars => Inv'
  <2> SUFFICES ASSUME Inv, [ServicesNext]_servicevars, focus' = "script" PROVE S!EntryInv'
    OBVIOUS
  <2>1. focus = "script"
    BY DEF ServicesNext, servicevars
  <2>2. [S!Script!Next]_(S!Script!sevars)
    BY <2>1 DEF ServicesNext, servicevars, rest4, S!Script!sevars
  <2> QED BY <2>1, <2>2, S!EntryStep
<1> QED BY <1>1, <1>2, PTL DEF ServicesSpec

(* No script runs longer than one entry may, for any positive budget and   *)
(* interval of the hook, any depth and any commands (ScriptExecution).     *)
THEOREM ScriptsBoundedHolds ==
  ASSUME S!Budgeted
  PROVE  ServicesSpec => []ScriptsBounded
<1>1. S!EntryInv => S!Script!EntryBounded
  BY S!EntryBoundedBy
<1>2. (focus = "script" => S!EntryInv) => ScriptsBounded
  BY <1>1 DEF ScriptsBounded
<1> QED BY <1>2, ScriptAmongServices, PTL

(* So are the log engine, the virtual ports and the peers of a session.    *)
LEMMA SharedAmongServices ==
  ASSUME S!LogLimits, S!OwnNames, S!PeerLimits
  PROVE  ServicesSpec => [](/\ focus = "log" => S!PlacesInv
                            /\ focus = "ports" => S!PairsInv
                            /\ focus = "peers" => S!PeersInv)
<1> DEFINE Inv == /\ focus = "log" => S!PlacesInv
                  /\ focus = "ports" => S!PairsInv
                  /\ focus = "peers" => S!PeersInv
<1>1. ServicesInit => Inv
  BY S!PlacesInit, S!PairsInit, S!WhereInit, S!LimitInit DEF ServicesInit, S!PeersInv
<1>2. Inv /\ [ServicesNext]_servicevars => Inv'
  <2> SUFFICES ASSUME Inv, [ServicesNext]_servicevars PROVE Inv'
    OBVIOUS
  <2>1. focus' = focus
    BY DEF ServicesNext, servicevars
  <2>2. CASE focus = "log"
    <3>1. [S!Log!Next]_(S!Log!lvars)
      BY <2>2 DEF ServicesNext, servicevars, rest4, S!Log!lvars
    <3> QED BY <2>1, <2>2, <3>1, S!PlacesStep
  <2>3. CASE focus = "ports"
    <3>1. [S!Ports!Next]_(S!Ports!vpvars)
      BY <2>3 DEF ServicesNext, servicevars, rest4, S!Ports!vpvars
    <3> QED BY <2>1, <2>3, <3>1, S!PairsStep
  <2>4. CASE focus = "peers"
    <3>1. [S!Peers!Next]_(S!Peers!npvars)
      BY <2>4 DEF ServicesNext, servicevars, rest4, S!Peers!npvars
    <3> QED BY <2>1, <2>4, <3>1, S!WhereStep, S!LimitStep DEF S!PeersInv
  <2> QED BY <2>1, <2>2, <2>3, <2>4
<1> QED BY <1>1, <1>2, PTL DEF ServicesSpec

(* What is shared is accounted for: no pair of virtual ports is forgotten, *)
(* the places that know a peer agree, and data leaves the commands of the  *)
(* log their places (virtual_port/manager.rs, plugins/network,             *)
(* log_engine).                                                            *)
THEOREM SharedAccountedHolds ==
  ASSUME S!LogLimits, S!OwnNames, S!PeerLimits
  PROVE  ServicesSpec => []SharedAccounted
<1>1. S!PlacesInv => S!Log!ControlHasRoom
  BY S!ControlHasRoomBy
<1>2. S!PairsInv => S!Ports!PairsAccounted
  BY S!PairsAccountedBy
<1>3. S!PeersInv => S!Peers!PeersAgree
  BY S!PeersAgreeBy
<1>4. /\ focus = "log" => S!PlacesInv
      /\ focus = "ports" => S!PairsInv
      /\ focus = "peers" => S!PeersInv
      => SharedAccounted
  BY <1>1, <1>2, <1>3 DEF SharedAccounted
<1> QED BY <1>4, SharedAmongServices, PTL

(* So are the session library, SFTP with the file editor, and the segments *)
(* of the logs.                                                            *)
LEMMA StoresAmongServices ==
  ASSUME S!NoneApart, S!LogLimits, S!LogNames, BatchFiles \in Nat
  PROVE  ServicesSpec => [](/\ focus = "library" => S!LibInv
                            /\ focus = "sftp" => Sftp!IInv
                            /\ focus = "log" => S!PlacesInv /\ S!SegmentsInv)
<1> DEFINE Inv == /\ focus = "library" => S!LibInv
                  /\ focus = "sftp" => Sftp!IInv
                  /\ focus = "log" => S!PlacesInv /\ S!SegmentsInv
<1>1. ServicesInit => Inv
  <2> SUFFICES ASSUME ServicesInit PROVE Inv
    OBVIOUS
  <2>1. focus = "library" => S!LibInv
    BY S!LibraryStarts DEF ServicesInit
  <2>2. focus = "sftp" => Sftp!IInv
    BY Sftp!SftpStarts DEF ServicesInit
  <2>3. focus = "log" => S!PlacesInv /\ S!SegmentsInv
    BY S!SegmentsInit DEF ServicesInit
  <2> QED BY <2>1, <2>2, <2>3
<1>2. Inv /\ [ServicesNext]_servicevars => Inv'
  <2> SUFFICES ASSUME Inv, [ServicesNext]_servicevars PROVE Inv'
    OBVIOUS
  <2>1. focus' = focus
    BY DEF ServicesNext, servicevars
  <2>2. CASE focus = "library"
    <3>1. [S!Library!Next]_(S!Library!slvars)
      BY <2>2 DEF ServicesNext, servicevars, rest4, S!Library!slvars
    <3> QED BY <2>1, <2>2, <3>1, S!LibrarySteps
  <2>3. CASE focus = "sftp"
    <3>1. [Sftp!Next]_(Sftp!sfvars)
      BY <2>3 DEF ServicesNext, servicevars, rest4, Sftp!sfvars
    <3> QED BY <2>1, <2>3, <3>1, Sftp!EveryStep
  <2>4. CASE focus = "log"
    <3>1. [S!Log!Next]_(S!Log!lvars)
      BY <2>4 DEF ServicesNext, servicevars, rest4, S!Log!lvars
    <3> QED BY <2>1, <2>4, <3>1, S!PlacesStep, S!SegmentsStep
  <2> QED BY <2>1, <2>2, <2>3, <2>4
<1> QED BY <1>1, <1>2, PTL DEF ServicesSpec

(* What is stored stays whole: a saved session and its secret, the files   *)
(* of a batch and of the editor, and the segments of a log, for any number *)
(* of sessions, commands, files, producers, segments and faults            *)
(* (session_store, ssh_file_service, log_engine).                          *)
THEOREM StoresIntactHolds ==
  ASSUME S!NoneApart, S!LogLimits, S!LogNames, BatchFiles \in Nat
  PROVE  ServicesSpec => []StoresIntact
<1>1. S!LibInv => S!Library!AllOrNothing
  BY S!LibraryPromises
<1>2. Sftp!IInv => Sftp!NothingLost /\ Sftp!WholeVersions /\ Sftp!CleanEnd
  BY Sftp!Promised
<1>3. S!SegmentsInv => S!Log!OpenSegmentsKept
  BY S!SegmentsKeep
<1>4. /\ focus = "library" => S!LibInv
      /\ focus = "sftp" => Sftp!IInv
      /\ focus = "log" => S!PlacesInv /\ S!SegmentsInv
      => StoresIntact
  BY <1>1, <1>2, <1>3 DEF StoresIntact
<1> QED BY <1>4, StoresAmongServices, PTL

-----------------------------------------------------------------------------
(* The file transfer protocols *)

(* XMODEM is one of the protocols: its invariant is kept by every step.    *)
LEMMA XmodemAmongProtocols ==
  ASSUME X!Bounded
  PROVE  ProtocolsSpec => [](protocol = "xmodem" => X!DeliveryInv)
<1> DEFINE Inv == protocol = "xmodem" => X!DeliveryInv
<1>1. ProtocolsInit => Inv
  BY X!DeliveryStart DEF ProtocolsInit
<1>2. Inv /\ [ProtocolsNext]_protocolvars => Inv'
  <2> SUFFICES ASSUME Inv, [ProtocolsNext]_protocolvars, protocol' = "xmodem" PROVE X!DeliveryInv'
    OBVIOUS
  <2>1. protocol = "xmodem" /\ [X!Next]_(X!xvars)
    BY DEF ProtocolsNext, protocolvars, SndStep, RcvStep, Fault, Cancel, X!Next, X!xvars
  <2> QED BY <2>1, X!DeliveryStep
<1> QED BY <1>1, <1>2, PTL DEF ProtocolsSpec

(* XMODEM implements ordered delivery whatever the line does: for a file   *)
(* of any length, any number of retries, and any number of faults that     *)
(* does not bring the block numbers round (xmodem_receive).                *)
THEOREM XmodemDeliversInOrderHolds ==
  ASSUME X!Bounded
  PROVE  ProtocolsSpec => XmodemDeliversInOrder
<1> DEFINE Inv == protocol = "xmodem" => X!DeliveryInv
           kept == IF protocol = "xmodem" THEN rcv.data ELSE <<>>
           said == IF protocol = "xmodem" THEN X!Verdict ELSE "running"
<1>1. ProtocolsInit => Delivery!Init
  <2> SUFFICES ASSUME ProtocolsInit PROVE Delivery!Init
    OBVIOUS
  <2>1. protocol = "xmodem" => X!Delivery!Init
    BY X!DeliveryStarts DEF ProtocolsInit
  <2> QED BY <2>1 DEF Delivery!Init, X!Delivery!Init
<1>2. Inv /\ [ProtocolsNext]_protocolvars => [Delivery!Next]_<<kept, said>>
  <2> SUFFICES ASSUME Inv, [ProtocolsNext]_protocolvars PROVE [Delivery!Next]_<<kept, said>>
    OBVIOUS
  <2>1. protocol' = protocol
    BY DEF ProtocolsNext, protocolvars, SndStep, RcvStep, Fault, Cancel
  <2>2. CASE protocol # "xmodem"
    BY <2>1, <2>2
  <2>3. CASE protocol = "xmodem"
    <3>1. [X!Next]_(X!xvars)
      BY <2>3 DEF ProtocolsNext, protocolvars, SndStep, RcvStep, Fault, Cancel, X!Next, X!xvars
    <3>2. [X!Delivery!Next]_<<rcv.data, X!Verdict>>
      BY <2>3, <3>1, X!DeliveryRefines
    <3> QED BY <2>1, <2>3, <3>2
         DEF Delivery!Next, Delivery!Store, Delivery!End, X!Delivery!Next, X!Delivery!Store,
             X!Delivery!End
  <2> QED BY <2>2, <2>3
<1> QED BY <1>1, <1>2, XmodemAmongProtocols, PTL DEF ProtocolsSpec, XmodemDeliversInOrder, Delivery!Spec

-----------------------------------------------------------------------------
(* The plugins *)

(* Modbus is one of the plugins.                                           *)
LEMMA ModbusAmongPlugins ==
  ASSUME P!WritesOnce
  PROVE  PluginsSpec => [](plugin = "modbus" => P!OutcomeInv)
<1> DEFINE Inv == plugin = "modbus" => P!OutcomeInv
<1>1. PluginsInit => Inv
  BY P!OutcomeInit DEF PluginsInit
<1>2. Inv /\ [PluginsNext]_pluginvars => Inv'
  <2> SUFFICES ASSUME Inv, [PluginsNext]_pluginvars, plugin' = "modbus" PROVE P!OutcomeInv'
    OBVIOUS
  <2>1. plugin = "modbus"
    BY DEF PluginsNext, pluginvars
  <2>2. [P!Modbus!Next]_(P!Modbus!mbvars)
    BY <2>1 DEF PluginsNext, pluginvars, others3, P!Modbus!mbvars
  <2> QED BY <2>1, <2>2, P!OutcomeStep
<1> QED BY <1>1, <1>2, PTL DEF PluginsSpec

(* What the user is told of a write over Modbus TCP is true, unless writes *)
(* are configured to be tried again (ModbusClient::execute).               *)
THEOREM OutcomeToldHolds ==
  ASSUME P!WritesOnce
  PROVE  PluginsSpec => []OutcomeTold
<1>1. P!OutcomeInv => P!Modbus!OutcomeTold
  BY P!OutcomeToldBy
<1>2. (plugin = "modbus" => P!OutcomeInv) => OutcomeTold
  BY <1>1 DEF OutcomeTold
<1> QED BY <1>2, ModbusAmongPlugins, PTL

(* What a save in place has left of the opened capture, at each of its     *)
(* steps: the original until the backup is let go of.                      *)
SaveInv ==
  /\ p6.at \in {"idle", "written", "failed", "restored"} => p6.destination = "original"
  /\ p6.at \in {"aside", "restoring", "stranded", "swapped"} => p6.backup = "original"
  /\ p6.at \in {"written", "aside"} => p6.temporary = "converted"
  /\ p6.at \in {"swapped", "saved"} => p6.destination = "converted"
  /\ p6 \in [at : {"idle", "written", "failed", "aside", "swapped", "restoring", "restored", "stranded", "saved"},
             destination : {"original", "converted", "none", "partial"},
             temporary : {"none", "converted", "partial"}, backup : {"original", "none"}]

(* Every step of a save, one that fails included.                          *)
LEMMA SaveKeeps ==
  ASSUME SaveInv, Capture!Saves
  PROVE  SaveInv'
BY DEF SaveInv, Capture!Saves, Capture!Convert, Capture!Replace, Capture!SaveStep, Capture!SetAside

(* The TFTP server, the channels, the probe, TRDP and a save are plugins.  *)
LEMMA OwnersAmongPlugins ==
  ASSUME P!ChannelIndices, P!NoneIsNothing, P!TrdpNames, Slots \in Nat
  PROVE  PluginsSpec => [](/\ plugin = "target" => P!ProbeInv
                           /\ plugin = "channels" => P!ChannelInv
                           /\ plugin = "trdp" => P!TrdpInv
                           /\ plugin = "save" => SaveInv
                           /\ plugin = "tftp" => P!ServerInv)
<1> DEFINE Inv == /\ plugin = "target" => P!ProbeInv
                  /\ plugin = "channels" => P!ChannelInv
                  /\ plugin = "trdp" => P!TrdpInv
                  /\ plugin = "save" => SaveInv
                  /\ plugin = "tftp" => P!ServerInv
<1>1. PluginsInit => Inv
  <2> SUFFICES ASSUME PluginsInit PROVE Inv
    OBVIOUS
  <2>1. plugin = "target" => P!ProbeInv
    BY P!ProbeInit DEF PluginsInit
  <2>2. plugin = "channels" => P!ChannelInv
    BY P!ChannelInit DEF PluginsInit
  <2>3. plugin = "trdp" => P!TrdpInv
    BY P!TrdpStarts DEF PluginsInit
  <2>4. plugin = "save" => SaveInv
    BY DEF PluginsInit, Capture!Init, SaveInv
  <2>5. plugin = "tftp" => P!ServerInv
    BY P!ServerInit DEF PluginsInit
  <2> QED BY <2>1, <2>2, <2>3, <2>4, <2>5
<1>2. Inv /\ [PluginsNext]_pluginvars => Inv'
  <2> SUFFICES ASSUME Inv, [PluginsNext]_pluginvars PROVE Inv'
    OBVIOUS
  <2>1. plugin' = plugin
    BY DEF PluginsNext, pluginvars
  <2>2. CASE plugin = "target"
    <3>1. [P!Target!Next]_(P!Target!dtvars)
      BY <2>2 DEF PluginsNext, pluginvars, others3, P!Target!dtvars
    <3> QED BY <2>1, <2>2, <3>1, P!ProbeStep
  <2>3. CASE plugin = "channels"
    <3>1. [P!Channels!Next]_(P!Channels!rcvars)
      BY <2>3 DEF PluginsNext, pluginvars, others3, P!Channels!rcvars
    <3> QED BY <2>1, <2>3, <3>1, P!ChannelStep
  <2>4. CASE plugin = "trdp"
    <3>1. [P!Trdp!Next]_(P!Trdp!tdvars)
      BY <2>4 DEF PluginsNext, pluginvars, others3, P!Trdp!tdvars
    <3> QED BY <2>1, <2>4, <3>1, P!TrdpStep
  <2>5. CASE plugin = "save"
    <3>1. Capture!Saves \/ p6' = p6
      BY <2>5 DEF PluginsNext, pluginvars, others3
    <3>2. p6' = p6 => SaveInv'
      BY <2>5 DEF SaveInv
    <3> QED BY <2>1, <2>5, <3>1, <3>2, SaveKeeps
  <2>6. CASE plugin = "tftp"
    <3>1. [P!Tftp!Next]_(P!Tftp!svars)
      BY <2>6 DEF PluginsNext, pluginvars, others3, P!Tftp!svars
    <3> QED BY <2>1, <2>6, <3>1, P!ServerStep
  <2> QED BY <2>1, <2>2, <2>3, <2>4, <2>5, <2>6
<1> QED BY <1>1, <1>2, PTL DEF PluginsSpec

(* What has one owner keeps one: the debug probe, the SystemView command   *)
(* channel, the captures and the bridge of a TRDP session, the file a      *)
(* capture is saved over and the places of the TFTP server, for any number *)
(* of channels, sessions, threads, bridges and commands (RttSharedTarget,  *)
(* systemview_controls, TrdpRuntime, trdp_save_capture, TftpServerInner).  *)
THEOREM OwnersHoldHolds ==
  ASSUME P!ChannelIndices, P!NoneIsNothing, P!TrdpNames, Slots \in Nat
  PROVE  PluginsSpec => []OwnersHold
<1>1. P!ProbeInv => P!Target!OneProbeOwner
  BY P!OneOwnerBy
<1>2. P!ChannelInv => P!Channels!ChannelsApart
  BY P!ChannelsApartBy
<1>3. P!TrdpInv => P!Trdp!CapturesReleased /\ P!Trdp!OpenIsUsable
  BY P!TrdpHoldsBy
<1>4. SaveInv => Capture!SourceSurvives
  BY DEF SaveInv, Capture!SourceSurvives
<1>5. P!ServerInv => P!Tftp!LimitHeld /\ P!Tftp!RunningHasListener
  BY P!ServerHoldsBy
<1>6. /\ plugin = "target" => P!ProbeInv
      /\ plugin = "channels" => P!ChannelInv
      /\ plugin = "trdp" => P!TrdpInv
      /\ plugin = "save" => SaveInv
      /\ plugin = "tftp" => P!ServerInv
      => OwnersHold
  BY <1>1, <1>2, <1>3, <1>4, <1>5 DEF OwnersHold
<1> QED BY <1>6, OwnersAmongPlugins, PTL

(* The four parts of iperf are plugins.                                    *)
LEMMA TestsAmongPlugins ==
  ASSUME P!NoneApart, P!TcpCounted, P!UdpCounted, P!RoundsCounted
  PROVE  PluginsSpec => [](/\ plugin = "iperf" => P!StatusInv
                           /\ plugin = "tcp server" => P!TcpInv
                           /\ plugin = "udp" => P!UdpInv
                           /\ plugin = "iperf3" => P!RoundsInv)
<1> DEFINE Inv == /\ plugin = "iperf" => P!StatusInv
                  /\ plugin = "tcp server" => P!TcpInv
                  /\ plugin = "udp" => P!UdpInv
                  /\ plugin = "iperf3" => P!RoundsInv
<1>1. PluginsInit => Inv
  BY P!IperfStarts, P!TcpStarts, P!UdpStarts, P!RoundsStarts DEF PluginsInit
<1>2. Inv /\ [PluginsNext]_pluginvars => Inv'
  <2> SUFFICES ASSUME Inv, [PluginsNext]_pluginvars PROVE Inv'
    OBVIOUS
  <2>1. plugin' = plugin
    BY DEF PluginsNext, pluginvars
  <2>2. CASE plugin = "iperf"
    <3>1. [P!Iperf!Next]_(P!Iperf!isvars)
      BY <2>2 DEF PluginsNext, pluginvars, others3, P!Iperf!isvars
    <3> QED BY <2>1, <2>2, <3>1, P!IperfStep
  <2>3. CASE plugin = "tcp server"
    <3>1. [P!Tcp!ServerNext]_(P!Tcp!itvars)
      BY <2>3 DEF PluginsNext, pluginvars, others3, P!Tcp!itvars
    <3>2. [P!Tcp!Next]_(P!Tcp!itvars)
      BY <3>1 DEF P!Tcp!Next
    <3> QED BY <2>1, <2>3, <3>2, P!TcpStep
  <2>4. CASE plugin = "udp"
    <3>1. [P!Udp!Next]_(P!Udp!iuvars)
      BY <2>4 DEF PluginsNext, pluginvars, others3, P!Udp!iuvars
    <3> QED BY <2>1, <2>4, <3>1, P!UdpStep
  <2>5. CASE plugin = "iperf3"
    <3>1. [P!Rounds!Next]_(P!Rounds!irvars)
      BY <2>5 DEF PluginsNext, pluginvars, others3, P!Rounds!irvars
    <3> QED BY <2>1, <2>5, <3>1, P!RoundsStep
  <2> QED BY <2>1, <2>2, <2>3, <2>4, <2>5
<1> QED BY <1>1, <1>2, PTL DEF PluginsSpec

(* What the front end is told of iperf is true, for any number of calls,   *)
(* servers, connections, datagrams and rounds: at rest the state it shows  *)
(* is the server's, a TCP test is reported once with what its connections  *)
(* carried, every UDP test started ends once and its losses add up, and    *)
(* the done event of a round is its last (spawn_iperf_server,              *)
(* build_tcp_finalize_payload, finalize_udp_client, iperf3 run_server).    *)
THEOREM TestsReportedHolds ==
  ASSUME P!NoneApart, P!TcpCounted, P!UdpCounted, P!RoundsCounted
  PROVE  PluginsSpec => []TestsReported
<1>1. P!StatusInv => P!Iperf!StatusAgrees
  BY P!StatusAgreesBy
<1>2. P!TcpInv => P!Tcp!TestsAccounted
  BY P!TestsAccountedBy
<1>3. P!UdpInv => P!Udp!TestsPaired /\ P!Udp!LossAccounted
  BY P!TestsPairedBy
<1>4. P!RoundsInv => P!Rounds!DoneIsLast
  BY P!DoneIsLastBy
<1>5. /\ plugin = "iperf" => P!StatusInv
      /\ plugin = "tcp server" => P!TcpInv
      /\ plugin = "udp" => P!UdpInv
      /\ plugin = "iperf3" => P!RoundsInv
      => TestsReported
  BY <1>1, <1>2, <1>3, <1>4 DEF TestsReported
<1> QED BY <1>5, TestsAmongPlugins, PTL

=============================================================================
