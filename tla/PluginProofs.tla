---------------------------- MODULE PluginProofs ----------------------------
(***************************************************************************)
(* Proofs about components of the plugins, each for every value of its     *)
(* constants: Modbus, the TFTP server, the RTT ring and its channels, the  *)
(* debug probe, TRDP and iperf.                                            *)
(***************************************************************************)
EXTENDS Integers, Sequences, FiniteSets, FiniteSetsExt, FiniteSetTheorems, SequenceTheorems,
        WellFoundedInduction, TLAPS

CONSTANTS Worker, ReadRetries, RetryWrites, MaxRequests, MaxStarts   \* of Modbus
VARIABLES mode, tx, tid, wire, replies, link, server, ran, done, watch, worker, main, down, starts
Modbus == INSTANCE Modbus

CONSTANTS Thread, MaxTransfers                                       \* of TftpServer
VARIABLES abort, running, thread, active, transfers, closed, overlapped
Tftp == INSTANCE TftpServer

CONSTANTS Sizes, Length, HostBuffer, MaxUpsets                       \* of RttRing
VARIABLES up, size, ring, wr, rd, sent, got, target, host, upsets, wild
Ring == INSTANCE RttRing

CONSTANTS Channel, Named, NoChannel                                  \* of RttChannels
VARIABLES readable, writable, source, send, claims, observers, control, suppressed, sync
Channels == INSTANCE RttChannels WITH up <- readable, down <- writable

CONSTANTS Session, Config, ProbeThread, ProbeQueue, ProbeOps, None   \* of DebugTarget
VARIABLES slot, mutex, wk, queue, shut, lease, ses
Target == INSTANCE DebugTarget WITH
    Worker <- ProbeThread, Capacity <- ProbeQueue, MaxOps <- ProbeOps, closed <- shut

CONSTANTS Caller, Connector, Bridges, Commands                       \* of TrdpRuntime
VARIABLES session, told, bridge, flags, child, locks, pending, asked, store, capture, ops, at, local
Trdp == INSTANCE TrdpRuntime WITH MaxStarts <- Bridges, MaxOps <- Commands

CONSTANTS Call, ServerThreads, Round                                 \* of IperfServer
VARIABLES rt, th, call, port, shown, rnd, client
Iperf == INSTANCE IperfServer WITH Thread <- ServerThreads

CONSTANTS Handler, MaxHandlers, Threads, MaxBytes, Stream            \* of Iperf2Tcp
VARIABLES hands, tcp, rev, ended, halt, st, sender
Tcp == INSTANCE Iperf2Tcp WITH
    h <- hands, s <- tcp, done <- ended, abort <- halt, main <- sender

CONSTANTS Peer, MaxSent, MaxFins, MaxReports, MaxLate                \* of Iperf2Udp
VARIABLES cl, net, back, clients, closing, seq, events, loop
Udp == INSTANCE Iperf2Udp

CONSTANTS MaxRounds, MaxIntervals                                    \* of Iperf3Rounds
VARIABLES turn, chan, emitted, barrier, tests
Rounds == INSTANCE Iperf3Rounds WITH main <- turn, q <- chan, abort <- halt

-----------------------------------------------------------------------------
(* The TFTP server *)

ServerTypes ==
  /\ abort \in BOOLEAN /\ running \in BOOLEAN /\ closed \in BOOLEAN /\ overlapped \in BOOLEAN
  /\ thread \in [Thread -> {"unused", "spawned", "passed", "listening", "accepting",
                            "leaving", "ended"}]
  /\ active \in Nat /\ transfers \in Nat

(* A listener that has seen room below the limit still finds it when it    *)
(* counts the transfer, because it is alone: between its load and its      *)
(* fetch_add the counter only goes down.                                   *)
ServerInv ==
  /\ ServerTypes
  /\ active = transfers
  /\ ~overlapped =>
       /\ \A t, u \in Tftp!Alive : t = u
       /\ active <= MaxTransfers
       /\ \A t \in Thread : thread[t] = "accepting" => active < MaxTransfers
  /\ Tftp!RunningHasListener

(* A listener thread that goes on to another state of its life adds no     *)
(* thread to the living ones.                                              *)
LEMMA GoesAlive ==
  ASSUME ServerTypes, NEW t \in Thread, t \in Tftp!Alive,
         NEW s \in {"passed", "listening", "accepting", "leaving", "ended"}, Tftp!Goes(t, s)
  PROVE  /\ thread' \in [Thread -> {"unused", "spawned", "passed", "listening", "accepting",
                                    "leaving", "ended"}]
         /\ thread'[t] = s /\ \A u \in Thread : u # t => thread'[u] = thread[u]
         /\ \A u \in Tftp!Alive' : u \in Tftp!Alive
BY DEF ServerTypes, Tftp!Goes, Tftp!Alive

(* Every step keeps the number of transfers within the permits.            *)
LEMMA ServerStep ==
  ASSUME MaxTransfers \in Nat, ServerInv, [Tftp!Next]_(Tftp!svars)
  PROVE  ServerInv'
<1>0. ServerTypes
  BY DEF ServerInv
<1>1. ASSUME NEW t \in Thread, Tftp!Start(t) PROVE ServerInv'
  <2>1. CASE running' = FALSE /\ UNCHANGED <<thread, overlapped>>
    <3>1. abort' = FALSE /\ UNCHANGED <<active, transfers, closed>>
      BY <1>1 DEF Tftp!Start
    <3> QED BY <2>1, <3>1 DEF ServerInv, ServerTypes, Tftp!Alive, Tftp!RunningHasListener
  <2>2. CASE thread' = [thread EXCEPT ![t] = "spawned"]
    <3>1. /\ ServerTypes' /\ UNCHANGED <<running, active, transfers, closed>>
          /\ ~running /\ overlapped' = (overlapped \/ Tftp!Alive # {})
      BY <1>1, <2>2 DEF Tftp!Start, ServerInv, ServerTypes
    <3>2. Tftp!Alive' = Tftp!Alive \cup {t} /\ \A u \in Thread : thread'[u] = "accepting" => thread[u] = "accepting"
      BY <1>0, <2>2 DEF Tftp!Alive, ServerTypes
    <3> QED BY <3>1, <3>2 DEF ServerInv, Tftp!RunningHasListener
  <2> QED BY <1>1, <2>1, <2>2 DEF Tftp!Start
<1>2. ASSUME Tftp!Stop PROVE ServerInv'
  BY <1>2 DEF Tftp!Stop, ServerInv, ServerTypes, Tftp!Alive, Tftp!RunningHasListener
<1>3. ASSUME Tftp!Shutdown PROVE ServerInv'
  BY <1>3 DEF Tftp!Shutdown, ServerInv, ServerTypes, Tftp!Alive, Tftp!RunningHasListener
<1>4. ASSUME Tftp!TransferEnds PROVE ServerInv'
  BY <1>4 DEF Tftp!TransferEnds, ServerInv, ServerTypes, Tftp!Alive, Tftp!RunningHasListener
<1>5. ASSUME NEW t \in Thread, Tftp!Begin(t) PROVE ServerInv'
  <2>1. /\ t \in Tftp!Alive /\ \E s \in {"passed", "ended"} : Tftp!Goes(t, s)
        /\ UNCHANGED <<abort, running, active, transfers, closed, overlapped>>
        /\ thread[t] = "spawned"
    BY <1>5 DEF Tftp!Begin, Tftp!Alive
  <2> QED BY <1>0, <2>1, GoesAlive DEF ServerInv, ServerTypes, Tftp!RunningHasListener
<1>6. ASSUME NEW t \in Thread, Tftp!Publish(t) PROVE ServerInv'
  <2>1. /\ t \in Tftp!Alive /\ Tftp!Goes(t, "listening") /\ running' = TRUE
        /\ UNCHANGED <<abort, active, transfers, closed, overlapped>>
    BY <1>6 DEF Tftp!Publish, Tftp!Alive
  <2> QED BY <1>0, <2>1, GoesAlive DEF ServerInv, ServerTypes, Tftp!RunningHasListener
<1>7. ASSUME NEW t \in Thread, Tftp!Listen(t) PROVE ServerInv'
  <2>1. /\ t \in Tftp!Alive /\ thread[t] = "listening"
        /\ UNCHANGED <<abort, running, active, transfers, closed, overlapped>>
    BY <1>7 DEF Tftp!Listen, Tftp!Alive
  <2>2. CASE Tftp!Goes(t, "leaving")
    BY <1>0, <2>1, <2>2, GoesAlive DEF ServerInv, ServerTypes, Tftp!RunningHasListener
  <2>3. CASE Tftp!BelowLimit /\ Tftp!Goes(t, "accepting")
    BY <1>0, <2>1, <2>3, GoesAlive DEF ServerInv, ServerTypes, Tftp!RunningHasListener, Tftp!BelowLimit
  <2> QED BY <1>7, <2>2, <2>3 DEF Tftp!Listen
<1>8. ASSUME NEW t \in Thread, Tftp!Accept(t) PROVE ServerInv'
  <2>1. /\ t \in Tftp!Alive /\ thread[t] = "accepting" /\ Tftp!Goes(t, "listening")
        /\ active' = active + 1 /\ transfers' = transfers + 1
        /\ UNCHANGED <<abort, running, closed, overlapped>>
    BY <1>8 DEF Tftp!Accept, Tftp!Alive
  <2>2. ServerTypes' /\ active' = transfers' /\ Tftp!RunningHasListener'
    BY <1>0, <2>1, GoesAlive DEF ServerInv, ServerTypes, Tftp!RunningHasListener
  <2>3. ASSUME ~overlapped' PROVE \A u \in Thread : thread'[u] # "accepting"
    <3>1. \A u \in Thread : u # t => thread[u] # "accepting"
      BY <2>1, <2>3 DEF ServerInv, Tftp!Alive
    <3> QED BY <1>0, <2>1, <3>1, GoesAlive
  <2> QED BY <1>0, <2>1, <2>2, <2>3, GoesAlive DEF ServerInv, ServerTypes
<1>9. ASSUME NEW t \in Thread, Tftp!Leave(t) PROVE ServerInv'
  <2>1. /\ t \in Tftp!Alive /\ Tftp!Goes(t, "ended") /\ running' = FALSE
        /\ UNCHANGED <<abort, active, transfers, closed, overlapped>>
    BY <1>9 DEF Tftp!Leave, Tftp!Alive
  <2> QED BY <1>0, <2>1, GoesAlive DEF ServerInv, ServerTypes, Tftp!RunningHasListener
<1>10. CASE UNCHANGED Tftp!svars
  BY <1>10 DEF Tftp!svars, ServerInv, ServerTypes, Tftp!Alive, Tftp!RunningHasListener
<1> QED
  BY <1>1, <1>2, <1>3, <1>4, <1>5, <1>6, <1>7, <1>8, <1>9, <1>10 DEF Tftp!Next, Tftp!Listener

(* A server that was never started has no listener and no transfer.        *)
LEMMA ServerInit ==
  ASSUME MaxTransfers \in Nat, Tftp!Init
  PROVE  ServerInv
<1>1. ServerTypes /\ active = transfers /\ running = FALSE
  BY DEF Tftp!Init, ServerTypes
<1>2. \A t \in Thread : thread[t] = "unused"
  BY DEF Tftp!Init
<1>3. active <= MaxTransfers
  BY DEF Tftp!Init
<1> QED BY <1>1, <1>2, <1>3 DEF ServerInv, Tftp!Alive, Tftp!RunningHasListener

(* What the invariant says of the transfers and the listener.              *)
LEMMA ServerHoldsBy == ServerInv => Tftp!LimitHeld /\ Tftp!RunningHasListener
BY DEF ServerInv, Tftp!LimitHeld

(* As long as no start was accepted over a living listener, the server     *)
(* runs at most MAX_CONCURRENT_SERVER_TRANSFERS transfers, and its counter *)
(* is their number; and a status query never reports a running server      *)
(* without a listener, however starts and stops overlap (server.rs).       *)
THEOREM ServerHolds ==
  ASSUME MaxTransfers \in Nat
  PROVE  Tftp!Spec => [](Tftp!LimitHeld /\ Tftp!RunningHasListener)
<1>1. Tftp!Init => ServerInv
  BY ServerInit
<1>2. ServerInv /\ [Tftp!Next]_(Tftp!svars) => ServerInv'
  BY ServerStep
<1>3. ServerInv => Tftp!LimitHeld /\ Tftp!RunningHasListener
  BY ServerHoldsBy
<1> QED BY <1>1, <1>2, <1>3, PTL DEF Tftp!Spec

-----------------------------------------------------------------------------
(* The RTT ring *)

(* The constants: finitely many sizes have a largest.                      *)
RingBounded ==
  /\ Sizes \subseteq Nat /\ (\E m \in Sizes : \A s \in Sizes : m >= s)
  /\ Length \in Nat /\ HostBuffer \in Nat

Host == [pc : {"idle", "copy", "commit", "failed"}, w : Nat, r : Nat, part : Seq(Nat), last : Nat]

RingTypes ==
  /\ up \in BOOLEAN /\ size \in Sizes /\ size >= 2
  /\ ring \in [0..(Max(Sizes) - 1) -> Nat]
  /\ wr \in Nat /\ rd \in Nat /\ sent \in Nat
  /\ host \in Host

(* The host works on its own copy of the offsets, which it checked against *)
(* the size, and no turn of its loops leads out of the buffer.             *)
InsideInv ==
  /\ RingTypes
  /\ host.pc = "copy" => host.w < size /\ host.r < size
  /\ ~up /\ host.pc = "copy" => Len(host.part) <= HostBuffer /\ Len(host.part) <= Length - sent
  /\ ~wild

(* There is a largest ring, of a size the target may report.               *)
LEMMA LargestSize ==
  ASSUME RingBounded
  PROVE  Max(Sizes) \in Nat /\ \A s \in Sizes : s <= Max(Sizes)
<1>1. Max(Sizes) \in Sizes /\ \A s \in Sizes : Max(Sizes) >= s
  BY DEF RingBounded, Max
<1> QED BY <1>1 DEF RingBounded

(* The offset after n more bytes that fit is inside again.                 *)
LEMMA AfterInside ==
  ASSUME NEW o \in Nat, NEW n \in Nat, size \in Nat, size >= 2
  PROVE  Ring!After(o, n) \in Nat /\ Ring!After(o, n) < size
BY DEF Ring!After

(* What one turn of read_up copies.                                        *)
LEMMA UpCount ==
  ASSUME RingBounded, InsideInv, host.pc = "copy", Len(host.part) < HostBuffer, host.r # host.w,
         NEW available, available = IF host.r < host.w THEN host.w - host.r ELSE size - host.r,
         NEW count, count = Ring!Least(available, HostBuffer - Len(host.part))
  PROVE  /\ count \in Nat /\ host.r + count <= size
         /\ [i \in 1..count |-> ring[host.r + i - 1]] \in Seq(Nat)
<1>1. /\ host.r \in Nat /\ host.w \in Nat /\ host.r < size /\ host.w < size /\ size \in Nat
      /\ Len(host.part) \in Nat /\ HostBuffer \in Nat
  BY LenProperties DEF InsideInv, RingTypes, Host, RingBounded
<1>2. count \in Nat /\ host.r + count <= size
  BY <1>1 DEF Ring!Least
<1>3. size <= Max(Sizes) /\ Max(Sizes) \in Nat
  BY LargestSize DEF InsideInv, RingTypes
<1>4. \A i \in 1..count : host.r + i - 1 \in 0..(Max(Sizes) - 1)
  BY SMTT(30), <1>1, <1>2, <1>3
<1>5. \A i \in 1..count : ring[host.r + i - 1] \in Nat
  BY <1>4 DEF InsideInv, RingTypes
<1> QED BY <1>2, <1>5

(* What one turn of write_down copies.                                     *)
LEMMA DownCount ==
  ASSUME RingBounded, InsideInv, ~up, host.pc = "copy",
         NEW count,
         count = Ring!Least(Ring!Room(host.w, host.r), Ring!Least(HostBuffer, Length - sent) - Len(host.part))
  PROVE  /\ count \in Nat /\ host.w + count <= size
         /\ Len(host.part) + count <= HostBuffer /\ Len(host.part) + count <= Length - sent
         /\ [i \in 1..count |-> sent + Len(host.part) + i] \in Seq(Nat)
<1>1. /\ host.r \in Nat /\ host.w \in Nat /\ host.r < size /\ host.w < size /\ size \in Nat
      /\ Len(host.part) \in Nat /\ HostBuffer \in Nat /\ Length \in Nat /\ sent \in Nat
      /\ Len(host.part) <= HostBuffer /\ Len(host.part) <= Length - sent
  BY LenProperties DEF InsideInv, RingTypes, Host, RingBounded
<1>2. /\ Ring!Room(host.w, host.r) \in Nat /\ host.w + Ring!Room(host.w, host.r) <= size
  BY SMTT(30), <1>1 DEF Ring!Room
<1>3. /\ count \in Nat /\ host.w + count <= size
      /\ Len(host.part) + count <= HostBuffer /\ Len(host.part) + count <= Length - sent
  <2> DEFINE room == Ring!Room(host.w, host.r)
             most == Ring!Least(HostBuffer, Length - sent)
             have == Len(host.part)
  <2>1. most \in Int /\ have <= most /\ most <= HostBuffer /\ most <= Length - sent
    BY <1>1 DEF Ring!Least
  <2>2. /\ room \in Nat /\ host.w + room <= size /\ count = Ring!Least(room, most - have)
        /\ have \in Nat /\ host.w \in Nat /\ size \in Nat /\ HostBuffer \in Nat
        /\ Length - sent \in Int
    BY <1>1, <1>2
  <2> HIDE DEF room, most, have
  <2>3. /\ count \in Nat /\ host.w + count <= size
        /\ have + count <= HostBuffer /\ have + count <= Length - sent
    BY SMTT(30), <2>1, <2>2 DEF Ring!Least
  <2> QED BY <2>3 DEF have
<1>4. \A i \in 1..count : sent + Len(host.part) + i \in Nat
  BY <1>1, <1>3
<1> QED BY <1>3, <1>4

(* Every step keeps the offsets inside the ring.                           *)
LEMMA InsideStep ==
  ASSUME RingBounded, InsideInv, [Ring!Next]_(Ring!rgvars)
  PROVE  InsideInv'
<1>0. /\ RingTypes /\ size \in Nat /\ Sizes \subseteq Nat /\ Length \in Nat /\ HostBuffer \in Nat
      /\ host.w \in Nat /\ host.r \in Nat /\ host.last \in Nat /\ host.part \in Seq(Nat)
      /\ <<>> \in Seq(Nat) /\ Len(<<>>) = 0
  BY EmptySeq DEF InsideInv, RingTypes, RingBounded, Host
<1>1. \A n \in Nat : Ring!Idle(n) \in Host /\ Ring!Idle(n).pc = "idle"
  BY <1>0 DEF Ring!Idle, Host
<1>2. ASSUME Ring!TargetPut \/ Ring!TargetPublish PROVE InsideInv'
  <2>1. up /\ UNCHANGED <<up, size, rd, host, wild>>
    BY <1>2 DEF Ring!TargetPut, Ring!TargetPublish
  <2>2. ring' \in [0..(Max(Sizes) - 1) -> Nat] /\ wr' \in Nat /\ sent' \in Nat
    BY <1>0, <1>2 DEF Ring!TargetPut, Ring!TargetPublish, RingTypes, Ring!After
  <2> QED BY <1>0, <2>1, <2>2 DEF InsideInv, RingTypes
<1>3. ASSUME Ring!TargetTake PROVE InsideInv'
  <2>1. rd' \in Nat /\ UNCHANGED <<up, size, ring, wr, sent, host, wild>>
    BY <1>0, <1>3 DEF Ring!TargetTake, RingTypes, Ring!After
  <2> QED BY <1>0, <2>1 DEF InsideInv, RingTypes
<1>4. ASSUME Ring!Upset PROVE InsideInv'
  <2>1. wr' \in Nat /\ rd' \in Nat /\ UNCHANGED <<up, size, ring, sent, host, wild>>
    BY <1>0, <1>4 DEF Ring!Upset
  <2> QED BY <1>0, <2>1 DEF InsideInv, RingTypes
<1>5. ASSUME Ring!ReadOffsets PROVE InsideInv'
  <2>1. UNCHANGED <<up, size, ring, wr, rd, sent, wild>> /\ (up \/ sent < Length)
    BY <1>5 DEF Ring!ReadOffsets
  <2>2. CASE host' = [host EXCEPT !.pc = "failed"]
    <3>1. host' \in Host /\ host'.pc = "failed"
      BY <1>0, <2>2 DEF RingTypes, Host
    <3> QED BY <1>0, <2>1, <3>1 DEF InsideInv, RingTypes
  <2>3. CASE /\ host' = [host EXCEPT !.pc = "copy", !.w = wr, !.r = rd, !.part = <<>>]
             /\ ~(wr >= size \/ rd >= size)
    <3>1. host' \in Host /\ host'.w = wr /\ host'.r = rd /\ host'.part = <<>>
      BY <1>0, <2>3 DEF RingTypes, Host
    <3>2. wr < size /\ rd < size
      BY <1>0, <2>3 DEF RingTypes
    <3>3. ~up => Len(host'.part) <= HostBuffer /\ Len(host'.part) <= Length - sent
      BY <1>0, <2>1, <3>1 DEF RingTypes
    <3> QED BY <1>0, <2>1, <3>1, <3>2, <3>3 DEF InsideInv, RingTypes
  <2> QED BY <1>5, <2>2, <2>3 DEF Ring!ReadOffsets
<1>6. ASSUME Ring!CopyUp PROVE InsideInv'
  <2>1. up /\ host.pc = "copy" /\ UNCHANGED <<up, size, ring, wr, rd, sent>>
    BY <1>6 DEF Ring!CopyUp
  <2>2. CASE host' = [host EXCEPT !.pc = "commit"] /\ UNCHANGED wild
    <3>1. host' \in Host /\ host'.pc = "commit"
      BY <1>0, <2>2 DEF RingTypes, Host
    <3> QED BY <1>0, <2>1, <2>2, <3>1 DEF InsideInv, RingTypes
  <2>3. CASE ~(Len(host.part) >= HostBuffer \/ host.r = host.w)
    <3> DEFINE available == IF host.r < host.w THEN host.w - host.r ELSE size - host.r
               count == Ring!Least(available, HostBuffer - Len(host.part))
               piece == [i \in 1..count |-> ring[host.r + i - 1]]
    <3>1. Len(host.part) \in Nat /\ Len(host.part) < HostBuffer
      BY <1>0, <2>3, LenProperties
    <3>2. count \in Nat /\ host.r + count <= size /\ piece \in Seq(Nat)
      BY <2>1, <2>3, <3>1, UpCount
    <3>3. /\ host' = [host EXCEPT !.part = @ \o piece, !.r = Ring!After(@, count)]
          /\ wild' = (wild \/ ~Ring!Inside(host.r, count))
      BY <1>6, <2>3 DEF Ring!CopyUp
    <3> HIDE DEF available, count, piece
    <3>4. Ring!After(host.r, count) \in Nat /\ Ring!After(host.r, count) < size
      BY <1>0, <3>2, AfterInside DEF RingTypes
    <3>5. host.part \o piece \in Seq(Nat)
      BY <1>0, <3>2, ConcatProperties
    <3>6. host' \in Host /\ host'.w = host.w /\ host'.r = Ring!After(host.r, count)
      BY <1>0, <3>3, <3>4, <3>5 DEF RingTypes, Host
    <3>7. ~wild'
      BY <3>2, <3>3 DEF Ring!Inside, InsideInv
    <3> QED BY <1>0, <2>1, <3>4, <3>6, <3>7 DEF InsideInv, RingTypes
  <2> QED BY <1>6, <2>2, <2>3 DEF Ring!CopyUp
<1>7. ASSUME Ring!CommitUp PROVE InsideInv'
  <2>1. /\ host' = Ring!Idle(host.r) /\ UNCHANGED <<up, size, ring, wr, sent, wild>>
        /\ rd' = IF host.part # <<>> THEN host.r ELSE rd
    BY <1>7 DEF Ring!CommitUp
  <2> QED BY <1>0, <1>1, <2>1 DEF InsideInv, RingTypes
<1>8. ASSUME Ring!CopyDown PROVE InsideInv'
  <2>1. ~up /\ host.pc = "copy" /\ UNCHANGED <<up, size, wr, rd, sent>>
    BY <1>8 DEF Ring!CopyDown
  <2> DEFINE count == Ring!Least(Ring!Room(host.w, host.r), Ring!Least(HostBuffer, Length - sent) - Len(host.part))
             piece == [i \in 1..count |-> sent + Len(host.part) + i]
  <2>2. CASE host' = [host EXCEPT !.pc = "commit"] /\ UNCHANGED <<ring, wild>>
    <3>1. host' \in Host /\ host'.pc = "commit"
      BY <1>0, <2>2 DEF RingTypes, Host
    <3> QED BY <1>0, <2>1, <2>2, <3>1 DEF InsideInv, RingTypes
  <2>3. CASE count # 0
    <3>1. /\ count \in Nat /\ host.w + count <= size
          /\ Len(host.part) + count <= HostBuffer /\ Len(host.part) + count <= Length - sent
          /\ piece \in Seq(Nat)
      BY <2>1, DownCount
    <3>2. /\ host' = [host EXCEPT !.part = @ \o piece, !.w = Ring!After(@, count)]
          /\ wild' = (wild \/ ~Ring!Inside(host.w, count))
          /\ ring' = [i \in DOMAIN ring |-> IF i >= host.w /\ i < host.w + count
                                            THEN sent + Len(host.part) + (i - host.w) + 1
                                            ELSE ring[i]]
      BY <1>8, <2>3 DEF Ring!CopyDown
    <3>3. Len(piece) = count
      BY <3>1, LenProperties
    <3> HIDE DEF count, piece
    <3>4. Ring!After(host.w, count) \in Nat /\ Ring!After(host.w, count) < size
      BY <1>0, <3>1, AfterInside DEF RingTypes
    <3>5. host.part \o piece \in Seq(Nat) /\ Len(host.part \o piece) = Len(host.part) + count
      BY <1>0, <3>1, <3>3, ConcatProperties
    <3>6. /\ host' \in Host /\ host'.r = host.r /\ host'.w = Ring!After(host.w, count)
          /\ host'.part = host.part \o piece
      BY <1>0, <3>2, <3>4, <3>5 DEF RingTypes, Host
    <3>7. ring' \in [0..(Max(Sizes) - 1) -> Nat]
      <4>1. Max(Sizes) \in Nat /\ sent \in Nat /\ Len(host.part) \in Nat
        BY <1>0, LargestSize, LenProperties DEF RingTypes
      <4>2. DOMAIN ring = 0..(Max(Sizes) - 1) /\ \A i \in DOMAIN ring : i \in Nat /\ ring[i] \in Nat
        BY <1>0, <4>1 DEF RingTypes
      <4>3. \A i \in DOMAIN ring : i >= host.w => sent + Len(host.part) + (i - host.w) + 1 \in Nat
        BY SMTT(30), <1>0, <4>1, <4>2
      <4> QED BY <3>2, <4>2, <4>3
    <3>8. ~wild'
      BY <3>1, <3>2 DEF Ring!Inside, InsideInv
    <3> QED BY <1>0, <2>1, <2>3, <3>1, <3>4, <3>5, <3>6, <3>7, <3>8 DEF InsideInv, RingTypes
  <2> QED BY <1>8, <2>2, <2>3 DEF Ring!CopyDown
<1>9. ASSUME Ring!CommitDown PROVE InsideInv'
  <2>1. /\ host' = Ring!Idle(Ring!Unknown) /\ UNCHANGED <<up, size, ring, rd, wild>>
        /\ wr' = host.w /\ sent' = sent + Len(host.part)
    BY <1>9 DEF Ring!CommitDown
  <2>2. Len(host.part) \in Nat /\ Ring!Unknown \in Nat
    BY <1>0, LenProperties DEF Ring!Unknown
  <2>3. host' \in Host /\ host'.pc = "idle"
    BY <1>1, <2>1, <2>2
  <2>4. wr' \in Nat /\ sent' \in Nat
    BY <1>0, <2>1, <2>2 DEF RingTypes
  <2> QED BY <1>0, <2>1, <2>3, <2>4 DEF InsideInv, RingTypes
<1>10. CASE UNCHANGED Ring!rgvars
  BY <1>10 DEF Ring!rgvars, InsideInv, RingTypes
<1> QED BY <1>2, <1>3, <1>4, <1>5, <1>6, <1>7, <1>8, <1>9, <1>10 DEF Ring!Next

(* Whatever stands in the descriptor, and whoever writes it while the host *)
(* works, the host reads and writes nothing outside the buffer (read_up    *)
(* and write_down of probe_rs.rs).                                         *)
THEOREM HostStaysInside ==
  ASSUME RingBounded
  PROVE  Ring!Spec => []~wild
<1>1. Ring!Init => InsideInv
  <2> SUFFICES ASSUME Ring!Init PROVE InsideInv
    OBVIOUS
  <2>1. Max(Sizes) \in Nat /\ <<>> \in Seq(Nat) /\ Ring!Unknown \in Nat
    BY LargestSize, EmptySeq DEF Ring!Unknown
  <2>2. host \in Host /\ host.pc = "idle"
    BY <2>1 DEF Ring!Init, Ring!Idle, Host
  <2>3. wr \in Nat /\ rd = wr /\ sent = 0 /\ size \in Sizes /\ size >= 2 /\ up \in BOOLEAN /\ ~wild
    BY <2>1 DEF Ring!Init, Ring!Usable
  <2>4. ring = [i \in 0..(Max(Sizes) - 1) |-> 0]
    BY DEF Ring!Init, Ring!Max, Max
  <2>5. ring \in [0..(Max(Sizes) - 1) -> Nat]
    BY <2>4
  <2> QED BY <2>2, <2>3, <2>5 DEF InsideInv, RingTypes
<1>2. InsideInv /\ [Ring!Next]_(Ring!rgvars) => InsideInv'
  BY InsideStep
<1>3. InsideInv => ~wild
  BY DEF InsideInv
<1> QED BY <1>1, <1>2, <1>3, PTL DEF Ring!Spec

-----------------------------------------------------------------------------
(* Modbus *)

Request == [tid : Nat, write : BOOLEAN]
Answer == [tid : Nat, kind : {"closed", "success", "exception"}]
Transaction == [by : Worker \cup {Modbus!None, Modbus!Main}, write : BOOLEAN, attempt : Nat,
                sent : SUBSET Nat, pc : {"idle", "start", "wait", "raw"}]
LineTypes ==
  /\ tid \in Nat /\ tid >= 1
  /\ wire \in Seq(Request) /\ replies \in Seq(Answer) /\ tx \in Transaction

(* Requests carry identifiers of their own (0 stands for a raw one, which  *)
(* is no write), and one still under way has not been executed.            *)
WireHolds ==
  /\ \A i \in 1..Len(wire) : wire[i].tid < tid /\ (wire[i].tid = 0 => ~wire[i].write)
  /\ \A i, j \in 1..Len(wire) : wire[i].tid # 0 /\ wire[i].tid = wire[j].tid => i = j
  /\ \A r \in ran : r \in Nat /\ 0 < r /\ r < tid
  /\ \A i \in 1..Len(wire) : wire[i].tid \notin ran
(* A request that was answered is not under way any more, and an exception *)
(* answers one that was not executed.                                      *)
AnswersHold ==
  \A j \in 1..Len(replies) :
      /\ replies[j].tid < tid
      /\ \A i \in 1..Len(wire) : wire[i].tid # 0 => wire[i].tid # replies[j].tid
      /\ replies[j].kind = "exception" => replies[j].tid \notin ran
(* A write is sent once, as the latest request of all, and a success that  *)
(* answers it was executed.                                                *)
WriteHolds ==
  tx.write =>
    /\ tx.attempt = 0 /\ tx.pc \in {"start", "wait"}
    /\ tx.pc = "start" => tx.sent = {}
    /\ tx.pc = "wait" =>
         /\ tid > 1 /\ tx.sent = {tid - 1}
         /\ \A i \in 1..Len(wire) : wire[i].tid = tid - 1 => wire[i].write
         /\ \A j \in 1..Len(replies) :
              replies[j].tid = tid - 1 /\ replies[j].kind = "success" => tid - 1 \in ran
Told(d) ==
  /\ d.status = "success" => d.sent \cap ran # {}
  /\ d.status # "success" /\ ~d.unknown =>
       d.sent \cap ran = {} /\ \A i \in 1..Len(wire) : wire[i].tid \notin d.sent
DoneHolds ==
  \A d \in done : /\ \A t \in d.sent : t \in Nat /\ 0 < t /\ t < tid
                  /\ d.sent = {} \/ \E t \in d.sent : d.sent = {t}
                  /\ mode = "tcp" => Told(d)
OutcomeInv == LineTypes /\ WireHolds /\ AnswersHold /\ WriteHolds /\ DoneHolds

(* Writes are not configured to be tried again (retry_writes, by default). *)
WritesOnce == RetryWrites = FALSE /\ ReadRetries \in Nat

(* What is left of a sequence without its head.                            *)
LEMMA TailElements ==
  ASSUME NEW S, NEW s \in Seq(S), s # <<>>
  PROVE  /\ Tail(s) \in Seq(S) /\ Len(Tail(s)) = Len(s) - 1 /\ Len(s) \in Nat /\ Len(s) >= 1
         /\ Head(s) = s[1] /\ s[1] \in S
         /\ \A i \in 1..Len(Tail(s)) : i + 1 \in 1..Len(s) /\ Tail(s)[i] = s[i + 1]
<1>1. Len(s) \in Nat /\ Len(s) >= 1
  BY EmptySeq, LenProperties
<1>2. Head(s) = s[1] /\ Head(s) \in S /\ Tail(s) \in Seq(S) /\ Len(Tail(s)) = Len(s) - 1
  BY HeadTailProperties
<1>3. \A i \in 1..Len(Tail(s)) : Tail(s)[i] = s[i + 1]
  BY HeadTailProperties
<1> QED BY <1>1, <1>2, <1>3

(* And with one more element at its end.                                   *)
LEMMA AppendElements ==
  ASSUME NEW S, NEW s \in Seq(S), NEW e \in S
  PROVE  /\ Append(s, e) \in Seq(S) /\ Len(Append(s, e)) = Len(s) + 1 /\ Len(s) \in Nat
         /\ \A i \in 1..Len(s) : Append(s, e)[i] = s[i]
         /\ Append(s, e)[Len(s) + 1] = e
BY AppendProperties, LenProperties

(* The answers are dealt with one by one, from the first on.               *)
AnswersShrink == replies' = replies \/ (replies # <<>> /\ replies' = Tail(replies))

(* Consuming an answer, and identifiers that are never used, disturb       *)
(* nothing that is known of the line.                                      *)
LEMMA AnswersLeft ==
  ASSUME LineTypes, WireHolds, AnswersHold, AnswersShrink,
         UNCHANGED <<wire, ran>>, tid' \in {tid, tid + 1}
  PROVE  /\ tid' \in Nat /\ tid' >= 1 /\ wire' \in Seq(Request) /\ replies' \in Seq(Answer)
         /\ WireHolds' /\ AnswersHold'
         /\ \A j \in 1..Len(replies') : \E k \in 1..Len(replies) : replies'[j] = replies[k]
<1>1. \A i \in 1..Len(wire) : wire[i] \in Request
  BY ElementOfSeq DEF LineTypes
<1>2. \A i \in 1..Len(replies) : replies[i] \in Answer
  BY ElementOfSeq DEF LineTypes
<1>3. replies' \in Seq(Answer) /\ \A j \in 1..Len(replies') : \E k \in 1..Len(replies) : replies'[j] = replies[k]
  <2>1. CASE replies' = replies
    BY <2>1 DEF LineTypes
  <2>2. CASE replies # <<>> /\ replies' = Tail(replies)
    <3>1. /\ Tail(replies) \in Seq(Answer)
          /\ \A i \in 1..Len(Tail(replies)) : i + 1 \in 1..Len(replies) /\ Tail(replies)[i] = replies[i + 1]
      BY <2>2, TailElements DEF LineTypes
    <3> QED BY <2>2, <3>1
  <2> QED BY <2>1, <2>2 DEF AnswersShrink
<1>4. tid' \in Nat /\ tid' >= 1 /\ tid' >= tid /\ wire' \in Seq(Request)
  BY DEF LineTypes
<1>5. WireHolds'
  BY <1>1, <1>4 DEF WireHolds, LineTypes, Request
<1>6. AnswersHold'
  <2> SUFFICES ASSUME NEW j \in 1..Len(replies')
               PROVE  /\ replies'[j].tid < tid'
                      /\ \A i \in 1..Len(wire') : wire'[i].tid # 0 => wire'[i].tid # replies'[j].tid
                      /\ replies'[j].kind = "exception" => replies'[j].tid \notin ran'
    BY DEF AnswersHold
  <2>1. PICK k \in 1..Len(replies) : replies'[j] = replies[k]
    BY <1>3
  <2>2. replies[k].tid \in Nat /\ replies[k].tid < tid
    BY <1>2 DEF AnswersHold, Answer
  <2> QED BY <1>4, <2>1, <2>2 DEF AnswersHold, LineTypes
<1> QED BY <1>3, <1>4, <1>5, <1>6

(* A transaction that ends leaves one more outcome, of a write.            *)
LEMMA FinishKeeps ==
  ASSUME WritesOnce, OutcomeInv, NEW status, NEW unknown, Modbus!Finish(status, unknown),
         UNCHANGED <<mode, wire, ran>>, tid' \in {tid, tid + 1}, AnswersShrink,
         tx.write /\ mode = "tcp" =>
             Told([sent |-> tx.sent, status |-> status, unknown |-> unknown])
  PROVE  OutcomeInv'
<1> DEFINE new == [sent |-> tx.sent, status |-> status, unknown |-> unknown]
<1>1. LineTypes /\ WireHolds /\ AnswersHold /\ WriteHolds /\ DoneHolds
  BY DEF OutcomeInv
<1>2. /\ tid' \in Nat /\ tid' >= 1 /\ wire' \in Seq(Request) /\ replies' \in Seq(Answer)
      /\ WireHolds' /\ AnswersHold' /\ tid \in Nat /\ tid <= tid'
  BY <1>1, AnswersLeft DEF LineTypes
<1>3. tx' \in Transaction /\ ~tx'.write
  BY DEF Modbus!Finish, Modbus!Quiet, Transaction
<1>4. \A d \in done' : d \in done \/ (tx.write /\ d = new)
  BY DEF Modbus!Finish
<1>5. tx.write => /\ \A t \in tx.sent : t \in Nat /\ 0 < t /\ t < tid
                  /\ tx.sent = {} \/ \E t \in tx.sent : tx.sent = {t}
  BY <1>1 DEF WriteHolds, LineTypes
<1>6. \A d : Told(d)' <=> Told(d)
  BY DEF Told
<1>7. DoneHolds'
  <2> SUFFICES ASSUME NEW d \in done'
               PROVE  /\ \A t \in d.sent : t \in Nat /\ 0 < t /\ t < tid'
                      /\ d.sent = {} \/ \E t \in d.sent : d.sent = {t}
                      /\ mode' = "tcp" => Told(d)'
    BY DEF DoneHolds
  <2>1. CASE d \in done
    BY <1>1, <1>2, <1>6, <2>1 DEF DoneHolds
  <2>2. CASE tx.write /\ d = new
    <3>1. d.sent = tx.sent
      BY <2>2
    <3>2. mode' = "tcp" => Told(d)'
      BY <1>6, <2>2
    <3> QED BY <1>2, <1>5, <2>2, <3>1, <3>2
  <2> QED BY <1>4, <2>1, <2>2
<1> QED BY <1>2, <1>3, <1>7 DEF OutcomeInv, LineTypes, WriteHolds

(* A timeout or a transport error ends a write with "outcome unknown".     *)
LEMMA FailureKeeps ==
  ASSUME WritesOnce, OutcomeInv, NEW status, status # "success",
         Modbus!FailOrRetry(status, tx.write),
         UNCHANGED <<mode, wire, ran>>, tid' \in {tid, tid + 1}, AnswersShrink
  PROVE  OutcomeInv'
<1>1. LineTypes /\ WireHolds /\ AnswersHold /\ WriteHolds /\ DoneHolds
  BY DEF OutcomeInv
<1>2. CASE tx.attempt < Modbus!Retries
  <2>1. ~tx.write
    BY <1>1, <1>2 DEF WriteHolds, Modbus!Retries, WritesOnce
  <2>2. tx \in Transaction
    BY <1>1 DEF LineTypes
  <2> DEFINE more == [tx EXCEPT !.attempt = tx.attempt + 1]
             again == [more EXCEPT !.pc = "start"]
  <2>3. tx' = again /\ done' = done
    <3>1. tx.attempt < Modbus!Retries
      BY <1>2
    <3>2. IF tx.attempt < Modbus!Retries THEN tx' = again /\ done' = done ELSE Modbus!Finish(status, tx.write)
      BY Zenon DEF Modbus!FailOrRetry
    <3> QED BY Zenon, <3>1, <3>2
  <2>4. again \in Transaction /\ again.write = tx.write
    <3>1. more \in Transaction /\ more.write = tx.write
      BY <2>2 DEF Transaction
    <3> HIDE DEF more
    <3> QED BY <3>1 DEF Transaction
  <2>5. tx' \in Transaction /\ ~tx'.write /\ UNCHANGED done
    BY <2>3, <2>4, <2>1
  <2>6. /\ tid' \in Nat /\ tid' >= 1 /\ wire' \in Seq(Request) /\ replies' \in Seq(Answer)
        /\ WireHolds' /\ AnswersHold' /\ tid \in Nat /\ tid <= tid'
    BY <1>1, AnswersLeft DEF LineTypes
  <2>7. DoneHolds'
    BY <1>1, <2>5, <2>6 DEF DoneHolds, Told
  <2> QED BY <2>5, <2>6, <2>7 DEF OutcomeInv, LineTypes, WriteHolds
<1>3. CASE ~(tx.attempt < Modbus!Retries)
  <2>1. Modbus!Finish(status, tx.write)
    BY <1>3 DEF Modbus!FailOrRetry
  <2>2. tx.write => Told([sent |-> tx.sent, status |-> status, unknown |-> tx.write])
    BY DEF Told
  <2> QED BY <2>1, <2>2, FinishKeeps
<1> QED BY <1>2, <1>3

(* A request that is sent is newer than all there was, or raw.             *)
LEMMA RequestSent ==
  ASSUME LineTypes, WireHolds, AnswersHold, DoneHolds, NEW n, NEW w \in BOOLEAN,
         n = tid \/ (n = 0 /\ ~w), wire' = Append(wire, [tid |-> n, write |-> w]), tid' = tid + 1,
         UNCHANGED <<mode, replies, ran, done>>
  PROVE  /\ tid' \in Nat /\ tid' >= 1 /\ wire' \in Seq(Request)
         /\ WireHolds' /\ AnswersHold' /\ DoneHolds'
         /\ \A i \in 1..Len(wire') : wire'[i].tid = tid => wire'[i].write = w
<1> DEFINE new == [tid |-> n, write |-> w]
<1>1. tid \in Nat /\ tid >= 1 /\ tid' \in Nat /\ tid' >= 1 /\ new \in Request /\ n \in Nat
  BY DEF LineTypes, Request
<1>2. \A i \in 1..Len(wire) : wire[i] \in Request
  BY ElementOfSeq DEF LineTypes
<1>3. \A i \in 1..Len(replies) : replies[i] \in Answer
  BY ElementOfSeq DEF LineTypes
<1>4. new.tid = n /\ new.write = w
  OBVIOUS
<1> HIDE DEF new
<1>5. /\ wire' \in Seq(Request) /\ Len(wire') = Len(wire) + 1 /\ Len(wire) \in Nat
      /\ \A i \in 1..Len(wire) : wire'[i] = wire[i]
      /\ wire'[Len(wire) + 1] = new
  BY <1>1, AppendElements DEF LineTypes, new
<1>6. \A i \in 1..Len(wire') : (i \in 1..Len(wire) /\ wire'[i] = wire[i]) \/ (i = Len(wire) + 1 /\ wire'[i] = new)
  BY <1>5
<1>7. \A i \in 1..Len(wire) : wire[i].tid \in Nat /\ wire[i].tid < tid /\ (wire[i].tid = 0 => ~wire[i].write)
  BY <1>2 DEF WireHolds, Request
<1>8. \A i \in 1..Len(wire') : wire'[i].tid < tid' /\ (wire'[i].tid = 0 => ~wire'[i].write)
  BY <1>1, <1>4, <1>6, <1>7
<1>9. \A i, j \in 1..Len(wire') : wire'[i].tid # 0 /\ wire'[i].tid = wire'[j].tid => i = j
  <2> SUFFICES ASSUME NEW i \in 1..Len(wire'), NEW j \in 1..Len(wire'),
                      wire'[i].tid # 0, wire'[i].tid = wire'[j].tid
               PROVE  i = j
    OBVIOUS
  <2>1. CASE i \in 1..Len(wire) /\ wire'[i] = wire[i] /\ j \in 1..Len(wire) /\ wire'[j] = wire[j]
    BY <2>1 DEF WireHolds
  <2>2. CASE wire'[i] = new \/ wire'[j] = new
    BY <1>1, <1>4, <1>6, <1>7, <2>2
  <2> QED BY <1>6, <2>1, <2>2
<1>10. \A r \in ran' : r \in Nat /\ 0 < r /\ r < tid'
  BY <1>1 DEF WireHolds
<1>11. \A i \in 1..Len(wire') : wire'[i].tid \notin ran'
  <2>1. n \notin ran
    BY <1>1 DEF WireHolds
  <2> QED BY <1>4, <1>6, <2>1 DEF WireHolds
<1>12. WireHolds'
  BY <1>8, <1>9, <1>10, <1>11 DEF WireHolds
<1>13. AnswersHold'
  <2> SUFFICES ASSUME NEW j \in 1..Len(replies')
               PROVE  /\ replies'[j].tid < tid'
                      /\ \A i \in 1..Len(wire') : wire'[i].tid # 0 => wire'[i].tid # replies'[j].tid
                      /\ replies'[j].kind = "exception" => replies'[j].tid \notin ran'
    BY DEF AnswersHold
  <2>1. replies' = replies /\ replies[j].tid \in Nat /\ replies[j].tid < tid
    BY <1>3 DEF AnswersHold, Answer
  <2>2. \A i \in 1..Len(wire') : wire'[i].tid # 0 => wire'[i].tid # replies'[j].tid
    BY <1>1, <1>4, <1>6, <2>1 DEF AnswersHold
  <2> QED BY <1>1, <2>1, <2>2 DEF AnswersHold
<1>14. DoneHolds'
  <2> SUFFICES ASSUME NEW d \in done
               PROVE  /\ \A t \in d.sent : t \in Nat /\ 0 < t /\ t < tid'
                      /\ d.sent = {} \/ \E t \in d.sent : d.sent = {t}
                      /\ mode' = "tcp" => Told(d)'
    BY DEF DoneHolds
  <2>1. /\ \A t \in d.sent : t \in Nat /\ 0 < t /\ t < tid
        /\ d.sent = {} \/ \E t \in d.sent : d.sent = {t}
        /\ mode = "tcp" => Told(d)
    BY DEF DoneHolds
  <2>2. n \notin d.sent
    BY <1>1, <2>1
  <2>3. mode = "tcp" => Told(d)'
    BY <1>4, <1>6, <2>1, <2>2 DEF Told
  <2> QED BY <1>1, <2>1, <2>3
<1>15. \A i \in 1..Len(wire') : wire'[i].tid = tid => wire'[i].write = w
  BY <1>1, <1>4, <1>6, <1>7
<1> QED BY <1>1, <1>5, <1>12, <1>13, <1>14, <1>15

(* execute_once.                                                           *)
LEMMA SendKeeps ==
  ASSUME WritesOnce, OutcomeInv, Modbus!Send
  PROVE  OutcomeInv'
<1>1. LineTypes /\ WireHolds /\ AnswersHold /\ WriteHolds /\ DoneHolds
  BY DEF OutcomeInv
<1>2. tx.pc = "start" /\ tid' = tid + 1 /\ UNCHANGED <<mode, replies, ran>>
  BY DEF Modbus!Send, Modbus!threads
<1>3. tx.write => tx.sent = {}
  BY <1>1, <1>2 DEF WriteHolds
<1>4. CASE \E status \in {"refused", "cancelled"} : Modbus!Finish(status, FALSE) /\ UNCHANGED wire
  <2>1. PICK status \in {"refused", "cancelled"} : Modbus!Finish(status, FALSE)
    BY <1>4
  <2>2. tx.write => Told([sent |-> tx.sent, status |-> status, unknown |-> FALSE])
    BY <1>3, <2>1 DEF Told
  <2> QED BY <1>2, <1>4, <2>1, <2>2, FinishKeeps DEF AnswersShrink
<1>5. CASE Modbus!FailOrRetry("transport", tx.write) /\ UNCHANGED wire
  BY <1>2, <1>5, FailureKeeps DEF AnswersShrink
<1>6. CASE /\ wire' = Append(wire, [tid |-> tid, write |-> tx.write])
           /\ tx' = [tx EXCEPT !.sent = @ \cup {tid}, !.pc = "wait"] /\ UNCHANGED done
  <2>1. tx.write \in BOOLEAN /\ tid \in Nat /\ tid >= 1
    BY <1>1 DEF LineTypes, Transaction
  <2>2. /\ tid' \in Nat /\ tid' >= 1 /\ wire' \in Seq(Request)
        /\ WireHolds' /\ AnswersHold' /\ DoneHolds'
        /\ \A i \in 1..Len(wire') : wire'[i].tid = tid => wire'[i].write = tx.write
    BY <1>1, <1>2, <1>6, <2>1, RequestSent
  <2>3. /\ tx' \in Transaction /\ tx'.write = tx.write /\ tx'.attempt = tx.attempt
        /\ tx'.pc = "wait" /\ tx'.sent = tx.sent \cup {tid}
    <3> DEFINE more == [tx EXCEPT !.sent = tx.sent \cup {tid}]
               waits == [more EXCEPT !.pc = "wait"]
    <3>1. tx' = waits
      BY Zenon, <1>6
    <3>2. /\ more \in Transaction /\ more.write = tx.write /\ more.attempt = tx.attempt
          /\ more.sent = tx.sent \cup {tid}
      BY <1>1, <2>1 DEF LineTypes, Transaction
    <3> HIDE DEF more
    <3>3. /\ waits \in Transaction /\ waits.write = more.write /\ waits.attempt = more.attempt
          /\ waits.sent = more.sent /\ waits.pc = "wait"
      BY <3>2 DEF Transaction
    <3> QED BY <3>1, <3>2, <3>3
  <2>4. \A j \in 1..Len(replies) : replies[j].tid < tid /\ replies[j].tid \in Nat
    <3>1. \A j \in 1..Len(replies) : replies[j] \in Answer
      BY <1>1, ElementOfSeq DEF LineTypes
    <3> QED BY <1>1, <3>1 DEF AnswersHold, Answer
  <2>5. WriteHolds'
    <3> SUFFICES ASSUME tx.write
                 PROVE  /\ tx'.attempt = 0 /\ tid' > 1 /\ tx'.sent = {tid' - 1}
                        /\ \A i \in 1..Len(wire') : wire'[i].tid = tid' - 1 => wire'[i].write
                        /\ \A j \in 1..Len(replies') : replies'[j].tid # tid' - 1
      BY <2>3 DEF WriteHolds
    <3>1. tx'.attempt = 0 /\ tx'.sent = {tid}
      BY <1>1, <1>2, <1>3, <2>3 DEF WriteHolds
    <3>2. tid' - 1 = tid /\ tid' > 1
      BY <1>2, <2>1
    <3>3. \A i \in 1..Len(wire') : wire'[i].tid = tid' - 1 => wire'[i].write
      BY <2>2, <3>2
    <3>4. \A j \in 1..Len(replies') : replies'[j].tid # tid' - 1
      BY <1>2, <2>1, <2>4, <3>2
    <3> QED BY <3>1, <3>2, <3>3, <3>4
  <2>6. replies' \in Seq(Answer)
    BY <1>1, <1>2 DEF LineTypes
  <2> QED BY <2>2, <2>3, <2>5, <2>6 DEF OutcomeInv, LineTypes
<1> QED BY <1>4, <1>5, <1>6 DEF Modbus!Send

(* execute_raw_adu.                                                        *)
LEMMA RawSendKeeps ==
  ASSUME WritesOnce, OutcomeInv, Modbus!RawSend
  PROVE  OutcomeInv'
<1>1. LineTypes /\ WireHolds /\ AnswersHold /\ WriteHolds /\ DoneHolds
  BY DEF OutcomeInv
<1>2. tx.pc = "raw" /\ tid' = tid + 1 /\ UNCHANGED <<mode, replies, ran>>
  BY DEF Modbus!RawSend, Modbus!threads
<1>3. ~tx.write
  BY <1>1, <1>2 DEF WriteHolds
<1>4. CASE Modbus!Finish("failed", FALSE) /\ UNCHANGED wire
  BY <1>2, <1>3, <1>4, FinishKeeps DEF AnswersShrink
<1>5. CASE /\ wire' = Append(wire, [tid |-> 0, write |-> FALSE])
           /\ tx' = [tx EXCEPT !.pc = "wait"] /\ UNCHANGED done
  <2>1. /\ tid' \in Nat /\ tid' >= 1 /\ wire' \in Seq(Request)
        /\ WireHolds' /\ AnswersHold' /\ DoneHolds'
    <3>1. FALSE \in BOOLEAN
      OBVIOUS
    <3> QED BY <1>1, <1>2, <1>5, <3>1, RequestSent
  <2>2. tx' \in Transaction /\ ~tx'.write
    BY <1>1, <1>3, <1>5 DEF LineTypes, Transaction
  <2>3. replies' \in Seq(Answer)
    BY <1>1, <1>2 DEF LineTypes
  <2> QED BY <2>1, <2>2, <2>3 DEF OutcomeInv, LineTypes, WriteHolds
<1> QED BY <1>4, <1>5 DEF Modbus!RawSend

(* receive_tcp believes the answer to the latest request alone.            *)
LEMMA ReceiveTcpKeeps ==
  ASSUME WritesOnce, OutcomeInv, Modbus!ReceiveTcp
  PROVE  OutcomeInv'
<1>1. LineTypes /\ WireHolds /\ AnswersHold /\ WriteHolds /\ DoneHolds
  BY DEF OutcomeInv
<1>2. /\ tx.pc = "wait" /\ replies # <<>> /\ replies' = Tail(replies)
      /\ tid' = tid /\ UNCHANGED <<mode, wire, ran>>
  BY DEF Modbus!ReceiveTcp
<1>3. Head(replies) = replies[1] /\ replies[1] \in Answer /\ 1 \in 1..Len(replies)
  BY <1>1, <1>2, TailElements DEF LineTypes
<1>4. tid \in Nat /\ AnswersShrink
  BY <1>1, <1>2 DEF LineTypes, AnswersShrink
<1>5. CASE Modbus!Reply.kind = "closed" /\ Modbus!FailOrRetry("transport", tx.write)
  BY <1>2, <1>4, <1>5, FailureKeeps
<1>6. CASE /\ Modbus!Reply.kind # "closed" /\ Modbus!Mine
           /\ Modbus!Finish(Modbus!Reply.kind, FALSE)
  <2> DEFINE kind == replies[1].kind
  <2>1. Modbus!Reply = replies[1] /\ kind \in {"success", "exception"}
    BY <1>3, <1>6 DEF Modbus!Reply, Answer
  <2>2. ASSUME tx.write
        PROVE  Told([sent |-> tx.sent, status |-> kind, unknown |-> FALSE])
    <3>1. tid > 1 /\ tx.sent = {tid - 1}
      BY <1>1, <1>2, <2>2 DEF WriteHolds
    <3>2. replies[1].tid \in Nat /\ replies[1].tid < tid /\ tid - 1 <= replies[1].tid
      BY <1>1, <1>3, <1>6, <2>1, <3>1 DEF AnswersHold, Modbus!Mine, Answer
    <3>3. replies[1].tid = tid - 1
      BY <1>4, <3>2
    <3>4. kind = "success" => tid - 1 \in ran
      BY <1>1, <1>2, <1>3, <2>2, <3>3 DEF WriteHolds
    <3>5. kind = "exception" => tid - 1 \notin ran
      BY <1>1, <1>3, <3>3 DEF AnswersHold
    <3>6. tid - 1 # 0
      BY <1>4, <3>1
    <3>7. \A i \in 1..Len(wire) : wire[i].tid # tid - 1
      BY <1>1, <1>3, <3>3, <3>6 DEF AnswersHold
    <3> HIDE DEF kind
    <3> QED BY <2>1, <3>1, <3>4, <3>5, <3>7 DEF Told
  <2>3. Modbus!Finish(kind, FALSE)
    BY <1>6, <2>1
  <2> HIDE DEF kind
  <2> QED BY <1>2, <1>4, <2>2, <2>3, FinishKeeps
<1>7. CASE UNCHANGED <<tx, done>>
  <2>1. /\ tid' \in Nat /\ tid' >= 1 /\ wire' \in Seq(Request) /\ replies' \in Seq(Answer)
        /\ WireHolds' /\ AnswersHold'
        /\ \A j \in 1..Len(replies') : \E k \in 1..Len(replies) : replies'[j] = replies[k]
    BY <1>1, <1>2, <1>4, AnswersLeft
  <2>2. WriteHolds'
    BY <1>1, <1>2, <1>7, <2>1 DEF WriteHolds
  <2>3. DoneHolds'
    BY <1>1, <1>2, <1>7 DEF DoneHolds, Told
  <2>4. tx' \in Transaction
    BY <1>1, <1>7 DEF LineTypes
  <2> QED BY <2>1, <2>2, <2>3, <2>4 DEF OutcomeInv, LineTypes
<1> QED BY <1>5, <1>6, <1>7 DEF Modbus!ReceiveTcp

(* receive_rtu and receive_ascii: nothing is promised on a serial line.    *)
LEMMA ReceiveSerialKeeps ==
  ASSUME WritesOnce, OutcomeInv, Modbus!ReceiveSerial
  PROVE  OutcomeInv'
<1>1. /\ mode # "tcp" /\ tid' = tid /\ UNCHANGED <<mode, wire, ran>> /\ AnswersShrink
  BY DEF Modbus!ReceiveSerial, AnswersShrink
<1>2. CASE Modbus!FailOrRetry("transport", tx.write)
  BY <1>1, <1>2, FailureKeeps
<1>3. CASE \E status \in {Modbus!Reply.kind, "malformed"} : Modbus!Finish(status, FALSE)
  BY <1>1, <1>3, FinishKeeps
<1> QED BY <1>2, <1>3 DEF Modbus!ReceiveSerial

(* The server takes a request, carries it out or refuses it, and answers or*)
(* does not; nothing but that request is executed.                         *)
LEMMA ServeKeeps ==
  ASSUME OutcomeInv, wire # <<>>, wire' = Tail(wire), Modbus!Process \/ UNCHANGED <<ran, replies>>,
         UNCHANGED <<mode, tx, tid, done>>
  PROVE  OutcomeInv'
<1> DEFINE h == wire[1]
<1>1. LineTypes /\ WireHolds /\ AnswersHold /\ WriteHolds /\ DoneHolds
  BY DEF OutcomeInv
<1>2. /\ wire' \in Seq(Request) /\ Head(wire) = h /\ h \in Request /\ Len(wire) \in Nat /\ Len(wire) >= 1
      /\ \A i \in 1..Len(wire') : i + 1 \in 1..Len(wire) /\ wire'[i] = wire[i + 1]
  BY <1>1, TailElements DEF LineTypes
<1>3. \A i \in 1..Len(replies) : replies[i] \in Answer
  BY <1>1, ElementOfSeq DEF LineTypes
<1>4. tid \in Nat /\ tid' = tid
  BY <1>1 DEF LineTypes
<1>5. 1 \in 1..Len(wire)
  BY <1>2
<1>6. h.tid \in Nat /\ h.tid < tid /\ (h.tid = 0 => ~h.write) /\ h.tid \notin ran
  BY <1>1, <1>2, <1>5 DEF WireHolds, Request
<1>7. \A i \in 1..Len(wire') : wire'[i].tid # 0 => wire'[i].tid # h.tid
  BY <1>1, <1>2, <1>5 DEF WireHolds
<1>8. (\A r \in ran : r \in ran') /\ \A r \in ran' : r \in ran \/ (r = h.tid /\ h.write)
  BY <1>2 DEF Modbus!Process
<1>9. /\ replies' \in Seq(Answer)
      /\ \A j \in 1..Len(replies') :
           \/ j \in 1..Len(replies) /\ replies'[j] = replies[j]
           \/ /\ replies'[j].tid = h.tid
              /\ replies'[j].kind = "exception" => ran' = ran
              /\ replies'[j].kind = "success" /\ h.write => h.tid \in ran'
  <2>1. CASE replies' = replies
    BY <1>1, <2>1 DEF LineTypes
  <2>2. CASE /\ replies' = Append(replies, [tid |-> h.tid, kind |-> IF Modbus!Executes THEN "success" ELSE "exception"])
             /\ Modbus!Process
    <3> DEFINE new == [tid |-> h.tid, kind |-> IF Modbus!Executes THEN "success" ELSE "exception"]
    <3>1. /\ new \in Answer /\ new.tid = h.tid
          /\ new.kind = "exception" => ~Modbus!Executes
          /\ new.kind = "success" => Modbus!Executes
      BY <1>6 DEF Answer
    <3> HIDE DEF new
    <3>2. /\ replies' \in Seq(Answer) /\ Len(replies') = Len(replies) + 1 /\ Len(replies) \in Nat
          /\ \A i \in 1..Len(replies) : replies'[i] = replies[i]
          /\ replies'[Len(replies) + 1] = new
      BY <1>1, <2>2, <3>1, AppendElements DEF LineTypes, new
    <3>3. ran' = IF Modbus!Executes /\ h.write THEN ran \cup {h.tid} ELSE ran
      BY <1>2, <2>2 DEF Modbus!Process
    <3>4. (new.kind = "exception" => ran' = ran) /\ (new.kind = "success" /\ h.write => h.tid \in ran')
      BY <3>1, <3>3
    <3>5. \A j \in 1..Len(replies') : j \in 1..Len(replies) \/ j = Len(replies) + 1
      BY <3>2
    <3> QED BY <3>1, <3>2, <3>4, <3>5
  <2> QED BY <1>2, <2>1, <2>2 DEF Modbus!Process, Modbus!Respond
<1> HIDE DEF h
<1>10. WireHolds'
  <2>1. \A i \in 1..Len(wire') : wire'[i].tid < tid' /\ (wire'[i].tid = 0 => ~wire'[i].write)
    BY <1>1, <1>2, <1>4 DEF WireHolds
  <2>2. \A i, j \in 1..Len(wire') : wire'[i].tid # 0 /\ wire'[i].tid = wire'[j].tid => i = j
    <3> SUFFICES ASSUME NEW i \in 1..Len(wire'), NEW j \in 1..Len(wire'),
                        wire'[i].tid # 0, wire'[i].tid = wire'[j].tid
                 PROVE  i = j
      OBVIOUS
    <3>1. i + 1 = j + 1
      BY <1>1, <1>2 DEF WireHolds
    <3> QED BY <3>1
  <2>3. \A r \in ran' : r \in Nat /\ 0 < r /\ r < tid'
    BY <1>1, <1>4, <1>6, <1>8 DEF WireHolds
  <2>4. \A i \in 1..Len(wire') : wire'[i].tid \notin ran'
    BY <1>1, <1>2, <1>6, <1>7, <1>8 DEF WireHolds
  <2> QED BY <2>1, <2>2, <2>3, <2>4 DEF WireHolds
<1>11. AnswersHold'
  <2> SUFFICES ASSUME NEW j \in 1..Len(replies')
               PROVE  /\ replies'[j].tid < tid'
                      /\ \A i \in 1..Len(wire') : wire'[i].tid # 0 => wire'[i].tid # replies'[j].tid
                      /\ replies'[j].kind = "exception" => replies'[j].tid \notin ran'
    BY DEF AnswersHold
  <2>1. CASE j \in 1..Len(replies) /\ replies'[j] = replies[j]
    <3>1. /\ replies[j].tid < tid /\ h.tid # 0 => h.tid # replies[j].tid
          /\ replies[j].kind = "exception" => replies[j].tid \notin ran
      BY <1>1, <1>5, <2>1 DEF AnswersHold, h
    <3>2. \A i \in 1..Len(wire') : wire'[i].tid # 0 => wire'[i].tid # replies[j].tid
      BY <1>1, <1>2, <2>1 DEF AnswersHold
    <3>3. replies[j].kind = "exception" => replies[j].tid \notin ran'
      BY <1>6, <1>8, <3>1
    <3>4. replies[j].tid < tid'
      BY <1>1, <1>4, <2>1 DEF AnswersHold
    <3> QED BY <2>1, <3>2, <3>3, <3>4
  <2>2. CASE replies'[j].tid = h.tid /\ (replies'[j].kind = "exception" => ran' = ran)
    BY <1>4, <1>6, <1>7, <2>2
  <2> QED BY <1>9, <2>1, <2>2
<1>12. WriteHolds'
  <2> SUFFICES ASSUME tx.write, tx.pc = "wait"
               PROVE  /\ \A i \in 1..Len(wire') : wire'[i].tid = tid - 1 => wire'[i].write
                      /\ \A j \in 1..Len(replies') :
                           replies'[j].tid = tid - 1 /\ replies'[j].kind = "success" => tid - 1 \in ran'
    BY <1>1, <1>4 DEF WriteHolds
  <2>1. /\ \A i \in 1..Len(wire) : wire[i].tid = tid - 1 => wire[i].write
        /\ \A j \in 1..Len(replies) :
             replies[j].tid = tid - 1 /\ replies[j].kind = "success" => tid - 1 \in ran
    BY <1>1 DEF WriteHolds
  <2>2. h.tid = tid - 1 => h.write
    BY <1>5, <2>1 DEF h
  <2>3. \A i \in 1..Len(wire') : wire'[i].tid = tid - 1 => wire'[i].write
    BY <1>2, <2>1
  <2>4. \A j \in 1..Len(replies') :
          replies'[j].tid = tid - 1 /\ replies'[j].kind = "success" => tid - 1 \in ran'
    BY <1>8, <1>9, <2>1, <2>2
  <2> QED BY <2>3, <2>4
<1>13. DoneHolds'
  <2> SUFFICES ASSUME NEW d \in done, mode = "tcp", Told(d) PROVE Told(d)'
    BY <1>1, <1>4 DEF DoneHolds
  <2>1. d.status = "success" => d.sent \cap ran' # {}
    BY <1>8 DEF Told
  <2>2. ASSUME d.status # "success", ~d.unknown
        PROVE  d.sent \cap ran' = {} /\ \A i \in 1..Len(wire') : wire'[i].tid \notin d.sent
    <3>1. d.sent \cap ran = {} /\ \A i \in 1..Len(wire) : wire[i].tid \notin d.sent
      BY <2>2 DEF Told
    <3>2. h.tid \notin d.sent
      BY <1>5, <3>1 DEF h
    <3> QED BY <1>2, <1>8, <3>1, <3>2
  <2> QED BY <2>1, <2>2 DEF Told
<1> QED BY <1>1, <1>2, <1>4, <1>9, <1>10, <1>11, <1>12, <1>13 DEF OutcomeInv, LineTypes

(* A line that breaks ends the subscription with an event of its own.      *)
LEMMA BreakKeeps ==
  ASSUME OutcomeInv, Modbus!LinkBreaks
  PROVE  OutcomeInv'
<1> DEFINE new == [tid |-> 0, kind |-> "closed"]
<1>1. LineTypes /\ WireHolds /\ AnswersHold /\ WriteHolds /\ DoneHolds
  BY DEF OutcomeInv
<1>2. UNCHANGED <<mode, tx, tid, wire, ran, done>>
  BY DEF Modbus!LinkBreaks, Modbus!threads
<1>3. new \in Answer /\ new.tid = 0 /\ new.kind = "closed"
  BY DEF Answer
<1>4. replies' = Append(replies, new)
  BY DEF Modbus!LinkBreaks
<1> HIDE DEF new
<1>5. /\ replies' \in Seq(Answer) /\ Len(replies') = Len(replies) + 1 /\ Len(replies) \in Nat
      /\ \A i \in 1..Len(replies) : replies'[i] = replies[i]
      /\ replies'[Len(replies) + 1] = new
  BY <1>1, <1>3, <1>4, AppendElements DEF LineTypes
<1>6. \A j \in 1..Len(replies') : (j \in 1..Len(replies) /\ replies'[j] = replies[j]) \/ replies'[j] = new
  BY <1>5
<1>7. tid \in Nat /\ tid >= 1
  BY <1>1 DEF LineTypes
<1>8. AnswersHold'
  <2> SUFFICES ASSUME NEW j \in 1..Len(replies')
               PROVE  /\ replies'[j].tid < tid'
                      /\ \A i \in 1..Len(wire') : wire'[i].tid # 0 => wire'[i].tid # replies'[j].tid
                      /\ replies'[j].kind = "exception" => replies'[j].tid \notin ran'
    BY DEF AnswersHold
  <2>1. CASE j \in 1..Len(replies) /\ replies'[j] = replies[j]
    BY <1>1, <1>2, <2>1 DEF AnswersHold
  <2>2. CASE replies'[j] = new
    BY <1>2, <1>3, <1>7, <2>2
  <2> QED BY <1>6, <2>1, <2>2
<1>9. WriteHolds'
  BY <1>1, <1>2, <1>3, <1>6 DEF WriteHolds
<1>10. LineTypes' /\ WireHolds' /\ DoneHolds'
  BY <1>1, <1>2, <1>5 DEF LineTypes, WireHolds, DoneHolds, Told
<1> QED BY <1>8, <1>9, <1>10 DEF OutcomeInv

(* A transaction that begins has sent nothing.                             *)
LEMMA BeginKeeps ==
  ASSUME WritesOnce, OutcomeInv, NEW c \in Worker \cup {Modbus!Main},
         NEW write \in BOOLEAN, Modbus!Begin(c, write) \/ Modbus!RawBegin
  PROVE  OutcomeInv'
<1>1. LineTypes /\ WireHolds /\ AnswersHold /\ WriteHolds /\ DoneHolds
  BY DEF OutcomeInv
<1>2. UNCHANGED <<mode, tid, wire, replies, ran, done>>
  BY DEF Modbus!Begin, Modbus!RawBegin, Modbus!line
<1>3. tx' \in Transaction /\ WriteHolds'
  <2>1. CASE tx' = [by |-> c, write |-> write, attempt |-> 0, sent |-> {}, pc |-> "start"]
    BY <2>1 DEF Transaction, WriteHolds
  <2>2. CASE tx' = [by |-> Modbus!Main, write |-> FALSE, attempt |-> ReadRetries, sent |-> {}, pc |-> "raw"]
    BY <2>2 DEF Transaction, WriteHolds, WritesOnce
  <2> QED BY <2>1, <2>2 DEF Modbus!Begin, Modbus!RawBegin
<1> QED BY <1>1, <1>2, <1>3 DEF OutcomeInv, LineTypes, WireHolds, AnswersHold, DoneHolds, Told

(* Nothing has been asked, answered or told.                                *)
LEMMA OutcomeInit == Modbus!Init => OutcomeInv
<1> SUFFICES ASSUME Modbus!Init PROVE OutcomeInv
  OBVIOUS
<1>1. wire = <<>> /\ replies = <<>> /\ tid = 1 /\ tx = Modbus!Quiet /\ ran = {} /\ done = {}
  BY DEF Modbus!Init
<1>2. <<>> \in Seq(Request) /\ <<>> \in Seq(Answer) /\ Len(wire) = 0 /\ Len(replies) = 0
  BY <1>1, EmptySeq
<1>3. Modbus!Quiet \in Transaction /\ ~Modbus!Quiet.write
  BY DEF Modbus!Quiet, Transaction
<1> QED BY <1>1, <1>2, <1>3
     DEF OutcomeInv, LineTypes, WireHolds, AnswersHold, WriteHolds, DoneHolds

(* The client, the server, the line, the scheduler and the teardown, in    *)
(* any order.                                                              *)
LEMMA OutcomeStep ==
  ASSUME WritesOnce, OutcomeInv, [Modbus!Next]_(Modbus!mbvars)
  PROVE  OutcomeInv'
<1>1. ASSUME UNCHANGED <<mode, tx, tid, wire, replies, ran, done>> PROVE OutcomeInv'
  BY <1>1 DEF OutcomeInv, LineTypes, WireHolds, AnswersHold, WriteHolds, DoneHolds, Told
<1>2. CASE Modbus!ClientRuns
  <2>1. CASE Modbus!Expire
    <3>1. Modbus!FailOrRetry("timeout", tx.write) /\ UNCHANGED <<mode, wire, ran>> /\ tid' = tid /\ AnswersShrink
      BY <2>1 DEF Modbus!Expire, Modbus!line, AnswersShrink
    <3> QED BY <3>1, FailureKeeps
  <2> QED BY <1>2, <2>1, SendKeeps, RawSendKeeps, ReceiveTcpKeeps, ReceiveSerialKeeps
       DEF Modbus!ClientRuns
<1>3. CASE Modbus!MainRuns
  BY <1>1, <1>3 DEF Modbus!MainRuns, Modbus!UserResult, Modbus!WatchKept, Modbus!WatchStopTakes,
                    Modbus!WatchStopped, Modbus!line
<1>4. CASE Modbus!Teardown
  BY <1>1, <1>4 DEF Modbus!Teardown
<1>5. CASE Modbus!ServeTcp
  BY <1>5, ServeKeeps DEF Modbus!ServeTcp
<1>6. CASE Modbus!ServeSerial
  BY <1>6, ServeKeeps DEF Modbus!ServeSerial
<1>7. CASE Modbus!LinkBreaks
  BY <1>7, BreakKeeps
<1>8. CASE \E f, d : Modbus!SetServer(f, d)
  BY <1>1, <1>8 DEF Modbus!SetServer
<1>9. CASE \E write \in BOOLEAN : Modbus!UserRequest(write)
  BY <1>9, BeginKeeps DEF Modbus!UserRequest
<1>10. CASE Modbus!WatchStart \/ Modbus!WatchStop
  BY <1>1, <1>10 DEF Modbus!WatchStart, Modbus!WatchStop, Modbus!line
<1>11. ASSUME NEW w \in Worker, Modbus!WorkerEnds(w) \/ Modbus!Poll(w) PROVE OutcomeInv'
  <2>1. CASE Modbus!WorkerEnds(w)
    BY <1>1, <2>1 DEF Modbus!WorkerEnds, Modbus!line
  <2>2. CASE Modbus!Poll(w)
    <3>1. FALSE \in BOOLEAN /\ Modbus!Begin(w, FALSE)
      BY <2>2 DEF Modbus!Poll
    <3> QED BY <3>1, BeginKeeps
  <2> QED BY <1>11, <2>1, <2>2
<1>12. CASE UNCHANGED Modbus!mbvars
  BY <1>1, <1>12 DEF Modbus!mbvars
<1> QED BY <1>2, <1>3, <1>4, <1>5, <1>6, <1>7, <1>8, <1>9, <1>10, <1>11, <1>12 DEF Modbus!Next

(* What is known of the requests makes what the user is told of them true. *)
LEMMA OutcomeToldBy ==
  ASSUME OutcomeInv
  PROVE  Modbus!OutcomeTold
<1>0. \A S : Modbus!Cardinality(S) = Cardinality(S)
  BY DEF Modbus!Cardinality, Cardinality
<1>1. DoneHolds
  BY DEF OutcomeInv
<1> SUFFICES ASSUME mode = "tcp", NEW d \in done
             PROVE  /\ d.status = "success" => d.sent \cap ran # {}
                    /\ ~RetryWrites => Cardinality(d.sent) <= 1
                    /\ d.status # "success" /\ ~d.unknown => d.sent \cap ran = {} /\ ~Modbus!Pending(d)
  BY <1>0 DEF Modbus!OutcomeTold
<1>2. Told(d) /\ (d.sent = {} \/ \E t \in d.sent : d.sent = {t})
  BY <1>1 DEF DoneHolds
<1>3. Cardinality(d.sent) <= 1
  <2>1. CASE d.sent = {}
    BY <2>1, FS_EmptySet
  <2>2. CASE \E t \in d.sent : d.sent = {t}
    BY <2>2, FS_Singleton
  <2> QED BY <1>2, <2>1, <2>2
<1> QED BY <1>2, <1>3 DEF Told, Modbus!Pending

(* What the user is told of a write over Modbus TCP is true, for any number*)
(* of reads that are tried again, of requests, workers and watch commands, *)
(* in every order with the server, the line and the teardown               *)
(* (ModbusClient::execute).                                                *)
THEOREM OutcomesTold ==
  ASSUME WritesOnce
  PROVE  Modbus!Spec => []Modbus!OutcomeTold
<1>1. Modbus!Init => OutcomeInv
  BY OutcomeInit
<1>2. OutcomeInv /\ [Modbus!Next]_(Modbus!mbvars) => OutcomeInv'
  BY OutcomeStep
<1>3. OutcomeInv => Modbus!OutcomeTold
  BY OutcomeToldBy
<1> QED BY <1>1, <1>2, <1>3, PTL DEF Modbus!Spec

-----------------------------------------------------------------------------
(* RTT channels *)

(* Indices are numbers (u32), and None is none of them.                    *)
ChannelIndices == Channel \subseteq Nat /\ NoChannel \notin Channel

(* What ChannelsApart says of the send target, for claims c and writable   *)
(* channels d.                                                             *)
Apart(c, target_, d) == target_ \notin c /\ IF d \ c = {} THEN target_ = NoChannel ELSE target_ \in d
Lone(c) == c = {} \/ \E ch \in Channel : c = {ch}

(* What a user may choose and what is claimed stay apart because a claim is*)
(* only taken and given up together with the choice of another target, and *)
(* only an observer has one.                                               *)
ChannelInv ==
  /\ readable \subseteq Channel /\ writable \subseteq Channel /\ observers \subseteq Channel
  /\ sync \in [pc : {"idle", "syncing"}, lost : SUBSET Channel, found : SUBSET Channel]
  /\ claims = control /\ Lone(claims) /\ claims \subseteq observers
  /\ Apart(claims, send, writable)

(* Every set of numbers that is not empty has a least one.                 *)
LEMMA LeastNumber ==
  ASSUME NEW C, C \subseteq Nat, C # {}
  PROVE  \E x \in C : \A y \in C : x <= y
<1> DEFINE R == {p \in Nat \X Nat : p[1] < p[2]}
<1>1. OpToRel(<, Nat) = R
  BY Zenon DEF OpToRel
<1>2. IsWellFoundedOn(R, Nat)
  BY <1>1, NatLessThanWellFounded
<1> HIDE DEF R
<1>3. \E x \in C : \A y \in C : ~ (<<y, x>> \in R)
  BY <1>2, WFMin, Zenon
<1>4. ASSUME NEW x \in C, NEW y \in C, <<y, x>> \notin R PROVE x <= y
  BY <1>4 DEF R
<1> QED BY <1>3, <1>4

(* The channel that is chosen from a set is in it.                         *)
LEMMA FirstIsIn ==
  ASSUME ChannelIndices, NEW C, C \subseteq Channel
  PROVE  IF C = {} THEN Channels!First(C) = NoChannel ELSE Channels!First(C) \in C
<1>1. CASE C = {}
  BY <1>1 DEF Channels!First
<1>2. CASE C # {}
  <2>1. \E x \in C : \A y \in C : x <= y
    BY <1>2, LeastNumber DEF ChannelIndices
  <2> QED BY <1>2, <2>1 DEF Channels!First, Channels!Min
<1> QED BY <1>1, <1>2

(* A claim that is given up leaves a target if there can be one.           *)
LEMMA ReleaseKeeps ==
  ASSUME ChannelIndices, writable' \subseteq Channel, NEW C,
         NEW s \in [claims : SUBSET Channel, send : Channel \cup {NoChannel}],
         Lone(s.claims), Apart(s.claims, s.send, writable')
  PROVE  LET r == Channels!Release(s, C)
         IN /\ r \in [claims : SUBSET Channel, send : Channel \cup {NoChannel}]
            /\ r.claims = s.claims \ C /\ Lone(r.claims)
            /\ Apart(r.claims, r.send, writable')
<1> DEFINE rest == s.claims \ C
           r == Channels!Release(s, C)
           next == Channels!First(writable' \ rest)
<1>1. CASE s.claims \cap C = {}
  <2>1. r = s /\ rest = s.claims
    BY <1>1 DEF Channels!Release
  <2> QED BY <2>1
<1>2. CASE s.claims \cap C # {}
  <2>1. r = [claims |-> rest, send |-> IF s.send = NoChannel THEN next ELSE s.send]
    BY <1>2 DEF Channels!Release
  <2>2. rest = {} /\ writable' \ rest = writable'
    BY <1>2 DEF Lone
  <2>3. IF writable' = {} THEN next = NoChannel ELSE next \in writable'
    BY <2>2, FirstIsIn
  <2> HIDE DEF next
  <2>4. IF s.send = NoChannel THEN r.send = next ELSE r.send = s.send /\ s.send \in writable'
    BY <2>1 DEF Apart
  <2>5. r.send \in Channel \cup {NoChannel} /\ Apart({}, r.send, writable')
    BY <2>3, <2>4 DEF Apart, ChannelIndices
  <2>6. r \in [claims : SUBSET Channel, send : Channel \cup {NoChannel}] /\ r.claims = rest
    BY <2>1, <2>5
  <2> QED BY <2>2, <2>5, <2>6 DEF Lone
<1> QED BY <1>1, <1>2

(* Rebalancing leaves one claim, with the lowest observer that can take it,*)
(* whoever had it before (rebalance_systemview_control).                   *)
LEMMA SettleKeeps ==
  ASSUME ChannelIndices, writable' \subseteq Channel, NEW obs, obs \subseteq Channel,
         NEW s \in [claims : SUBSET Channel, send : Channel \cup {NoChannel}],
         Lone(s.claims), s.claims \subseteq obs, Apart(s.claims, s.send, writable'),
         Channels!Settle(s, obs)
  PROVE  /\ observers' = obs /\ claims' = control' /\ claims' \subseteq obs
         /\ Lone(claims') /\ Apart(claims', send', writable')
<1> DEFINE fit == obs \cap writable'
           k == Channels!First(fit)
           taken == Channels!Claim(s, s.claims, k)
<1>1. CASE fit = {}
  <2>1. k = NoChannel
    BY <1>1 DEF Channels!First
  <2>2. /\ observers' = obs /\ control' = {}
        /\ claims' = Channels!Release(s, obs \ {k}).claims
        /\ send' = Channels!Release(s, obs \ {k}).send
    BY <1>1 DEF Channels!Settle, Channels!Controller, Channels!Rebalanced
  <2>3. s.claims \ (obs \ {k}) = {}
    BY <2>1 DEF ChannelIndices
  <2> HIDE DEF k
  <2> QED BY <2>2, <2>3, ReleaseKeeps
<1>2. CASE fit # {}
  <2>1. k \in fit /\ k \in Channel
    BY <1>2, FirstIsIn
  <2>2. /\ observers' = obs /\ control' = {k}
        /\ claims' = Channels!Release(taken, obs \ {k}).claims
        /\ send' = Channels!Release(taken, obs \ {k}).send
    BY <1>2 DEF Channels!Settle, Channels!Controller, Channels!Rebalanced
  <2> HIDE DEF k
  <2> DEFINE both == s.claims \cup {k}
             next == Channels!First(writable' \ both)
             last == Channels!First(writable' \ {k})
  <2>3. taken = [claims |-> both, send |-> IF s.send = k /\ k \notin s.claims THEN next ELSE s.send]
    BY DEF Channels!Claim
  <2>4. both \ (obs \ {k}) = {k}
    BY <2>1
  <2>5. IF writable' \ both = {} THEN next = NoChannel ELSE next \in writable' \ both
    BY FirstIsIn
  <2>6. IF writable' \ {k} = {} THEN last = NoChannel ELSE last \in writable' \ {k}
    BY FirstIsIn
  <2> HIDE DEF next, last
  <2>7. claims' = {k}
    <3>1. CASE both \cap (obs \ {k}) = {}
      <4>1. both = {k} /\ Channels!Release(taken, obs \ {k}) = taken
        BY <2>1, <2>3, <3>1 DEF Channels!Release
      <4> QED BY <2>2, <2>3, <4>1
    <3>2. CASE both \cap (obs \ {k}) # {}
      BY <2>2, <2>3, <2>4, <3>2 DEF Channels!Release
    <3> QED BY <3>1, <3>2
  <2>8. Apart({k}, send', writable')
    <3>1. CASE both \cap (obs \ {k}) = {}
      <4>1. both = {k} /\ Channels!Release(taken, obs \ {k}) = taken
        BY <2>1, <2>3, <3>1 DEF Channels!Release
      <4>2. send' = IF s.send = k /\ k \notin s.claims THEN next ELSE s.send
        BY <2>2, <2>3, <4>1
      <4>3. CASE s.send = k /\ k \notin s.claims
        <5>1. send' = next
          BY <4>2, <4>3
        <5> QED BY <2>1, <2>5, <4>1, <5>1 DEF Apart, ChannelIndices
      <4>4. CASE ~(s.send = k /\ k \notin s.claims)
        <5>1. send' = s.send /\ s.send # k
          BY <4>2, <4>4 DEF Apart
        <5> QED BY <2>1, <4>1, <5>1 DEF Apart, ChannelIndices
      <4> QED BY <4>3, <4>4
    <3>2. CASE both \cap (obs \ {k}) # {}
      <4>0. taken.claims = both
        BY <2>3
      <4>1. send' = IF taken.send = NoChannel THEN last ELSE taken.send
        BY <2>2, <2>4, <3>2, <4>0 DEF Channels!Release, last
      <4>2. taken.send = IF s.send = k /\ k \notin s.claims THEN next ELSE s.send
        BY <2>3
      <4> QED BY <2>1, <2>5, <2>6, <4>1, <4>2 DEF Apart, ChannelIndices
    <3> QED BY <3>1, <3>2
  <2> QED BY <2>1, <2>2, <2>7, <2>8 DEF Lone
<1> QED BY <1>1, <1>2

(* Every operation and every step of a refresh keeps it.                   *)
LEMMA ChannelStep ==
  ASSUME ChannelIndices, ChannelInv, [Channels!Next]_(Channels!rcvars)
  PROVE  ChannelInv'
<1> DEFINE now == [claims |-> claims, send |-> send]
<1>0. /\ now \in [claims : SUBSET Channel, send : Channel \cup {NoChannel}]
      /\ now = Channels!Now /\ now.claims = claims /\ now.send = send
  BY DEF ChannelInv, Apart, Channels!Now
<1>1. ASSUME NEW u \in SUBSET Channel, NEW d \in SUBSET Channel, Channels!RefreshChannels(u, d)
      PROVE  ChannelInv'
  <2>1. /\ writable' = d /\ readable' = u /\ send' = Channels!Kept(send, d \ claims)
        /\ sync' = [pc |-> "syncing", lost |-> observers \ u, found |-> Named \cap u]
        /\ UNCHANGED <<claims, observers, control>>
    BY <1>1 DEF Channels!RefreshChannels
  <2>2. IF d \ claims = {} THEN send' = NoChannel ELSE send' \in d \ claims
    BY <2>1, FirstIsIn DEF Channels!Kept
  <2>3. Apart(claims, send', d)
    BY <2>2 DEF Apart, ChannelInv, ChannelIndices
  <2> QED BY <2>1, <2>3 DEF ChannelInv
<1>2. ASSUME NEW ch, Channels!Settle(Channels!Release(now, {ch}), observers \ {ch}),
             UNCHANGED <<readable, writable>>,
             sync' \in [pc : {"idle", "syncing"}, lost : SUBSET Channel, found : SUBSET Channel]
      PROVE  ChannelInv'
  <2> DEFINE s == Channels!Release(now, {ch})
  <2>1. /\ s \in [claims : SUBSET Channel, send : Channel \cup {NoChannel}]
        /\ s.claims = claims \ {ch} /\ Lone(s.claims) /\ Apart(s.claims, s.send, writable')
    BY <1>0, <1>2, ReleaseKeeps DEF ChannelInv
  <2> HIDE DEF s
  <2>2. s.claims \subseteq observers \ {ch} /\ observers \ {ch} \subseteq Channel /\ writable' \subseteq Channel
    BY <1>2, <2>1 DEF ChannelInv
  <2>3. Channels!Settle(s, observers \ {ch})
    BY <1>2 DEF s
  <2> QED BY <1>2, <2>1, <2>2, <2>3, SettleKeeps DEF ChannelInv
<1>3. ASSUME NEW obs, observers \subseteq obs, obs \subseteq Channel, Channels!Settle(now, obs),
             UNCHANGED <<readable, writable>>,
             sync' \in [pc : {"idle", "syncing"}, lost : SUBSET Channel, found : SUBSET Channel]
      PROVE  ChannelInv'
  <2>1. now.claims \subseteq obs /\ writable' \subseteq Channel /\ Lone(now.claims)
        /\ Apart(now.claims, now.send, writable')
    BY <1>0, <1>3 DEF ChannelInv
  <2> QED BY <1>0, <1>3, <2>1, SettleKeeps DEF ChannelInv
<1> HIDE DEF now
<1>4. ASSUME UNCHANGED <<readable, writable, observers, control, claims, send>>,
             sync' \in [pc : {"idle", "syncing"}, lost : SUBSET Channel, found : SUBSET Channel]
      PROVE  ChannelInv'
  BY <1>4 DEF ChannelInv
<1>5. ASSUME NEW ch \in Channel, Channels!SyncStops(ch) PROVE ChannelInv'
  <2>1. sync' \in [pc : {"idle", "syncing"}, lost : SUBSET Channel, found : SUBSET Channel]
    BY <1>5 DEF Channels!SyncStops, ChannelInv
  <2> QED BY <1>0, <1>2, <1>5, <2>1 DEF Channels!SyncStops
<1>6. ASSUME Channels!SyncStarts PROVE ChannelInv'
  <2> DEFINE ch == Channels!First(sync.found)
  <2>1. ch \in Channel
    BY <1>6, FirstIsIn DEF Channels!SyncStarts, ChannelInv
  <2>2. /\ sync' = [sync EXCEPT !.found = @ \ {ch}] /\ UNCHANGED <<readable, writable>>
        /\ \/ UNCHANGED <<observers, control, claims, send>>
           \/ Channels!Settle(now, observers \cup {ch})
    BY <1>0, <1>6 DEF Channels!SyncStarts
  <2> HIDE DEF ch
  <2>3. sync' \in [pc : {"idle", "syncing"}, lost : SUBSET Channel, found : SUBSET Channel]
    BY <2>2 DEF ChannelInv
  <2>4. observers \cup {ch} \subseteq Channel
    BY <2>1 DEF ChannelInv
  <2> QED BY <1>3, <1>4, <2>2, <2>3, <2>4
<1>7. ASSUME Channels!SyncEnds PROVE ChannelInv'
  <2>1. sync' \in [pc : {"idle", "syncing"}, lost : SUBSET Channel, found : SUBSET Channel]
    BY <1>7 DEF Channels!SyncEnds, ChannelInv
  <2>2. observers \subseteq Channel /\ Channels!Settle(now, observers) /\ UNCHANGED <<readable, writable>>
    BY <1>0, <1>7 DEF Channels!SyncEnds, ChannelInv
  <2> QED BY <1>3, <2>1, <2>2
<1>8. ASSUME NEW ch \in Channel, Channels!SystemviewAttach(ch) PROVE ChannelInv'
  <2>1. /\ UNCHANGED <<readable, writable, sync>>
        /\ \/ UNCHANGED <<observers, control, claims, send>>
           \/ Channels!Settle(now, observers \cup {ch})
    BY <1>0, <1>8 DEF Channels!SystemviewAttach
  <2>2. /\ observers \cup {ch} \subseteq Channel
        /\ sync' \in [pc : {"idle", "syncing"}, lost : SUBSET Channel, found : SUBSET Channel]
    BY <2>1 DEF ChannelInv
  <2> QED BY <1>3, <1>4, <2>1, <2>2
<1>9. ASSUME NEW ch \in Channel, Channels!SystemviewDetach(ch) PROVE ChannelInv'
  <2>1. sync' \in [pc : {"idle", "syncing"}, lost : SUBSET Channel, found : SUBSET Channel]
    BY <1>9 DEF Channels!SystemviewDetach, ChannelInv
  <2> QED BY <1>0, <1>2, <1>9, <2>1 DEF Channels!SystemviewDetach
<1>10. ASSUME NEW ch \in Channel, Channels!SetSendChannel(ch) PROVE ChannelInv'
  BY <1>10 DEF Channels!SetSendChannel, ChannelInv, Apart
<1>11. CASE (\E ch \in Channel : Channels!SetAutomationSource(ch)) \/ UNCHANGED Channels!rcvars
  BY <1>11 DEF Channels!SetAutomationSource, Channels!rcvars, ChannelInv
<1> QED BY <1>1, <1>5, <1>6, <1>7, <1>8, <1>9, <1>10, <1>11 DEF Channels!Next

(* The first channels are shared out like any others.                      *)
LEMMA ChannelInit == ChannelIndices /\ Channels!Init => ChannelInv
<1> SUFFICES ASSUME ChannelIndices, Channels!Init PROVE ChannelInv
  OBVIOUS
<1> DEFINE fit == observers \cap writable
           before == Channels!First(writable)
           other == Channels!First(writable \ claims)
<1>1. /\ readable \subseteq Channel /\ writable \subseteq Channel /\ observers \subseteq Channel
      /\ claims = IF fit = {} THEN {} ELSE {Channels!First(fit)}
      /\ control = claims /\ send = IF before \in claims THEN other ELSE before
      /\ sync = [pc |-> "idle", lost |-> {}, found |-> {}]
  BY DEF Channels!Init
<1>2. IF fit = {} THEN claims = {} ELSE \E ch \in fit : claims = {ch}
  BY <1>1, FirstIsIn
<1>3. IF writable = {} THEN before = NoChannel ELSE before \in writable
  BY <1>1, FirstIsIn
<1>4. IF writable \ claims = {} THEN other = NoChannel ELSE other \in writable \ claims
  BY <1>1, FirstIsIn
<1> HIDE DEF before, other
<1>5. Lone(claims) /\ claims \subseteq observers
  BY <1>1, <1>2 DEF Lone
<1>6. CASE before \in claims
  <2>1. send = other
    BY <1>1, <1>6
  <2> QED BY <1>1, <1>2, <1>4, <1>5, <2>1 DEF ChannelInv, Apart, ChannelIndices
<1>7. CASE before \notin claims
  <2>1. send = before
    BY <1>1, <1>7
  <2> QED BY <1>1, <1>2, <1>3, <1>5, <1>7, <2>1 DEF ChannelInv, Apart, ChannelIndices
<1> QED BY <1>6, <1>7

(* The invariant is what the channels are shared out by.                   *)
LEMMA ChannelsApartBy == ChannelInv => Channels!ChannelsApart
<1> SUFFICES ASSUME ChannelInv PROVE Channels!ChannelsApart
  OBVIOUS
<1>1. Cardinality(claims) \in {0, 1}
  BY FS_EmptySet, FS_Singleton DEF ChannelInv, Lone
<1>2. Channels!Cardinality(claims) = Cardinality(claims)
  BY DEF Channels!Cardinality, Cardinality
<1> QED BY <1>1, <1>2 DEF ChannelInv, Apart, Channels!ChannelsApart

(* SystemView's commands and what the user or a script sends never share a *)
(* channel, for any channels a refresh finds or loses, any order of the    *)
(* observers and at every step of a refresh (set_running,                  *)
(* claim_down_channel, release_down_channel, rebalance_systemview_control).*)
THEOREM ChannelsStayApart ==
  ASSUME ChannelIndices
  PROVE  Channels!Spec => []Channels!ChannelsApart
<1>1. Channels!Init => ChannelInv
  BY ChannelInit
<1>2. ChannelInv /\ [Channels!Next]_(Channels!rcvars) => ChannelInv'
  BY ChannelStep
<1>3. ChannelInv => Channels!ChannelsApart
  BY ChannelsApartBy
<1> QED BY <1>1, <1>2, <1>3, PTL DEF Channels!Spec

-----------------------------------------------------------------------------
(* The debug probe *)

(* None is no thread and no session.                                       *)
NoneIsNothing == None \notin ProbeThread \cup Session

ThreadState == [pc : {"unborn", "opening", "late", "offering", "refused", "failed", "serving", "checked", "started"},
                probe : BOOLEAN, exited : BOOLEAN, op : {None} \cup [by : Session, n : Nat]]
SessionState == [pc : {"idle", "opening", "target", "leased", "waiting", "dropping", "closing"},
                 w : ProbeThread \cup {None}, ops : Nat, cfg : Config \cup {None},
                 wait : {"none", "queued", "started", "answered", "ok", "unknown", "timeout"},
                 expired : BOOLEAN]
SlotType == slot \in [kind : {"vacant", "opening", "active"}, w : ProbeThread \cup {None}, cfg : Config \cup {None}]
ThreadType == wk \in [ProbeThread -> ThreadState]
QueueType == queue \in [ProbeThread -> Seq([by : Session, n : Nat])]
SessionType == ses \in [Session -> SessionState]
HolderType == lease \in [ProbeThread -> Session \cup {None}] /\ mutex \in Session \cup {None}
ProbeTypes == SlotType /\ ThreadType /\ QueueType /\ SessionType /\ HolderType

(* Every thread but the one of the slot has not begun or is through; one   *)
(* that is through has let the probe go.                                   *)
Behind ==
  /\ slot.kind # "vacant" => slot.w \in ProbeThread /\ wk[slot.w].pc # "unborn"
  /\ \A w \in ProbeThread :
       /\ wk[w].pc = "unborn" => ~wk[w].probe /\ ~wk[w].exited
       /\ wk[w].exited => ~wk[w].probe /\ wk[w].pc \in {"refused", "failed"}
       /\ slot.kind = "vacant" \/ w # slot.w => wk[w].pc = "unborn" \/ wk[w].exited
       /\ w \in shut => wk[w].pc \in {"serving", "checked", "started", "refused"}

(* Who has the target has the thread of the slot, with the settings it     *)
(* asked for, and that thread is not on its way out: nobody asks it to end *)
(* before the last reference goes.                                         *)
HasTarget(s) == ses[s].pc \in {"target", "leased", "waiting", "dropping"}
InUse ==
  /\ \A s \in Session :
       /\ ses[s].pc \in {"idle", "opening"} => ses[s].w = None
       /\ ses[s].pc = "opening" => mutex = s /\ slot.kind = "opening" /\ ses[s].cfg = slot.cfg
       /\ HasTarget(s) => /\ slot.kind = "active" /\ ses[s].w = slot.w /\ ses[s].cfg = slot.cfg
                          /\ slot.w \notin shut /\ wk[slot.w].pc \in {"serving", "checked", "started"}
       /\ ses[s].pc = "closing" => ses[s].w \in shut
       /\ ses[s].pc \in {"leased", "waiting"} => lease[ses[s].w] = s

ProbeInv == ProbeTypes /\ Behind /\ InUse

(* A step of one session writes its record and nobody else's.              *)
LEMMA OneSession ==
  ASSUME SessionType, NEW s \in Session, NEW r \in SessionState, ses' = [ses EXCEPT ![s] = r]
  PROVE  /\ SessionType'
         /\ ses'[s] = r
         /\ \A x \in Session : x # s => ses'[x] = ses[x]
BY DEF SessionType

(* So does a step of one thread.                                           *)
LEMMA OneThread ==
  ASSUME ThreadType, NEW w \in ProbeThread, NEW r \in ThreadState, wk' = [wk EXCEPT ![w] = r]
  PROVE  /\ ThreadType'
         /\ wk'[w] = r
         /\ \A x \in ProbeThread : x # w => wk'[x] = wk[x]
BY DEF ThreadType

(* What a thread tells a waiting session changes its result only.          *)
LEMMA OnlyWaits ==
  ASSUME SessionType, NEW b, NEW v \in {"started", "answered"},
         ses' = [ses EXCEPT ![b].wait = v] \/ ses' = ses
  PROVE  /\ SessionType'
         /\ \A x \in Session : ses'[x].pc = ses[x].pc /\ ses'[x].w = ses[x].w /\ ses'[x].cfg = ses[x].cfg
<1>1. CASE ses' = ses
  BY <1>1 DEF SessionType
<1>2. CASE ses' = [ses EXCEPT ![b].wait = v]
  <2>1. CASE b \notin Session
    BY <1>2, <2>1 DEF SessionType
  <2>2. CASE b \in Session
    <3> DEFINE r == [ses[b] EXCEPT !.wait = v]
    <3>1. ses[b] \in SessionState
      BY <2>2 DEF SessionType
    <3>2. r \in SessionState /\ r.pc = ses[b].pc /\ r.w = ses[b].w /\ r.cfg = ses[b].cfg
      BY <3>1 DEF SessionState
    <3>4. ses' = [ses EXCEPT ![b] = r]
      BY <1>2
    <3> HIDE DEF r
    <3>5. SessionType' /\ ses'[b] = r /\ \A x \in Session : x # b => ses'[x] = ses[x]
      BY <2>2, <3>2, <3>4, OneSession
    <3> QED BY <3>2, <3>5
  <2> QED BY <2>1, <2>2
<1> QED BY <1>1, <1>2

(* acquire_target.                                                         *)
LEMMA AcquireKeeps ==
  ASSUME NoneIsNothing, ProbeInv, NEW s \in Session, NEW cfg \in Config, Target!Acquire(s, cfg)
  PROVE  ProbeInv'
<1>0. ProbeTypes /\ Behind /\ InUse /\ ses[s] \in SessionState
  BY DEF ProbeInv, ProbeTypes, SessionType
<1>1. /\ UNCHANGED <<queue, shut, lease>> /\ ses[s].pc = "idle" /\ mutex = None /\ ses[s].w = None
  BY <1>0 DEF Target!Acquire, InUse
<1>2. QueueType' /\ lease' \in [ProbeThread -> Session \cup {None}]
  BY <1>0, <1>1 DEF ProbeTypes, QueueType, HolderType
<1>3. CASE slot.kind # "vacant" /\ ~Target!Stale
  <2>1. UNCHANGED <<slot, mutex, wk>>
    BY <1>3 DEF Target!Acquire
  <2>2. SlotType' /\ ThreadType' /\ HolderType'
    BY <1>0, <1>1, <2>1 DEF ProbeTypes, SlotType, ThreadType, HolderType
  <2>3. CASE slot.kind = "active" /\ Target!Holders(slot.w) # {} /\ slot.cfg = cfg
    <3> DEFINE r == [ses[s] EXCEPT !.cfg = cfg, !.pc = "target", !.w = slot.w]
    <3>1. ses' = [ses EXCEPT ![s] = r]
      <4>1. ses' = [ses EXCEPT ![s].cfg = cfg, ![s].pc = "target", ![s].w = slot.w, ![s].ops = @]
        BY <1>3, <2>3 DEF Target!Acquire
      <4> QED BY <1>0, <4>1 DEF ProbeTypes, SessionType, SessionState
    <3>2. slot.w \in ProbeThread
      BY <1>0, <1>3 DEF Behind
    <3>3. r \in SessionState /\ r.pc = "target" /\ r.w = slot.w /\ r.cfg = slot.cfg
      BY <1>0, <2>3, <3>2 DEF SessionState
    <3>4. PICK t \in Session : ses[t].w = slot.w /\ ses[t].pc # "closing"
      BY <2>3 DEF Target!Holders
    <3> HIDE DEF r
    <3>5. SessionType' /\ ses'[s] = r /\ \A x \in Session : x # s => ses'[x] = ses[x]
      BY <1>0, <3>1, <3>3, OneSession DEF ProbeTypes
    <3>6. HasTarget(t) /\ None \notin ProbeThread
      BY <1>0, <3>2, <3>4 DEF InUse, HasTarget, NoneIsNothing, ProbeTypes, SessionType, SessionState
    <3>7. Behind'
      BY <1>0, <1>1, <2>1 DEF Behind
    <3>9. InUse'
      BY <1>0, <1>1, <2>1, <2>3, <3>3, <3>5, <3>6 DEF InUse, HasTarget
    <3> QED BY <1>2, <2>2, <3>5, <3>7, <3>9 DEF ProbeInv, ProbeTypes
  <2>4. CASE ~(slot.kind = "active" /\ Target!Holders(slot.w) # {} /\ slot.cfg = cfg)
    <3>0. PICK n \in Nat : n = ses[s].ops + 1
      BY <1>0 DEF SessionState
    <3> DEFINE r == [ses[s] EXCEPT !.cfg = None, !.pc = "idle", !.w = None, !.ops = n]
    <3>1. ses' = [ses EXCEPT ![s] = r]
      <4>1. ses' = [ses EXCEPT ![s].cfg = None, ![s].pc = "idle", ![s].w = None, ![s].ops = @ + 1]
        BY <1>3, <2>4 DEF Target!Acquire
      <4> QED BY <1>0, <3>0, <4>1 DEF ProbeTypes, SessionType
    <3>3. r \in SessionState /\ r.pc = "idle" /\ r.w = None
      BY <1>0 DEF SessionState
    <3> HIDE DEF r
    <3>5. SessionType' /\ ses'[s] = r /\ \A x \in Session : x # s => ses'[x] = ses[x]
      BY <1>0, <3>1, <3>3, OneSession DEF ProbeTypes
    <3>7. Behind'
      BY <1>0, <1>1, <2>1 DEF Behind
    <3>9. InUse'
      BY <1>0, <1>1, <2>1, <3>3, <3>5 DEF InUse, HasTarget
    <3> QED BY <1>2, <2>2, <3>5, <3>7, <3>9 DEF ProbeInv, ProbeTypes
  <2> QED BY <2>3, <2>4
<1>4. CASE slot.kind = "vacant" \/ Target!Stale
  <2>1. PICK w \in ProbeThread :
          /\ wk[w].pc = "unborn"
          /\ slot' = [kind |-> "opening", w |-> w, cfg |-> cfg]
          /\ mutex' = s /\ wk' = [wk EXCEPT ![w].pc = "opening"]
          /\ ses' = [ses EXCEPT ![s].pc = "opening", ![s].cfg = cfg]
    BY <1>4 DEF Target!Acquire, Target!Unborn
  <2> DEFINE r == [ses[s] EXCEPT !.pc = "opening", !.cfg = cfg]
             k == [wk[w] EXCEPT !.pc = "opening"]
  <2>2. wk[w] \in ThreadState
    BY <1>0 DEF ProbeTypes, ThreadType
  <2>3. ses' = [ses EXCEPT ![s] = r] /\ wk' = [wk EXCEPT ![w] = k]
    BY <1>0, <2>1 DEF ProbeTypes, SessionType
  <2>5. r \in SessionState /\ r.pc = "opening" /\ r.w = None /\ r.cfg = cfg
    BY <1>0, <1>1 DEF SessionState
  <2>6. k \in ThreadState /\ k.pc = "opening" /\ k.probe = wk[w].probe /\ k.exited = wk[w].exited
    BY <2>2 DEF ThreadState
  <2> HIDE DEF r, k
  <2>7. SessionType' /\ ses'[s] = r /\ \A x \in Session : x # s => ses'[x] = ses[x]
    BY <1>0, <2>3, <2>5, OneSession DEF ProbeTypes
  <2>8. ThreadType' /\ wk'[w] = k /\ \A x \in ProbeThread : x # w => wk'[x] = wk[x]
    BY <1>0, <2>3, <2>6, OneThread DEF ProbeTypes
  <2>9. SlotType' /\ slot'.kind = "opening" /\ slot'.w = w /\ slot'.cfg = cfg
    BY <2>1 DEF SlotType
  <2>10. HolderType'
    BY <1>2, <2>1 DEF HolderType
  <2>11. \A x \in Session : ses[x].pc # "opening" /\ ~HasTarget(x)
    <3>1. slot.kind = "vacant" \/ wk[slot.w].pc \in {"refused", "failed"}
      BY <1>0, <1>4 DEF Target!Stale, Behind
    <3>2. \A x \in Session : ~HasTarget(x)
      BY <1>0, <3>1 DEF InUse
    <3>3. s # None /\ \A x \in Session : ses[x].pc = "opening" => mutex = x
      BY <1>0 DEF InUse, NoneIsNothing
    <3> QED BY <1>1, <3>2, <3>3 DEF NoneIsNothing
  <2>12. Behind'
    <3>1. \A x \in ProbeThread : x # w => wk[x].pc = "unborn" \/ wk[x].exited
      BY <1>0, <1>4 DEF Behind, Target!Stale
    <3> QED BY <1>0, <1>1, <2>1, <2>6, <2>8, <2>9, <3>1 DEF Behind
  <2>13. InUse'
    <3>1. SUFFICES ASSUME NEW x \in Session
                   PROVE  /\ ses'[x].pc \in {"idle", "opening"} => ses'[x].w = None
                          /\ ses'[x].pc = "opening" => mutex' = x /\ slot'.kind = "opening" /\ ses'[x].cfg = slot'.cfg
                          /\ ses'[x].pc \notin {"target", "leased", "waiting", "dropping"}
                          /\ ses'[x].pc = "closing" => ses'[x].w \in shut'
      BY DEF InUse, HasTarget
    <3>2. CASE x = s
      BY <2>1, <2>5, <2>7, <2>9, <3>2
    <3>3. CASE x # s
      BY <1>0, <1>1, <2>7, <2>11, <3>3 DEF InUse, HasTarget
    <3> QED BY <3>2, <3>3
  <2> QED BY <1>2, <2>7, <2>8, <2>9, <2>10, <2>12, <2>13 DEF ProbeInv, ProbeTypes
<1> QED BY <1>3, <1>4

(* A step of a session that leaves slot, threads and schedulers alone.     *)
LEMMA SessionKeeps ==
  ASSUME NoneIsNothing, ProbeInv, NEW s \in Session, NEW r \in SessionState, ses' = [ses EXCEPT ![s] = r],
         UNCHANGED <<slot, mutex, wk, shut>>, QueueType', lease' \in [ProbeThread -> Session \cup {None}],
         \A x \in Session \ {s} : ses[x].pc \in {"leased", "waiting"} => lease'[ses[x].w] = x,
         r.pc = "idle" => r.w = None,
         r.pc # "opening",
         r.pc \in {"target", "leased", "waiting", "dropping"}
           => HasTarget(s) /\ r.w = ses[s].w /\ r.cfg = ses[s].cfg,
         r.pc = "closing" => r.w \in shut,
         r.pc \in {"leased", "waiting"} => lease'[r.w] = s
  PROVE  ProbeInv'
<1>0. ProbeTypes /\ Behind /\ InUse
  BY DEF ProbeInv
<1>1. SessionType' /\ ses'[s] = r /\ \A x \in Session : x # s => ses'[x] = ses[x]
  BY <1>0, OneSession DEF ProbeTypes
<1>2. SlotType' /\ ThreadType' /\ HolderType' /\ Behind'
  BY <1>0 DEF ProbeTypes, SlotType, ThreadType, HolderType, Behind
<1>3. InUse'
  BY <1>0, <1>1 DEF InUse, HasTarget
<1> QED BY <1>1, <1>2, <1>3 DEF ProbeInv, ProbeTypes

(* A step of a thread; what it tells a session is a result.                *)
LEMMA ThreadKeeps ==
  ASSUME NoneIsNothing, ProbeInv, NEW w \in ProbeThread, NEW k \in ThreadState, wk' = [wk EXCEPT ![w] = k],
         UNCHANGED <<slot, mutex, shut, lease>>, QueueType', SessionType',
         \A x \in Session : ses'[x].pc = ses[x].pc /\ ses'[x].w = ses[x].w /\ ses'[x].cfg = ses[x].cfg,
         wk[w].pc # "unborn", k.pc # "unborn",
         wk[w].exited => k.exited,
         k.exited => ~k.probe /\ k.pc \in {"refused", "failed"},
         w \in shut => k.pc \in {"serving", "checked", "started", "refused"},
         wk[w].pc \in {"serving", "checked", "started"} /\ w \notin shut => k.pc \in {"serving", "checked", "started"}
  PROVE  ProbeInv'
<1>0. ProbeTypes /\ Behind /\ InUse
  BY DEF ProbeInv
<1>1. ThreadType' /\ wk'[w] = k /\ \A x \in ProbeThread : x # w => wk'[x] = wk[x]
  BY <1>0, OneThread DEF ProbeTypes
<1>2. SlotType' /\ HolderType'
  BY <1>0 DEF ProbeTypes, SlotType, HolderType
<1>3. Behind'
  BY <1>0, <1>1 DEF Behind
<1>4. InUse'
  <2>1. \A x \in Session : HasTarget(x)' <=> HasTarget(x)
    BY DEF HasTarget
  <2>2. \A x \in Session : HasTarget(x) => wk'[slot.w].pc \in {"serving", "checked", "started"}
    BY <1>0, <1>1 DEF InUse, Behind
  <2> QED BY <1>0, <2>1, <2>2 DEF InUse
<1> QED BY <1>1, <1>2, <1>3, <1>4 DEF ProbeInv, ProbeTypes

(* open, as its caller sees it.                                            *)
LEMMA OpenReturnsKeeps ==
  ASSUME NoneIsNothing, ProbeInv, NEW s \in Session, Target!OpenReturns(s)
  PROVE  ProbeInv'
<1>0. ProbeTypes /\ Behind /\ InUse /\ ses[s] \in SessionState
  BY DEF ProbeInv, ProbeTypes, SessionType
<1>1. /\ UNCHANGED <<queue, shut, lease>> /\ ses[s].pc = "opening" /\ mutex = s /\ slot.kind = "opening"
      /\ ses[s].cfg = slot.cfg /\ ses[s].w = None /\ mutex' = None /\ slot.w \in ProbeThread
  BY <1>0 DEF Target!OpenReturns, InUse, Behind
<1>2. QueueType' /\ HolderType'
  BY <1>0, <1>1 DEF ProbeTypes, QueueType, HolderType
<1>3. \A x \in Session : ~HasTarget(x) /\ (x # s => ses[x].pc # "opening")
  BY <1>0, <1>1 DEF InUse
<1>4. wk[slot.w] \in ThreadState /\ slot \in [kind : {"vacant", "opening", "active"}, w : ProbeThread \cup {None}, cfg : Config \cup {None}]
  BY <1>0, <1>1 DEF ProbeTypes, ThreadType, SlotType
<1> DEFINE k(p) == [wk[slot.w] EXCEPT !.pc = p]
<1>5. \A p \in {"serving", "late", "refused"} :
        k(p) \in ThreadState /\ k(p).pc = p /\ k(p).probe = wk[slot.w].probe /\ k(p).exited = wk[slot.w].exited
  BY <1>4 DEF ThreadState
<1>6. CASE wk[slot.w].pc = "offering" /\ wk' = [wk EXCEPT ![slot.w].pc = "serving"]
           /\ slot' = [slot EXCEPT !.kind = "active"]
           /\ ses' = [ses EXCEPT ![s].pc = "target", ![s].w = slot.w]
  <2> DEFINE r == [ses[s] EXCEPT !.pc = "target", !.w = slot.w]
  <2>1. ses' = [ses EXCEPT ![s] = r] /\ wk' = [wk EXCEPT ![slot.w] = k("serving")]
    BY <1>0, <1>6 DEF ProbeTypes, SessionType
  <2>2. r \in SessionState /\ r.pc = "target" /\ r.w = slot.w /\ r.cfg = slot.cfg
    BY <1>0, <1>1 DEF SessionState
  <2>3. SlotType' /\ slot'.kind = "active" /\ slot'.w = slot.w /\ slot'.cfg = slot.cfg
    BY <1>4, <1>6 DEF SlotType
  <2> HIDE DEF r, k
  <2>4. SessionType' /\ ses'[s] = r /\ \A x \in Session : x # s => ses'[x] = ses[x]
    BY <1>0, <2>1, <2>2, OneSession DEF ProbeTypes
  <2>5. ThreadType' /\ wk'[slot.w] = k("serving") /\ \A x \in ProbeThread : x # slot.w => wk'[x] = wk[x]
    BY <1>0, <1>1, <1>5, <2>1, OneThread DEF ProbeTypes
  <2>6. ~wk[slot.w].exited /\ slot.w \notin shut
    BY <1>0, <1>1, <1>6 DEF Behind
  <2>7. Behind'
    BY <1>0, <1>1, <1>5, <2>3, <2>5, <2>6 DEF Behind
  <2>8. InUse'
    <3>1. SUFFICES ASSUME NEW x \in Session
                   PROVE  /\ ses'[x].pc \in {"idle", "opening"} => ses'[x].w = None
                          /\ ses'[x].pc # "opening"
                          /\ ses'[x].pc \in {"target", "leased", "waiting", "dropping"}
                               => /\ slot'.kind = "active" /\ ses'[x].w = slot'.w /\ ses'[x].cfg = slot'.cfg
                                  /\ slot'.w \notin shut' /\ wk'[slot'.w].pc \in {"serving", "checked", "started"}
                          /\ ses'[x].pc = "closing" => ses'[x].w \in shut'
                          /\ ses'[x].pc \notin {"leased", "waiting"}
      BY DEF InUse, HasTarget
    <3>2. CASE x = s
      BY <1>1, <1>5, <2>2, <2>3, <2>4, <2>5, <2>6, <3>2
    <3>3. CASE x # s
      BY <1>0, <1>1, <1>3, <2>4, <3>3 DEF InUse, HasTarget
    <3> QED BY <3>2, <3>3
  <2> QED BY <1>2, <2>3, <2>4, <2>5, <2>7, <2>8 DEF ProbeInv, ProbeTypes
<1>7. CASE \/ /\ wk[slot.w].pc = "failed" /\ wk[slot.w].exited /\ slot' = Target!Vacant /\ UNCHANGED wk
              /\ ses' = [ses EXCEPT ![s].pc = "idle", ![s].cfg = None, ![s].ops = @ + 1]
           \/ /\ wk[slot.w].pc \in {"opening", "offering"} /\ UNCHANGED slot
              /\ wk' = [wk EXCEPT ![slot.w].pc = IF @ = "opening" THEN "late" ELSE "refused"]
              /\ ses' = [ses EXCEPT ![s].pc = "idle", ![s].cfg = None, ![s].ops = @ + 1]
  <2>0. PICK n \in Nat : n = ses[s].ops + 1
    BY <1>0 DEF SessionState
  <2> DEFINE r == [ses[s] EXCEPT !.pc = "idle", !.cfg = None, !.ops = n]
  <2>1. ses' = [ses EXCEPT ![s] = r]
    BY <1>0, <1>7, <2>0 DEF ProbeTypes, SessionType
  <2>2. r \in SessionState /\ r.pc = "idle" /\ r.w = None
    BY <1>0, <1>1 DEF SessionState
  <2> HIDE DEF r
  <2>3. SessionType' /\ ses'[s] = r /\ \A x \in Session : x # s => ses'[x] = ses[x]
    BY <1>0, <2>1, <2>2, OneSession DEF ProbeTypes
  <2>4. InUse'
    BY <1>0, <1>1, <1>3, <2>2, <2>3 DEF InUse, HasTarget
  <2>5. CASE wk[slot.w].exited /\ slot' = Target!Vacant /\ UNCHANGED wk
    <3>1. ThreadType' /\ SlotType' /\ slot'.kind = "vacant"
      BY <1>0, <2>5 DEF ProbeTypes, ThreadType, SlotType, Target!Vacant
    <3>2. Behind'
      BY <1>0, <1>1, <2>5, <3>1 DEF Behind
    <3> QED BY <1>2, <2>3, <2>4, <3>1, <3>2 DEF ProbeInv, ProbeTypes
  <2>6. CASE /\ wk[slot.w].pc \in {"opening", "offering"} /\ UNCHANGED slot
             /\ wk' = [wk EXCEPT ![slot.w].pc = IF @ = "opening" THEN "late" ELSE "refused"]
    <3>1. PICK p \in {"late", "refused"} : wk' = [wk EXCEPT ![slot.w].pc = p]
      BY <2>6
    <3>2. wk' = [wk EXCEPT ![slot.w] = k(p)]
      BY <3>1
    <3> HIDE DEF k
    <3>3. ThreadType' /\ wk'[slot.w] = k(p) /\ \A x \in ProbeThread : x # slot.w => wk'[x] = wk[x]
      BY <1>0, <1>1, <1>5, <3>2, OneThread DEF ProbeTypes
    <3>4. SlotType'
      BY <1>0, <2>6 DEF ProbeTypes, SlotType
    <3>5. Behind'
      BY <1>0, <1>1, <1>5, <2>6, <3>3 DEF Behind
    <3> QED BY <1>2, <2>3, <2>4, <3>3, <3>4, <3>5 DEF ProbeInv, ProbeTypes
  <2> QED BY <1>7, <2>5, <2>6
<1> QED BY <1>6, <1>7 DEF Target!OpenReturns

(* Leases, operations, results and references of the sessions.             *)
LEMMA SessionActs ==
  ASSUME NoneIsNothing, ProbeInv, NEW s \in Session,
         \/ Target!Lease(s) \/ Target!Enqueue(s) \/ Target!Expire(s) \/ Target!Result(s)
         \/ Target!Release(s) \/ Target!Closed(s)
  PROVE  ProbeInv'
<1>0. ProbeTypes /\ Behind /\ InUse /\ ses[s] \in SessionState
  BY DEF ProbeInv, ProbeTypes, SessionType
<1>1. UNCHANGED <<slot, mutex, wk, shut>>
  BY DEF Target!Lease, Target!Enqueue, Target!Expire, Target!Result, Target!Release, Target!Closed
<1>2. PICK n \in Nat : n = ses[s].ops + 1
  BY <1>0 DEF SessionState
<1>3. HasTarget(s) => ses[s].w = slot.w /\ ses[s].cfg = slot.cfg
  BY <1>0 DEF InUse
<1>4. \A x \in Session : ses[x].pc \in {"leased", "waiting"} => lease[ses[x].w] = x /\ ses[x].w = slot.w
  BY <1>0 DEF InUse, HasTarget
<1>5. QueueType /\ lease \in [ProbeThread -> Session \cup {None}]
  BY <1>0 DEF ProbeTypes, HolderType
<1>6. s # None /\ None \notin Session
  BY DEF NoneIsNothing
<1>7. HasTarget(s) => slot.w \in ProbeThread
  BY <1>0 DEF InUse, Behind
<1>8. CASE Target!Lease(s)
  <2>1. ses[s].pc = "target" /\ HasTarget(s) /\ UNCHANGED queue /\ QueueType'
    BY <1>5, <1>8 DEF Target!Lease, HasTarget, QueueType
  <2>2. CASE ses' = [ses EXCEPT ![s].pc = "dropping", ![s].ops = @ + 1] /\ UNCHANGED lease
    <3> DEFINE r == [ses[s] EXCEPT !.pc = "dropping", !.ops = n]
    <3>1. r \in SessionState /\ r.pc = "dropping" /\ r.w = ses[s].w /\ r.cfg = ses[s].cfg
      BY <1>0 DEF SessionState
    <3>2. ses' = [ses EXCEPT ![s] = r]
      BY <1>0, <1>2, <2>2 DEF ProbeTypes, SessionType
    <3> HIDE DEF r
    <3> QED BY <1>1, <1>4, <1>5, <2>1, <2>2, <3>1, <3>2, SessionKeeps
  <2>3. CASE lease[ses[s].w] = None /\ ses' = [ses EXCEPT ![s].pc = "leased"] /\ lease' = [lease EXCEPT ![ses[s].w] = s]
    <3> DEFINE r == [ses[s] EXCEPT !.pc = "leased"]
    <3>1. r \in SessionState /\ r.pc = "leased" /\ r.w = ses[s].w /\ r.cfg = ses[s].cfg
      BY <1>0 DEF SessionState
    <3>2. ses' = [ses EXCEPT ![s] = r]
      BY <2>3
    <3> HIDE DEF r
    <3>3. ses[s].w \in ProbeThread /\ lease' \in [ProbeThread -> Session \cup {None}] /\ lease'[ses[s].w] = s
      BY <1>3, <1>5, <1>7, <2>1, <2>3
    <3>4. \A x \in Session \ {s} : ses[x].pc \in {"leased", "waiting"} => lease'[ses[x].w] = x
      BY <1>3, <1>4, <1>6, <2>1, <2>3
    <3> QED BY <1>1, <2>1, <3>1, <3>2, <3>3, <3>4, SessionKeeps
  <2> QED BY <1>8, <2>2, <2>3 DEF Target!Lease
<1>9. CASE Target!Enqueue(s)
  <2>1. ses[s].pc = "leased" /\ HasTarget(s) /\ UNCHANGED lease /\ lease[ses[s].w] = s
    BY <1>4, <1>9 DEF Target!Enqueue, HasTarget
  <2>2. CASE ses' = [ses EXCEPT ![s].ops = @ + 1] /\ UNCHANGED queue
    <3> DEFINE r == [ses[s] EXCEPT !.ops = n]
    <3>1. r \in SessionState /\ r.pc = "leased" /\ r.w = ses[s].w /\ r.cfg = ses[s].cfg
      BY <1>0, <2>1 DEF SessionState
    <3>2. ses' = [ses EXCEPT ![s] = r]
      BY <1>0, <1>2, <2>2 DEF ProbeTypes, SessionType
    <3> HIDE DEF r
    <3>3. QueueType'
      BY <1>5, <2>2 DEF QueueType
    <3> QED BY <1>1, <1>4, <1>5, <2>1, <2>2, <3>1, <3>2, <3>3, SessionKeeps
  <2>3. CASE /\ queue' = [queue EXCEPT ![ses[s].w] = Append(@, [by |-> s, n |-> ses[s].ops])]
             /\ ses' = [ses EXCEPT ![s].pc = "waiting", ![s].wait = "queued", ![s].expired = FALSE]
    <3> DEFINE r == [ses[s] EXCEPT !.pc = "waiting", !.wait = "queued", !.expired = FALSE]
    <3>1. r \in SessionState /\ r.pc = "waiting" /\ r.w = ses[s].w /\ r.cfg = ses[s].cfg
      BY <1>0, <2>1 DEF SessionState
    <3>2. ses' = [ses EXCEPT ![s] = r]
      BY <1>0, <1>2, <2>3 DEF ProbeTypes, SessionType
    <3> HIDE DEF r
    <3>3. QueueType'
      <4>1. [by |-> s, n |-> ses[s].ops] \in [by : Session, n : Nat]
        BY <1>0 DEF SessionState
      <4> QED BY <1>5, <2>3, <4>1, AppendProperties DEF QueueType
    <3> QED BY <1>1, <1>4, <1>5, <2>1, <3>1, <3>2, <3>3, SessionKeeps
  <2> QED BY <1>9, <2>2, <2>3 DEF Target!Enqueue
<1>10. CASE Target!Expire(s)
  <2>1. ses[s].pc = "waiting" /\ HasTarget(s) /\ UNCHANGED <<queue, lease>> /\ QueueType' /\ lease[ses[s].w] = s
    BY <1>4, <1>5, <1>10 DEF Target!Expire, HasTarget, QueueType
  <2> DEFINE r == [ses[s] EXCEPT !.expired = TRUE]
  <2>2. r \in SessionState /\ r.pc = "waiting" /\ r.w = ses[s].w /\ r.cfg = ses[s].cfg
    BY <1>0, <2>1 DEF SessionState
  <2>3. ses' = [ses EXCEPT ![s] = r]
    BY <1>10 DEF Target!Expire
  <2> HIDE DEF r
  <2> QED BY <1>1, <1>4, <1>5, <2>1, <2>2, <2>3, SessionKeeps
<1>11. CASE Target!Result(s)
  <2>1. ses[s].pc = "waiting" /\ HasTarget(s) /\ UNCHANGED <<queue, lease>> /\ QueueType' /\ lease[ses[s].w] = s
    BY <1>4, <1>5, <1>11 DEF Target!Result, HasTarget, QueueType
  <2>2. PICK v \in {"ok", "unknown", "timeout"} :
          ses' = [ses EXCEPT ![s].pc = "leased", ![s].ops = @ + 1, ![s].expired = FALSE, ![s].wait = v]
    BY <1>11 DEF Target!Result
  <2> DEFINE r == [ses[s] EXCEPT !.pc = "leased", !.ops = n, !.expired = FALSE, !.wait = v]
  <2>3. r \in SessionState /\ r.pc = "leased" /\ r.w = ses[s].w /\ r.cfg = ses[s].cfg
    BY <1>0, <2>1 DEF SessionState
  <2>4. ses' = [ses EXCEPT ![s] = r]
    BY <1>0, <1>2, <2>2 DEF ProbeTypes, SessionType
  <2> HIDE DEF r
  <2> QED BY <1>1, <1>4, <1>5, <2>1, <2>3, <2>4, SessionKeeps
<1>12. CASE Target!Release(s)
  <2>1. ses[s].pc = "leased" /\ HasTarget(s) /\ UNCHANGED queue /\ QueueType' /\ lease[ses[s].w] = s
        /\ lease' = [lease EXCEPT ![ses[s].w] = None]
    BY <1>4, <1>5, <1>12 DEF Target!Release, HasTarget, QueueType
  <2> DEFINE r == [ses[s] EXCEPT !.pc = "dropping", !.wait = "none"]
  <2>2. r \in SessionState /\ r.pc = "dropping" /\ r.w = ses[s].w /\ r.cfg = ses[s].cfg
    BY <1>0, <2>1 DEF SessionState
  <2>3. ses' = [ses EXCEPT ![s] = r]
    BY <1>0, <1>12 DEF Target!Release, ProbeTypes, SessionType
  <2> HIDE DEF r
  <2>4. \A x \in Session \ {s} : ses[x].pc \notin {"leased", "waiting"}
    BY <1>3, <1>4, <2>1
  <2>5. lease' \in [ProbeThread -> Session \cup {None}]
    BY <1>5, <2>1
  <2> QED BY <1>1, <2>1, <2>2, <2>3, <2>4, <2>5, SessionKeeps
<1>13. CASE Target!Closed(s)
  <2>1. UNCHANGED <<queue, lease>> /\ QueueType'
    BY <1>5, <1>13 DEF Target!Closed, QueueType
  <2> DEFINE r == [ses[s] EXCEPT !.pc = "idle", !.w = None, !.cfg = None]
  <2>2. r \in SessionState /\ r.pc = "idle" /\ r.w = None
    BY <1>0 DEF SessionState
  <2>3. ses' = [ses EXCEPT ![s] = r]
    BY <1>0, <1>13 DEF Target!Closed, ProbeTypes, SessionType
  <2> HIDE DEF r
  <2> QED BY <1>1, <1>4, <1>5, <2>1, <2>2, <2>3, SessionKeeps
<1> QED BY <1>8, <1>9, <1>10, <1>11, <1>12, <1>13

(* The last reference to a target asks its thread to end.                  *)
LEMMA DropKeeps ==
  ASSUME NoneIsNothing, ProbeInv, NEW s \in Session, Target!DropTarget(s)
  PROVE  ProbeInv'
<1>0. ProbeTypes /\ Behind /\ InUse /\ ses[s] \in SessionState
  BY DEF ProbeInv, ProbeTypes, SessionType
<1>1. UNCHANGED <<slot, mutex, wk, lease>> /\ ses[s].pc = "dropping" /\ HasTarget(s)
  BY DEF Target!DropTarget, HasTarget
<1>2. ses[s].w = slot.w /\ slot.kind = "active" /\ slot.w \in ProbeThread
      /\ wk[slot.w].pc \in {"serving", "checked", "started"}
  BY <1>0, <1>1 DEF InUse, Behind
<1>3. \A x \in Session : ses[x].pc \in {"leased", "waiting"} => lease[ses[x].w] = x
  BY <1>0 DEF InUse
<1>4. CASE Target!Holders(ses[s].w) = {s}
  <2>1. shut' = shut \union {slot.w} /\ queue' = [queue EXCEPT ![slot.w] = <<>>]
        /\ ses' = [ses EXCEPT ![s].pc = "closing"]
    BY <1>2, <1>4 DEF Target!DropTarget
  <2> DEFINE r == [ses[s] EXCEPT !.pc = "closing"]
  <2>2. r \in SessionState /\ r.pc = "closing" /\ r.w = slot.w
    BY <1>0, <1>2 DEF SessionState
  <2>3. ses' = [ses EXCEPT ![s] = r]
    BY <2>1
  <2> HIDE DEF r
  <2>4. SessionType' /\ ses'[s] = r /\ \A x \in Session : x # s => ses'[x] = ses[x]
    BY <1>0, <2>2, <2>3, OneSession DEF ProbeTypes
  <2>5. \A x \in Session : x # s => ~HasTarget(x)
    <3> SUFFICES ASSUME NEW x \in Session, x # s, HasTarget(x) PROVE FALSE
      OBVIOUS
    <3>1. ses[x].w = slot.w /\ ses[x].pc # "closing"
      BY <1>0 DEF InUse, HasTarget
    <3> QED BY <1>2, <1>4, <3>1 DEF Target!Holders
  <2>6. QueueType'
    <3>1. <<>> \in Seq([by : Session, n : Nat])
      OBVIOUS
    <3> QED BY <1>0, <2>1, <3>1 DEF ProbeTypes, QueueType
  <2>7. Behind'
    BY <1>0, <1>1, <1>2, <2>1 DEF Behind
  <2>8. InUse'
    BY <1>0, <1>1, <2>1, <2>2, <2>4, <2>5 DEF InUse, HasTarget
  <2>9. SlotType' /\ ThreadType' /\ HolderType'
    BY <1>0, <1>1 DEF ProbeTypes, SlotType, ThreadType, HolderType
  <2> QED BY <2>4, <2>6, <2>7, <2>8, <2>9 DEF ProbeInv, ProbeTypes
<1>5. CASE Target!Holders(ses[s].w) # {s}
  <2>1. UNCHANGED <<shut, queue>> /\ ses' = [ses EXCEPT ![s].pc = "idle", ![s].w = None, ![s].cfg = None]
    BY <1>5 DEF Target!DropTarget
  <2> DEFINE r == [ses[s] EXCEPT !.pc = "idle", !.w = None, !.cfg = None]
  <2>2. r \in SessionState /\ r.pc = "idle" /\ r.w = None
    BY <1>0 DEF SessionState
  <2>3. ses' = [ses EXCEPT ![s] = r]
    BY <1>0, <2>1 DEF ProbeTypes, SessionType
  <2> HIDE DEF r
  <2>4. QueueType' /\ lease \in [ProbeThread -> Session \cup {None}]
    BY <1>0, <2>1 DEF ProbeTypes, QueueType, HolderType
  <2> QED BY <1>1, <1>3, <2>1, <2>2, <2>3, <2>4, SessionKeeps
<1> QED BY <1>4, <1>5

(* The threads.                                                            *)
LEMMA ThreadActs ==
  ASSUME NoneIsNothing, ProbeInv, NEW w \in ProbeThread, Target!WorkerRuns(w)
  PROVE  ProbeInv'
<1>0. ProbeTypes /\ Behind /\ InUse /\ wk[w] \in ThreadState
  BY DEF ProbeInv, ProbeTypes, ThreadType
<1>1. UNCHANGED <<slot, mutex, shut, lease>>
  BY DEF Target!WorkerRuns, Target!Opens, Target!NextOp, Target!Starts, Target!Answers, Target!ShutsDown, Target!LetsGo
<1>2. /\ wk[w].pc = "unborn" => ~wk[w].probe /\ ~wk[w].exited
      /\ wk[w].exited => ~wk[w].probe /\ wk[w].pc \in {"refused", "failed"}
      /\ w \in shut => wk[w].pc \in {"serving", "checked", "started", "refused"}
  BY <1>0 DEF Behind
<1>3. UNCHANGED queue => QueueType'
  BY <1>0 DEF ProbeTypes, QueueType
<1>4. UNCHANGED ses => SessionType' /\ \A x \in Session : ses'[x].pc = ses[x].pc /\ ses'[x].w = ses[x].w /\ ses'[x].cfg = ses[x].cfg
  BY <1>0 DEF ProbeTypes, SessionType
<1>5. CASE Target!Opens(w)
  <2>1. wk[w].pc \in {"opening", "late"} /\ UNCHANGED <<queue, ses>>
    BY <1>5 DEF Target!Opens
  <2>2. PICK k \in ThreadState : wk' = [wk EXCEPT ![w] = k] /\ k.pc \in {"refused", "offering", "failed"} /\ ~k.exited
    <3>1. CASE wk' = [wk EXCEPT ![w].pc = "failed"]
      <4>1. [wk[w] EXCEPT !.pc = "failed"] \in ThreadState /\ [wk[w] EXCEPT !.pc = "failed"].pc = "failed"
            /\ ~[wk[w] EXCEPT !.pc = "failed"].exited
        BY <1>0, <1>2, <2>1 DEF ThreadState
      <4> QED BY <3>1, <4>1
    <3>2. CASE wk' = [wk EXCEPT ![w].pc = IF @ = "late" THEN "refused" ELSE "offering", ![w].probe = TRUE]
      <4>1. PICK p \in {"refused", "offering"} : wk' = [wk EXCEPT ![w].pc = p, ![w].probe = TRUE]
        BY <3>2
      <4> DEFINE k == [wk[w] EXCEPT !.pc = p, !.probe = TRUE]
      <4>2. k \in ThreadState /\ k.pc = p /\ ~k.exited
        BY <1>0, <1>2, <2>1 DEF ThreadState
      <4>3. wk' = [wk EXCEPT ![w] = k]
        BY <1>0, <4>1 DEF ProbeTypes, ThreadType
      <4> QED BY <4>2, <4>3
    <3> QED BY <1>5, <3>1, <3>2 DEF Target!Opens
  <2> QED BY <1>1, <1>2, <1>3, <1>4, <2>1, <2>2, ThreadKeeps
<1>6. CASE Target!NextOp(w)
  <2>1. wk[w].pc = "serving" /\ w \notin shut /\ queue[w] # <<>> /\ queue' = [queue EXCEPT ![w] = Tail(@)]
    BY <1>6 DEF Target!NextOp
  <2>2. Head(queue[w]) \in [by : Session, n : Nat] /\ Tail(queue[w]) \in Seq([by : Session, n : Nat])
    BY <1>0, <2>1, HeadTailProperties DEF ProbeTypes, QueueType
  <2>3. QueueType'
    BY <1>0, <2>1, <2>2 DEF ProbeTypes, QueueType
  <2>4. \/ ses' = [ses EXCEPT ![Head(queue[w]).by].wait = "answered"]
        \/ ses' = ses
    BY <1>6 DEF Target!NextOp
  <2>5. SessionType' /\ \A x \in Session : ses'[x].pc = ses[x].pc /\ ses'[x].w = ses[x].w /\ ses'[x].cfg = ses[x].cfg
    BY <1>0, <2>4, OnlyWaits DEF ProbeTypes
  <2>6. PICK p \in {"serving", "checked"}, o \in {None} \cup [by : Session, n : Nat] :
          wk' = [wk EXCEPT ![w].pc = p, ![w].op = o]
    <3>1. \/ wk' = [wk EXCEPT ![w].pc = wk[w].pc, ![w].op = None]
          \/ wk' = [wk EXCEPT ![w].pc = "checked", ![w].op = Head(queue[w])]
      BY <1>0, <1>6 DEF Target!NextOp, ProbeTypes, ThreadType
    <3> QED BY <2>1, <2>2, <3>1
  <2> DEFINE k == [wk[w] EXCEPT !.pc = p, !.op = o]
  <2>7. k \in ThreadState /\ k.pc = p /\ ~k.exited
    BY <1>0, <1>2, <2>1 DEF ThreadState
  <2>8. wk' = [wk EXCEPT ![w] = k]
    BY <1>0, <2>6 DEF ProbeTypes, ThreadType
  <2> HIDE DEF k
  <2> QED BY <1>1, <1>2, <2>1, <2>3, <2>5, <2>7, <2>8, ThreadKeeps
<1>7. CASE Target!Starts(w)
  <2>1. wk[w].pc = "checked" /\ wk' = [wk EXCEPT ![w].pc = "started"] /\ UNCHANGED queue
    BY <1>7 DEF Target!Starts
  <2>4. ses' = [ses EXCEPT ![wk[w].op.by].wait = "started"] \/ ses' = ses
    BY <1>7 DEF Target!Starts
  <2>5. SessionType' /\ \A x \in Session : ses'[x].pc = ses[x].pc /\ ses'[x].w = ses[x].w /\ ses'[x].cfg = ses[x].cfg
    BY <1>0, <2>4, OnlyWaits DEF ProbeTypes
  <2> DEFINE k == [wk[w] EXCEPT !.pc = "started"]
  <2>7. k \in ThreadState /\ k.pc = "started" /\ ~k.exited
    BY <1>0, <1>2, <2>1 DEF ThreadState
  <2>8. wk' = [wk EXCEPT ![w] = k]
    BY <2>1
  <2> HIDE DEF k
  <2> QED BY <1>1, <1>2, <1>3, <2>1, <2>5, <2>7, <2>8, ThreadKeeps
<1>8. CASE Target!Answers(w)
  <2>1. wk[w].pc = "started" /\ wk' = [wk EXCEPT ![w].pc = "serving", ![w].op = None] /\ UNCHANGED queue
    BY <1>8 DEF Target!Answers
  <2>4. ses' = [ses EXCEPT ![wk[w].op.by].wait = "answered"] \/ ses' = ses
    BY <1>8 DEF Target!Answers
  <2>5. SessionType' /\ \A x \in Session : ses'[x].pc = ses[x].pc /\ ses'[x].w = ses[x].w /\ ses'[x].cfg = ses[x].cfg
    BY <1>0, <2>4, OnlyWaits DEF ProbeTypes
  <2> DEFINE k == [wk[w] EXCEPT !.pc = "serving", !.op = None]
  <2>7. k \in ThreadState /\ k.pc = "serving" /\ ~k.exited
    BY <1>0, <1>2, <2>1 DEF ThreadState
  <2>8. wk' = [wk EXCEPT ![w] = k]
    BY <1>0, <2>1 DEF ProbeTypes, ThreadType
  <2> HIDE DEF k
  <2> QED BY <1>1, <1>2, <1>3, <2>1, <2>5, <2>7, <2>8, ThreadKeeps
<1>9. CASE Target!ShutsDown(w)
  <2>1. wk[w].pc = "serving" /\ w \in shut /\ wk' = [wk EXCEPT ![w].pc = "refused"] /\ UNCHANGED <<queue, ses>>
    BY <1>9 DEF Target!ShutsDown
  <2> DEFINE k == [wk[w] EXCEPT !.pc = "refused"]
  <2>7. k \in ThreadState /\ k.pc = "refused" /\ ~k.exited
    BY <1>0, <1>2, <2>1 DEF ThreadState
  <2>8. wk' = [wk EXCEPT ![w] = k]
    BY <2>1
  <2> HIDE DEF k
  <2> QED BY <1>1, <1>2, <1>3, <1>4, <2>1, <2>7, <2>8, ThreadKeeps
<1>10. CASE Target!LetsGo(w)
  <2>1. wk[w].pc \in {"refused", "failed"} /\ ~wk[w].exited /\ UNCHANGED <<queue, ses>>
    BY <1>10 DEF Target!LetsGo
  <2>2. PICK k \in ThreadState : /\ wk' = [wk EXCEPT ![w] = k] /\ k.pc = wk[w].pc
                                 /\ k.exited => ~k.probe
    <3>1. CASE wk[w].probe
      <4> DEFINE k == [wk[w] EXCEPT !.probe = FALSE]
      <4>1. k \in ThreadState /\ k.pc = wk[w].pc /\ ~k.probe
        BY <1>0 DEF ThreadState
      <4>2. wk' = [wk EXCEPT ![w] = k]
        BY <1>10, <3>1 DEF Target!LetsGo
      <4> QED BY <4>1, <4>2
    <3>2. CASE ~wk[w].probe
      <4> DEFINE k == [wk[w] EXCEPT !.exited = TRUE]
      <4>1. k \in ThreadState /\ k.pc = wk[w].pc /\ ~k.probe
        BY <1>0, <3>2 DEF ThreadState
      <4>2. wk' = [wk EXCEPT ![w] = k]
        BY <1>10, <3>2 DEF Target!LetsGo
      <4> QED BY <4>1, <4>2
    <3> QED BY <3>1, <3>2
  <2> QED BY <1>1, <1>2, <1>3, <1>4, <2>1, <2>2, ThreadKeeps
<1> QED BY <1>5, <1>6, <1>7, <1>8, <1>9, <1>10 DEF Target!WorkerRuns

(* Every step of a session or of a thread keeps it.                        *)
LEMMA ProbeStep ==
  ASSUME NoneIsNothing, ProbeInv, [Target!Next]_(Target!dtvars)
  PROVE  ProbeInv'
<1>1. CASE Target!Next
  BY <1>1, AcquireKeeps, OpenReturnsKeeps, SessionActs, DropKeeps, ThreadActs DEF Target!Next, Target!SessionRuns
<1>2. CASE UNCHANGED Target!dtvars
  BY <1>2 DEF Target!dtvars, ProbeInv, ProbeTypes, SlotType, ThreadType, QueueType, SessionType, HolderType,
              Behind, InUse, HasTarget
<1> QED BY <1>1, <1>2

(* Nobody has asked for the probe yet.                                     *)
LEMMA ProbeInit ==
  ASSUME Target!Init
  PROVE  ProbeInv
<1>1. SlotType /\ HolderType /\ slot.kind = "vacant"
  BY DEF Target!Init, Target!Vacant, SlotType, HolderType
<1>2. ThreadType
  BY DEF Target!Init, ThreadType, ThreadState
<1>3. SessionType
  BY DEF Target!Init, SessionType, SessionState
<1>4. QueueType
  <2>1. <<>> \in Seq([by : Session, n : Nat])
    OBVIOUS
  <2> QED BY <2>1 DEF Target!Init, QueueType
<1>5. Behind
  BY <1>1 DEF Target!Init, Behind
<1>6. InUse
  BY DEF Target!Init, InUse, HasTarget
<1> QED BY <1>1, <1>2, <1>3, <1>4, <1>5, <1>6 DEF ProbeInv, ProbeTypes

(* At most the thread of the slot has the probe.                           *)
LEMMA OneOwnerBy ==
  ASSUME ProbeInv
  PROVE  Target!OneProbeOwner
<1>0. Behind /\ InUse
  BY DEF ProbeInv
<1>1. {w \in ProbeThread : wk[w].probe} \subseteq {slot.w}
  BY <1>0 DEF Behind
<1>2. Cardinality({w \in ProbeThread : wk[w].probe}) <= 1
  <2>1. IsFiniteSet({slot.w}) /\ Cardinality({slot.w}) = 1
    BY FS_Singleton
  <2> QED BY <1>1, <2>1, FS_Subset
<1>3. Target!Cardinality({w \in ProbeThread : wk[w].probe}) = Cardinality({w \in ProbeThread : wk[w].probe})
  BY DEF Target!Cardinality, Cardinality
<1>4. \A s \in Session : ses[s].pc \in {"leased", "waiting"} =>
         lease[ses[s].w] = s /\ slot.w = ses[s].w /\ slot.cfg = ses[s].cfg
  BY <1>0 DEF InUse, HasTarget
<1> QED BY <1>2, <1>3, <1>4 DEF Target!OneProbeOwner

(* Whatever openings are given up and whoever comes and goes, no two       *)
(* threads have the debug probe, and a session works with the target       *)
(* settings it asked for (EmbeddedDebugManager, WorkerExitGuard).          *)
THEOREM ProbeHasOneOwner ==
  ASSUME NoneIsNothing
  PROVE  Target!Spec => []Target!OneProbeOwner
<1>1. Target!Init => ProbeInv
  BY ProbeInit
<1>2. ProbeInv /\ [Target!Next]_(Target!dtvars) => ProbeInv'
  BY ProbeStep
<1>3. ProbeInv => Target!OneProbeOwner
  BY OneOwnerBy
<1> QED BY <1>1, <1>2, <1>3, PTL DEF Target!Spec

-----------------------------------------------------------------------------
(* A TRDP session *)

(* No thread is the one that shuts the session down, or None, and None is  *)
(* no answer.                                                              *)
TrdpNames ==
  None \notin Trdp!Thread \cup {"ok", "err"} /\ Trdp!Cleaner \notin Trdp!Thread

Places == {"start", "announce", "idle", "spawn", "recheck", "arm", "open", "opening", "stop", "kill", "clear",
           "operate", "failed", "release", "asking", "waiting", "done"}
Mind == [request : Nat, answer : {None, "ok", "err"}, op : Trdp!Op \cup {None}, previous : Nat, new : Nat]
AtType == at \in [Trdp!Thread \cup {Trdp!Cleaner} -> Places]
LocalType == local \in [Trdp!Thread -> Mind]
FlagsType == flags \in [alive : BOOLEAN, ready : BOOLEAN, shutting : BOOLEAN, closed : BOOLEAN]
LocksType == locks \in [start : Trdp!Thread \cup {None}, control : Trdp!Thread \cup {None},
                        lifecycle : Trdp!Gen \cup {0}]
CaptureType == capture \in [id : Nat, running : BOOLEAN, made : Nat] /\ store \subseteq Nat
BridgeType == bridge \in [Trdp!Gen -> [up : BOOLEAN, reader : {"none", "unborn", "reading", "ending", "done"}]]
OpsType == ops \in [issued : Nat, requests : Nat]
TrdpTypes == AtType /\ LocalType /\ FlagsType /\ LocksType /\ CaptureType /\ BridgeType /\ OpsType

(* Who is in the middle of a start holds its lock.                         *)
Starting == {"spawn", "recheck", "arm", "open", "opening", "stop", "kill", "clear"}
StartHeld == \A t \in Trdp!Thread : at[t] \in Starting <=> locks.start = t

(* A bridge in its slot that no start holds is ready; if it is no longer   *)
(* alive, its reader is about to say so. A start that failed empties it.    *)
Opened ==
  /\ at[Trdp!Cleaner] = "idle" <=> session = "open"
  /\ session = "open" => \A t \in Trdp!Thread : at[t] \in {"open", "opening"} => ~flags.shutting
  /\ \A t \in Trdp!Thread : at[t] = "clear" => child = 0
  /\ session = "open" /\ child # 0 /\ locks.start = None =>
        /\ flags.ready /\ ~flags.shutting
        /\ flags.alive \/ \E g \in Trdp!Gen : bridge[g].reader = "ending"

(* After the shutdown has killed the bridge no start gives it a usable one.*)
Gone ==
  /\ at[Trdp!Cleaner] \in {"kill", "clear", "done"} => flags.closed
  /\ at[Trdp!Cleaner] \in {"clear", "done"} =>
     /\ ~(flags.alive /\ child # 0)
     /\ flags.alive => \E t \in Trdp!Thread : locks.start = t /\ at[t] \in {"open", "opening", "stop", "kill"}
     /\ child # 0 => \E t \in Trdp!Thread : locks.start = t /\ at[t] \in {"recheck", "stop", "kill"}
     /\ \A t \in Trdp!Thread : at[t] = "opening" /\ flags.alive => local[t].answer = "err"

(* A request that was answered is no longer pending, and the next one has  *)
(* a number of its own.                                                    *)
AskingOf(t) ==
  /\ local[t].request <= ops.requests
  /\ local[t].answer # None => local[t].request \notin pending
  /\ at[t] \notin {"opening", "waiting", "stop", "kill", "clear"} => local[t].request = 0 /\ local[t].answer = None
Asking ==
  /\ \A r \in pending : r # 0 /\ \E t \in Trdp!Thread : r = local[t].request
  /\ \A t \in Trdp!Thread : AskingOf(t)

(* Who starts or stops a capture holds its lock.                           *)
ControlOf(t) ==
  /\ locks.control = t <=>
       at[t] = "asking" \/ (at[t] = "waiting" /\ local[t].op \in {"capture_start", "capture_stop"})
  /\ at[t] = "asking" => local[t].op = "capture_start"
Control == \A t \in Trdp!Thread : ControlOf(t)

(* The store holds the capture of the session, and while another one is    *)
(* being started the one it would replace.                                 *)
Sets(t) == locks.control = t /\ local[t].op = "capture_start"
KeptBy(t) ==
  /\ local[t].previous # local[t].new /\ store \subseteq {local[t].previous, local[t].new}
  /\ local[t].new \in 1..capture.made /\ local[t].previous <= capture.made
  /\ at[t] = "asking" => capture.id \in {local[t].previous, 0}
  /\ at[t] = "waiting" => /\ capture.id \in {local[t].new, 0}
                          /\ capture.id = 0 => local[t].new \notin store
Kept ==
  /\ 0 \notin store /\ (\A c \in store : c <= capture.made) /\ capture.id <= capture.made
  /\ (\A t \in Trdp!Thread : ~Sets(t)) => store \subseteq {capture.id}
  /\ \A t \in Trdp!Thread : Sets(t) => KeptBy(t)

(* A start of a capture that comes after the shutdown fails.               *)
After ==
  at[Trdp!Cleaner] = "done" =>
     /\ (\A t \in Trdp!Thread : ~Sets(t)) => capture.id = 0
     /\ \A t \in Trdp!Thread : Sets(t) => local[t].previous = 0 /\ (at[t] = "waiting" => local[t].answer = "err")

TrdpInv == TrdpTypes /\ StartHeld /\ Opened /\ Gone /\ Asking /\ Control /\ Kept /\ After

(* A request: the waiter is entered, or the request fails at once.         *)
LEMMA AskDoes ==
  ASSUME TrdpNames, AtType, LocalType, OpsType, NEW t \in Trdp!Thread, NEW label \in Places, Trdp!Ask(t, label)
  PROVE  /\ AtType' /\ LocalType' /\ OpsType'
         /\ at'[t] = label /\ (\A x \in Trdp!Thread : x # t => at'[x] = at[x])
         /\ at'[Trdp!Cleaner] = at[Trdp!Cleaner]
         /\ ops'.requests = ops.requests + 1 /\ local'[t].request = ops.requests + 1
         /\ local'[t].op = local[t].op /\ local'[t].previous = local[t].previous /\ local'[t].new = local[t].new
         /\ \A u \in Trdp!Thread : u # t => local'[u] = local[u]
         /\ \/ flags.alive /\ child # 0 /\ pending' = pending \cup {ops.requests + 1} /\ local'[t].answer = None
            \/ ~(flags.alive /\ child # 0) /\ pending' = pending /\ local'[t].answer = "err"
<1>0. t # Trdp!Cleaner /\ local[t] \in Mind /\ ops.requests \in Nat
  BY DEF TrdpNames, LocalType, OpsType
<1>1. /\ AtType' /\ at'[t] = label
      /\ (\A x \in Trdp!Thread : x # t => at'[x] = at[x]) /\ at'[Trdp!Cleaner] = at[Trdp!Cleaner]
  BY <1>0 DEF Trdp!Ask, Trdp!Goes, AtType
<1>2. OpsType' /\ ops'.requests = ops.requests + 1
  BY DEF Trdp!Ask, Trdp!Fresh, OpsType
<1>3. PICK n \in Nat : n = ops.requests + 1
  BY <1>0
<1>4. PICK a \in {None, "err"} :
        /\ local' = [local EXCEPT ![t].request = n, ![t].answer = a]
        /\ \/ flags.alive /\ child # 0 /\ pending' = pending \cup {n} /\ a = None
           \/ ~(flags.alive /\ child # 0) /\ pending' = pending /\ a = "err"
  BY <1>3 DEF Trdp!Ask, Trdp!Fresh, Trdp!CanSend
<1> DEFINE r == [local[t] EXCEPT !.request = n, !.answer = a]
<1>5. local' = [local EXCEPT ![t] = r]
  BY <1>4 DEF LocalType
<1>6. /\ r \in Mind /\ r.request = n /\ r.answer = a
      /\ r.op = local[t].op /\ r.previous = local[t].previous /\ r.new = local[t].new
  BY <1>0 DEF Mind
<1> HIDE DEF r
<1>7. LocalType' /\ local'[t] = r /\ \A u \in Trdp!Thread : u # t => local'[u] = local[u]
  BY <1>5, <1>6 DEF LocalType
<1> QED BY <1>1, <1>2, <1>3, <1>4, <1>6, <1>7

(* Its number is nobody else's.                                            *)
LEMMA AskKeepsAsking ==
  ASSUME TrdpNames, AtType, LocalType, OpsType, Asking, NEW t \in Trdp!Thread, NEW label \in {"opening", "waiting"},
         Trdp!Ask(t, label), at[t] \in {"open", "asking", "operate"}
  PROVE  Asking'
<1>0. label \in Places /\ ops.requests \in Nat /\ local[t].request = 0
  BY DEF Places, OpsType, Asking, AskingOf
<1>1. /\ at'[t] = label /\ (\A x \in Trdp!Thread : x # t => at'[x] = at[x])
      /\ ops'.requests = ops.requests + 1 /\ local'[t].request = ops.requests + 1
      /\ \A u \in Trdp!Thread : u # t => local'[u] = local[u]
      /\ pending' \subseteq pending \cup {ops.requests + 1}
      /\ local'[t].answer # None => pending' = pending
  BY <1>0, AskDoes
<1>2. \A r \in pending' : r # 0 /\ \E u \in Trdp!Thread : r = local'[u].request
  <2> SUFFICES ASSUME NEW r \in pending' PROVE r # 0 /\ \E u \in Trdp!Thread : r = local'[u].request
    OBVIOUS
  <2>1. CASE r = ops.requests + 1
    BY <1>0, <1>1, <2>1
  <2>2. CASE r \in pending
    <3>1. r # 0 /\ \E u \in Trdp!Thread : r = local[u].request
      BY <2>2 DEF Asking
    <3> QED BY <1>0, <1>1, <3>1
  <2> QED BY <1>1, <2>1, <2>2
<1>3. \A q \in pending : q <= ops.requests /\ q \in Nat
  BY DEF Asking, AskingOf, LocalType, Mind
<1>4. ASSUME NEW u \in Trdp!Thread PROVE AskingOf(u)'
  <2>0. AskingOf(u) /\ local[u].request \in Nat
    BY DEF Asking, LocalType, Mind
  <2>1. CASE u = t
    <3>1. ops.requests + 1 \notin pending
      BY <1>0, <1>3
    <3> QED BY <1>0, <1>1, <2>1, <3>1 DEF AskingOf
  <2>2. CASE u # t
    <3>1. local[u].request # ops.requests + 1 /\ local[u].request <= ops.requests + 1
      BY <1>0, <2>0 DEF AskingOf
    <3> QED BY <1>1, <2>0, <2>2, <3>1 DEF AskingOf
  <2> QED BY <2>1, <2>2
<1> QED BY <1>2, <1>4 DEF Asking

(* A step that asks nothing and answers nobody.                            *)
LEMMA AskingFrame ==
  ASSUME Asking, pending' = pending, ops'.requests = ops.requests,
         \A u \in Trdp!Thread :
           /\ local'[u].request = local[u].request /\ local'[u].answer = local[u].answer
           /\ at[u] \in {"opening", "waiting", "stop", "kill", "clear"}
              => at'[u] \in {"opening", "waiting", "stop", "kill", "clear"}
  PROVE  Asking'
BY DEF Asking, AskingOf

(* A step that takes and leaves no control lock.                           *)
LEMMA ControlFrame ==
  ASSUME Control, locks'.control = locks.control,
         \A u \in Trdp!Thread : /\ local'[u].op = local[u].op
                                /\ at'[u] = "asking" <=> at[u] = "asking"
                                /\ at'[u] = "waiting" <=> at[u] = "waiting"
  PROVE  Control'
BY DEF Control, ControlOf

(* What the others do to the captures does not matter to a step that does  *)
(* not touch them.                                                         *)
LEMMA KeptFrame ==
  ASSUME Kept, store' = store, capture'.id = capture.id, capture'.made = capture.made,
         \A u \in Trdp!Thread : (locks'.control = u /\ local'[u].op = "capture_start") <=> Sets(u),
         \A u \in Trdp!Thread : Sets(u) => /\ local'[u].previous = local[u].previous /\ local'[u].new = local[u].new
                                           /\ at'[u] = at[u]
  PROVE  Kept'
<1>1. \A u \in Trdp!Thread : Sets(u)' <=> Sets(u)
  BY DEF Sets
<1>2. ASSUME NEW u \in Trdp!Thread, Sets(u)'
      PROVE  KeptBy(u)'
  <2>1. Sets(u)
    BY <1>1, <1>2
  <2>2. KeptBy(u)
    BY <2>1 DEF Kept
  <2> QED BY <2>1, <2>2 DEF KeptBy
<1> QED BY <1>1, <1>2 DEF Kept

(* Nobody is starting a capture: a release leaves none.                    *)
LEMMA KeptReleased ==
  ASSUME CaptureType, Kept, locks.control \notin Trdp!Thread, locks'.control \notin Trdp!Thread,
         capture'.id = 0, capture'.made = capture.made, store' = store \ {capture.id}
  PROVE  Kept'
<1>1. \A u \in Trdp!Thread : ~Sets(u) /\ ~Sets(u)'
  BY DEF Sets
<1>2. store' = {} /\ capture.made \in Nat
  BY <1>1 DEF Kept, CaptureType
<1> QED BY <1>1, <1>2 DEF Kept

(* The same of what follows the shutdown.                                  *)
LEMMA AfterFrame ==
  ASSUME After, at'[Trdp!Cleaner] = "done" => at[Trdp!Cleaner] = "done", capture'.id \in {capture.id, 0},
         \A u \in Trdp!Thread : (locks'.control = u /\ local'[u].op = "capture_start") <=> Sets(u),
         \A u \in Trdp!Thread : Sets(u) => /\ local'[u].previous = local[u].previous
                                           /\ local[u].answer = "err" => local'[u].answer = "err"
                                           /\ at'[u] = at[u]
  PROVE  After'
<1>1. \A u \in Trdp!Thread : Sets(u)' <=> Sets(u)
  BY DEF Sets
<1> QED BY <1>1 DEF After

(* A drain tells everybody who waits that the request failed.              *)
LEMMA DrainedDoes ==
  ASSUME TrdpNames, LocalType
  PROVE  /\ Trdp!Drained \in [Trdp!Thread -> Mind]
         /\ \A u \in Trdp!Thread :
              /\ Trdp!Drained[u].request = local[u].request /\ Trdp!Drained[u].op = local[u].op
              /\ Trdp!Drained[u].previous = local[u].previous /\ Trdp!Drained[u].new = local[u].new
              /\ Trdp!Drained[u].answer \in {local[u].answer, "err"}
              /\ local[u].request \in pending => Trdp!Drained[u].answer = "err"
              /\ local[u].request \notin pending => Trdp!Drained[u].answer = local[u].answer
<1> SUFFICES ASSUME NEW u \in Trdp!Thread
             PROVE  /\ Trdp!Drained[u] \in Mind
                    /\ Trdp!Drained[u].request = local[u].request /\ Trdp!Drained[u].op = local[u].op
                    /\ Trdp!Drained[u].previous = local[u].previous /\ Trdp!Drained[u].new = local[u].new
                    /\ Trdp!Drained[u].answer \in {local[u].answer, "err"}
                    /\ local[u].request \in pending => Trdp!Drained[u].answer = "err"
                    /\ local[u].request \notin pending => Trdp!Drained[u].answer = local[u].answer
  BY DEF Trdp!Drained
<1>1. local[u] \in Mind
  BY DEF LocalType
<1>2. CASE local[u].request \in pending
  <2>1. Trdp!Drained[u] = [local[u] EXCEPT !.answer = "err"]
    BY <1>2 DEF Trdp!Drained
  <2> QED BY <1>1, <1>2, <2>1 DEF Mind
<1>3. CASE local[u].request \notin pending
  <2>1. Trdp!Drained[u] = local[u]
    BY <1>3 DEF Trdp!Drained
  <2> QED BY <1>1, <1>3, <2>1
<1> QED BY <1>2, <1>3

(* A thread's record before it has asked for anything.                     *)
LEMMA BlankMind ==
  /\ Trdp!Blank \in Mind /\ Trdp!Blank.request = 0 /\ Trdp!Blank.answer = None
  /\ \A o \in Trdp!Op \cup {None} :
       /\ [Trdp!Blank EXCEPT !.op = o] \in Mind /\ [Trdp!Blank EXCEPT !.op = o].request = 0
       /\ [Trdp!Blank EXCEPT !.op = o].answer = None /\ [Trdp!Blank EXCEPT !.op = o].op = o
<1>1. Trdp!Blank \in Mind /\ Trdp!Blank.request = 0 /\ Trdp!Blank.answer = None
  BY DEF Trdp!Blank, Mind
<1>2. ASSUME NEW o \in Trdp!Op \cup {None}
      PROVE  /\ [Trdp!Blank EXCEPT !.op = o] \in Mind /\ [Trdp!Blank EXCEPT !.op = o].request = 0
             /\ [Trdp!Blank EXCEPT !.op = o].answer = None /\ [Trdp!Blank EXCEPT !.op = o].op = o
  BY <1>1 DEF Mind
<1> QED BY <1>1, <1>2

(* An answer changes nothing but the answer.                               *)
LEMMA Answering ==
  ASSUME LocalType, NEW t \in Trdp!Thread, NEW a \in {"ok", "err"}, local' = [local EXCEPT ![t].answer = a]
  PROVE  /\ LocalType'
         /\ \A u \in Trdp!Thread : /\ local'[u].request = local[u].request /\ local'[u].op = local[u].op
                                   /\ local'[u].previous = local[u].previous /\ local'[u].new = local[u].new
         /\ local'[t].answer = a /\ \A u \in Trdp!Thread : u # t => local'[u] = local[u]
<1> DEFINE r == [local[t] EXCEPT !.answer = a]
<1>1. local[t] \in Mind
  BY DEF LocalType
<1>2. /\ r \in Mind /\ r.answer = a /\ r.request = local[t].request /\ r.op = local[t].op
      /\ r.previous = local[t].previous /\ r.new = local[t].new
  BY <1>1 DEF Mind
<1>3. local' = [local EXCEPT ![t] = r]
  OBVIOUS
<1> HIDE DEF r
<1>4. LocalType' /\ local'[t] = r /\ \A u \in Trdp!Thread : u # t => local'[u] = local[u]
  BY <1>2, <1>3 DEF LocalType
<1> QED BY <1>2, <1>4

(* A request whose time is up is answered by its own thread.               *)
LEMMA TimesOutKeeps ==
  ASSUME TrdpNames, TrdpInv, NEW t \in Trdp!Thread, Trdp!TimesOut(t)
  PROVE  TrdpInv'
<1>0. AtType /\ LocalType /\ FlagsType /\ LocksType /\ CaptureType /\ BridgeType /\ OpsType
      /\ StartHeld /\ Opened /\ Gone /\ Asking /\ Control /\ Kept /\ After
      /\ None \notin Trdp!Thread \cup {"ok", "err"} /\ Trdp!Cleaner \notin Trdp!Thread /\ t # Trdp!Cleaner
      /\ t # None
  BY DEF TrdpInv, TrdpTypes, TrdpNames
<1>1. TrdpInv'
  <2>0. UNCHANGED <<session, bridge, flags, child, locks, asked, store, capture, ops, at>>
    BY DEF Trdp!TimesOut
  <2>1. local[t].request \in pending /\ pending' = pending \ {local[t].request}
    BY DEF Trdp!TimesOut
  <2>2. LocalType'
        /\ (\A u \in Trdp!Thread : /\ local'[u].request = local[u].request /\ local'[u].op = local[u].op
                                   /\ local'[u].previous = local[u].previous /\ local'[u].new = local[u].new)
        /\ local'[t].answer = "err"
        /\ \A u \in Trdp!Thread : u # t => local'[u] = local[u]
    BY <1>0, Answering DEF Trdp!TimesOut
  <2>3. AtType' /\ FlagsType' /\ LocksType' /\ CaptureType' /\ BridgeType' /\ OpsType' /\ StartHeld' /\ Opened'
    BY <1>0, <2>0 DEF AtType, FlagsType, LocksType, CaptureType, BridgeType, OpsType, StartHeld, Opened
  <2>4. Gone'
    BY <1>0, <2>0, <2>1, <2>2 DEF Gone, StartHeld, Starting
  <2>5. Asking'
    <3>1. \A r \in pending' : r # 0 /\ \E u \in Trdp!Thread : r = local'[u].request
      BY <1>0, <2>0, <2>1, <2>2 DEF Asking, AskingOf, OpsType
    <3>0. local[t].request # 0
      BY <1>0, <2>1 DEF Asking
    <3>2. ASSUME NEW u \in Trdp!Thread PROVE AskingOf(u)'
      <4>0. AskingOf(u) /\ local[u].request \in Nat /\ ops.requests \in Nat /\ u # None /\ u # Trdp!Cleaner
        BY <1>0 DEF Asking, LocalType, Mind, OpsType, TrdpNames
      <4>1. CASE u = t
        BY <1>0, <2>0, <2>1, <2>2, <3>0, <4>0, <4>1 DEF AskingOf
      <4>2. CASE u # t
        BY <1>0, <2>0, <2>1, <2>2, <4>0, <4>2 DEF AskingOf
      <4> QED BY <4>1, <4>2
    <3> QED BY <3>1, <3>2 DEF Asking
  <2>6. Control'
    BY <1>0, <2>0, <2>1, <2>2, ControlFrame
  <2>7. Kept'
    BY <1>0, <2>0, <2>1, <2>2 DEF Kept, KeptBy, Control, ControlOf, Sets
  <2>8. After'
    BY <1>0, <2>0, <2>1, <2>2 DEF After, Control, ControlOf, Kept, KeptBy, Gone, Asking, AskingOf, Sets
  <2> QED BY <2>3, <2>4, <2>5, <2>6, <2>7, <2>8, <2>1, <2>2 DEF TrdpInv, TrdpTypes
<1> QED BY <1>1

(* A start goes on under its lock, or does not begin.                      *)
LEMMA StartEnterKeeps ==
  ASSUME TrdpNames, TrdpInv, NEW t \in Trdp!Thread, Trdp!StartEnter(t)
  PROVE  TrdpInv'
<1>0. AtType /\ LocalType /\ FlagsType /\ LocksType /\ CaptureType /\ BridgeType /\ OpsType
      /\ StartHeld /\ Opened /\ Gone /\ Asking /\ Control /\ Kept /\ After
      /\ None \notin Trdp!Thread \cup {"ok", "err"} /\ Trdp!Cleaner \notin Trdp!Thread /\ t # Trdp!Cleaner
      /\ t # None
  BY DEF TrdpInv, TrdpTypes, TrdpNames
<1>1. TrdpInv'
  <2>0. UNCHANGED <<session, bridge, flags, child, pending, asked, store, capture, ops, local>>
    BY DEF Trdp!StartEnter
  <2>1. at[t] = "start" /\ locks.start = None
    BY DEF Trdp!StartEnter
  <2>2. PICK p \in {"announce", "operate", "failed", "idle", "spawn"} : at' = [at EXCEPT ![t] = p]
          /\ \/ p # "spawn" /\ UNCHANGED locks
             \/ p = "spawn" /\ locks' = [locks EXCEPT !.start = t] /\ ~flags.closed /\ child = 0
    BY DEF Trdp!StartEnter, Trdp!Goes, Trdp!Entry, Trdp!Failure
  <2>3. AtType' /\ at'[t] = p /\ (\A x \in Trdp!Thread : x # t => at'[x] = at[x])
        /\ (t # Trdp!Cleaner => at'[Trdp!Cleaner] = at[Trdp!Cleaner])
    BY <1>0, <2>2 DEF AtType, Places
  <2>4. LocksType' /\ locks'.control = locks.control /\ locks'.start = IF p = "spawn" THEN t ELSE None
    BY <1>0, <2>1, <2>2 DEF LocksType
  <2>5. LocalType' /\ FlagsType' /\ CaptureType' /\ BridgeType' /\ OpsType'
    BY <1>0, <2>0 DEF LocalType, FlagsType, CaptureType, BridgeType, OpsType
  <2>6. StartHeld'
    BY <1>0, <2>0, <2>1, <2>2, <2>3, <2>4 DEF StartHeld, Starting
  <2>7. Opened'
    BY <1>0, <2>0, <2>1, <2>2, <2>3, <2>4 DEF Opened, StartHeld, Starting
  <2>8. Gone'
    BY <1>0, <2>0, <2>1, <2>2, <2>3, <2>4 DEF Gone, StartHeld, Starting
  <2>9. Asking'
    BY <1>0, <2>0, <2>1, <2>2, <2>3, <2>4, AskingFrame
  <2>10. Control'
    BY <1>0, <2>0, <2>1, <2>2, <2>3, <2>4, ControlFrame
  <2>11. Kept'
    BY <1>0, <2>0, <2>1, <2>2, <2>3, <2>4 DEF Kept, KeptBy, Control, ControlOf, Sets
  <2>12. After'
    BY <1>0, <2>0, <2>1, <2>2, <2>3, <2>4 DEF After, Control, ControlOf, Kept, KeptBy, Gone, Asking, AskingOf, Sets
  <2> QED BY <2>5, <2>6, <2>7, <2>8, <2>9, <2>10, <2>11, <2>12, <2>1, <2>2, <2>3, <2>4 DEF TrdpInv, TrdpTypes
<1> QED BY <1>1

(* The new bridge is in its slot.                                          *)
LEMMA StartSpawnKeeps ==
  ASSUME TrdpNames, TrdpInv, NEW t \in Trdp!Thread, Trdp!StartSpawn(t)
  PROVE  TrdpInv'
<1>0. AtType /\ LocalType /\ FlagsType /\ LocksType /\ CaptureType /\ BridgeType /\ OpsType
      /\ StartHeld /\ Opened /\ Gone /\ Asking /\ Control /\ Kept /\ After
      /\ None \notin Trdp!Thread \cup {"ok", "err"} /\ Trdp!Cleaner \notin Trdp!Thread /\ t # Trdp!Cleaner
      /\ t # None
  BY DEF TrdpInv, TrdpTypes, TrdpNames
<1>1. TrdpInv'
  <2>0. UNCHANGED <<session, flags, locks, pending, asked, store, capture, ops, local>>
    BY DEF Trdp!StartSpawn
  <2>1. at[t] = "spawn" /\ at' = [at EXCEPT ![t] = "recheck"]
    BY DEF Trdp!StartSpawn, Trdp!Goes
  <2>2. AtType' /\ at'[t] = "recheck" /\ (\A x \in Trdp!Thread : x # t => at'[x] = at[x])
        /\ (t # Trdp!Cleaner => at'[Trdp!Cleaner] = at[Trdp!Cleaner])
    BY <1>0, <2>1 DEF AtType, Places
  <2>3. PICK n : bridge' = [bridge EXCEPT ![n] = [up |-> TRUE, reader |-> "unborn"]]
    BY DEF Trdp!StartSpawn
  <2>4. BridgeType'
    BY <1>0, <2>3 DEF BridgeType
  <2>5. locks.start = t
    BY <1>0, <2>1 DEF StartHeld, Starting
  <2>6. LocalType' /\ FlagsType' /\ LocksType' /\ CaptureType' /\ OpsType'
    BY <1>0, <2>0 DEF LocalType, FlagsType, LocksType, CaptureType, OpsType
  <2>7. StartHeld'
    BY <1>0, <2>0, <2>1, <2>2, <2>3, <2>4, <2>5 DEF StartHeld, Starting
  <2>8. Opened'
    BY <1>0, <2>0, <2>1, <2>2, <2>3, <2>4, <2>5 DEF Opened, StartHeld, Starting
  <2>9. Gone'
    BY <1>0, <2>0, <2>1, <2>2, <2>3, <2>4, <2>5 DEF Gone, StartHeld, Starting
  <2>10. Asking'
    BY <1>0, <2>0, <2>1, <2>2, <2>3, <2>4, <2>5, AskingFrame
  <2>11. Control'
    BY <1>0, <2>0, <2>1, <2>2, <2>3, <2>4, <2>5, ControlFrame
  <2>12. Kept'
    BY <1>0, <2>0, <2>1, <2>2, <2>3, <2>4, <2>5 DEF Kept, KeptBy, Control, ControlOf, Sets
  <2>13. After'
    BY <1>0, <2>0, <2>1, <2>2, <2>3, <2>4, <2>5 DEF After, Control, ControlOf, Kept, KeptBy, Gone, Asking,
       AskingOf, Sets
  <2> QED BY <2>6, <2>7, <2>8, <2>9, <2>10, <2>11, <2>12, <2>13, <2>1, <2>2, <2>3, <2>4, <2>5 DEF TrdpInv, TrdpTypes
<1> QED BY <1>1

(* A start looks at closed once more.                                      *)
LEMMA StartRecheckKeeps ==
  ASSUME TrdpNames, TrdpInv, NEW t \in Trdp!Thread, Trdp!StartRecheck(t)
  PROVE  TrdpInv'
<1>0. AtType /\ LocalType /\ FlagsType /\ LocksType /\ CaptureType /\ BridgeType /\ OpsType
      /\ StartHeld /\ Opened /\ Gone /\ Asking /\ Control /\ Kept /\ After
      /\ None \notin Trdp!Thread \cup {"ok", "err"} /\ Trdp!Cleaner \notin Trdp!Thread /\ t # Trdp!Cleaner
      /\ t # None
  BY DEF TrdpInv, TrdpTypes, TrdpNames
<1>1. TrdpInv'
  <2>0. UNCHANGED <<session, bridge, flags, child, locks, pending, asked, store, capture, ops, local>>
    BY DEF Trdp!StartRecheck
  <2>1. PICK p \in {"stop", "arm"} : at' = [at EXCEPT ![t] = p] /\ (p = "stop" <=> flags.closed)
    BY <1>0 DEF Trdp!StartRecheck, Trdp!Goes, FlagsType
  <2>2. at[t] = "recheck" /\ AtType' /\ at'[t] = p /\ (\A x \in Trdp!Thread : x # t => at'[x] = at[x])
        /\ (t # Trdp!Cleaner => at'[Trdp!Cleaner] = at[Trdp!Cleaner])
    BY <1>0, <2>1 DEF AtType, Places, Trdp!StartRecheck
  <2>3. LocalType' /\ FlagsType' /\ LocksType' /\ CaptureType' /\ BridgeType' /\ OpsType'
    BY <1>0, <2>0 DEF LocalType, FlagsType, LocksType, CaptureType, BridgeType, OpsType
  <2>4. StartHeld'
    BY <1>0, <2>0, <2>1, <2>2 DEF StartHeld, Starting
  <2>5. Opened'
    BY <1>0, <2>0, <2>1, <2>2 DEF Opened, StartHeld, Starting
  <2>6. Gone'
    BY <1>0, <2>0, <2>1, <2>2 DEF Gone, StartHeld, Starting
  <2>7. Asking'
    BY <1>0, <2>0, <2>1, <2>2, AskingFrame
  <2>8. Control'
    BY <1>0, <2>0, <2>1, <2>2, ControlFrame
  <2>9. Kept'
    BY <1>0, <2>0, <2>1, <2>2 DEF Kept, KeptBy, Control, ControlOf, Sets
  <2>10. After'
    BY <1>0, <2>0, <2>1, <2>2 DEF After, Control, ControlOf, Kept, KeptBy, Gone, Asking, AskingOf, Sets
  <2> QED BY <2>3, <2>4, <2>5, <2>6, <2>7, <2>8, <2>9, <2>10, <2>1, <2>2 DEF TrdpInv, TrdpTypes
<1> QED BY <1>1

(* The flags are set for the new bridge.                                   *)
LEMMA StartArmKeeps ==
  ASSUME TrdpNames, TrdpInv, NEW t \in Trdp!Thread, Trdp!StartArm(t)
  PROVE  TrdpInv'
<1>0. AtType /\ LocalType /\ FlagsType /\ LocksType /\ CaptureType /\ BridgeType /\ OpsType
      /\ StartHeld /\ Opened /\ Gone /\ Asking /\ Control /\ Kept /\ After
      /\ None \notin Trdp!Thread \cup {"ok", "err"} /\ Trdp!Cleaner \notin Trdp!Thread /\ t # Trdp!Cleaner
      /\ t # None
  BY DEF TrdpInv, TrdpTypes, TrdpNames
<1>1. TrdpInv'
  <2>0. UNCHANGED <<session, child, locks, pending, asked, store, capture, ops, local>>
    BY DEF Trdp!StartArm
  <2>1. at[t] = "arm" /\ at' = [at EXCEPT ![t] = "open"] /\ flags' = Trdp!Armed
    BY DEF Trdp!StartArm, Trdp!Goes
  <2>2. AtType' /\ at'[t] = "open" /\ (\A x \in Trdp!Thread : x # t => at'[x] = at[x])
        /\ (t # Trdp!Cleaner => at'[Trdp!Cleaner] = at[Trdp!Cleaner])
    BY <1>0, <2>1 DEF AtType, Places
  <2>3. FlagsType' /\ ~flags'.shutting /\ ~flags'.ready /\ flags'.alive /\ flags'.closed = flags.closed
    BY <1>0, <2>1 DEF FlagsType, Trdp!Armed
  <2>4. BridgeType'
    BY <1>0 DEF BridgeType, Trdp!StartArm
  <2>5. locks.start = t
    BY <1>0, <2>1 DEF StartHeld, Starting
  <2>6. LocalType' /\ LocksType' /\ CaptureType' /\ OpsType'
    BY <1>0, <2>0 DEF LocalType, LocksType, CaptureType, OpsType
  <2>7. StartHeld'
    BY <1>0, <2>0, <2>1, <2>2, <2>3, <2>4, <2>5 DEF StartHeld, Starting
  <2>8. Opened'
    BY <1>0, <2>0, <2>1, <2>2, <2>3, <2>4, <2>5 DEF Opened, StartHeld, Starting
  <2>9. Gone'
    BY <1>0, <2>0, <2>1, <2>2, <2>3, <2>4, <2>5 DEF Gone, StartHeld, Starting
  <2>10. Asking'
    BY <1>0, <2>0, <2>1, <2>2, <2>3, <2>4, <2>5, AskingFrame
  <2>11. Control'
    BY <1>0, <2>0, <2>1, <2>2, <2>3, <2>4, <2>5, ControlFrame
  <2>12. Kept'
    BY <1>0, <2>0, <2>1, <2>2, <2>3, <2>4, <2>5 DEF Kept, KeptBy, Control, ControlOf, Sets
  <2>13. After'
    BY <1>0, <2>0, <2>1, <2>2, <2>3, <2>4, <2>5 DEF After, Control, ControlOf, Kept, KeptBy, Gone, Asking,
       AskingOf, Sets
  <2> QED BY <2>6, <2>7, <2>8, <2>9, <2>10, <2>11, <2>12, <2>13, <2>1, <2>2, <2>3, <2>4, <2>5 DEF TrdpInv, TrdpTypes
<1> QED BY <1>1

(* A start asks the bridge to open.                                        *)
LEMMA StartOpenKeeps ==
  ASSUME TrdpNames, TrdpInv, NEW t \in Trdp!Thread, Trdp!StartOpen(t)
  PROVE  TrdpInv'
<1>0. AtType /\ LocalType /\ FlagsType /\ LocksType /\ CaptureType /\ BridgeType /\ OpsType
      /\ StartHeld /\ Opened /\ Gone /\ Asking /\ Control /\ Kept /\ After
      /\ None \notin Trdp!Thread \cup {"ok", "err"} /\ Trdp!Cleaner \notin Trdp!Thread /\ t # Trdp!Cleaner
      /\ t # None
  BY DEF TrdpInv, TrdpTypes, TrdpNames
<1>1. TrdpInv'
  <2>0. UNCHANGED <<session, bridge, flags, child, locks, store, capture>>
    BY DEF Trdp!StartOpen
  <2>1. at[t] = "open" /\ Trdp!Ask(t, "opening") /\ "opening" \in Places
    BY DEF Trdp!StartOpen, Places
  <2>11. locks.start = t
    BY <1>0, <2>1 DEF StartHeld, Starting
  <2>2. /\ AtType' /\ LocalType' /\ OpsType'
        /\ at'[t] = "opening" /\ (\A x \in Trdp!Thread : x # t => at'[x] = at[x])
        /\ at'[Trdp!Cleaner] = at[Trdp!Cleaner]
        /\ ops'.requests = ops.requests + 1 /\ local'[t].request = ops.requests + 1
        /\ local'[t].op = local[t].op /\ local'[t].previous = local[t].previous /\ local'[t].new = local[t].new
        /\ \A u \in Trdp!Thread : u # t => local'[u] = local[u]
        /\ \/ flags.alive /\ child # 0 /\ pending' = pending \cup {ops.requests + 1} /\ local'[t].answer = None
           \/ ~(flags.alive /\ child # 0) /\ pending' = pending /\ local'[t].answer = "err"
    BY <1>0, <2>1, AskDoes
  <2>3. FlagsType' /\ LocksType' /\ CaptureType' /\ BridgeType'
    BY <1>0, <2>0 DEF FlagsType, LocksType, CaptureType, BridgeType
  <2>4. StartHeld'
    BY <1>0, <2>0, <2>1, <2>2 DEF StartHeld, Starting
  <2>5. Opened'
    BY <1>0, <2>0, <2>1, <2>2 DEF Opened, StartHeld, Starting
  <2>6. Gone'
    <3>1. \A u \in Trdp!Thread : u # t => at[u] \notin Starting /\ locks.start # u
      BY <1>0, <2>11 DEF StartHeld
    <3>2. CASE at[Trdp!Cleaner] \in {"clear", "done"}
      <4>1. ~(flags.alive /\ child # 0) /\ flags.closed
        BY <1>0, <3>2 DEF Gone
      <4>2. child = 0
        BY <1>0, <2>1, <2>11, <3>1, <3>2 DEF Gone, Starting
      <4>3. local'[t].answer = "err"
        BY <2>2, <4>1
      <4> QED BY <1>0, <2>0, <2>2, <2>11, <3>1, <3>2, <4>1, <4>2, <4>3 DEF Gone, Starting
    <3>3. CASE at[Trdp!Cleaner] \notin {"clear", "done"}
      BY <1>0, <2>0, <2>2, <3>3 DEF Gone
    <3> QED BY <3>2, <3>3
  <2>7. Asking'
    BY <1>0, <2>1, AskKeepsAsking
  <2>8. Control'
    BY <1>0, <2>0, <2>1, <2>2, ControlFrame
  <2>9. Kept'
    BY <1>0, <2>0, <2>1, <2>2 DEF Kept, KeptBy, Control, ControlOf, Sets
  <2>10. After'
    BY <1>0, <2>0, <2>1, <2>2 DEF After, Control, ControlOf, Kept, KeptBy, Gone, Asking, AskingOf, Sets
  <2> QED BY <2>3, <2>4, <2>5, <2>6, <2>7, <2>8, <2>9, <2>10, <2>1, <2>2 DEF TrdpInv, TrdpTypes
<1> QED BY <1>1

(* A start ends with a bridge that is ready, or stops it.                  *)
LEMMA StartEndsKeeps ==
  ASSUME TrdpNames, TrdpInv, NEW t \in Trdp!Thread, Trdp!StartEnds(t)
  PROVE  TrdpInv'
<1>0. AtType /\ LocalType /\ FlagsType /\ LocksType /\ CaptureType /\ BridgeType /\ OpsType
      /\ StartHeld /\ Opened /\ Gone /\ Asking /\ Control /\ Kept /\ After
      /\ None \notin Trdp!Thread \cup {"ok", "err"} /\ Trdp!Cleaner \notin Trdp!Thread /\ t # Trdp!Cleaner
      /\ t # None
  BY DEF TrdpInv, TrdpTypes, TrdpNames
<1>1. TrdpInv'
  <2>0. UNCHANGED <<session, bridge, flags, child, pending, asked, store, capture, ops>>
    BY DEF Trdp!StartEnds
  <2>1. at[t] = "opening" /\ local[t].answer # None /\ locks.start = t
    BY <1>0 DEF Trdp!StartEnds, StartHeld, Starting
  <2>2. \/ /\ local[t].answer = "ok" /\ flags.ready /\ flags.alive /\ locks' = [locks EXCEPT !.start = None]
           /\ local' = [local EXCEPT ![t] = [Trdp!Blank EXCEPT !.op = local[t].op]]
           /\ at' = [at EXCEPT ![t] = Trdp!Entry(t)]
        \/ at' = [at EXCEPT ![t] = "stop"] /\ UNCHANGED <<locks, local>>
    <3>1. CASE local[t].answer = "ok" /\ Trdp!Usable
      BY <3>1 DEF Trdp!StartEnds, Trdp!Usable, Trdp!Goes
    <3>2. CASE ~(local[t].answer = "ok" /\ Trdp!Usable)
      BY <3>2 DEF Trdp!StartEnds, Trdp!Goes
    <3> QED BY <3>1, <3>2
  <2>3. CASE /\ local[t].answer = "ok" /\ flags.ready /\ flags.alive /\ locks' = [locks EXCEPT !.start = None]
             /\ local' = [local EXCEPT ![t] = [Trdp!Blank EXCEPT !.op = local[t].op]]
             /\ at' = [at EXCEPT ![t] = Trdp!Entry(t)]
    <3>1. local[t].op \in Trdp!Op \cup {None}
      BY <1>0 DEF LocalType, Mind
    <3>2. LocalType' /\ (\A u \in Trdp!Thread : u # t => local'[u] = local[u])
          /\ local'[t].request = 0 /\ local'[t].answer = None /\ local'[t].op = local[t].op
      BY <1>0, <2>3, <3>1, BlankMind DEF LocalType
    <3>3. PICK p \in {"announce", "operate"} : at' = [at EXCEPT ![t] = p]
      BY <2>3 DEF Trdp!Entry
    <3>4. AtType' /\ at'[t] = p /\ (\A x \in Trdp!Thread : x # t => at'[x] = at[x])
          /\ (t # Trdp!Cleaner => at'[Trdp!Cleaner] = at[Trdp!Cleaner])
      BY <1>0, <3>3 DEF AtType, Places
    <3>5. LocksType' /\ locks'.control = locks.control /\ locks'.start = None
      BY <1>0, <2>3 DEF LocksType
    <3>20. FlagsType' /\ CaptureType' /\ BridgeType' /\ OpsType'
      BY <1>0, <2>0, <2>2 DEF FlagsType, CaptureType, BridgeType, OpsType
    <3>21. StartHeld'
      BY <1>0, <2>0, <2>1, <2>2, <2>3, <3>2, <3>4, <3>5 DEF StartHeld, Starting
    <3>22. Opened'
      BY <1>0, <2>0, <2>1, <2>2, <2>3, <3>2, <3>4, <3>5 DEF Opened, StartHeld, Starting
    <3>23. Gone'
      BY <1>0, <2>0, <2>1, <2>2, <2>3, <3>2, <3>4, <3>5 DEF Gone, StartHeld, Starting
    <3>24. Asking'
      <4>1. \A r \in pending' : r # 0 /\ \E u \in Trdp!Thread : r = local'[u].request
        BY <1>0, <2>0, <2>1, <2>2, <2>3, <3>2, <3>4, <3>5 DEF Asking, AskingOf, OpsType
      <4>2. ASSUME NEW u \in Trdp!Thread PROVE AskingOf(u)'
        <5>0. AskingOf(u) /\ local[u].request \in Nat /\ ops.requests \in Nat /\ u # None /\ u # Trdp!Cleaner
          BY <1>0 DEF Asking, LocalType, Mind, OpsType, TrdpNames
        <5>1. CASE u = t
          BY <1>0, <2>0, <2>1, <2>2, <2>3, <3>2, <3>4, <3>5, <5>0, <5>1 DEF AskingOf
        <5>2. CASE u # t
          BY <1>0, <2>0, <2>1, <2>2, <2>3, <3>2, <3>4, <3>5, <5>0, <5>2 DEF AskingOf
        <5> QED BY <5>1, <5>2
      <4> QED BY <4>1, <4>2 DEF Asking
    <3>25. Control'
      BY <1>0, <2>0, <2>1, <2>2, <2>3, <3>2, <3>4, <3>5, ControlFrame
    <3>26. Kept'
      BY <1>0, <2>0, <2>1, <2>2, <2>3, <3>2, <3>4, <3>5 DEF Kept, KeptBy, Control, ControlOf, Sets
    <3>27. After'
      BY <1>0, <2>0, <2>1, <2>2, <2>3, <3>2, <3>4, <3>5 DEF After, Control, ControlOf, Kept, KeptBy, Gone, Asking,
         AskingOf, Sets
    <3> QED BY <3>20, <3>21, <3>22, <3>23, <3>24, <3>25, <3>26, <3>27, <2>1, <2>2, <2>3, <3>2, <3>4, <3>5
               DEF TrdpInv, TrdpTypes
  <2>4. CASE at' = [at EXCEPT ![t] = "stop"] /\ UNCHANGED <<locks, local>>
    <3>1. AtType' /\ at'[t] = "stop" /\ (\A x \in Trdp!Thread : x # t => at'[x] = at[x])
          /\ (t # Trdp!Cleaner => at'[Trdp!Cleaner] = at[Trdp!Cleaner])
      BY <1>0, <2>4 DEF AtType, Places
    <3>20. LocalType' /\ FlagsType' /\ LocksType' /\ CaptureType' /\ BridgeType' /\ OpsType'
      BY <1>0, <2>0, <2>4 DEF LocalType, FlagsType, LocksType, CaptureType, BridgeType, OpsType
    <3>21. StartHeld'
      BY <1>0, <2>0, <2>1, <2>4, <3>1 DEF StartHeld, Starting
    <3>22. Opened'
      BY <1>0, <2>0, <2>1, <2>4, <3>1 DEF Opened, StartHeld, Starting
    <3>23. Gone'
      BY <1>0, <2>0, <2>1, <2>4, <3>1 DEF Gone, StartHeld, Starting
    <3>24. Asking'
      BY <1>0, <2>0, <2>1, <2>4, <3>1, AskingFrame
    <3>25. Control'
      BY <1>0, <2>0, <2>1, <2>4, <3>1, ControlFrame
    <3>26. Kept'
      BY <1>0, <2>0, <2>1, <2>4, <3>1 DEF Kept, KeptBy, Control, ControlOf, Sets
    <3>27. After'
      BY <1>0, <2>0, <2>1, <2>4, <3>1 DEF After, Control, ControlOf, Kept, KeptBy, Gone, Asking, AskingOf, Sets
    <3> QED BY <3>20, <3>21, <3>22, <3>23, <3>24, <3>25, <3>26, <3>27, <2>1, <2>4, <3>1 DEF TrdpInv, TrdpTypes
  <2> QED BY <2>2, <2>3, <2>4
<1> QED BY <1>1

(* A stop raises its flags.                                                *)
LEMMA StopAskKeeps ==
  ASSUME TrdpNames, TrdpInv, NEW t \in Trdp!Thread \cup {Trdp!Cleaner}, Trdp!StopAsk(t)
  PROVE  TrdpInv'
<1>0. AtType /\ LocalType /\ FlagsType /\ LocksType /\ CaptureType /\ BridgeType /\ OpsType
      /\ StartHeld /\ Opened /\ Gone /\ Asking /\ Control /\ Kept /\ After
      /\ None \notin Trdp!Thread \cup {"ok", "err"} /\ Trdp!Cleaner \notin Trdp!Thread
  BY DEF TrdpInv, TrdpTypes, TrdpNames
<1>1. TrdpInv'
  <2>0. UNCHANGED <<session, bridge, child, locks, pending, asked, store, capture, ops, local>>
    BY DEF Trdp!StopAsk
  <2>1. at[t] = "stop" /\ at' = [at EXCEPT ![t] = "kill"]
    BY DEF Trdp!StopAsk, Trdp!Goes
  <2>2. AtType' /\ at'[t] = "kill" /\ (\A x \in Trdp!Thread : x # t => at'[x] = at[x])
        /\ (t # Trdp!Cleaner => at'[Trdp!Cleaner] = at[Trdp!Cleaner])
    BY <1>0, <2>1 DEF AtType, Places
  <2>3. FlagsType' /\ flags'.shutting /\ ~flags'.ready /\ flags'.alive = flags.alive
        /\ flags'.closed = (flags.closed \/ t = Trdp!Cleaner)
    BY <1>0 DEF FlagsType, Trdp!StopAsk
  <2>4. LocalType' /\ LocksType' /\ CaptureType' /\ BridgeType' /\ OpsType'
    BY <1>0, <2>0 DEF LocalType, LocksType, CaptureType, BridgeType, OpsType
  <2>5. StartHeld'
    BY <1>0, <2>0, <2>1, <2>2, <2>3 DEF StartHeld, Starting
  <2>6. Opened'
    BY <1>0, <2>0, <2>1, <2>2, <2>3 DEF Opened, StartHeld, Starting
  <2>7. Gone'
    BY <1>0, <2>0, <2>1, <2>2, <2>3 DEF Gone, StartHeld, Starting
  <2>8. Asking'
    BY <1>0, <2>0, <2>1, <2>2, <2>3, AskingFrame
  <2>9. Control'
    BY <1>0, <2>0, <2>1, <2>2, <2>3, ControlFrame
  <2>10. Kept'
    BY <1>0, <2>0, <2>1, <2>2, <2>3 DEF Kept, KeptBy, Control, ControlOf, Sets
  <2>11. After'
    BY <1>0, <2>0, <2>1, <2>2, <2>3 DEF After, Control, ControlOf, Kept, KeptBy, Gone, Asking, AskingOf, Sets
  <2> QED BY <2>4, <2>5, <2>6, <2>7, <2>8, <2>9, <2>10, <2>11, <2>1, <2>2, <2>3 DEF TrdpInv, TrdpTypes
<1> QED BY <1>1

(* A stop takes the bridge out of its slot and kills it.                   *)
LEMMA StopKillKeeps ==
  ASSUME TrdpNames, TrdpInv, NEW t \in Trdp!Thread \cup {Trdp!Cleaner}, Trdp!StopKill(t)
  PROVE  TrdpInv'
<1>0. AtType /\ LocalType /\ FlagsType /\ LocksType /\ CaptureType /\ BridgeType /\ OpsType
      /\ StartHeld /\ Opened /\ Gone /\ Asking /\ Control /\ Kept /\ After
      /\ None \notin Trdp!Thread \cup {"ok", "err"} /\ Trdp!Cleaner \notin Trdp!Thread
  BY DEF TrdpInv, TrdpTypes, TrdpNames
<1>1. TrdpInv'
  <2>0. UNCHANGED <<session, locks, pending, asked, store, capture, ops, local>>
    BY DEF Trdp!StopKill
  <2>1. at[t] = "kill" /\ at' = [at EXCEPT ![t] = "clear"] /\ child' = 0
    BY DEF Trdp!StopKill, Trdp!Goes
  <2>2. AtType' /\ at'[t] = "clear" /\ (\A x \in Trdp!Thread : x # t => at'[x] = at[x])
        /\ (t # Trdp!Cleaner => at'[Trdp!Cleaner] = at[Trdp!Cleaner])
    BY <1>0, <2>1 DEF AtType, Places
  <2>3. FlagsType' /\ flags'.shutting = flags.shutting /\ flags'.ready = flags.ready /\ ~flags'.alive
        /\ flags'.closed = flags.closed
    BY <1>0 DEF FlagsType, Trdp!StopKill
  <2>4. BridgeType'
    BY <1>0 DEF BridgeType, Trdp!StopKill
  <2>5. LocalType' /\ LocksType' /\ CaptureType' /\ OpsType'
    BY <1>0, <2>0 DEF LocalType, LocksType, CaptureType, OpsType
  <2>6. StartHeld'
    BY <1>0, <2>0, <2>1, <2>2, <2>3, <2>4 DEF StartHeld, Starting
  <2>7. Opened'
    BY <1>0, <2>0, <2>1, <2>2, <2>3, <2>4 DEF Opened, StartHeld, Starting
  <2>8. Gone'
    BY <1>0, <2>0, <2>1, <2>2, <2>3, <2>4 DEF Gone, StartHeld, Starting
  <2>9. Asking'
    BY <1>0, <2>0, <2>1, <2>2, <2>3, <2>4, AskingFrame
  <2>10. Control'
    BY <1>0, <2>0, <2>1, <2>2, <2>3, <2>4, ControlFrame
  <2>11. Kept'
    BY <1>0, <2>0, <2>1, <2>2, <2>3, <2>4 DEF Kept, KeptBy, Control, ControlOf, Sets
  <2>12. After'
    BY <1>0, <2>0, <2>1, <2>2, <2>3, <2>4 DEF After, Control, ControlOf, Kept, KeptBy, Gone, Asking, AskingOf, Sets
  <2> QED BY <2>5, <2>6, <2>7, <2>8, <2>9, <2>10, <2>11, <2>12, <2>1, <2>2, <2>3, <2>4 DEF TrdpInv, TrdpTypes
<1> QED BY <1>1

(* A stop drains the requests and releases the capture.                    *)
LEMMA StopClearKeeps ==
  ASSUME TrdpNames, TrdpInv, NEW t \in Trdp!Thread \cup {Trdp!Cleaner}, Trdp!StopClear(t)
  PROVE  TrdpInv'
<1>0. AtType /\ LocalType /\ FlagsType /\ LocksType /\ CaptureType /\ BridgeType /\ OpsType
      /\ StartHeld /\ Opened /\ Gone /\ Asking /\ Control /\ Kept /\ After
      /\ None \notin Trdp!Thread \cup {"ok", "err"} /\ Trdp!Cleaner \notin Trdp!Thread
  BY DEF TrdpInv, TrdpTypes, TrdpNames
<1>1. TrdpInv'
  <2>0. UNCHANGED <<session, bridge, flags, child, asked, ops>>
    BY DEF Trdp!StopClear
  <2>1. at[t] = "clear" /\ locks.control = None /\ pending' = {}
    BY DEF Trdp!StopClear, Trdp!ControlFree
  <2>2. PICK p \in {"done", "failed", "idle"} : at' = [at EXCEPT ![t] = p] /\ (p = "done" <=> t = Trdp!Cleaner)
    BY <1>0 DEF Trdp!StopClear, Trdp!Goes, Trdp!Failure
  <2>3. AtType' /\ at'[t] = p /\ (\A x \in Trdp!Thread : x # t => at'[x] = at[x])
        /\ (t # Trdp!Cleaner => at'[Trdp!Cleaner] = at[Trdp!Cleaner])
    BY <1>0, <2>2 DEF AtType, Places
  <2>4. CaptureType' /\ capture'.id = 0 /\ capture'.made = capture.made /\ store' = store \ {capture.id}
    BY <1>0 DEF CaptureType, Trdp!StopClear, Trdp!ReleaseOwned
  <2>5. LocksType' /\ locks'.control = None /\ locks'.start = IF locks.start = t THEN None ELSE locks.start
    BY <1>0, <2>1 DEF LocksType, Trdp!StopClear
  <2>6. \A u \in Trdp!Thread : local'[u] = IF u = t THEN Trdp!Blank ELSE Trdp!Drained[u]
    BY DEF Trdp!StopClear
  <2>7. LocalType'
    BY <1>0, <2>6, BlankMind, DrainedDoes DEF LocalType, Trdp!StopClear
  <2>8. \A u \in Trdp!Thread : IF u = t THEN local'[u].request = 0 /\ local'[u].answer = None
             ELSE /\ local'[u].request = local[u].request /\ local'[u].op = local[u].op
                  /\ local'[u].previous = local[u].previous
                  /\ local'[u].new = local[u].new /\ local'[u].answer \in {local[u].answer, "err"}
                  /\ local[u].answer = "err" => local'[u].answer = "err"
                  /\ local[u].request \notin pending => local'[u].answer = local[u].answer
    BY <1>0, <2>6, BlankMind, DrainedDoes
  <2>9. FlagsType' /\ BridgeType' /\ OpsType'
    BY <1>0, <2>0 DEF FlagsType, BridgeType, OpsType
  <2>17. /\ t \in Trdp!Thread => locks.start = t
         /\ t \notin Trdp!Thread => t = Trdp!Cleaner /\ locks'.start = locks.start
         /\ \A u \in Trdp!Thread : u # t => (locks.start = u <=> locks'.start = u)
    BY <1>0, <2>1, <2>5 DEF StartHeld, Starting, LocksType
  <2>10. StartHeld'
    BY <1>0, <2>0, <2>1, <2>2, <2>3, <2>4, <2>5, <2>6, <2>7, <2>8 DEF StartHeld, Starting
  <2>11. Opened'
    <3>1. at[Trdp!Cleaner] = "idle" => t # Trdp!Cleaner
      BY <2>1
    <3>2. at'[Trdp!Cleaner] = "idle" <=> session' = "open"
      BY <1>0, <2>0, <2>1, <2>2, <2>3 DEF Opened
    <3>3. \A u \in Trdp!Thread : at'[u] \in {"open", "opening", "clear"} => u # t /\ at[u] = at'[u]
      BY <2>2, <2>3
    <3>4. CASE session = "open"
      <4>1. t \in Trdp!Thread /\ child = 0
        BY <1>0, <2>1, <3>4 DEF Opened
      <4> QED BY <1>0, <2>0, <3>2, <3>3, <3>4, <4>1 DEF Opened
    <3>5. CASE session # "open"
      <4>1. \A u \in Trdp!Thread : at'[u] = "clear" => child' = 0
        BY <1>0, <2>0, <3>3 DEF Opened
      <4> QED BY <2>0, <3>2, <3>5, <4>1 DEF Opened
    <3> QED BY <3>4, <3>5
  <2>12. Gone'
    BY <1>0, <2>0, <2>1, <2>2, <2>3, <2>4, <2>5, <2>6, <2>7, <2>8 DEF Gone, StartHeld, Starting
  <2>13. Asking'
    <3>1. \A r \in pending' : r # 0 /\ \E u \in Trdp!Thread : r = local'[u].request
      BY <1>0, <2>0, <2>1, <2>2, <2>3, <2>4, <2>5, <2>6, <2>7, <2>8 DEF Asking, AskingOf, OpsType
    <3>2. ASSUME NEW u \in Trdp!Thread PROVE AskingOf(u)'
      <4>0. AskingOf(u) /\ local[u].request \in Nat /\ ops.requests \in Nat /\ u # None /\ u # Trdp!Cleaner
        BY <1>0 DEF Asking, LocalType, Mind, OpsType, TrdpNames
      <4>1. CASE u = t
        BY <1>0, <2>0, <2>1, <2>2, <2>3, <2>4, <2>5, <2>6, <2>7, <2>8, <4>0, <4>1 DEF AskingOf
      <4>2. CASE u # t
        <5>1. pending' = {} /\ ops' = ops /\ at'[u] = at[u]
          BY <2>0, <2>1, <2>3, <4>2
        <5>2. local'[u].request = local[u].request
              /\ (local[u].request \notin pending => local'[u].answer = local[u].answer)
          BY <2>8, <4>2
        <5>3. local[u].request \in pending => local[u].request # 0
          BY <1>0 DEF Asking
        <5> QED BY <4>0, <5>1, <5>2, <5>3 DEF AskingOf
      <4> QED BY <4>1, <4>2
    <3> QED BY <3>1, <3>2 DEF Asking
  <2>14. Control'
    <3>2. ASSUME NEW u \in Trdp!Thread PROVE ControlOf(u)'
      <4>0. ControlOf(u) /\ local[u].request \in Nat /\ ops.requests \in Nat /\ u # None /\ u # Trdp!Cleaner
        BY <1>0 DEF Control, LocalType, Mind, OpsType, TrdpNames
      <4>1. CASE u = t
        BY <1>0, <2>0, <2>1, <2>2, <2>3, <2>4, <2>5, <2>6, <2>7, <2>8, <4>0, <4>1 DEF ControlOf
      <4>2. CASE u # t
        BY <1>0, <2>0, <2>1, <2>2, <2>3, <2>4, <2>5, <2>6, <2>7, <2>8, <4>0, <4>2 DEF ControlOf
      <4> QED BY <4>1, <4>2
    <3> QED BY <3>2 DEF Control
  <2>15. Kept'
    BY <1>0, <2>1, <2>4, <2>5, KeptReleased
  <2>16. After'
    BY <1>0, <2>0, <2>1, <2>2, <2>3, <2>4, <2>5, <2>6, <2>7, <2>8 DEF After, Control, ControlOf, Kept, KeptBy,
       Gone, Asking, AskingOf, Sets
  <2> QED BY <2>9, <2>10, <2>11, <2>12, <2>13, <2>14, <2>15, <2>16, <2>1, <2>2, <2>3, <2>4, <2>5, <2>6, <2>7,
             <2>8 DEF TrdpInv, TrdpTypes
<1> QED BY <1>1

(* A line of the bridge answers who still waits for it.                    *)
LEMMA ReaderLineKeeps ==
  ASSUME TrdpNames, TrdpInv, NEW g \in Trdp!Gen, Trdp!ReaderLine(g)
  PROVE  TrdpInv'
<1>0. AtType /\ LocalType /\ FlagsType /\ LocksType /\ CaptureType /\ BridgeType /\ OpsType
      /\ StartHeld /\ Opened /\ Gone /\ Asking /\ Control /\ Kept /\ After
      /\ None \notin Trdp!Thread \cup {"ok", "err"} /\ Trdp!Cleaner \notin Trdp!Thread
  BY DEF TrdpInv, TrdpTypes, TrdpNames
<1>1. TrdpInv'
  <2>0. UNCHANGED <<session, bridge, child, locks, store, capture, ops, at>>
    BY DEF Trdp!ReaderLine
  <2>1. \/ UNCHANGED <<pending, local, flags>>
        \/ \E r \in pending, t \in Trdp!Thread, result \in {"ok", "err"} :
             /\ local[t].request = r /\ pending' = pending \ {r} /\ local' = [local EXCEPT ![t].answer = result]
             /\ flags' = [flags EXCEPT !.ready = @ \/ (result = "ok" /\ at[t] = "opening")]
    BY DEF Trdp!ReaderLine
  <2>2. CASE UNCHANGED <<pending, local, flags>>
    <3>20. AtType' /\ LocalType' /\ FlagsType' /\ LocksType' /\ CaptureType' /\ BridgeType' /\ OpsType'
           /\ StartHeld' /\ Opened' /\ Gone' /\ Asking' /\ Control' /\ Kept' /\ After'
      BY <1>0, <2>0, <2>2 DEF AtType, LocalType, FlagsType, LocksType, CaptureType, BridgeType, OpsType, StartHeld,
         Opened, Gone, Asking, Control, Kept, After, Sets, KeptBy, AskingOf, ControlOf
    <3> QED BY <3>20, <2>2 DEF TrdpInv, TrdpTypes
  <2>3. CASE \E r \in pending, t \in Trdp!Thread, result \in {"ok", "err"} :
               /\ local[t].request = r /\ pending' = pending \ {r} /\ local' = [local EXCEPT ![t].answer = result]
               /\ flags' = [flags EXCEPT !.ready = @ \/ (result = "ok" /\ at[t] = "opening")]
    <3>1. PICK t \in Trdp!Thread, result \in {"ok", "err"} :
               /\ local[t].request \in pending
               /\ pending' = pending \ {local[t].request} /\ local' = [local EXCEPT ![t].answer = result]
               /\ flags' = [flags EXCEPT !.ready = @ \/ (result = "ok" /\ at[t] = "opening")]
      BY <2>3
    <3>2. LocalType'
          /\ (\A u \in Trdp!Thread : /\ local'[u].request = local[u].request /\ local'[u].op = local[u].op
                                     /\ local'[u].previous = local[u].previous /\ local'[u].new = local[u].new)
          /\ local'[t].answer = result
          /\ \A u \in Trdp!Thread : u # t => local'[u] = local[u]
      BY <1>0, <3>1, Answering
    <3>3. FlagsType' /\ flags'.alive = flags.alive /\ flags'.shutting = flags.shutting
          /\ flags'.closed = flags.closed
          /\ flags'.ready = (flags.ready \/ (result = "ok" /\ at[t] = "opening"))
      BY <1>0, <3>1 DEF FlagsType
    <3>4. result # None /\ local[t].answer = None /\ None # "err" /\ local[t].request # 0
      BY <1>0, <3>1 DEF Asking, AskingOf
    <3>20. AtType' /\ LocksType' /\ CaptureType' /\ BridgeType' /\ OpsType' /\ StartHeld'
      BY <1>0, <2>0 DEF AtType, LocksType, CaptureType, BridgeType, OpsType, StartHeld
    <3>21. Opened'
      BY <1>0, <2>0, <3>1, <3>2, <3>3, <3>4 DEF Opened, StartHeld, Starting
    <3>22. Gone'
      <4>1. \A u \in Trdp!Thread : local[u].answer = "err" => local'[u].answer = "err"
        BY <3>2, <3>4
      <4> QED BY <1>0, <2>0, <3>3, <4>1 DEF Gone
    <3>23. Asking'
      <4>1. \A r \in pending' : r # 0 /\ \E u \in Trdp!Thread : r = local'[u].request
        BY <1>0, <2>0, <3>1, <3>2, <3>3, <3>4 DEF Asking, AskingOf, OpsType
      <4>2. ASSUME NEW u \in Trdp!Thread PROVE AskingOf(u)'
        <5>0. AskingOf(u) /\ local[u].request \in Nat /\ ops.requests \in Nat /\ u # None /\ u # Trdp!Cleaner
          BY <1>0 DEF Asking, LocalType, Mind, OpsType, TrdpNames
        <5>1. CASE u = t
          BY <1>0, <2>0, <3>1, <3>2, <3>3, <3>4, <5>0, <5>1 DEF AskingOf
        <5>2. CASE u # t
          BY <1>0, <2>0, <3>1, <3>2, <3>3, <3>4, <5>0, <5>2 DEF AskingOf
        <5> QED BY <5>1, <5>2
      <4> QED BY <4>1, <4>2 DEF Asking
    <3>24. Control'
      BY <1>0, <2>0, <3>1, <3>2, <3>3, <3>4, ControlFrame
    <3>25. Kept'
      BY <1>0, <2>0, <3>1, <3>2, <3>3, <3>4 DEF Kept, KeptBy, Control, ControlOf, Sets
    <3>26. After'
      <4>1. \A u \in Trdp!Thread : (locks'.control = u /\ local'[u].op = "capture_start") <=> Sets(u)
        BY <2>0, <3>2 DEF Sets
      <4>2. \A u \in Trdp!Thread : local[u].answer = "err" => local'[u].answer = "err"
        BY <3>2, <3>4
      <4> QED BY <1>0, <2>0, <3>2, <4>1, <4>2, AfterFrame
    <3> QED BY <3>20, <3>21, <3>22, <3>23, <3>24, <3>25, <3>26, <3>1, <3>2, <3>3, <3>4 DEF TrdpInv, TrdpTypes
  <2> QED BY <2>1, <2>2, <2>3
<1> QED BY <1>1

(* A bridge that dies is still in its slot.                                *)
LEMMA BridgeDiesKeeps ==
  ASSUME TrdpNames, TrdpInv, NEW g \in Trdp!Gen, Trdp!BridgeDies(g)
  PROVE  TrdpInv'
<1>0. AtType /\ LocalType /\ FlagsType /\ LocksType /\ CaptureType /\ BridgeType /\ OpsType
      /\ StartHeld /\ Opened /\ Gone /\ Asking /\ Control /\ Kept /\ After
      /\ None \notin Trdp!Thread \cup {"ok", "err"} /\ Trdp!Cleaner \notin Trdp!Thread
  BY DEF TrdpInv, TrdpTypes, TrdpNames
<1>1. TrdpInv'
  <2>0. UNCHANGED <<session, flags, child, locks, pending, asked, store, capture, ops, at, local>>
    BY DEF Trdp!BridgeDies
  <2>1. bridge' = [bridge EXCEPT ![g].up = FALSE]
    BY DEF Trdp!BridgeDies
  <2>2. BridgeType' /\ \A x \in Trdp!Gen : bridge'[x].reader = bridge[x].reader
    BY <1>0, <2>1 DEF BridgeType
  <2>3. AtType' /\ LocalType' /\ FlagsType' /\ LocksType' /\ CaptureType' /\ OpsType' /\ StartHeld' /\ Gone'
        /\ Asking' /\ Control' /\ Kept' /\ After'
    BY <1>0, <2>0 DEF AtType, LocalType, FlagsType, LocksType, CaptureType, OpsType, StartHeld, Gone, Asking,
       Control, Kept, After, Sets, KeptBy, AskingOf, ControlOf
  <2>4. Opened'
    BY <1>0, <2>0, <2>1, <2>2 DEF Opened, StartHeld, Starting
  <2> QED BY <2>3, <2>4, <2>1, <2>2 DEF TrdpInv, TrdpTypes
<1> QED BY <1>1

(* The reader of a bridge that ended answers everybody who waits.          *)
LEMMA ReaderEofKeeps ==
  ASSUME TrdpNames, TrdpInv, NEW g \in Trdp!Gen, Trdp!ReaderEof(g)
  PROVE  TrdpInv'
<1>0. AtType /\ LocalType /\ FlagsType /\ LocksType /\ CaptureType /\ BridgeType /\ OpsType
      /\ StartHeld /\ Opened /\ Gone /\ Asking /\ Control /\ Kept /\ After
      /\ None \notin Trdp!Thread \cup {"ok", "err"} /\ Trdp!Cleaner \notin Trdp!Thread
  BY DEF TrdpInv, TrdpTypes, TrdpNames
<1>1. TrdpInv'
  <2>0. UNCHANGED <<session, child, ops, at>>
    BY DEF Trdp!ReaderEof
  <2>1. pending' = {} /\ local' = Trdp!Drained
    BY DEF Trdp!ReaderEof
  <2>2. BridgeType' /\ bridge'[g].reader = "ending"
    BY <1>0 DEF BridgeType, Trdp!ReaderEof
  <2>3. FlagsType' /\ ~flags'.alive /\ flags'.ready = flags.ready /\ flags'.shutting = flags.shutting
        /\ flags'.closed = flags.closed
    BY <1>0 DEF FlagsType, Trdp!ReaderEof
  <2>4. LocksType' /\ locks'.control = locks.control /\ locks'.start = locks.start
    BY <1>0 DEF LocksType, Trdp!ReaderEof
  <2>5. CaptureType' /\ capture'.id = 0 /\ capture'.made = capture.made /\ store' = store \ {capture.id}
    BY <1>0 DEF CaptureType, Trdp!ReaderEof, Trdp!ReleaseOwned
  <2>6. LocalType'
    BY <1>0, <2>1, DrainedDoes DEF LocalType
  <2>7. \A u \in Trdp!Thread :
                  /\ local'[u].request = local[u].request /\ local'[u].op = local[u].op
                  /\ local'[u].previous = local[u].previous
                  /\ local'[u].new = local[u].new /\ local'[u].answer \in {local[u].answer, "err"}
                  /\ local[u].answer = "err" => local'[u].answer = "err"
                  /\ local[u].request \notin pending => local'[u].answer = local[u].answer
    BY <1>0, <2>1, DrainedDoes
  <2>8. AtType' /\ OpsType'
    BY <1>0, <2>0 DEF AtType, OpsType
  <2>9. StartHeld'
    BY <1>0, <2>0, <2>1, <2>2, <2>3, <2>4, <2>5, <2>6, <2>7 DEF StartHeld, Starting
  <2>10. Opened'
    BY <1>0, <2>0, <2>1, <2>2, <2>3, <2>4, <2>5, <2>6, <2>7 DEF Opened, StartHeld, Starting
  <2>11. Gone'
    BY <1>0, <2>0, <2>1, <2>2, <2>3, <2>4, <2>5, <2>6, <2>7 DEF Gone, StartHeld, Starting
  <2>12. Asking'
    <3>1. \A r \in pending' : r # 0 /\ \E u \in Trdp!Thread : r = local'[u].request
      BY <1>0, <2>0, <2>1, <2>2, <2>3, <2>4, <2>5, <2>6, <2>7 DEF Asking, AskingOf, OpsType
    <3>2. ASSUME NEW u \in Trdp!Thread PROVE AskingOf(u)'
      <4>0. AskingOf(u) /\ local[u].request \in Nat /\ ops.requests \in Nat /\ u # None /\ u # Trdp!Cleaner
        BY <1>0 DEF Asking, LocalType, Mind, OpsType, TrdpNames
      <4>1. pending' = {} /\ UNCHANGED <<ops, at>>
        BY <2>0, <2>1
      <4>2. local'[u].request = local[u].request
            /\ (local[u].request \notin pending => local'[u].answer = local[u].answer)
        BY <2>7
      <4>3. local[u].request \in pending => local[u].request # 0
        BY <1>0 DEF Asking
      <4> QED BY <4>0, <4>1, <4>2, <4>3 DEF AskingOf
    <3> QED BY <3>1, <3>2 DEF Asking
  <2>13. Control'
    <3>2. ASSUME NEW u \in Trdp!Thread PROVE ControlOf(u)'
      <4>0. ControlOf(u) /\ local[u].request \in Nat /\ ops.requests \in Nat /\ u # None /\ u # Trdp!Cleaner
        BY <1>0 DEF Control, LocalType, Mind, OpsType, TrdpNames
      <4>1. at' = at /\ local'[u].op = local[u].op /\ locks'.control = locks.control
        BY <2>0, <2>4, <2>7
      <4> QED BY <4>0, <4>1 DEF ControlOf
    <3> QED BY <3>2 DEF Control
  <2>14. Kept'
    <3>0. capture.id \in Nat /\ capture.made \in Nat
      BY <1>0 DEF CaptureType
    <3>1. \A u \in Trdp!Thread : (Sets(u)' <=> Sets(u)) /\ local'[u].previous = local[u].previous
          /\ local'[u].new = local[u].new
      BY <2>4, <2>7 DEF Sets
    <3>2. ASSUME NEW u \in Trdp!Thread, Sets(u)' PROVE KeptBy(u)'
      <4>1. KeptBy(u)
        BY <1>0, <3>1, <3>2 DEF Kept
      <4>2. at' = at
        BY <2>0
      <4> QED BY <2>5, <3>1, <4>1, <4>2 DEF KeptBy
    <3>3. (\A u \in Trdp!Thread : ~Sets(u)') => store' \subseteq {capture'.id}
      BY <1>0, <2>5, <3>1 DEF Kept
    <3> QED BY <1>0, <2>5, <3>0, <3>2, <3>3 DEF Kept
  <2>15. After'
    <3>1. \A u \in Trdp!Thread : (locks'.control = u /\ local'[u].op = "capture_start") <=> Sets(u)
      BY <2>4, <2>7 DEF Sets
    <3> QED BY <1>0, <2>0, <2>5, <2>7, <3>1, AfterFrame
  <2> QED BY <2>8, <2>9, <2>10, <2>11, <2>12, <2>13, <2>14, <2>15, <2>1, <2>2, <2>3, <2>4, <2>5, <2>6, <2>7
             DEF TrdpInv, TrdpTypes
<1> QED BY <1>1

(* A lost connection is closed by the reader that saw it.                  *)
LEMMA ReaderEndsKeeps ==
  ASSUME TrdpNames, TrdpInv, NEW g \in Trdp!Gen, Trdp!ReaderEnds(g)
  PROVE  TrdpInv'
<1>0. AtType /\ LocalType /\ FlagsType /\ LocksType /\ CaptureType /\ BridgeType /\ OpsType
      /\ StartHeld /\ Opened /\ Gone /\ Asking /\ Control /\ Kept /\ After
      /\ None \notin Trdp!Thread \cup {"ok", "err"} /\ Trdp!Cleaner \notin Trdp!Thread
  BY DEF TrdpInv, TrdpTypes, TrdpNames
<1>1. TrdpInv'
  <2>0. UNCHANGED <<child, pending, asked, store, capture, ops, local>>
    BY DEF Trdp!ReaderEnds
  <2>1. BridgeType'
    BY <1>0 DEF BridgeType, Trdp!ReaderEnds
  <2>2. FlagsType' /\ ~flags'.ready /\ flags'.alive = flags.alive /\ flags'.shutting = flags.shutting
        /\ flags'.closed = flags.closed
    BY <1>0 DEF FlagsType, Trdp!ReaderEnds
  <2>3. LocksType' /\ locks'.control = locks.control /\ locks'.start = locks.start
    BY <1>0 DEF LocksType, Trdp!ReaderEnds
  <2>4. IF flags.ready /\ ~flags.shutting /\ session = "open"
          THEN session' = "lost" /\ at' = [at EXCEPT ![Trdp!Cleaner] = "stop"] ELSE session' = session /\ at' = at
    BY DEF Trdp!ReaderEnds
  <2>5. AtType' /\ (\A t \in Trdp!Thread : at'[t] = at[t])
        /\ \/ /\ flags.ready /\ ~flags.shutting /\ session = "open"
              /\ session' = "lost" /\ at'[Trdp!Cleaner] = "stop"
           \/ /\ ~(flags.ready /\ ~flags.shutting /\ session = "open")
              /\ session' = session /\ at'[Trdp!Cleaner] = at[Trdp!Cleaner]
    BY <1>0, <2>4 DEF AtType, Places, TrdpNames
  <2>6. LocalType' /\ CaptureType' /\ OpsType'
    BY <1>0, <2>0 DEF LocalType, CaptureType, OpsType
  <2>7. StartHeld'
    BY <1>0, <2>0, <2>1, <2>2, <2>3, <2>4, <2>5 DEF StartHeld, Starting
  <2>8. Opened'
    BY <1>0, <2>0, <2>1, <2>2, <2>3, <2>4, <2>5 DEF Opened, StartHeld, Starting
  <2>9. Gone'
    BY <1>0, <2>0, <2>1, <2>2, <2>3, <2>4, <2>5 DEF Gone, StartHeld, Starting
  <2>10. Asking'
    BY <1>0, <2>0, <2>1, <2>2, <2>3, <2>4, <2>5, AskingFrame
  <2>11. Control'
    BY <1>0, <2>0, <2>1, <2>2, <2>3, <2>4, <2>5, ControlFrame
  <2>12. Kept'
    BY <1>0, <2>0, <2>1, <2>2, <2>3, <2>4, <2>5 DEF Kept, KeptBy, Control, ControlOf, Sets
  <2>13. After'
    BY <1>0, <2>0, <2>1, <2>2, <2>3, <2>4, <2>5 DEF After, Control, ControlOf, Kept, KeptBy, Gone, Asking,
       AskingOf, Sets
  <2> QED BY <2>6, <2>7, <2>8, <2>9, <2>10, <2>11, <2>12, <2>13, <2>1, <2>2, <2>3, <2>4, <2>5 DEF TrdpInv, TrdpTypes
<1> QED BY <1>1

(* The connect announces the session, or fails.                            *)
LEMMA AnnounceKeeps ==
  ASSUME TrdpNames, TrdpInv, Trdp!Announce
  PROVE  TrdpInv'
<1>0. AtType /\ LocalType /\ FlagsType /\ LocksType /\ CaptureType /\ BridgeType /\ OpsType
      /\ StartHeld /\ Opened /\ Gone /\ Asking /\ Control /\ Kept /\ After
      /\ None \notin Trdp!Thread \cup {"ok", "err"} /\ Trdp!Cleaner \notin Trdp!Thread /\ Connector \in Trdp!Thread
      /\ Connector # Trdp!Cleaner /\ Connector # None
  BY DEF TrdpInv, TrdpTypes, TrdpNames, Trdp!Thread
<1>1. TrdpInv'
  <2>0. UNCHANGED <<session, bridge, flags, child, locks, pending, asked, store, capture, ops, local>>
    BY DEF Trdp!Announce
  <2>1. PICK p \in {"idle", "failed"} : at' = [at EXCEPT ![Connector] = p]
    BY DEF Trdp!Announce, Trdp!Goes
  <2>2. at[Connector] = "announce"
    BY DEF Trdp!Announce
  <2>3. AtType' /\ at'[Connector] = p /\ (\A x \in Trdp!Thread : x # Connector => at'[x] = at[x])
        /\ (Connector # Trdp!Cleaner => at'[Trdp!Cleaner] = at[Trdp!Cleaner])
    BY <1>0, <2>1 DEF AtType, Places
  <2>4. LocalType' /\ FlagsType' /\ LocksType' /\ CaptureType' /\ BridgeType' /\ OpsType'
    BY <1>0, <2>0 DEF LocalType, FlagsType, LocksType, CaptureType, BridgeType, OpsType
  <2>5. StartHeld'
    BY <1>0, <2>0, <2>1, <2>2, <2>3 DEF StartHeld, Starting
  <2>6. Opened'
    BY <1>0, <2>0, <2>1, <2>2, <2>3 DEF Opened, StartHeld, Starting
  <2>7. Gone'
    BY <1>0, <2>0, <2>1, <2>2, <2>3 DEF Gone, StartHeld, Starting
  <2>8. Asking'
    BY <1>0, <2>0, <2>1, <2>2, <2>3, AskingFrame
  <2>9. Control'
    BY <1>0, <2>0, <2>1, <2>2, <2>3, ControlFrame
  <2>10. Kept'
    BY <1>0, <2>0, <2>1, <2>2, <2>3 DEF Kept, KeptBy, Control, ControlOf, Sets
  <2>11. After'
    BY <1>0, <2>0, <2>1, <2>2, <2>3 DEF After, Control, ControlOf, Kept, KeptBy, Gone, Asking, AskingOf, Sets
  <2> QED BY <2>4, <2>5, <2>6, <2>7, <2>8, <2>9, <2>10, <2>11, <2>1, <2>2, <2>3 DEF TrdpInv, TrdpTypes
<1> QED BY <1>1

(* The session is closed, and its shutdown begins.                         *)
LEMMA CloseKeeps ==
  ASSUME TrdpNames, TrdpInv, Trdp!Close
  PROVE  TrdpInv'
<1>0. AtType /\ LocalType /\ FlagsType /\ LocksType /\ CaptureType /\ BridgeType /\ OpsType
      /\ StartHeld /\ Opened /\ Gone /\ Asking /\ Control /\ Kept /\ After
      /\ None \notin Trdp!Thread \cup {"ok", "err"} /\ Trdp!Cleaner \notin Trdp!Thread /\ Connector \in Trdp!Thread
      /\ Connector # Trdp!Cleaner /\ Connector # None
  BY DEF TrdpInv, TrdpTypes, TrdpNames, Trdp!Thread
<1>1. TrdpInv'
  <2>0. UNCHANGED <<bridge, flags, child, locks, pending, asked, store, capture, ops, local>>
    BY DEF Trdp!Close
  <2>1. session = "open" /\ session' = "closed"
    BY DEF Trdp!Close
  <2>2. PICK p \in Places : at' = [at EXCEPT ![Trdp!Cleaner] = "stop", ![Connector] = p]
                            /\ (p = at[Connector] \/ (at[Connector] = "failed" /\ p = "idle"))
    <3> DEFINE q == IF at[Connector] = "failed" THEN "idle" ELSE at[Connector]
    <3>3. at[Connector] \in Places /\ "idle" \in Places
      BY <1>0 DEF AtType, Places
    <3>1. q \in Places /\ (q = at[Connector] \/ (at[Connector] = "failed" /\ q = "idle"))
      BY <3>3
    <3>2. at' = [at EXCEPT ![Trdp!Cleaner] = "stop", ![Connector] = q]
      BY <1>0 DEF Trdp!Close, AtType
    <3> HIDE DEF q
    <3> QED BY <3>1, <3>2
  <2>3. AtType' /\ at'[Trdp!Cleaner] = "stop" /\ at'[Connector] = p
          /\ \A x \in Trdp!Thread : x # Connector => at'[x] = at[x]
    BY <1>0, <2>2 DEF AtType, Places
  <2>4. LocalType' /\ FlagsType' /\ LocksType' /\ CaptureType' /\ BridgeType' /\ OpsType'
    BY <1>0, <2>0 DEF LocalType, FlagsType, LocksType, CaptureType, BridgeType, OpsType
  <2>5. StartHeld'
    BY <1>0, <2>0, <2>1, <2>2, <2>3 DEF StartHeld, Starting
  <2>6. Opened'
    BY <1>0, <2>0, <2>1, <2>2, <2>3 DEF Opened, StartHeld, Starting
  <2>7. Gone'
    BY <1>0, <2>0, <2>1, <2>2, <2>3 DEF Gone, StartHeld, Starting
  <2>8. Asking'
    BY <1>0, <2>0, <2>1, <2>2, <2>3, AskingFrame
  <2>9. Control'
    BY <1>0, <2>0, <2>1, <2>2, <2>3, ControlFrame
  <2>10. Kept'
    <3>1. \A u \in Trdp!Thread : (locks'.control = u /\ local'[u].op = "capture_start") <=> Sets(u)
      BY <2>0 DEF Sets
    <3>2. \A u \in Trdp!Thread : Sets(u) => at'[u] = at[u]
      <4> SUFFICES ASSUME NEW u \in Trdp!Thread, Sets(u)
                   PROVE  at'[u] = at[u]
        OBVIOUS
      <4>1. at[u] \in {"asking", "waiting"}
        BY <1>0 DEF Control, ControlOf, Sets
      <4> QED BY <2>2, <2>3, <4>1
    <3> QED BY <1>0, <2>0, <3>1, <3>2, KeptFrame
  <2>11. After'
    BY <1>0, <2>0, <2>1, <2>2, <2>3 DEF After, Control, ControlOf, Kept, KeptBy, Gone, Asking, AskingOf, Sets
  <2> QED BY <2>4, <2>5, <2>6, <2>7, <2>8, <2>9, <2>10, <2>11, <2>1, <2>2, <2>3 DEF TrdpInv, TrdpTypes
<1> QED BY <1>1

(* A connect that failed after the session was closed.                     *)
LEMMA ConnectGivesUpKeeps ==
  ASSUME TrdpNames, TrdpInv, Trdp!ConnectGivesUp
  PROVE  TrdpInv'
<1>0. AtType /\ LocalType /\ FlagsType /\ LocksType /\ CaptureType /\ BridgeType /\ OpsType
      /\ StartHeld /\ Opened /\ Gone /\ Asking /\ Control /\ Kept /\ After
      /\ None \notin Trdp!Thread \cup {"ok", "err"} /\ Trdp!Cleaner \notin Trdp!Thread /\ Connector \in Trdp!Thread
      /\ Connector # Trdp!Cleaner /\ Connector # None
  BY DEF TrdpInv, TrdpTypes, TrdpNames, Trdp!Thread
<1>1. TrdpInv'
  <2>0. UNCHANGED <<session, bridge, flags, child, locks, pending, asked, store, capture, ops, local>>
    BY DEF Trdp!ConnectGivesUp
  <2>1. at[Connector] = "failed" /\ at' = [at EXCEPT ![Connector] = "idle"]
    BY DEF Trdp!ConnectGivesUp, Trdp!Goes
  <2>2. AtType' /\ at'[Connector] = "idle" /\ (\A x \in Trdp!Thread : x # Connector => at'[x] = at[x])
        /\ (Connector # Trdp!Cleaner => at'[Trdp!Cleaner] = at[Trdp!Cleaner])
    BY <1>0, <2>1 DEF AtType, Places
  <2>3. LocalType' /\ FlagsType' /\ LocksType' /\ CaptureType' /\ BridgeType' /\ OpsType'
    BY <1>0, <2>0 DEF LocalType, FlagsType, LocksType, CaptureType, BridgeType, OpsType
  <2>4. StartHeld'
    BY <1>0, <2>0, <2>1, <2>2 DEF StartHeld, Starting
  <2>5. Opened'
    BY <1>0, <2>0, <2>1, <2>2 DEF Opened, StartHeld, Starting
  <2>6. Gone'
    BY <1>0, <2>0, <2>1, <2>2 DEF Gone, StartHeld, Starting
  <2>7. Asking'
    BY <1>0, <2>0, <2>1, <2>2, AskingFrame
  <2>8. Control'
    BY <1>0, <2>0, <2>1, <2>2, ControlFrame
  <2>9. Kept'
    BY <1>0, <2>0, <2>1, <2>2 DEF Kept, KeptBy, Control, ControlOf, Sets
  <2>10. After'
    BY <1>0, <2>0, <2>1, <2>2 DEF After, Control, ControlOf, Kept, KeptBy, Gone, Asking, AskingOf, Sets
  <2> QED BY <2>3, <2>4, <2>5, <2>6, <2>7, <2>8, <2>9, <2>10, <2>1, <2>2 DEF TrdpInv, TrdpTypes
<1> QED BY <1>1

(* A command of the front end begins.                                      *)
LEMMA CommandKeeps ==
  ASSUME TrdpNames, TrdpInv, NEW t \in Trdp!Thread, Trdp!Command(t)
  PROVE  TrdpInv'
<1>0. AtType /\ LocalType /\ FlagsType /\ LocksType /\ CaptureType /\ BridgeType /\ OpsType
      /\ StartHeld /\ Opened /\ Gone /\ Asking /\ Control /\ Kept /\ After
      /\ None \notin Trdp!Thread \cup {"ok", "err"} /\ Trdp!Cleaner \notin Trdp!Thread /\ t # Trdp!Cleaner
      /\ t # None
  BY DEF TrdpInv, TrdpTypes, TrdpNames
<1>1. TrdpInv'
  <2>0. UNCHANGED <<session, bridge, flags, child, locks, pending, asked, store, capture>>
    BY DEF Trdp!Command
  <2>1. at[t] = "idle" /\ ops' = [ops EXCEPT !.issued = @ + 1]
    BY DEF Trdp!Command
  <2>2. OpsType' /\ ops'.requests = ops.requests
    BY <1>0, <2>1 DEF OpsType
  <2>3. PICK o \in Trdp!Op, p \in {"release", "start", "operate"} :
          local' = [local EXCEPT ![t] = [Trdp!Blank EXCEPT !.op = o]] /\ at' = [at EXCEPT ![t] = p]
    BY DEF Trdp!Command, Trdp!Goes
  <2>4. AtType' /\ at'[t] = p /\ (\A x \in Trdp!Thread : x # t => at'[x] = at[x])
        /\ (t # Trdp!Cleaner => at'[Trdp!Cleaner] = at[Trdp!Cleaner])
    BY <1>0, <2>3 DEF AtType, Places
  <2>5. LocalType' /\ (\A u \in Trdp!Thread : u # t => local'[u] = local[u])
          /\ local'[t].request = 0 /\ local'[t].answer = None
    BY <1>0, <2>3, BlankMind DEF LocalType
  <2>6. FlagsType' /\ LocksType' /\ CaptureType' /\ BridgeType'
    BY <1>0, <2>0 DEF FlagsType, LocksType, CaptureType, BridgeType
  <2>7. StartHeld'
    BY <1>0, <2>0, <2>1, <2>2, <2>3, <2>4, <2>5 DEF StartHeld, Starting
  <2>8. Opened'
    BY <1>0, <2>0, <2>1, <2>2, <2>3, <2>4, <2>5 DEF Opened, StartHeld, Starting
  <2>9. Gone'
    BY <1>0, <2>0, <2>1, <2>2, <2>3, <2>4, <2>5 DEF Gone, StartHeld, Starting
  <2>10. Asking'
    <3>1. \A r \in pending' : r # 0 /\ \E u \in Trdp!Thread : r = local'[u].request
      BY <1>0, <2>0, <2>1, <2>2, <2>3, <2>4, <2>5 DEF Asking, AskingOf, OpsType
    <3>2. ASSUME NEW u \in Trdp!Thread PROVE AskingOf(u)'
      <4>0. AskingOf(u) /\ local[u].request \in Nat /\ ops.requests \in Nat /\ u # None /\ u # Trdp!Cleaner
        BY <1>0 DEF Asking, LocalType, Mind, OpsType, TrdpNames
      <4>1. CASE u = t
        BY <1>0, <2>0, <2>1, <2>2, <2>3, <2>4, <2>5, <4>0, <4>1 DEF AskingOf
      <4>2. CASE u # t
        BY <1>0, <2>0, <2>1, <2>2, <2>3, <2>4, <2>5, <4>0, <4>2 DEF AskingOf
      <4> QED BY <4>1, <4>2
    <3> QED BY <3>1, <3>2 DEF Asking
  <2>11. Control'
    <3>2. ASSUME NEW u \in Trdp!Thread PROVE ControlOf(u)'
      <4>0. ControlOf(u) /\ local[u].request \in Nat /\ ops.requests \in Nat /\ u # None /\ u # Trdp!Cleaner
        BY <1>0 DEF Control, LocalType, Mind, OpsType, TrdpNames
      <4>1. CASE u = t
        BY <1>0, <2>0, <2>1, <2>2, <2>3, <2>4, <2>5, <4>0, <4>1 DEF ControlOf
      <4>2. CASE u # t
        BY <1>0, <2>0, <2>1, <2>2, <2>3, <2>4, <2>5, <4>0, <4>2 DEF ControlOf
      <4> QED BY <4>1, <4>2
    <3> QED BY <3>2 DEF Control
  <2>12. Kept'
    BY <1>0, <2>0, <2>1, <2>2, <2>3, <2>4, <2>5 DEF Kept, KeptBy, Control, ControlOf, Sets
  <2>13. After'
    BY <1>0, <2>0, <2>1, <2>2, <2>3, <2>4, <2>5 DEF After, Control, ControlOf, Kept, KeptBy, Gone, Asking,
       AskingOf, Sets
  <2> QED BY <2>6, <2>7, <2>8, <2>9, <2>10, <2>11, <2>12, <2>13, <2>1, <2>2, <2>3, <2>4, <2>5 DEF TrdpInv, TrdpTypes
<1> QED BY <1>1

(* The front end releases the capture.                                     *)
LEMMA TrdpReleaseKeeps ==
  ASSUME TrdpNames, TrdpInv, NEW t \in Trdp!Thread, Trdp!Release(t)
  PROVE  TrdpInv'
<1>0. AtType /\ LocalType /\ FlagsType /\ LocksType /\ CaptureType /\ BridgeType /\ OpsType
      /\ StartHeld /\ Opened /\ Gone /\ Asking /\ Control /\ Kept /\ After
      /\ None \notin Trdp!Thread \cup {"ok", "err"} /\ Trdp!Cleaner \notin Trdp!Thread /\ t # Trdp!Cleaner
      /\ t # None
  BY DEF TrdpInv, TrdpTypes, TrdpNames
<1>1. TrdpInv'
  <2>0. UNCHANGED <<session, bridge, flags, child, locks, pending, asked, ops, local>>
    BY DEF Trdp!Release
  <2>1. at[t] = "release" /\ locks.control = None /\ at' = [at EXCEPT ![t] = "idle"]
    BY DEF Trdp!Release, Trdp!Goes
  <2>2. AtType' /\ at'[t] = "idle" /\ (\A x \in Trdp!Thread : x # t => at'[x] = at[x])
        /\ (t # Trdp!Cleaner => at'[Trdp!Cleaner] = at[Trdp!Cleaner])
    BY <1>0, <2>1 DEF AtType, Places
  <2>3. /\ CaptureType' /\ capture'.made = capture.made
        /\ (capture'.id = capture.id /\ store' = store) \/ (capture'.id = 0 /\ store' = store \ {capture.id})
    <3>1. CASE capture.running
      BY <1>0, <3>1 DEF CaptureType, Trdp!Release
    <3>2. CASE ~capture.running
      <4>1. capture' = [capture EXCEPT !.id = 0, !.running = FALSE] /\ store' = store \ {capture.id}
        BY <3>2 DEF Trdp!Release, Trdp!ReleaseOwned
      <4> QED BY <1>0, <4>1 DEF CaptureType
    <3> QED BY <3>1, <3>2
  <2>12. locks.control \notin Trdp!Thread /\ locks'.control \notin Trdp!Thread /\ \A u \in Trdp!Thread : ~Sets(u)
    BY <1>0, <2>0, <2>1 DEF Sets
  <2>4. LocalType' /\ FlagsType' /\ LocksType' /\ BridgeType' /\ OpsType'
    BY <1>0, <2>0 DEF LocalType, FlagsType, LocksType, BridgeType, OpsType
  <2>5. StartHeld'
    BY <1>0, <2>0, <2>1, <2>2, <2>3 DEF StartHeld, Starting
  <2>6. Opened'
    BY <1>0, <2>0, <2>1, <2>2, <2>3 DEF Opened, StartHeld, Starting
  <2>7. Gone'
    BY <1>0, <2>0, <2>1, <2>2, <2>3 DEF Gone, StartHeld, Starting
  <2>8. Asking'
    BY <1>0, <2>0, <2>1, <2>2, <2>3, AskingFrame
  <2>9. Control'
    BY <1>0, <2>0, <2>1, <2>2, <2>3, ControlFrame
  <2>10. Kept'
    <3>1. CASE capture'.id = capture.id /\ store' = store
      BY <1>0, <2>0, <2>3, <2>12, <3>1, KeptFrame
    <3>2. CASE capture'.id = 0 /\ store' = store \ {capture.id}
      BY <1>0, <2>3, <2>12, <3>2, KeptReleased
    <3> QED BY <2>3, <3>1, <3>2
  <2>11. After'
    <3>1. capture'.id \in {capture.id, 0}
      BY <2>3
    <3> QED BY <1>0, <2>0, <2>2, <2>12, <3>1, AfterFrame
  <2> QED BY <2>4, <2>5, <2>6, <2>7, <2>8, <2>9, <2>10, <2>11, <2>1, <2>2, <2>3 DEF TrdpInv, TrdpTypes
<1> QED BY <1>1

(* A capture is made under the control lock.                               *)
LEMMA CaptureBeginKeeps ==
  ASSUME TrdpNames, TrdpInv, NEW t \in Trdp!Thread, Trdp!CaptureBegin(t)
  PROVE  TrdpInv'
<1>0. AtType /\ LocalType /\ FlagsType /\ LocksType /\ CaptureType /\ BridgeType /\ OpsType
      /\ StartHeld /\ Opened /\ Gone /\ Asking /\ Control /\ Kept /\ After
      /\ None \notin Trdp!Thread \cup {"ok", "err"} /\ Trdp!Cleaner \notin Trdp!Thread /\ t # Trdp!Cleaner
      /\ t # None
  BY DEF TrdpInv, TrdpTypes, TrdpNames
<1>1. TrdpInv'
  <2>0. UNCHANGED <<session, bridge, flags, child, pending, asked, ops>>
    BY DEF Trdp!CaptureBegin
  <2>1. at[t] = "operate" /\ local[t].op = "capture_start" /\ locks.control = None
    BY DEF Trdp!CaptureBegin
  <2>2. CASE at' = [at EXCEPT ![t] = "idle"] /\ UNCHANGED <<store, locks, local, capture>>
    <3>1. AtType' /\ at'[t] = "idle" /\ (\A x \in Trdp!Thread : x # t => at'[x] = at[x])
          /\ (t # Trdp!Cleaner => at'[Trdp!Cleaner] = at[Trdp!Cleaner])
      BY <1>0, <2>2 DEF AtType, Places
    <3>20. LocalType' /\ FlagsType' /\ LocksType' /\ CaptureType' /\ BridgeType' /\ OpsType'
      BY <1>0, <2>0, <2>2 DEF LocalType, FlagsType, LocksType, CaptureType, BridgeType, OpsType
    <3>21. StartHeld'
      BY <1>0, <2>0, <2>1, <2>2, <3>1 DEF StartHeld, Starting
    <3>22. Opened'
      BY <1>0, <2>0, <2>1, <2>2, <3>1 DEF Opened, StartHeld, Starting
    <3>23. Gone'
      BY <1>0, <2>0, <2>1, <2>2, <3>1 DEF Gone, StartHeld, Starting
    <3>24. Asking'
      BY <1>0, <2>0, <2>1, <2>2, <3>1, AskingFrame
    <3>25. Control'
      BY <1>0, <2>0, <2>1, <2>2, <3>1, ControlFrame
    <3>26. Kept'
      BY <1>0, <2>0, <2>1, <2>2, <3>1 DEF Kept, KeptBy, Control, ControlOf, Sets
    <3>27. After'
      BY <1>0, <2>0, <2>1, <2>2, <3>1 DEF After, Control, ControlOf, Kept, KeptBy, Gone, Asking, AskingOf, Sets
    <3> QED BY <3>20, <3>21, <3>22, <3>23, <3>24, <3>25, <3>26, <3>27, <2>1, <2>2, <3>1 DEF TrdpInv, TrdpTypes
  <2>3. CASE /\ store' = store \union {capture.made + 1} /\ capture' = [capture EXCEPT !.made = @ + 1]
             /\ local' = [local EXCEPT ![t].previous = capture.id, ![t].new = capture.made + 1]
             /\ locks' = [locks EXCEPT !.control = t] /\ at' = [at EXCEPT ![t] = "asking"]
    <3>1. AtType' /\ at'[t] = "asking" /\ (\A x \in Trdp!Thread : x # t => at'[x] = at[x])
          /\ (t # Trdp!Cleaner => at'[Trdp!Cleaner] = at[Trdp!Cleaner])
      BY <1>0, <2>3 DEF AtType, Places
    <3>2. LocksType' /\ locks'.start = locks.start /\ locks'.control = t
      BY <1>0, <2>3 DEF LocksType
    <3>3. CaptureType' /\ capture'.id = capture.id /\ capture'.made = capture.made + 1 /\ capture.id \in Nat
          /\ capture.made \in Nat
      BY <1>0, <2>3 DEF CaptureType
    <3>4. PICK m \in Nat, i \in Nat : m = capture.made + 1 /\ i = capture.id
      BY <3>3
    <3> DEFINE mind == [local[t] EXCEPT !.previous = i, !.new = m]
    <3>5. local[t] \in Mind
      BY <1>0 DEF LocalType
    <3>6. mind \in Mind /\ mind.request = local[t].request /\ mind.answer = local[t].answer /\ mind.op = local[t].op
          /\ mind.previous = i /\ mind.new = m
      BY <3>5 DEF Mind
    <3>7. local' = [local EXCEPT ![t] = mind]
      BY <1>0, <2>3, <3>4 DEF LocalType
    <3> HIDE DEF mind
    <3>8. LocalType' /\ local'[t] = mind /\ \A u \in Trdp!Thread : u # t => local'[u] = local[u]
      BY <1>0, <3>6, <3>7 DEF LocalType
    <3>9. /\ \A u \in Trdp!Thread : local'[u].request = local[u].request /\ local'[u].answer = local[u].answer
                                    /\ local'[u].op = local[u].op
          /\ local'[t].previous = capture.id /\ local'[t].new = capture.made + 1
      BY <3>4, <3>6, <3>8
    <3>10. store' = store \cup {capture.made + 1}
      BY <2>3
    <3>11. Sets(t)' /\ \A u \in Trdp!Thread : ~Sets(u) /\ (Sets(u)' => u = t)
      BY <1>0, <2>1, <3>2, <3>9 DEF Sets
    <3>20. FlagsType' /\ BridgeType' /\ OpsType'
      BY <1>0, <2>0, <2>3 DEF FlagsType, BridgeType, OpsType
    <3>21. StartHeld'
      BY <1>0, <2>0, <2>1, <3>1, <3>2, <3>9 DEF StartHeld, Starting
    <3>22. Opened'
      BY <1>0, <2>0, <2>1, <3>1, <3>2, <3>9 DEF Opened, StartHeld, Starting
    <3>23. Gone'
      BY <1>0, <2>0, <2>1, <3>1, <3>2, <3>9 DEF Gone, StartHeld, Starting
    <3>24. Asking'
      BY <1>0, <2>0, <2>1, <3>1, <3>2, <3>9, AskingFrame
    <3>25. Control'
      <4>2. ASSUME NEW u \in Trdp!Thread PROVE ControlOf(u)'
        <5>0. ControlOf(u) /\ local[u].request \in Nat /\ ops.requests \in Nat /\ u # None /\ u # Trdp!Cleaner
          BY <1>0 DEF Control, LocalType, Mind, OpsType, TrdpNames
        <5>1. CASE u = t
          BY <1>0, <2>0, <2>1, <3>1, <3>2, <3>9, <5>0, <5>1 DEF ControlOf
        <5>2. CASE u # t
          BY <1>0, <2>0, <2>1, <3>1, <3>2, <3>9, <5>0, <5>2 DEF ControlOf
        <5> QED BY <5>1, <5>2
      <4> QED BY <4>2 DEF Control
    <3>26. Kept'
      <4>1. store \subseteq {capture.id} /\ capture.id <= capture.made
        BY <1>0, <3>11 DEF Kept
      <4>2. KeptBy(t)'
        BY <3>1, <3>3, <3>9, <3>10, <4>1 DEF KeptBy
      <4>3. 0 \notin store' /\ (\A c \in store' : c <= capture'.made) /\ capture'.id <= capture'.made
        BY <1>0, <3>3, <3>10 DEF Kept, CaptureType
      <4> QED BY <3>11, <4>2, <4>3 DEF Kept
    <3>27. After'
      BY <1>0, <3>1, <3>9, <3>11 DEF After
    <3> QED BY <3>20, <3>21, <3>22, <3>23, <3>24, <3>25, <3>26, <3>27, <2>1, <2>3, <3>1, <3>2, <3>3, <3>4, <3>6,
               <3>8 DEF TrdpInv, TrdpTypes
  <2> QED BY <2>2, <2>3 DEF Trdp!CaptureBegin, Trdp!Goes
<1> QED BY <1>1

(* The new capture becomes the one of the session, and the bridge is       *)
(* asked.                                                                  *)
LEMMA CaptureAskKeeps ==
  ASSUME TrdpNames, TrdpInv, NEW t \in Trdp!Thread, Trdp!CaptureAsk(t)
  PROVE  TrdpInv'
<1>0. AtType /\ LocalType /\ FlagsType /\ LocksType /\ CaptureType /\ BridgeType /\ OpsType
      /\ StartHeld /\ Opened /\ Gone /\ Asking /\ Control /\ Kept /\ After
      /\ None \notin Trdp!Thread \cup {"ok", "err"} /\ Trdp!Cleaner \notin Trdp!Thread /\ t # Trdp!Cleaner
      /\ t # None
  BY DEF TrdpInv, TrdpTypes, TrdpNames
<1>1. TrdpInv'
  <2>0. UNCHANGED <<session, bridge, flags, child, locks, store>>
    BY DEF Trdp!CaptureAsk
  <2>1. at[t] = "asking" /\ Trdp!Ask(t, "waiting") /\ "waiting" \in Places
    BY DEF Trdp!CaptureAsk, Places
  <2>2. /\ AtType' /\ LocalType' /\ OpsType'
        /\ at'[t] = "waiting" /\ (\A x \in Trdp!Thread : x # t => at'[x] = at[x])
        /\ at'[Trdp!Cleaner] = at[Trdp!Cleaner]
        /\ ops'.requests = ops.requests + 1 /\ local'[t].request = ops.requests + 1
        /\ local'[t].op = local[t].op /\ local'[t].previous = local[t].previous /\ local'[t].new = local[t].new
        /\ \A u \in Trdp!Thread : u # t => local'[u] = local[u]
        /\ \/ flags.alive /\ child # 0 /\ pending' = pending \cup {ops.requests + 1} /\ local'[t].answer = None
           \/ ~(flags.alive /\ child # 0) /\ pending' = pending /\ local'[t].answer = "err"
    BY <1>0, <2>1, AskDoes
  <2>3. local[t].new \in Nat
    BY <1>0 DEF LocalType, Mind
  <2>4. CaptureType' /\ capture'.id = local[t].new /\ capture'.made = capture.made
    BY <1>0, <2>3 DEF CaptureType, Trdp!CaptureAsk
  <2>5. FlagsType' /\ LocksType' /\ BridgeType'
    BY <1>0, <2>0 DEF FlagsType, LocksType, BridgeType
  <2>6. StartHeld'
    BY <1>0, <2>0, <2>1, <2>2, <2>3, <2>4 DEF StartHeld, Starting
  <2>7. Opened'
    BY <1>0, <2>0, <2>1, <2>2, <2>3, <2>4 DEF Opened, StartHeld, Starting
  <2>8. Gone'
    BY <1>0, <2>0, <2>1, <2>2, <2>3, <2>4 DEF Gone, StartHeld, Starting
  <2>9. Asking'
    BY <1>0, <2>1, AskKeepsAsking
  <2>10. Control'
    <3>2. ASSUME NEW u \in Trdp!Thread PROVE ControlOf(u)'
      <4>0. ControlOf(u) /\ local[u].request \in Nat /\ ops.requests \in Nat /\ u # None /\ u # Trdp!Cleaner
        BY <1>0 DEF Control, LocalType, Mind, OpsType, TrdpNames
      <4>1. CASE u = t
        BY <1>0, <2>0, <2>1, <2>2, <2>3, <2>4, <4>0, <4>1 DEF ControlOf
      <4>2. CASE u # t
        BY <1>0, <2>0, <2>1, <2>2, <2>3, <2>4, <4>0, <4>2 DEF ControlOf
      <4> QED BY <4>1, <4>2
    <3> QED BY <3>2 DEF Control
  <2>11. Kept'
    BY <1>0, <2>0, <2>1, <2>2, <2>3, <2>4 DEF Kept, KeptBy, Control, ControlOf, Sets
  <2>12. After'
    <3>1. ASSUME at'[Trdp!Cleaner] = "done" PROVE After'
      <4>1. locks.control = t /\ Sets(t) /\ locks'.control = t
        BY <1>0, <2>0, <2>1 DEF Control, ControlOf, Sets
      <4>2. local[t].previous = 0 /\ at[Trdp!Cleaner] = "done"
        BY <1>0, <2>2, <3>1, <4>1 DEF After
      <4>3. local'[t].answer = "err"
        BY <1>0, <2>2, <4>2 DEF Gone
      <4>4. \A u \in Trdp!Thread : Sets(u)' <=> u = t
        BY <2>2, <4>1 DEF Sets
      <4> QED BY <2>2, <4>2, <4>3, <4>4 DEF After
    <3> QED BY <3>1 DEF After
  <2> QED BY <2>5, <2>6, <2>7, <2>8, <2>9, <2>10, <2>11, <2>12, <2>1, <2>2, <2>3, <2>4 DEF TrdpInv, TrdpTypes
<1> QED BY <1>1

(* An operation asks the bridge.                                           *)
LEMMA OperateKeeps ==
  ASSUME TrdpNames, TrdpInv, NEW t \in Trdp!Thread, Trdp!Operate(t)
  PROVE  TrdpInv'
<1>0. AtType /\ LocalType /\ FlagsType /\ LocksType /\ CaptureType /\ BridgeType /\ OpsType
      /\ StartHeld /\ Opened /\ Gone /\ Asking /\ Control /\ Kept /\ After
      /\ None \notin Trdp!Thread \cup {"ok", "err"} /\ Trdp!Cleaner \notin Trdp!Thread /\ t # Trdp!Cleaner
      /\ t # None
  BY DEF TrdpInv, TrdpTypes, TrdpNames
<1>1. TrdpInv'
  <2>0. UNCHANGED <<session, bridge, flags, child, store, capture>>
    BY DEF Trdp!Operate
  <2>1. at[t] = "operate" /\ Trdp!Ask(t, "waiting") /\ "waiting" \in Places
        /\ local[t].op \in {"capture_stop", "other"}
    BY DEF Trdp!Operate, Places
  <2>2. /\ AtType' /\ LocalType' /\ OpsType'
        /\ at'[t] = "waiting" /\ (\A x \in Trdp!Thread : x # t => at'[x] = at[x])
        /\ at'[Trdp!Cleaner] = at[Trdp!Cleaner]
        /\ ops'.requests = ops.requests + 1 /\ local'[t].request = ops.requests + 1
        /\ local'[t].op = local[t].op /\ local'[t].previous = local[t].previous /\ local'[t].new = local[t].new
        /\ \A u \in Trdp!Thread : u # t => local'[u] = local[u]
        /\ \/ flags.alive /\ child # 0 /\ pending' = pending \cup {ops.requests + 1} /\ local'[t].answer = None
           \/ ~(flags.alive /\ child # 0) /\ pending' = pending /\ local'[t].answer = "err"
    BY <1>0, <2>1, AskDoes
  <2>3. LocksType' /\ locks'.start = locks.start /\ (local[t].op = "other" => locks'.control = locks.control)
        /\ (local[t].op = "capture_stop" => locks.control = None /\ locks'.control = t)
    BY <1>0 DEF LocksType, Trdp!Operate
  <2>4. FlagsType' /\ CaptureType' /\ BridgeType'
    BY <1>0, <2>0 DEF FlagsType, CaptureType, BridgeType
  <2>5. StartHeld'
    BY <1>0, <2>0, <2>1, <2>2, <2>3 DEF StartHeld, Starting
  <2>6. Opened'
    BY <1>0, <2>0, <2>1, <2>2, <2>3 DEF Opened, StartHeld, Starting
  <2>7. Gone'
    BY <1>0, <2>0, <2>1, <2>2, <2>3 DEF Gone, StartHeld, Starting
  <2>8. Asking'
    BY <1>0, <2>1, AskKeepsAsking
  <2>9. Control'
    <3>2. ASSUME NEW u \in Trdp!Thread PROVE ControlOf(u)'
      <4>0. ControlOf(u) /\ local[u].request \in Nat /\ ops.requests \in Nat /\ u # None /\ u # Trdp!Cleaner
        BY <1>0 DEF Control, LocalType, Mind, OpsType, TrdpNames
      <4>1. CASE u = t
        BY <1>0, <2>0, <2>1, <2>2, <2>3, <4>0, <4>1 DEF ControlOf
      <4>2. CASE u # t
        BY <1>0, <2>0, <2>1, <2>2, <2>3, <4>0, <4>2 DEF ControlOf
      <4> QED BY <4>1, <4>2
    <3> QED BY <3>2 DEF Control
  <2>10. Kept'
    <3>1. \A u \in Trdp!Thread : (locks'.control = u /\ local'[u].op = "capture_start") <=> Sets(u)
      <4> TAKE u \in Trdp!Thread
      <4>1. CASE u = t
        BY <1>0, <2>1, <2>2, <4>1 DEF Sets
      <4>2. CASE u # t
        <5>1. CASE local[t].op = "other"
          BY <2>2, <2>3, <4>2, <5>1 DEF Sets
        <5>2. CASE local[t].op = "capture_stop"
          BY <1>0, <2>3, <4>2, <5>2 DEF Sets
        <5> QED BY <2>1, <5>1, <5>2
      <4> QED BY <4>1, <4>2
    <3>2. \A u \in Trdp!Thread : Sets(u) => u # t
      BY <2>1 DEF Sets
    <3> QED BY <1>0, <2>0, <2>2, <3>1, <3>2, KeptFrame
  <2>11. After'
    <3>1. \A u \in Trdp!Thread : (locks'.control = u /\ local'[u].op = "capture_start") <=> Sets(u)
      <4> TAKE u \in Trdp!Thread
      <4>1. CASE u = t
        BY <1>0, <2>1, <2>2, <4>1 DEF Sets
      <4>2. CASE u # t
        <5>1. CASE local[t].op = "other"
          BY <2>2, <2>3, <4>2, <5>1 DEF Sets
        <5>2. CASE local[t].op = "capture_stop"
          BY <1>0, <2>3, <4>2, <5>2 DEF Sets
        <5> QED BY <2>1, <5>1, <5>2
      <4> QED BY <4>1, <4>2
    <3>2. \A u \in Trdp!Thread : Sets(u) => u # t
      BY <2>1 DEF Sets
    <3> QED BY <1>0, <2>0, <2>2, <3>1, <3>2, AfterFrame
  <2> QED BY <2>4, <2>5, <2>6, <2>7, <2>8, <2>9, <2>10, <2>11, <2>1, <2>2, <2>3 DEF TrdpInv, TrdpTypes
<1> QED BY <1>1

(* An answer decides which of two captures is kept.                        *)
LEMMA AnsweredKeeps ==
  ASSUME TrdpNames, TrdpInv, NEW t \in Trdp!Thread, Trdp!Answered(t)
  PROVE  TrdpInv'
<1>0. AtType /\ LocalType /\ FlagsType /\ LocksType /\ CaptureType /\ BridgeType /\ OpsType
      /\ StartHeld /\ Opened /\ Gone /\ Asking /\ Control /\ Kept /\ After
      /\ None \notin Trdp!Thread \cup {"ok", "err"} /\ Trdp!Cleaner \notin Trdp!Thread /\ t # Trdp!Cleaner
      /\ t # None
  BY DEF TrdpInv, TrdpTypes, TrdpNames
<1>1. TrdpInv'
  <2>0. UNCHANGED <<session, bridge, flags, child, pending, asked, ops>>
    BY DEF Trdp!Answered
  <2>1. at[t] = "waiting" /\ local[t].answer # None /\ at' = [at EXCEPT ![t] = "idle"]
    BY DEF Trdp!Answered, Trdp!Goes
  <2>2. AtType' /\ at'[t] = "idle" /\ (\A x \in Trdp!Thread : x # t => at'[x] = at[x])
        /\ (t # Trdp!Cleaner => at'[Trdp!Cleaner] = at[Trdp!Cleaner])
    BY <1>0, <2>1 DEF AtType, Places
  <2>3. LocalType' /\ (\A u \in Trdp!Thread : u # t => local'[u] = local[u])
          /\ local'[t].request = 0 /\ local'[t].answer = None
    BY <1>0, BlankMind DEF LocalType, Trdp!Answered
  <2>4. LocksType' /\ locks'.start = locks.start
        /\ locks'.control = IF locks.control = t THEN None ELSE locks.control
    BY <1>0 DEF LocksType, Trdp!Answered
  <2>5. local[t] \in Mind
    BY <1>0 DEF LocalType
  <2>6. CaptureType' /\ capture'.made = capture.made
          /\ IF local[t].op = "capture_start"
             THEN IF local[t].answer = "ok" THEN store' = store \ {local[t].previous} /\ capture'.id = capture.id
                  ELSE store' = store \ {local[t].new} /\ capture'.id = local[t].previous
             ELSE store' = store /\ capture'.id = capture.id
    BY <1>0, <2>5 DEF CaptureType, Mind, Trdp!Answered
  <2>7. FlagsType' /\ BridgeType' /\ OpsType'
    BY <1>0, <2>0 DEF FlagsType, BridgeType, OpsType
  <2>8. StartHeld'
    BY <1>0, <2>0, <2>1, <2>2, <2>3, <2>4, <2>5, <2>6 DEF StartHeld, Starting
  <2>9. Opened'
    BY <1>0, <2>0, <2>1, <2>2, <2>3, <2>4, <2>5, <2>6 DEF Opened, StartHeld, Starting
  <2>10. Gone'
    BY <1>0, <2>0, <2>1, <2>2, <2>3, <2>4, <2>5, <2>6 DEF Gone, StartHeld, Starting
  <2>11. Asking'
    <3>1. \A r \in pending' : r # 0 /\ \E u \in Trdp!Thread : r = local'[u].request
      BY <1>0, <2>0, <2>1, <2>2, <2>3, <2>4, <2>5, <2>6 DEF Asking, AskingOf, OpsType
    <3>2. ASSUME NEW u \in Trdp!Thread PROVE AskingOf(u)'
      <4>0. AskingOf(u) /\ local[u].request \in Nat /\ ops.requests \in Nat /\ u # None /\ u # Trdp!Cleaner
        BY <1>0 DEF Asking, LocalType, Mind, OpsType, TrdpNames
      <4>1. CASE u = t
        BY <1>0, <2>0, <2>1, <2>2, <2>3, <2>4, <2>5, <2>6, <4>0, <4>1 DEF AskingOf
      <4>2. CASE u # t
        BY <1>0, <2>0, <2>1, <2>2, <2>3, <2>4, <2>5, <2>6, <4>0, <4>2 DEF AskingOf
      <4> QED BY <4>1, <4>2
    <3> QED BY <3>1, <3>2 DEF Asking
  <2>12. Control'
    <3>2. ASSUME NEW u \in Trdp!Thread PROVE ControlOf(u)'
      <4>0. ControlOf(u) /\ local[u].request \in Nat /\ ops.requests \in Nat /\ u # None /\ u # Trdp!Cleaner
        BY <1>0 DEF Control, LocalType, Mind, OpsType, TrdpNames
      <4>1. CASE u = t
        BY <1>0, <2>0, <2>1, <2>2, <2>3, <2>4, <2>5, <2>6, <4>0, <4>1 DEF ControlOf
      <4>2. CASE u # t
        BY <1>0, <2>0, <2>1, <2>2, <2>3, <2>4, <2>5, <2>6, <4>0, <4>2 DEF ControlOf
      <4> QED BY <4>1, <4>2
    <3> QED BY <3>2 DEF Control
  <2>13. Kept'
    <3>1. CASE local[t].op = "capture_start"
      <4>1. locks.control = t /\ Sets(t) /\ KeptBy(t) /\ locks'.control = None
        BY <1>0, <2>1, <2>4, <3>1 DEF Control, ControlOf, Kept, Sets
      <4>2. \A u \in Trdp!Thread : ~Sets(u)'
        BY <1>0, <4>1 DEF Sets
      <4>3. /\ local[t].previous \in Nat /\ local[t].new \in Nat /\ capture.made \in Nat /\ capture.id \in Nat
        BY <1>0, <2>5 DEF Mind, CaptureType
      <4>4. store' \subseteq {capture'.id} /\ capture'.id <= capture'.made
        BY <1>0, <2>1, <2>6, <3>1, <4>1, <4>3 DEF Kept, KeptBy
      <4>5. store' \subseteq store
        BY <2>6, <3>1
      <4> QED BY <1>0, <2>6, <4>2, <4>4, <4>5 DEF Kept
    <3>2. CASE local[t].op # "capture_start"
      <4>1. \A u \in Trdp!Thread : (locks'.control = u /\ local'[u].op = "capture_start") <=> Sets(u)
        <5> TAKE u \in Trdp!Thread
        <5>1. u # None
          BY <1>0
        <5>2. CASE u = t
          BY <1>0, <2>4, <3>2, <5>1, <5>2 DEF Sets
        <5>3. CASE u # t
          BY <2>3, <2>4, <5>1, <5>3 DEF Sets
        <5> QED BY <5>2, <5>3
      <4>2. \A u \in Trdp!Thread : Sets(u) => u # t
        BY <3>2 DEF Sets
      <4> QED BY <1>0, <2>2, <2>3, <2>6, <3>2, <4>1, <4>2, KeptFrame
    <3> QED BY <3>1, <3>2
  <2>14. After'
    <3>1. CASE local[t].op = "capture_start"
      <4>1. locks.control = t /\ Sets(t) /\ KeptBy(t) /\ locks'.control = None
        BY <1>0, <2>1, <2>4, <3>1 DEF Control, ControlOf, Kept, Sets
      <4>2. \A u \in Trdp!Thread : ~Sets(u)'
        BY <1>0, <4>1 DEF Sets
      <4>3. at'[Trdp!Cleaner] = "done" => capture'.id = 0
        BY <1>0, <2>1, <2>2, <2>6, <3>1, <4>1 DEF After
      <4> QED BY <4>2, <4>3 DEF After
    <3>2. CASE local[t].op # "capture_start"
      <4>1. \A u \in Trdp!Thread : (locks'.control = u /\ local'[u].op = "capture_start") <=> Sets(u)
        <5> TAKE u \in Trdp!Thread
        <5>1. u # None
          BY <1>0
        <5>2. CASE u = t
          BY <1>0, <2>4, <3>2, <5>1, <5>2 DEF Sets
        <5>3. CASE u # t
          BY <2>3, <2>4, <5>1, <5>3 DEF Sets
        <5> QED BY <5>2, <5>3
      <4>2. \A u \in Trdp!Thread : Sets(u) => u # t
        BY <3>2 DEF Sets
      <4> QED BY <1>0, <2>2, <2>3, <2>6, <3>2, <4>1, <4>2, AfterFrame
    <3> QED BY <3>1, <3>2
  <2> QED BY <2>7, <2>8, <2>9, <2>10, <2>11, <2>12, <2>13, <2>14, <2>1, <2>2, <2>3, <2>4, <2>5, <2>6 DEF TrdpInv,
             TrdpTypes
<1> QED BY <1>1

(* Nothing happens.                                                        *)
LEMMA TrdpStutters ==
  ASSUME TrdpInv, UNCHANGED Trdp!tdvars
  PROVE  TrdpInv'
BY DEF TrdpInv, TrdpTypes, AtType, LocalType, FlagsType, LocksType, CaptureType, BridgeType, OpsType, StartHeld,
   Opened,
       Gone, Asking, AskingOf, Control, ControlOf, Kept, KeptBy, Sets, After, Trdp!tdvars

(* Every step of the session keeps the invariant.                          *)
LEMMA TrdpStep ==
  ASSUME TrdpNames, TrdpInv, [Trdp!Next]_(Trdp!tdvars)
  PROVE  TrdpInv'
<1>1. ASSUME NEW t \in Trdp!Thread, Trdp!ThreadRuns(t)
      PROVE  TrdpInv'
  BY <1>1, TimesOutKeeps, StartEnterKeeps, StartSpawnKeeps, StartRecheckKeeps, StartArmKeeps, StartOpenKeeps,
     StartEndsKeeps,
     TrdpReleaseKeeps, CaptureBeginKeeps, CaptureAskKeeps, OperateKeeps, AnsweredKeeps DEF Trdp!ThreadRuns
<1>2. ASSUME NEW t \in Trdp!Thread \cup {Trdp!Cleaner}, Trdp!Stops(t)
      PROVE  TrdpInv'
  BY <1>2, StopAskKeeps, StopKillKeeps, StopClearKeeps DEF Trdp!Stops
<1>3. ASSUME Trdp!ReaderRuns
      PROVE  TrdpInv'
  BY <1>3, ReaderLineKeeps, ReaderEofKeeps, ReaderEndsKeeps DEF Trdp!ReaderRuns
<1>4. ASSUME NEW t \in Caller, Trdp!Command(t)
      PROVE  TrdpInv'
  BY <1>4, CommandKeeps DEF Trdp!Thread
<1>5. CASE UNCHANGED Trdp!tdvars
  BY <1>5, TrdpStutters
<1> QED BY <1>1, <1>2, <1>3, <1>4, <1>5, AnnounceKeeps, ConnectGivesUpKeeps, CloseKeeps, BridgeDiesKeeps
        DEF Trdp!Next, Trdp!Progress

(* The session as connect_session finds it.                                *)
LEMMA TrdpStarts ==
  ASSUME TrdpNames, Trdp!Init
  PROVE  TrdpInv
<1>1. /\ AtType /\ at[Trdp!Cleaner] = "idle"
      /\ \A t \in Trdp!Thread : at[t] \in {"start", "announce", "idle"} /\ local[t] = Trdp!Blank /\ t # None
  <2>1. Trdp!Cleaner # Connector
    BY DEF TrdpNames, Trdp!Thread
  <2> QED BY <2>1 DEF Trdp!Init, AtType, Places, TrdpNames
<1>2. FlagsType /\ LocksType /\ CaptureType /\ BridgeType /\ OpsType
  BY DEF Trdp!Init, FlagsType, LocksType, CaptureType, BridgeType, OpsType
<1>3. LocalType
  BY BlankMind DEF Trdp!Init, LocalType
<1>4. StartHeld /\ Opened /\ Gone
  BY <1>1 DEF Trdp!Init, StartHeld, Opened, Gone, Starting
<1>5. Asking
  BY <1>1, BlankMind DEF Trdp!Init, Asking, AskingOf
<1>6. Control
  BY <1>1 DEF Trdp!Init, Control, ControlOf
<1>7. Kept /\ After
  <2>1. locks.control = None /\ store = {} /\ capture.id = 0 /\ capture.made = 0
    BY DEF Trdp!Init
  <2>2. \A t \in Trdp!Thread : ~Sets(t)
    BY <1>1, <2>1 DEF Sets
  <2> QED BY <1>1, <2>1, <2>2 DEF Kept, After
<1> QED BY <1>1, <1>2, <1>3, <1>4, <1>5, <1>6, <1>7 DEF TrdpInv, TrdpTypes

(* With its threads at rest nobody holds a lock.                           *)
LEMMA TrdpRests ==
  ASSUME TrdpNames, TrdpInv, \A t \in Trdp!Thread : at[t] = "idle"
  PROVE  locks.start = None /\ \A t \in Trdp!Thread : ~Sets(t)
<1>1. LocksType /\ StartHeld /\ Control
  BY DEF TrdpInv, TrdpTypes
<1>2. locks.start = None
  BY <1>1 DEF LocksType, StartHeld, Starting
<1>3. \A t \in Trdp!Thread : locks.control # t
  BY <1>1 DEF Control, ControlOf
<1> QED BY <1>2, <1>3 DEF Sets

(* What the invariant says of a session at rest.                           *)
LEMMA TrdpHoldsBy ==
  ASSUME TrdpNames, TrdpInv
  PROVE  Trdp!CapturesReleased /\ Trdp!OpenIsUsable
<1>1. Trdp!CapturesReleased
  <2> SUFFICES ASSUME at[Trdp!Cleaner] = "done", \A t \in Trdp!Thread : at[t] = "idle"
               PROVE  store = {}
    BY DEF Trdp!CapturesReleased
  <2>1. \A t \in Trdp!Thread : ~Sets(t)
    BY TrdpRests
  <2>2. capture.id = 0 /\ 0 \notin store /\ store \subseteq {capture.id}
    BY <2>1 DEF TrdpInv, After, Kept
  <2> QED BY <2>2
<1>2. Trdp!OpenIsUsable
  <2> SUFFICES ASSUME session = "open", Trdp!Quiet, child # 0
               PROVE  flags.alive /\ flags.ready
    BY DEF Trdp!OpenIsUsable
  <2>1. locks.start = None
    BY TrdpRests DEF Trdp!Quiet
  <2>2. flags.ready /\ (flags.alive \/ \E g \in Trdp!Gen : bridge[g].reader = "ending")
    BY <2>1 DEF TrdpInv, Opened
  <2>3. \A g \in Trdp!Gen : bridge[g].reader # "ending"
    BY DEF Trdp!Quiet
  <2> QED BY <2>2, <2>3
<1> QED BY <1>1, <1>2

(* A session that was shut down and is at rest leaves no capture in the    *)
(* store, and one that is open and at rest has no bridge it cannot use:    *)
(* stop_process, capture_start and the closing steps of a reader, in any   *)
(* order, with any number of bridges and commands.                         *)
THEOREM TrdpHolds ==
  ASSUME TrdpNames
  PROVE  Trdp!Spec => [](Trdp!CapturesReleased /\ Trdp!OpenIsUsable)
<1>1. Trdp!Init => TrdpInv
  BY TrdpStarts
<1>2. TrdpInv /\ [Trdp!Next]_(Trdp!tdvars) => TrdpInv'
  BY TrdpStep
<1>3. TrdpInv => Trdp!CapturesReleased /\ Trdp!OpenIsUsable
  BY TrdpHoldsBy
<1> QED BY <1>1, <1>2, <1>3, PTL DEF Trdp!Spec

-----------------------------------------------------------------------------
(* The server of iperf and its status *)

(* No command and no thread is none.                                       *)
NoneApart == None \notin Call /\ None \notin ServerThreads

Leaving == {"drain", "leave", "exited"}
FlagsOf == [running : BOOLEAN, abort : BOOLEAN, handle : ServerThreads \cup {None}, epoch : Nat,
          lock : Call \cup {None}, shut : BOOLEAN]
ListenerOf == [at : {"free", "spawned", "go", "bind", "serve"} \cup Leaving, epoch : Nat]
CommandOf == [at : {"idle", "end", "join", "check", "spawn"}, entry : BOOLEAN,
            joins : ServerThreads \cup {None}]
IperfTypes ==
  /\ rt \in FlagsOf
  /\ th \in [ServerThreads -> ListenerOf]
  /\ call \in [Call -> CommandOf]
  /\ port \in ServerThreads \cup {None}
  /\ shown \in BOOLEAN

(* The thread that was spawned last: its handle is kept, or with the start *)
(* that waits for it.                                                      *)
Latest == IF rt.lock = None THEN rt.handle ELSE call[rt.lock].joins

(* The lock is held by the start in progress, and the flag is as that start*)
(* met it: stops take the lock too.                                        *)
LockHeld ==
  /\ \A c \in Call : rt.lock = c <=> call[c].at \in {"join", "check", "spawn"}
  /\ rt.lock # None => call[rt.lock].entry = rt.abort

(* Every thread but the latest is on its way out, and the latest one too   *)
(* once a start has waited for it; only the latest is current.             *)
Generations ==
  /\ Latest = None <=> rt.epoch = 0
  /\ Latest # None => th[Latest].at # "free" /\ th[Latest].epoch = rt.epoch
  /\ \A t \in ServerThreads : t # Latest => th[t].at \in {"free"} \cup Leaving /\ (th[t].at # "free" => th[t].epoch < rt.epoch)
  /\ rt.lock # None /\ call[rt.lock].at \in {"check", "spawn"} /\ Latest # None => th[Latest].at \in Leaving
  /\ \A t \in ServerThreads : port = t <=> th[t].at \in {"serve", "drain"}

(* What was told of the latest thread.                                     *)
FrontEndTold ==
  /\ Latest = None => ~shown /\ (rt.lock = None => ~rt.running)
  /\ Latest # None =>
       /\ th[Latest].at \in {"bind", "serve"} /\ ~rt.abort => rt.running
       /\ th[Latest].at = "serve" /\ ~rt.abort => shown
       /\ th[Latest].at = "exited" => ~shown /\ (rt.lock = None => ~rt.running)

(* All this is of an open session; one that was shut down shows nothing.   *)
StatusInv == IperfTypes /\ (rt.shut \/ (LockHeld /\ Generations /\ FrontEndTold))


(* No server was started, and none was told of.                            *)
LEMMA IperfStarts == NoneApart /\ Iperf!Init => StatusInv
<1> SUFFICES ASSUME NoneApart, Iperf!Init PROVE StatusInv
  OBVIOUS
<1>1. IperfTypes
  <2>1. rt \in FlagsOf
    BY DEF Iperf!Init, FlagsOf
  <2>2. th \in [ServerThreads -> ListenerOf]
    BY DEF Iperf!Init, ListenerOf
  <2>3. call \in [Call -> CommandOf]
    BY DEF Iperf!Init, CommandOf
  <2> QED BY <2>1, <2>2, <2>3 DEF Iperf!Init, IperfTypes
<1>2. rt.lock = None /\ rt.handle = None /\ rt.epoch = 0 /\ ~rt.running
  BY DEF Iperf!Init
<1>3. Latest = None
  BY <1>2 DEF Latest
<1>4. LockHeld
  BY <1>2 DEF LockHeld, Iperf!Init, NoneApart
<1>5. Generations
  BY <1>2, <1>3 DEF Generations, Iperf!Init, NoneApart
<1>6. FrontEndTold
  BY <1>2, <1>3 DEF FrontEndTold, Iperf!Init
<1> QED BY <1>1, <1>4, <1>5, <1>6 DEF StatusInv

(* The types of the server and its commands.                               *)
LEMMA IperfTypesStep == ASSUME IperfTypes, [Iperf!Next]_(Iperf!isvars) PROVE IperfTypes'
<1>0. /\ rt \in FlagsOf /\ th \in [ServerThreads -> ListenerOf] /\ call \in [Call -> CommandOf]
      /\ port \in ServerThreads \cup {None} /\ shown \in BOOLEAN /\ rt.epoch + 1 \in Nat
      /\ \A c \in Call : call[c] \in CommandOf
      /\ \A t \in ServerThreads : th[t] \in ListenerOf
      /\ rt.handle \in ServerThreads \cup {None} /\ rt.abort \in BOOLEAN
  BY DEF IperfTypes, FlagsOf
<1>a. ASSUME NEW c \in Call, NEW a \in {"idle", "end", "join", "check", "spawn"}, Iperf!CallTo(c, a)
      PROVE  call' \in [Call -> CommandOf]
  BY <1>0, <1>a, Zenon DEF Iperf!CallTo, CommandOf
<1>b. ASSUME NEW t \in ServerThreads, NEW a \in {"go", "bind", "serve"} \cup Leaving, Iperf!ThreadTo(t, a)
      PROVE  th' \in [ServerThreads -> ListenerOf]
  BY <1>0, <1>b, Zenon DEF Iperf!ThreadTo, ListenerOf
<1>1. ASSUME NEW c \in Call, Iperf!StartEnter(c) PROVE IperfTypes'
  <2>1. CASE Iperf!CallTo(c, "end") /\ UNCHANGED rt
    BY <1>0, <1>a, <1>1, <2>1 DEF Iperf!StartEnter, IperfTypes
  <2>2. CASE /\ call' = [call EXCEPT ![c] = [at |-> "join", entry |-> rt.abort, joins |-> rt.handle]]
             /\ rt' = [rt EXCEPT !.lock = c, !.running = TRUE, !.handle = None]
    <3>1. rt' \in FlagsOf
      BY <1>0, <2>2, Zenon DEF FlagsOf
    <3>2. [at |-> "join", entry |-> rt.abort, joins |-> rt.handle] \in CommandOf
      BY <1>0 DEF CommandOf
    <3>3. call' \in [Call -> CommandOf]
      BY <1>0, <2>2, <3>2
    <3> QED BY <1>0, <1>1, <3>1, <3>3 DEF Iperf!StartEnter, IperfTypes
  <2> QED BY <1>1, <2>1, <2>2 DEF Iperf!StartEnter
<1>2. ASSUME NEW c \in Call, Iperf!StartJoined(c) PROVE IperfTypes'
  <2>11. rt' \in FlagsOf
    BY <1>0, <1>2 DEF Iperf!StartJoined
  <2>12. th' \in [ServerThreads -> ListenerOf]
    BY <1>0, <1>2 DEF Iperf!StartJoined, Leaving
  <2>13. call' \in [Call -> CommandOf]
    BY <1>0, <1>a, <1>2 DEF Iperf!StartJoined
  <2>14. port' \in ServerThreads \cup {None} /\ shown' \in BOOLEAN
    BY <1>0, <1>2 DEF Iperf!StartJoined
  <2> QED BY <2>11, <2>12, <2>13, <2>14 DEF IperfTypes
<1>3. ASSUME NEW c \in Call, Iperf!StartChecks(c) PROVE IperfTypes'
  <2>1. rt' = rt \/ rt' = [rt EXCEPT !.lock = None]
    BY <1>3 DEF Iperf!StartChecks
  <2>2. [rt EXCEPT !.lock = None] \in FlagsOf
    BY <1>0, Zenon DEF FlagsOf
  <2>11. rt' \in FlagsOf
    BY <1>0, <2>1, <2>2
  <2>12. th' \in [ServerThreads -> ListenerOf]
    BY <1>0, <1>3 DEF Iperf!StartChecks, Leaving
  <2>13. call' \in [Call -> CommandOf]
    BY <1>0, <1>a, <1>3 DEF Iperf!StartChecks
  <2>14. port' \in ServerThreads \cup {None} /\ shown' \in BOOLEAN
    BY <1>0, <1>3 DEF Iperf!StartChecks
  <2> QED BY <2>11, <2>12, <2>13, <2>14 DEF IperfTypes
<1>4. ASSUME NEW c \in Call, Iperf!StartSpawns(c) PROVE IperfTypes'
  <2> PICK t \in ServerThreads :
         /\ th' = [th EXCEPT ![t] = [at |-> "spawned", epoch |-> rt.epoch + 1]]
         /\ rt' = [rt EXCEPT !.abort = FALSE, !.epoch = @ + 1, !.handle = t, !.lock = None]
    BY <1>4 DEF Iperf!StartSpawns
  <2>1. rt' = [rt EXCEPT !.abort = FALSE, !.epoch = rt.epoch + 1, !.handle = t, !.lock = None]
    OBVIOUS
  <2>11. rt' \in FlagsOf
    BY <1>0, <2>1, Zenon DEF FlagsOf
  <2>12. [at |-> "spawned", epoch |-> rt.epoch + 1] \in ListenerOf
    BY <1>0 DEF ListenerOf
  <2>13. th' \in [ServerThreads -> ListenerOf]
    BY <1>0, <2>12
  <2>14. call' \in [Call -> CommandOf]
    BY <1>4, <1>a DEF Iperf!StartSpawns
  <2> QED BY <1>0, <1>4, <2>11, <2>13, <2>14 DEF Iperf!StartSpawns, IperfTypes
<1>5. ASSUME NEW c \in Call, Iperf!Stop(c) PROVE IperfTypes'
  <2>1. rt' = [rt EXCEPT !.abort = TRUE, !.running = FALSE]
    BY <1>5 DEF Iperf!Stop
  <2>11. rt' \in FlagsOf
    BY <1>0, <2>1, Zenon DEF FlagsOf
  <2>12. th' \in [ServerThreads -> ListenerOf]
    BY <1>0, <1>5 DEF Iperf!Stop, Leaving
  <2>13. call' \in [Call -> CommandOf]
    BY <1>0, <1>a, <1>5 DEF Iperf!Stop
  <2>14. port' \in ServerThreads \cup {None} /\ shown' \in BOOLEAN
    BY <1>0, <1>5 DEF Iperf!Stop
  <2> QED BY <2>11, <2>12, <2>13, <2>14 DEF IperfTypes
<1>6. ASSUME Iperf!Shutdown PROVE IperfTypes'
  <2>1. rt' = [rt EXCEPT !.shut = TRUE, !.epoch = rt.epoch + 1, !.abort = TRUE, !.running = FALSE]
    BY <1>6 DEF Iperf!Shutdown
  <2>11. rt' \in FlagsOf
    BY <1>0, <2>1, Zenon DEF FlagsOf
  <2>12. th' \in [ServerThreads -> ListenerOf]
    BY <1>0, <1>6 DEF Iperf!Shutdown, Leaving
  <2>13. call' \in [Call -> CommandOf]
    BY <1>0, <1>6 DEF Iperf!Shutdown
  <2>14. port' \in ServerThreads \cup {None} /\ shown' \in BOOLEAN
    BY <1>0, <1>6 DEF Iperf!Shutdown
  <2> QED BY <2>11, <2>12, <2>13, <2>14 DEF IperfTypes
<1>7. ASSUME NEW t \in ServerThreads, Iperf!ThreadBegins(t) PROVE IperfTypes'
  <2>1. rt' = rt \/ rt' = [rt EXCEPT !.running = FALSE]
    BY <1>7 DEF Iperf!ThreadBegins, Iperf!WritesBack
  <2>2. [rt EXCEPT !.running = FALSE] \in FlagsOf
    BY <1>0, Zenon DEF FlagsOf
  <2>11. rt' \in FlagsOf
    BY <1>0, <2>1, <2>2
  <2>12. th' \in [ServerThreads -> ListenerOf]
    BY <1>0, <1>b, <1>7 DEF Iperf!ThreadBegins, Iperf!WritesBack, Leaving
  <2>13. call' \in [Call -> CommandOf]
    BY <1>0, <1>7 DEF Iperf!ThreadBegins
  <2>14. port' \in ServerThreads \cup {None} /\ shown' \in BOOLEAN
    BY <1>0, <1>7 DEF Iperf!ThreadBegins, Iperf!WritesBack
  <2> QED BY <2>11, <2>12, <2>13, <2>14 DEF IperfTypes
<1>8. ASSUME NEW t \in ServerThreads, Iperf!ThreadClaims(t) PROVE IperfTypes'
  <2>1. rt' = [rt EXCEPT !.running = TRUE]
    BY <1>8 DEF Iperf!ThreadClaims
  <2>11. rt' \in FlagsOf
    BY <1>0, <2>1, Zenon DEF FlagsOf
  <2>12. th' \in [ServerThreads -> ListenerOf]
    BY <1>0, <1>b, <1>8 DEF Iperf!ThreadClaims, Leaving
  <2>13. call' \in [Call -> CommandOf]
    BY <1>0, <1>8 DEF Iperf!ThreadClaims
  <2>14. port' \in ServerThreads \cup {None} /\ shown' \in BOOLEAN
    BY <1>0, <1>8 DEF Iperf!ThreadClaims
  <2> QED BY <2>11, <2>12, <2>13, <2>14 DEF IperfTypes
<1>9. ASSUME NEW t \in ServerThreads, Iperf!ThreadBinds(t) PROVE IperfTypes'
  <2>11. rt' \in FlagsOf
    BY <1>0, <1>9 DEF Iperf!ThreadBinds
  <2>12. th' \in [ServerThreads -> ListenerOf]
    BY <1>0, <1>b, <1>9 DEF Iperf!ThreadBinds, Leaving
  <2>13. call' \in [Call -> CommandOf]
    BY <1>0, <1>9 DEF Iperf!ThreadBinds
  <2>14. port' \in ServerThreads \cup {None} /\ shown' \in BOOLEAN
    BY <1>0, <1>9 DEF Iperf!ThreadBinds
  <2> QED BY <2>11, <2>12, <2>13, <2>14 DEF IperfTypes
<1>10. ASSUME NEW t \in ServerThreads, Iperf!ThreadStops(t) PROVE IperfTypes'
  <2>11. rt' \in FlagsOf
    BY <1>0, <1>10 DEF Iperf!ThreadStops
  <2>12. th' \in [ServerThreads -> ListenerOf]
    BY <1>0, <1>b, <1>10 DEF Iperf!ThreadStops, Leaving
  <2>13. call' \in [Call -> CommandOf]
    BY <1>0, <1>10 DEF Iperf!ThreadStops
  <2>14. port' \in ServerThreads \cup {None} /\ shown' \in BOOLEAN
    BY <1>0, <1>10 DEF Iperf!ThreadStops
  <2> QED BY <2>11, <2>12, <2>13, <2>14 DEF IperfTypes
<1>11. ASSUME NEW t \in ServerThreads, Iperf!ThreadDrains(t) PROVE IperfTypes'
  <2>11. rt' \in FlagsOf
    BY <1>0, <1>11 DEF Iperf!ThreadDrains
  <2>12. th' \in [ServerThreads -> ListenerOf]
    BY <1>0, <1>b, <1>11 DEF Iperf!ThreadDrains, Leaving
  <2>13. call' \in [Call -> CommandOf]
    BY <1>0, <1>11 DEF Iperf!ThreadDrains
  <2>14. port' \in ServerThreads \cup {None} /\ shown' \in BOOLEAN
    BY <1>0, <1>11 DEF Iperf!ThreadDrains
  <2> QED BY <2>11, <2>12, <2>13, <2>14 DEF IperfTypes
<1>12. ASSUME NEW t \in ServerThreads, Iperf!ThreadLeaves(t) PROVE IperfTypes'
  <2>1. rt' = rt \/ rt' = [rt EXCEPT !.running = FALSE]
    BY <1>12 DEF Iperf!ThreadLeaves, Iperf!WritesBack
  <2>2. [rt EXCEPT !.running = FALSE] \in FlagsOf
    BY <1>0, Zenon DEF FlagsOf
  <2>11. rt' \in FlagsOf
    BY <1>0, <2>1, <2>2
  <2>12. th' \in [ServerThreads -> ListenerOf]
    BY <1>0, <1>b, <1>12 DEF Iperf!ThreadLeaves, Iperf!WritesBack, Leaving
  <2>13. call' \in [Call -> CommandOf]
    BY <1>0, <1>12 DEF Iperf!ThreadLeaves
  <2>14. port' \in ServerThreads \cup {None} /\ shown' \in BOOLEAN
    BY <1>0, <1>12 DEF Iperf!ThreadLeaves, Iperf!WritesBack
  <2> QED BY <2>11, <2>12, <2>13, <2>14 DEF IperfTypes
<1>13. CASE UNCHANGED <<rt, th, call, port, shown>>
  BY <1>13 DEF IperfTypes
<1> QED BY <1>1, <1>2, <1>3, <1>4, <1>5, <1>6, <1>7, <1>8, <1>9, <1>10, <1>11, <1>12, <1>13 DEF Iperf!Next,
           Iperf!ServerRuns, Iperf!RoundRuns, Iperf!Asked, Iperf!isvars,
        Iperf!RunEnter, Iperf!RunWaits, Iperf!RunGoes, Iperf!RoundDone, Iperf!RoundOver, Iperf!ClientStop

(* Every step of the server's threads and commands keeps it.               *)
LEMMA IperfStep ==
  ASSUME NoneApart, StatusInv, [Iperf!Next]_(Iperf!isvars)
  PROVE  StatusInv'
<1>t. IperfTypes /\ IperfTypes'
  BY IperfTypesStep DEF StatusInv
<1>0. /\ rt \in FlagsOf /\ th \in [ServerThreads -> ListenerOf] /\ call \in [Call -> CommandOf]
      /\ port \in ServerThreads \cup {None} /\ shown \in BOOLEAN
  BY <1>t DEF IperfTypes
<1>1. /\ rt.running \in BOOLEAN /\ rt.abort \in BOOLEAN /\ rt.handle \in ServerThreads \cup {None}
      /\ rt.epoch \in Nat /\ rt.lock \in Call \cup {None} /\ rt.shut \in BOOLEAN
      /\ \A t \in ServerThreads : th[t].epoch \in Nat
      /\ \A c \in Call : call[c].joins \in ServerThreads \cup {None} /\ call[c].entry \in BOOLEAN
      /\ None \notin Call /\ None \notin ServerThreads
  BY <1>0 DEF FlagsOf, ListenerOf, CommandOf, NoneApart
<1>2. CASE rt'.shut
  BY <1>t, <1>2 DEF StatusInv
<1>i. rt.shut \/ (LockHeld /\ Generations /\ FrontEndTold)
  BY DEF StatusInv
<1>l. rt.shut \/ Latest \in ServerThreads \cup {None}
  BY <1>1 DEF Latest
<1>3. ASSUME NEW c \in Call, Iperf!StartEnter(c), ~rt'.shut PROVE LockHeld' /\ Generations' /\ FrontEndTold'
  <2>0. rt.lock = None /\ ~rt.shut /\ th' = th /\ port' = port /\ shown' = shown /\ call[c].at = "idle"
    BY <1>3 DEF Iperf!StartEnter
  <2>1. CASE Iperf!CallTo(c, "end") /\ UNCHANGED rt
    <3>2. call'[c].at = "end" /\ \A d \in Call : d # c => call'[d] = call[d]
      BY <1>0, <2>1 DEF CommandOf, Iperf!CallTo
    <3>4. Latest' = Latest
      BY <2>0, <2>1 DEF Latest
    <3>5. LockHeld'
      BY <1>1, <1>i, <2>0, <2>1, <3>2 DEF LockHeld
    <3>6. Generations'
      BY <1>1, <1>i, <1>l, <2>0, <2>1, <3>4 DEF Generations
    <3>7. FrontEndTold'
      BY <1>1, <1>i, <1>l, <2>0, <2>1, <3>4 DEF FrontEndTold
    <3> QED BY <3>5, <3>6, <3>7
  <2>2. CASE /\ call' = [call EXCEPT ![c] = [at |-> "join", entry |-> rt.abort, joins |-> rt.handle]]
             /\ rt' = [rt EXCEPT !.lock = c, !.running = TRUE, !.handle = None]
    <3>1. /\ rt'.running = TRUE /\ rt'.abort = rt.abort /\ rt'.handle = None /\ rt'.epoch = rt.epoch
          /\ rt'.lock = c /\ rt'.shut = rt.shut
      BY <1>0, <2>2 DEF FlagsOf
    <3>2. /\ call'[c] = [at |-> "join", entry |-> rt.abort, joins |-> rt.handle]
          /\ \A d \in Call : d # c => call'[d] = call[d]
      BY <1>0, <2>2
    <3>3. call'[c].at = "join" /\ call'[c].entry = rt.abort /\ call'[c].joins = rt.handle
      BY <3>2
    <3>4. Latest' = Latest /\ Latest = rt.handle
      BY <1>1, <2>0, <3>1, <3>3 DEF Latest
    <3>5. LockHeld'
      BY <1>1, <1>i, <2>0, <3>1, <3>2, <3>3 DEF LockHeld
    <3>6. Generations'
      BY <1>1, <1>i, <1>l, <2>0, <3>1, <3>3, <3>4 DEF Generations
    <3>7. FrontEndTold'
      BY <1>1, <1>i, <1>l, <2>0, <3>1, <3>4 DEF FrontEndTold, Generations
    <3> QED BY <3>5, <3>6, <3>7
  <2> QED BY <1>3, <2>1, <2>2 DEF Iperf!StartEnter
<1>4. ASSUME NEW c \in Call, Iperf!StartJoined(c), ~rt'.shut PROVE LockHeld' /\ Generations' /\ FrontEndTold'
  <2>1. /\ rt' = rt /\ th' = th /\ port' = port /\ shown' = shown /\ call[c].at = "join" /\ ~rt.shut
        /\ call[c].joins # None => th[call[c].joins].at \in {"drain", "leave", "exited"}
    BY <1>4 DEF Iperf!StartJoined
  <2>2. /\ call'[c].at = "check" /\ call'[c].entry = call[c].entry /\ call'[c].joins = call[c].joins
        /\ \A d \in Call : d # c => call'[d] = call[d]
    BY <1>0, <1>4 DEF CommandOf, Iperf!StartJoined, Iperf!CallTo
  <2>3. rt.lock = c
    BY <1>i, <2>1 DEF LockHeld
  <2>4. Latest' = Latest /\ Latest = call[c].joins
    BY <1>1, <2>1, <2>2, <2>3 DEF Latest
  <2>5. LockHeld'
    BY <1>1, <1>i, <2>1, <2>2, <2>3 DEF LockHeld
  <2>6. Generations'
    BY <1>1, <1>i, <1>l, <2>1, <2>2, <2>3, <2>4 DEF Generations, Leaving
  <2>7. FrontEndTold'
    BY <1>1, <1>i, <1>l, <2>1, <2>4 DEF FrontEndTold
  <2> QED BY <2>5, <2>6, <2>7
<1>5. ASSUME NEW c \in Call, Iperf!StartChecks(c), ~rt'.shut PROVE LockHeld' /\ Generations' /\ FrontEndTold'
  <2>0. call[c].at = "check" /\ th' = th /\ port' = port /\ shown' = shown
    BY <1>5 DEF Iperf!StartChecks
  <2>1. ~rt.shut
    BY <1>0, <1>5 DEF Iperf!StartChecks, FlagsOf
  <2>3. rt.lock = c /\ call[c].entry = rt.abort
    BY <1>1, <1>i, <2>0, <2>1 DEF LockHeld
  <2>10. rt' = rt /\ Iperf!CallTo(c, "spawn")
    BY <1>5, <2>3 DEF Iperf!StartChecks, Iperf!GivesUp
  <2>2. /\ call'[c].at = "spawn" /\ call'[c].entry = call[c].entry /\ call'[c].joins = call[c].joins
        /\ \A d \in Call : d # c => call'[d] = call[d]
    BY <1>0, <2>10 DEF CommandOf, Iperf!CallTo
  <2>4. Latest' = Latest /\ Latest = call[c].joins
    BY <1>1, <2>1, <2>10, <2>2, <2>3 DEF Latest
  <2>5. LockHeld'
    BY <1>1, <1>i, <2>0, <2>1, <2>10, <2>2, <2>3 DEF LockHeld
  <2>6. Generations'
    BY <1>1, <1>i, <1>l, <2>0, <2>1, <2>10, <2>2, <2>3, <2>4 DEF Generations, Leaving
  <2>7. FrontEndTold'
    BY <1>1, <1>i, <1>l, <2>0, <2>1, <2>10, <2>4 DEF FrontEndTold
  <2> QED BY <2>5, <2>6, <2>7
<1>6. ASSUME NEW c \in Call, Iperf!StartSpawns(c), ~rt'.shut PROVE LockHeld' /\ Generations' /\ FrontEndTold'
  <2> PICK t \in ServerThreads :
         /\ th[t].at = "free"
         /\ th' = [th EXCEPT ![t] = [at |-> "spawned", epoch |-> rt.epoch + 1]]
         /\ rt' = [rt EXCEPT !.abort = FALSE, !.epoch = @ + 1, !.handle = t, !.lock = None]
    BY <1>6 DEF Iperf!StartSpawns
  <2>0. call[c].at = "spawn" /\ port' = port /\ shown' = shown
    BY <1>6 DEF Iperf!StartSpawns
  <2>1. /\ rt'.running = rt.running /\ rt'.abort = FALSE /\ rt'.handle = t /\ rt'.epoch = rt.epoch + 1
        /\ rt'.lock = None /\ rt'.shut = rt.shut
    BY <1>0 DEF FlagsOf
  <2>10. ~rt.shut
    BY <1>6, <2>1
  <2>2. call'[c].at = "end" /\ \A d \in Call : d # c => call'[d] = call[d]
    BY <1>0, <1>6 DEF CommandOf, Iperf!StartSpawns, Iperf!CallTo
  <2>3. /\ th'[t].at = "spawned" /\ th'[t].epoch = rt.epoch + 1
        /\ \A u \in ServerThreads : u # t => th'[u] = th[u]
    BY <1>0
  <2>31. rt.lock = c
    BY <1>1, <1>i, <2>0, <2>10 DEF LockHeld
  <2>4. Latest' = t
    BY <2>1 DEF Latest
  <2>5. LockHeld'
    BY <1>1, <1>i, <2>10, <2>1, <2>2, <2>31 DEF LockHeld
  <2>50. Latest # None => th[Latest].at \in Leaving /\ th[Latest].epoch = rt.epoch
    BY <1>1, <1>i, <2>0, <2>10, <2>31 DEF Generations
  <2>51. ASSUME NEW u \in ServerThreads, u # t
         PROVE  th[u].at \in {"free"} \cup Leaving /\ (th[u].at # "free" => th[u].epoch < rt.epoch + 1)
    BY <1>1, <1>i, <1>l, <2>10, <2>50, <2>51 DEF Generations
  <2>52. \A u \in ServerThreads : port = u <=> th[u].at \in {"serve", "drain"}
    BY <1>i, <2>10 DEF Generations
  <2>6. Generations'
    BY <1>1, <2>1, <2>0, <2>3, <2>4, <2>51, <2>52 DEF Generations
  <2>7. FrontEndTold'
    BY <1>1, <2>1, <2>3, <2>4 DEF FrontEndTold
  <2> QED BY <2>5, <2>6, <2>7
<1>7. ASSUME NEW c \in Call, Iperf!Stop(c), ~rt'.shut PROVE LockHeld' /\ Generations' /\ FrontEndTold'
  <2>0. rt.lock = None /\ ~rt.shut /\ th' = th /\ port' = port /\ shown' = FALSE /\ call[c].at = "idle"
    BY <1>7 DEF Iperf!Stop
  <2>1. /\ rt'.running = FALSE /\ rt'.abort = TRUE /\ rt'.handle = rt.handle /\ rt'.epoch = rt.epoch
        /\ rt'.lock = rt.lock /\ rt'.shut = rt.shut
    BY <1>0, <1>7 DEF FlagsOf, Iperf!Stop
  <2>2. call'[c].at = "end" /\ \A d \in Call : d # c => call'[d] = call[d]
    BY <1>0, <1>7 DEF CommandOf, Iperf!CallTo, Iperf!Stop
  <2>4. Latest' = Latest
    BY <2>0, <2>1 DEF Latest
  <2>5. LockHeld'
    BY <1>1, <1>i, <2>0, <2>1, <2>2 DEF LockHeld
  <2>6. Generations'
    BY <1>1, <1>i, <1>l, <2>0, <2>1, <2>4 DEF Generations
  <2>7. FrontEndTold'
    BY <1>1, <1>i, <1>l, <2>0, <2>1, <2>4 DEF FrontEndTold
  <2> QED BY <2>5, <2>6, <2>7
<1>8. ASSUME Iperf!Shutdown PROVE rt'.shut
  BY <1>0, <1>8 DEF Iperf!Shutdown, FlagsOf
<1>9. ASSUME NEW t \in ServerThreads, Iperf!ThreadBegins(t), ~rt'.shut PROVE /\ LockHeld' /\ Generations'
                                                                             /\ FrontEndTold'
  <2>0. th[t].at = "spawned" /\ call' = call
    BY <1>9 DEF Iperf!ThreadBegins
  <2>1. /\ rt'.abort = rt.abort /\ rt'.handle = rt.handle /\ rt'.epoch = rt.epoch /\ rt'.lock = rt.lock
        /\ rt'.shut = rt.shut
    BY <1>0, <1>9 DEF FlagsOf, Iperf!ThreadBegins, Iperf!WritesBack
  <2>10. ~rt.shut
    BY <1>9, <2>1
  <2>3. /\ th'[t].at \in {"go", "exited"} /\ th'[t].epoch = th[t].epoch
        /\ \A u \in ServerThreads : u # t => th'[u] = th[u]
    BY <1>0, <1>9 DEF ListenerOf, Iperf!ThreadTo, Iperf!ThreadBegins, Iperf!WritesBack
  <2>4. Latest' = Latest
    BY <2>0, <2>1 DEF Latest
  <2>5. LockHeld'
    BY <1>1, <1>i, <2>0, <2>10, <2>1 DEF LockHeld
  <2>31. Latest = t
    BY <1>i, <2>0, <2>10 DEF Generations, Leaving
  <2>32. port' = port
    BY <1>9 DEF Iperf!ThreadBegins
  <2>34. Iperf!Current(t)
    BY <1>i, <1>1, <2>10, <2>31 DEF Iperf!Current, Generations
  <2>33. \/ rt.abort /\ ~rt'.running /\ ~shown' /\ th'[t].at = "exited"
         \/ ~rt.abort /\ rt' = rt /\ shown' = shown /\ th'[t].at = "go"
    <3>1. CASE rt.abort
      <4>1. Iperf!WritesBack(t)
        BY <1>9, <3>1 DEF Iperf!ThreadBegins
      <4>2. rt' = [rt EXCEPT !.running = FALSE] /\ shown' = FALSE /\ th' = [th EXCEPT ![t].at = "exited"]
        BY <2>34, <4>1 DEF Iperf!WritesBack, Iperf!ThreadTo
      <4> QED BY <1>0, <3>1, <4>2 DEF FlagsOf, ListenerOf
    <3>2. CASE ~rt.abort
      BY <1>0, <1>9, <3>2 DEF Iperf!ThreadBegins, Iperf!ThreadTo, ListenerOf
    <3> QED BY <3>1, <3>2
  <2>6. Generations'
    BY <1>1, <1>i, <1>l, <2>0, <2>10, <2>1, <2>3, <2>4, <2>32, <2>31 DEF Generations, Leaving
  <2>7. FrontEndTold'
    BY <1>1, <1>i, <1>l, <2>0, <2>10, <2>1, <2>3, <2>4, <2>32, <2>33, <2>31 DEF FrontEndTold, Generations
  <2> QED BY <2>5, <2>6, <2>7
<1>10. ASSUME NEW t \in ServerThreads, Iperf!ThreadClaims(t), ~rt'.shut PROVE /\ LockHeld' /\ Generations'
                                                                              /\ FrontEndTold'
  <2>0. th[t].at = "go" /\ call' = call
    BY <1>10 DEF Iperf!ThreadClaims
  <2>1. /\ rt'.abort = rt.abort /\ rt'.handle = rt.handle /\ rt'.epoch = rt.epoch /\ rt'.lock = rt.lock
        /\ rt'.shut = rt.shut
    BY <1>0, <1>10 DEF FlagsOf, Iperf!ThreadClaims
  <2>10. ~rt.shut
    BY <1>10, <2>1
  <2>3. /\ th'[t].at = "bind" /\ th'[t].epoch = th[t].epoch
        /\ \A u \in ServerThreads : u # t => th'[u] = th[u]
    BY <1>0, <1>10 DEF ListenerOf, Iperf!ThreadTo, Iperf!ThreadClaims
  <2>4. Latest' = Latest
    BY <2>0, <2>1 DEF Latest
  <2>5. LockHeld'
    BY <1>1, <1>i, <2>0, <2>10, <2>1 DEF LockHeld
  <2>31. Latest = t
    BY <1>i, <2>0, <2>10 DEF Generations, Leaving
  <2>32. port' = port /\ shown' = shown
    BY <1>10 DEF Iperf!ThreadClaims
  <2>33. rt'.running
    BY <1>0, <1>10 DEF Iperf!ThreadClaims, FlagsOf
  <2>6. Generations'
    BY <1>1, <1>i, <1>l, <2>0, <2>10, <2>1, <2>3, <2>4, <2>32, <2>31 DEF Generations, Leaving
  <2>7. FrontEndTold'
    BY <1>1, <1>i, <1>l, <2>0, <2>10, <2>1, <2>3, <2>4, <2>32, <2>33, <2>31 DEF FrontEndTold, Generations
  <2> QED BY <2>5, <2>6, <2>7
<1>11. ASSUME NEW t \in ServerThreads, Iperf!ThreadBinds(t), ~rt'.shut PROVE /\ LockHeld' /\ Generations'
                                                                             /\ FrontEndTold'
  <2>0. th[t].at = "bind" /\ call' = call
    BY <1>11 DEF Iperf!ThreadBinds
  <2>1. /\ rt'.abort = rt.abort /\ rt'.handle = rt.handle /\ rt'.epoch = rt.epoch /\ rt'.lock = rt.lock
        /\ rt'.shut = rt.shut
    BY <1>0, <1>11 DEF FlagsOf, Iperf!ThreadBinds
  <2>10. ~rt.shut
    BY <1>11, <2>1
  <2>3. /\ th'[t].at \in {"serve", "leave"} /\ th'[t].epoch = th[t].epoch
        /\ \A u \in ServerThreads : u # t => th'[u] = th[u]
    BY <1>0, <1>11 DEF ListenerOf, Iperf!ThreadTo, Iperf!ThreadBinds
  <2>4. Latest' = Latest
    BY <2>0, <2>1 DEF Latest
  <2>5. LockHeld'
    BY <1>1, <1>i, <2>0, <2>10, <2>1 DEF LockHeld
  <2>31. Latest = t
    BY <1>i, <2>0, <2>10 DEF Generations, Leaving
  <2>32. \/ port = None /\ port' = t /\ shown' = TRUE /\ th'[t].at = "serve"
         \/ port' = port /\ shown' = shown /\ th'[t].at = "leave"
    BY <1>0, <1>11 DEF Iperf!ThreadBinds, Iperf!ThreadTo, ListenerOf
  <2>33. rt' = rt
    BY <1>11 DEF Iperf!ThreadBinds
  <2>6. Generations'
    BY <1>1, <1>i, <1>l, <2>0, <2>10, <2>1, <2>3, <2>4, <2>32, <2>31 DEF Generations, Leaving
  <2>7. FrontEndTold'
    BY <1>1, <1>i, <1>l, <2>0, <2>10, <2>1, <2>3, <2>4, <2>32, <2>33, <2>31 DEF FrontEndTold, Generations
  <2> QED BY <2>5, <2>6, <2>7
<1>12. ASSUME NEW t \in ServerThreads, Iperf!ThreadStops(t), ~rt'.shut PROVE /\ LockHeld' /\ Generations'
                                                                             /\ FrontEndTold'
  <2>0. th[t].at = "serve" /\ call' = call
    BY <1>12 DEF Iperf!ThreadStops
  <2>1. /\ rt'.abort = rt.abort /\ rt'.handle = rt.handle /\ rt'.epoch = rt.epoch /\ rt'.lock = rt.lock
        /\ rt'.shut = rt.shut
    BY <1>0, <1>12 DEF FlagsOf, Iperf!ThreadStops
  <2>10. ~rt.shut
    BY <1>12, <2>1
  <2>3. /\ th'[t].at = "drain" /\ th'[t].epoch = th[t].epoch
        /\ \A u \in ServerThreads : u # t => th'[u] = th[u]
    BY <1>0, <1>12 DEF ListenerOf, Iperf!ThreadTo, Iperf!ThreadStops
  <2>4. Latest' = Latest
    BY <2>0, <2>1 DEF Latest
  <2>5. LockHeld'
    BY <1>1, <1>i, <2>0, <2>10, <2>1 DEF LockHeld
  <2>31. Latest = t
    BY <1>i, <2>0, <2>10 DEF Generations, Leaving
  <2>32. port' = port /\ shown' = shown
    BY <1>12 DEF Iperf!ThreadStops
  <2>33. rt' = rt /\ rt.abort
    BY <1>12 DEF Iperf!ThreadStops, Iperf!Sees
  <2>6. Generations'
    BY <1>1, <1>i, <1>l, <2>0, <2>10, <2>1, <2>3, <2>4, <2>32, <2>31 DEF Generations, Leaving
  <2>7. FrontEndTold'
    BY <1>1, <1>i, <1>l, <2>0, <2>10, <2>1, <2>3, <2>4, <2>32, <2>33, <2>31 DEF FrontEndTold, Generations
  <2> QED BY <2>5, <2>6, <2>7
<1>13. ASSUME NEW t \in ServerThreads, Iperf!ThreadDrains(t), ~rt'.shut PROVE /\ LockHeld' /\ Generations'
                                                                              /\ FrontEndTold'
  <2>0. th[t].at = "drain" /\ call' = call
    BY <1>13 DEF Iperf!ThreadDrains
  <2>1. /\ rt'.abort = rt.abort /\ rt'.handle = rt.handle /\ rt'.epoch = rt.epoch /\ rt'.lock = rt.lock
        /\ rt'.shut = rt.shut
    BY <1>0, <1>13 DEF FlagsOf, Iperf!ThreadDrains
  <2>10. ~rt.shut
    BY <1>13, <2>1
  <2>3. /\ th'[t].at = "leave" /\ th'[t].epoch = th[t].epoch
        /\ \A u \in ServerThreads : u # t => th'[u] = th[u]
    BY <1>0, <1>13 DEF ListenerOf, Iperf!ThreadTo, Iperf!ThreadDrains
  <2>4. Latest' = Latest
    BY <2>0, <2>1 DEF Latest
  <2>5. LockHeld'
    BY <1>1, <1>i, <2>0, <2>10, <2>1 DEF LockHeld
  <2>32. port' = None /\ shown' = shown /\ port = t
    BY <1>i, <1>13, <2>0, <2>10 DEF Iperf!ThreadDrains, Generations
  <2>33. rt' = rt
    BY <1>13 DEF Iperf!ThreadDrains
  <2>6. Generations'
    BY <1>1, <1>i, <1>l, <2>0, <2>10, <2>1, <2>3, <2>4, <2>32 DEF Generations, Leaving
  <2>7. FrontEndTold'
    BY <1>1, <1>i, <1>l, <2>0, <2>10, <2>1, <2>3, <2>4, <2>32, <2>33 DEF FrontEndTold, Generations
  <2> QED BY <2>5, <2>6, <2>7
<1>14. ASSUME NEW t \in ServerThreads, Iperf!ThreadLeaves(t), ~rt'.shut PROVE /\ LockHeld' /\ Generations'
                                                                              /\ FrontEndTold'
  <2>0. th[t].at = "leave" /\ call' = call
    BY <1>14 DEF Iperf!ThreadLeaves
  <2>1. /\ rt'.abort = rt.abort /\ rt'.handle = rt.handle /\ rt'.epoch = rt.epoch /\ rt'.lock = rt.lock
        /\ rt'.shut = rt.shut
    BY <1>0, <1>14 DEF FlagsOf, Iperf!ThreadLeaves, Iperf!WritesBack
  <2>10. ~rt.shut
    BY <1>14, <2>1
  <2>3. /\ th'[t].at = "exited" /\ th'[t].epoch = th[t].epoch
        /\ \A u \in ServerThreads : u # t => th'[u] = th[u]
    BY <1>0, <1>14 DEF ListenerOf, Iperf!ThreadTo, Iperf!ThreadLeaves, Iperf!WritesBack
  <2>4. Latest' = Latest
    BY <2>0, <2>1 DEF Latest
  <2>5. LockHeld'
    BY <1>1, <1>i, <2>0, <2>10, <2>1 DEF LockHeld
  <2>32. port' = port
    BY <1>14 DEF Iperf!ThreadLeaves
  <2>34. Iperf!Current(t) <=> t = Latest
    BY <1>i, <1>1, <2>0, <2>10 DEF Iperf!Current, Generations
  <2>33. IF t = Latest THEN ~rt'.running /\ ~shown' ELSE rt' = rt /\ shown' = shown
    BY <1>0, <1>14, <2>34 DEF Iperf!ThreadLeaves, Iperf!WritesBack, FlagsOf
  <2>6. Generations'
    BY <1>1, <1>i, <1>l, <2>0, <2>10, <2>1, <2>3, <2>4, <2>32 DEF Generations, Leaving
  <2>7. FrontEndTold'
    BY <1>1, <1>i, <1>l, <2>0, <2>10, <2>1, <2>3, <2>4, <2>32, <2>33 DEF FrontEndTold, Generations
  <2> QED BY <2>5, <2>6, <2>7
<1>15. CASE UNCHANGED <<rt, th, call, port, shown>>
  <2>1. Latest' = Latest
    BY <1>15 DEF Latest
  <2> QED BY <1>t, <1>15, <2>1 DEF StatusInv, LockHeld, Generations, FrontEndTold
<1>50. CASE ~rt'.shut
  BY <1>t, <1>50, <1>3, <1>4, <1>5, <1>6, <1>7, <1>8, <1>9, <1>10, <1>11, <1>12, <1>13, <1>14, <1>15
     DEF StatusInv, Iperf!Next, Iperf!ServerRuns, Iperf!RoundRuns, Iperf!Asked, Iperf!isvars,
         Iperf!RunEnter, Iperf!RunWaits, Iperf!RunGoes, Iperf!RoundDone, Iperf!RoundOver, Iperf!ClientStop
<1> QED BY <1>2, <1>50

(* At rest, what is shown is what listens.                                 *)
LEMMA StatusAgreesBy == NoneApart /\ StatusInv => Iperf!StatusAgrees
<1> SUFFICES ASSUME NoneApart, StatusInv, ~rt.shut, ~Iperf!Starting, ~Iperf!Moving, ~(Iperf!Listening /\ rt.abort)
             PROVE  /\ rt.running = Iperf!Listening
                    /\ shown = Iperf!Listening
                    /\ Iperf!Listening = (port # None)
  BY DEF Iperf!StatusAgrees
<1>1. /\ rt \in FlagsOf /\ port \in ServerThreads \cup {None} /\ shown \in BOOLEAN
      /\ rt.running \in BOOLEAN /\ rt.lock \in Call \cup {None} /\ rt.abort \in BOOLEAN
      /\ None \notin Call /\ None \notin ServerThreads /\ rt.handle \in ServerThreads \cup {None}
      /\ \A t \in ServerThreads : th[t] \in ListenerOf
  BY DEF StatusInv, IperfTypes, FlagsOf, NoneApart
<1>2. LockHeld /\ Generations /\ FrontEndTold
  BY DEF StatusInv
<1>3. rt.lock = None
  BY <1>1, <1>2 DEF LockHeld, Iperf!Starting
<1>4. Latest \in ServerThreads \cup {None}
  BY <1>1, <1>3 DEF Latest
<1>5. \A t \in ServerThreads : th[t].at \in {"free", "serve", "exited"}
  BY <1>1 DEF Iperf!Moving, ListenerOf, Leaving
<1>6. Iperf!Listening <=> Latest # None /\ th[Latest].at = "serve"
  <2>1. \A t \in ServerThreads : t # Latest => th[t].at \in {"free"} \cup Leaving
    BY <1>2 DEF Generations
  <2>2. ASSUME NEW t \in ServerThreads, th[t].at = "serve" PROVE t = Latest
    BY <2>1, <2>2 DEF Leaving
  <2> QED BY <1>1, <1>4, <2>2 DEF Iperf!Listening
<1>7. Iperf!Listening <=> port # None
  BY <1>1, <1>2, <1>5 DEF Iperf!Listening, Generations
<1>8. Iperf!Listening => rt.running /\ shown
  BY <1>1, <1>2, <1>6 DEF FrontEndTold
<1>9. ~Iperf!Listening => ~rt.running /\ ~shown
  BY <1>1, <1>2, <1>3, <1>4, <1>5, <1>6 DEF FrontEndTold, Generations
<1> QED BY <1>1, <1>7, <1>8, <1>9 DEF Iperf!Listening

-----------------------------------------------------------------------------
(* The TCP tests of iperf 2 *)

(* The connections are finitely many, and what they carry is counted.      *)
TcpCounted == IsFiniteSet(Handler) /\ Threads \in Nat /\ MaxBytes \in Nat

Inside == {"announce", "receive", "stall", "received", "back", "leave"}
HandlerOf ==
  [at : {"none", "shake", "emit", "end"} \cup Inside, mode : Tcp!Modes, test : Nat, got : 0..MaxBytes,
   first : BOOLEAN, pay : [test : Nat, total : Nat]]
SessionOf ==
  [streams : Int, revs : Int, started : BOOLEAN, test : Nat, total : Nat, prev : Nat,
   mode : Tcp!Modes, kill : BOOLEAN, running : BOOLEAN]

TcpTypes ==
  /\ hands \in [Handler -> HandlerOf]
  /\ tcp \in SessionOf
  /\ rev \in [Tcp!Tests -> Nat]
  /\ ended \in [Tcp!Tests -> SUBSET Nat]
  /\ halt \in BOOLEAN

(* The handlers that serve a stream, those that send back, and those that  *)
(* were given a test.                                                      *)
Streams == {c \in Handler : hands[c].at \in Inside}
Backs == {c \in Handler : hands[c].at = "back"}
Given == {c \in Handler : hands[c].test # 0}

(* A handler that serves a stream serves the test in progress; the first of*)
(* a test announces it before there is a reverse sender.                   *)
Serves(c) ==
  /\ hands[c].at \in Inside => tcp.started /\ hands[c].test = tcp.test
  /\ hands[c].at \in {"none", "shake"} => hands[c].test = 0
  /\ hands[c].test <= tcp.test
  /\ hands[c].test = 0 => hands[c].got = 0
  /\ hands[c].at # "emit" => hands[c].pay.test = 0
  /\ hands[c].at = "announce" /\ hands[c].first =>
       /\ rev[tcp.test] = 0
       /\ \A d \in Handler : hands[d].at = "announce" /\ hands[d].first => d = c

(* The counters of the session are those of its threads, and a session that*)
(* has none left is closed.                                                *)
UnitsCounted ==
  /\ tcp.streams = Cardinality(Streams)
  /\ tcp.revs = Cardinality(Backs) + IF tcp.started THEN rev[tcp.test] ELSE 0
  /\ tcp.started => tcp.test \in Tcp!Tests /\ tcp.total = Tcp!Carried(tcp.test) /\ tcp.streams + tcp.revs > 0
  /\ tcp.test <= Cardinality(Given)
  /\ \A t \in Tcp!Tests : rev[t] # 0 => tcp.started /\ t = tcp.test

(* The tests that were closed.                                             *)
Past == {t \in Tcp!Tests : t <= tcp.test /\ ~(tcp.started /\ t = tcp.test)}

(* A payload is of a test that was closed, and no other carries it.        *)
Carries(c) ==
  LET t == hands[c].pay.test
  IN  t # 0 => /\ t \in Past /\ hands[c].pay.total = Tcp!Carried(t) /\ ended[t] = {}
               /\ \A d \in Handler : hands[d].pay.test = t => d = c

TotalsTold(t) ==
  /\ ended[t] \subseteq {Tcp!Carried(t)}
  /\ ended[t] # {} => t \in Past /\ \A c \in Handler : hands[c].pay.test # t

TcpInv ==
  /\ TcpTypes /\ UnitsCounted
  /\ \A c \in Handler : Serves(c) /\ Carries(c)
  /\ \A t \in Tcp!Tests : TotalsTold(t)

----------------------------------------------------------------------------
(* The module of the tests counts as the theorems about finite sets do.    *)
LEMMA TcpCardinality == \A S : Tcp!Cardinality(S) = Cardinality(S)
BY DEF Tcp!Cardinality, Cardinality

(* The sets that are counted are finite.                                   *)
LEMMA TcpFinite ==
  ASSUME TcpCounted
  PROVE  /\ IsFiniteSet(Streams) /\ IsFiniteSet(Backs) /\ IsFiniteSet(Given)
         /\ Cardinality(Streams) \in Nat /\ Cardinality(Backs) \in Nat /\ Cardinality(Given) \in Nat
         /\ Cardinality(Given) <= Cardinality(Handler) /\ Cardinality(Handler) \in Nat
         /\ \A t : IsFiniteSet(Tcp!Units(t)) /\ Cardinality(Tcp!Units(t)) \in Nat
<1>1. /\ IsFiniteSet(Streams) /\ IsFiniteSet(Backs) /\ IsFiniteSet(Given)
      /\ Cardinality(Given) <= Cardinality(Handler)
  BY FS_Subset DEF TcpCounted, Streams, Backs, Given
<1>2. IsFiniteSet(1..MaxBytes)
  BY FS_Interval DEF TcpCounted
<1>3. IsFiniteSet(Handler \X (1..MaxBytes))
  BY <1>2, FS_Product DEF TcpCounted
<1>4. \A t : IsFiniteSet(Tcp!Units(t))
  BY <1>3, FS_Subset DEF Tcp!Units
<1> QED BY <1>1, <1>4, FS_CardinalityType DEF TcpCounted

(* A step that gives no handler a test and lets none receive leaves what   *)
(* the tests carried.                                                      *)
LEMMA CarriedKept ==
  ASSUME \A c \in Handler : hands'[c].test = hands[c].test /\ hands'[c].got = hands[c].got
  PROVE  \A t : Tcp!Units(t)' = Tcp!Units(t) /\ Tcp!Carried(t)' = Tcp!Carried(t)
<1>1. ASSUME NEW t, NEW u \in Handler \X (1..MaxBytes)
      PROVE  hands'[u[1]].test = hands[u[1]].test /\ hands'[u[1]].got = hands[u[1]].got
  <2>1. u[1] \in Handler
    OBVIOUS
  <2> QED BY <2>1
<1> QED BY <1>1 DEF Tcp!Units, Tcp!Carried

(* A step that closes no test and carries the same payloads leaves what was*)
(* told.                                                                   *)
LEMMA ClosedKept ==
  ASSUME TcpInv, ended' = ended, Past \subseteq Past', \A t \in Past : Tcp!Carried(t)' = Tcp!Carried(t),
         \A c \in Handler : /\ hands'[c].pay.test = hands[c].pay.test
                            /\ hands[c].pay.test # 0 => hands'[c].pay.total = hands[c].pay.total
  PROVE  (\A c \in Handler : Carries(c)') /\ (\A t \in Tcp!Tests : TotalsTold(t)')
<1>0. \A c \in Handler : hands'[c].pay.test = hands[c].pay.test
  OBVIOUS
<1>1. ASSUME NEW c \in Handler PROVE Carries(c)'
  <2> PICK t : t = hands[c].pay.test
    OBVIOUS
  <2>1. hands'[c].pay.test = t
    BY <1>0
  <2>2. CASE t # 0
    <3>1. /\ t \in Past /\ hands[c].pay.total = Tcp!Carried(t) /\ ended[t] = {}
          /\ \A d \in Handler : hands[d].pay.test = t => d = c
      BY <2>2 DEF TcpInv, Carries
    <3>2. hands'[c].pay.total = hands[c].pay.total
      BY <2>2
    <3>3. t \in Past' /\ hands'[c].pay.total = Tcp!Carried(t)' /\ ended'[t] = {}
      BY <3>1, <3>2
    <3>4. \A d \in Handler : hands'[d].pay.test = t => d = c
      BY <1>0, <3>1
    <3> QED BY <2>1, <3>3, <3>4 DEF Carries
  <2>3. CASE t = 0
    BY <2>1, <2>3 DEF Carries
  <2> QED BY <2>2, <2>3
<1>2. ASSUME NEW t \in Tcp!Tests PROVE TotalsTold(t)'
  <2>0. TotalsTold(t)
    BY DEF TcpInv
  <2>1. CASE ended[t] = {}
    BY <2>1 DEF TotalsTold
  <2>2. CASE ended[t] # {}
    <3>1. t \in Past /\ ended[t] \subseteq {Tcp!Carried(t)} /\ \A c \in Handler : hands[c].pay.test # t
      BY <2>0, <2>2 DEF TotalsTold
    <3>2. t \in Past' /\ Tcp!Carried(t)' = Tcp!Carried(t) /\ \A c \in Handler : hands'[c].pay.test # t
      BY <1>0, <3>1
    <3> QED BY <3>1, <3>2 DEF TotalsTold
  <2> QED BY <2>1, <2>2
<1> QED BY <1>1, <1>2

(* What every step starts from.                                            *)
LEMMA TcpFacts ==
  ASSUME TcpCounted, TcpInv
  PROVE  /\ hands \in [Handler -> HandlerOf] /\ tcp \in SessionOf
         /\ rev \in [Tcp!Tests -> Nat] /\ ended \in [Tcp!Tests -> SUBSET Nat] /\ halt \in BOOLEAN
         /\ tcp.streams \in Int /\ tcp.revs \in Int /\ tcp.started \in BOOLEAN /\ tcp.test \in Nat
         /\ tcp.total \in Nat
         /\ \A t \in Tcp!Tests : rev[t] \in Nat /\ t \in Nat /\ t > 0
         /\ \A c \in Handler : /\ hands[c] \in HandlerOf /\ hands[c].test \in Nat /\ hands[c].got \in 0..MaxBytes
                               /\ hands[c].pay.test \in Nat /\ hands[c].pay.total \in Nat
                               /\ hands[c].first \in BOOLEAN /\ hands[c].mode \in Tcp!Modes
         /\ tcp.streams = Cardinality(Streams)
         /\ tcp.revs = Cardinality(Backs) + IF tcp.started THEN rev[tcp.test] ELSE 0
         /\ tcp.started => tcp.test \in Tcp!Tests /\ tcp.total = Tcp!Carried(tcp.test) /\ tcp.streams + tcp.revs > 0
         /\ tcp.test <= Cardinality(Given) /\ tcp.test <= Cardinality(Handler)
         /\ Cardinality(Streams) \in Nat /\ Cardinality(Backs) \in Nat
         /\ Cardinality(Given) \in Nat /\ Cardinality(Handler) \in Nat
         /\ ~tcp.started => Streams = {} /\ Backs = {}
<1>1. TcpTypes /\ UnitsCounted /\ \A c \in Handler : Serves(c)
  BY DEF TcpInv
<1>2. /\ hands \in [Handler -> HandlerOf] /\ tcp \in SessionOf
      /\ rev \in [Tcp!Tests -> Nat] /\ ended \in [Tcp!Tests -> SUBSET Nat] /\ halt \in BOOLEAN
  BY <1>1 DEF TcpTypes
<1>3. /\ tcp.streams \in Int /\ tcp.revs \in Int /\ tcp.started \in BOOLEAN /\ tcp.test \in Nat
      /\ tcp.total \in Nat
  BY <1>2 DEF SessionOf
<1>4. ASSUME NEW c \in Handler
      PROVE  /\ hands[c] \in HandlerOf /\ hands[c].test \in Nat /\ hands[c].got \in 0..MaxBytes
             /\ hands[c].pay.test \in Nat /\ hands[c].pay.total \in Nat
             /\ hands[c].first \in BOOLEAN /\ hands[c].mode \in Tcp!Modes
  BY <1>2 DEF HandlerOf
<1>5. \A t \in Tcp!Tests : rev[t] \in Nat /\ t \in Nat /\ t > 0
  BY <1>2, TcpFinite DEF Tcp!Tests
<1>6. ~tcp.started => Streams = {} /\ Backs = {}
  BY <1>1 DEF Serves, Streams, Backs, Inside
<1>7. tcp.test <= Cardinality(Given) /\ tcp.test <= Cardinality(Handler)
  BY <1>1, <1>3, TcpFinite DEF UnitsCounted
<1> QED BY <1>1, <1>2, <1>3, <1>4, <1>5, <1>6, <1>7, TcpFinite DEF UnitsCounted

(* A handler moves outside the counted steps: it is accepted, fails its    *)
(* handshake, or its peer goes.                                            *)
LEMMA MoveKeeps ==
  ASSUME TcpCounted, TcpInv, NEW c \in Handler,
         Tcp!Accept(c) \/ Tcp!ShakeFails(c) \/ Tcp!PeerLeaves(c) \/ Tcp!StallEnds(c)
  PROVE  TcpInv'
<1>0. /\ hands \in [Handler -> HandlerOf] /\ hands[c] \in HandlerOf /\ tcp' = tcp /\ rev' = rev
      /\ ended' = ended
      /\ halt' = halt
  BY TcpFacts DEF Tcp!Accept, Tcp!ShakeFails, Tcp!PeerLeaves, Tcp!StallEnds
<1> PICK a \in {"shake", "end", "stall", "received"}, m \in Tcp!Modes :
       /\ hands' = [hands EXCEPT ![c].at = a, ![c].mode = m]
       /\ \/ hands[c].at \in {"none", "shake"} /\ a \in {"shake", "end"}
          \/ hands[c].at \in {"receive", "stall"} /\ a \in {"stall", "received"}
  <2>1. CASE Tcp!Accept(c)
    BY <2>1 DEF Tcp!Accept
  <2>2. hands[c].mode \in Tcp!Modes
    BY <1>0 DEF HandlerOf
  <2>3. \A a : [hands EXCEPT ![c].at = a] = [hands EXCEPT ![c].at = a, ![c].mode = hands[c].mode]
    BY <1>0 DEF HandlerOf
  <2>4. CASE Tcp!ShakeFails(c)
    BY <2>2, <2>3, <2>4 DEF Tcp!ShakeFails
  <2>5. CASE Tcp!PeerLeaves(c)
    BY <2>2, <2>3, <2>5 DEF Tcp!PeerLeaves
  <2>6. CASE Tcp!StallEnds(c)
    BY <2>2, <2>3, <2>6 DEF Tcp!StallEnds
  <2> QED BY <2>1, <2>4, <2>5, <2>6
<1> DEFINE g == [hands[c] EXCEPT !.at = a, !.mode = m]
<1>1. g \in HandlerOf
  BY <1>0, Zenon DEF HandlerOf, Inside
<1>2. /\ g.at = a /\ g.test = hands[c].test /\ g.got = hands[c].got /\ g.first = hands[c].first
      /\ g.pay = hands[c].pay
  BY <1>0 DEF HandlerOf
<1>3. hands' = [hands EXCEPT ![c] = g]
  BY <1>0
<1> HIDE DEF g
<1>4. hands' \in [Handler -> HandlerOf] /\ hands'[c] = g /\ \A d \in Handler : d # c => hands'[d] = hands[d]
  BY <1>0, <1>1, <1>3
<1>5. \A d \in Handler : /\ hands'[d].test = hands[d].test /\ hands'[d].got = hands[d].got /\ hands'[d].first = hands[d].first
                         /\ hands'[d].pay = hands[d].pay
  BY <1>2, <1>4
<1>6. Streams' = Streams /\ Backs' = Backs /\ Given' = Given
  BY <1>2, <1>4, <1>5 DEF Streams, Backs, Given, Inside
<1>7. (\A t : Tcp!Carried(t)' = Tcp!Carried(t)) /\ Past' = Past
  BY <1>0, <1>5, CarriedKept DEF Past
<1>8. (\A d \in Handler : Carries(d)') /\ (\A t \in Tcp!Tests : TotalsTold(t)')
  BY <1>0, <1>5, <1>7, ClosedKept
<1>9. UnitsCounted'
  BY <1>0, <1>6, <1>7 DEF TcpInv, UnitsCounted
<1>10. \A d \in Handler : Serves(d)'
  BY <1>0, <1>2, <1>4, <1>5 DEF TcpInv, Serves, Inside
<1>11. TcpTypes'
  BY <1>0, <1>4 DEF TcpInv, TcpTypes
<1> QED BY <1>8, <1>9, <1>10, <1>11 DEF TcpInv

(* An interval is reported, a test is killed, the server is stopped.       *)
LEMMA TickKeeps ==
  ASSUME TcpCounted, TcpInv, Tcp!Tick \/ Tcp!Stops
  PROVE  TcpInv'
<1>0. /\ hands' = hands /\ rev' = rev /\ ended' = ended /\ halt' \in BOOLEAN /\ tcp \in SessionOf
  BY TcpFacts DEF Tcp!Tick, Tcp!Stops
<1> PICK k \in BOOLEAN, p \in Nat : tcp' = [tcp EXCEPT !.kill = k, !.prev = p]
  <2>1. tcp.kill \in BOOLEAN /\ tcp.prev \in Nat /\ tcp.total \in Nat /\ tcp.started \in BOOLEAN
    BY <1>0 DEF SessionOf
  <2>2. ASSUME NEW k \in BOOLEAN PROVE [tcp EXCEPT !.kill = k] = [tcp EXCEPT !.kill = k, !.prev = tcp.prev]
    BY <1>0 DEF SessionOf
  <2>3. ASSUME NEW p \in Nat PROVE [tcp EXCEPT !.prev = p] = [tcp EXCEPT !.kill = tcp.kill, !.prev = p]
    BY <1>0 DEF SessionOf
  <2>4. CASE tcp' = [tcp EXCEPT !.kill = TRUE]
    <3>1. tcp' = [tcp EXCEPT !.kill = TRUE, !.prev = tcp.prev]
      BY <2>2, <2>4
    <3> QED BY <2>1, <3>1
  <2>5. CASE tcp' = [tcp EXCEPT !.prev = tcp.total]
    <3>1. tcp' = [tcp EXCEPT !.kill = tcp.kill, !.prev = tcp.total]
      BY <2>1, <2>3, <2>5
    <3> QED BY <2>1, <3>1
  <2>6. CASE Tcp!Stops
    <3>1. tcp' = [tcp EXCEPT !.kill = tcp.kill \/ tcp.started]
      BY <2>6 DEF Tcp!Stops
    <3>2. (tcp.kill \/ tcp.started) \in BOOLEAN
      BY <2>1
    <3>3. tcp' = [tcp EXCEPT !.kill = tcp.kill \/ tcp.started, !.prev = tcp.prev]
      BY <2>2, <3>1, <3>2
    <3> QED BY <2>1, <3>2, <3>3
  <2> QED BY <2>4, <2>5, <2>6 DEF Tcp!Tick
<1>1. tcp' \in SessionOf
  BY <1>0, Zenon DEF SessionOf
<1>2. /\ tcp'.streams = tcp.streams /\ tcp'.revs = tcp.revs /\ tcp'.started = tcp.started
      /\ tcp'.test = tcp.test
      /\ tcp'.total = tcp.total
  BY <1>0 DEF SessionOf
<1>6. Streams' = Streams /\ Backs' = Backs /\ Given' = Given
  BY <1>0 DEF Streams, Backs, Given
<1>7. (\A t : Tcp!Carried(t)' = Tcp!Carried(t)) /\ Past' = Past
  BY <1>0, <1>2, CarriedKept DEF Past
<1>8. (\A d \in Handler : Carries(d)') /\ (\A t \in Tcp!Tests : TotalsTold(t)')
  BY <1>0, <1>7, ClosedKept
<1>9. UnitsCounted'
  BY <1>0, <1>2, <1>6, <1>7 DEF TcpInv, UnitsCounted
<1>10. \A d \in Handler : Serves(d)'
  BY <1>0, <1>2 DEF TcpInv, Serves, Inside
<1>11. TcpTypes'
  BY <1>0, <1>1 DEF TcpInv, TcpTypes
<1> QED BY <1>8, <1>9, <1>10, <1>11 DEF TcpInv

(* What a step of one handler leaves of the others.                        *)
LEMMA ServesKept ==
  ASSUME TcpCounted, TcpInv, NEW c \in Handler, \A d \in Handler : d # c => hands'[d] = hands[d],
         tcp'.started = tcp.started, tcp'.test = tcp.test, rev' = rev,
         hands'[c].at \notin {"none", "shake", "announce"},
         hands'[c].at \in Inside => hands[c].at \in Inside,
         hands'[c].test = hands[c].test,
         hands[c].test = 0 => hands'[c].got = hands[c].got,
         hands'[c].at # "emit" => hands'[c].pay.test = 0
  PROVE  \A d \in Handler : Serves(d)'
<1>1. ASSUME NEW d \in Handler, d # c PROVE Serves(d)'
  <2>1. Serves(d) /\ hands'[d] = hands[d]
    BY <1>1 DEF TcpInv
  <2>2. hands[d].at = "announce" /\ hands[d].first =>
          \A e \in Handler : hands'[e].at = "announce" /\ hands'[e].first => e = d
    BY <2>1 DEF Serves
  <2> QED BY <2>1, <2>2 DEF Serves
<1>2. Serves(c)'
  <2>1. Serves(c)
    BY DEF TcpInv
  <2> QED BY <2>1 DEF Serves
<1> QED BY <1>1, <1>2

(* A handler starts to send back.                                          *)
LEMMA SendsBackKeeps ==
  ASSUME TcpCounted, TcpInv, NEW c \in Handler, Tcp!SendsBack(c)
  PROVE  TcpInv'
<1>0. /\ hands[c].at = "received" /\ hands' = [hands EXCEPT ![c].at = "back"]
      /\ tcp' = [tcp EXCEPT !.revs = @ + 1]
      /\ rev' = rev /\ ended' = ended /\ halt' = halt
  BY DEF Tcp!SendsBack
<1>f. /\ hands \in [Handler -> HandlerOf] /\ hands[c] \in HandlerOf /\ tcp \in SessionOf
      /\ tcp.streams \in Int
      /\ tcp.revs \in Int /\ tcp.test \in Nat /\ tcp.total \in Nat /\ tcp.started \in BOOLEAN
  BY TcpFacts
<1> DEFINE g == [hands[c] EXCEPT !.at = "back"]
<1>g. g \in HandlerOf
  BY <1>f, Zenon DEF HandlerOf, Inside
<1>h. /\ g.at = "back" /\ g.test = hands[c].test /\ g.got = hands[c].got /\ g.first = hands[c].first
      /\ g.pay = hands[c].pay
  BY <1>f DEF HandlerOf
<1>e. hands' = [hands EXCEPT ![c] = g]
  BY <1>f, <1>0
<1> HIDE DEF g
<1>p. hands' \in [Handler -> HandlerOf] /\ hands'[c] = g /\ \A d \in Handler : d # c => hands'[d] = hands[d]
  BY <1>f, <1>g, <1>e
<1>1. /\ tcp' \in SessionOf /\ tcp'.streams = tcp.streams /\ tcp'.revs = tcp.revs + 1
      /\ tcp'.started = tcp.started
      /\ tcp'.test = tcp.test /\ tcp'.total = tcp.total
  BY <1>0, <1>f DEF SessionOf
<1>2. \A d \in Handler : hands'[d].test = hands[d].test /\ hands'[d].got = hands[d].got /\ hands'[d].pay = hands[d].pay
  BY <1>h, <1>p
<1>3. Streams' = Streams /\ Given' = Given /\ c \in Streams
  BY <1>0, <1>h, <1>p DEF Streams, Given, Inside
<1>4. Backs' = Backs \cup {c} /\ c \notin Backs
  BY <1>0, <1>h, <1>p DEF Backs
<1>5. Cardinality(Backs') = Cardinality(Backs) + 1
  BY <1>4, TcpFinite, FS_AddElement
<1>6. Cardinality(Streams) > 0
  BY <1>3, TcpFinite, FS_EmptySet
<1>7. (\A t : Tcp!Carried(t)' = Tcp!Carried(t)) /\ Past' = Past
  BY <1>1, <1>2, CarriedKept DEF Past
<1>8. (\A d \in Handler : Carries(d)') /\ (\A t \in Tcp!Tests : TotalsTold(t)')
  BY <1>0, <1>2, <1>7, ClosedKept
<1>9. UnitsCounted'
  <2>1. tcp'.streams + tcp'.revs > 0
    <3>1. tcp'.revs \in Int /\ tcp'.revs >= 0 /\ tcp'.streams > 0
      <4>1. tcp.started /\ tcp.test \in Tcp!Tests /\ rev[tcp.test] \in Nat
        BY <1>3, TcpFacts
      <4>2. Cardinality(Backs') \in Nat
        BY <1>4, TcpFinite, FS_AddElement, FS_RemoveElement, FS_CardinalityType
      <4>3. tcp.revs = Cardinality(Backs) + rev[tcp.test] /\ tcp.streams = Cardinality(Streams)
            /\ Cardinality(Backs) \in Nat
        BY <4>1, TcpFacts
      <4> QED BY <1>1, <1>5, <1>6, <1>f, <4>1, <4>2, <4>3
    <3> QED BY <1>1, <1>f, <3>1
  <2>2. tcp'.revs = Cardinality(Backs') + IF tcp'.started THEN rev'[tcp'.test] ELSE 0
    BY <1>0, <1>1, <1>5, TcpFacts
  <2> QED BY <1>0, <1>1, <1>3, <1>7, <2>1, <2>2 DEF TcpInv, UnitsCounted
<1>10. \A d \in Handler : Serves(d)'
  <2>1. hands[c].pay.test = 0
    BY <1>0 DEF TcpInv, Serves
  <2> QED BY <1>0, <1>1, <1>h, <1>p, <2>1, ServesKept DEF Inside
<1>11. TcpTypes'
  BY <1>0, <1>1, <1>p DEF TcpInv, TcpTypes
<1> QED BY <1>8, <1>9, <1>10, <1>11 DEF TcpInv

(* It has sent back.                                                       *)
LEMMA SentBackKeeps ==
  ASSUME TcpCounted, TcpInv, NEW c \in Handler, Tcp!SentBack(c)
  PROVE  TcpInv'
<1>0. /\ hands[c].at = "back" /\ hands' = [hands EXCEPT ![c].at = "leave"]
      /\ tcp' = [tcp EXCEPT !.revs = @ - 1]
      /\ rev' = rev /\ ended' = ended /\ halt' = halt
  BY DEF Tcp!SentBack
<1>f. /\ hands \in [Handler -> HandlerOf] /\ hands[c] \in HandlerOf /\ tcp \in SessionOf
      /\ tcp.streams \in Int
      /\ tcp.revs \in Int /\ tcp.test \in Nat /\ tcp.total \in Nat /\ tcp.started \in BOOLEAN
  BY TcpFacts
<1> DEFINE g == [hands[c] EXCEPT !.at = "leave"]
<1>g. g \in HandlerOf
  BY <1>f, Zenon DEF HandlerOf, Inside
<1>h. /\ g.at = "leave" /\ g.test = hands[c].test /\ g.got = hands[c].got /\ g.first = hands[c].first
      /\ g.pay = hands[c].pay
  BY <1>f DEF HandlerOf
<1>e. hands' = [hands EXCEPT ![c] = g]
  BY <1>f, <1>0
<1> HIDE DEF g
<1>p. hands' \in [Handler -> HandlerOf] /\ hands'[c] = g /\ \A d \in Handler : d # c => hands'[d] = hands[d]
  BY <1>f, <1>g, <1>e
<1>1. /\ tcp' \in SessionOf /\ tcp'.streams = tcp.streams /\ tcp'.revs = tcp.revs - 1
      /\ tcp'.started = tcp.started
      /\ tcp'.test = tcp.test /\ tcp'.total = tcp.total
  BY <1>0, <1>f DEF SessionOf
<1>2. \A d \in Handler : hands'[d].test = hands[d].test /\ hands'[d].got = hands[d].got /\ hands'[d].pay = hands[d].pay
  BY <1>h, <1>p
<1>3. Streams' = Streams /\ Given' = Given /\ c \in Streams
  BY <1>0, <1>h, <1>p DEF Streams, Given, Inside
<1>4. Backs' = Backs \ {c} /\ c \in Backs
  BY <1>0, <1>h, <1>p DEF Backs
<1>5. Cardinality(Backs') = Cardinality(Backs) - 1
  BY <1>4, TcpFinite, FS_RemoveElement
<1>6. Cardinality(Streams) > 0
  BY <1>3, TcpFinite, FS_EmptySet
<1>7. (\A t : Tcp!Carried(t)' = Tcp!Carried(t)) /\ Past' = Past
  BY <1>1, <1>2, CarriedKept DEF Past
<1>8. (\A d \in Handler : Carries(d)') /\ (\A t \in Tcp!Tests : TotalsTold(t)')
  BY <1>0, <1>2, <1>7, ClosedKept
<1>9. UnitsCounted'
  <2>1. tcp'.streams + tcp'.revs > 0
    <3>1. tcp'.revs \in Int /\ tcp'.revs >= 0 /\ tcp'.streams > 0
      <4>1. tcp.started /\ tcp.test \in Tcp!Tests /\ rev[tcp.test] \in Nat
        BY <1>3, TcpFacts
      <4>2. Cardinality(Backs') \in Nat
        BY <1>4, TcpFinite, FS_AddElement, FS_RemoveElement, FS_CardinalityType
      <4>3. tcp.revs = Cardinality(Backs) + rev[tcp.test] /\ tcp.streams = Cardinality(Streams)
            /\ Cardinality(Backs) \in Nat
        BY <4>1, TcpFacts
      <4> QED BY <1>1, <1>5, <1>6, <1>f, <4>1, <4>2, <4>3
    <3> QED BY <1>1, <1>f, <3>1
  <2>2. tcp'.revs = Cardinality(Backs') + IF tcp'.started THEN rev'[tcp'.test] ELSE 0
    BY <1>0, <1>1, <1>5, TcpFacts
  <2> QED BY <1>0, <1>1, <1>3, <1>7, <2>1, <2>2 DEF TcpInv, UnitsCounted
<1>10. \A d \in Handler : Serves(d)'
  <2>1. hands[c].pay.test = 0
    BY <1>0 DEF TcpInv, Serves
  <2> QED BY <1>0, <1>1, <1>h, <1>p, <2>1, ServesKept DEF Inside
<1>11. TcpTypes'
  BY <1>0, <1>1, <1>p DEF TcpInv, TcpTypes
<1> QED BY <1>8, <1>9, <1>10, <1>11 DEF TcpInv

(* A unit is received: the total and what the test carried grow by it.     *)
LEMMA ReceivesKeeps ==
  ASSUME TcpCounted, TcpInv, NEW c \in Handler, Tcp!Receives(c)
  PROVE  TcpInv'
<1>0. /\ hands[c].at = "receive" /\ hands[c].got < MaxBytes /\ hands' = [hands EXCEPT ![c].got = @ + 1]
      /\ tcp' = [tcp EXCEPT !.total = @ + 1] /\ rev' = rev /\ ended' = ended /\ halt' = halt
  BY DEF Tcp!Receives
<1>n. hands[c].got \in 0..MaxBytes /\ hands[c].got + 1 \in 1..MaxBytes /\ hands[c].got + 1 \in 0..MaxBytes
  BY <1>0, TcpFacts DEF TcpCounted
<1>f. /\ hands \in [Handler -> HandlerOf] /\ hands[c] \in HandlerOf /\ tcp \in SessionOf
      /\ tcp.streams \in Int
      /\ tcp.revs \in Int /\ tcp.test \in Nat /\ tcp.total \in Nat /\ tcp.started \in BOOLEAN
  BY TcpFacts
<1> DEFINE g == [hands[c] EXCEPT !.got = hands[c].got + 1]
<1>g. g \in HandlerOf
  BY <1>f, <1>n, Zenon DEF HandlerOf, Inside
<1>h. /\ g.got = hands[c].got + 1 /\ g.at = hands[c].at /\ g.test = hands[c].test /\ g.first = hands[c].first
      /\ g.pay = hands[c].pay
  BY <1>f DEF HandlerOf
<1>e. hands' = [hands EXCEPT ![c] = g]
  BY <1>f, <1>0
<1> HIDE DEF g
<1>p. hands' \in [Handler -> HandlerOf] /\ hands'[c] = g /\ \A d \in Handler : d # c => hands'[d] = hands[d]
  BY <1>f, <1>g, <1>e
<1>1. /\ tcp' \in SessionOf /\ tcp'.streams = tcp.streams /\ tcp'.revs = tcp.revs
      /\ tcp'.started = tcp.started
      /\ tcp'.test = tcp.test /\ tcp'.total = tcp.total + 1
  BY <1>0, <1>f DEF SessionOf
<1>2. /\ hands[c].test = tcp.test /\ tcp.started /\ tcp.test \in Tcp!Tests /\ hands[c].pay.test = 0
      /\ tcp.test # 0
  BY <1>0, TcpFacts DEF TcpInv, Serves, Inside
<1>3. Streams' = Streams /\ Given' = Given /\ Backs' = Backs
  BY <1>h, <1>p DEF Streams, Given, Backs
<1> DEFINE u == <<c, hands[c].got + 1>>
<1>4. Tcp!Units(tcp.test)' = Tcp!Units(tcp.test) \cup {u} /\ u \notin Tcp!Units(tcp.test)
  <2>1. u \in Handler \X (1..MaxBytes) /\ u[1] = c /\ u[2] = hands[c].got + 1
    BY <1>n
  <2>2. u \notin Tcp!Units(tcp.test)
    BY <1>n, <2>1 DEF Tcp!Units
  <2>3. u \in Tcp!Units(tcp.test)'
    BY <1>1, <1>2, <1>h, <1>n, <1>p, <2>1 DEF Tcp!Units
  <2>4. ASSUME NEW v \in Handler \X (1..MaxBytes), v # u
        PROVE  v \in Tcp!Units(tcp.test)' <=> v \in Tcp!Units(tcp.test)
    <3>1. v[1] \in Handler /\ v[2] \in 1..MaxBytes /\ v = <<v[1], v[2]>>
      OBVIOUS
    <3>2. CASE v[1] # c
      BY <1>1, <1>p, <3>1, <3>2 DEF Tcp!Units
    <3>3. CASE v[1] = c
      <4>1. v[2] # hands[c].got + 1
        BY <2>4, <3>1, <3>3
      <4>2. v[2] <= g.got <=> v[2] <= hands[c].got
        BY <1>h, <1>n, <3>1, <4>1
      <4> QED BY <1>1, <1>2, <1>h, <1>p, <3>1, <3>3, <4>2 DEF Tcp!Units
    <3> QED BY <3>2, <3>3
  <2>5. /\ Tcp!Units(tcp.test) \subseteq Handler \X (1..MaxBytes)
        /\ Tcp!Units(tcp.test)' \subseteq Handler \X (1..MaxBytes)
    BY DEF Tcp!Units
  <2> QED BY <2>1, <2>2, <2>3, <2>4, <2>5
<1>5. Tcp!Carried(tcp.test)' = Tcp!Carried(tcp.test) + 1
  <2> PICK U : U = Tcp!Units(tcp.test)
    OBVIOUS
  <2>1. IsFiniteSet(U) /\ u \notin U /\ Tcp!Units(tcp.test)' = U \cup {u}
    BY <1>4, TcpFinite
  <2>2. Cardinality(Tcp!Units(tcp.test)') = Cardinality(U) + 1
    BY <2>1, FS_AddElement
  <2> QED BY <2>2, TcpCardinality DEF Tcp!Carried
<1>6. ASSUME NEW t, t # tcp.test PROVE Tcp!Carried(t)' = Tcp!Carried(t)
  <2>1. ASSUME NEW v \in Handler \X (1..MaxBytes)
        PROVE  (hands'[v[1]].test = t /\ v[2] <= hands'[v[1]].got) <=> (hands[v[1]].test = t /\ v[2] <= hands[v[1]].got)
    <3>1. v[1] \in Handler
      OBVIOUS
    <3> QED BY <1>2, <1>6, <1>h, <1>p, <3>1
  <2> QED BY <2>1 DEF Tcp!Carried, Tcp!Units
<1>7. (\A t \in Past : Tcp!Carried(t)' = Tcp!Carried(t)) /\ Past' = Past
  BY <1>1, <1>2, <1>6 DEF Past
<1>8. (\A d \in Handler : Carries(d)') /\ (\A t \in Tcp!Tests : TotalsTold(t)')
  BY <1>0, <1>h, <1>p, <1>7, ClosedKept
<1>9. UnitsCounted'
  <2>1. tcp.total = Tcp!Carried(tcp.test)
    BY <1>2, TcpFacts
  <2>2. (tcp.total = Tcp!Carried(tcp.test))'
    BY <1>1, <1>5, <2>1
  <2> QED BY <1>0, <1>1, <1>3, <2>2 DEF TcpInv, UnitsCounted
<1>10. \A d \in Handler : Serves(d)'
  BY <1>0, <1>1, <1>2, <1>h, <1>p, ServesKept
<1>11. TcpTypes'
  BY <1>0, <1>1, <1>p DEF TcpInv, TcpTypes
<1> QED BY <1>8, <1>9, <1>10, <1>11 DEF TcpInv

(* A first handler announces the test and starts its reverse senders.      *)
LEMMA AnnouncesKeeps ==
  ASSUME TcpCounted, TcpInv, NEW c \in Handler, Tcp!Announces(c)
  PROVE  TcpInv'
<1>0. /\ hands[c].at = "announce" /\ hands' = [hands EXCEPT ![c].at = "receive", ![c].pay = Tcp!NoPayload]
      /\ halt' = halt
  BY DEF Tcp!Announces
<1>n. Tcp!NoPayload \in [test : Nat, total : Nat] /\ Tcp!NoPayload.test = 0
  BY DEF Tcp!NoPayload
<1>f. /\ hands \in [Handler -> HandlerOf] /\ hands[c] \in HandlerOf /\ tcp \in SessionOf
      /\ tcp.streams \in Int
      /\ tcp.revs \in Int /\ tcp.test \in Nat /\ tcp.total \in Nat /\ tcp.started \in BOOLEAN
  BY TcpFacts
<1> DEFINE g == [hands[c] EXCEPT !.at = "receive", !.pay = Tcp!NoPayload]
<1>g. g \in HandlerOf
  BY <1>f, <1>n, Zenon DEF HandlerOf, Inside
<1>h. /\ g.at = "receive" /\ g.pay = Tcp!NoPayload /\ g.test = hands[c].test /\ g.got = hands[c].got
      /\ g.first = hands[c].first
  BY <1>f DEF HandlerOf
<1>e. hands' = [hands EXCEPT ![c] = g]
  BY <1>f, <1>0
<1> HIDE DEF g
<1>p. hands' \in [Handler -> HandlerOf] /\ hands'[c] = g /\ \A d \in Handler : d # c => hands'[d] = hands[d]
  BY <1>f, <1>g, <1>e
<1>2. /\ hands[c].test = tcp.test /\ tcp.started /\ tcp.test \in Tcp!Tests /\ hands[c].pay.test = 0
      /\ tcp.test # 0
      /\ rev[tcp.test] \in Nat
  BY <1>0, TcpFacts DEF TcpInv, Serves, Inside
<1>d. ended' = ended
  BY <1>2 DEF Tcp!Announces, Tcp!Emitted
<1>3. /\ Streams' = Streams /\ Given' = Given /\ Backs' = Backs /\ c \in Streams
      /\ \A d \in Handler : hands'[d].test = hands[d].test /\ hands'[d].got = hands[d].got
  BY <1>0, <1>h, <1>p DEF Streams, Given, Backs, Inside
<1>c. \A d \in Handler : /\ hands'[d].pay.test = hands[d].pay.test
                         /\ hands[d].pay.test # 0 => hands'[d].pay.total = hands[d].pay.total
  BY <1>2, <1>h, <1>n, <1>p
<1>4. CASE ~hands[c].first
  <2>1. tcp' = tcp /\ rev' = rev
    BY <1>4 DEF Tcp!Announces
  <2>7. (\A t : Tcp!Carried(t)' = Tcp!Carried(t)) /\ Past' = Past
    BY <1>3, <2>1, CarriedKept DEF Past
  <2>8. (\A d \in Handler : Carries(d)') /\ (\A t \in Tcp!Tests : TotalsTold(t)')
    BY <1>c, <1>d, <2>7, ClosedKept
  <2>9. UnitsCounted'
    BY <1>3, <2>1, <2>7 DEF TcpInv, UnitsCounted
  <2>10. \A d \in Handler : Serves(d)'
    BY <1>0, <1>h, <1>n, <1>p, <2>1, ServesKept DEF Inside
  <2>11. TcpTypes'
    BY <1>0, <1>d, <1>p, <2>1 DEF TcpInv, TcpTypes
  <2> QED BY <2>8, <2>9, <2>10, <2>11 DEF TcpInv
<1>5. CASE hands[c].first
  <2> DEFINE n == IF hands[c].mode = "dual" THEN Threads ELSE 0
  <2>1. n \in Nat
    BY DEF TcpCounted
  <2>2. tcp' = [tcp EXCEPT !.running = TRUE, !.revs = @ + n] /\ rev' = [rev EXCEPT ![tcp.test] = n]
    BY <1>2, <1>5 DEF Tcp!Announces
  <2> HIDE DEF n
  <2>3. /\ tcp' \in SessionOf /\ tcp'.streams = tcp.streams /\ tcp'.revs = tcp.revs + n
        /\ tcp'.started = tcp.started
        /\ tcp'.test = tcp.test /\ tcp'.total = tcp.total
    <3>1. tcp' = [tcp EXCEPT !.running = TRUE, !.revs = tcp.revs + n] /\ tcp.revs + n \in Int
      BY <1>f, <2>1, <2>2
    <3>2. tcp' \in SessionOf
      BY <1>f, <3>1, Zenon DEF SessionOf
    <3> QED BY <1>f, <3>1, <3>2 DEF SessionOf
  <2>4. /\ rev' \in [Tcp!Tests -> Nat] /\ rev'[tcp.test] = n
        /\ \A t \in Tcp!Tests : t # tcp.test => rev'[t] = rev[t]
    BY <1>2, <2>1, <2>2, TcpFacts
  <2>5. rev[tcp.test] = 0 /\ \A d \in Handler : hands[d].at = "announce" /\ hands[d].first => d = c
    BY <1>0, <1>5 DEF TcpInv, Serves
  <2>7. (\A t : Tcp!Carried(t)' = Tcp!Carried(t)) /\ Past' = Past
    BY <1>3, <2>3, CarriedKept DEF Past
  <2>8. (\A d \in Handler : Carries(d)') /\ (\A t \in Tcp!Tests : TotalsTold(t)')
    BY <1>c, <1>d, <2>7, ClosedKept
  <2>9. UnitsCounted'
    <3>1. tcp'.revs = Cardinality(Backs') + IF tcp'.started THEN rev'[tcp'.test] ELSE 0
      BY <1>2, <1>3, <2>1, <2>3, <2>4, <2>5, TcpFacts
    <3>2. tcp'.streams + tcp'.revs > 0
      BY <1>2, <1>f, <2>1, <2>3, TcpFacts
    <3>3. \A t \in Tcp!Tests : rev'[t] # 0 => tcp'.started /\ t = tcp'.test
      BY <1>2, <2>3, <2>4 DEF TcpInv, UnitsCounted
    <3> QED BY <1>2, <1>3, <2>3, <2>7, <3>1, <3>2, <3>3 DEF TcpInv, UnitsCounted
  <2>10. ASSUME NEW d \in Handler PROVE Serves(d)'
    <3>1. Serves(d) /\ ~(hands'[d].at = "announce" /\ hands'[d].first)
      BY <1>h, <1>p, <2>5 DEF TcpInv
    <3>2. CASE d = c
      BY <1>0, <1>2, <1>f, <1>h, <1>n, <1>p, <2>3, <3>1, <3>2 DEF Serves, Inside
    <3>3. CASE d # c
      BY <1>p, <2>3, <3>1, <3>3 DEF Serves
    <3> QED BY <3>2, <3>3
  <2>11. TcpTypes'
    BY <1>0, <1>d, <1>p, <2>3, <2>4 DEF TcpInv, TcpTypes
  <2> QED BY <2>8, <2>9, <2>10, <2>11 DEF TcpInv
<1> QED BY <1>4, <1>5, TcpFacts

(* A stream is counted; the first one opens the next test.                 *)
LEMMA CountsKeeps ==
  ASSUME TcpCounted, TcpInv, NEW c \in Handler, Tcp!Counts(c)
  PROVE  TcpInv'
<1>s. ~Tcp!Over(tcp)
  BY TcpFacts DEF Tcp!Over
<1> DEFINE first == ~tcp.started
           y == IF first THEN Tcp!Opened(tcp, hands[c].mode) ELSE tcp
<1>0. /\ hands[c].at = "shake"
      /\ tcp' = [y EXCEPT !.streams = @ + 1]
      /\ hands' = [hands EXCEPT ![c].at = "announce", ![c].test = y.test, ![c].first = first,
                        ![c].pay = Tcp!NoPayload]
      /\ rev' = rev /\ ended' = ended /\ halt' = halt
  BY <1>s DEF Tcp!Counts
<1>n. Tcp!NoPayload \in [test : Nat, total : Nat] /\ Tcp!NoPayload.test = 0 /\ first \in BOOLEAN
  BY DEF Tcp!NoPayload
<1>k. hands[c].mode \in Tcp!Modes /\ tcp.test \in Nat /\ tcp \in SessionOf /\ tcp.streams \in Int
  BY TcpFacts
<1>y. /\ y \in SessionOf /\ y.test = (IF tcp.started THEN tcp.test ELSE tcp.test + 1) /\ y.test \in Nat
      /\ y.streams = tcp.streams /\ y.revs = tcp.revs /\ y.started
      /\ y.total = (IF tcp.started THEN tcp.total ELSE 0)
  <2>1. CASE tcp.started
    BY <1>k, <2>1
  <2>2. CASE ~tcp.started
    <3>1. y = [tcp EXCEPT !.total = 0, !.prev = 0, !.mode = hands[c].mode, !.kill = FALSE, !.started = TRUE,
                        !.test = tcp.test + 1]
      BY <2>2 DEF Tcp!Opened
    <3>2. tcp.test + 1 \in Nat
      BY <1>k
    <3> HIDE DEF y
    <3>3. y \in SessionOf
      BY <1>k, <3>1, <3>2, Zenon DEF SessionOf
    <3> QED BY <1>k, <2>2, <3>1, <3>2, <3>3 DEF SessionOf
  <2> QED BY <2>1, <2>2
<1> HIDE DEF y, first
<1>f. /\ hands \in [Handler -> HandlerOf] /\ hands[c] \in HandlerOf /\ tcp \in SessionOf
      /\ tcp.streams \in Int
      /\ tcp.revs \in Int /\ tcp.test \in Nat /\ tcp.total \in Nat /\ tcp.started \in BOOLEAN
  BY TcpFacts
<1> DEFINE g == [hands[c] EXCEPT !.at = "announce", !.test = y.test, !.first = first, !.pay = Tcp!NoPayload]
<1>g. g \in HandlerOf
  BY <1>f, <1>n, <1>y, Zenon DEF HandlerOf, Inside
<1>h. g.at = "announce" /\ g.pay = Tcp!NoPayload /\ g.test = y.test /\ g.got = hands[c].got /\ g.first = first
  BY <1>f DEF HandlerOf
<1>e. hands' = [hands EXCEPT ![c] = g]
  BY <1>f, <1>0
<1> HIDE DEF g
<1>p. hands' \in [Handler -> HandlerOf] /\ hands'[c] = g /\ \A d \in Handler : d # c => hands'[d] = hands[d]
  BY <1>f, <1>g, <1>e
<1>1. /\ tcp' \in SessionOf /\ tcp'.streams = tcp.streams + 1 /\ tcp'.revs = tcp.revs /\ tcp'.started
      /\ tcp'.test = y.test /\ tcp'.total = y.total
  <2>1. tcp' = [y EXCEPT !.streams = tcp.streams + 1] /\ tcp.streams + 1 \in Int
    BY <1>0, <1>f, <1>y
  <2> QED BY <1>y, <2>1 DEF SessionOf
<1>2. /\ hands[c].test = 0 /\ hands[c].got = 0 /\ hands[c].pay.test = 0 /\ c \notin Streams /\ c \notin Given
      /\ c \notin Backs
  BY <1>0 DEF TcpInv, Serves, Streams, Given, Backs, Inside
<1>t. y.test # 0 /\ y.test \in Nat /\ tcp.test <= y.test
  BY <1>k, <1>y, TcpFacts
<1>3. Streams' = Streams \cup {c} /\ Given' = Given \cup {c} /\ Backs' = Backs
  BY <1>2, <1>h, <1>p, <1>t DEF Streams, Given, Backs, Inside
<1>4. /\ Cardinality(Streams') = Cardinality(Streams) + 1
      /\ Cardinality(Given') = Cardinality(Given) + 1
      /\ Cardinality(Given') <= Cardinality(Handler)
  <2>1. Given' \in SUBSET Handler
    BY DEF Given
  <2> QED BY <1>2, <1>3, <2>1, TcpFinite, FS_AddElement, FS_Subset DEF TcpCounted
<1>5. y.test <= Cardinality(Given') /\ y.test \in Tcp!Tests
  <2>1. y.test <= Cardinality(Given')
    BY <1>4, <1>k, <1>y, TcpFacts
  <2>2. y.test <= Cardinality(Handler) /\ 1 <= y.test
    BY <1>3, <1>4, <1>t, <2>1, TcpFacts
  <2> QED BY <1>t, <2>1, <2>2, TcpFacts, TcpCardinality DEF Tcp!Tests
<1>6. ASSUME NEW t PROVE Tcp!Units(t)' = Tcp!Units(t) /\ Tcp!Carried(t)' = Tcp!Carried(t)
  <2>1. ASSUME NEW v \in Handler \X (1..MaxBytes)
        PROVE  (hands'[v[1]].test = t /\ v[2] <= hands'[v[1]].got) <=> (hands[v[1]].test = t /\ v[2] <= hands[v[1]].got)
    <3>1. v[1] \in Handler /\ v[2] \in 1..MaxBytes
      OBVIOUS
    <3>2. CASE v[1] = c
      <4>1. ~(v[2] <= 0)
        BY <3>1 DEF TcpCounted
      <4> QED BY <1>2, <1>h, <1>p, <3>2, <4>1
    <3>3. CASE v[1] # c
      BY <1>p, <3>1, <3>3
    <3> QED BY <3>2, <3>3
  <2> QED BY <2>1 DEF Tcp!Carried, Tcp!Units
<1>7. Past \subseteq Past'
  BY <1>1, <1>k, <1>y, TcpFacts DEF Past
<1>8. (\A d \in Handler : Carries(d)') /\ (\A t \in Tcp!Tests : TotalsTold(t)')
  BY <1>0, <1>2, <1>6, <1>7, <1>h, <1>n, <1>p, ClosedKept
<1>9. UnitsCounted'
  <2>1. /\ rev'[y.test] = (IF tcp.started THEN rev[tcp.test] ELSE 0)
        /\ \A t \in Tcp!Tests : rev'[t] # 0 => t = y.test
    BY <1>0, <1>5, <1>y DEF TcpInv, UnitsCounted
  <2>2. tcp'.streams + tcp'.revs > 0
    <3>1. CASE tcp.started
      BY <1>1, <1>f, <3>1, TcpFacts
    <3>2. CASE ~tcp.started
      <4>1. Streams = {} /\ Backs = {}
        BY <3>2, TcpFacts
      <4> QED BY <1>1, <1>f, <3>2, <4>1, TcpFacts, FS_EmptySet
    <3> QED BY <3>1, <3>2
  <2>3. (tcp.total = Tcp!Carried(tcp.test))'
    <3>1. CASE tcp.started
      BY <1>1, <1>6, <1>y, <3>1, TcpFacts
    <3>2. CASE ~tcp.started
      <4>1. ASSUME NEW d \in Handler PROVE hands[d].test # tcp.test + 1
        <5>1. hands[d].test \in Nat /\ hands[d].test <= tcp.test
          BY TcpFacts DEF TcpInv, Serves
        <5> QED BY <1>k, <5>1
      <4>2. Tcp!Units(tcp.test + 1) = {}
        BY <4>1 DEF Tcp!Units
      <4>3. Tcp!Carried(tcp.test + 1) = 0
        BY <4>2, FS_EmptySet, TcpCardinality DEF Tcp!Carried
      <4>4. y.test = tcp.test + 1 /\ y.total = 0
        BY <1>y, <3>2
      <4> QED BY <1>1, <1>6, <4>3, <4>4
    <3> QED BY <3>1, <3>2
  <2>4. tcp'.streams = Cardinality(Streams') /\ tcp'.test <= Cardinality(Given')
    BY <1>1, <1>4, <1>5, TcpFacts
  <2>5. tcp'.revs = Cardinality(Backs') + IF tcp'.started THEN rev'[tcp'.test] ELSE 0
    BY <1>1, <1>3, <2>1, TcpFacts
  <2> QED BY <1>1, <1>5, <2>1, <2>2, <2>3, <2>4, <2>5 DEF UnitsCounted
<1>10. ASSUME NEW d \in Handler PROVE Serves(d)'
  <2>0. Serves(d)
    BY DEF TcpInv
  <2>1. CASE d = c
    <3>1. ASSUME first
          PROVE  rev'[y.test] = 0 /\ \A e \in Handler : hands'[e].at = "announce" /\ hands'[e].first => e = c
      <4>1. ~tcp.started
        BY <3>1 DEF first
      <4>2. rev'[y.test] = 0
        BY <1>0, <1>5, <4>1 DEF TcpInv, UnitsCounted
      <4>3. \A e \in Handler : hands[e].at # "announce"
        BY <4>1 DEF TcpInv, Serves, Inside
      <4> QED BY <1>p, <4>2, <4>3
    <3>2. /\ hands'[c].at = "announce" /\ hands'[c].test = tcp'.test /\ hands'[c].test # 0
          /\ hands'[c].pay.test = 0
          /\ (hands'[c].first <=> first) /\ tcp'.started /\ hands'[c].test <= tcp'.test
      BY <1>1, <1>h, <1>n, <1>p, <1>t
    <3> QED BY <1>1, <2>1, <3>1, <3>2 DEF Serves
  <2>2. CASE d # c
    <3>1. hands'[d] = hands[d] /\ hands[d].test <= tcp'.test
      <4>1. hands[d].test \in Nat /\ hands[d].test <= tcp.test
        BY <2>0, TcpFacts DEF Serves
      <4> QED BY <1>1, <1>k, <1>p, <1>t, <2>2, <4>1
    <3>2. CASE hands[d].at \in Inside
      <4>1. tcp.started /\ hands[d].test = tcp.test /\ y.test = tcp.test /\ ~first
        BY <1>y, <2>0, <3>2 DEF Serves, first
      <4>2. hands[d].at = "announce" /\ hands[d].first =>
              rev'[tcp'.test] = 0 /\ \A e \in Handler : hands'[e].at = "announce" /\ hands'[e].first => e = d
        BY <1>0, <1>1, <1>h, <1>p, <2>0, <4>1 DEF Serves
      <4> QED BY <1>1, <2>0, <3>1, <4>1, <4>2 DEF Serves
    <3>3. CASE hands[d].at \notin Inside
      BY <1>1, <2>0, <3>1, <3>3 DEF Serves, Inside
    <3> QED BY <3>2, <3>3
  <2> QED BY <2>1, <2>2
<1>11. TcpTypes'
  BY <1>0, <1>1, <1>p DEF TcpInv, TcpTypes
<1> QED BY <1>8, <1>9, <1>10, <1>11 DEF TcpInv

(* A stream is taken off; the last one closes the test.                    *)
LEMMA LeavesKeeps ==
  ASSUME TcpCounted, TcpInv, NEW c \in Handler, Tcp!Leaves(c)
  PROVE  TcpInv'
<1> DEFINE x == [tcp EXCEPT !.streams = @ - 1]
<1>0. /\ hands[c].at \in {"leave", "received"}
      /\ tcp' = (IF Tcp!Over(x) THEN Tcp!Closed(x) ELSE x)
      /\ hands' = [hands EXCEPT ![c].at = IF Tcp!Over(x) THEN "emit" ELSE "end",
                        ![c].pay = IF Tcp!Over(x) THEN Tcp!Payload(x) ELSE Tcp!NoPayload]
      /\ rev' = rev /\ ended' = ended /\ halt' = halt
  BY DEF Tcp!Leaves
<1>k. tcp.test \in Nat /\ tcp \in SessionOf /\ tcp.streams \in Int /\ tcp.total \in Nat /\ tcp.revs \in Int
  BY TcpFacts
<1>x. /\ x \in SessionOf /\ x.streams = tcp.streams - 1 /\ x.revs = tcp.revs /\ x.started = tcp.started
      /\ x.test = tcp.test /\ x.total = tcp.total
  BY <1>k DEF SessionOf
<1> HIDE DEF x
<1> DEFINE a == IF Tcp!Over(x) THEN "emit" ELSE "end"
           p == IF Tcp!Over(x) THEN Tcp!Payload(x) ELSE Tcp!NoPayload
<1>n. /\ p \in [test : Nat, total : Nat] /\ a \in {"emit", "end"}
      /\ IF Tcp!Over(x) THEN p.test = tcp.test /\ p.total = tcp.total ELSE p.test = 0
  BY <1>k, <1>x DEF Tcp!NoPayload, Tcp!Payload
<1>m. /\ (Tcp!Over(x) => a = "emit") /\ (~Tcp!Over(x) => a = "end")
      /\ hands' = [hands EXCEPT ![c].at = a, ![c].pay = p]
  BY <1>0
<1> HIDE DEF a, p
<1>f. /\ hands \in [Handler -> HandlerOf] /\ hands[c] \in HandlerOf /\ tcp \in SessionOf
      /\ tcp.streams \in Int
      /\ tcp.revs \in Int /\ tcp.test \in Nat /\ tcp.total \in Nat /\ tcp.started \in BOOLEAN
  BY TcpFacts
<1> DEFINE g == [hands[c] EXCEPT !.at = a, !.pay = p]
<1>g. g \in HandlerOf
  BY <1>f, <1>n, Zenon DEF HandlerOf, Inside
<1>h. g.at = a /\ g.pay = p /\ g.test = hands[c].test /\ g.got = hands[c].got /\ g.first = hands[c].first
  BY <1>f DEF HandlerOf
<1>e. hands' = [hands EXCEPT ![c] = g]
  BY <1>f, <1>m
<1> HIDE DEF g
<1>p. hands' \in [Handler -> HandlerOf] /\ hands'[c] = g /\ \A d \in Handler : d # c => hands'[d] = hands[d]
  BY <1>f, <1>g, <1>e
<1>2. /\ hands[c].test = tcp.test /\ tcp.started /\ tcp.test \in Tcp!Tests /\ hands[c].pay.test = 0
      /\ tcp.test # 0 /\ tcp.test \notin Past
  BY <1>0, TcpFacts DEF TcpInv, Serves, Inside, Past
<1>3. /\ Streams' = Streams \ {c} /\ c \in Streams /\ Backs' = Backs /\ Given' = Given
      /\ \A d \in Handler : hands'[d].test = hands[d].test /\ hands'[d].got = hands[d].got /\ hands'[d].first = hands[d].first
  BY <1>0, <1>h, <1>n, <1>p DEF Streams, Given, Backs, Inside
<1>4. /\ Cardinality(Streams') = Cardinality(Streams) - 1 /\ Cardinality(Streams') \in Nat
      /\ IsFiniteSet(Streams')
  BY <1>3, TcpFinite, FS_RemoveElement, FS_CardinalityType
<1>r. /\ tcp.revs = Cardinality(Backs) + rev[tcp.test] /\ rev[tcp.test] \in Nat
      /\ tcp.streams = Cardinality(Streams)
  BY <1>2, TcpFacts
<1>6. \A t : Tcp!Carried(t)' = Tcp!Carried(t)
  BY <1>3, CarriedKept
<1>7. CASE ~Tcp!Over(x)
  <2>1. tcp' = x /\ hands'[c].at = "end" /\ hands'[c].pay.test = 0
    BY <1>0, <1>7, <1>h, <1>m, <1>n, <1>p
  <2>2. Past' = Past
    BY <1>x, <2>1 DEF Past
  <2>8. (\A d \in Handler : Carries(d)') /\ (\A t \in Tcp!Tests : TotalsTold(t)')
    BY <1>0, <1>2, <1>6, <1>p, <2>1, <2>2, ClosedKept
  <2>3. tcp'.streams + tcp'.revs > 0
    <3>1. ~(tcp.streams - 1 = 0 /\ tcp.revs = 0)
      BY <1>2, <1>7, <1>x DEF Tcp!Over
    <3>2. tcp.streams - 1 \in Nat /\ tcp.revs \in Nat
      BY <1>4, <1>r, TcpFacts
    <3>3. (tcp.streams - 1) + tcp.revs > 0
      BY <1>k, <3>1, <3>2
    <3> QED BY <1>x, <2>1, <3>3
  <2>4. tcp'.streams = Cardinality(Streams')
    BY <1>4, <1>r, <1>x, <2>1
  <2>9. UnitsCounted'
    BY <1>0, <1>3, <1>6, <1>x, <2>1, <2>3, <2>4 DEF TcpInv, UnitsCounted
  <2>10. \A d \in Handler : Serves(d)'
    BY <1>0, <1>h, <1>p, <1>x, <2>1, ServesKept DEF Inside
  <2>11. TcpTypes'
    BY <1>0, <1>p, <1>x, <2>1 DEF TcpInv, TcpTypes
  <2> QED BY <2>8, <2>9, <2>10, <2>11 DEF TcpInv
<1>8. CASE Tcp!Over(x)
  <2>0. tcp.streams - 1 = 0 /\ tcp.revs = 0
    BY <1>8, <1>x DEF Tcp!Over
  <2>1. /\ tcp' \in SessionOf /\ tcp'.streams = tcp.streams - 1 /\ tcp'.revs = tcp.revs /\ ~tcp'.started
        /\ tcp'.test = tcp.test /\ tcp'.total = tcp.total
    <3>1. tcp' = [x EXCEPT !.started = FALSE, !.running = FALSE]
      BY <1>0, <1>8 DEF Tcp!Closed
    <3>2. tcp' \in SessionOf
      BY <1>x, <3>1, Zenon DEF SessionOf
    <3> QED BY <1>x, <3>1, <3>2 DEF SessionOf
  <2>2. hands'[c].at = "emit" /\ hands'[c].pay.test = tcp.test /\ hands'[c].pay.total = tcp.total
    BY <1>8, <1>h, <1>m, <1>n, <1>p
  <2>3. Past' = Past \cup {tcp.test}
    BY <1>2, <1>k, <2>1 DEF Past
  <2>4. Streams' = {} /\ Backs' = {} /\ rev[tcp.test] = 0
    <3>1. Cardinality(Streams') = 0 /\ Cardinality(Backs) = 0 /\ rev[tcp.test] = 0
      BY <1>4, <1>r, <2>0, TcpFacts
    <3> QED BY <1>3, <1>4, <3>1, TcpFinite, FS_EmptySet
  <2>5. Tcp!Carried(tcp.test) = tcp.total /\ ended[tcp.test] = {}
    BY <1>2, TcpFacts DEF TcpInv, TotalsTold
  <2>8. ASSUME NEW d \in Handler PROVE Carries(d)'
    <3>1. CASE d = c
      <4>1. \A e \in Handler : hands'[e].pay.test = tcp.test => e = c
        <5>1. ASSUME NEW e \in Handler, e # c PROVE hands[e].pay.test # tcp.test
          BY <1>2 DEF TcpInv, Carries
        <5> QED BY <1>p, <5>1
      <4>2. tcp.test \in Past' /\ hands'[c].pay.total = Tcp!Carried(tcp.test)' /\ ended'[tcp.test] = {}
        <5> PICK t : t = tcp.test
          OBVIOUS
        <5>1. tcp'.test = t
          BY <2>1
        <5> QED BY <1>0, <1>6, <2>2, <2>3, <2>5, <5>1
      <4> QED BY <2>1, <2>2, <3>1, <4>1, <4>2 DEF Carries
    <3>2. CASE d # c
      <4> PICK t : t = hands[d].pay.test
        OBVIOUS
      <4>1. hands'[d] = hands[d] /\ hands'[d].pay.test = t
        BY <1>p, <3>2
      <4>2. CASE t # 0
        <5>1. /\ t \in Past /\ hands[d].pay.total = Tcp!Carried(t) /\ ended[t] = {}
              /\ \A e \in Handler : hands[e].pay.test = t => e = d
          BY <4>2 DEF TcpInv, Carries
        <5>2. t \in Past' /\ hands'[d].pay.total = Tcp!Carried(t)' /\ ended'[t] = {}
          BY <1>0, <1>6, <2>3, <4>1, <5>1
        <5>3. \A e \in Handler : hands'[e].pay.test = t => e = d
          BY <1>2, <1>p, <2>2, <5>1
        <5> QED BY <4>1, <5>2, <5>3 DEF Carries
      <4>3. CASE t = 0
        BY <4>1, <4>3 DEF Carries
      <4> QED BY <4>2, <4>3
    <3> QED BY <3>1, <3>2
  <2>9. ASSUME NEW t \in Tcp!Tests PROVE TotalsTold(t)'
    <3>1. TotalsTold(t) /\ ended'[t] = ended[t] /\ Tcp!Carried(t)' = Tcp!Carried(t)
      BY <1>0, <1>6 DEF TcpInv
    <3>2. CASE ended[t] = {}
      BY <3>1, <3>2 DEF TotalsTold
    <3>3. CASE ended[t] # {}
      <4>1. t \in Past /\ \A e \in Handler : hands[e].pay.test # t
        BY <3>1, <3>3 DEF TotalsTold
      <4>2. t \in Past' /\ t # tcp.test
        BY <1>2, <2>3, <4>1
      <4>3. \A e \in Handler : hands'[e].pay.test # t
        BY <1>p, <2>2, <4>1, <4>2
      <4> QED BY <3>1, <4>2, <4>3 DEF TotalsTold
    <3> QED BY <3>2, <3>3
  <2>10. UnitsCounted'
    <3>1. \A t \in Tcp!Tests : rev[t] = 0
      BY <2>4 DEF TcpInv, UnitsCounted
    <3>2. tcp'.streams = Cardinality(Streams') /\ tcp'.revs = Cardinality(Backs')
      BY <1>4, <1>r, <2>0, <2>1, <2>4, FS_EmptySet
    <3> QED BY <1>0, <1>3, <2>1, <3>1, <3>2, TcpFacts DEF UnitsCounted
  <2>11. ASSUME NEW d \in Handler PROVE Serves(d)'
    <3>1. Serves(d) /\ hands'[d].at \notin Inside
      BY <2>4 DEF TcpInv, Streams
    <3>2. CASE d = c
      BY <1>2, <1>3, <1>k, <2>1, <2>2, <3>1, <3>2 DEF Serves, Inside
    <3>3. CASE d # c
      BY <1>p, <2>1, <3>1, <3>3 DEF Serves, Inside
    <3> QED BY <3>2, <3>3
  <2>12. TcpTypes'
    BY <1>0, <1>p, <2>1 DEF TcpInv, TcpTypes
  <2> QED BY <2>8, <2>9, <2>10, <2>11, <2>12 DEF TcpInv
<1> QED BY <1>7, <1>8

(* The done event of a payload.                                            *)
LEMMA EmitsKeeps ==
  ASSUME TcpCounted, TcpInv, NEW c \in Handler, Tcp!Emits(c)
  PROVE  TcpInv'
<1>0. /\ hands[c].at = "emit" /\ ended' = Tcp!Emitted(hands[c].pay)
      /\ hands' = [hands EXCEPT ![c].at = "end", ![c].pay = Tcp!NoPayload]
      /\ tcp' = tcp /\ rev' = rev /\ halt' = halt
  BY DEF Tcp!Emits
<1>n. Tcp!NoPayload \in [test : Nat, total : Nat] /\ Tcp!NoPayload.test = 0
  BY DEF Tcp!NoPayload
<1>f. /\ hands \in [Handler -> HandlerOf] /\ hands[c] \in HandlerOf /\ tcp \in SessionOf
      /\ tcp.streams \in Int
      /\ tcp.revs \in Int /\ tcp.test \in Nat /\ tcp.total \in Nat /\ tcp.started \in BOOLEAN
  BY TcpFacts
<1> DEFINE g == [hands[c] EXCEPT !.at = "end", !.pay = Tcp!NoPayload]
<1>g. g \in HandlerOf
  BY <1>f, <1>n, Zenon DEF HandlerOf, Inside
<1>h. /\ g.at = "end" /\ g.pay = Tcp!NoPayload /\ g.test = hands[c].test /\ g.got = hands[c].got
      /\ g.first = hands[c].first
  BY <1>f DEF HandlerOf
<1>e. hands' = [hands EXCEPT ![c] = g]
  BY <1>f, <1>0
<1> HIDE DEF g
<1>p. hands' \in [Handler -> HandlerOf] /\ hands'[c] = g /\ \A d \in Handler : d # c => hands'[d] = hands[d]
  BY <1>f, <1>g, <1>e
<1>3. /\ Streams' = Streams /\ Given' = Given /\ Backs' = Backs
      /\ \A d \in Handler : hands'[d].test = hands[d].test /\ hands'[d].got = hands[d].got
  BY <1>0, <1>h, <1>p DEF Streams, Given, Backs, Inside
<1>6. (\A t : Tcp!Carried(t)' = Tcp!Carried(t)) /\ Past' = Past
  BY <1>0, <1>3, CarriedKept DEF Past
<1>7. UnitsCounted' /\ \A d \in Handler : Serves(d)'
  <2>1. UnitsCounted'
    BY <1>0, <1>3, <1>6 DEF TcpInv, UnitsCounted
  <2> QED BY <1>0, <1>h, <1>n, <1>p, <2>1, ServesKept DEF Inside
<1> PICK k : k = hands[c].pay.test
  OBVIOUS
<1>8. CASE k = 0
  <2>1. ended' = ended
    BY <1>0, <1>8 DEF Tcp!Emitted
  <2>2. \A d \in Handler : /\ hands'[d].pay.test = hands[d].pay.test
                           /\ hands[d].pay.test # 0 => hands'[d].pay.total = hands[d].pay.total
    BY <1>8, <1>h, <1>n, <1>p
  <2>3. (\A d \in Handler : Carries(d)') /\ (\A t \in Tcp!Tests : TotalsTold(t)')
    BY <1>6, <2>1, <2>2, ClosedKept
  <2>4. TcpTypes'
    BY <1>0, <1>p, <2>1 DEF TcpInv, TcpTypes
  <2> QED BY <1>7, <2>3, <2>4 DEF TcpInv
<1>9. CASE k # 0
  <2>1. /\ k \in Past /\ k \in Tcp!Tests /\ hands[c].pay.total = Tcp!Carried(k) /\ ended[k] = {}
        /\ \A d \in Handler : hands[d].pay.test = k => d = c
    BY <1>9 DEF TcpInv, Carries, Past
  <2>2. ended' = [ended EXCEPT ![k] = {Tcp!Carried(k)}]
    BY <1>0, <1>9, <2>1, TcpFacts DEF Tcp!Emitted
  <2>3. Tcp!Carried(k) \in Nat
    BY TcpFinite, TcpCardinality DEF Tcp!Carried
  <2>4. /\ ended' \in [Tcp!Tests -> SUBSET Nat] /\ ended'[k] = {Tcp!Carried(k)}
        /\ \A t \in Tcp!Tests : t # k => ended'[t] = ended[t]
    BY <2>1, <2>2, <2>3, TcpFacts
  <2>5. ASSUME NEW d \in Handler PROVE Carries(d)'
    <3>1. CASE d = c
      BY <1>h, <1>n, <1>p, <3>1 DEF Carries
    <3>2. CASE d # c
      <4> PICK t : t = hands[d].pay.test
        OBVIOUS
      <4>1. hands'[d] = hands[d] /\ hands'[d].pay.test = t
        BY <1>p, <3>2
      <4>2. CASE t # 0
        <5>1. /\ t \in Past /\ hands[d].pay.total = Tcp!Carried(t) /\ ended[t] = {}
              /\ \A e \in Handler : hands[e].pay.test = t => e = d
          BY <4>2 DEF TcpInv, Carries
        <5>2. t \in Tcp!Tests /\ t # k
          BY <2>1, <3>2, <5>1 DEF Past
        <5>3. t \in Past' /\ hands'[d].pay.total = Tcp!Carried(t)' /\ ended'[t] = {}
          BY <1>6, <2>4, <4>1, <5>1, <5>2
        <5>4. \A e \in Handler : hands'[e].pay.test = t => e = d
          BY <1>h, <1>n, <1>p, <4>2, <5>1
        <5> QED BY <4>1, <5>3, <5>4 DEF Carries
      <4>3. CASE t = 0
        BY <4>1, <4>3 DEF Carries
      <4> QED BY <4>2, <4>3
    <3> QED BY <3>1, <3>2
  <2>6. ASSUME NEW t \in Tcp!Tests PROVE TotalsTold(t)'
    <3>0. t # 0 /\ Tcp!Carried(t)' = Tcp!Carried(t)
      BY <1>6, TcpFacts
    <3>1. CASE t = k
      <4>1. \A e \in Handler : hands'[e].pay.test # k
        BY <1>9, <1>h, <1>n, <1>p, <2>1
      <4> QED BY <1>6, <2>1, <2>4, <3>0, <3>1, <4>1 DEF TotalsTold
    <3>2. CASE t # k
      <4>1. TotalsTold(t) /\ ended'[t] = ended[t]
        BY <2>4, <3>2 DEF TcpInv
      <4>2. ASSUME ended[t] # {} PROVE t \in Past' /\ \A e \in Handler : hands'[e].pay.test # t
        BY <1>6, <1>h, <1>n, <1>p, <3>0, <4>1, <4>2 DEF TotalsTold
      <4> QED BY <3>0, <4>1, <4>2 DEF TotalsTold
    <3> QED BY <3>1, <3>2
  <2>7. TcpTypes'
    BY <1>0, <1>p, <2>4 DEF TcpInv, TcpTypes
  <2> QED BY <1>7, <2>5, <2>6, <2>7 DEF TcpInv
<1> QED BY <1>8, <1>9

(* A reverse sender ends; the last of all closes the test.                 *)
LEMMA ReverseKeeps ==
  ASSUME TcpCounted, TcpInv, NEW k \in Tcp!Tests, Tcp!ReverseEnds(k)
  PROVE  TcpInv'
<1> DEFINE x == [tcp EXCEPT !.revs = @ - 1]
<1>0. /\ rev[k] > 0 /\ rev' = [rev EXCEPT ![k] = @ - 1]
      /\ tcp' = (IF Tcp!Over(x) THEN Tcp!Closed(x) ELSE x)
      /\ ended' = (IF Tcp!Over(x) THEN Tcp!Emitted(Tcp!Payload(x)) ELSE ended)
      /\ hands' = hands /\ halt' = halt
  BY DEF Tcp!ReverseEnds
<1>k. tcp.test \in Nat /\ tcp \in SessionOf /\ tcp.streams \in Int /\ tcp.total \in Nat /\ tcp.revs \in Int
  BY TcpFacts
<1>x. /\ x \in SessionOf /\ x.streams = tcp.streams /\ x.revs = tcp.revs - 1 /\ x.started = tcp.started
      /\ x.test = tcp.test /\ x.total = tcp.total
  BY <1>k DEF SessionOf
<1> HIDE DEF x
<1>1. rev[k] \in Nat /\ rev[k] - 1 \in Nat /\ k \in Nat /\ k # 0
  BY <1>0, TcpFacts
<1>2. tcp.started /\ tcp.test = k /\ k \notin Past
  BY <1>0, <1>1 DEF TcpInv, UnitsCounted, Past
<1>3. rev' \in [Tcp!Tests -> Nat] /\ rev'[k] = rev[k] - 1 /\ \A t \in Tcp!Tests : t # k => rev'[t] = rev[t]
  BY <1>0, <1>1, TcpFacts
<1>4. Streams' = Streams /\ Given' = Given /\ Backs' = Backs /\ \A t : Tcp!Carried(t)' = Tcp!Carried(t)
  BY <1>0, CarriedKept DEF Streams, Given, Backs
<1>r. /\ tcp.revs = Cardinality(Backs) + rev[k] /\ tcp.streams = Cardinality(Streams)
      /\ Cardinality(Backs) \in Nat /\ Cardinality(Streams) \in Nat
  BY <1>2, TcpFacts
<1>5. \A d \in Handler : ~(hands[d].at = "announce" /\ hands[d].first)
  BY <1>0, <1>2 DEF TcpInv, Serves
<1>6. \A t \in Tcp!Tests : t # k => rev'[t] = 0
  BY <1>2, <1>3 DEF TcpInv, UnitsCounted
<1>7. CASE ~Tcp!Over(x)
  <2>1. tcp' = x /\ ended' = ended
    BY <1>0, <1>7
  <2>2. Past' = Past
    BY <1>x, <2>1 DEF Past
  <2>3. (\A d \in Handler : Carries(d)') /\ (\A t \in Tcp!Tests : TotalsTold(t)')
    BY <1>0, <1>4, <2>1, <2>2, ClosedKept
  <2>4. tcp'.streams + tcp'.revs > 0
    <3>1. ~(tcp.streams = 0 /\ tcp.revs - 1 = 0)
      BY <1>2, <1>7, <1>x DEF Tcp!Over
    <3> QED BY <1>1, <1>r, <1>x, <2>1, <3>1
  <2>5. tcp'.revs = Cardinality(Backs') + IF tcp'.started THEN rev'[tcp'.test] ELSE 0
    <3>1. tcp'.started /\ tcp'.test = k /\ tcp'.revs = tcp.revs - 1
      BY <1>2, <1>x, <2>1
    <3>2. tcp.revs - 1 = Cardinality(Backs) + (rev[k] - 1)
      BY <1>1, <1>r
    <3> QED BY <1>3, <1>4, <3>1, <3>2
  <2>6. \A t \in Tcp!Tests : rev'[t] # 0 => tcp'.started /\ t = tcp'.test
    BY <1>2, <1>6, <1>x, <2>1
  <2>7. UnitsCounted'
    BY <1>4, <1>x, <2>1, <2>4, <2>5, <2>6 DEF TcpInv, UnitsCounted
  <2>8. \A d \in Handler : Serves(d)'
    BY <1>0, <1>5, <1>x, <2>1 DEF TcpInv, Serves
  <2>9. TcpTypes'
    BY <1>0, <1>3, <1>x, <2>1 DEF TcpInv, TcpTypes
  <2> QED BY <2>3, <2>7, <2>8, <2>9 DEF TcpInv
<1>8. CASE Tcp!Over(x)
  <2>0. tcp.streams = 0 /\ tcp.revs - 1 = 0
    BY <1>8, <1>x DEF Tcp!Over
  <2>1. /\ tcp' \in SessionOf /\ tcp'.streams = tcp.streams /\ tcp'.revs = tcp.revs - 1 /\ ~tcp'.started
        /\ tcp'.test = tcp.test /\ tcp'.total = tcp.total
    <3>1. tcp' = [x EXCEPT !.started = FALSE, !.running = FALSE]
      BY <1>0, <1>8 DEF Tcp!Closed
    <3>2. tcp' \in SessionOf
      BY <1>x, <3>1, Zenon DEF SessionOf
    <3> QED BY <1>x, <3>1, <3>2 DEF SessionOf
  <2>3. Past' = Past \cup {k}
    BY <1>2, <1>k, <2>1 DEF Past
  <2>4. Streams = {} /\ Backs = {} /\ rev'[k] = 0
    <3>1. Cardinality(Streams) = 0 /\ Cardinality(Backs) = 0 /\ rev[k] - 1 = 0
      BY <1>0, <1>1, <1>k, <1>r, <2>0
    <3> QED BY <1>3, <3>1, TcpFinite, FS_EmptySet
  <2>5. Tcp!Carried(k) = tcp.total /\ ended[k] = {} /\ \A d \in Handler : hands[d].pay.test # k
    BY <1>1, <1>2, TcpFacts DEF TcpInv, TotalsTold, Carries
  <2>6. /\ ended' \in [Tcp!Tests -> SUBSET Nat] /\ ended'[k] = {Tcp!Carried(k)}
        /\ \A t \in Tcp!Tests : t # k => ended'[t] = ended[t]
    <3>1. ended' = [ended EXCEPT ![k] = {tcp.total}]
      BY <1>0, <1>1, <1>2, <1>8, <1>x, <2>5, TcpFacts DEF Tcp!Emitted, Tcp!Payload
    <3> QED BY <1>k, <2>5, <3>1, TcpFacts
  <2>7. ASSUME NEW d \in Handler PROVE Carries(d)'
    <3> PICK t : t = hands[d].pay.test
      OBVIOUS
    <3>1. hands'[d].pay.test = t
      BY <1>0
    <3>2. CASE t # 0
      <4>1. /\ t \in Past /\ hands[d].pay.total = Tcp!Carried(t) /\ ended[t] = {}
            /\ \A e \in Handler : hands[e].pay.test = t => e = d
        BY <3>2 DEF TcpInv, Carries
      <4>2. t \in Tcp!Tests /\ t # k /\ t \in Past'
        BY <2>3, <2>5, <4>1 DEF Past
      <4>3. /\ hands'[d].pay.total = Tcp!Carried(t)' /\ ended'[t] = {}
            /\ \A e \in Handler : hands'[e].pay.test = t => e = d
        BY <1>0, <1>4, <2>6, <4>1, <4>2
      <4> QED BY <3>1, <4>2, <4>3 DEF Carries
    <3>3. CASE t = 0
      BY <3>1, <3>3 DEF Carries
    <3> QED BY <3>2, <3>3
  <2>8. ASSUME NEW t \in Tcp!Tests PROVE TotalsTold(t)'
    <3>0. TotalsTold(t) /\ Tcp!Carried(t)' = Tcp!Carried(t)
      BY <1>4 DEF TcpInv
    <3>1. CASE t = k
      BY <1>0, <2>3, <2>5, <2>6, <3>0, <3>1 DEF TotalsTold
    <3>2. CASE t # k
      BY <1>0, <2>3, <2>6, <3>0, <3>2 DEF TotalsTold
    <3> QED BY <3>1, <3>2
  <2>9. UnitsCounted'
    <3>1. \A t \in Tcp!Tests : rev'[t] = 0
      BY <1>6, <2>4
    <3>2. tcp'.streams = Cardinality(Streams') /\ tcp'.revs = Cardinality(Backs')
      BY <1>4, <1>r, <2>0, <2>1, <2>4, FS_EmptySet
    <3>3. tcp'.test <= Cardinality(Given')
      BY <1>4, <2>1, TcpFacts
    <3>4. Cardinality(Backs') \in Nat
      BY <1>4, <1>r
    <3> QED BY <2>1, <3>1, <3>2, <3>3, <3>4 DEF UnitsCounted
  <2>10. ASSUME NEW d \in Handler PROVE Serves(d)'
    <3>1. Serves(d) /\ hands'[d] = hands[d] /\ hands[d].at \notin Inside
      BY <1>0, <2>4 DEF TcpInv, Streams
    <3> QED BY <2>1, <3>1 DEF Serves, Inside
  <2>11. TcpTypes'
    BY <1>0, <1>3, <2>1, <2>6 DEF TcpInv, TcpTypes
  <2> QED BY <2>7, <2>8, <2>9, <2>10, <2>11 DEF TcpInv
<1> QED BY <1>7, <1>8

(* No connection was accepted.                                             *)
LEMMA TcpStarts == TcpCounted /\ Tcp!Init => TcpInv
<1> SUFFICES ASSUME TcpCounted, Tcp!Init PROVE TcpInv
  OBVIOUS
<1>1. TcpTypes
  <2>1. [at |-> "none", mode |-> "normal", test |-> 0, got |-> 0, first |-> FALSE, pay |-> Tcp!NoPayload]
          \in HandlerOf
    BY DEF HandlerOf, Tcp!NoPayload, Tcp!Modes, TcpCounted
  <2>2. hands \in [Handler -> HandlerOf]
    BY <2>1 DEF Tcp!Init
  <2>3. tcp \in SessionOf
    BY DEF Tcp!Init, SessionOf, Tcp!Modes
  <2> QED BY <2>2, <2>3 DEF Tcp!Init, TcpTypes
<1>2. \A c \in Handler : hands[c].at = "none" /\ hands[c].test = 0 /\ hands[c].got = 0 /\ hands[c].pay.test = 0
  BY DEF Tcp!Init, Tcp!NoPayload
<1>3. Streams = {} /\ Backs = {} /\ Given = {}
  BY <1>2 DEF Streams, Backs, Given, Inside
<1>4. tcp.streams = 0 /\ tcp.revs = 0 /\ ~tcp.started /\ tcp.test = 0
  BY DEF Tcp!Init
<1>5. UnitsCounted
  BY <1>3, <1>4, FS_EmptySet DEF UnitsCounted, Tcp!Init
<1>6. \A c \in Handler : Serves(c) /\ Carries(c)
  BY <1>2, <1>4 DEF Serves, Carries, Inside
<1>7. \A t \in Tcp!Tests : TotalsTold(t)
  BY DEF TotalsTold, Tcp!Init
<1> QED BY <1>1, <1>5, <1>6, <1>7 DEF TcpInv

(* Every step of the server keeps it; the client's do not touch it.        *)
LEMMA TcpStep == TcpCounted /\ TcpInv /\ [Tcp!Next]_(Tcp!itvars) => TcpInv'
<1> SUFFICES ASSUME TcpCounted, TcpInv, [Tcp!Next]_(Tcp!itvars) PROVE TcpInv'
  OBVIOUS
<1>1. ASSUME NEW c \in Handler, Tcp!Accept(c) \/ Tcp!ShakeFails(c) \/ Tcp!PeerLeaves(c) \/ Tcp!StallEnds(c) PROVE TcpInv'
  BY <1>1, MoveKeeps
<1>2. ASSUME NEW c \in Handler, Tcp!Counts(c) PROVE TcpInv'
  BY <1>2, CountsKeeps
<1>3. ASSUME NEW c \in Handler, Tcp!Announces(c) PROVE TcpInv'
  BY <1>3, AnnouncesKeeps
<1>4. ASSUME NEW c \in Handler, Tcp!SendsBack(c) PROVE TcpInv'
  BY <1>4, SendsBackKeeps
<1>5. ASSUME NEW c \in Handler, Tcp!SentBack(c) PROVE TcpInv'
  BY <1>5, SentBackKeeps
<1>6. ASSUME NEW c \in Handler, Tcp!Leaves(c) PROVE TcpInv'
  BY <1>6, LeavesKeeps
<1>7. ASSUME NEW c \in Handler, Tcp!Emits(c) PROVE TcpInv'
  BY <1>7, EmitsKeeps
<1>8. ASSUME NEW c \in Handler, Tcp!Receives(c) PROVE TcpInv'
  BY <1>8, ReceivesKeeps
<1>9. ASSUME NEW t \in Tcp!Tests, Tcp!ReverseEnds(t) PROVE TcpInv'
  BY <1>9, ReverseKeeps
<1>10. CASE Tcp!Tick \/ Tcp!Stops
  BY <1>10, TickKeeps
<1>11. CASE hands' = hands /\ tcp' = tcp /\ rev' = rev /\ ended' = ended /\ halt' = halt
  <2>1. Streams' = Streams /\ Backs' = Backs /\ Given' = Given /\ Past' = Past
    BY <1>11 DEF Streams, Backs, Given, Past
  <2>2. \A t : Tcp!Carried(t)' = Tcp!Carried(t)
    BY <1>11, CarriedKept
  <2>3. UnitsCounted'
    BY <1>11, <2>1, <2>2 DEF TcpInv, UnitsCounted
  <2>4. (\A d \in Handler : Carries(d)') /\ (\A t \in Tcp!Tests : TotalsTold(t)')
    BY <1>11, <2>1, <2>2, ClosedKept
  <2> QED BY <1>11, <2>3, <2>4 DEF TcpInv, TcpTypes, Serves
<1>12. CASE Tcp!ClientNext
  <2>1. UNCHANGED <<hands, tcp, rev, ended, halt>>
    BY <1>12 DEF Tcp!ClientNext, Tcp!ClientRuns, Tcp!ClientStops, Tcp!ChoosesDual, Tcp!MainEnds,
       Tcp!MainReports, Tcp!Connects,
                 Tcp!SendEnds, Tcp!Sends, Tcp!ClientOnly
  <2> QED BY <1>11, <2>1
<1>13. CASE UNCHANGED Tcp!itvars
  BY <1>11, <1>13 DEF Tcp!itvars
<1> QED BY <1>1, <1>2, <1>3, <1>4, <1>5, <1>6, <1>7, <1>8, <1>9, <1>10, <1>12, <1>13
        DEF Tcp!Next, Tcp!ServerNext, Tcp!HandlerRuns

(* A test is closed once, with what its connections received.              *)
LEMMA TestsAccountedBy == TcpInv => Tcp!TestsAccounted
<1> SUFFICES ASSUME TcpInv, NEW t \in Tcp!Tests
             PROVE  /\ ended[t] \subseteq {Tcp!Carried(t)}
                    /\ ended[t] # {} => ~(tcp.started /\ tcp.test = t) /\ ~Tcp!Pending(t) /\ rev[t] = 0
  BY DEF Tcp!TestsAccounted
<1>1. TotalsTold(t)
  BY DEF TcpInv
<1>2. ended[t] # {} => t \in Past /\ \A c \in Handler : hands[c].pay.test # t
  BY <1>1 DEF TotalsTold
<1> QED BY <1>1, <1>2 DEF TotalsTold, Past, Tcp!Pending, TcpInv, UnitsCounted

-----------------------------------------------------------------------------
(* The UDP tests of iperf 2 *)

ReportOf == [packets : Int, lost : Int, seq : Int]
StateOf == [seq : Int, first : Int, acc : [packets : Int, lost : Int, high : Int]]
WindowOf == [report : ReportOf, retries : Int]
ClientOf == [at : {"send", "fin", "told", "untold", "aborted"}, next : 1..(MaxSent + 1),
             fins : Nat, report : ReportOf \cup {None}, late : Nat]

(* No client, no report and no closing window is none.                     *)
UdpCounted ==
  /\ MaxSent \in Nat /\ MaxReports \in Nat
  /\ None \notin ReportOf /\ None \notin StateOf /\ None \notin WindowOf

UdpTypes ==
  /\ cl \in [Peer -> ClientOf]
  /\ net \in [Peer -> Seq(Int)]
  /\ back \in [Peer -> Seq(ReportOf)]
  /\ clients \in [Peer -> StateOf \cup {None}]
  /\ closing \in [Peer -> WindowOf \cup {None}]
  /\ seq \in Nat
  /\ events \in [started : SUBSET Int, done : SUBSET Int]
  /\ loop \in [at : {"run", "end"}, abort : BOOLEAN, active : BOOLEAN]

(* Every test has a number of its own.                                     *)
Paired ==
  /\ Udp!TestsPaired
  /\ \A p, q \in Udp!Busy : clients[p].seq = clients[q].seq => p = q

(* What a client c that was never overtaken has on its way, n: numbers that*)
(* it has sent and that rise above what the server has recorded in x.      *)
Rising(c, n, x) ==
  c.late = 0 =>
    /\ \A i \in 1..Len(n) : n[i] > 0 =>
         /\ n[i] < c.next
         /\ x # None => x.acc.high < n[i]
         /\ \A j \in 1..Len(n) : i < j /\ n[j] > 0 => n[i] < n[j]
    /\ x # None =>
         /\ x.first > 0 /\ x.first <= x.acc.high /\ x.acc.high < c.next
         /\ x.acc.packets + x.acc.lost = x.acc.high - x.first + 1

(* A report belongs to a test that was announced as done, and its figures  *)
(* are within what was sent.                                               *)
Figures(late, D, r) == r.seq \in D /\ (late = 0 => r.packets + r.lost <= MaxSent)

(* So do those on their way, that of the closing window and the client's.  *)
Reported(p) ==
  LET ok(r) == Figures(cl[p].late, events.done, r)
  IN  /\ \A i \in 1..Len(back[p]) : ok(back[p][i])
      /\ closing[p] # None => ok(closing[p].report)
      /\ cl[p].report # None => ok(cl[p].report)

UdpInv ==
  /\ UdpTypes /\ Paired
  /\ \A p \in Peer : Rising(cl[p], net[p], clients[p]) /\ Reported(p)

----------------------------------------------------------------------------
(* A datagram taken from the head leaves the rest in order.                *)
LEMMA RisingTail ==
  ASSUME NEW c, NEW n \in Seq(Int), NEW x, Rising(c, n, x), n # <<>>
  PROVE  Rising(c, Tail(n), x)
<1>1. Len(Tail(n)) = Len(n) - 1 /\ Len(n) \in Nat /\ \A i \in 1..Len(Tail(n)) : Tail(n)[i] = n[i + 1]
  OBVIOUS
<1>2. \A i \in 1..Len(Tail(n)) : i + 1 \in 1..Len(n)
  BY <1>1
<1> QED BY <1>1, <1>2 DEF Rising

(* A client that is closed has nothing recorded.                           *)
LEMMA RisingClosed ==
  ASSUME NEW c, NEW n, NEW x, Rising(c, n, x)
  PROVE  Rising(c, n, None)
  BY DEF Rising

(* The next number is above all that is on its way; a FIN does not count.  *)
LEMMA RisingAppend ==
  ASSUME NEW c, NEW d, NEW n \in Seq(Int), NEW x, NEW k \in Int, Rising(c, n, x),
         c.next \in Int, d.next \in Int, d.late = c.late, c.next <= d.next,
         x # None => x.acc.high \in Int,
         k > 0 => k >= c.next /\ k < d.next
  PROVE  Rising(d, Append(n, k), x) /\ Rising(d, n, x)
<1>1. /\ Len(Append(n, k)) = Len(n) + 1 /\ Len(n) \in Nat
      /\ \A i \in 1..Len(n) : Append(n, k)[i] = n[i] /\ n[i] \in Int
      /\ Append(n, k)[Len(n) + 1] = k
  OBVIOUS
<1>2. \A i \in 1..(Len(n) + 1) : i \in 1..Len(n) \/ i = Len(n) + 1
  BY <1>1
<1>3. Rising(d, n, x)
  BY <1>1 DEF Rising
<1>4. ASSUME d.late = 0, NEW i \in 1..(Len(n) + 1), Append(n, k)[i] > 0
      PROVE  /\ Append(n, k)[i] < d.next
             /\ x # None => x.acc.high < Append(n, k)[i]
             /\ \A j \in 1..(Len(n) + 1) : i < j /\ Append(n, k)[j] > 0 => Append(n, k)[i] < Append(n, k)[j]
  <2>1. CASE i = Len(n) + 1
    BY <1>1, <1>4, <2>1 DEF Rising
  <2>2. CASE i \in 1..Len(n)
    <3>1. n[i] < c.next /\ (x # None => x.acc.high < n[i])
      BY <1>1, <1>4, <2>2 DEF Rising
    <3>2. ASSUME NEW j \in 1..(Len(n) + 1), i < j, Append(n, k)[j] > 0
          PROVE  Append(n, k)[i] < Append(n, k)[j]
      <4>1. CASE j = Len(n) + 1
        BY <1>1, <2>2, <3>1, <3>2, <4>1
      <4>2. CASE j \in 1..Len(n)
        BY <1>1, <1>4, <2>2, <3>2, <4>2 DEF Rising
      <4> QED BY <1>2, <4>1, <4>2
    <3> QED BY <1>1, <2>2, <3>1, <3>2
  <2> QED BY <1>2, <2>1, <2>2
<1> QED BY <1>1, <1>3, <1>4 DEF Rising

(* The datagram at the head is recorded; or it opens a test.               *)
LEMMA RisingRecord ==
  ASSUME UdpCounted, NEW c, NEW n \in Seq(Int), NEW x \in StateOf, n # <<>>, Head(n) > 0,
         Rising(c, n, x), c.next \in Int
  PROVE  LET y == [x EXCEPT !.acc = Udp!Record(@, Head(n))]
         IN  y \in StateOf /\ y.seq = x.seq /\ Rising(c, Tail(n), y)
<1> DEFINE y == [x EXCEPT !.acc = Udp!Record(@, Head(n))]
<1>1. /\ Len(Tail(n)) = Len(n) - 1 /\ Len(n) \in Nat /\ Len(n) > 0 /\ Head(n) = n[1] /\ Head(n) \in Int
      /\ \A i \in 1..Len(Tail(n)) : Tail(n)[i] = n[i + 1]
  OBVIOUS
<1>2. /\ x.acc.packets \in Int /\ x.acc.lost \in Int /\ x.acc.high \in Int /\ x.first \in Int /\ x.seq \in Int
      /\ x.acc \in [packets : Int, lost : Int, high : Int] /\ x # None
  BY DEF StateOf, UdpCounted
<1>3. y.acc = Udp!Record(x.acc, Head(n)) /\ y.seq = x.seq /\ y.first = x.first
  BY DEF StateOf
<1>4. Udp!Record(x.acc, Head(n)) \in [packets : Int, lost : Int, high : Int]
  BY <1>1, <1>2 DEF Udp!Record
<1>5. y \in StateOf
  BY <1>4 DEF StateOf
<1>6. y # None
  BY <1>5 DEF UdpCounted
<1>7. ASSUME c.late = 0
      PROVE  /\ x.first > 0 /\ x.first <= x.acc.high /\ x.acc.high < c.next
             /\ x.acc.packets + x.acc.lost = x.acc.high - x.first + 1
             /\ x.acc.high < Head(n) /\ Head(n) < c.next
  BY <1>1, <1>2, <1>7 DEF Rising
<1>8. ASSUME c.late = 0
      PROVE  /\ y.acc.high = Head(n) /\ y.acc.packets = x.acc.packets + 1
             /\ y.acc.lost = x.acc.lost + (Head(n) - x.acc.high - 1)
  BY <1>1, <1>2, <1>3, <1>7, <1>8 DEF Udp!Record
<1>9. ASSUME c.late = 0, NEW i \in 1..Len(Tail(n)), Tail(n)[i] > 0
      PROVE  y.acc.high < Tail(n)[i]
  <2>1. i + 1 \in 1..Len(n) /\ 1 \in 1..Len(n) /\ 1 < i + 1
    BY <1>1
  <2> QED BY <1>1, <1>8, <1>9, <2>1 DEF Rising
<1>10. Rising(c, Tail(n), x)
  BY RisingTail
<1> HIDE DEF y
<1>11. Rising(c, Tail(n), y)
  <2>1. ASSUME c.late = 0
        PROVE  /\ y.first > 0 /\ y.first <= y.acc.high /\ y.acc.high < c.next
               /\ y.acc.packets + y.acc.lost = y.acc.high - y.first + 1
    <3>1. Head(n) \in Int
      BY <1>1
    <3>2. /\ y.first = x.first /\ x.first \in Int /\ x.acc.high \in Int /\ x.acc.packets \in Int
          /\ x.acc.lost \in Int
      BY <1>2, <1>3
    <3>3. /\ y.acc.high = Head(n) /\ y.acc.packets = x.acc.packets + 1
          /\ y.acc.lost = x.acc.lost + (Head(n) - x.acc.high - 1)
      BY <1>8, <2>1
    <3>4. /\ x.first > 0 /\ x.first <= x.acc.high /\ x.acc.high < c.next
          /\ x.acc.packets + x.acc.lost = x.acc.high - x.first + 1
          /\ x.acc.high < Head(n) /\ Head(n) < c.next
      BY <1>7, <2>1
    <3>5. y.first > 0
      BY <3>2, <3>4
    <3>6. y.first <= y.acc.high
      BY <3>1, <3>2, <3>3, <3>4
    <3>7. y.acc.high < c.next
      BY <3>1, <3>3, <3>4
    <3>8. y.acc.packets + y.acc.lost = y.acc.high - y.first + 1
      <4> DEFINE a == x.acc.packets
                 b == x.acc.lost
                 h == x.acc.high
                 f == x.first
                 k == Head(n)
      <4>1. a \in Int /\ b \in Int /\ h \in Int /\ f \in Int /\ k \in Int /\ a + b = h - f + 1
        BY <3>1, <3>2, <3>4
      <4>2. y.acc.high = k /\ y.acc.packets = a + 1 /\ y.acc.lost = b + (k - h - 1) /\ y.first = f
        BY <3>2, <3>3
      <4> HIDE DEF a, b, h, f, k
      <4>3. (a + 1) + (b + (k - h - 1)) = k - f + 1
        BY <4>1
      <4> QED BY <4>2, <4>3
    <3> QED BY <3>5, <3>6, <3>7, <3>8
  <2> QED BY <1>2, <1>9, <1>10, <2>1 DEF Rising
<1> QED BY <1>3, <1>5, <1>11 DEF y

(* A first datagram opens a record of its own.                             *)
LEMMA RisingOpened ==
  ASSUME UdpCounted, NEW c, NEW n \in Seq(Int), NEW s \in Nat, n # <<>>, Head(n) > 0,
         Rising(c, n, None), c.next \in Int
  PROVE  LET y == [seq |-> s, first |-> Head(n), acc |-> Udp!Record(Udp!Empty, Head(n))]
         IN  y \in StateOf /\ Rising(c, Tail(n), y)
<1> DEFINE y == [seq |-> s, first |-> Head(n), acc |-> Udp!Record(Udp!Empty, Head(n))]
<1>1. /\ Len(Tail(n)) = Len(n) - 1 /\ Len(n) \in Nat /\ Len(n) > 0 /\ Head(n) = n[1] /\ Head(n) \in Int
      /\ \A i \in 1..Len(Tail(n)) : Tail(n)[i] = n[i + 1]
  OBVIOUS
<1>3. y.acc = Udp!Record(Udp!Empty, Head(n)) /\ y.seq = s /\ y.first = Head(n)
  OBVIOUS
<1>4. Udp!Record(Udp!Empty, Head(n)) = [packets |-> 1, lost |-> 0, high |-> Head(n)]
  BY <1>1 DEF Udp!Record, Udp!Empty
<1>5. y \in StateOf
  BY <1>1, <1>4 DEF StateOf
<1>8. y.acc.high = Head(n) /\ y.acc.packets = 1 /\ y.acc.lost = 0
  BY <1>3, <1>4
<1>9. ASSUME c.late = 0, NEW i \in 1..Len(Tail(n)), Tail(n)[i] > 0
      PROVE  y.acc.high < Tail(n)[i]
  <2>1. i + 1 \in 1..Len(n) /\ 1 \in 1..Len(n) /\ 1 < i + 1
    BY <1>1
  <2> QED BY <1>1, <1>8, <1>9, <2>1 DEF Rising
<1>10. Rising(c, Tail(n), None)
  BY RisingTail
<1> HIDE DEF y
<1>11. Rising(c, Tail(n), y)
  <2>1. ASSUME c.late = 0
        PROVE  /\ y.first > 0 /\ y.first <= y.acc.high /\ y.acc.high < c.next
               /\ y.acc.packets + y.acc.lost = y.acc.high - y.first + 1
    BY <1>1, <1>3, <1>8, <2>1 DEF Rising
  <2> QED BY <1>9, <1>10, <2>1 DEF Rising
<1> QED BY <1>5, <1>11 DEF y

(* What a step of one client leaves in order.                              *)
LEMMA ClientKeeps ==
  ASSUME UdpCounted, UdpInv, UNCHANGED Udp!ServerSide, NEW p \in Peer,
         cl' \in [Peer -> ClientOf], net' \in [Peer -> Seq(Int)], back' \in [Peer -> Seq(ReportOf)],
         \A r \in Peer : r # p => cl'[r] = cl[r] /\ net'[r] = net[r] /\ back'[r] = back[r],
         cl'[p].late = 0 => cl[p].late = 0,
         \/ cl'[p].report = cl[p].report /\ back'[p] = back[p]
         \/ back[p] # <<>> /\ cl'[p].report = Head(back[p]) /\ back'[p] = Tail(back[p]),
         Rising(cl'[p], net'[p], clients[p])
  PROVE  UdpInv'
<1>1. clients' = clients /\ closing' = closing /\ seq' = seq /\ events' = events /\ loop' = loop
  BY DEF Udp!ServerSide
<1>2. UdpTypes'
  BY <1>1 DEF UdpInv, UdpTypes
<1>3. Paired'
  <2>1. Udp!Busy' = Udp!Busy /\ Udp!Numbers' = Udp!Numbers
    BY <1>1 DEF Udp!Busy, Udp!Numbers
  <2> QED BY <1>1, <2>1 DEF UdpInv, Paired, Udp!TestsPaired
<1>4. ASSUME NEW r \in Peer PROVE Rising(cl'[r], net'[r], clients'[r])
  BY <1>1 DEF UdpInv
<1>5. ASSUME NEW r \in Peer PROVE Reported(r)'
  <2>0. Reported(r) /\ back[r] \in Seq(ReportOf)
    BY DEF UdpInv, UdpTypes
  <2>1. CASE r # p
    <3>1. cl'[r] = cl[r] /\ back'[r] = back[r]
      BY <2>1
    <3> QED BY <1>1, <2>0, <3>1 DEF Reported
  <2>2. CASE r = p /\ cl'[p].report = cl[p].report /\ back'[p] = back[p]
    BY <1>1, <2>0, <2>2 DEF Reported, Figures
  <2>3. CASE r = p /\ back[p] # <<>> /\ cl'[p].report = Head(back[p]) /\ back'[p] = Tail(back[p])
    <3> DEFINE b == back[p]
    <3>1. /\ Len(Tail(b)) = Len(b) - 1 /\ Len(b) \in Nat /\ Len(b) > 0 /\ Head(b) = b[1]
          /\ \A i \in 1..Len(Tail(b)) : Tail(b)[i] = b[i + 1] /\ i + 1 \in 1..Len(b)
      BY <2>0, <2>3
    <3>2. 1 \in 1..Len(b)
      BY <3>1
    <3>3. \A i \in 1..Len(b) : Figures(cl[p].late, events.done, b[i])
      BY <2>0, <2>3 DEF Reported
    <3> HIDE DEF b
    <3>4. back'[p] = Tail(b) /\ cl'[p].report = Head(b)
      BY <2>3 DEF b
    <3>5. \A i \in 1..Len(b) : Figures(cl'[p].late, events.done, b[i])
      BY <3>3 DEF Figures
    <3>6. \A i \in 1..Len(back'[p]) : Figures(cl'[p].late, events.done, back'[p][i])
      BY <3>1, <3>4, <3>5
    <3>7. Figures(cl'[p].late, events.done, cl'[p].report)
      BY <3>1, <3>2, <3>4, <3>5
    <3>8. closing'[p] # None => Figures(cl'[p].late, events.done, closing'[p].report)
      BY <1>1, <2>0, <2>3 DEF Reported, Figures
    <3> QED BY <1>1, <2>3, <3>6, <3>7, <3>8 DEF Reported
  <2> QED BY <2>1, <2>2, <2>3
<1> QED BY <1>2, <1>3, <1>4, <1>5 DEF UdpInv

(* The client sends, ends, waits and is overtaken.                         *)
LEMMA ClientStep ==
  ASSUME UdpCounted, UdpInv, NEW p \in Peer,
         Udp!Send(p) \/ Udp!SendEnds(p) \/ Udp!SendFin(p) \/ Udp!TakeReport(p) \/ Udp!FinTimesOut(p) \/ Udp!Overtaken(p)
  PROVE  UdpInv'
<1>0. /\ cl \in [Peer -> ClientOf] /\ net \in [Peer -> Seq(Int)] /\ back \in [Peer -> Seq(ReportOf)]
      /\ clients \in [Peer -> StateOf \cup {None}]
      /\ Rising(cl[p], net[p], clients[p]) /\ MaxSent \in Nat /\ net[p] \in Seq(Int)
      /\ back[p] \in Seq(ReportOf)
  BY DEF UdpInv, UdpTypes, UdpCounted
<1>1. /\ cl[p] \in ClientOf /\ cl[p].next \in 1..(MaxSent + 1) /\ cl[p].next \in Int /\ cl[p].fins \in Nat
      /\ cl[p].late \in Nat /\ cl[p].report \in ReportOf \cup {None}
      /\ (clients[p] # None => clients[p].acc.high \in Int)
  BY <1>0 DEF ClientOf, StateOf
<1>2. CASE Udp!Send(p)
  <2>1. UNCHANGED Udp!ServerSide /\ back' = back /\ cl[p].next <= MaxSent
    BY <1>2 DEF Udp!Send
  <2>2. /\ cl' \in [Peer -> ClientOf] /\ \A r \in Peer : r # p => cl'[r] = cl[r]
        /\ cl'[p] = [cl[p] EXCEPT !.next = cl[p].next + 1]
    <3>1. cl' = [cl EXCEPT ![p] = [cl[p] EXCEPT !.next = cl[p].next + 1]]
      BY <1>0, <1>2 DEF Udp!Send, ClientOf
    <3>2. cl[p].next + 1 \in 1..(MaxSent + 1)
      BY <1>0, <1>1, <2>1
    <3>3. [cl[p] EXCEPT !.next = cl[p].next + 1] \in ClientOf
      BY <1>1, <3>2 DEF ClientOf
    <3> QED BY <1>0, <3>1, <3>3
  <2>3. cl'[p].next = cl[p].next + 1 /\ cl'[p].late = cl[p].late /\ cl'[p].report = cl[p].report
    BY <1>1, <2>2 DEF ClientOf
  <2>4. Rising(cl'[p], Append(net[p], cl[p].next), clients[p]) /\ Rising(cl'[p], net[p], clients[p])
    <3>1. /\ cl'[p].next \in Int /\ cl[p].next <= cl'[p].next
          /\ (cl[p].next > 0 => cl[p].next >= cl[p].next /\ cl[p].next < cl'[p].next)
      BY <1>1, <2>3
    <3> QED BY <1>0, <1>1, <2>3, <3>1, RisingAppend
  <2>5. CASE net' = [net EXCEPT ![p] = Append(@, cl[p].next)]
    <3>1. Append(net[p], cl[p].next) \in Seq(Int)
      BY <1>0, <1>1
    <3>2. /\ net' \in [Peer -> Seq(Int)] /\ net'[p] = Append(net[p], cl[p].next)
          /\ \A r \in Peer : r # p => net'[r] = net[r]
      BY <1>0, <2>5, <3>1
    <3> QED BY <1>0, <2>1, <2>2, <2>3, <2>4, <3>2, ClientKeeps
  <2>6. CASE net' = net
    BY <1>0, <2>1, <2>2, <2>3, <2>4, <2>6, ClientKeeps
  <2> QED BY <1>2, <2>5, <2>6 DEF Udp!Send
<1>3. CASE Udp!SendEnds(p) \/ Udp!FinTimesOut(p)
  <2>1. UNCHANGED Udp!ServerSide /\ back' = back /\ net' = net
    BY <1>3 DEF Udp!SendEnds, Udp!FinTimesOut
  <2> PICK a \in {"aborted", "fin", "untold"} : cl' = [cl EXCEPT ![p].at = a]
    BY <1>3 DEF Udp!SendEnds, Udp!FinTimesOut
  <2>2. /\ cl' \in [Peer -> ClientOf] /\ \A r \in Peer : r # p => cl'[r] = cl[r]
        /\ cl'[p] = [cl[p] EXCEPT !.at = a]
    <3>1. [cl[p] EXCEPT !.at = a] \in ClientOf
      BY <1>1, Zenon DEF ClientOf
    <3>2. cl' = [cl EXCEPT ![p] = [cl[p] EXCEPT !.at = a]]
      BY <1>0
    <3> QED BY <1>0, <3>1, <3>2
  <2>3. cl'[p].next = cl[p].next /\ cl'[p].late = cl[p].late /\ cl'[p].report = cl[p].report
    BY <1>1, <2>2 DEF ClientOf
  <2>4. Rising(cl'[p], net'[p], clients[p])
    BY <1>0, <2>1, <2>3 DEF Rising
  <2> QED BY <1>0, <2>1, <2>2, <2>3, <2>4, ClientKeeps
<1>4. CASE Udp!SendFin(p)
  <2>1. UNCHANGED Udp!ServerSide /\ back' = back
    BY <1>4 DEF Udp!SendFin
  <2>2. /\ cl' \in [Peer -> ClientOf] /\ \A r \in Peer : r # p => cl'[r] = cl[r]
        /\ cl'[p] = [cl[p] EXCEPT !.fins = cl[p].fins + 1]
    <3>1. cl' = [cl EXCEPT ![p] = [cl[p] EXCEPT !.fins = cl[p].fins + 1]]
      BY <1>0, <1>4 DEF Udp!SendFin
    <3>3. [cl[p] EXCEPT !.fins = cl[p].fins + 1] \in ClientOf
      BY <1>1 DEF ClientOf
    <3> QED BY <1>0, <3>1, <3>3
  <2>3. cl'[p].next = cl[p].next /\ cl'[p].late = cl[p].late /\ cl'[p].report = cl[p].report
    BY <1>1, <2>2 DEF ClientOf
  <2>f. Udp!FinNumber(p) \in Int /\ ~(Udp!FinNumber(p) > 0)
    BY <1>1 DEF Udp!FinNumber, Udp!Last
  <2>4. Rising(cl'[p], Append(net[p], Udp!FinNumber(p)), clients[p]) /\ Rising(cl'[p], net[p], clients[p])
    <3>1. /\ cl'[p].next \in Int /\ cl[p].next <= cl'[p].next
          /\ (Udp!FinNumber(p) > 0 => Udp!FinNumber(p) >= cl[p].next /\ Udp!FinNumber(p) < cl'[p].next)
      BY <1>1, <2>3, <2>f
    <3> QED BY <1>0, <1>1, <2>3, <2>f, <3>1, RisingAppend
  <2>5. CASE net' = [net EXCEPT ![p] = Append(@, Udp!FinNumber(p))]
    <3>1. Append(net[p], Udp!FinNumber(p)) \in Seq(Int)
      BY <1>0, <2>f
    <3>2. /\ net' \in [Peer -> Seq(Int)] /\ net'[p] = Append(net[p], Udp!FinNumber(p))
          /\ \A r \in Peer : r # p => net'[r] = net[r]
      BY <1>0, <2>5, <3>1
    <3> QED BY <1>0, <2>1, <2>2, <2>3, <2>4, <3>2, ClientKeeps
  <2>6. CASE net' = net
    BY <1>0, <2>1, <2>2, <2>3, <2>4, <2>6, ClientKeeps
  <2> QED BY <1>4, <2>5, <2>6 DEF Udp!SendFin
<1>5. CASE Udp!TakeReport(p)
  <2> DEFINE r == Head(back[p])
  <2>1. UNCHANGED Udp!ServerSide /\ net' = net /\ back[p] # <<>>
    BY <1>5 DEF Udp!TakeReport
  <2>0. r \in ReportOf /\ Tail(back[p]) \in Seq(ReportOf)
    BY <1>0, <2>1
  <2>2. /\ cl' \in [Peer -> ClientOf] /\ \A q \in Peer : q # p => cl'[q] = cl[q]
        /\ cl'[p] = [cl[p] EXCEPT !.at = "told", !.report = r]
    <3>1. cl' = [cl EXCEPT ![p] = [cl[p] EXCEPT !.at = "told", !.report = r]]
      BY <1>0, <1>5 DEF Udp!TakeReport
    <3> HIDE DEF r
    <3>3. [cl[p] EXCEPT !.at = "told", !.report = r] \in ClientOf
      BY <1>1, <2>0, Zenon DEF ClientOf
    <3> QED BY <1>0, <3>1, <3>3
  <2>3. cl'[p].next = cl[p].next /\ cl'[p].late = cl[p].late /\ cl'[p].report = r
    BY <1>1, <2>2 DEF ClientOf
  <2>4. Rising(cl'[p], net'[p], clients[p])
    BY <1>0, <2>1, <2>3 DEF Rising
  <2>5. /\ back' \in [Peer -> Seq(ReportOf)] /\ back'[p] = Tail(back[p])
        /\ \A q \in Peer : q # p => back'[q] = back[q]
    BY <1>0, <1>5, <2>0 DEF Udp!TakeReport
  <2> QED BY <1>0, <2>1, <2>2, <2>3, <2>4, <2>5, ClientKeeps
<1>6. CASE Udp!Overtaken(p)
  <2>1. UNCHANGED Udp!ServerSide /\ back' = back /\ Len(net[p]) >= 2
    BY <1>6 DEF Udp!Overtaken
  <2>2. /\ cl' \in [Peer -> ClientOf] /\ \A q \in Peer : q # p => cl'[q] = cl[q]
        /\ cl'[p] = [cl[p] EXCEPT !.late = cl[p].late + 1]
    <3>1. cl' = [cl EXCEPT ![p] = [cl[p] EXCEPT !.late = cl[p].late + 1]]
      BY <1>0, <1>6 DEF Udp!Overtaken
    <3>3. [cl[p] EXCEPT !.late = cl[p].late + 1] \in ClientOf
      BY <1>1 DEF ClientOf
    <3> QED BY <1>0, <3>1, <3>3
  <2>3. cl'[p].late = cl[p].late + 1 /\ cl'[p].report = cl[p].report
    BY <1>1, <2>2 DEF ClientOf
  <2>4. cl'[p].late # 0
    BY <1>1, <2>3
  <2>5. net' \in [Peer -> Seq(Int)] /\ \A q \in Peer : q # p => net'[q] = net[q]
    <3> DEFINE n == <<net[p][2], net[p][1]>> \o SubSeq(net[p], 3, Len(net[p]))
    <3>1. net[p][1] \in Int /\ net[p][2] \in Int /\ Len(net[p]) \in Nat
      BY <1>0, <2>1
    <3>2. <<net[p][2], net[p][1]>> \in Seq(Int)
      BY <3>1
    <3>3. SubSeq(net[p], 3, Len(net[p])) \in Seq(Int)
      BY <1>0, <3>1, SubSeqProperties
    <3>4. n \in Seq(Int)
      BY <3>2, <3>3, ConcatProperties
    <3>5. net' = [net EXCEPT ![p] = n]
      BY <1>0, <1>6 DEF Udp!Overtaken
    <3> QED BY <1>0, <3>4, <3>5
  <2>6. Rising(cl'[p], net'[p], clients[p])
    BY <2>4 DEF Rising
  <2> QED BY <2>1, <2>2, <2>3, <2>4, <2>5, <2>6, <1>0, ClientKeeps
<1> QED BY <1>2, <1>3, <1>4, <1>5, <1>6

(* Closing some of the open clients keeps it: their numbers are done, and  *)
(* what they are told is within what was sent.                             *)
LEMMA FinalizeKeeps ==
  ASSUME UdpCounted, UdpInv, NEW P \in SUBSET Udp!Busy, Udp!Finalize(P), cl' = cl, seq' = seq,
         net' \in [Peer -> Seq(Int)],
         \A r \in Peer : net'[r] = net[r] \/ (net[r] # <<>> /\ net'[r] = Tail(net[r])),
         loop' \in [at : {"run", "end"}, abort : BOOLEAN, active : BOOLEAN],
         loop'.active = (Udp!Busy \ P # {})
  PROVE  UdpInv'
<1>0. /\ cl \in [Peer -> ClientOf] /\ net \in [Peer -> Seq(Int)] /\ back \in [Peer -> Seq(ReportOf)]
      /\ clients \in [Peer -> StateOf \cup {None}] /\ closing \in [Peer -> WindowOf \cup {None}]
      /\ events \in [started : SUBSET Int, done : SUBSET Int] /\ seq \in Nat
      /\ None \notin WindowOf /\ MaxReports \in Int /\ MaxSent \in Nat
      /\ Paired /\ \A r \in Peer : Rising(cl[r], net[r], clients[r]) /\ Reported(r)
  BY DEF UdpInv, UdpTypes, UdpCounted
<1>b. \A r \in P : r \in Peer /\ r \in Udp!Busy /\ clients[r] # None /\ clients[r] \in StateOf
  BY <1>0 DEF Udp!Busy
<1> DEFINE D == events.done \cup {clients[r].seq : r \in P}
<1>1. /\ events' \in [started : SUBSET Int, done : SUBSET Int]
      /\ events'.started = events.started /\ events'.done = D
  <2>1. {clients[r].seq : r \in P} \subseteq Int
    BY <1>b DEF StateOf
  <2>2. events' = [events EXCEPT !.done = D]
    BY DEF Udp!Finalize
  <2> QED BY <1>0, <2>1, <2>2
<1>2. \A r \in P : Udp!Report(clients[r]) \in ReportOf /\ Figures(cl[r].late, D, Udp!Report(clients[r]))
  <2> TAKE r \in P
  <2>1. /\ clients[r].seq \in Int /\ clients[r].first \in Int /\ clients[r].acc.packets \in Int
        /\ clients[r].acc.lost \in Int /\ clients[r].acc.high \in Int
    BY <1>b DEF StateOf
  <2>2. /\ Udp!Report(clients[r]).packets = clients[r].acc.packets
        /\ Udp!Report(clients[r]).lost = clients[r].acc.lost
        /\ Udp!Report(clients[r]).seq = clients[r].seq
    BY DEF Udp!Report
  <2>3. Udp!Report(clients[r]) \in ReportOf
    BY <2>1 DEF Udp!Report, ReportOf
  <2>4. cl[r].next \in 1..(MaxSent + 1)
    BY <1>0, <1>b DEF ClientOf
  <2>5. ASSUME cl[r].late = 0
        PROVE  /\ clients[r].first > 0 /\ clients[r].acc.high < cl[r].next
               /\ clients[r].acc.packets + clients[r].acc.lost = clients[r].acc.high - clients[r].first + 1
    BY <1>0, <1>b, <2>5 DEF Rising
  <2>6. ASSUME cl[r].late = 0
        PROVE  clients[r].acc.packets + clients[r].acc.lost <= MaxSent
    <3>1. MaxSent \in Nat
      BY <1>0
    <3> QED BY <2>1, <2>4, <2>5, <2>6, <3>1
  <2> QED BY <2>2, <2>3, <2>6 DEF Figures
<1>3. clients' = [r \in Peer |-> IF r \in P THEN None ELSE clients[r]]
  BY DEF Udp!Finalize
<1>4. /\ clients' \in [Peer -> StateOf \cup {None}] /\ Udp!Busy' = Udp!Busy \ P
      /\ \A r \in Peer : clients'[r] = IF r \in P THEN None ELSE clients[r]
  BY <1>0, <1>3 DEF Udp!Busy
<1>5. /\ closing' \in [Peer -> WindowOf \cup {None}]
      /\ \A r \in Peer : IF r \in P THEN closing'[r].report = Udp!Report(clients[r]) ELSE closing'[r] = closing[r]
  <2>1. closing' = [r \in Peer |->
          IF r \in P THEN [report |-> Udp!Report(clients[r]), retries |-> MaxReports]
                     ELSE closing[r]]
    BY DEF Udp!Finalize
  <2>2. \A r \in P : [report |-> Udp!Report(clients[r]), retries |-> MaxReports] \in WindowOf
    BY <1>0, <1>2 DEF WindowOf
  <2> QED BY <1>0, <2>1, <2>2
<1>6. /\ back' \in [Peer -> Seq(ReportOf)]
      /\ \A r \in Peer : back'[r] = back[r] \/ (r \in P /\ back'[r] = Append(back[r], Udp!Report(clients[r])))
  <2> PICK L \in SUBSET P :
         back' = [r \in Peer |-> IF r \in P \ L THEN Append(back[r], Udp!Report(clients[r])) ELSE back[r]]
    BY DEF Udp!Finalize
  <2>1. ASSUME NEW r \in P PROVE Append(back[r], Udp!Report(clients[r])) \in Seq(ReportOf)
    <3>1. back[r] \in Seq(ReportOf) /\ Udp!Report(clients[r]) \in ReportOf
      BY <1>0, <1>2, <1>b
    <3> DEFINE b == back[r]
               z == Udp!Report(clients[r])
    <3> HIDE DEF b, z
    <3>2. Append(b, z) \in Seq(ReportOf)
      BY <3>1 DEF b, z
    <3> QED BY <3>2 DEF b, z
  <2> QED BY <1>0, <2>1
<1> HIDE DEF D
<1>7. UdpTypes'
  BY <1>0, <1>1, <1>4, <1>5, <1>6 DEF UdpTypes
<1>8. Paired'
  <2>1. /\ events.started = Udp!Numbers /\ events.done \subseteq events.started
        /\ Udp!Numbers \ events.done = {clients[r].seq : r \in Udp!Busy} /\ Udp!Numbers' = Udp!Numbers
        /\ \A p, q \in Udp!Busy : clients[p].seq = clients[q].seq => p = q
    BY <1>0 DEF Paired, Udp!TestsPaired, Udp!Numbers
  <2>2. \A r \in Udp!Busy' : r \in Udp!Busy /\ r \notin P /\ clients'[r] = clients[r]
    BY <1>4 DEF Udp!Busy
  <2>3. D = events.done \cup {clients[r].seq : r \in P}
    BY DEF D
  <2>4. D \subseteq Udp!Numbers
    BY <1>b, <2>1, <2>3
  <2>5. ASSUME NEW k \in Udp!Numbers, k \notin D PROVE k \in {clients'[r].seq : r \in Udp!Busy'}
    <3>1. PICK r \in Udp!Busy : clients[r].seq = k
      BY <2>1, <2>3, <2>5
    <3>2. r \notin P
      BY <2>3, <2>5, <3>1
    <3>3. r \in Udp!Busy'
      BY <1>4, <3>2
    <3> QED BY <2>2, <3>1, <3>3
  <2>6. ASSUME NEW r \in Udp!Busy' PROVE clients'[r].seq \in Udp!Numbers \ D
    <3>1. r \in Udp!Busy /\ r \notin P /\ clients'[r].seq = clients[r].seq
      BY <2>2
    <3>2. clients[r].seq \in Udp!Numbers \ events.done
      BY <2>1, <3>1
    <3>3. \A q \in P : clients[q].seq # clients[r].seq
      BY <1>b, <2>1, <3>1
    <3> QED BY <2>3, <3>1, <3>2, <3>3
  <2>7. (Udp!Numbers \ events.done)' = {clients[r].seq : r \in Udp!Busy}'
    BY <1>1, <2>1, <2>5, <2>6
  <2>8. (events.started = Udp!Numbers /\ events.done \subseteq events.started)'
    BY <1>1, <2>1, <2>4
  <2>9. (loop.active = (Udp!Busy # {}))'
    BY <1>4
  <2>10. \A p, q \in Udp!Busy' : clients'[p].seq = clients'[q].seq => p = q
    BY <2>1, <2>2
  <2> QED BY <2>7, <2>8, <2>9, <2>10 DEF Paired, Udp!TestsPaired
<1>9. ASSUME NEW r \in Peer PROVE Rising(cl'[r], net'[r], clients'[r])
  <2>1. Rising(cl[r], net[r], clients'[r])
    <3>1. Rising(cl[r], net[r], clients[r]) /\ Rising(cl[r], net[r], None)
      BY <1>0, RisingClosed
    <3> QED BY <1>4, <3>1
  <2>2. CASE net'[r] = net[r]
    BY <2>1, <2>2
  <2>3. CASE net[r] # <<>> /\ net'[r] = Tail(net[r])
    <3>1. net[r] \in Seq(Int)
      BY <1>0
    <3>2. Rising(cl[r], Tail(net[r]), clients'[r])
      BY <2>1, <2>3, <3>1, RisingTail
    <3> QED BY <2>3, <3>2
  <2> QED BY <2>2, <2>3
<1>10. ASSUME NEW r \in Peer PROVE Reported(r)'
  <2>0. back[r] \in Seq(ReportOf) /\ Reported(r) /\ cl'[r] = cl[r]
    BY <1>0
  <2>1. \A x : Figures(cl[r].late, events.done, x) => Figures(cl[r].late, D, x)
    BY DEF Figures, D
  <2>2. \A i \in 1..Len(back[r]) : Figures(cl[r].late, D, back[r][i])
    BY <2>0, <2>1 DEF Reported
  <2>3. \A i \in 1..Len(back'[r]) : Figures(cl[r].late, D, back'[r][i])
    <3>1. CASE back'[r] = back[r]
      BY <2>2, <3>1
    <3>2. CASE r \in P /\ back'[r] = Append(back[r], Udp!Report(clients[r]))
      <4>1. Udp!Report(clients[r]) \in ReportOf /\ Figures(cl[r].late, D, Udp!Report(clients[r]))
        BY <1>2, <3>2 DEF D
      <4> DEFINE b == back[r]
                 z == Udp!Report(clients[r])
      <4>2. /\ Len(Append(b, z)) = Len(b) + 1 /\ Len(b) \in Nat /\ Append(b, z)[Len(b) + 1] = z
            /\ \A i \in 1..Len(b) : Append(b, z)[i] = b[i]
        BY <2>0, <4>1
      <4>3. \A i \in 1..(Len(b) + 1) : i \in 1..Len(b) \/ i = Len(b) + 1
        BY <4>2
      <4> QED BY <2>2, <3>2, <4>1, <4>2, <4>3
    <3> QED BY <1>6, <3>1, <3>2
  <2>4. closing'[r] # None => Figures(cl[r].late, D, closing'[r].report)
    BY <1>2, <1>5, <2>0, <2>1 DEF Reported, D
  <2>5. cl[r].report # None => Figures(cl[r].late, D, cl[r].report)
    BY <2>0, <2>1 DEF Reported
  <2> QED BY <1>1, <2>0, <2>3, <2>4, <2>5 DEF Reported
<1> QED BY <1>7, <1>8, <1>9, <1>10 DEF UdpInv

(* So does a FIN that is answered from the closing window, or drained.     *)
LEMMA AnswerKeeps ==
  ASSUME UdpCounted, UdpInv, UNCHANGED <<cl, clients, seq, events, loop>>,
         net' \in [Peer -> Seq(Int)], back' \in [Peer -> Seq(ReportOf)],
         closing' \in [Peer -> WindowOf \cup {None}],
         \A r \in Peer : net'[r] = net[r] \/ (net[r] # <<>> /\ net'[r] = Tail(net[r])),
         \A r \in Peer : closing'[r] # None =>
            closing[r] # None /\ closing'[r].report = closing[r].report,
         \A r \in Peer : \/ back'[r] = back[r]
                         \/ closing[r] # None /\ back'[r] = Append(back[r], closing[r].report)
  PROVE  UdpInv'
<1>0. /\ net \in [Peer -> Seq(Int)] /\ back \in [Peer -> Seq(ReportOf)]
      /\ closing \in [Peer -> WindowOf \cup {None}]
      /\ \A r \in Peer : Rising(cl[r], net[r], clients[r]) /\ Reported(r)
      /\ cl' = cl /\ clients' = clients /\ seq' = seq /\ events' = events /\ loop' = loop
  BY DEF UdpInv, UdpTypes
<1>1. UdpTypes'
  BY <1>0 DEF UdpInv, UdpTypes
<1>2. Paired'
  <2>1. Udp!Busy' = Udp!Busy /\ Udp!Numbers' = Udp!Numbers
    BY <1>0 DEF Udp!Busy, Udp!Numbers
  <2> QED BY <1>0, <2>1 DEF UdpInv, Paired, Udp!TestsPaired
<1>3. ASSUME NEW r \in Peer PROVE Rising(cl'[r], net'[r], clients'[r])
  BY <1>0, RisingTail
<1>4. ASSUME NEW r \in Peer PROVE Reported(r)'
  <2>0. back[r] \in Seq(ReportOf) /\ Reported(r) /\ (closing[r] # None => closing[r].report \in ReportOf)
    BY <1>0 DEF WindowOf
  <2>2. \A i \in 1..Len(back[r]) : Figures(cl[r].late, events.done, back[r][i])
    BY <2>0 DEF Reported
  <2>3. \A i \in 1..Len(back'[r]) : Figures(cl[r].late, events.done, back'[r][i])
    <3>1. CASE back'[r] = back[r]
      BY <2>2, <3>1
    <3>2. CASE closing[r] # None /\ back'[r] = Append(back[r], closing[r].report)
      <4> DEFINE b == back[r]
                 z == closing[r].report
      <4>1. Figures(cl[r].late, events.done, z) /\ z \in ReportOf
        BY <2>0, <3>2 DEF Reported
      <4>2. /\ Len(Append(b, z)) = Len(b) + 1 /\ Len(b) \in Nat /\ Append(b, z)[Len(b) + 1] = z
            /\ \A i \in 1..Len(b) : Append(b, z)[i] = b[i]
        BY <2>0, <4>1
      <4>3. \A i \in 1..(Len(b) + 1) : i \in 1..Len(b) \/ i = Len(b) + 1
        <5>1. ASSUME NEW n \in Nat PROVE \A i \in 1..(n + 1) : i \in 1..n \/ i = n + 1
          OBVIOUS
        <5> QED BY <4>2, <5>1
      <4> QED BY <2>2, <3>2, <4>1, <4>2, <4>3
    <3> QED BY <3>1, <3>2
  <2>4. closing'[r] # None => Figures(cl[r].late, events.done, closing'[r].report)
    BY <2>0 DEF Reported
  <2> QED BY <1>0, <2>0, <2>3, <2>4 DEF Reported
<1> QED BY <1>1, <1>2, <1>3, <1>4 DEF UdpInv

(* A datagram is recorded, or opens the next test.                         *)
LEMMA DataKeeps ==
  ASSUME UdpCounted, UdpInv, NEW p \in Peer, Udp!Data(p)
  PROVE  UdpInv'
<1>0. /\ cl \in [Peer -> ClientOf] /\ net \in [Peer -> Seq(Int)] /\ back \in [Peer -> Seq(ReportOf)]
      /\ clients \in [Peer -> StateOf \cup {None}] /\ closing \in [Peer -> WindowOf \cup {None}]
      /\ events \in [started : SUBSET Int, done : SUBSET Int] /\ seq \in Nat
      /\ loop \in [at : {"run", "end"}, abort : BOOLEAN, active : BOOLEAN]
      /\ MaxSent \in Nat /\ None \notin StateOf
      /\ Paired /\ \A r \in Peer : Rising(cl[r], net[r], clients[r]) /\ Reported(r)
  BY DEF UdpInv, UdpTypes, UdpCounted
<1> DEFINE n == net[p]
           h == Head(net[p])
<1>1. /\ n \in Seq(Int) /\ n # <<>> /\ h > 0 /\ cl' = cl /\ back' = back
      /\ net' = [net EXCEPT ![p] = Tail(n)] /\ cl[p].next \in Int /\ Rising(cl[p], n, clients[p])
  BY <1>0 DEF Udp!Data, ClientOf
<1>2. h \in Int /\ Tail(n) \in Seq(Int)
  BY <1>1
<1>3. /\ net' \in [Peer -> Seq(Int)] /\ net'[p] = Tail(n) /\ \A r \in Peer : r # p => net'[r] = net[r]
  BY <1>0, <1>1, <1>2
<1>4. CASE clients[p] # None
  <2> DEFINE y == [clients[p] EXCEPT !.acc = Udp!Record(@, h)]
  <2>1. clients' = [clients EXCEPT ![p].acc = Udp!Record(@, h)] /\ UNCHANGED <<closing, seq, events, loop>>
    BY <1>4 DEF Udp!Data
  <2>2. clients[p] \in StateOf
    BY <1>0, <1>4
  <2>3. y \in StateOf /\ y.seq = clients[p].seq /\ Rising(cl[p], Tail(n), y)
    BY <1>1, <2>2, RisingRecord
  <2>4. clients' = [clients EXCEPT ![p] = y]
    BY <1>0, <2>1
  <2> HIDE DEF y
  <2>5. /\ clients' \in [Peer -> StateOf \cup {None}] /\ clients'[p] = y /\ y # None
        /\ \A r \in Peer : r # p => clients'[r] = clients[r]
    BY <1>0, <2>3, <2>4
  <2>6. UdpTypes'
    BY <1>0, <1>1, <1>3, <2>1, <2>5 DEF UdpTypes
  <2>7. Paired'
    <3>1. Udp!Busy' = Udp!Busy /\ Udp!Numbers' = Udp!Numbers
      BY <1>4, <2>1, <2>5 DEF Udp!Busy, Udp!Numbers
    <3>2. \A r \in Udp!Busy : clients'[r].seq = clients[r].seq
      BY <2>3, <2>5 DEF Udp!Busy
    <3>3. {clients[r].seq : r \in Udp!Busy}' = {clients[r].seq : r \in Udp!Busy}
      BY <3>1, <3>2
    <3>4. events' = events /\ loop' = loop
      BY <2>1
    <3>5. /\ Udp!TestsPaired /\ \A q, r \in Udp!Busy : clients[q].seq = clients[r].seq => q = r
      BY <1>0 DEF Paired
    <3>6. Udp!TestsPaired'
      BY <3>1, <3>3, <3>4, <3>5 DEF Udp!TestsPaired
    <3>7. \A q, r \in Udp!Busy' : clients'[q].seq = clients'[r].seq => q = r
      BY <3>1, <3>2, <3>5
    <3> QED BY <3>6, <3>7 DEF Paired
  <2>8. ASSUME NEW r \in Peer PROVE Rising(cl'[r], net'[r], clients'[r])
    BY <1>0, <1>1, <1>3, <2>3, <2>5
  <2>9. ASSUME NEW r \in Peer PROVE Reported(r)'
    BY <1>0, <1>1, <2>1 DEF Reported
  <2> QED BY <2>6, <2>7, <2>8, <2>9 DEF UdpInv
<1>5. CASE clients[p] = None
  <2> DEFINE y == [seq |-> seq + 1, first |-> h, acc |-> Udp!Record(Udp!Empty, h)]
  <2>1. /\ clients' = [clients EXCEPT ![p] = y] /\ closing' = [closing EXCEPT ![p] = None]
        /\ seq' = seq + 1 /\ events' = [events EXCEPT !.started = @ \cup {seq + 1}]
        /\ loop' = [loop EXCEPT !.active = TRUE]
    BY <1>5 DEF Udp!Data
  <2>2. seq + 1 \in Nat
    BY <1>0
  <2>3. y \in StateOf /\ Rising(cl[p], Tail(n), y)
    BY <1>1, <1>5, <2>2, RisingOpened
  <2>4. y.seq = seq + 1
    OBVIOUS
  <2> HIDE DEF y
  <2>5. /\ clients' \in [Peer -> StateOf \cup {None}] /\ clients'[p] = y /\ y # None
        /\ \A r \in Peer : r # p => clients'[r] = clients[r]
    BY <1>0, <2>1, <2>3
  <2>51. /\ closing' \in [Peer -> WindowOf \cup {None}] /\ closing'[p] = None
         /\ \A r \in Peer : r # p => closing'[r] = closing[r]
    BY <1>0, <2>1
  <2>52. /\ events' \in [started : SUBSET Int, done : SUBSET Int]
         /\ events'.started = events.started \cup {seq + 1} /\ events'.done = events.done
    <3>1. events.started \cup {seq + 1} \in SUBSET Int /\ events.done \in SUBSET Int
      BY <1>0
    <3>2. events' = [events EXCEPT !.started = events.started \cup {seq + 1}]
      BY <2>1
    <3> QED BY <1>0, <3>1, <3>2
  <2>53. loop' \in [at : {"run", "end"}, abort : BOOLEAN, active : BOOLEAN] /\ loop'.active = TRUE
    BY <1>0, <2>1
  <2>6. UdpTypes'
    BY <1>0, <1>1, <1>3, <2>1, <2>2, <2>5, <2>51, <2>52, <2>53 DEF UdpTypes
  <2>7. Paired'
    <3>0. /\ events.started = Udp!Numbers /\ events.done \subseteq events.started
          /\ Udp!Numbers \ events.done = {clients[r].seq : r \in Udp!Busy}
          /\ \A q, r \in Udp!Busy : clients[q].seq = clients[r].seq => q = r
      BY <1>0 DEF Paired, Udp!TestsPaired
    <3>1. Udp!Numbers' = Udp!Numbers \cup {seq + 1} /\ seq + 1 \notin Udp!Numbers
      BY <1>0, <2>1 DEF Udp!Numbers
    <3>2. Udp!Busy' = Udp!Busy \cup {p} /\ p \notin Udp!Busy
      BY <1>5, <2>5 DEF Udp!Busy
    <3>3. \A r \in Udp!Busy : clients'[r] = clients[r] /\ r # p /\ clients[r].seq # seq + 1
      BY <2>5, <3>0, <3>1, <3>2 DEF Udp!Busy
    <3>4. clients'[p].seq = seq + 1
      BY <2>4, <2>5
    <3>5. {clients[r].seq : r \in Udp!Busy}' = {clients[r].seq : r \in Udp!Busy} \cup {seq + 1}
      BY <3>2, <3>3, <3>4
    <3>6. \A q, r \in Udp!Busy' : clients'[q].seq = clients'[r].seq => q = r
      BY <3>0, <3>2, <3>3, <3>4
    <3>7. seq + 1 \notin events.done
      BY <3>0, <3>1
    <3>8. (Udp!Numbers \ events.done)' = (Udp!Numbers \ events.done) \cup {seq + 1}
      BY <2>52, <3>1, <3>7
    <3>9. (events.started = Udp!Numbers /\ events.done \subseteq events.started)'
      BY <2>52, <3>0, <3>1
    <3>10. (loop.active = (Udp!Busy # {}))'
      BY <2>53, <3>2
    <3>11. (Udp!Numbers \ events.done = {clients[r].seq : r \in Udp!Busy})'
      BY <3>0, <3>5, <3>8
    <3> QED BY <3>6, <3>9, <3>10, <3>11 DEF Paired, Udp!TestsPaired
  <2>8. ASSUME NEW r \in Peer PROVE Rising(cl'[r], net'[r], clients'[r])
    BY <1>0, <1>1, <1>3, <2>3, <2>5
  <2>9. ASSUME NEW r \in Peer PROVE Reported(r)'
    <3>1. Reported(r) /\ closing'[r] \in {None, closing[r]}
      BY <1>0, <2>51
    <3> QED BY <1>1, <2>52, <3>1 DEF Reported
  <2> QED BY <2>6, <2>7, <2>8, <2>9 DEF UdpInv
<1> QED BY <1>4, <1>5

(* A FIN closes the client, is answered from its window, or is drained.    *)
LEMMA FinKeeps ==
  ASSUME UdpCounted, UdpInv, NEW p \in Peer, Udp!Fin(p)
  PROVE  UdpInv'
<1>0. /\ net \in [Peer -> Seq(Int)] /\ back \in [Peer -> Seq(ReportOf)]
      /\ closing \in [Peer -> WindowOf \cup {None}]
      /\ loop \in [at : {"run", "end"}, abort : BOOLEAN, active : BOOLEAN]
      /\ loop.active = (Udp!Busy # {})
  BY DEF UdpInv, UdpTypes, Paired, Udp!TestsPaired
<1>1. /\ net[p] \in Seq(Int) /\ net[p] # <<>> /\ net' = [net EXCEPT ![p] = Tail(@)]
      /\ cl' = cl /\ seq' = seq
  BY <1>0 DEF Udp!Fin
<1>2. Tail(net[p]) \in Seq(Int)
  BY <1>1
<1>3. /\ net' \in [Peer -> Seq(Int)]
      /\ \A r \in Peer : net'[r] = net[r] \/ (net[r] # <<>> /\ net'[r] = Tail(net[r]))
  BY <1>0, <1>1, <1>2
<1>4. CASE clients[p] # None /\ Udp!Finalize({p}) /\ IF Udp!Busy = {p} THEN Udp!Marks({}) ELSE UNCHANGED loop
  <2>1. p \in Udp!Busy /\ {p} \in SUBSET Udp!Busy
    BY <1>4 DEF Udp!Busy
  <2>2. /\ loop' \in [at : {"run", "end"}, abort : BOOLEAN, active : BOOLEAN]
        /\ loop'.active = (Udp!Busy \ {p} # {})
    <3>1. CASE Udp!Busy = {p}
      <4>1. loop' = [loop EXCEPT !.active = FALSE]
        BY <1>4, <3>1 DEF Udp!Marks
      <4> QED BY <1>0, <3>1, <4>1
    <3>2. CASE Udp!Busy # {p}
      <4>1. loop' = loop /\ Udp!Busy \ {p} # {}
        BY <1>4, <2>1, <3>2
      <4> QED BY <1>0, <2>1, <4>1
    <3> QED BY <3>1, <3>2
  <2> QED BY <1>1, <1>3, <1>4, <2>1, <2>2, FinalizeKeeps
<1>5. CASE /\ closing[p] # None
           /\ closing' = [closing EXCEPT ![p].retries = @ - 1]
           /\ \/ back' = [back EXCEPT ![p] = Append(@, closing[p].report)]
              \/ UNCHANGED back
           /\ UNCHANGED <<clients, events, loop>>
  <2> DEFINE w == [closing[p] EXCEPT !.retries = @ - 1]
  <2>1. closing[p] \in WindowOf /\ closing[p].report \in ReportOf
    BY <1>0, <1>5 DEF WindowOf
  <2>2. w \in WindowOf /\ w.report = closing[p].report
    BY <2>1 DEF WindowOf
  <2>3. closing' = [closing EXCEPT ![p] = w]
    BY <1>0, <1>5
  <2> HIDE DEF w
  <2>4. /\ closing' \in [Peer -> WindowOf \cup {None}]
        /\ \A r \in Peer : closing'[r] # None =>
              closing[r] # None /\ closing'[r].report = closing[r].report
    <3>1. /\ closing' \in [Peer -> WindowOf \cup {None}] /\ closing'[p] = w
          /\ \A r \in Peer : r # p => closing'[r] = closing[r]
      BY <1>0, <2>2, <2>3
    <3> QED BY <1>5, <2>2, <3>1
  <2>5. Append(back[p], closing[p].report) \in Seq(ReportOf)
    <3> DEFINE b == back[p]
               z == closing[p].report
    <3>1. b \in Seq(ReportOf) /\ z \in ReportOf
      BY <1>0, <2>1
    <3> HIDE DEF b, z
    <3>2. Append(b, z) \in Seq(ReportOf)
      BY <3>1
    <3> QED BY <3>2 DEF b, z
  <2>6. /\ back' \in [Peer -> Seq(ReportOf)]
        /\ \A r \in Peer : \/ back'[r] = back[r]
                           \/ closing[r] # None /\ back'[r] = Append(back[r], closing[r].report)
    <3>1. CASE back' = [back EXCEPT ![p] = Append(@, closing[p].report)]
      <4> DEFINE b == Append(back[p], closing[p].report)
      <4>1. back' = [back EXCEPT ![p] = b] /\ b \in Seq(ReportOf)
        BY <1>0, <2>5, <3>1
      <4>2. b = Append(back[p], closing[p].report) /\ closing[p] # None
        BY <1>5
      <4> HIDE DEF b
      <4>3. back' \in [Peer -> Seq(ReportOf)] /\ back'[p] = b /\ \A r \in Peer : r # p => back'[r] = back[r]
        BY <1>0, <4>1
      <4>4. ASSUME NEW r \in Peer
            PROVE  \/ back'[r] = back[r]
                   \/ closing[r] # None /\ back'[r] = Append(back[r], closing[r].report)
        BY <4>2, <4>3, Zenon
      <4> QED BY <4>3, <4>4
    <3>2. CASE back' = back
      <4>1. \A r \in Peer : back'[r] = back[r]
        BY <3>2
      <4> QED BY <1>0, <3>2, <4>1, Zenon
    <3> QED BY <1>5, <3>1, <3>2
  <2>7. UNCHANGED <<cl, clients, seq, events, loop>>
    BY <1>1, <1>5
  <2> QED BY <1>3, <2>4, <2>6, <2>7, AnswerKeeps
<1>6. CASE UNCHANGED <<back, clients, closing, events, loop>>
  <2>0. UNCHANGED <<cl, clients, seq, events, loop>>
    BY <1>1, <1>6
  <2>1. back' \in [Peer -> Seq(ReportOf)] /\ closing' \in [Peer -> WindowOf \cup {None}]
    BY <1>0, <1>6
  <2>2. \A r \in Peer : \/ back'[r] = back[r]
                        \/ closing[r] # None /\ back'[r] = Append(back[r], closing[r].report)
    BY <1>6
  <2>3. \A r \in Peer : closing'[r] # None => closing[r] # None /\ closing'[r].report = closing[r].report
    BY <1>6
  <2> QED BY <1>3, <2>0, <2>1, <2>2, <2>3, AnswerKeeps
<1> QED BY <1>4, <1>5, <1>6 DEF Udp!Fin

(* The server's other steps.                                               *)
LEMMA LoopKeeps ==
  ASSUME UdpCounted, UdpInv, Udp!Sweep \/ Udp!Abort \/ Udp!LoopEnds \/ \E p \in Peer : Udp!WindowEnds(p)
  PROVE  UdpInv'
<1>0. /\ net \in [Peer -> Seq(Int)] /\ back \in [Peer -> Seq(ReportOf)]
      /\ closing \in [Peer -> WindowOf \cup {None}]
      /\ loop \in [at : {"run", "end"}, abort : BOOLEAN, active : BOOLEAN]
  BY DEF UdpInv, UdpTypes
<1>1. CASE Udp!Sweep
  <2> PICK P \in SUBSET Udp!Idle : Udp!Finalize(P) /\ Udp!Marks(Udp!Busy \ P)
    BY <1>1 DEF Udp!Sweep
  <2>1. P \in SUBSET Udp!Busy
    BY DEF Udp!Idle
  <2>2. loop' = [loop EXCEPT !.active = (Udp!Busy \ P # {})]
    BY DEF Udp!Marks
  <2>3. /\ loop' \in [at : {"run", "end"}, abort : BOOLEAN, active : BOOLEAN]
        /\ loop'.active = (Udp!Busy \ P # {})
    BY <1>0, <2>2
  <2>4. cl' = cl /\ net' = net /\ seq' = seq
    BY <1>1 DEF Udp!Sweep
  <2> QED BY <1>0, <2>1, <2>3, <2>4, FinalizeKeeps
<1>2. CASE Udp!LoopEnds
  <2>1. loop' = [loop EXCEPT !.at = "end", !.active = FALSE] /\ Udp!Finalize(Udp!Busy)
        /\ cl' = cl /\ net' = net /\ seq' = seq
    BY <1>2 DEF Udp!LoopEnds
  <2>2. /\ loop' \in [at : {"run", "end"}, abort : BOOLEAN, active : BOOLEAN]
        /\ loop'.active = (Udp!Busy \ Udp!Busy # {}) /\ Udp!Busy \in SUBSET Udp!Busy
    BY <1>0, <2>1
  <2> QED BY <1>0, <2>1, <2>2, FinalizeKeeps
<1>3. CASE Udp!Abort
  <2>1. /\ loop' \in [at : {"run", "end"}, abort : BOOLEAN, active : BOOLEAN]
        /\ loop'.active = loop.active
    BY <1>0, <1>3 DEF Udp!Abort
  <2>2. UNCHANGED <<cl, net, back, clients, closing, seq, events>>
    BY <1>3 DEF Udp!Abort
  <2>3. Udp!Busy' = Udp!Busy /\ Udp!Numbers' = Udp!Numbers
    BY <2>2 DEF Udp!Busy, Udp!Numbers
  <2>4. UdpTypes'
    BY <2>1, <2>2 DEF UdpInv, UdpTypes
  <2>5. Paired'
    BY <2>1, <2>2, <2>3 DEF UdpInv, Paired, Udp!TestsPaired
  <2>6. \A r \in Peer : Reported(r)'
    BY <2>2 DEF UdpInv, Reported
  <2>7. \A r \in Peer : Rising(cl[r], net[r], clients[r])'
    BY <2>2 DEF UdpInv
  <2> QED BY <2>4, <2>5, <2>6, <2>7 DEF UdpInv
<1>4. ASSUME NEW p \in Peer, Udp!WindowEnds(p) PROVE UdpInv'
  <2>1. closing' = [closing EXCEPT ![p] = None] /\ UNCHANGED <<cl, net, back, clients, seq, events, loop>>
    BY <1>4 DEF Udp!WindowEnds
  <2>2. /\ closing' \in [Peer -> WindowOf \cup {None}]
        /\ \A r \in Peer : closing'[r] # None =>
              closing[r] # None /\ closing'[r].report = closing[r].report
    BY <1>0, <2>1
  <2>3. UNCHANGED <<cl, clients, seq, events, loop>>
    BY <2>1
  <2>4. /\ net' \in [Peer -> Seq(Int)] /\ back' \in [Peer -> Seq(ReportOf)]
        /\ \A r \in Peer : net'[r] = net[r] \/ (net[r] # <<>> /\ net'[r] = Tail(net[r]))
    BY <1>0, <2>1
  <2>5. \A r \in Peer : \/ back'[r] = back[r]
                        \/ closing[r] # None /\ back'[r] = Append(back[r], closing[r].report)
    BY <2>1
  <2> QED BY <2>2, <2>3, <2>4, <2>5, AnswerKeeps
<1> QED BY <1>1, <1>2, <1>3, <1>4

(* Nothing was sent.                                                       *)
LEMMA UdpStarts == UdpCounted /\ Udp!Init => UdpInv
<1> SUFFICES ASSUME UdpCounted, Udp!Init PROVE UdpInv
  OBVIOUS
<1>1. UdpTypes
  <2>1. [at |-> "send", next |-> 1, fins |-> 0, report |-> None, late |-> 0] \in ClientOf
    BY DEF ClientOf, UdpCounted
  <2>2. cl \in [Peer -> ClientOf]
    BY <2>1 DEF Udp!Init
  <2>3. net \in [Peer -> Seq(Int)] /\ back \in [Peer -> Seq(ReportOf)]
    BY EmptySeq DEF Udp!Init
  <2> QED BY <2>2, <2>3 DEF Udp!Init, UdpTypes
<1>2. Udp!Busy = {}
  BY DEF Udp!Busy, Udp!Init
<1>3. Paired
  <2>1. Udp!Numbers = {}
    BY DEF Udp!Numbers, Udp!Init
  <2> QED BY <1>2, <2>1 DEF Paired, Udp!TestsPaired, Udp!Init
<1>4. ASSUME NEW p \in Peer PROVE Rising(cl[p], net[p], clients[p]) /\ Reported(p)
  <2>1. /\ cl[p].report = None /\ clients[p] = None /\ closing[p] = None /\ Len(net[p]) = 0
        /\ Len(back[p]) = 0
    BY DEF Udp!Init
  <2> QED BY <2>1 DEF Rising, Reported
<1> QED BY <1>1, <1>3, <1>4 DEF UdpInv

(* Every step keeps it.                                                    *)
LEMMA UdpStep == UdpCounted /\ UdpInv /\ [Udp!Next]_(Udp!iuvars) => UdpInv'
<1> SUFFICES ASSUME UdpCounted, UdpInv, [Udp!Next]_(Udp!iuvars) PROVE UdpInv'
  OBVIOUS
<1>1. ASSUME NEW p \in Peer,
             Udp!Send(p) \/ Udp!SendEnds(p) \/ Udp!SendFin(p) \/ Udp!TakeReport(p) \/ Udp!FinTimesOut(p) \/ Udp!Overtaken(p)
      PROVE  UdpInv'
  BY <1>1, ClientStep
<1>2. ASSUME NEW p \in Peer, Udp!Data(p) PROVE UdpInv'
  BY <1>2, DataKeeps
<1>3. ASSUME NEW p \in Peer, Udp!Fin(p) PROVE UdpInv'
  BY <1>3, FinKeeps
<1>4. CASE Udp!Sweep \/ Udp!Abort \/ Udp!LoopEnds \/ \E p \in Peer : Udp!WindowEnds(p)
  BY <1>4, LoopKeeps
<1>5. CASE UNCHANGED Udp!iuvars
  <2>1. /\ cl' = cl /\ net' = net /\ back' = back /\ clients' = clients /\ closing' = closing
        /\ seq' = seq /\ events' = events /\ loop' = loop
    BY <1>5 DEF Udp!iuvars, Udp!ServerSide
  <2> QED BY <2>1 DEF UdpInv, UdpTypes, Paired, Udp!TestsPaired, Udp!Busy, Udp!Numbers, Reported
<1> QED BY <1>1, <1>2, <1>3, <1>4, <1>5 DEF Udp!Next, Udp!ClientNext, Udp!ServerNext

(* The tests are paired, and the figures a client is shown account for its *)
(* datagrams.                                                              *)
LEMMA TestsPairedBy == UdpInv => Udp!TestsPaired /\ Udp!LossAccounted
<1> SUFFICES ASSUME UdpInv PROVE Udp!TestsPaired /\ Udp!LossAccounted
  OBVIOUS
<1>1. ASSUME NEW p \in Peer, cl[p].late = 0, clients[p] # None
      PROVE  clients[p].acc.packets + clients[p].acc.lost = clients[p].acc.high - clients[p].first + 1
  BY <1>1 DEF UdpInv, Rising
<1>2. ASSUME NEW p \in Peer, cl[p].report # None
      PROVE  /\ cl[p].report.seq \in events.done
             /\ cl[p].late = 0 => cl[p].report.packets + cl[p].report.lost <= MaxSent
  BY <1>2 DEF UdpInv, Reported, Figures
<1> QED BY <1>1, <1>2 DEF Udp!LossAccounted, UdpInv, Paired

-----------------------------------------------------------------------------
(* The rounds of iperf 3 *)

(* Rounds are counted.                                                     *)
RoundsCounted == MaxRounds \in Nat

TestOf == [pushed : Nat, shown : Nat, done : {"none", "ok", "failed", "aborted"}]
RoundTypes ==
  /\ turn \in [at : {"ready", "run", "wait", "quit"}, round : 0..MaxRounds, base : Nat,
               end : {"none", "ok", "failed", "aborted"}]
  /\ chan \in Seq(Rounds!Rounds) /\ emitted \in Nat
  /\ barrier \in [ping : Nat, ack : Nat]
  /\ tests \in [Rounds!Rounds -> TestOf]

InRound == turn.at \in {"run", "wait"}

(* Of each round: what was shown of what was pushed, and no done event     *)
(* before the end.                                                         *)
RoundOf(k) ==
  /\ tests[k].pushed = tests[k].shown + IF k = turn.round THEN Len(chan) ELSE 0
  /\ k > turn.round => tests[k].shown = 0 /\ tests[k].done = "none"
  /\ k = turn.round /\ InRound => tests[k].done = "none"
  /\ tests[k].done # "none" => tests[k].shown = tests[k].pushed
  /\ tests[k].shown > 0 /\ (turn.round > k \/ turn.at \in {"ready", "quit"}) => tests[k].done # "none"

(* The intervals in the channel are of the round under way.                *)
InOrder ==
  /\ InRound => turn.round \in Rounds!Rounds /\ emitted = turn.base + tests[turn.round].shown
  /\ chan # <<>> => InRound
  /\ \A i \in 1..Len(chan) : chan[i] = turn.round

(* The ping of a round is sent when it pushes no more and answered when the*)
(* channel is empty.                                                       *)
Barriers ==
  /\ barrier.ping + barrier.ack = IF turn.at = "wait" THEN 1 ELSE 0
  /\ barrier.ack > 0 => chan = <<>>
  /\ turn.at = "wait" => turn.end # "none"

RoundsInv == RoundTypes /\ InOrder /\ Barriers /\ \A k \in Rounds!Rounds : RoundOf(k)

(* Nothing has begun.                                                      *)
LEMMA RoundsStarts == RoundsCounted /\ Rounds!Init => RoundsInv
<1> SUFFICES ASSUME RoundsCounted, Rounds!Init PROVE RoundsInv
  OBVIOUS
<1>1. Len(chan) = 0 /\ chan \in Seq(Rounds!Rounds)
  BY EmptySeq DEF Rounds!Init
<1>2. RoundTypes
  BY <1>1 DEF Rounds!Init, RoundTypes, RoundsCounted, TestOf
<1> QED BY <1>1, <1>2 DEF Rounds!Init, RoundsInv, InRound, InOrder, Barriers, RoundOf, Rounds!Rounds,
           RoundsCounted

(* Every step of the two threads keeps it.                                 *)
LEMMA RoundsStep ==
  ASSUME RoundsCounted, RoundsInv, [Rounds!Next]_(Rounds!irvars)
  PROVE  RoundsInv'
<1>0. \A k \in Rounds!Rounds : /\ tests[k] \in TestOf /\ tests[k].pushed \in Nat /\ tests[k].shown \in Nat
                        /\ k \in Nat
  BY DEF RoundTypes, RoundsInv, TestOf, Rounds!Rounds
<1>1. /\ turn.at \in {"ready", "run", "wait", "quit"} /\ turn.round \in 0..MaxRounds /\ turn.round \in Nat
      /\ turn.base \in Nat /\ turn.end \in {"none", "ok", "failed", "aborted"}
      /\ emitted \in Nat /\ barrier.ping \in Nat /\ barrier.ack \in Nat
  BY DEF RoundsInv, RoundTypes, RoundsCounted
<1>2. /\ Len(chan) \in Nat /\ (chan = <<>> <=> Len(chan) = 0) /\ chan \in Seq(Rounds!Rounds)
      /\ tests \in [Rounds!Rounds -> TestOf]
  <2>1. chan \in Seq(Rounds!Rounds) /\ tests \in [Rounds!Rounds -> TestOf]
    BY DEF RoundsInv, RoundTypes
  <2> QED BY <2>1, LenProperties, EmptySeq
<1>3. /\ InRound => turn.round \in Rounds!Rounds /\ emitted = turn.base + tests[turn.round].shown
      /\ chan # <<>> => InRound
      /\ \A i \in 1..Len(chan) : chan[i] = turn.round
      /\ barrier.ping + barrier.ack = IF turn.at = "wait" THEN 1 ELSE 0
      /\ barrier.ack > 0 => chan = <<>>
      /\ turn.at = "wait" => turn.end # "none"
  BY DEF RoundsInv, InOrder, Barriers
<1>4. \A k \in Rounds!Rounds : RoundOf(k)
  BY DEF RoundsInv
<1> DEFINE Main == [at : {"ready", "run", "wait", "quit"}, round : 0..MaxRounds, base : Nat,
                    end : {"none", "ok", "failed", "aborted"}]
<1>5. turn \in Main /\ barrier \in [ping : Nat, ack : Nat]
  BY DEF RoundsInv, RoundTypes
<1>6. ASSUME turn' \in Main, chan' \in Seq(Rounds!Rounds), emitted' \in Nat, barrier' \in [ping : Nat, ack : Nat],
             tests' \in [Rounds!Rounds -> TestOf],
             InOrder', Barriers', \A k \in Rounds!Rounds : RoundOf(k)'
      PROVE  RoundsInv'
  <2>1. RoundTypes'
    BY <1>6 DEF RoundTypes, TestOf, Rounds!Rounds
  <2> QED BY <1>6, <2>1 DEF RoundsInv
<1> HIDE DEF Main
<1>11. CASE Rounds!Begins
  <2>1. turn' = [at |-> "run", round |-> turn.round + 1, base |-> emitted, end |-> "none"]
        /\ UNCHANGED <<chan, emitted, barrier, tests>> /\ turn.at = "ready" /\ turn.round < MaxRounds
    BY <1>11 DEF Rounds!Begins
  <2>2. chan = <<>> /\ turn.round + 1 \in Rounds!Rounds
    BY <1>1, <1>3, <2>1 DEF InRound, Rounds!Rounds, RoundsCounted
  <2>3. turn' \in Main /\ turn'.at = "run" /\ turn'.round = turn.round + 1 /\ turn'.base = emitted
    BY <1>1, <2>1, <2>2 DEF Main, Rounds!Rounds
  <2>4. RoundOf(turn.round + 1) /\ tests[turn.round + 1].shown \in Nat
    BY <1>0, <1>4, <2>2
  <2>80. /\ turn.round \in Nat /\ Len(chan) \in Nat /\ Len(chan) = 0 /\ chan' = chan /\ tests' = tests
         /\ turn.at = "ready" /\ turn'.at = "run" /\ turn'.round = turn.round + 1
    BY <1>1, <1>2, <1>3, <2>1, <2>2, <2>3, <2>4 DEF InRound
  <2>90. Barriers'
    BY <1>1, <1>2, <1>3, <2>1, <2>2, <2>3, <2>4 DEF Barriers
  <2>91. InOrder'
    BY <1>0, <1>1, <1>2, <1>3, <2>1, <2>2, <2>3, <2>4 DEF InOrder, InRound, RoundOf
  <2>92. ASSUME NEW k \in Rounds!Rounds PROVE RoundOf(k)'
    <3>1. tests[k].pushed \in Nat /\ tests[k].shown \in Nat /\ k \in Nat /\ RoundOf(k)
      BY <1>0, <1>4
    <3>2. CASE k = turn'.round
      BY <3>1, <3>2, <2>80, <2>80, <2>4 DEF RoundOf, InRound
    <3>3. CASE k # turn'.round
      BY <3>1, <3>3, <2>80, <2>80, <2>4 DEF RoundOf, InRound
    <3> QED BY <3>2, <3>3
  <2> QED BY <1>1, <1>2, <1>5, <1>6, <2>1, <2>2, <2>3, <2>90, <2>91, <2>92
<1>12. CASE Rounds!Pushes
  <2> DEFINE r == turn.round
  <2>1. turn.at = "run" /\ chan' = Append(chan, r) /\ tests' = [tests EXCEPT ![r].pushed = @ + 1]
        /\ UNCHANGED <<turn, emitted, barrier>>
    BY <1>12 DEF Rounds!Pushes
  <2>2. r \in Rounds!Rounds
    BY <1>3, <2>1 DEF InRound
  <2>3. /\ chan' \in Seq(Rounds!Rounds) /\ Len(chan') = Len(chan) + 1 /\ chan' # <<>>
        /\ \A i \in 1..Len(chan') : chan'[i] = IF i = Len(chan) + 1 THEN r ELSE chan[i]
    <3>1. /\ chan' \in Seq(Rounds!Rounds) /\ Len(chan') = Len(chan) + 1
          /\ \A i \in 1..Len(chan') : chan'[i] = IF i = Len(chan) + 1 THEN r ELSE chan[i]
      BY <1>2, <2>1, <2>2, AppendProperties
    <3> QED BY <1>2, <3>1, EmptySeq
  <2>4. /\ tests' \in [Rounds!Rounds -> TestOf] /\ \A k \in Rounds!Rounds \ {r} : tests'[k] = tests[k]
        /\ tests'[r].pushed = tests[r].pushed + 1 /\ tests'[r].shown = tests[r].shown
        /\ tests'[r].done = tests[r].done
    <3> DEFINE u == [tests[r] EXCEPT !.pushed = tests[r].pushed + 1]
    <3>1. tests' = [tests EXCEPT ![r] = u]
      BY <2>1
    <3>2. u \in TestOf /\ u.pushed = tests[r].pushed + 1 /\ u.shown = tests[r].shown /\ u.done = tests[r].done
      BY <1>0, <2>2 DEF TestOf
    <3> HIDE DEF u
    <3> QED BY <1>2, <2>2, <3>1, <3>2
  <2>5. \A i \in 1..Len(chan') : chan'[i] = turn'.round
    BY <1>2, <1>3, <2>1, <2>3
  <2>80. /\ turn.round \in Nat /\ Len(chan) \in Nat /\ Len(chan') = Len(chan) + 1 /\ turn.at = "run"
         /\ turn' = turn
    BY <1>1, <1>2, <1>3, <2>1, <2>2, <2>3, <2>4 DEF InRound
  <2>90. Barriers'
    BY <1>1, <1>2, <1>3, <2>1, <2>2, <2>3, <2>4 DEF Barriers
  <2>91. InOrder'
    BY <1>0, <1>1, <1>2, <1>3, <2>1, <2>2, <2>3, <2>4 DEF InOrder, InRound, Rounds!Rounds
  <2>92. ASSUME NEW k \in Rounds!Rounds PROVE RoundOf(k)'
    <3>1. tests[k].pushed \in Nat /\ tests[k].shown \in Nat /\ k \in Nat /\ RoundOf(k)
      BY <1>0, <1>4
    <3>2. CASE k = turn'.round
      BY <3>1, <3>2, <2>80, <2>4 DEF RoundOf, InRound
    <3>3. CASE k # turn'.round
      BY <3>1, <3>3, <2>80, <2>4 DEF RoundOf, InRound
    <3> QED BY <3>2, <3>3
  <2> QED BY <1>1, <1>2, <1>5, <1>6, <2>1, <2>3, <2>4, <2>5, <2>90, <2>91, <2>92
<1>13. CASE Rounds!Returns
  <2>1. PICK e \in {"ok", "failed", "aborted"} : turn' = [turn EXCEPT !.at = "wait", !.end = e]
    BY <1>13 DEF Rounds!Returns
  <2>2. turn.at = "run" /\ UNCHANGED <<chan, emitted, tests>> /\ barrier' = [barrier EXCEPT !.ping = @ + 1]
    BY <1>13 DEF Rounds!Returns
  <2>3. /\ turn'.at = "wait" /\ turn'.round = turn.round /\ turn'.base = turn.base /\ turn'.end = e
        /\ turn' \in Main
    BY <1>1, <1>5, <2>1, <2>2 DEF Main
  <2>4. /\ barrier'.ping = barrier.ping + 1 /\ barrier'.ack = barrier.ack
        /\ barrier' \in [ping : Nat, ack : Nat]
    BY <1>1, <1>5, <2>1, <2>2 DEF Main
  <2>80. /\ turn.round \in Nat /\ Len(chan) \in Nat /\ turn.at = "run" /\ turn'.at = "wait" /\ chan' = chan
         /\ tests' = tests /\ turn'.round = turn.round
    BY <1>1, <1>2, <1>3, <2>2, <2>3, <2>4 DEF InRound
  <2>90. Barriers'
    BY <1>1, <1>2, <1>3, <2>2, <2>3, <2>4 DEF Barriers
  <2>91. InOrder'
    BY <1>0, <1>1, <1>2, <1>3, <2>2, <2>3, <2>4 DEF InOrder, InRound, Rounds!Rounds
  <2>92. ASSUME NEW k \in Rounds!Rounds PROVE RoundOf(k)'
    <3>1. tests[k].pushed \in Nat /\ tests[k].shown \in Nat /\ k \in Nat /\ RoundOf(k)
      BY <1>0, <1>4
    <3>2. CASE k = turn'.round
      BY <3>1, <3>2, <2>80, <2>80 DEF RoundOf, InRound
    <3>3. CASE k # turn'.round
      BY <3>1, <3>3, <2>80, <2>80 DEF RoundOf, InRound
    <3> QED BY <3>2, <3>3
  <2> QED BY <1>1, <1>2, <1>3, <1>6, <2>2, <2>3, <2>4, <2>90, <2>91, <2>92
<1>14. CASE Rounds!Shows
  <2> DEFINE r == turn.round
  <2>1. chan # <<>> /\ tests' = [tests EXCEPT ![Head(chan)].shown = @ + 1] /\ chan' = Tail(chan) /\ emitted' = emitted + 1
        /\ UNCHANGED <<turn, barrier>>
    BY <1>14 DEF Rounds!Shows
  <2>2. r \in Rounds!Rounds /\ InRound /\ barrier.ack = 0
    BY <1>1, <1>3, <2>1
  <2>3. /\ Len(chan) >= 1 /\ Head(chan) = chan[1] /\ chan' \in Seq(Rounds!Rounds) /\ Len(chan') = Len(chan) - 1
        /\ \A i \in 1..Len(chan') : chan'[i] = chan[i + 1]
    BY <1>2, <2>1, HeadTailProperties
  <2>4. Head(chan) = r /\ \A i \in 1..Len(chan') : chan'[i] = turn'.round
    BY <1>2, <1>3, <2>1, <2>3
  <2>5. /\ tests' \in [Rounds!Rounds -> TestOf] /\ \A k \in Rounds!Rounds \ {r} : tests'[k] = tests[k]
        /\ tests'[r].shown = tests[r].shown + 1 /\ tests'[r].pushed = tests[r].pushed
        /\ tests'[r].done = tests[r].done
    <3> DEFINE u == [tests[r] EXCEPT !.shown = tests[r].shown + 1]
    <3>1. tests' = [tests EXCEPT ![r] = u]
      BY <2>1, <2>4
    <3>2. u \in TestOf /\ u.shown = tests[r].shown + 1 /\ u.pushed = tests[r].pushed /\ u.done = tests[r].done
      BY <1>0, <2>2 DEF TestOf
    <3> HIDE DEF u
    <3> QED BY <1>2, <2>2, <3>1, <3>2
  <2>80. /\ turn.round \in Nat /\ Len(chan) \in Nat /\ Len(chan') = Len(chan) - 1
         /\ turn.at \in {"run", "wait"} /\ turn' = turn
    BY <1>1, <1>2, <1>3, <2>1, <2>2, <2>3, <2>5 DEF InRound
  <2>90. Barriers'
    BY <1>1, <1>2, <1>3, <2>1, <2>2, <2>3, <2>5 DEF Barriers
  <2>91. InOrder'
    BY <1>0, <1>1, <1>2, <1>3, <2>1, <2>2, <2>3, <2>5 DEF InOrder, InRound, Rounds!Rounds
  <2>92. ASSUME NEW k \in Rounds!Rounds PROVE RoundOf(k)'
    <3>1. tests[k].pushed \in Nat /\ tests[k].shown \in Nat /\ k \in Nat /\ RoundOf(k)
      BY <1>0, <1>4
    <3>2. CASE k = turn'.round
      BY <3>1, <3>2, <2>80, <2>5 DEF RoundOf, InRound
    <3>3. CASE k # turn'.round
      BY <3>1, <3>3, <2>80, <2>5 DEF RoundOf, InRound
    <3> QED BY <3>2, <3>3
  <2> QED BY <1>1, <1>2, <1>5, <1>6, <2>1, <2>3, <2>4, <2>5, <2>90, <2>91, <2>92
<1>15. CASE Rounds!Answers
  <2>1. chan = <<>> /\ UNCHANGED <<turn, chan, emitted, tests>> /\ barrier.ping > 0
        /\ barrier' = [ping |-> barrier.ping - 1, ack |-> barrier.ack + 1]
    BY <1>15 DEF Rounds!Answers, Rounds!Drained
  <2>2. /\ barrier'.ping = barrier.ping - 1 /\ barrier'.ack = barrier.ack + 1
        /\ barrier' \in [ping : Nat, ack : Nat]
    BY <1>1, <2>1
  <2>80. /\ turn.round \in Nat /\ Len(chan) \in Nat /\ turn'.round = turn.round
    BY <1>1, <1>2, <1>3, <2>1, <2>2 DEF InRound
  <2>90. Barriers'
    BY <1>1, <1>2, <1>3, <2>1, <2>2 DEF Barriers
  <2>91. InOrder'
    BY <1>0, <1>1, <1>2, <1>3, <2>1, <2>2 DEF InOrder, InRound, Rounds!Rounds
  <2>92. ASSUME NEW k \in Rounds!Rounds PROVE RoundOf(k)'
    <3>1. tests[k].pushed \in Nat /\ tests[k].shown \in Nat /\ k \in Nat /\ RoundOf(k)
      BY <1>0, <1>4
    <3>2. CASE k = turn'.round
      BY <3>1, <3>2, <2>80, <2>1, <2>2 DEF RoundOf, InRound
    <3>3. CASE k # turn'.round
      BY <3>1, <3>3, <2>80, <2>1, <2>2 DEF RoundOf, InRound
    <3> QED BY <3>2, <3>3
  <2> QED BY <1>1, <1>2, <1>3, <1>5, <1>6, <2>1, <2>2, <2>90, <2>91, <2>92
<1>16. CASE Rounds!Ends
  <2> DEFINE r == turn.round
             said == IF Rounds!Tells THEN turn.end ELSE "none"
  <2>1. turn.at = "wait" /\ barrier.ack > 0 /\ barrier' = [barrier EXCEPT !.ack = @ - 1]
        /\ UNCHANGED <<chan, emitted>> /\ tests' = [tests EXCEPT ![r].done = said]
        /\ turn' = [turn EXCEPT !.at = IF turn.end = "aborted" THEN "quit" ELSE "ready"]
    BY <1>16 DEF Rounds!Ends
  <2>2. /\ chan = <<>> /\ r \in Rounds!Rounds /\ turn.end # "none" /\ emitted = turn.base + tests[r].shown
        /\ Len(chan) = 0
    BY <1>2, <1>3, <2>1 DEF InRound
  <2>3. turn'.at \in {"quit", "ready"} /\ turn'.round = r /\ turn' \in Main
        /\ barrier'.ping = 0 /\ barrier'.ack = 0 /\ barrier' \in [ping : Nat, ack : Nat]
    BY <1>1, <1>3, <1>5, <2>1 DEF Main
  <2>4. said \in {"none", "ok", "failed", "aborted"}
    BY <1>1
  <2>7. tests[r].shown > 0 => said # "none"
    <3>1. tests[r].shown \in Nat
      BY <1>0, <2>2
    <3>2. tests[r].shown > 0 => Rounds!Tells
      BY <1>1, <2>2, <3>1 DEF Rounds!Tells
    <3> QED BY <2>2, <3>2
  <2> HIDE DEF said
  <2>5. /\ tests' \in [Rounds!Rounds -> TestOf] /\ \A k \in Rounds!Rounds \ {r} : tests'[k] = tests[k]
        /\ tests'[r].done = said /\ tests'[r].pushed = tests[r].pushed /\ tests'[r].shown = tests[r].shown
    <3> DEFINE u == [tests[r] EXCEPT !.done = said]
    <3>1. tests' = [tests EXCEPT ![r] = u]
      BY <2>1
    <3>2. u \in TestOf /\ u.done = said /\ u.pushed = tests[r].pushed /\ u.shown = tests[r].shown
      BY <1>0, <2>2, <2>4 DEF TestOf
    <3> HIDE DEF u
    <3> QED BY <1>2, <2>2, <3>1, <3>2
  <2>80. /\ turn.round \in Nat /\ Len(chan) \in Nat /\ Len(chan) = 0 /\ chan' = chan /\ turn.at = "wait"
         /\ turn'.at \in {"quit", "ready"} /\ turn'.round = turn.round
    BY <1>1, <1>2, <1>3, <2>1, <2>2, <2>3, <2>5, <2>7 DEF InRound
  <2>90. Barriers'
    BY <1>1, <1>2, <1>3, <2>1, <2>2, <2>3, <2>5, <2>7 DEF Barriers
  <2>91. InOrder'
    BY <1>0, <1>1, <1>2, <1>3, <2>1, <2>2, <2>3, <2>5, <2>7 DEF InOrder, InRound, Rounds!Rounds
  <2>92. ASSUME NEW k \in Rounds!Rounds PROVE RoundOf(k)'
    <3>1. tests[k].pushed \in Nat /\ tests[k].shown \in Nat /\ k \in Nat /\ RoundOf(k)
      BY <1>0, <1>4
    <3>2. CASE k = turn'.round
      BY <3>1, <3>2, <2>80, <2>5, <2>7 DEF RoundOf, InRound
    <3>3. CASE k # turn'.round
      BY <3>1, <3>3, <2>80, <2>5, <2>7 DEF RoundOf, InRound
    <3> QED BY <3>2, <3>3
  <2> QED BY <1>1, <1>2, <1>3, <1>5, <1>6, <2>1, <2>3, <2>5, <2>90, <2>91, <2>92
<1>17. CASE Rounds!Quits
  <2>1. /\ UNCHANGED <<chan, emitted, barrier, tests>> /\ turn.at = "ready"
        /\ turn' = [turn EXCEPT !.at = "quit"]
    BY <1>17 DEF Rounds!Quits
  <2>2. turn'.at = "quit" /\ turn'.round = turn.round /\ turn' \in Main
    BY <1>1, <1>5, <2>1 DEF Main
  <2>80. /\ turn.round \in Nat /\ Len(chan) \in Nat /\ turn'.round = turn.round
    BY <1>1, <1>2, <1>3, <2>1, <2>2 DEF InRound
  <2>90. Barriers'
    BY <1>1, <1>2, <1>3, <2>1, <2>2 DEF Barriers
  <2>91. InOrder'
    BY <1>0, <1>1, <1>2, <1>3, <2>1, <2>2 DEF InOrder, InRound, Rounds!Rounds
  <2>92. ASSUME NEW k \in Rounds!Rounds PROVE RoundOf(k)'
    <3>1. tests[k].pushed \in Nat /\ tests[k].shown \in Nat /\ k \in Nat /\ RoundOf(k)
      BY <1>0, <1>4
    <3>2. CASE k = turn'.round
      BY <3>1, <3>2, <2>80, <2>1, <2>2 DEF RoundOf, InRound
    <3>3. CASE k # turn'.round
      BY <3>1, <3>3, <2>80, <2>1, <2>2 DEF RoundOf, InRound
    <3> QED BY <3>2, <3>3
  <2> QED BY <1>1, <1>2, <1>3, <1>5, <1>6, <2>1, <2>2, <2>90, <2>91, <2>92
<1>18. CASE Rounds!Stop \/ UNCHANGED Rounds!irvars
  <2>1. UNCHANGED <<turn, chan, emitted, barrier, tests>>
    BY <1>18 DEF Rounds!Stop, Rounds!irvars
  <2> QED BY <2>1 DEF RoundsInv, RoundTypes, InRound, InOrder, Barriers, RoundOf
<1> QED BY <1>11, <1>12, <1>13, <1>14, <1>15, <1>16, <1>17, <1>18 DEF Rounds!Next, Rounds!Runs

(* The invariant says of the events what is promised.                      *)
LEMMA DoneIsLastBy == RoundsInv => Rounds!DoneIsLast
BY DEF RoundsInv, RoundOf, Rounds!DoneIsLast
=============================================================================
