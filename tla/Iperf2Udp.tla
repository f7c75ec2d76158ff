----------------------------- MODULE Iperf2Udp -----------------------------
(***************************************************************************)
(* iperf2 over UDP (iperf2/data_udp.rs): one socket, no connection.  The   *)
(* client numbers its datagrams from 1 (run_udp_client) and then repeats a *)
(* FIN, a datagram with a negative number, until a report comes back or    *)
(* its two seconds are over (await_server_report).  The server             *)
(* (run_udp_server_loop) keeps one state per address, closes it at the     *)
(* first FIN or when it has been idle, and answers later FINs from a       *)
(* closing window.                                                         *)
(*                                                                         *)
(* The network loses and delays datagrams; it keeps the order of one       *)
(* address except for at most MaxLate datagrams that are overtaken.        *)
(* Numbers are below 2^31 (ids are 64 bits wide).                          *)
(***************************************************************************)
EXTENDS Integers, Sequences, FiniteSets

CONSTANTS
    Peer,           \* client addresses
    MaxSent,        \* datagrams a client sends
    MaxFins,        \* FIN_RETRY_WINDOW / 10 ms
    MaxReports,     \* REPORT_MAX_RETRIES
    MaxLate,        \* datagrams of one client that are overtaken
    None

VARIABLES
    cl,         \* the clients
    net,        \* datagrams on their way to the server, per client
    back,       \* reports on their way to each client
    clients,    \* the server's HashMap of UdpClientState
    closing,    \* the server's HashMap of ClosingClient
    seq,        \* seq_counter
    events,     \* started and done events: the numbers they carried
    loop        \* the reception loop: running, ended; udp_active

iuvars == <<cl, net, back, clients, closing, seq, events, loop>>

Init ==
    /\ cl = [p \in Peer |-> [at |-> "send", next |-> 1, fins |-> 0, report |-> None,
                             late |-> 0]]
    /\ net = [p \in Peer |-> <<>>]
    /\ back = [p \in Peer |-> <<>>]
    /\ clients = [p \in Peer |-> None]
    /\ closing = [p \in Peer |-> None]
    /\ seq = 0
    /\ events = [started |-> {}, done |-> {}]
    /\ loop = [at |-> "run", abort |-> FALSE, active |-> FALSE]

ServerSide == <<clients, closing, seq, events, loop>>

----------------------------------------------------------------------------
(* The client *)

\* A sender thread takes the next number and sends; the datagram may be lost.
Send(p) ==
    /\ cl[p].at = "send"
    /\ cl[p].next <= MaxSent
    /\ cl' = [cl EXCEPT ![p].next = @ + 1]
    /\ \/ net' = [net EXCEPT ![p] = Append(@, cl[p].next)]
       \/ UNCHANGED net
    /\ UNCHANGED <<back, ServerSide>>

\* The duration is over, or the user aborts: then no report is waited for.
SendEnds(p) ==
    /\ cl[p].at = "send"
    /\ \E aborted \in BOOLEAN : cl' = [cl EXCEPT ![p].at = IF aborted THEN "aborted" ELSE "fin"]
    /\ UNCHANGED <<net, back, ServerSide>>

\* await_server_report: FIN numbers start at minus the last number and fall.
Last(p) == cl[p].next - 1
FinNumber(p) == -(IF Last(p) > 1 THEN Last(p) ELSE 1) - cl[p].fins

SendFin(p) ==
    /\ cl[p].at = "fin"
    /\ cl[p].fins < MaxFins
    /\ cl' = [cl EXCEPT ![p].fins = @ + 1]
    /\ \/ net' = [net EXCEPT ![p] = Append(@, FinNumber(p))]
       \/ UNCHANGED net
    /\ UNCHANGED <<back, ServerSide>>

TakeReport(p) ==
    /\ cl[p].at = "fin"
    /\ back[p] # <<>>
    /\ cl' = [cl EXCEPT ![p].at = "told", ![p].report = Head(back[p])]
    /\ back' = [back EXCEPT ![p] = Tail(@)]
    /\ UNCHANGED <<net, ServerSide>>

\* The window is over: the run ends with a warning and no loss figures.
FinTimesOut(p) ==
    /\ cl[p].at = "fin"
    /\ cl[p].fins = MaxFins
    /\ cl' = [cl EXCEPT ![p].at = "untold"]
    /\ UNCHANGED <<net, back, ServerSide>>

\* A datagram is overtaken by the one behind it.
Overtaken(p) ==
    /\ cl[p].late < MaxLate
    /\ Len(net[p]) >= 2
    /\ net' = [net EXCEPT ![p] = <<@[2], @[1]>> \o SubSeq(@, 3, Len(@))]
    /\ cl' = [cl EXCEPT ![p].late = @ + 1]
    /\ UNCHANGED <<back, ServerSide>>

----------------------------------------------------------------------------
(* IntervalAccumulator::record_udp *)

\* A gap above the highest number counts as lost; the first datagram opens
\* no gap, a late one closes none.
Record_Every(acc, n) ==
    [packets |-> acc.packets + 1,
     lost |-> acc.lost + (IF n > acc.high THEN n - acc.high - 1 ELSE 0),
     high |-> n]

Record(acc, n) ==
    [packets |-> acc.packets + 1,
     lost |-> acc.lost + (IF acc.high >= 0 /\ n > acc.high THEN n - acc.high - 1 ELSE 0),
     high |-> IF n > acc.high THEN n ELSE acc.high]

Empty == [packets |-> 0, lost |-> 0, high |-> -1]

(* The server *)

\* finalize_udp_client: the done event, the report, the closing window.
Report(x) == [packets |-> x.acc.packets, lost |-> x.acc.lost, seq |-> x.seq]

Finalize(P) ==
    /\ events' = [events EXCEPT !.done = @ \cup {clients[p].seq : p \in P}]
    /\ closing' = [p \in Peer |->
          IF p \in P THEN [report |-> Report(clients[p]), retries |-> MaxReports]
                     ELSE closing[p]]
    /\ clients' = [p \in Peer |-> IF p \in P THEN None ELSE clients[p]]
    /\ \E L \in SUBSET P :
         back' = [p \in Peer |-> IF p \in P \ L THEN Append(back[p], Report(clients[p]))
                                                ELSE back[p]]

Busy == {p \in Peer : clients[p] # None}

\* update_test_running, once the map is empty.
Marks(P) == loop' = [loop EXCEPT !.active = P # {}]

\* A positive number: the client is known, or it starts a new test - from the
\* closing window too.
Data(p) ==
    /\ loop.at = "run"
    /\ net[p] # <<>> /\ Head(net[p]) > 0
    /\ net' = [net EXCEPT ![p] = Tail(@)]
    /\ IF clients[p] # None
         THEN /\ clients' = [clients EXCEPT ![p].acc = Record(@, Head(net[p]))]
              /\ UNCHANGED <<closing, seq, events, loop>>
         ELSE /\ clients' = [clients EXCEPT ![p] =
                    [seq |-> seq + 1, first |-> Head(net[p]), acc |-> Record(Empty, Head(net[p]))]]
              /\ closing' = [closing EXCEPT ![p] = None]
              /\ seq' = seq + 1
              /\ events' = [events EXCEPT !.started = @ \cup {seq + 1}]
              /\ loop' = [loop EXCEPT !.active = TRUE]
    /\ UNCHANGED <<cl, back>>

\* A FIN: the client is closed; or its report is repeated; or it is drained.
Fin(p) ==
    /\ loop.at = "run"
    /\ net[p] # <<>> /\ Head(net[p]) <= 0
    /\ net' = [net EXCEPT ![p] = Tail(@)]
    /\ \/ /\ clients[p] # None
          /\ Finalize({p})
          /\ IF Busy = {p} THEN Marks({}) ELSE UNCHANGED loop
       \/ /\ clients[p] = None /\ closing[p] # None
          /\ closing[p].retries > 0
          /\ closing' = [closing EXCEPT ![p].retries = @ - 1]
          /\ \/ back' = [back EXCEPT ![p] = Append(@, closing[p].report)]
             \/ UNCHANGED back
          /\ UNCHANGED <<clients, events, loop>>
       \/ /\ clients[p] = None
          /\ closing[p] # None => closing[p].retries = 0
          /\ UNCHANGED <<back, clients, closing, events, loop>>
    /\ UNCHANGED <<cl, seq>>

\* The read timed out: clients idle for thirty seconds are closed - one that
\* still sends is not idle - and closing windows that are over are swept.
Idle == {p \in Busy : cl[p].at \notin {"send"} /\ net[p] = <<>>}

Sweep ==
    /\ loop.at = "run"
    /\ \E P \in SUBSET Idle :
         /\ P # {}
         /\ Finalize(P)
         /\ Marks(Busy \ P)
    /\ UNCHANGED <<cl, net, seq>>

WindowEnds(p) ==
    /\ loop.at = "run"
    /\ closing[p] # None
    /\ net[p] = <<>>
    /\ closing' = [closing EXCEPT ![p] = None]
    /\ UNCHANGED <<cl, net, back, clients, seq, events, loop>>

Abort ==
    /\ loop.at = "run" /\ ~loop.abort
    /\ loop' = [loop EXCEPT !.abort = TRUE]
    /\ UNCHANGED <<cl, net, back, clients, closing, seq, events>>

\* The flag, or a receive error that is not a timeout: every client that is
\* left is closed before the loop ends.
LoopEnds_Bare ==
    /\ loop.at = "run"
    /\ loop' = [loop EXCEPT !.at = "end", !.active = FALSE]
    /\ clients' = [p \in Peer |-> None]
    /\ UNCHANGED <<cl, net, back, closing, seq, events>>

LoopEnds ==
    /\ loop.at = "run"
    /\ Finalize(Busy)
    /\ loop' = [loop EXCEPT !.at = "end", !.active = FALSE]
    /\ UNCHANGED <<cl, net, seq>>

----------------------------------------------------------------------------
ClientNext == \E p \in Peer :
    Send(p) \/ SendEnds(p) \/ SendFin(p) \/ TakeReport(p) \/ FinTimesOut(p) \/ Overtaken(p)

ServerNext ==
    \/ \E p \in Peer : Data(p) \/ Fin(p) \/ WindowEnds(p)
    \/ Sweep \/ Abort \/ LoopEnds

Next == ClientNext \/ ServerNext

Progress ==
    \/ \E p \in Peer : SendEnds(p) \/ SendFin(p) \/ TakeReport(p) \/ FinTimesOut(p)
                       \/ Data(p) \/ Fin(p)
    \/ Sweep
    \/ loop.abort /\ LoopEnds

Spec == Init /\ [][Next]_iuvars /\ WF_iuvars(Progress)

----------------------------------------------------------------------------
(* Properties *)

Numbers == 1 .. seq

\* The test list of the front end adds up: every started event has a number
\* of its own, a done event belongs to a test that was announced, a test that
\* is neither open nor announced as done does not exist - also when the loop
\* ends with clients open - and the running flag is up exactly while one is.
TestsPaired ==
    /\ events.started = Numbers
    /\ events.done \subseteq events.started
    /\ Numbers \ events.done = {clients[p].seq : p \in Busy}
    /\ loop.active = (Busy # {})

\* The loss figures a client shows are those of its own test and they account
\* for every number from the first datagram that arrived to the highest one:
\* each was received or counted as lost, as long as none was overtaken.
LossAccounted ==
    \A p \in Peer :
        /\ cl[p].late = 0 /\ clients[p] # None =>
              LET x == clients[p] IN x.acc.packets + x.acc.lost = x.acc.high - x.first + 1
        /\ cl[p].report # None =>
              /\ cl[p].report.seq \in events.done
              /\ cl[p].late = 0 => cl[p].report.packets + cl[p].report.lost <= MaxSent

\* Every client's run ends and every test the server opened is closed, though
\* datagrams, FINs and reports are lost.
Sending(p) == cl[p].at = "send"
Sent(p) == cl[p].at \in {"told", "untold", "aborted"}
Awaited == events.done # events.started
Reached == events.done = events.started
============================================================================
