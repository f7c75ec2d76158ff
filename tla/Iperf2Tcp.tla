----------------------------- MODULE Iperf2Tcp -----------------------------
(***************************************************************************)
(* iperf2 over TCP.  The server (iperf2/mod.rs run_server): every accepted *)
(* connection has a handler thread, the handlers of one test share a       *)
(* TcpSession, the last stream to end - forward or reverse - closes the    *)
(* test.  A test reports by events: started, then done with the total.     *)
(* The client (data_tcp.rs run_tcp_client): one thread per stream and a    *)
(* main loop that keeps the time, stops the threads and waits for them.    *)
(*                                                                         *)
(* Bytes are counted in units.  A peer may send, close, or stall for ever. *)
(***************************************************************************)
EXTENDS Naturals, FiniteSets, FiniteSetsExt

CONSTANTS
    Handler,        \* accepted connections, each with its thread
    MaxHandlers,    \* MAX_CONCURRENT_TCP_HANDLERS
    Threads,        \* numThreads of a dual test: reverse senders
    MaxBytes,       \* units a connection carries
    Stream          \* parallel streams of the client

VARIABLES
    h,      \* the handler threads
    s,      \* the TcpSession
    rev,    \* reverse senders still at work, by the test they belong to
    done,   \* done events: for each test the totals reported
    abort,  \* server_abort_flag
    st,     \* the client's stream threads
    main    \* the client's main loop

itvars == <<h, s, rev, done, abort, st, main>>

Modes == {"normal", "tradeoff", "dual"}
Tests == 1 .. Cardinality(Handler)

\* A handler carries a payload from the lock to its emission: the test it
\* closes and the total.  Test 0 stands for no payload.
NoPayload == [test |-> 0, total |-> 0]

Init ==
    /\ h = [c \in Handler |-> [at |-> "none", mode |-> "normal", test |-> 0, got |-> 0,
                               first |-> FALSE, pay |-> NoPayload]]
    /\ s = [streams |-> 0, revs |-> 0, started |-> FALSE, test |-> 0, total |-> 0,
            prev |-> 0, mode |-> "normal", kill |-> FALSE, running |-> FALSE]
    /\ rev = [t \in Tests |-> 0]
    /\ done = [t \in Tests |-> {}]
    /\ abort = FALSE
    /\ st = [i \in Stream |-> [at |-> "connect", sent |-> 0]]
    /\ main = [at |-> "run", abort |-> FALSE, failed |-> 0, bytes |-> 0, ok |-> FALSE,
               dual |-> FALSE]

ServerOnly == UNCHANGED <<st, main>>
ClientOnly == UNCHANGED <<h, s, rev, done, abort>>

----------------------------------------------------------------------------
(* The server *)

\* accept: above the limit of live handlers the connection is dropped.
Live == {c \in Handler : h[c].at \notin {"none", "end"}}

Accept(c) ==
    /\ h[c].at = "none"
    /\ ~abort
    /\ \E m \in Modes :
         h' = [h EXCEPT ![c].at = IF Cardinality(Live) >= MaxHandlers THEN "end" ELSE "shake",
                        ![c].mode = m]
    /\ UNCHANGED <<s, rev, done, abort>> /\ ServerOnly

\* server_handshake fails: a probe, a stall, the flag.
ShakeFails(c) ==
    /\ h[c].at = "shake"
    /\ h' = [h EXCEPT ![c].at = "end"]
    /\ UNCHANGED <<s, rev, done, abort>> /\ ServerOnly

\* The test is over when it has started and no stream of it is left.
Over_Forward(x) == x.started /\ x.streams = 0

Over(x) == x.started /\ x.streams = 0 /\ x.revs = 0

\* build_tcp_finalize_payload, in the same critical section.
Closed_Again(x) == [x EXCEPT !.running = FALSE]

Closed(x) == [x EXCEPT !.started = FALSE, !.running = FALSE]

Payload(x) == [test |-> x.test, total |-> x.total]

\* The first stream of a test resets the session; every stream is counted.  A
\* test that is over and was not closed yet is closed here first.
Opened(x, m) ==
    [x EXCEPT !.total = 0, !.prev = 0, !.mode = m, !.kill = FALSE, !.started = TRUE,
              !.test = @ + 1]

Counts(c) ==
    /\ h[c].at = "shake"
    /\ LET x == IF Over(s) THEN Closed(s) ELSE s
           first == ~x.started
           y == IF first THEN Opened(x, h[c].mode) ELSE x
       IN  /\ s' = [y EXCEPT !.streams = @ + 1]
           /\ h' = [h EXCEPT ![c].at = "announce", ![c].test = y.test, ![c].first = first,
                             ![c].pay = IF Over(s) THEN Payload(s) ELSE NoPayload]
    /\ UNCHANGED <<rev, done, abort>> /\ ServerOnly

Emitted(p) == IF p.test = 0 THEN done ELSE [done EXCEPT ![p.test] = @ \cup {p.total}]

\* Outside the lock: the done event of the stale test, then the started event
\* of the new one, and the reverse senders of a dual test.
Announces(c) ==
    /\ h[c].at = "announce"
    /\ done' = Emitted(h[c].pay)
    /\ h' = [h EXCEPT ![c].at = "receive", ![c].pay = NoPayload]
    /\ IF h[c].first
         THEN LET n == IF h[c].mode = "dual" THEN Threads ELSE 0
              IN  /\ s' = [s EXCEPT !.running = TRUE, !.revs = @ + n]
                  /\ rev' = [rev EXCEPT ![h[c].test] = n]
         ELSE UNCHANGED <<s, rev>>
    /\ UNCHANGED abort /\ ServerOnly

\* recv_tcp_stream
Receives(c) ==
    /\ h[c].at = "receive"
    /\ h[c].got < MaxBytes
    /\ h' = [h EXCEPT ![c].got = @ + 1]
    /\ s' = [s EXCEPT !.total = @ + 1]
    /\ UNCHANGED <<rev, done, abort>> /\ ServerOnly

\* The peer closes or the connection fails; or it stalls, and the flags are
\* looked at when a read times out.
PeerLeaves(c) ==
    /\ h[c].at = "receive"
    /\ \E quiet \in BOOLEAN : h' = [h EXCEPT ![c].at = IF quiet THEN "stall" ELSE "received"]
    /\ UNCHANGED <<s, rev, done, abort>> /\ ServerOnly

StallEnds(c) ==
    /\ h[c].at = "stall"
    /\ abort \/ s.kill
    /\ h' = [h EXCEPT ![c].at = "received"]
    /\ UNCHANGED <<s, rev, done, abort>> /\ ServerOnly

\* -r: the handler sends back on the same socket; the sending phase is
\* bounded by its deadline.
SendsBack(c) ==
    /\ h[c].at = "received"
    /\ h[c].mode = "tradeoff"
    /\ s' = [s EXCEPT !.revs = @ + 1]
    /\ h' = [h EXCEPT ![c].at = "back"]
    /\ UNCHANGED <<rev, done, abort>> /\ ServerOnly

SentBack(c) ==
    /\ h[c].at = "back"
    /\ s' = [s EXCEPT !.revs = @ - 1]
    /\ h' = [h EXCEPT ![c].at = "leave"]
    /\ UNCHANGED <<rev, done, abort>> /\ ServerOnly

\* The stream is taken off and, when it was the last one, the test is closed;
\* the events are emitted after the lock is released.
Leaves(c) ==
    /\ \/ h[c].at = "leave"
       \/ h[c].at = "received" /\ h[c].mode # "tradeoff"
    /\ LET x == [s EXCEPT !.streams = @ - 1]
       IN  /\ s' = IF Over(x) THEN Closed(x) ELSE x
           /\ h' = [h EXCEPT ![c].at = IF Over(x) THEN "emit" ELSE "end",
                             ![c].pay = IF Over(x) THEN Payload(x) ELSE NoPayload]
    /\ UNCHANGED <<rev, done, abort>> /\ ServerOnly

Emits(c) ==
    /\ h[c].at = "emit"
    /\ done' = Emitted(h[c].pay)
    /\ h' = [h EXCEPT ![c].at = "end", ![c].pay = NoPayload]
    /\ UNCHANGED <<s, rev, abort>> /\ ServerOnly

\* spawn_reverse_senders: a sender ends by its deadline or its failure to
\* connect, and closes the test when it is the last of all.
ReverseEnds_Silently(t) ==
    /\ rev[t] > 0
    /\ rev' = [rev EXCEPT ![t] = @ - 1]
    /\ s' = [s EXCEPT !.revs = @ - 1]
    /\ UNCHANGED <<h, done, abort>> /\ ServerOnly

ReverseEnds(t) ==
    /\ rev[t] > 0
    /\ rev' = [rev EXCEPT ![t] = @ - 1]
    /\ LET x == [s EXCEPT !.revs = @ - 1]
       IN  /\ s' = IF Over(x) THEN Closed(x) ELSE x
           /\ done' = IF Over(x) THEN Emitted(Payload(x)) ELSE done
    /\ UNCHANGED <<h, abort>> /\ ServerOnly

\* tick_session: an interval is reported; when the announced duration and its
\* grace are over, or nothing has come for that long, the test is killed.
Tick ==
    /\ s.started
    /\ ~abort
    /\ \/ ~s.kill /\ s' = [s EXCEPT !.kill = TRUE]
       \/ s.prev < s.total /\ s' = [s EXCEPT !.prev = s.total]
    /\ UNCHANGED <<h, rev, done, abort>> /\ ServerOnly

\* The server is stopped: the flag, and the loop kills the test in progress.
Stops ==
    /\ ~abort
    /\ abort' = TRUE
    /\ s' = [s EXCEPT !.kill = @ \/ s.started]
    /\ UNCHANGED <<h, rev, done>> /\ ServerOnly

----------------------------------------------------------------------------
(* The client *)

\* client_handshake: every address is tried; a stream without a connection
\* adds to connect_failures.
Connects(i) ==
    /\ st[i].at = "connect"
    /\ \/ st' = [st EXCEPT ![i].at = "send"] /\ ~main.abort /\ UNCHANGED main
       \/ /\ st' = [st EXCEPT ![i].at = "end"]
          /\ main' = [main EXCEPT !.failed = @ + 1]
    /\ ClientOnly

\* send_loop
Sends(i) ==
    /\ st[i].at = "send"
    /\ ~main.abort
    /\ st[i].sent < MaxBytes
    /\ st' = [st EXCEPT ![i].sent = @ + 1]
    /\ UNCHANGED main /\ ClientOnly

\* It ends by the flag, a failed or stalled write, or its deadline; with -r
\* the stream goes on to receive, to its own deadline.
Heeds_Never == FALSE

Heeds == main.abort

SendEnds(i) ==
    /\ st[i].at \in {"send", "back"}
    /\ \/ Heeds
       \/ main.dual \/ st[i].sent > 0
    /\ st' = [st EXCEPT ![i].at = IF main.dual /\ st[i].at = "send" THEN "back" ELSE "end"]
    /\ UNCHANGED main /\ ClientOnly

\* iperf_client_stop or the shutdown of the session raise the flag.
ClientStops ==
    /\ main.at = "run"
    /\ ~main.abort
    /\ main' = [main EXCEPT !.abort = TRUE]
    /\ UNCHANGED st /\ ClientOnly

\* The main loop ends by its time, the flag, or when no stream connected; it
\* raises the flag for the threads.
MainEnds ==
    /\ main.at = "run"
    /\ main' = [main EXCEPT !.at = "join", !.abort = TRUE,
                            !.ok = main.failed < Cardinality(Stream)]
    /\ UNCHANGED st /\ ClientOnly

\* join_handles_with_timeout: the threads have ended; a stream that is still
\* connecting outlives the wait.  The total is read afterwards.
Joined == \A i \in Stream : st[i].at \in {"end", "connect"}

MainReports ==
    /\ main.at = "join"
    /\ Joined
    /\ main' = [main EXCEPT !.at = "end",
                            !.bytes = MapThenSumSet(LAMBDA i : st[i].sent, Stream)]
    /\ UNCHANGED st /\ ClientOnly

\* The direction is a parameter of the run.
ChoosesDual ==
    /\ ~main.dual
    /\ \A i \in Stream : st[i].at = "connect"
    /\ main.at = "run" /\ ~main.abort /\ main.failed = 0
    /\ main' = [main EXCEPT !.dual = TRUE]
    /\ UNCHANGED st /\ ClientOnly

----------------------------------------------------------------------------
HandlerRuns == \E c \in Handler :
    \/ ShakeFails(c) \/ Counts(c) \/ Announces(c) \/ PeerLeaves(c) \/ StallEnds(c)
    \/ SendsBack(c) \/ SentBack(c) \/ Leaves(c) \/ Emits(c)

ServerNext ==
    \/ HandlerRuns
    \/ \E c \in Handler : Accept(c) \/ Receives(c)
    \/ \E t \in Tests : ReverseEnds(t)
    \/ Tick \/ Stops

ClientRuns ==
    \/ \E i \in Stream : Connects(i) \/ SendEnds(i)
    \/ MainEnds \/ MainReports

ClientNext == ClientRuns \/ ClientStops \/ ChoosesDual \/ \E i \in Stream : Sends(i)

Next == ServerNext \/ ClientNext

\* A handler that has not stalled moves on, a reverse sender meets its
\* deadline, and the accept loop ticks.
ServerProgress == HandlerRuns \/ (\E t \in Tests : ReverseEnds(t)) \/ (Tick /\ s'.kill # s.kill)

Spec == Init /\ [][Next]_itvars /\ WF_itvars(ServerProgress) /\ WF_itvars(ClientRuns)

----------------------------------------------------------------------------
(* Properties *)

\* The units a test received: of each of its connections, as many as it got.
Units(t) == {u \in Handler \X (1 .. MaxBytes) : h[u[1]].test = t /\ u[2] <= h[u[1]].got}

Carried(t) == Cardinality(Units(t))

Pending(t) == \E c \in Handler : h[c].pay.test = t

\* A test is closed once, with what its streams carried: while the streams
\* and the reverse senders of a test and the first stream of the next one
\* race, its done event is emitted at most once, and the total it reports is
\* the sum of what the test's own connections received.
TestsAccounted ==
    \A t \in Tests :
        /\ done[t] \subseteq {Carried(t)}
        /\ done[t] # {} => ~(s.started /\ s.test = t) /\ ~Pending(t) /\ rev[t] = 0

\* Every test that started gets its done event, when the peer stalls, when
\* the server is stopped and when the last to end is a reverse sender; and
\* the client's run reports, whatever its streams are doing.
Awaited(t) == s.started /\ s.test = t
Reached(t) == done[t] # {}
Sending == main.at = "run"
Reported == main.at = "end"
============================================================================
