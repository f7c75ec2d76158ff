---------------------------- MODULE IperfServer ----------------------------
(***************************************************************************)
(* The iperf runtime of a session (plugins/iperf): the life of the server  *)
(* thread (try_start_server, iperf_server_stop, shutdown, the thread that  *)
(* spawn_iperf_server starts) and the guard that keeps the client's rounds *)
(* apart (iperf_client_run, run_iperf_client).                             *)
(*                                                                         *)
(* A start holds `lifecycle` across its wait for the previous thread; Stop *)
(* takes the same lock, shutdown does not.  The thread reads the abort     *)
(* flag, which every generation shares, and writes its end back only while *)
(* its generation is current.  The engines are in Iperf2Tcp and Iperf2Udp. *)
(***************************************************************************)
EXTENDS Naturals, FiniteSets

CONSTANTS
    Call,       \* the commands iperf_server_start / iperf_server_stop
    Thread,     \* server threads, one per successful start
    Round,      \* the commands iperf_client_run
    None

VARIABLES
    rt,         \* the flags of IperfRuntime, its handle and its lifecycle lock
    th,         \* the server threads
    call,       \* the start and stop commands
    port,       \* the thread that holds the listening port, or None
    shown,      \* the last iperf-server-status the front end received
    rnd,        \* the client's rounds
    client      \* client_test_running and client_abort_flag

isvars == <<rt, th, call, port, shown, rnd, client>>

Init ==
    /\ rt = [running |-> FALSE, abort |-> FALSE, handle |-> None, epoch |-> 0,
             lock |-> None, shut |-> FALSE]
    /\ th = [t \in Thread |-> [at |-> "free", epoch |-> 0]]
    /\ call = [c \in Call |-> [at |-> "idle", entry |-> FALSE, joins |-> None]]
    /\ port = None
    /\ shown = FALSE
    /\ rnd = [r \in Round |-> "idle"]
    /\ client = [running |-> FALSE, abort |-> FALSE]

CallTo(c, at) == call' = [call EXCEPT ![c].at = at]
ThreadTo(t, at) == th' = [th EXCEPT ![t].at = at]

----------------------------------------------------------------------------
(* try_start_server *)

\* The lock, then the place holder: the compare-and-exchange on
\* server_running.  A second start returns its error.  The handle is taken
\* out before the wait.
StartEnter(c) ==
    /\ call[c].at = "idle"
    /\ ~rt.shut
    /\ rt.lock = None
    /\ \/ /\ rt.running
          /\ CallTo(c, "end")
          /\ UNCHANGED rt
       \/ /\ ~rt.running
          /\ call' = [call EXCEPT ![c] = [at |-> "join", entry |-> rt.abort,
                                          joins |-> rt.handle]]
          /\ rt' = [rt EXCEPT !.lock = c, !.running = TRUE, !.handle = None]
    /\ UNCHANGED <<th, port, shown, rnd, client>>

\* join_server_handle: the thread has ended, or the fifteen seconds are over.
\* The listening loop polls the flag every 50 ms, so only a thread that is
\* closing down can still be there when the wait ends.
StartJoined(c) ==
    /\ call[c].at = "join"
    /\ call[c].joins # None => th[call[c].joins].at \in {"drain", "leave", "exited"}
    /\ CallTo(c, "check")
    /\ UNCHANGED <<rt, th, port, shown, rnd, client>>

\* A stop that came during the wait is respected, if the flag was down when
\* the start began.
GivesUp(c) == ~call[c].entry /\ rt.abort

StartChecks(c) ==
    /\ call[c].at = "check"
    /\ IF GivesUp(c)
         THEN CallTo(c, "end") /\ rt' = [rt EXCEPT !.lock = None]
         ELSE CallTo(c, "spawn") /\ UNCHANGED rt
    /\ UNCHANGED <<th, port, shown, rnd, client>>

\* The flag is lowered, the generation raised, the thread spawned and its
\* handle kept.
StartSpawns(c) ==
    /\ call[c].at = "spawn"
    /\ \E t \in Thread :
         /\ th[t].at = "free"
         /\ th' = [th EXCEPT ![t] = [at |-> "spawned", epoch |-> rt.epoch + 1]]
         /\ rt' = [rt EXCEPT !.abort = FALSE, !.epoch = @ + 1, !.handle = t,
                             !.lock = None]
    /\ CallTo(c, "end")
    /\ UNCHANGED <<port, shown, rnd, client>>

\* iperf_server_stop, under the same lock.
Stop(c) ==
    /\ call[c].at = "idle"
    /\ ~rt.shut
    /\ rt.lock = None
    /\ rt' = [rt EXCEPT !.abort = TRUE, !.running = FALSE]
    /\ shown' = FALSE
    /\ CallTo(c, "end")
    /\ UNCHANGED <<th, port, rnd, client>>

\* IperfRuntime::shutdown, when the session is closed; it takes no lock.  The
\* disconnection itself tells the front end.
Shutdown ==
    /\ ~rt.shut
    /\ rt' = [rt EXCEPT !.shut = TRUE, !.epoch = @ + 1, !.abort = TRUE, !.running = FALSE]
    /\ client' = [running |-> FALSE, abort |-> TRUE]
    /\ shown' = FALSE
    /\ UNCHANGED <<th, call, port, rnd>>

----------------------------------------------------------------------------
(* The thread of spawn_iperf_server *)

\* Every write back of an ending thread is gated by its generation.
Current_Always(t) == TRUE

Current(t) == rt.epoch = th[t].epoch

WritesBack(t) ==
    /\ rt' = IF Current(t) THEN [rt EXCEPT !.running = FALSE] ELSE rt
    /\ shown' = IF Current(t) THEN FALSE ELSE shown
    /\ ThreadTo(t, "exited")

ThreadBegins(t) ==
    /\ th[t].at = "spawned"
    /\ IF rt.abort
         THEN WritesBack(t)
         ELSE ThreadTo(t, "go") /\ UNCHANGED <<rt, shown>>
    /\ UNCHANGED <<call, port, rnd, client>>

ThreadClaims(t) ==
    /\ th[t].at = "go"
    /\ rt' = [rt EXCEPT !.running = TRUE]
    /\ ThreadTo(t, "bind")
    /\ UNCHANGED <<call, port, shown, rnd, client>>

\* The engine binds and announces itself; a port that is in use is an error.
ThreadBinds(t) ==
    /\ th[t].at = "bind"
    /\ \/ port = None /\ port' = t /\ shown' = TRUE /\ ThreadTo(t, "serve")
       \/ ThreadTo(t, "leave") /\ UNCHANGED <<port, shown>>
    /\ UNCHANGED <<rt, call, rnd, client>>

\* The engine's loop leaves when it sees the flag, waits for its handlers and
\* drops the listener.
Sees_Never(t) == FALSE

Sees(t) == rt.abort

ThreadStops(t) ==
    /\ th[t].at = "serve"
    /\ Sees(t)
    /\ ThreadTo(t, "drain")
    /\ UNCHANGED <<rt, call, port, shown, rnd, client>>

ThreadDrains(t) ==
    /\ th[t].at = "drain"
    /\ ThreadTo(t, "leave")
    /\ port' = None
    /\ UNCHANGED <<rt, call, shown, rnd, client>>

ThreadLeaves(t) ==
    /\ th[t].at = "leave"
    /\ WritesBack(t)
    /\ UNCHANGED <<call, port, rnd, client>>

----------------------------------------------------------------------------
(* iperf_client_run and run_iperf_client *)

\* The guard: a round that is still running is aborted and waited for.
RunEnter(r) ==
    /\ rnd[r] = "idle"
    /\ ~rt.shut
    /\ IF client.running
         THEN client' = [client EXCEPT !.abort = TRUE] /\ rnd' = [rnd EXCEPT ![r] = "wait"]
         ELSE rnd' = [rnd EXCEPT ![r] = "pass"] /\ UNCHANGED client
    /\ UNCHANGED <<rt, th, call, port, shown>>

\* The flag is polled every 50 ms for ten seconds; then the run is refused.
RunWaits(r) ==
    /\ rnd[r] = "wait"
    /\ rnd' = [rnd EXCEPT ![r] = IF client.running THEN "refused" ELSE "pass"]
    /\ UNCHANGED <<rt, th, call, port, shown, client>>

\* The flags are set and the task starts: iperf-test-started.
RunGoes(r) ==
    /\ rnd[r] = "pass"
    /\ client' = [running |-> TRUE, abort |-> FALSE]
    /\ rnd' = [rnd EXCEPT ![r] = "started"]
    /\ UNCHANGED <<rt, th, call, port, shown>>

\* The engine ends by its duration, by its failure or because it was aborted;
\* it raises the abort flag for its own threads, and iperf-test-done follows.
RoundDone(r) ==
    /\ rnd[r] = "started"
    /\ rnd' = [rnd EXCEPT ![r] = "done"]
    /\ client' = [client EXCEPT !.abort = TRUE]
    /\ UNCHANGED <<rt, th, call, port, shown>>

\* client_test_running is lowered only after the done event.
RoundOver(r) ==
    /\ rnd[r] = "done"
    /\ rnd' = [rnd EXCEPT ![r] = "over"]
    /\ client' = [client EXCEPT !.running = FALSE]
    /\ UNCHANGED <<rt, th, call, port, shown>>

\* iperf_client_stop
ClientStop ==
    /\ ~client.abort
    /\ client' = [client EXCEPT !.abort = TRUE]
    /\ UNCHANGED <<rt, th, call, port, shown, rnd>>

----------------------------------------------------------------------------
ServerRuns ==
    \/ \E c \in Call : StartJoined(c) \/ StartChecks(c) \/ StartSpawns(c)
    \/ \E t \in Thread :
         \/ ThreadBegins(t) \/ ThreadClaims(t) \/ ThreadBinds(t)
         \/ ThreadStops(t) \/ ThreadDrains(t) \/ ThreadLeaves(t)

RoundRuns == \E r \in Round : RunWaits(r) \/ RunGoes(r) \/ RoundDone(r) \/ RoundOver(r)

Asked ==
    \/ \E c \in Call : StartEnter(c) \/ Stop(c)
    \/ Shutdown
    \/ \E r \in Round : RunEnter(r)
    \/ ClientStop

Next == ServerRuns \/ RoundRuns \/ Asked

Progress == ServerRuns \/ RoundRuns

Spec == Init /\ [][Next]_isvars /\ WF_isvars(Progress)

----------------------------------------------------------------------------
(* Properties *)

Starting == \E c \in Call : call[c].at \in {"join", "check", "spawn"}
Moving == \E t \in Thread : th[t].at \in {"spawned", "go", "bind", "drain", "leave"}
Listening == \E t \in Thread : th[t].at = "serve"

\* In an open session that has come to rest - no start in progress, no thread
\* on its way, no stop still to be seen - server_running, the last status the
\* front end was sent and the thread that holds the port agree: a thread that
\* outlived the fifteen seconds of a restart does not overwrite the state of
\* its successor, and a server is never shown that does not listen.
StatusAgrees ==
    (~rt.shut /\ ~Starting /\ ~Moving /\ ~(Listening /\ rt.abort))
        => /\ rt.running = Listening
           /\ shown = Listening
           /\ Listening = (port # None)

\* A stop takes effect: once the flag is up - by Stop, or by the shutdown of
\* the session - and no start is in flight, the server that listens leaves.
Awaited == rt.abort /\ ~Starting
Reached == ~Listening

\* Two rounds of the client never overlap: the second one starts after the
\* first one's done event.
RoundsApart == Cardinality({r \in Round : rnd[r] = "started"}) <= 1
============================================================================
