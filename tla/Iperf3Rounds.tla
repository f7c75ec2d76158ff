---------------------------- MODULE Iperf3Rounds ----------------------------
(***************************************************************************)
(* The iperf3 server and client (plugins/iperf/iperf3/mod.rs).  The        *)
(* library runs one test per round and pushes an interval per second into  *)
(* a channel; a consumer thread turns the intervals into events, the main  *)
(* thread emits the done event of the round.  A ping, answered by the      *)
(* consumer when its queue is empty, is the barrier between the two.       *)
(***************************************************************************)
EXTENDS Naturals, Sequences

CONSTANTS MaxRounds, MaxIntervals

VARIABLES
    main,       \* the main thread: where it is, its round, the round's base and end
    q,          \* intervals in the channel, by the round they belong to
    emitted,    \* emitted_count
    barrier,    \* pings and acks under way
    abort,      \* abort_flag
    tests       \* per round: intervals pushed and shown, the done event

irvars == <<main, q, emitted, barrier, abort, tests>>

Rounds == 1 .. MaxRounds

Init ==
    /\ main = [at |-> "ready", round |-> 0, base |-> 0, end |-> "none"]
    /\ q = <<>>
    /\ emitted = 0
    /\ barrier = [ping |-> 0, ack |-> 0]
    /\ abort = FALSE
    /\ tests = [k \in Rounds |-> [pushed |-> 0, shown |-> 0, done |-> "none"]]

\* A round begins: iperf-test-started with pending, and the count so far.
Begins ==
    /\ main.at = "ready"
    /\ ~abort
    /\ main.round < MaxRounds
    /\ main' = [at |-> "run", round |-> main.round + 1, base |-> emitted, end |-> "none"]
    /\ UNCHANGED <<q, emitted, barrier, abort, tests>>

\* The library's reporter pushes an interval.
Pushes ==
    /\ main.at = "run"
    /\ tests[main.round].pushed < MaxIntervals
    /\ q' = Append(q, main.round)
    /\ tests' = [tests EXCEPT ![main.round].pushed = @ + 1]
    /\ UNCHANGED <<main, emitted, barrier, abort>>

\* run_once returns: the report, the interruption, or a client that failed.
Returns ==
    /\ main.at = "run"
    /\ \E end \in {"ok", "failed"} :
         main' = [main EXCEPT !.at = "wait", !.end = IF end = "failed" /\ abort
                                                       THEN "aborted" ELSE end]
    /\ barrier' = [barrier EXCEPT !.ping = @ + 1]
    /\ UNCHANGED <<q, emitted, abort, tests>>

\* The consumer: an interval becomes an event and is counted.
Shows ==
    /\ q # <<>>
    /\ tests' = [tests EXCEPT ![Head(q)].shown = @ + 1]
    /\ q' = Tail(q)
    /\ emitted' = emitted + 1
    /\ UNCHANGED <<main, barrier, abort>>

\* The queue was empty for 50 ms: a ping is answered.
Drained_Any == TRUE

Drained == q = <<>>

Answers ==
    /\ Drained
    /\ barrier.ping > 0
    /\ barrier' = [ping |-> barrier.ping - 1, ack |-> barrier.ack + 1]
    /\ UNCHANGED <<main, q, emitted, abort, tests>>

\* After the barrier: the done event - of a failed round only when an interval
\* of it was shown - and the next round, unless the server was stopped.
Tells == main.end = "ok" \/ emitted > main.base

Ends ==
    /\ main.at = "wait"
    /\ barrier.ack > 0
    /\ barrier' = [barrier EXCEPT !.ack = @ - 1]
    /\ tests' = [tests EXCEPT ![main.round].done = IF Tells THEN main.end ELSE "none"]
    /\ main' = [main EXCEPT !.at = IF main.end = "aborted" THEN "quit" ELSE "ready"]
    /\ UNCHANGED <<q, emitted, abort>>

\* The loop sees the flag; the channel is dropped and both threads are joined.
Quits ==
    /\ main.at = "ready"
    /\ abort \/ main.round = MaxRounds
    /\ main' = [main EXCEPT !.at = "quit"]
    /\ UNCHANGED <<q, emitted, barrier, abort, tests>>

Stop ==
    /\ ~abort
    /\ abort' = TRUE
    /\ UNCHANGED <<main, q, emitted, barrier, tests>>

Runs == Begins \/ Returns \/ Shows \/ Answers \/ Ends \/ Quits

Next == Runs \/ Pushes \/ Stop

Progress == Returns \/ Shows \/ Answers \/ Ends \/ Quits

Spec == Init /\ [][Next]_irvars /\ WF_irvars(Progress)

----------------------------------------------------------------------------
(* Properties *)

\* The done event of a round comes after all the interval events of that
\* round, and a round that showed an interval is closed by one: the front end
\* has no record that stays running and none that grows after its end.
DoneIsLast ==
    \A k \in Rounds :
        /\ tests[k].done # "none" => tests[k].shown = tests[k].pushed
        /\ tests[k].shown > 0 /\ (main.round > k \/ main.at \in {"ready", "quit"})
              => tests[k].done # "none"

\* A round always comes to its end, and a stopped server quits.
Waiting == main.at = "wait"
Returned == main.at \in {"ready", "quit"}
Stopped == abort
Left == main.at = "quit"
============================================================================
