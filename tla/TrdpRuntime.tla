---------------------------- MODULE TrdpRuntime ----------------------------
(***************************************************************************)
(* A TRDP session (plugins/trdp.rs): the native bridge process it talks    *)
(* to, the thread that reads the bridge's lines, the commands of the front *)
(* end and the capture the session owns in the process-wide capture store. *)
(*                                                                         *)
(* Every start of the bridge is a generation with a reader thread of its   *)
(* own; nobody joins that thread, so the reader of a bridge that was       *)
(* stopped can still run its closing steps after the next bridge was       *)
(* started. A request is a number: it is entered in pending, written to    *)
(* the bridge, and answered by an acknowledgement, by whoever drains       *)
(* pending, or by its own timeout. What the bridge does with a line is     *)
(* external: it answers or not, and may die at any moment.                 *)
(***************************************************************************)
EXTENDS Naturals, FiniteSets

CONSTANTS Caller,       \* threads running trdp_command
          Connector,    \* the thread running connect_session
          MaxStarts,    \* bridges started in a behaviour
          MaxOps,       \* commands of the front end in a behaviour
          None

VARIABLES mode,         \* "node": started by the connect; "monitor": by the first command
          session,      \* the session store's view of this runtime
          told,         \* events sent to the front end: connected, disconnected
          bridge,       \* per generation: the process and its reader
          flags,        \* the atomics alive, ready, shutting_down, closed
          child,        \* generation in the child slot and in the stdin slot
          locks,        \* holders of start_control and capture_control, and of lifecycle
          pending,      \* requests with a waiter
          asked,        \* requests written to each generation and not answered by it
          store,        \* captures alive in capture_store
          capture,      \* capture_id and capture_running; made: captures created so far
          ops,          \* commands issued, and next_request_id: requests numbered so far
          at,           \* where each thread is
          local         \* its request, answer, previous and new capture

tdvars == <<mode, session, told, bridge, flags, child, locks, pending, asked,
            store, capture, ops, at, local>>

Thread == Caller \union {Connector}
Cleaner == "cleaner"
Gen == 1..MaxStarts
Started == Cardinality({g \in Gen : bridge[g].reader # "none"})

(***************************************************************************)
(* The runtime.                                                            *)
(***************************************************************************)
Blank == [request |-> 0, answer |-> None, op |-> None, previous |-> 0, new |-> 0]

Init ==
    /\ mode \in {"node", "monitor"}
    /\ session = "open"
    /\ told = [connected |-> FALSE, disconnected |-> FALSE]
    /\ bridge = [g \in Gen |-> [up |-> FALSE, reader |-> "none"]]
    /\ flags = [alive |-> FALSE, ready |-> FALSE, shutting |-> FALSE, closed |-> FALSE]
    /\ child = 0
    /\ locks = [start |-> None, control |-> None, lifecycle |-> 0]
    /\ pending = {}
    /\ asked = [g \in Gen |-> {}]
    /\ store = {}
    /\ capture = [id |-> 0, running |-> FALSE, made |-> 0]
    /\ ops = [issued |-> 0, requests |-> 0]
    /\ at = [t \in Thread \union {Cleaner} |->
               IF t = Connector /\ mode = "node" THEN "start"
               ELSE IF t = Connector THEN "announce"
               ELSE "idle"]
    /\ local = [t \in Thread |-> Blank]

Goes(t, label) == at' = [at EXCEPT ![t] = label]

\* Who is told what by a drain of the pending requests: an error for everyone.
Drained == [t \in Thread |-> IF local[t].request \in pending
                             THEN [local[t] EXCEPT !.answer = "err"] ELSE local[t]]

\* release_owned_capture
ReleaseOwned ==
    /\ capture' = [capture EXCEPT !.id = 0, !.running = FALSE]
    /\ store' = store \ {capture.id}

(***************************************************************************)
(* request: the waiter is entered first, then the line is written; without *)
(* a live bridge or its stdin the waiter is taken out and the request      *)
(* fails at once.                                                          *)
(***************************************************************************)
\* next_request_id
Fresh == ops.requests + 1

CanSend == flags.alive /\ child # 0

Ask(t, label) ==
    /\ ops' = [ops EXCEPT !.requests = Fresh]
    /\ IF CanSend
       THEN /\ pending' = pending \union {Fresh}
            /\ asked' = [asked EXCEPT ![child] =
                           IF bridge[child].up THEN @ \union {Fresh} ELSE @]
       ELSE UNCHANGED <<pending, asked>>
    /\ local' = [local EXCEPT ![t].request = Fresh,
                              ![t].answer = IF CanSend THEN None ELSE "err"]
    /\ Goes(t, label)

\* recv_timeout runs out: the waiter leaves.
TimesOut(t) ==
    /\ local[t].request \in pending
    /\ pending' = pending \ {local[t].request}
    /\ local' = [local EXCEPT ![t].answer = "err"]
    /\ UNCHANGED <<mode, session, told, bridge, flags, child, locks, asked, store,
                   capture, ops, at>>

(***************************************************************************)
(* start.                                                                  *)
(***************************************************************************)
Entry(t) == IF t = Connector THEN "announce" ELSE "operate"
Failure(t) == IF t = Connector THEN "failed" ELSE "idle"

StartEnter(t) ==
    /\ at[t] = "start"
    /\ locks.start = None
    /\ \/ /\ flags.closed
          /\ Goes(t, Failure(t))
          /\ UNCHANGED locks
       \/ /\ ~flags.closed /\ child # 0
          /\ Goes(t, IF flags.ready THEN Entry(t) ELSE Failure(t))
          /\ UNCHANGED locks
       \/ /\ ~flags.closed /\ child = 0
          /\ \/ Started < MaxStarts /\ Goes(t, "spawn") /\ locks' = [locks EXCEPT !.start = t]
             \/ Goes(t, Failure(t)) /\ UNCHANGED locks       \* no usable bridge
    /\ UNCHANGED <<mode, session, told, bridge, flags, child, pending, asked, store,
                   capture, ops, local>>

\* The process runs and sits in its slots; its reader does not run yet.
StartSpawn(t) ==
    /\ at[t] = "spawn"
    /\ LET g == Started + 1
       IN /\ bridge' = [bridge EXCEPT ![g] = [up |-> TRUE, reader |-> "unborn"]]
          /\ child' = g
    /\ Goes(t, "recheck")
    /\ UNCHANGED <<mode, session, told, flags, locks, pending, asked, store, capture,
                   ops, local>>

StartRecheck(t) ==
    /\ at[t] = "recheck"
    /\ Goes(t, IF flags.closed THEN "stop" ELSE "arm")
    /\ UNCHANGED <<mode, session, told, bridge, flags, child, locks, pending, asked,
                   store, capture, ops, local>>

Armed_StillShutting == [flags EXCEPT !.ready = FALSE, !.alive = TRUE]

Armed == [flags EXCEPT !.shutting = FALSE, !.ready = FALSE, !.alive = TRUE]

StartArm(t) ==
    /\ at[t] = "arm"
    /\ flags' = Armed
    /\ bridge' = [bridge EXCEPT ![Started].reader = "reading"]
    /\ Goes(t, "open")
    /\ UNCHANGED <<mode, session, told, child, locks, pending, asked, store, capture,
                   ops, local>>

StartOpen(t) ==
    /\ at[t] = "open"
    /\ Ask(t, "opening")
    /\ UNCHANGED <<mode, session, told, bridge, flags, child, locks, store, capture>>

Usable == flags.ready /\ flags.alive

StartEnds(t) ==
    /\ at[t] = "opening"
    /\ local[t].answer # None
    /\ \/ /\ local[t].answer = "ok" /\ Usable
          /\ locks' = [locks EXCEPT !.start = None]
          /\ local' = [local EXCEPT ![t] = [Blank EXCEPT !.op = local[t].op]]
          /\ Goes(t, Entry(t))
       \/ /\ ~(local[t].answer = "ok" /\ Usable)
          /\ Goes(t, "stop")
          /\ UNCHANGED <<locks, local>>
    /\ UNCHANGED <<mode, session, told, bridge, flags, child, pending, asked, store,
                   capture, ops>>

(***************************************************************************)
(* stop_process, by a start that failed and by the session's shutdown.     *)
(***************************************************************************)
StopAsk(t) ==
    /\ at[t] = "stop"
    /\ flags' = [flags EXCEPT !.closed = @ \/ t = Cleaner, !.shutting = TRUE,
                              !.ready = FALSE]
    /\ Goes(t, "kill")
    /\ UNCHANGED <<mode, session, told, bridge, child, locks, pending, asked, store,
                   capture, ops, local>>

StopKill(t) ==
    /\ at[t] = "kill"
    /\ bridge' = IF child = 0 THEN bridge ELSE [bridge EXCEPT ![child].up = FALSE]
    /\ child' = 0
    /\ flags' = [flags EXCEPT !.alive = FALSE]
    /\ Goes(t, "clear")
    /\ UNCHANGED <<mode, session, told, locks, pending, asked, store, capture, ops, local>>

ControlFree == locks.control = None

StopClear(t) ==
    /\ at[t] = "clear"
    /\ ControlFree
    /\ ReleaseOwned
    /\ local' = [u \in Thread |-> IF u = t THEN Blank ELSE Drained[u]]
    /\ pending' = {}
    /\ locks' = [locks EXCEPT !.start = IF @ = t THEN None ELSE @]
    /\ Goes(t, IF t = Cleaner THEN "done" ELSE Failure(t))
    /\ UNCHANGED <<mode, session, told, bridge, flags, child, asked, ops>>

(***************************************************************************)
(* The reader thread of a generation.                                      *)
(***************************************************************************)
\* An ack or an error line: it answers the waiter it still finds, and an
\* acknowledged open makes the runtime ready.
ReaderLine(g) ==
    /\ bridge[g].reader = "reading"
    /\ \E r \in asked[g] :
          /\ asked' = [asked EXCEPT ![g] = @ \ {r}]
          /\ \/ r \notin pending /\ UNCHANGED <<pending, local, flags>>
             \/ \E t \in Thread, result \in {"ok", "err"} :
                   /\ r \in pending /\ local[t].request = r
                   /\ pending' = pending \ {r}
                   /\ local' = [local EXCEPT ![t].answer = result]
                   /\ flags' = [flags EXCEPT !.ready =
                                  @ \/ (result = "ok" /\ at[t] = "opening")]
    /\ UNCHANGED <<mode, session, told, bridge, child, locks, store, capture, ops, at>>

\* External: the bridge exits on its own.
BridgeDies(g) ==
    /\ bridge[g].up
    /\ bridge' = [bridge EXCEPT ![g].up = FALSE]
    /\ UNCHANGED <<mode, session, told, flags, child, locks, pending, asked, store,
                   capture, ops, at, local>>

\* The end of the output: whatever the bridge still wrote may have been lost.
ReaderEof(g) ==
    /\ bridge[g].reader = "reading" /\ ~bridge[g].up
    /\ locks.lifecycle = 0
    /\ locks' = [locks EXCEPT !.lifecycle = g]
    /\ bridge' = [bridge EXCEPT ![g].reader = "ending"]
    /\ flags' = [flags EXCEPT !.alive = FALSE]
    /\ ReleaseOwned
    /\ local' = Drained
    /\ pending' = {}
    /\ asked' = [asked EXCEPT ![g] = {}]
    /\ UNCHANGED <<mode, session, told, child, ops, at>>

\* A bridge that was ready and is not being stopped is a lost connection.
ReaderEnds(g) ==
    /\ bridge[g].reader = "ending"
    /\ bridge' = [bridge EXCEPT ![g].reader = "done"]
    /\ locks' = [locks EXCEPT !.lifecycle = 0]
    /\ flags' = [flags EXCEPT !.ready = FALSE]
    /\ LET lost == flags.ready /\ ~flags.shutting /\ session = "open"
       IN /\ session' = IF lost THEN "lost" ELSE session
          /\ at' = IF lost THEN [at EXCEPT ![Cleaner] = "stop"] ELSE at
          /\ told' = [told EXCEPT !.disconnected = @ \/ (lost /\ told.connected)]
    /\ UNCHANGED <<mode, child, pending, asked, store, capture, ops, local>>

(***************************************************************************)
(* connect_session.                                                        *)
(***************************************************************************)
\* Under the lifecycle lock the runtime is looked at once more and announced;
\* publish_session_connected refuses a runtime that is no longer connected.
Announce ==
    /\ at[Connector] = "announce"
    /\ locks.lifecycle = 0
    /\ \/ /\ mode = "node" => flags.alive /\ flags.ready
          /\ told' = [told EXCEPT !.connected = session = "open"]
          /\ Goes(Connector, "idle")
       \/ /\ mode = "node" /\ ~(flags.alive /\ flags.ready)
          /\ Goes(Connector, "failed")
          /\ UNCHANGED told
    /\ UNCHANGED <<mode, session, bridge, flags, child, locks, pending, asked, store,
                   capture, ops, local>>

\* close_if_current, for a connect that failed and for the user's disconnect.
Close ==
    /\ session = "open"
    /\ session' = "closed"
    /\ at' = [at EXCEPT ![Cleaner] = "stop",
                        ![Connector] = IF @ = "failed" THEN "idle" ELSE @]
    /\ UNCHANGED <<mode, told, bridge, flags, child, locks, pending, asked, store,
                   capture, ops, local>>

ConnectGivesUp ==
    /\ at[Connector] = "failed" /\ session # "open"
    /\ Goes(Connector, "idle")
    /\ UNCHANGED <<mode, session, told, bridge, flags, child, locks, pending, asked,
                   store, capture, ops, local>>

(***************************************************************************)
(* trdp_command: the operations that go to the bridge.                     *)
(***************************************************************************)
Op == {"capture_start", "capture_stop", "capture_release", "other"}

Command(t) ==
    /\ t \in Caller /\ at[t] = "idle"
    /\ ops.issued < MaxOps /\ session = "open"
    /\ ops' = [ops EXCEPT !.issued = @ + 1]
    /\ \E op \in Op :
          /\ local' = [local EXCEPT ![t] = [Blank EXCEPT !.op = op]]
          /\ Goes(t, IF op = "capture_release" THEN "release"
                     ELSE IF child = 0 THEN "start" ELSE "operate")
    /\ UNCHANGED <<mode, session, told, bridge, flags, child, locks, pending, asked,
                   store, capture>>

\* capture_release: refused while a capture runs.
Release(t) ==
    /\ at[t] = "release" /\ locks.control = None
    /\ IF capture.running THEN UNCHANGED <<capture, store>> ELSE ReleaseOwned
    /\ Goes(t, "idle")
    /\ UNCHANGED <<mode, session, told, bridge, flags, child, locks, pending, asked,
                   ops, local>>

\* capture_start takes the control lock and makes a new capture.
CaptureBegin(t) ==
    /\ at[t] = "operate" /\ local[t].op = "capture_start" /\ locks.control = None
    /\ \/ capture.running /\ Goes(t, "idle") /\ UNCHANGED <<store, locks, local, capture>>
       \/ /\ ~capture.running
          /\ store' = store \union {capture.made + 1}
          /\ capture' = [capture EXCEPT !.made = @ + 1]
          /\ local' = [local EXCEPT ![t].previous = capture.id, ![t].new = capture.made + 1]
          /\ locks' = [locks EXCEPT !.control = t]
          /\ Goes(t, "asking")
    /\ UNCHANGED <<mode, session, told, bridge, flags, child, pending, asked, ops>>

CaptureAsk(t) ==
    /\ at[t] = "asking"
    /\ capture' = [capture EXCEPT !.id = local[t].new]
    /\ Ask(t, "waiting")
    /\ UNCHANGED <<mode, session, told, bridge, flags, child, locks, store>>

\* capture_stop waits under the control lock too; other operations hold nothing.
Operate(t) ==
    /\ at[t] = "operate" /\ local[t].op \in {"capture_stop", "other"}
    /\ local[t].op = "capture_stop" => locks.control = None
    /\ locks' = IF local[t].op = "other" THEN locks ELSE [locks EXCEPT !.control = t]
    /\ Ask(t, "waiting")
    /\ UNCHANGED <<mode, session, told, bridge, flags, child, store, capture>>

\* The answer: a start that succeeded drops the capture it replaced, one that
\* failed drops the new capture and puts the previous one back.
Answered(t) ==
    /\ at[t] = "waiting" /\ local[t].answer # None
    /\ LET ok == local[t].answer = "ok"
       IN CASE local[t].op = "capture_start" ->
                 /\ store' = store \ {IF ok THEN local[t].previous ELSE local[t].new}
                 /\ capture' = IF ok THEN [capture EXCEPT !.running = TRUE]
                               ELSE [capture EXCEPT !.id = local[t].previous]
            [] local[t].op = "capture_stop" ->
                 /\ capture' = [capture EXCEPT !.running = @ /\ ~ok]
                 /\ UNCHANGED store
            [] OTHER -> UNCHANGED <<store, capture>>
    /\ locks' = [locks EXCEPT !.control = IF @ = t THEN None ELSE @]
    /\ local' = [local EXCEPT ![t] = Blank]
    /\ Goes(t, "idle")
    /\ UNCHANGED <<mode, session, told, bridge, flags, child, pending, asked, ops>>

(***************************************************************************)
(* The specification.                                                      *)
(***************************************************************************)
ThreadRuns(t) ==
    \/ TimesOut(t)
    \/ StartEnter(t) \/ StartSpawn(t) \/ StartRecheck(t) \/ StartArm(t)
    \/ StartOpen(t) \/ StartEnds(t)
    \/ Release(t) \/ CaptureBegin(t) \/ CaptureAsk(t) \/ Operate(t) \/ Answered(t)

Stops(t) == StopAsk(t) \/ StopKill(t) \/ StopClear(t)

ReaderRuns == \E g \in Gen : ReaderLine(g) \/ ReaderEof(g) \/ ReaderEnds(g)

Progress ==
    \/ \E t \in Thread : ThreadRuns(t)
    \/ \E t \in Thread \union {Cleaner} : Stops(t)
    \/ ReaderRuns \/ Announce \/ ConnectGivesUp
    \/ (at[Connector] = "failed" /\ Close)

Next == Progress \/ Close \/ (\E t \in Caller : Command(t)) \/ (\E g \in Gen : BridgeDies(g))

Spec == Init /\ [][Next]_tdvars /\ WF_tdvars(Progress)

(***************************************************************************)
(* Properties.                                                             *)
(***************************************************************************)
Quiet == /\ \A t \in Thread : at[t] = "idle"
         /\ \A g \in Gen : bridge[g].reader \in {"none", "done"}
                           \/ (bridge[g].reader = "reading" /\ bridge[g].up)

\* Once a session has been shut down and its threads are at rest, the capture
\* store keeps none of its captures: neither the one it owned nor the one a
\* capture_start that was still waiting had set aside (stop_process and
\* capture_start against each other and against the reader's closing steps).
CapturesReleased ==
    at[Cleaner] = "done" /\ (\A t \in Thread : at[t] = "idle") => store = {}

\* A session that stays open never keeps a bridge nobody can use: whenever its
\* threads are at rest and the bridge in its slot is up or its end was read,
\* that bridge is alive and ready (start's checks against the reader's end).
OpenIsUsable ==
    session = "open" /\ Quiet /\ child # 0 => flags.alive /\ flags.ready

\* Every shutdown comes to its end, and so does every command.
Awaited == session # "open"
Reached == at[Cleaner] = "done" /\ \A t \in Thread : at[t] = "idle"
=============================================================================
