----------------------------- MODULE RttRuntime -----------------------------
(***************************************************************************)
(* The life of one RTT session: RttRuntime::start and shutdown_inner, the  *)
(* worker thread and its command queue (plugins/rtt/runtime.rs, worker.rs),*)
(* the SystemView decoders attached to it (systemview.rs), and the         *)
(* connecting task, the cleanup and the callers that hold the runtime      *)
(* (plugins/rtt/mod.rs, commands.rs).  The session is registered before    *)
(* start, so it can be closed while start runs.  One channel carries       *)
(* SystemView; what the channels hold is in RttStream and RttChannels.     *)
(***************************************************************************)
EXTENDS Naturals, Sequences, FiniteSets, SequencesExt

CONSTANTS Caller,      \* commands of the front end, one call each (bound of the model)
          None,        \* no decoder
          Capacity,    \* COMMAND_QUEUE_CAPACITY
          MaxPending,  \* MAX_PENDING_WRITES
          Overlap      \* shutdown_inner may run between start's spawn and its store

Attacher == Caller \union {"connect"}

VARIABLES run,       \* the fields of RttRuntime and the phase of the snapshot
          worker,    \* where the worker thread is, its fatal error, whom it answers
          startup,   \* what came through startup_tx
          queue,     \* the command channel
          pending,   \* writes the worker has taken over
          connect,   \* where connect_session is
          sd,        \* where connect and teardown are in shutdown_inner
          call,      \* what every caller is doing
          dec,       \* the decoder each attacher started
          observer,  \* the attacher whose decoder is in the systemview map
          reported   \* notify_unexpected_disconnect was called

rrvars == <<run, worker, startup, queue, pending, connect, sd, call, dec, observer, reported>>

NoDecoder == [st |-> "none", subscribed |-> FALSE, stop |-> FALSE, asked |-> FALSE]

Init ==
    /\ run = [closed |-> FALSE, stopping |-> FALSE, exited |-> FALSE, tx |-> FALSE, handle |-> FALSE,
              context |-> FALSE, suppressed |-> FALSE, dropped |-> FALSE, phase |-> "idle"]
    /\ worker = [pc |-> "none", fatal |-> FALSE, answer |-> FALSE] /\ startup = "none"
    /\ queue = <<>> /\ pending = <<>>
    /\ connect = "check" /\ sd = [connect |-> "idle", teardown |-> "idle"]
    /\ call = [c \in Caller |-> [pc |-> "new", op |-> "none"]]
    /\ dec = [a \in Attacher |-> NoDecoder] /\ observer = None /\ reported = FALSE

Decoding == {a \in Attacher : dec[a].st = "running"}
(* The command channel is connected: the runtime and every decoder's       *)
(* metadata_refresh hold a sender.                                         *)
Senders == run.tx \/ Decoding # {} \/ \E a \in DOMAIN sd : sd[a] = "send"
(* shutdown_inner holds the lock of command_tx from the take to the reply. *)
TxLocked == \E a \in DOMAIN sd : sd[a] \in {"send", "reply"}

------------------------------------------------------------------------------
(* start_systemview_observer and stop_systemview_observer *)

(* A decoder needs a context and a sender; inserting it drops, and so      *)
(* stops, the one it replaces.                                             *)
Attach(a) ==
    IF observer # None \/ ~run.context \/ ~run.tx
    THEN UNCHANGED <<dec, observer>>
    ELSE dec' = [dec EXCEPT ![a] = [NoDecoder EXCEPT !.st = "running", !.subscribed = TRUE]] /\ observer' = a

StopObserver ==
    /\ observer' = None
    /\ dec' = IF observer = None THEN dec ELSE [dec EXCEPT ![observer].stop = TRUE]

(* run_decoder: the loop ends with the flag or with the subscription.      *)
DecoderEnds(a) ==
    /\ dec[a].st = "running" /\ (dec[a].stop \/ ~dec[a].subscribed)
    /\ dec' = [dec EXCEPT ![a].st = "ended"]
    /\ UNCHANGED <<run, worker, startup, queue, pending, connect, sd, call, observer, reported>>
(* metadata_refresh: nobody waits for the answer, and METADATA_RETRY_DELAYS *)
(* has an end (here after one).                                            *)
DecoderRefreshes(a) ==
    /\ dec[a].st = "running" /\ ~dec[a].stop /\ ~dec[a].asked /\ Len(queue) < Capacity /\ worker.pc # "gone"
    /\ dec' = [dec EXCEPT ![a].asked = TRUE]
    /\ queue' = Append(queue, [op |-> "write", by |-> None])
    /\ UNCHANGED <<run, worker, startup, pending, connect, sd, call, observer, reported>>

------------------------------------------------------------------------------
(* connect_session and start *)
ConnectCheck ==
    /\ connect = "check"
    /\ connect' = IF run.closed THEN "fail" ELSE "spawn"
    /\ UNCHANGED <<run, worker, startup, queue, pending, sd, call, dec, observer, reported>>
ConnectSpawn ==
    /\ connect = "spawn" /\ connect' = "store" /\ (Overlap \/ sd.teardown \in {"idle", "done"})
    /\ run' = [run EXCEPT !.stopping = FALSE, !.exited = FALSE, !.suppressed = FALSE, !.context = TRUE]
    /\ worker' = [worker EXCEPT !.pc = "opening"]
    /\ UNCHANGED <<startup, queue, pending, sd, call, dec, observer, reported>>
ConnectStore ==
    /\ connect = "store" /\ ~TxLocked /\ connect' = "wait"
    /\ run' = [run EXCEPT !.tx = TRUE, !.handle = TRUE]
    /\ UNCHANGED <<worker, startup, queue, pending, sd, call, dec, observer, reported>>
(* The answer of the worker, or the time is up.                            *)
ConnectWait ==
    /\ connect = "wait"
    /\ \/ startup = "ok" /\ connect' = "sync" /\ UNCHANGED sd
       \/ startup = "err" /\ connect' = "fail" /\ UNCHANGED sd
       \/ startup = "none" /\ connect' = "abort" /\ sd' = [sd EXCEPT !.connect = "begin"]
    /\ UNCHANGED <<run, worker, startup, queue, pending, call, dec, observer, reported>>
ConnectAbort ==
    /\ connect = "abort" /\ sd.connect = "done" /\ connect' = "fail"
    /\ UNCHANGED <<run, worker, startup, queue, pending, sd, call, dec, observer, reported>>
ConnectSync ==
    /\ connect = "sync" /\ ~TxLocked /\ connect' = "done"
    /\ IF run.suppressed THEN UNCHANGED <<dec, observer>> ELSE Attach("connect")
    /\ UNCHANGED <<run, worker, startup, queue, pending, sd, call, reported>>
(* cleanup_failed_session: close_if_current does nothing the second time.  *)
ConnectFail ==
    /\ connect = "fail" /\ connect' = "done"
    /\ sd' = IF sd.teardown = "idle" THEN [sd EXCEPT !.teardown = "begin"] ELSE sd
    /\ UNCHANGED <<run, worker, startup, queue, pending, call, dec, observer, reported>>
Connects == ConnectCheck \/ ConnectSpawn \/ ConnectStore \/ ConnectWait \/ ConnectAbort \/ ConnectSync \/ ConnectFail

(* The user closes the session.                                            *)
Close ==
    /\ sd.teardown = "idle" /\ sd' = [sd EXCEPT !.teardown = "begin"] /\ (Overlap \/ connect # "store")
    /\ UNCHANGED <<run, worker, startup, queue, pending, connect, call, dec, observer, reported>>

------------------------------------------------------------------------------
(* shutdown_inner, of the cleanup (permanent) or of a start that timed out *)

Goes(a, pc) == sd' = [sd EXCEPT ![a] = pc]

SdBegin(a) ==
    /\ sd[a] = "begin"
    /\ IF run.stopping
       THEN run' = [run EXCEPT !.closed = @ \/ a = "teardown"] /\ Goes(a, "done") /\ UNCHANGED <<dec, observer>>
       ELSE /\ run' = [run EXCEPT !.closed = @ \/ a = "teardown", !.stopping = TRUE,
                                  !.phase = IF run.exited /\ @ = "faulted" THEN @ ELSE "stopping"]
            /\ StopObserver /\ Goes(a, "observers")
    /\ UNCHANGED <<worker, startup, queue, pending, connect, call, reported>>
(* The decoder just stopped has ended; the sender is taken.                *)
SdTake(a) ==
    /\ sd[a] = "observers" /\ ~TxLocked /\ \A d \in Decoding : ~dec[d].stop
    /\ run' = [run EXCEPT !.tx = FALSE]
    /\ Goes(a, IF run.tx /\ ~run.exited THEN "send" ELSE "join")
    /\ UNCHANGED <<worker, startup, queue, pending, connect, call, dec, observer, reported>>
SdSend_Try(a) ==
    /\ sd[a] = "send"
    /\ \/ (worker.pc = "gone" \/ Len(queue) >= Capacity) /\ Goes(a, "join") /\ UNCHANGED queue
       \/ /\ worker.pc # "gone" /\ Len(queue) < Capacity /\ Goes(a, "reply")
          /\ queue' = Append(queue, [op |-> "shutdown", by |-> None])
    /\ UNCHANGED <<run, worker, startup, pending, connect, call, dec, observer, reported>>
(* a blocking send: it waits for room, or for the receiver to go           *)
SdSend(a) ==
    /\ sd[a] = "send"
    /\ \/ worker.pc = "gone" /\ Goes(a, "join") /\ UNCHANGED queue
       \/ /\ worker.pc # "gone" /\ Len(queue) < Capacity /\ Goes(a, "reply")
          /\ queue' = Append(queue, [op |-> "shutdown", by |-> None])
    /\ UNCHANGED <<run, worker, startup, pending, connect, call, dec, observer, reported>>
(* the answer, or two seconds                                              *)
SdReply(a) ==
    /\ sd[a] = "reply" /\ Goes(a, "join")
    /\ UNCHANGED <<run, worker, startup, queue, pending, connect, call, dec, observer, reported>>
SdJoin(a) ==
    /\ sd[a] = "join" /\ (run.handle => worker.pc = "gone")
    /\ run' = [run EXCEPT !.handle = FALSE] /\ Goes(a, "close")
    /\ UNCHANGED <<worker, startup, queue, pending, connect, call, dec, observer, reported>>
(* raw_source.close ends every subscription; set_stopped unless faulted    *)
SdClose(a) ==
    /\ sd[a] = "close" /\ Goes(a, "done")
    /\ dec' = [d \in Attacher |-> [dec[d] EXCEPT !.subscribed = FALSE]]
    /\ run' = [run EXCEPT !.context = FALSE, !.phase = IF @ = "faulted" THEN @ ELSE "idle"]
    /\ UNCHANGED <<worker, startup, queue, pending, connect, call, observer, reported>>
ShutsDown == \E a \in DOMAIN sd : SdBegin(a) \/ SdTake(a) \/ SdSend(a) \/ SdReply(a) \/ SdJoin(a) \/ SdClose(a)

(* The last holder lets go: the sender goes with the runtime, and Drop     *)
(* stops the decoder in the map.                                           *)
Drop ==
    /\ connect = "done" /\ sd.teardown = "done" /\ ~run.dropped
    /\ \A c \in Caller : call[c].pc \in {"new", "done"}
    /\ run' = [run EXCEPT !.dropped = TRUE, !.tx = FALSE]
    /\ StopObserver
    /\ UNCHANGED <<worker, startup, queue, pending, connect, sd, call, reported>>

------------------------------------------------------------------------------
(* Commands of the front end *)

Ends(c) == call' = [call EXCEPT ![c] = [pc |-> "done", op |-> @.op]]
Registered == ~run.dropped /\ sd.teardown # "done"
(* write_internal and refresh_channels: try_send                           *)
Send(c, op) ==
    /\ call[c].pc = "new" /\ Registered /\ ~TxLocked
    /\ IF ~run.tx \/ worker.pc = "gone" \/ Len(queue) >= Capacity
       THEN call' = [call EXCEPT ![c] = [pc |-> "done", op |-> op]] /\ UNCHANGED queue
       ELSE /\ queue' = Append(queue, [op |-> op, by |-> c])
            /\ call' = [call EXCEPT ![c] = [pc |-> "waiting", op |-> op]]
    /\ UNCHANGED <<run, worker, startup, pending, connect, sd, dec, observer, reported>>
(* the answer, a sender that went away, or the time is up; a refresh that  *)
(* was answered brings the observers up to date                            *)
Answered(c) ==
    /\ call[c].pc \in {"waiting", "answered"} /\ Ends(c)
    /\ IF call[c].pc = "answered" /\ call[c].op = "refresh" /\ ~run.suppressed
       THEN ~TxLocked /\ Attach(c) ELSE UNCHANGED <<dec, observer>>
    /\ UNCHANGED <<run, worker, startup, queue, pending, connect, sd, reported>>
SystemviewAttach(c) ==
    /\ call[c].pc = "new" /\ Registered /\ ~TxLocked
    /\ call' = [call EXCEPT ![c] = [pc |-> "done", op |-> "attach"]]
    /\ run' = [run EXCEPT !.suppressed = FALSE] /\ Attach(c)
    /\ UNCHANGED <<worker, startup, queue, pending, connect, sd, reported>>
SystemviewDetach(c) ==
    /\ call[c].pc = "new" /\ Registered
    /\ call' = [call EXCEPT ![c] = [pc |-> "joining", op |-> "detach"]]
    /\ run' = [run EXCEPT !.suppressed = TRUE] /\ StopObserver
    /\ UNCHANGED <<worker, startup, queue, pending, connect, sd, reported>>
Detached(c) ==
    /\ call[c].pc = "joining" /\ \A d \in Decoding : ~dec[d].stop
    /\ Ends(c)
    /\ UNCHANGED <<run, worker, startup, queue, pending, connect, sd, dec, observer, reported>>
CallerRuns(c) == Answered(c) \/ Detached(c)
Calls(c) == Send(c, "write") \/ Send(c, "refresh") \/ SystemviewAttach(c) \/ SystemviewDetach(c)

------------------------------------------------------------------------------
(* The worker *)

Reply(c) == IF c = None \/ call[c].pc # "waiting" THEN call ELSE [call EXCEPT ![c].pc = "answered"]

Opened ==
    /\ worker.pc = "opening"
    /\ worker' = [worker EXCEPT !.pc = "serving"] /\ startup' = "ok" /\ run' = [run EXCEPT !.phase = "running"]
    /\ UNCHANGED <<queue, pending, connect, sd, call, dec, observer, reported>>
OpenFailed ==
    /\ worker.pc = "opening"
    /\ worker' = [worker EXCEPT !.pc = "gone"] /\ startup' = "err"
    /\ run' = [run EXCEPT !.phase = "faulted", !.exited = TRUE] /\ queue' = <<>>
    /\ UNCHANGED <<pending, connect, sd, call, dec, observer, reported>>
(* one command of the loop; MAX_PENDING_WRITES refuses a write             *)
Serve ==
    /\ worker.pc = "serving" /\ queue # <<>> /\ queue' = Tail(queue)
    /\ CASE Head(queue).op = "write" /\ Len(pending) < MaxPending ->
                pending' = Append(pending, Head(queue).by) /\ UNCHANGED <<run, worker, call>>
         [] Head(queue).op = "write" /\ Len(pending) >= MaxPending ->
                call' = Reply(Head(queue).by) /\ UNCHANGED <<run, worker, pending>>
         [] Head(queue).op = "refresh" ->
                /\ call' = Reply(Head(queue).by) /\ UNCHANGED <<worker, pending>>
                /\ run' \in {run, [run EXCEPT !.phase = "running"]}
         [] Head(queue).op = "shutdown" ->
                worker' = [worker EXCEPT !.pc = "ending", !.answer = TRUE] /\ UNCHANGED <<run, pending, call>>
    /\ UNCHANGED <<startup, connect, sd, dec, observer, reported>>
Orphaned ==
    /\ worker.pc = "serving" /\ queue = <<>> /\ ~Senders
    /\ worker' = [worker EXCEPT !.pc = "ending"]
    /\ UNCHANGED <<run, startup, queue, pending, connect, sd, call, dec, observer, reported>>
PollFails ==
    /\ worker.pc = "serving" /\ worker' = [worker EXCEPT !.pc = "ending", !.fatal = TRUE]
    /\ UNCHANGED <<run, startup, queue, pending, connect, sd, call, dec, observer, reported>>
(* service_one_write: done or too late; part of it; an unknown outcome     *)
ServiceOneWrite ==
    /\ worker.pc = "serving" /\ pending # <<>>
    /\ \/ pending' = Tail(pending) /\ call' = Reply(Head(pending)) /\ UNCHANGED worker
       \/ pending' = Append(Tail(pending), Head(pending)) /\ UNCHANGED <<call, worker>>
       \/ /\ pending' = Tail(pending) /\ call' = Reply(Head(pending))
          /\ worker' = [worker EXCEPT !.pc = "ending", !.fatal = TRUE]
    /\ UNCHANGED <<run, startup, queue, connect, sd, dec, observer, reported>>
(* cancel_pending_writes, then set_error or set_stopped; the loss is       *)
(* reported unless somebody is shutting down                               *)
Winds ==
    /\ worker.pc = "ending" /\ worker' = [worker EXCEPT !.pc = "ended"]
    /\ pending' = <<>> /\ call' = [c \in Caller |-> IF \E i \in DOMAIN pending : pending[i] = c THEN Reply(c)[c] ELSE call[c]]
    /\ run' = [run EXCEPT !.phase = IF worker.fatal THEN "faulted" ELSE "idle"]
    /\ reported' = (worker.fatal /\ ~run.stopping)
    /\ UNCHANGED <<startup, queue, connect, sd, dec, observer>>
(* worker_exited, and the receiver goes: what is queued is never answered  *)
Gone ==
    /\ worker.pc = "ended" /\ worker' = [worker EXCEPT !.pc = "gone"]
    /\ run' = [run EXCEPT !.exited = TRUE] /\ queue' = <<>>
    /\ UNCHANGED <<startup, pending, connect, sd, call, dec, observer, reported>>
(* mark_disconnected and the cleanup it schedules                          *)
LossCleanup ==
    /\ reported /\ sd.teardown = "idle" /\ Goes("teardown", "begin")
    /\ UNCHANGED <<run, worker, startup, queue, pending, connect, call, dec, observer, reported>>
(* A write that makes no progress does not keep commands waiting.          *)
WorkerRuns == Opened \/ OpenFailed \/ Serve \/ Orphaned \/ Winds \/ Gone

Next ==
    \/ Connects \/ Close \/ ShutsDown \/ Drop \/ WorkerRuns \/ ServiceOneWrite \/ PollFails \/ LossCleanup
    \/ \E c \in Caller : Calls(c) \/ CallerRuns(c)
    \/ \E a \in Attacher : DecoderEnds(a) \/ DecoderRefreshes(a)

(* Everything here is a thread of its own; only closing, failing and       *)
(* calling are choices.                                                    *)
Works == Connects \/ ShutsDown \/ Drop \/ LossCleanup \/ \E c \in Caller : CallerRuns(c)
DecodersEnd == \E a \in Attacher : DecoderEnds(a)
Spec == Init /\ [][Next]_rrvars /\ WF_rrvars(WorkerRuns) /\ WF_rrvars(Works) /\ WF_rrvars(DecodersEnd)

------------------------------------------------------------------------------
(* Nothing of a closed session goes on: whoever closes it and whenever -   *)
(* while start runs, while it times out, after the target was lost, with   *)
(* decoders just attached - the worker lets go of the probe, every decoder *)
(* ends and every call returns (shutdown_inner, Drop, the worker's loop).  *)
Closed == run.closed
Settled ==
    /\ worker.pc \in {"none", "gone"} /\ Decoding = {}
    /\ run.phase \in {"idle", "faulted"} /\ \A c \in Caller : call[c].pc \in {"new", "done"}
(* A target lost while nobody closes the session is reported, and closes   *)
(* it.                                                                     *)
Lost == worker.fatal
Reported == run.closed \/ run.stopping
=============================================================================
