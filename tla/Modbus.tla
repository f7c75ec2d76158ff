------------------------------- MODULE Modbus -------------------------------
(***************************************************************************)
(* The Modbus plugin: a client session (plugins/modbus/client.rs), its     *)
(* watch scheduler (polling.rs), the commands of mod.rs, and the simulator *)
(* at the other end of the line (server.rs, data_model.rs).                *)
(* The synchronous commands run on the main thread, one at a time; the     *)
(* scheduler's workers and the teardown of the session run beside it.  All *)
(* of them share one transaction engine.  Functions, addresses and values  *)
(* are left out: a request is a read or a write, its destination is defined*)
(* in the simulator or not.                                                *)
(***************************************************************************)
EXTENDS Naturals, Sequences, FiniteSets

CONSTANTS Worker,        \* threads of the scheduler, one per effective start
          ReadRetries,   \* read_retries
          RetryWrites,   \* retry_writes
          MaxRequests,   \* requests sent in one session (bound of the model)
          MaxStarts      \* watch_start and watch_stop commands (bound of the model)

None == "none"
Main == "main"
Quiet == [by |-> None, write |-> FALSE, attempt |-> 0, sent |-> {}, pc |-> "idle"]

VARIABLES mode,      \* "tcp" or "serial"
          tx,        \* the transaction in progress: who holds transaction_guard, the attempt
          tid,       \* next_transaction_id (serial lines carry none)
          wire,      \* requests on their way to the server
          replies,   \* events of the client's subscription
          link,      \* "open", "broken"; "closed" once the client dropped it
          server,    \* fault injection and the definition of the destination
          ran,       \* writes the server has executed
          done,      \* finished writes of the user
          watch,     \* WatchScheduler: running flag, worker slot, a new worker, owner of the slot's lock
          worker,    \* [Worker -> "new", "loop", "ended"]
          main,      \* the command on the main thread
          down,      \* the teardown of the session
          starts

mbvars == <<mode, tx, tid, wire, replies, link, server, ran, done, watch, worker, main, down, starts>>
line == <<mode, tid, wire, replies, link, server, ran>>
threads == <<watch, worker, main, down, starts>>

Init ==
    /\ mode \in {"tcp", "serial"}
    /\ tx = Quiet /\ tid = 1 /\ wire = <<>> /\ replies = <<>> /\ link = "open"
    /\ server = [fault |-> "none", defined |-> TRUE] /\ ran = {} /\ done = {}
    /\ watch = [running |-> FALSE, slot |-> None, new |-> None, lock |-> None]
    /\ worker = [w \in Worker |-> "new"]
    /\ main = "idle" /\ down = "no" /\ starts = 0

------------------------------------------------------------------------------
(* ModbusClient *)

(* execute, by the main thread (modbus_execute) or a worker *)
Begin(c, write) ==
    /\ tx.by = None /\ tid <= MaxRequests
    /\ tx' = [by |-> c, write |-> write, attempt |-> 0, sent |-> {}, pc |-> "start"]
    /\ UNCHANGED <<line, done>>

(* The result goes to history and, of a write, to the user.                *)
Finish(status, unknown) ==
    /\ tx' = Quiet
    /\ done' = IF tx.write THEN done \cup {[sent |-> tx.sent, status |-> status, unknown |-> unknown]}
               ELSE done
(* Only a timeout or a transport error is tried again, writes only if      *)
(* configured.                                                             *)
Retries == IF tx.write /\ ~RetryWrites THEN 0 ELSE ReadRetries
FailOrRetry(status, unknown) ==
    IF tx.attempt < Retries THEN tx' = [tx EXCEPT !.attempt = @ + 1, !.pc = "start"] /\ UNCHANGED done
    ELSE Finish(status, unknown)

(* execute_once up to the write: a request that is not valid for the line  *)
(* is refused before it is sent; the subscription is kept for the session, *)
(* and the lock on it until the attempt is over.                           *)
Send ==
    /\ tx.pc = "start" /\ tid <= MaxRequests
    /\ tid' = tid + 1
    /\ \/ tx.attempt = 0 /\ Finish("refused", FALSE) /\ UNCHANGED wire
       \/ link = "closed" /\ Finish("cancelled", FALSE) /\ UNCHANGED wire
       \/ link = "broken" /\ FailOrRetry("transport", tx.write) /\ UNCHANGED wire
       \/ /\ link = "open"
          /\ wire' = Append(wire, [tid |-> tid, write |-> tx.write])
          /\ tx' = [tx EXCEPT !.sent = @ \cup {tid}, !.pc = "wait"] /\ UNCHANGED done
    /\ UNCHANGED <<mode, replies, link, server, ran, threads>>

(* execute_raw_adu: the bytes are sent as they are, the first answer of    *)
(* any kind is the result, there is no retry.                              *)
RawBegin ==
    /\ tx.by = None /\ tid <= MaxRequests
    /\ tx' = [by |-> Main, write |-> FALSE, attempt |-> ReadRetries, sent |-> {}, pc |-> "raw"]
    /\ UNCHANGED <<line, done>>
RawSend ==
    /\ tx.pc = "raw"
    /\ IF link = "open" THEN /\ wire' = Append(wire, [tid |-> 0, write |-> FALSE])
                             /\ tx' = [tx EXCEPT !.pc = "wait"] /\ UNCHANGED done
       ELSE Finish("failed", FALSE) /\ UNCHANGED wire
    /\ tid' = tid + 1
    /\ UNCHANGED <<mode, replies, link, server, ran, threads>>

(* receive_tcp passes over answers to earlier requests.                    *)
Reply == Head(replies)
Mine_Any == TRUE
Mine == \A t \in tx.sent : t <= Reply.tid
ReceiveTcp ==
    /\ mode = "tcp" /\ tx.pc = "wait" /\ replies # <<>>
    /\ replies' = Tail(replies)
    /\ CASE Reply.kind = "closed" -> FailOrRetry("transport", tx.write)
         [] Reply.kind # "closed" /\ Mine -> Finish(Reply.kind, FALSE)
         [] OTHER -> UNCHANGED <<tx, done>>
    /\ UNCHANGED <<mode, tid, wire, link, server, ran, threads>>

(* receive_rtu and receive_ascii cannot tell answers apart; an answer may  *)
(* arrive damaged.                                                         *)
ReceiveSerial ==
    /\ mode = "serial" /\ tx.pc = "wait" /\ replies # <<>>
    /\ replies' = Tail(replies)
    /\ \/ Reply.kind = "closed" /\ FailOrRetry("transport", tx.write)
       \/ Reply.kind # "closed" /\ Finish(Reply.kind, FALSE)
       \/ Reply.kind # "closed" /\ Finish("malformed", FALSE)
    /\ UNCHANGED <<mode, tid, wire, link, server, ran, threads>>

(* the deadline of the attempt *)
Expire ==
    /\ tx.pc = "wait" /\ FailOrRetry("timeout", tx.write)
    /\ UNCHANGED <<line, threads>>

------------------------------------------------------------------------------
(* ModbusServer *)

(* write_existing: a write goes to defined addresses as a whole or is      *)
(* refused.                                                                *)
Writable == server.defined
(* execute_with_fault: a forced exception executes nothing.                *)
Executes == server.fault # "exception" /\ Writable
(* An answer that is suppressed or cannot be sent leaves its effect.       *)
Respond ==
    replies' = IF server.fault = "no_response" \/ link # "open" THEN replies
               ELSE Append(replies, [tid |-> Head(wire).tid,
                                     kind |-> IF Executes THEN "success" ELSE "exception"])
Process ==
    /\ ran' = IF Executes /\ Head(wire).write THEN ran \cup {Head(wire).tid} ELSE ran
    /\ Respond

ServeTcp ==
    /\ mode = "tcp" /\ wire # <<>> /\ wire' = Tail(wire) /\ Process
    /\ UNCHANGED <<mode, tx, tid, link, server, done, threads>>

(* a damaged frame is ignored *)
ServeSerial ==
    /\ mode = "serial" /\ wire # <<>> /\ wire' = Tail(wire)
    /\ Process \/ UNCHANGED <<ran, replies>>
    /\ UNCHANGED <<mode, tx, tid, link, server, done, threads>>

(* modbus_server_set_value at the other end: a point is defined, or fault  *)
(* injection is changed.                                                   *)
SetServer(f, d) ==
    /\ server = [fault |-> "none", defined |-> TRUE] /\ wire # <<>>
    /\ server' = [fault |-> f, defined |-> d]
    /\ UNCHANGED <<mode, tx, tid, wire, replies, link, ran, done, threads>>

LinkBreaks ==
    /\ link = "open" /\ link' = "broken"
    /\ replies' = Append(replies, [tid |-> 0, kind |-> "closed"])
    /\ UNCHANGED <<mode, tx, tid, wire, server, ran, done, threads>>

------------------------------------------------------------------------------
(* WatchScheduler.  stop keeps the lock of the worker slot while it joins. *)

Workers == {w \in Worker : worker[w] = "loop"}

UserRequest(write) ==
    /\ main = "idle" /\ down # "ended"
    /\ Begin(Main, write) \/ (~write /\ RawBegin)
    /\ main' = "execute" /\ UNCHANGED <<watch, worker, down, starts>>
UserResult ==
    /\ main = "execute" /\ tx.by # Main
    /\ main' = "idle" /\ UNCHANGED <<tx, line, done, watch, worker, down, starts>>

(* start: running.swap(true), then a new worker *)
WatchStart ==
    /\ main = "idle" /\ down # "ended" /\ starts < MaxStarts /\ starts' = starts + 1
    /\ IF watch.running THEN UNCHANGED <<watch, worker, main>>
       ELSE \E w \in Worker :
              /\ worker[w] = "new" /\ worker' = [worker EXCEPT ![w] = "loop"]
              /\ watch' = [watch EXCEPT !.running = TRUE, !.new = w]
              /\ main' = "keep"
    /\ UNCHANGED <<tx, line, done, down>>
WatchKept ==
    /\ main = "keep" /\ watch.lock = None
    /\ watch' = [watch EXCEPT !.slot = watch.new, !.new = None]
    /\ main' = "idle" /\ UNCHANGED <<tx, line, done, worker, down, starts>>

(* stop, by the command or by the teardown *)
StopBegins == watch' = [watch EXCEPT !.running = FALSE]
Joining(c) ==
    /\ watch.lock = None
    /\ watch' = [watch EXCEPT !.lock = IF watch.slot = None THEN None ELSE c]
Joined(c) ==
    /\ watch.lock = c /\ worker[watch.slot] = "ended"
    /\ watch' = [watch EXCEPT !.lock = None, !.slot = None]

WatchStop ==
    /\ main = "idle" /\ down # "ended" /\ starts < MaxStarts /\ starts' = starts + 1
    /\ StopBegins /\ main' = "stopping" /\ UNCHANGED <<tx, line, done, worker, down>>
WatchStopTakes ==
    /\ main = "stopping" /\ Joining(Main)
    /\ main' = IF watch.slot = None THEN "idle" ELSE "joining"
    /\ UNCHANGED <<tx, line, done, worker, down, starts>>
WatchStopped ==
    /\ main = "joining" /\ Joined(Main)
    /\ main' = "idle" /\ UNCHANGED <<tx, line, done, worker, down, starts>>

(* The loop of a worker: looks at the flag, polls a row or sleeps.         *)
WorkerEnds(w) ==
    /\ w \in Workers /\ ~watch.running /\ tx.by # w
    /\ worker' = [worker EXCEPT ![w] = "ended"]
    /\ UNCHANGED <<tx, line, done, watch, main, down, starts>>
Poll(w) ==
    /\ w \in Workers /\ watch.running /\ Begin(w, FALSE)
    /\ UNCHANGED threads

------------------------------------------------------------------------------
(* ModbusRuntime::shutdown: the scheduler is stopped, then the client      *)
(* drops its subscription, once no attempt uses it, and its runtime.       *)
Teardown ==
    /\ \/ down = "no" /\ StopBegins /\ down' = "stopping" /\ UNCHANGED link
       \/ /\ down = "stopping" /\ Joining(down) /\ UNCHANGED link
          /\ down' = IF watch.slot = None THEN "client" ELSE "joining"
       \/ /\ down = "joining" /\ Joined("stopping") /\ down' = "client" /\ UNCHANGED link
       \/ /\ down = "client" /\ tx.pc # "wait" /\ link' = "closed" /\ down' = "ended" /\ UNCHANGED watch
    /\ UNCHANGED <<tx, mode, tid, wire, replies, server, ran, done, worker, main, starts>>

------------------------------------------------------------------------------
ClientRuns == Send \/ RawSend \/ ReceiveTcp \/ ReceiveSerial \/ Expire
MainRuns == UserResult \/ WatchKept \/ WatchStopTakes \/ WatchStopped
TeardownRuns == down # "no" /\ Teardown

Next ==
    \/ ClientRuns \/ MainRuns \/ Teardown \/ ServeTcp \/ ServeSerial \/ LinkBreaks
    \/ SetServer("exception", TRUE) \/ SetServer("no_response", TRUE) \/ SetServer("none", FALSE)
    \/ \E write \in BOOLEAN : UserRequest(write)
    \/ WatchStart \/ WatchStop
    \/ \E w \in Worker : WorkerEnds(w) \/ Poll(w)

Spec ==
    /\ Init /\ [][Next]_mbvars
    /\ WF_mbvars(ClientRuns) /\ WF_mbvars(MainRuns) /\ WF_mbvars(TeardownRuns)
    /\ \A w \in Worker : WF_mbvars(WorkerEnds(w))

------------------------------------------------------------------------------
(* Properties *)

(* What the user is told of a write over TCP is true: a success was        *)
(* executed, and once; a write that failed without "outcome unknown" has   *)
(* not been executed and will not be, although a late request or answer    *)
(* may still be on its way and the teardown may come between two attempts. *)
Pending(d) == \E i \in 1..Len(wire) : wire[i].tid \in d.sent
OutcomeTold ==
    mode = "tcp" => \A d \in done :
        /\ d.status = "success" => d.sent \cap ran # {}
        /\ ~RetryWrites => Cardinality(d.sent) <= 1
        /\ d.status # "success" /\ ~d.unknown => d.sent \cap ran = {} /\ ~Pending(d)

(* A transaction ends: nobody keeps the engine for good.                   *)
Awaited == tx.by # None /\ tid <= MaxRequests
Reached == tx.by = None \/ tid > MaxRequests
=============================================================================
