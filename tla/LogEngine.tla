------------------------------ MODULE LogEngine ------------------------------
(***************************************************************************)
(* The logging runtime: kernel/log_engine.rs, kernel/log_writer.rs and the *)
(* log commands of commands.rs.  Producers never block: an entry of a      *)
(* session or of the system log first takes one of the reserved places of  *)
(* its kind and is then put into the one bounded queue, which the commands *)
(* share.  One consumer thread owns the writers; it reads the settings     *)
(* before it waits for the next entry, so they may be old when it gets it. *)
(* Contents, levels and formats of lines are left out.                     *)
(***************************************************************************)
EXTENDS Naturals, Sequences, FiniteSets

CONSTANTS Session,      \* sessions whose data may be logged
          Producer,     \* threads that log
          SessionLimit, \* SESSION_QUEUE_SOFT_LIMIT
          SystemLimit,  \* SYSTEM_QUEUE_SOFT_LIMIT
          Capacity,     \* LOG_QUEUE_CAPACITY
          MaxSegments,  \* segments the log directory holds (bound of the model)
          MaxFaults     \* failing writes, timeouts (bound of the model)

VARIABLES queue,        \* the shared queue
          pending,      \* SESSION_PENDING and SYSTEM_PENDING
          producer,     \* [Producer -> reserved place: "none", "data" or "sys"]
          setting,      \* session_enabled: of the config, of the producers' flag
          update,       \* the update_log_config in progress
          starter,      \* the start_session_log in progress
          active,       \* ACTIVE_SESSION_LOGS
          writers,      \* open segments, [log -> segment], 0 is none
          disk,         \* segments in the log directory
          consumer,     \* the consumer thread and the setting it read
          faults

SystemLog == 0
Log == Session \cup {SystemLog}

lvars == <<queue, pending, producer, setting, update, starter, active, writers, disk, consumer, faults>>

Entries(kind) == Cardinality({i \in 1..Len(queue) : queue[i].kind = kind})
Reserved(kind) == Cardinality({p \in Producer : producer[p].kind = kind})
Commands == Len(queue) - Entries("data") - Entries("sys")

Entry(kind, s) == [kind |-> kind, s |-> s]
Nobody == [kind |-> "none", s |-> 0]
Fault == faults < MaxFaults /\ faults' = faults + 1

Init ==
    /\ queue = <<>> /\ pending = [data |-> 0, sys |-> 0]
    /\ producer = [p \in Producer |-> Nobody]
    /\ setting = [config |-> TRUE, flag |-> TRUE]
    /\ update = [pc |-> "idle", to |-> TRUE]
    /\ starter = [pc |-> "idle", s |-> 0]
    /\ active = {} /\ writers = [l \in Log |-> 0] /\ disk = {}
    /\ consumer = [pc |-> "off", enabled |-> TRUE]
    /\ faults = 0

(* try_send *)
HasRoom == Len(queue) < Capacity
Put(e) == HasRoom /\ queue' = Append(queue, e)

------------------------------------------------------------------------------
(* Producers: try_send_session_log, try_send_system_event *)

Limit_Shared(kind) == Capacity
Limit(kind) == IF kind = "data" THEN SessionLimit ELSE SystemLimit

(* The checks and try_reserve; without a free place the entry is counted   *)
(* as lost.                                                                *)
Reserve(p, e) ==
    /\ producer[p] = Nobody
    /\ e.kind = "data" => setting.flag /\ e.s \in active
    /\ pending[e.kind] < Limit(e.kind)
    /\ pending' = [pending EXCEPT ![e.kind] = @ + 1]
    /\ producer' = [producer EXCEPT ![p] = e]
    /\ UNCHANGED <<queue, setting, update, starter, active, writers, disk, consumer, faults>>

Enqueue(p) ==
    /\ producer[p] # Nobody
    /\ producer' = [producer EXCEPT ![p] = Nobody]
    /\ \/ Put(producer[p]) /\ UNCHANGED pending
       \/ ~HasRoom /\ UNCHANGED queue /\ pending' = [pending EXCEPT ![producer[p].kind] = @ - 1]
    /\ UNCHANGED <<setting, update, starter, active, writers, disk, consumer, faults>>

------------------------------------------------------------------------------
(* Commands of the user *)

(* set_log_dir starts the consumer, once.                                  *)
SetLogDir ==
    /\ consumer.pc = "off"
    /\ consumer' = [consumer EXCEPT !.pc = "read"]
    /\ UNCHANGED <<queue, pending, producer, setting, update, starter, active, writers, disk, faults>>

(* start_session_log: the setting is looked at under the engine's lock,    *)
(* the request is put into the queue after it.                             *)
StartCheck(s) ==
    /\ starter.pc = "idle" /\ update.pc = "idle" /\ setting.config
    /\ starter' = [pc |-> "checked", s |-> s]
    /\ UNCHANGED <<queue, pending, producer, setting, update, active, writers, disk, consumer, faults>>

StartSend ==
    /\ starter.pc = "checked"
    /\ \/ Put(Entry("start", starter.s)) /\ starter' = [starter EXCEPT !.pc = "waiting"]
       \/ ~HasRoom /\ UNCHANGED queue /\ starter' = [starter EXCEPT !.pc = "failed"]
    /\ UNCHANGED <<pending, producer, setting, update, active, writers, disk, consumer, faults>>

(* recv_timeout gives up after 3 s; the answer may still be put into the   *)
(* channel until the receiver is gone.                                     *)
StartExpires ==
    /\ starter.pc = "waiting" /\ Fault
    /\ starter' = [starter EXCEPT !.pc = "expired"]
    /\ UNCHANGED <<queue, pending, producer, setting, update, active, writers, disk, consumer>>

StartReturns ==
    /\ starter.pc \in {"expired", "ok", "failed"}
    /\ starter' = IF starter.pc = "expired" THEN [starter EXCEPT !.pc = "failed"] ELSE [pc |-> "idle", s |-> 0]
    /\ UNCHANGED <<queue, pending, producer, setting, update, active, writers, disk, consumer, faults>>

StopSession(s) ==
    /\ s \in active /\ Entries("stop") = 0 /\ Put(Entry("stop", s))
    /\ UNCHANGED <<pending, producer, setting, update, starter, active, writers, disk, consumer, faults>>

ClearAllLogs ==
    /\ disk # {} /\ Commands = 0 /\ Put(Entry("clear", 0))
    /\ UNCHANGED <<pending, producer, setting, update, starter, active, writers, disk, consumer, faults>>

(* update_log_config, under the engine's lock: disabling needs room for a  *)
(* StopAllSessions, and is refused without (the file is then written back);*)
(* it turns the producers off before the new setting is published.         *)
UpdateConfig(v) ==
    /\ update.pc = "idle" /\ v # setting.config
    /\ IF v THEN UNCHANGED <<queue, setting>>
       ELSE Put(Entry("stopall", 0)) /\ setting' = [setting EXCEPT !.flag = FALSE]
    /\ update' = [pc |-> "publish", to |-> v]
    /\ UNCHANGED <<pending, producer, starter, active, writers, disk, consumer, faults>>

UpdatePublish ==
    /\ update.pc = "publish"
    /\ setting' = [config |-> update.to, flag |-> update.to]
    /\ update' = [update EXCEPT !.pc = "idle"]
    /\ UNCHANGED <<queue, pending, producer, starter, active, writers, disk, consumer, faults>>

(* Drop of the engine: waits for room, then for the consumer.              *)
Shutdown ==
    /\ consumer.pc \notin {"off", "ended"} /\ Entries("shutdown") = 0
    /\ Put(Entry("shutdown", 0))
    /\ UNCHANGED <<pending, producer, setting, update, starter, active, writers, disk, consumer, faults>>

------------------------------------------------------------------------------
(* consumer_loop *)

(* The top of the loop, with the upkeep at its end: flush, and             *)
(* maintain_storage, which deletes old segments except those of the open   *)
(* writers.                                                                *)
Protected_Nothing == {}
Protected == {writers[l] : l \in Log}
ReadConfig ==
    /\ consumer.pc = "read"
    /\ \E old \in {{}, disk \ Protected} : disk' = disk \ old
    /\ consumer' = [pc |-> "wait", enabled |-> setting.config]
    /\ UNCHANGED <<queue, pending, producer, setting, update, starter, active, writers, faults>>

(* A new segment gets a name of its own; opening it, and any write, can    *)
(* fail.                                                                   *)
Unused == (1..MaxSegments) \ disk
Opens(s) ==
    /\ Unused # {}
    /\ LET n == CHOOSE m \in Unused : TRUE
       IN writers' = [writers EXCEPT ![s] = n] /\ disk' = disk \cup {n}
Fails == (Unused = {} /\ UNCHANGED faults) \/ Fault
Closes(s) == writers' = [writers EXCEPT ![s] = 0] /\ active' = active \ {s}

(* StartSession: refused if disabled or already active; the answer decides *)
(* whether the log stays.                                                  *)
HandleStart(s) ==
    \/ /\ ~consumer.enabled \/ writers[s] # 0
       /\ starter' = [starter EXCEPT !.pc = IF @ = "waiting" THEN "failed" ELSE @]
       /\ UNCHANGED <<active, writers, disk, faults>>
    \/ /\ consumer.enabled /\ writers[s] = 0
       /\ \/ /\ Opens(s) /\ starter.pc \in {"waiting", "expired"}
             /\ active' = active \cup {s}
             /\ starter' = [starter EXCEPT !.pc = IF @ = "waiting" THEN "ok" ELSE @]
             /\ UNCHANGED faults
          \/ /\ starter.pc \notin {"waiting", "expired"} /\ Unused # {}
             /\ disk' = disk \cup {CHOOSE m \in Unused : TRUE}
             /\ UNCHANGED <<active, writers, starter, faults>>
          \/ /\ Fails /\ starter' = [starter EXCEPT !.pc = IF @ = "waiting" THEN "failed" ELSE @]
             /\ UNCHANGED <<active, writers, disk>>

(* A data entry is written, perhaps to a new segment; a failing write ends *)
(* the log of that session.                                                *)
HandleData(s) ==
    /\ UNCHANGED starter
    /\ \/ UNCHANGED <<active, writers, disk, faults>>
       \/ consumer.enabled /\ writers[s] # 0 /\ Opens(s) /\ UNCHANGED <<active, faults>>
       \/ consumer.enabled /\ writers[s] # 0 /\ Fails /\ Closes(s) /\ UNCHANGED disk

(* A system event opens the segment of the day if there is none (it is     *)
(* skipped during the back-off after a failure, and when disabled).        *)
HandleSystem ==
    /\ UNCHANGED <<starter, active>>
    /\ \/ UNCHANGED <<writers, disk, faults>>
       \/ Opens(SystemLog) /\ UNCHANGED faults
       \/ Fails /\ writers' = [writers EXCEPT ![SystemLog] = 0] /\ UNCHANGED disk

HandleStop(s) == Closes(s) /\ UNCHANGED <<starter, disk, faults>>

HandleStopAll ==
    /\ active' = {} /\ writers' = [l \in Log |-> IF l = SystemLog THEN writers[l] ELSE 0]
    /\ UNCHANGED <<starter, disk, faults>>

(* clear_all: everything is closed and deleted, what cannot be deleted is  *)
(* left; every writer goes on in a new segment or is given up.             *)
Open == {s \in Session : writers[s] # 0}
HandleClear ==
    /\ UNCHANGED starter
    /\ \E keep \in SUBSET Open, left \in SUBSET disk :
          /\ IF keep = Open /\ left = {} THEN UNCHANGED faults ELSE Fault
          /\ \E seg \in [keep -> (1..MaxSegments) \ left] :
                /\ \A s, t \in keep : s # t => seg[s] # seg[t]
                /\ writers' = [l \in Log |-> IF l \in keep THEN seg[l] ELSE 0]
                /\ disk' = left \cup {seg[s] : s \in keep}
          /\ active' = active \ (Open \ keep)

Released(kind) == IF kind \in {"data", "sys"} THEN [pending EXCEPT ![kind] = @ - 1] ELSE pending

Handle ==
    /\ consumer.pc = "wait" /\ queue # <<>>
    /\ LET e == Head(queue)
       IN /\ queue' = Tail(queue)
          /\ pending' = Released(e.kind)
          /\ CASE e.kind = "start" -> HandleStart(e.s)
               [] e.kind = "data" -> HandleData(e.s)
               [] e.kind = "stop" -> HandleStop(e.s)
               [] e.kind = "stopall" -> HandleStopAll
               [] e.kind = "clear" -> HandleClear
               [] e.kind = "shutdown" -> active' = {} /\ UNCHANGED <<starter, writers, disk, faults>>
               [] e.kind = "sys" -> HandleSystem
          /\ consumer' = [consumer EXCEPT !.pc = IF e.kind = "shutdown" THEN "ended" ELSE "read"]
    /\ UNCHANGED <<producer, setting, update>>

(* recv_timeout without an entry *)
Idle ==
    /\ consumer.pc = "wait" /\ queue = <<>>
    /\ consumer' = [consumer EXCEPT !.pc = "read"]
    /\ UNCHANGED <<queue, pending, producer, setting, update, starter, active, writers, disk, faults>>

------------------------------------------------------------------------------
(* The two threads that must not stand still: the consumer and the command *)
(* that waits for it.                                                      *)
ConsumerRuns == ReadConfig \/ Handle
StarterRuns == StartSend \/ StartReturns

Next ==
    \/ ConsumerRuns \/ Idle \/ StarterRuns \/ UpdatePublish
    \/ \E p \in Producer : Enqueue(p)
    \/ SetLogDir \/ StartExpires \/ ClearAllLogs \/ Shutdown
    \/ \E v \in BOOLEAN : UpdateConfig(v)
    \/ \E s \in Session : StartCheck(s) \/ StopSession(s) \/ \E p \in Producer : Reserve(p, Entry("data", s))
    \/ \E p \in Producer : Reserve(p, Entry("sys", 0))

------------------------------------------------------------------------------
(* Properties *)

(* Data never takes the room of commands: as long as fewer commands wait   *)
(* than places are kept free for them, the next one is accepted however    *)
(* much is being logged (the two soft limits, the reservations that are    *)
(* made before the queue and given back after it).                         *)
ControlHasRoom ==
    /\ Entries("data") + Reserved("data") <= SessionLimit
    /\ Entries("sys") + Reserved("sys") <= SystemLimit
    /\ Commands < Capacity - SessionLimit - SystemLimit => HasRoom

(* The segment a writer appends to stays on disk through rotation, clear   *)
(* and retention, and no two writers share one; a session that is marked   *)
(* active has a writer, so accepted data is not dropped for want of one.   *)
OpenSegmentsKept ==
    /\ \A l \in Log : writers[l] # 0 => writers[l] \in disk
    /\ \A l, m \in Log : writers[l] # 0 /\ l # m => writers[l] # writers[m]
    /\ active \subseteq Open

(* A request to start a log is answered, however much is being logged and  *)
(* whatever other commands are queued, while the consumer runs.            *)
Awaited == starter.pc # "idle"
Reached == starter.pc = "idle" \/ consumer.pc \in {"off", "ended"}
=============================================================================
