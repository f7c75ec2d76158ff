----------------------------- MODULE TransferTask -----------------------------
(***************************************************************************)
(* File transfers of one session: transfer/scheduler.rs,                   *)
(* transfer/orchestrator.rs, transfer/panic_guard.rs, the transfer         *)
(* commands, and the front end's task store (core/transfer-state.ts,       *)
(* context/TransferContext.tsx).                                           *)
(*                                                                         *)
(* A transfer is started by a command that reserves the connection's slot, *)
(* spawns a background task behind a start gate, registers it, announces   *)
(* it and opens the gate.  The task runs, returns what it holds and        *)
(* reports a final event.  Events reach the front end in order; the answer *)
(* of the command and of a cancellation travel on their own and may come   *)
(* before or after any of them.  The session may be lost, disconnected and *)
(* connected again meanwhile; of its life only that is kept here (see      *)
(* SessionLifecycle).                                                      *)
(*                                                                         *)
(* A session offers inline transfers (XMODEM, YMODEM, ZMODEM: the task     *)
(* leases the driver of the data plane) or auxiliary ones (SFTP).          *)
(***************************************************************************)
EXTENDS Naturals, Sequences, FiniteSets

CONSTANTS
  Transfers,     \* transfer ids (fresh uuids)
  Strategies,    \* what the session may offer: "inline", "auxiliary"
  MaxActive,     \* DEFAULT_MAX_ACTIVE_PER_SESSION (1)
  MaxRuntimes,   \* bound of the model: connections ever made
  MaxWire,       \* bound of the model: events on their way at a time
  UserActs       \* bound of the model: what the user does besides starting

ASSUME ConstantsAssumption ==
  /\ Strategies \subseteq {"inline", "auxiliary"}
  /\ MaxActive \in Nat \ {0}
  /\ MaxRuntimes \in Nat
  /\ MaxWire \in Nat
  /\ UserActs \subseteq {"cancel", "dismiss", "disconnect"}

Runtimes == 1..MaxRuntimes

VARIABLES
  strategy,   \* what the session does offer
  cur,        \* runtime_id of the session's handle, 0 before the first
  up,         \* its state is Connected
  active,     \* the ids in each handle's TransferScheduler
  tasks,      \* each handle's transfer_tasks
  joins,      \* the transfers of each SessionCleanup, still to join
  unsaid,     \* lost runtimes whose session-disconnected is still to be sent
  cmd,        \* the start command of each transfer
  run,        \* the runtime_id it was started for
  job,        \* its background task
  result,     \* how that ended
  leased,     \* inline tasks that hold the driver
  cancel,     \* transfers with their cancel flag set
  tail,       \* panicked tasks whose broadcaster may have an event left
  events,     \* events on their way to the front end
  acks,       \* start commands answered, the answer on its way
  tab,        \* front end: the runtime of the session's tab,
  shown,      \* its state,
  quit,       \* the disconnect command,
  ui,         \* the phase of each task in tasksById, or "absent",
  unsettled,  \* tasks that may list a pending or transferring file,
  asking,     \* the cancel command of each
  seen,       \* history: tasks the front end has ever shown,
  abandoned   \* and tasks a cleanup gave up on

sessionVars == <<strategy, cur, up, unsaid>>
slotVars    == <<active, tasks, joins>>
taskVars    == <<cmd, run, job, result, leased, cancel, tail>>
frontVars   == <<tab, shown, quit, ui, unsettled, asking, seen>>
wireVars    == <<events, acks>>
vars == <<sessionVars, slotVars, taskVars, frontVars, wireVars, abandoned>>

Inline   == strategy = "inline"
Live     == {"active", "cancelling"}   \* active: preparing, transferring or finalizing
Terminal == {"completed", "failed", "cancelled"}

Event ==
  [type : {"connected", "disconnected"}, r : Runtimes]
    \cup [type : {"started", "progress", "finished"}, t : Transfers]

TypeOK ==
  /\ strategy \in Strategies
  /\ cur \in 0..MaxRuntimes /\ up \in BOOLEAN /\ unsaid \in SUBSET Runtimes
  /\ active \in [Runtimes -> SUBSET Transfers]
  /\ tasks \in [Runtimes -> SUBSET Transfers]
  /\ joins \in [Runtimes -> SUBSET Transfers]
  /\ cmd \in [Transfers -> {"none", "asked", "reserved", "spawned", "registered", "announced",
                            "answered", "refused"}]
  /\ run \in [Transfers -> 0..MaxRuntimes]
  /\ job \in [Transfers -> {"none", "gated", "running", "ended", "freed", "done"}]
  /\ result \in [Transfers -> Terminal \cup {"none"}]
  /\ leased \in SUBSET Transfers /\ cancel \in SUBSET Transfers /\ tail \in SUBSET Transfers
  /\ events \in Seq(Event) /\ acks \in SUBSET Transfers
  /\ tab \in 0..MaxRuntimes /\ shown \in {"disconnected", "connected", "disconnecting"}
  /\ quit \in {"no", "sent", "joining", "answering"}
  /\ ui \in [Transfers -> Live \cup Terminal \cup {"absent"}]
  /\ unsettled \in SUBSET Transfers
  /\ asking \in [Transfers -> {"none", "sent", "rejected"}]
  /\ seen \in SUBSET Transfers /\ abandoned \in SUBSET Transfers

-----------------------------------------------------------------------------
(* runtime_is_connected and matches_runtime, of the runtime a transfer     *)
(* captured.                                                               *)
Connected(t) == up /\ run[t] = cur
Current(t)   == run[t] = cur

Emit(e) ==
  /\ Len(events) < MaxWire
  /\ events' = Append(events, e)

Freed_AnyRuntime(t) == [active EXCEPT ![cur] = {}]

(* transfer_done: only the captured runtime's scheduler is touched.        *)
Freed(t) == IF Current(t) THEN [active EXCEPT ![run[t]] = @ \ {t}] ELSE active

-----------------------------------------------------------------------------
(* The session.                                                            *)

(* connect, from a tab that is disconnected: a fresh handle with a         *)
(* scheduler of its own.                                                   *)
Connect ==
  /\ ~up /\ cur < MaxRuntimes
  /\ shown = "disconnected" /\ quit = "no"
  /\ \A i \in 1..Len(events) : events[i].type # "connected"
  /\ cur' = cur + 1
  /\ up' = TRUE
  /\ Emit([type |-> "connected", r |-> cur + 1])
  /\ UNCHANGED <<strategy, unsaid, slotVars, taskVars, frontVars, acks, abandoned>>

Close_NoCancel ==
  /\ up' = FALSE
  /\ cancel' = cancel
  /\ joins' = [joins EXCEPT ![cur] = tasks[cur]]
  /\ tasks' = [tasks EXCEPT ![cur] = {}]

Close_ForgetsTasks ==
  /\ up' = FALSE
  /\ cancel' = cancel \cup active[cur]
  /\ joins' = joins
  /\ tasks' = [tasks EXCEPT ![cur] = {}]

(* close_session: the flags are raised and the tasks go to the cleanup.    *)
Close ==
  /\ up' = FALSE
  /\ cancel' = cancel \cup active[cur]
  /\ joins' = [joins EXCEPT ![cur] = tasks[cur]]
  /\ tasks' = [tasks EXCEPT ![cur] = {}]

(* A loss callback closes the session; its event follows outside the lock. *)
Lose ==
  /\ up
  /\ Close
  /\ unsaid' = unsaid \cup {cur}
  /\ UNCHANGED <<strategy, cur, active, cmd, run, job, result, leased, tail, frontVars,
                 wireVars, abandoned>>

TellLoss(r) ==
  /\ r \in unsaid
  /\ unsaid' = unsaid \ {r}
  /\ Emit([type |-> "disconnected", r |-> r])
  /\ UNCHANGED <<strategy, cur, up, slotVars, taskVars, frontVars, acks, abandoned>>

(* disconnect of the front end, and disconnect_session.                    *)
AskDisconnect ==
  /\ "disconnect" \in UserActs
  /\ shown = "connected" /\ quit = "no"
  /\ shown' = "disconnecting"
  /\ quit' = "sent"
  /\ UNCHANGED <<sessionVars, slotVars, taskVars, tab, ui, unsettled, asking, seen,
                 wireVars, abandoned>>

RunDisconnect ==
  /\ quit = "sent"
  /\ \/ up /\ Close /\ quit' = "joining"
     \/ ~up /\ quit' = "answering" /\ UNCHANGED <<up, cancel, joins, tasks>>
  /\ UNCHANGED <<strategy, cur, unsaid, active, cmd, run, job, result, leased, tail, tab,
                 shown, ui, unsettled, asking, seen, wireVars, abandoned>>

(* The planes of a runtime can be joined once no task holds their driver.  *)
PlaneJoined(r) == \A t \in leased : run[t] # r

(* The cleanup it closed the session with is done: event and answer.       *)
AnswerDisconnect ==
  /\ \/ quit = "answering"
     \/ quit = "joining" /\ PlaneJoined(cur) /\ joins[cur] = {}
  /\ quit' = "no"
  /\ shown' = IF tab = cur THEN "disconnected" ELSE shown
  /\ Emit([type |-> "disconnected", r |-> cur])
  /\ UNCHANGED <<sessionVars, slotVars, taskVars, tab, ui, unsettled, asking, seen, acks,
                 abandoned>>

(* SessionCleanup::finish joins the planes, then each task for 5 s at most.*)
JoinTransfer(r, t) ==
  /\ t \in joins[r]
  /\ PlaneJoined(r)
  /\ joins' = [joins EXCEPT ![r] = @ \ {t}]
  /\ \/ job[t] = "done" /\ UNCHANGED abandoned
     \/ job[t] # "done" /\ abandoned' = abandoned \cup {t}
  /\ UNCHANGED <<sessionVars, active, tasks, taskVars, frontVars, wireVars>>

-----------------------------------------------------------------------------
(* Starting a transfer.                                                    *)

(* startTransfer of the front end, for the runtime it shows.               *)
AskStart(t) ==
  /\ cmd[t] = "none"
  /\ shown = "connected"
  /\ cmd' = [cmd EXCEPT ![t] = "asked"]
  /\ run' = [run EXCEPT ![t] = tab]
  /\ UNCHANGED <<sessionVars, slotVars, job, result, leased, cancel, tail, frontVars,
                 wireVars, abandoned>>

CanReserve_Shared(r) == Cardinality(active[r]) <= MaxActive

(* reserve_inline and reserve_auxiliary.                                   *)
CanReserve(r) ==
  IF Inline THEN active[r] = {} ELSE Cardinality(active[r]) < MaxActive

(* The first critical section of execute_send and execute_receive.  The    *)
(* auxiliary strategy spawns its task right after it.                      *)
Reserve(t) ==
  /\ cmd[t] = "asked"
  /\ Connected(t)
  /\ CanReserve(run[t])
  /\ active' = [active EXCEPT ![run[t]] = @ \cup {t}]
  /\ cmd' = [cmd EXCEPT ![t] = IF Inline THEN "reserved" ELSE "spawned"]
  /\ job' = IF Inline THEN job ELSE [job EXCEPT ![t] = "gated"]
  /\ UNCHANGED <<sessionVars, tasks, joins, run, result, leased, cancel, tail, frontVars,
                 wireVars, abandoned>>

(* Not connected any more, busy, or invalid options or files.              *)
Refuse(t) ==
  /\ cmd[t] = "asked"
  /\ cmd' = [cmd EXCEPT ![t] = "refused"]
  /\ UNCHANGED <<sessionVars, slotVars, run, job, result, leased, cancel, tail, frontVars,
                 wireVars, abandoned>>

Acquire_KeepsSlot(t) ==
  /\ cmd[t] = "reserved"
  /\ \/ /\ cmd' = [cmd EXCEPT ![t] = "spawned"]
        /\ job' = [job EXCEPT ![t] = "gated"]
        /\ leased' = leased \cup {t}
     \/ /\ cmd' = [cmd EXCEPT ![t] = "refused"]
        /\ UNCHANGED <<job, leased>>
  /\ UNCHANGED <<sessionVars, slotVars, run, result, cancel, tail, frontVars, wireVars,
                 abandoned>>

(* acquire_exclusive, outside the lock; a failure gives the slot back.     *)
Acquire(t) ==
  /\ cmd[t] = "reserved"
  /\ \/ /\ cmd' = [cmd EXCEPT ![t] = "spawned"]
        /\ job' = [job EXCEPT ![t] = "gated"]
        /\ leased' = leased \cup {t}
        /\ UNCHANGED active
     \/ /\ cmd' = [cmd EXCEPT ![t] = "refused"]
        /\ active' = Freed(t)
        /\ UNCHANGED <<job, leased>>
  /\ UNCHANGED <<sessionVars, tasks, joins, run, result, cancel, tail, frontVars, wireVars,
                 abandoned>>

(* register_transfer_task; a refusal drops the start gate.                 *)
Register(t) ==
  /\ cmd[t] = "spawned"
  /\ \/ /\ Connected(t)
        /\ cmd' = [cmd EXCEPT ![t] = "registered"]
        /\ tasks' = [tasks EXCEPT ![cur] = {x \in @ : job[x] # "done"} \cup {t}]
     \/ /\ ~Connected(t)
        /\ cmd' = [cmd EXCEPT ![t] = "refused"]
        /\ UNCHANGED tasks
  /\ UNCHANGED <<sessionVars, active, joins, run, job, result, leased, cancel, tail,
                 frontVars, wireVars, abandoned>>

(* emit_transfer_started.                                                  *)
Announce(t) ==
  /\ cmd[t] = "registered"
  /\ cmd' = [cmd EXCEPT ![t] = "announced"]
  /\ Emit([type |-> "started", t |-> t])
  /\ UNCHANGED <<sessionVars, slotVars, run, job, result, leased, cancel, tail, frontVars,
                 acks, abandoned>>

(* start_tx.send and the command's answer.                                 *)
OpenGate(t) ==
  /\ cmd[t] = "announced"
  /\ cmd' = [cmd EXCEPT ![t] = "answered"]
  /\ job' = [job EXCEPT ![t] = "running"]
  /\ acks' = acks \cup {t}
  /\ UNCHANGED <<sessionVars, slotVars, run, result, leased, cancel, tail, frontVars,
                 events, abandoned>>

-----------------------------------------------------------------------------
(* The background task.                                                    *)

(* The broadcaster forwards a progress event.  The model keeps at most one *)
(* of each transfer on the wire.                                           *)
Progress(t) ==
  /\ job[t] = "running" \/ t \in tail
  /\ \A i \in 1..Len(events) : events[i] # [type |-> "progress", t |-> t]
  /\ Emit([type |-> "progress", t |-> t])
  /\ tail' = tail \ {t}
  /\ UNCHANGED <<sessionVars, slotVars, cmd, run, job, result, leased, cancel, frontVars,
                 acks, abandoned>>

(* What send and receive return.  The serial adapter looks at the cancel   *)
(* flag whatever the protocol said.                                        *)
Outcomes(t) ==
  IF t \in cancel THEN (IF Inline THEN {"cancelled"} ELSE {"cancelled", "failed"})
                  ELSE {"completed", "failed"}

(* The protocol returns and the broadcaster has been drained.              *)
Return(t) ==
  /\ job[t] = "running"
  /\ job' = [job EXCEPT ![t] = "ended"]
  /\ \E x \in Outcomes(t) : result' = [result EXCEPT ![t] = x]
  /\ UNCHANGED <<sessionVars, slotVars, cmd, run, leased, cancel, tail, frontVars, wireVars,
                 abandoned>>

Panic_NoGuard(t) ==
  /\ ~Inline
  /\ job[t] = "running"
  /\ job' = [job EXCEPT ![t] = "done"]
  /\ UNCHANGED <<sessionVars, slotVars, cmd, run, result, leased, cancel, tail, frontVars,
                 wireVars, abandoned>>

(* A panic of an auxiliary task unwinds into its PanicGuard, past the      *)
(* drain.  (One in an inline protocol is an error of spawn_blocking.)      *)
Panic(t) ==
  /\ ~Inline
  /\ job[t] = "running"
  /\ job' = [job EXCEPT ![t] = "ended"]
  /\ result' = [result EXCEPT ![t] = "failed"]
  /\ tail' = tail \cup {t}
  /\ UNCHANGED <<sessionVars, slotVars, cmd, run, leased, cancel, frontVars, wireVars,
                 abandoned>>

(* The start gate was dropped: the task ends without having run.           *)
GateDropped(t) ==
  /\ job[t] = "gated"
  /\ cmd[t] = "refused"
  /\ job' = [job EXCEPT ![t] = "ended"]
  /\ result' = IF Inline THEN result ELSE [result EXCEPT ![t] = "failed"]
  /\ UNCHANGED <<sessionVars, slotVars, cmd, run, leased, cancel, tail, frontVars, wireVars,
                 abandoned>>

(* drop(transfer): the lease is released before the slot.                  *)
ReturnLease(t) ==
  /\ job[t] = "ended"
  /\ t \in leased
  /\ leased' = leased \ {t}
  /\ UNCHANGED <<sessionVars, slotVars, cmd, run, job, result, cancel, tail, frontVars,
                 wireVars, abandoned>>

FreeSlot_BeforeLease(t) ==
  /\ job[t] = "ended"
  /\ active' = Freed(t)
  /\ job' = [job EXCEPT ![t] = IF result[t] = "none" THEN "done" ELSE "freed"]
  /\ UNCHANGED <<sessionVars, tasks, joins, cmd, run, result, leased, cancel, tail,
                 frontVars, wireVars, abandoned>>

(* release_transfer_slot, or PanicGuard::cleanup.  An inline task that     *)
(* never ran stops here.                                                   *)
FreeSlot(t) ==
  /\ job[t] = "ended"
  /\ t \notin leased
  /\ active' = Freed(t)
  /\ job' = [job EXCEPT ![t] = IF result[t] = "none" THEN "done" ELSE "freed"]
  /\ UNCHANGED <<sessionVars, tasks, joins, cmd, run, result, leased, cancel, tail,
                 frontVars, wireVars, abandoned>>

(* emit_transfer_finished, or the event of a guard that is not defused.    *)
Finish(t) ==
  /\ job[t] = "freed"
  /\ job' = [job EXCEPT ![t] = "done"]
  /\ Emit([type |-> "finished", t |-> t])
  /\ UNCHANGED <<sessionVars, slotVars, cmd, run, result, leased, cancel, tail, frontVars,
                 acks, abandoned>>

-----------------------------------------------------------------------------
(* The front end.                                                          *)

(* isSessionRuntimeCurrent, of the runtime of an event.                    *)
Shows(t) == shown = "connected" /\ tab = run[t]

(* SESSION_CONNECTED.                                                      *)
OnConnected(r) ==
  /\ \/ r > tab /\ tab' = r /\ shown' = "connected"
     \/ r <= tab /\ UNCHANGED <<tab, shown>>
  /\ UNCHANGED <<ui, unsettled, seen>>

(* SESSION_DISCONNECTED of the tab and TASK_DISCARD_SESSION.               *)
OnDisconnected(r) ==
  LET dropped == {t \in Transfers : run[t] = r}
  IN /\ shown' = IF tab = r THEN "disconnected" ELSE shown
     /\ ui' = [t \in Transfers |-> IF t \in dropped THEN "absent" ELSE ui[t]]
     /\ unsettled' = unsettled \ dropped
     /\ UNCHANGED <<tab, seen>>

(* TASK_STARTED makes the task and forgets the session's finished ones.    *)
OnStarted(t) ==
  LET old == {x \in Transfers : ui[x] \in Terminal}
  IN /\ \/ /\ Shows(t)
           /\ ui' = [x \in Transfers |-> IF x = t THEN "active"  
                                         ELSE IF x \in old THEN "absent" ELSE ui[x]]
           /\ unsettled' = unsettled \ old
           /\ seen' = seen \cup {t}
        \/ ~Shows(t) /\ UNCHANGED <<ui, unsettled, seen>>
     /\ UNCHANGED <<tab, shown>>

(* TASK_PROGRESS: the file it names is shown as transferring.              *)
OnProgress(t) ==
  /\ unsettled' = IF Shows(t) /\ ui[t] \in Live THEN unsettled \cup {t} ELSE unsettled
  /\ UNCHANGED <<tab, shown, ui, seen>>

OnFinished_CurrentOnly(t) ==
  /\ \/ Shows(t) /\ ui[t] \in Live
        /\ ui' = [ui EXCEPT ![t] = result[t]] /\ unsettled' = unsettled \ {t}
     \/ ~(Shows(t) /\ ui[t] \in Live) /\ UNCHANGED <<ui, unsettled>>
  /\ UNCHANGED <<tab, shown, seen>>

(* TASK_FINISHED: every file gets its final status.                        *)
OnFinished(t) ==
  /\ \/ ui[t] \in Live
        /\ ui' = [ui EXCEPT ![t] = result[t]] /\ unsettled' = unsettled \ {t}
     \/ ui[t] \notin Live /\ UNCHANGED <<ui, unsettled>>
  /\ UNCHANGED <<tab, shown, seen>>

(* The next event reaches its listener.                                    *)
Deliver ==
  /\ events # <<>>
  /\ events' = Tail(events)
  /\ LET e == Head(events)
     IN CASE e.type = "connected"    -> OnConnected(e.r)
          [] e.type = "disconnected" -> OnDisconnected(e.r)
          [] e.type = "started"      -> OnStarted(e.t)
          [] e.type = "finished"     -> OnFinished(e.t)
          [] OTHER                   -> OnProgress(e.t)
  /\ UNCHANGED <<sessionVars, slotVars, taskVars, quit, asking, acks, abandoned>>

DeliverAck_Rebuilds(t) ==
  /\ t \in acks
  /\ acks' = acks \ {t}
  /\ ui' = IF Shows(t) /\ ui[t] = "absent" THEN [ui EXCEPT ![t] = "active"] ELSE ui
  /\ seen' = IF Shows(t) THEN seen \cup {t} ELSE seen
  /\ unsettled' = IF Shows(t) /\ ui[t] \notin Terminal THEN unsettled \cup {t} ELSE unsettled
  /\ UNCHANGED <<sessionVars, slotVars, taskVars, tab, shown, quit, asking, events,
                 abandoned>>

DeliverAck_NoSkip(t) ==
  /\ t \in acks
  /\ acks' = acks \ {t}
  /\ unsettled' = IF Shows(t) /\ ui[t] # "absent" THEN unsettled \cup {t} ELSE unsettled
  /\ UNCHANGED <<sessionVars, slotVars, taskVars, tab, shown, quit, ui, asking, seen,
                 events, abandoned>>

(* TASK_ACKNOWLEDGED lists the files of a task that is known, as pending   *)
(* while it is live and as skipped once it is over.                        *)
DeliverAck(t) ==
  /\ t \in acks
  /\ acks' = acks \ {t}
  /\ unsettled' = IF Shows(t) /\ ui[t] \in Live THEN unsettled \cup {t} ELSE unsettled
  /\ UNCHANGED <<sessionVars, slotVars, taskVars, tab, shown, quit, ui, asking, seen,
                 events, abandoned>>

(* cancelTask: TASK_CANCELLING, then the command.                          *)
AskCancel(t) ==
  /\ "cancel" \in UserActs
  /\ ui[t] = "active"
  /\ asking[t] = "none"
  /\ asking' = [asking EXCEPT ![t] = "sent"]
  /\ ui' = [ui EXCEPT ![t] = "cancelling"]
  /\ UNCHANGED <<sessionVars, slotVars, taskVars, tab, shown, quit, unsettled, seen,
                 wireVars, abandoned>>

(* file_transfer_cancel: the id must be one of the current scheduler's.    *)
RunCancel(t) ==
  /\ asking[t] = "sent"
  /\ \/ /\ t \in active[cur]
        /\ cancel' = cancel \cup {t}
        /\ asking' = [asking EXCEPT ![t] = "none"]
     \/ /\ t \notin active[cur]
        /\ asking' = [asking EXCEPT ![t] = "rejected"]
        /\ UNCHANGED cancel
  /\ UNCHANGED <<sessionVars, slotVars, cmd, run, job, result, leased, tail, tab, shown,
                 quit, ui, unsettled, seen, wireVars, abandoned>>

CancelRejected_Unguarded(t) ==
  /\ asking[t] = "rejected"
  /\ asking' = [asking EXCEPT ![t] = "none"]
  /\ ui' = IF ui[t] # "absent" THEN [ui EXCEPT ![t] = "active"] ELSE ui
  /\ UNCHANGED <<sessionVars, slotVars, taskVars, tab, shown, quit, unsettled, seen,
                 wireVars, abandoned>>

(* TASK_CANCEL_REJECTED.                                                   *)
CancelRejected(t) ==
  /\ asking[t] = "rejected"
  /\ asking' = [asking EXCEPT ![t] = "none"]
  /\ ui' = IF ui[t] = "cancelling" THEN [ui EXCEPT ![t] = "active"] ELSE ui
  /\ UNCHANGED <<sessionVars, slotVars, taskVars, tab, shown, quit, unsettled, seen,
                 wireVars, abandoned>>

(* TASK_DISCARD.                                                           *)
Dismiss(t) ==
  /\ "dismiss" \in UserActs
  /\ ui[t] # "absent"
  /\ ui' = [ui EXCEPT ![t] = "absent"]
  /\ unsettled' = unsettled \ {t}
  /\ UNCHANGED <<sessionVars, slotVars, taskVars, tab, shown, quit, asking, seen, wireVars,
                 abandoned>>

-----------------------------------------------------------------------------

Init ==
  /\ strategy \in Strategies
  /\ cur = 0 /\ up = FALSE /\ unsaid = {}
  /\ active = [r \in Runtimes |-> {}] /\ tasks = [r \in Runtimes |-> {}]
  /\ joins = [r \in Runtimes |-> {}]
  /\ cmd = [t \in Transfers |-> "none"] /\ run = [t \in Transfers |-> 0]
  /\ job = [t \in Transfers |-> "none"] /\ result = [t \in Transfers |-> "none"]
  /\ leased = {} /\ cancel = {} /\ tail = {} /\ events = <<>> /\ acks = {}
  /\ tab = 0 /\ shown = "disconnected" /\ quit = "no"
  /\ ui = [t \in Transfers |-> "absent"] /\ unsettled = {}
  /\ asking = [t \in Transfers |-> "none"]
  /\ seen = {} /\ abandoned = {}

SessionStep ==
  \/ Connect \/ Lose \/ AskDisconnect \/ RunDisconnect \/ AnswerDisconnect
  \/ \E r \in Runtimes : TellLoss(r)
  \/ \E r \in Runtimes, t \in Transfers : JoinTransfer(r, t)

CommandStep(t) ==
  \/ Reserve(t) \/ Refuse(t) \/ Acquire(t) \/ Register(t) \/ Announce(t) \/ OpenGate(t)

JobStep(t) ==
  \/ Return(t) \/ Panic(t) \/ GateDropped(t) \/ ReturnLease(t) \/ FreeSlot(t) \/ Finish(t)

FrontStep(t) ==
  \/ AskStart(t) \/ AskCancel(t) \/ RunCancel(t) \/ CancelRejected(t) \/ Dismiss(t)
  \/ DeliverAck(t)

Next ==
  \/ SessionStep
  \/ Deliver
  \/ \E t \in Transfers : CommandStep(t) \/ JobStep(t) \/ Progress(t) \/ FrontStep(t)

Spec == Init /\ [][Next]_vars

(* Commands, tasks and answers go on and events are delivered.  A protocol *)
(* ends by itself: every wait of it has a time-out and every retry a       *)
(* limit.                                                                  *)
Fairness ==
  /\ WF_vars(Deliver) /\ WF_vars(RunDisconnect) /\ WF_vars(AnswerDisconnect)
  /\ \A r \in Runtimes :
       /\ WF_vars(TellLoss(r))
       /\ \A t \in Transfers : WF_vars(JoinTransfer(r, t))
  /\ \A t \in Transfers :
       /\ WF_vars(CommandStep(t)) /\ WF_vars(JobStep(t))
       /\ WF_vars(RunCancel(t)) /\ WF_vars(CancelRejected(t)) /\ WF_vars(DeliverAck(t))

FairSpec == Spec /\ Fairness

-----------------------------------------------------------------------------
(* Properties.                                                             *)

(* The transfers whose started, and whose finished, event was sent.        *)
Started  == {t \in Transfers : cmd[t] \in {"announced", "answered"}}
Finished == {t \in Transfers : job[t] = "done" /\ result[t] # "none"}

HoldsSlot(t) == Current(t) /\ cur # 0 /\ t \in active[cur]

(* Whoever has been told that a transfer is finished can start the next    *)
(* one: its slot and its lease are back before the event is sent.          *)
FinishedFrees == \A t \in Finished : ~HoldsSlot(t) /\ t \notin leased

(* A transfer under way holds its slot, so that it counts against the      *)
(* limit and can be cancelled: no late task of an earlier connection has   *)
(* given the slot away.                                                    *)
WorkingHoldsSlot ==
  \A t \in Transfers :
    (Current(t) /\ (cmd[t] \in {"reserved", "spawned", "registered", "announced"}
                      \/ job[t] = "running")) => t \in active[cur]

(* The owners of one data plane's driver take turns: an exclusive request  *)
(* is made only when the lease before it has come back.  This is what      *)
(* SerialOwners of DataPlane stands for.                                   *)
SerialLeases ==
  \A t, x \in Transfers :
    (t # x /\ run[t] = run[x] /\ t \in leased) => x \notin leased /\ cmd[x] # "reserved"

(* Slots and leases are held exactly as long as they are needed.           *)
SlotsHeld == FinishedFrees /\ WorkingHoldsSlot /\ SerialLeases

(* Closing a session cancels every transfer of it that is not over, in     *)
(* whatever stage the command or the task is.                              *)
ClosedCancels ==
  \A t \in Transfers :
    ((cmd[t] \in {"reserved", "spawned", "registered", "announced"} \/ job[t] = "running")
       /\ ~Connected(t)) => t \in cancel

(* No accepted transfer escapes a closing session: a task behind an open   *)
(* gate is in the handle's list or in the cleanup's, until the cleanup     *)
(* gives up on it.                                                         *)
AcceptedIsJoined ==
  \A t \in Transfers :
    (t \in Started /\ job[t] # "done") =>
      t \in tasks[run[t]] \cup joins[run[t]] \cup abandoned

(* A task the front end shows as live has not ended behind its back: its   *)
(* final event is still to come.                                           *)
LiveIsLive ==
  \A t \in Transfers : ui[t] \in Live =>
    job[t] # "done" \/ \E i \in 1..Len(events) : events[i] = [type |-> "finished", t |-> t]

(* A finished task lists no pending file, whenever the answer of the start *)
(* command arrives.                                                        *)
TerminalIsSettled == \A t \in Transfers : ui[t] \in Terminal => t \notin unsettled

(* Late events and answers neither revive a finished task nor bring back   *)
(* one that was dismissed.                                                 *)
NoRevival ==
  [][\A t \in Transfers :
       /\ ui[t] \in Terminal => ui'[t] \in {ui[t], "absent"}
       /\ (t \in seen /\ ui[t] = "absent") => ui'[t] = "absent"]_vars

(* Every slot is given back, also when the lease or the registration fails *)
(* and when a task panics.                                                 *)
SlotsReturn == \A t \in Transfers : HoldsSlot(t) ~> ~HoldsSlot(t)

(* Every announced transfer is reported finished.                          *)
StartedFinishes == \A t \in Transfers : (t \in Started) ~> (t \in Finished)

(* No task stays live in the front end for ever.                           *)
ViewSettles == \A t \in Transfers : (ui[t] \in Live) ~> (ui[t] \notin Live)

=============================================================================
