--------------------------- MODULE SystemViewTrace ---------------------------
(***************************************************************************)
(* What a SystemView decoder makes of its packets: TraceState of           *)
(* plugins/rtt/systemview.rs, which charges the target's cycles to tasks,  *)
(* and the execution state it keeps for the events that left its history.  *)
(* The counters of events, losses and switches, and the names, priorities, *)
(* frequencies and other texts, decide nothing and are left out.           *)
(***************************************************************************)
EXTENDS Naturals, Sequences, FiniteSets, SequencesExt

CONSTANTS Task,        \* task ids
          None,        \* no task
          MaxCycles,   \* cycles of the target (bound of the model)
          MaxDepth,    \* nested interrupts (bound of the model)
          MaxHistory   \* MAX_EVENT_HISTORY

VARIABLES last,         \* last_target_cycles
          window,       \* window_start_cycles
          active,       \* active_task: a task and when it started, or None
          interrupted,  \* interrupted_task
          depth,        \* isr_depth
          tasks,        \* runtime_cycles and terminated of every task heard of
          events,       \* the latest events
          entry,        \* history_entry_state: the state before the first of them
          resync        \* the decoder waits for a marker: the next packet follows one

svvars == <<last, window, active, interrupted, depth, tasks, events, entry, resync>>
timeline == <<last, window>>

Reset == [active |-> None, interrupted |-> None, idleBefore |-> FALSE, depth |-> 0, idle |-> FALSE]
Unheard == [heard |-> FALSE, runtime |-> 0, over |-> FALSE]
Fresh == [heard |-> TRUE, runtime |-> 0, over |-> FALSE]

Init ==
    /\ last = 0 /\ window = 0 /\ active = [task |-> None, at |-> 0] /\ interrupted = None /\ depth = 0
    /\ tasks = [t \in Task |-> Unheard] /\ events = <<>> /\ entry = Reset /\ resync = TRUE

------------------------------------------------------------------------------
Idle == [task |-> None, at |-> 0]
Running(t, at) == [task |-> t, at |-> at]
(* tasks.entry(id).or_default()                                            *)
Heard(ts, t) == IF ts[t].heard THEN ts ELSE [ts EXCEPT ![t] = Fresh]
(* close_active_task: the task is charged up to the given cycle.           *)
Charged(ts, a, now) ==
    IF a.task = None THEN ts ELSE [Heard(ts, a.task) EXCEPT ![a.task].runtime = @ + (now - a.at)]

(* SystemViewExecutionState::apply_event *)
Applied(s, e) ==
    LET x == IF e.sync THEN Reset ELSE s
        left == IF x.depth = 0 THEN 0 ELSE x.depth - 1
        first == x.depth = 0
    IN CASE e.id \in {"overflow", "start", "stop", "exit_to_scheduler"} -> Reset
         [] e.id = "isr_enter" ->
                [x EXCEPT !.interrupted = IF first THEN x.active ELSE @, !.active = IF first THEN None ELSE @,
                          !.idleBefore = IF first THEN x.idle ELSE @, !.idle = IF first THEN FALSE ELSE @,
                          !.depth = @ + 1]
         [] e.id = "isr_exit" ->
                IF left > 0 THEN [x EXCEPT !.depth = left]
                ELSE [x EXCEPT !.depth = 0, !.active = x.interrupted, !.interrupted = None,
                               !.idle = x.interrupted = None /\ x.idleBefore, !.idleBefore = FALSE]
         [] e.id = "task_exec" -> [Reset EXCEPT !.active = e.task]
         [] e.id = "task_stop" -> [x EXCEPT !.active = None]
         [] e.id = "idle" -> [x EXCEPT !.active = None, !.idle = TRUE]
         [] e.id = "task_over" ->
                [x EXCEPT !.active = IF @ = e.task THEN None ELSE @,
                          !.interrupted = IF @ = e.task THEN None ELSE @]
         [] OTHER -> x

(* the event is kept, and the oldest goes into the entry state             *)
Keep(e) ==
    LET all == Append(events, e)
    IN IF Len(all) > MaxHistory
       THEN events' = Tail(all) /\ entry' = Applied(entry, Head(all))
       ELSE events' = all /\ UNCHANGED entry

(* The start of apply_with_loss_tracking: a marker or an overflow ends the *)
(* interval of the active task at the previous packet, not at this one.    *)
Breaks(e) == e.sync \/ e.id = "overflow"
Before(e) == IF Breaks(e)
             THEN [ts |-> Charged(tasks, active, last), act |-> Idle, int |-> None, depth |-> 0]
             ELSE [ts |-> tasks, act |-> active, int |-> interrupted, depth |-> depth]

(* A packet without an execution meaning still moves the timeline.         *)
Becomes(ts, act, int, d) == tasks' = ts /\ active' = act /\ interrupted' = int /\ depth' = d

IsrEnter_Keeps(b, now, e) ==
    /\ e.id = "isr_enter" /\ b.depth < MaxDepth
    /\ Becomes(Charged(b.ts, b.act, now), b.act, b.act.task, b.depth + 1)

IsrEnter(b, now, e) ==
    /\ e.id = "isr_enter" /\ b.depth < MaxDepth
    /\ IF b.depth = 0
       THEN Becomes(Charged(b.ts, b.act, now), Idle, b.act.task, 1)
       ELSE Becomes(b.ts, b.act, b.int, b.depth + 1)
IsrExit(b, now, e) ==
    /\ e.id = "isr_exit"
    /\ IF b.depth <= 1 /\ b.int # None
       THEN Becomes(b.ts, Running(b.int, now), None, 0)
       ELSE Becomes(b.ts, b.act, b.int, IF b.depth = 0 THEN 0 ELSE b.depth - 1)
TaskExec(b, now, e) ==
    /\ e.id = "task_exec"
    /\ Becomes(Heard(Charged(b.ts, b.act, now), e.task), Running(e.task, now), None, 0)
TaskStop(b, now, e) ==
    /\ e.id \in {"task_stop", "idle"}
    /\ Becomes(Charged(b.ts, b.act, now), Idle, None, b.depth)
TaskCreate(b, now, e) ==
    /\ e.id = "task_create"
    /\ Becomes([Heard(b.ts, e.task) EXCEPT ![e.task] = IF @.over THEN Fresh ELSE @], b.act, b.int, b.depth)
TaskOver(b, now, e) ==
    /\ e.id = "task_over"
    /\ LET mine == b.act.task = e.task
           ts == IF mine THEN Charged(b.ts, b.act, now) ELSE b.ts
       IN Becomes([Heard(ts, e.task) EXCEPT ![e.task].over = TRUE],
                  IF mine THEN Idle ELSE b.act, IF b.int = e.task THEN None ELSE b.int, b.depth)
TraceStop(b, now, e) ==
    /\ e.id = "stop"
    /\ Becomes(Charged(b.ts, b.act, now), Idle, None, 0)
ExitToScheduler(b, now, e) ==
    /\ e.id = "exit_to_scheduler"
    /\ Becomes(b.ts, b.act, None, 0)
(* TASK_INFO makes the task known; OVERFLOW, START and the rest only break *)
(* or move the timeline.                                                   *)
Other(b, now, e) ==
    /\ e.id \in {"overflow", "start", "task_info", "other"}
    /\ Becomes(IF e.id = "task_info" THEN Heard(b.ts, e.task) ELSE b.ts, b.act, b.int, b.depth)

Named == {"task_exec", "task_create", "task_over", "task_info"}
Unnamed == {"isr_enter", "isr_exit", "task_stop", "idle", "stop", "exit_to_scheduler", "overflow", "start", "other"}
Packets == [id : Named, task : Task, sync : BOOLEAN] \union [id : Unnamed, task : {None}, sync : BOOLEAN]

(* apply_with_loss_tracking *)
Apply(e, delta) ==
    LET b == Before(e)
        now == last + delta
    IN /\ (resync => e.sync) /\ resync' = FALSE
       /\ now <= MaxCycles /\ last' = now /\ UNCHANGED window
       /\ \/ IsrEnter(b, now, e) \/ IsrExit(b, now, e) \/ TaskExec(b, now, e) \/ TaskStop(b, now, e)
          \/ TaskCreate(b, now, e) \/ TaskOver(b, now, e) \/ TraceStop(b, now, e)
          \/ ExitToScheduler(b, now, e) \/ Other(b, now, e)
       /\ Keep(e)

(* mark_input_gap: chunks were lost before the decoder.                    *)
MarkInputGap ==
    /\ Becomes(Charged(tasks, active, last), Idle, None, 0) /\ resync' = TRUE
    /\ UNCHANGED <<timeline, events, entry>>

(* clear: the window starts here, and what runs goes on running.           *)
Clear ==
    /\ tasks' = [t \in Task |-> [tasks[t] EXCEPT !.runtime = 0]]
    /\ active' = IF active.task = None THEN Idle ELSE Running(active.task, last)
    /\ window' = last /\ events' = <<>> /\ entry' = FoldLeft(Applied, entry, events)
    /\ UNCHANGED <<last, interrupted, depth, resync>>

Next == (\E e \in Packets, delta \in 0..1 : Apply(e, delta)) \/ MarkInputGap \/ Clear
Spec == Init /\ [][Next]_svvars

------------------------------------------------------------------------------
(* runtime_cycles of a task in snapshot                                    *)
Snapshot(t) == tasks[t].runtime + (IF active.task = t THEN last - active.at ELSE 0)

(* No cycle of the target is charged twice, to two tasks or to a task and  *)
(* an interrupt: what the snapshot shows never adds up to more than the    *)
(* window, through markers, overflows, gaps, nested and unmatched          *)
(* interrupts and a clear in the middle (TraceState).  The state the       *)
(* history starts from has one thing running at most.                      *)
CyclesChargedOnce ==
    /\ MapThenFoldSet(+, 0, Snapshot, LAMBDA S : CHOOSE t \in S : TRUE, Task) <= last - window
    /\ interrupted # None => active.task = None /\ depth > 0
    /\ entry.active # None => entry.depth = 0 /\ ~entry.idle
=============================================================================
