---------------------------- MODULE ScriptEngine ----------------------------
(***************************************************************************)
(* The Lua worker of a session (kernel/script_engine): its loop over data, *)
(* commands and timers, and one host entry into Lua (ScriptExecution),     *)
(* with the instruction budget and the cancellation flag that the script   *)
(* must not escape by catching errors or by running in coroutines.         *)
(*                                                                         *)
(* A script is whatever sequence of operations the code below lets it do.  *)
(* One operation stands for an instruction; the hook runs after Every of   *)
(* them on the thread it is set on, and counts afresh when it is set.      *)
(***************************************************************************)
EXTENDS Naturals, Sequences, FiniteSets

CONSTANTS
    Limit,          \* INSTRUCTIONS_PER_ENTRY in units of the hook
    Every,          \* INSTRUCTIONS_PER_HOOK
    MaxDepth,       \* protected calls and coroutines inside one another
    Capacity,       \* the command queue
    MaxData,        \* chunks the data source delivers
    MaxLoads        \* commands the user gives

VARIABLES
    worker,         \* where the loop is: at, handlers, timers
    stack,          \* the frames of the entry, the innermost last
    mode,           \* what the innermost frame does: run, sleep, raise, none
    slice,          \* ExecutionSlice: remaining, interruption
    hook,           \* the thread the hook is on, and its count
    spent,          \* operations of the running entry
    shutdown,       \* the cancellation flag
    queue,          \* commands waiting
    source,         \* the subscription: chunks, open
    given           \* commands and chunks produced so far

sevars == <<worker, stack, mode, slice, hook, spent, shutdown, queue, source, given>>

Init ==
    /\ worker = [at |-> "loop", why |-> "none", handlers |-> 0, timers |-> 0]
    /\ stack = <<>>
    /\ mode = "none"
    /\ slice = [remaining |-> 0, interruption |-> "none"]
    /\ hook = [on |-> 0, count |-> 0]
    /\ spent = 0
    /\ shutdown = FALSE
    /\ queue = 1
    /\ source = [chunks |-> 0, open |-> TRUE]
    /\ given = [loads |-> 1, chunks |-> 0]

----------------------------------------------------------------------------
(* One entry: ScriptExecution *)

\* Coroutines are threads of their own: a frame runs on the innermost one.
Thread(s) == Cardinality({i \in DOMAIN s : s[i] = "co"}) + 1

Top == stack[Len(stack)]
Below == SubSeq(stack, 1, Len(stack) - 1)

\* charge: the flag first, then the budget.
Charged ==
    IF shutdown THEN [slice EXCEPT !.interruption = "cancelled"]
    ELSE IF slice.remaining <= 1 THEN [slice EXCEPT !.interruption = "budget"]
    ELSE [slice EXCEPT !.remaining = @ - 1]

Interrupted(sl) == sl.interruption # "none"

\* call: a new slice, the hook on a new thread whose first frame is the
\* native pcall.  A cancelled engine does not enter.
Enters(why) ==
    /\ stack' = <<"entry">>
    /\ mode' = "run"
    /\ slice' = [remaining |-> Limit, interruption |-> "none"]
    /\ hook' = [on |-> 1, count |-> 0]
    /\ spent' = 0
    /\ worker' = [worker EXCEPT !.at = "lua", !.why = why,
                                !.handlers = IF why = "load" THEN 0 ELSE @,
                                !.timers = IF why = "load" THEN 0 ELSE @]

\* One operation of the script.  On the hooked thread it is counted, and the
\* last of Every operations charges the slice instead of going on.
Operates(then) ==
    /\ mode = "run"
    /\ spent' = spent + 1
    /\ IF hook.on = Thread(stack) /\ hook.count + 1 = Every
         THEN /\ slice' = Charged
              /\ hook' = [hook EXCEPT !.count = 0]
              /\ IF Interrupted(slice') THEN mode' = "raise" /\ UNCHANGED <<stack, worker>>
                                        ELSE then
         ELSE /\ hook' = [hook EXCEPT !.count = IF hook.on = Thread(stack) THEN @ + 1 ELSE @]
              /\ UNCHANGED slice
              /\ then

\* Computes, registers a handler or a timer, or sends (which the flag stops).
Compute == /\ Operates(UNCHANGED <<stack, mode, worker>>)
           /\ UNCHANGED <<shutdown, queue, source, given>>

Registers ==
    /\ worker.handlers = 0
    /\ Operates(UNCHANGED <<stack, mode>> /\ worker' = [worker EXCEPT !.handlers = 1, !.timers = 1])
    /\ UNCHANGED <<shutdown, queue, source, given>>

Sends == /\ Operates(mode' = (IF shutdown THEN "raise" ELSE "run") /\ UNCHANGED <<stack, worker>>)
         /\ UNCHANGED <<shutdown, queue, source, given>>

Raises == /\ Operates(mode' = "raise" /\ UNCHANGED <<stack, worker>>)
          /\ UNCHANGED <<shutdown, queue, source, given>>

Protects(kind) ==
    /\ Len(stack) < MaxDepth
    /\ Operates(stack' = Append(stack, kind) /\ UNCHANGED <<mode, worker>>)
    /\ UNCHANGED <<shutdown, queue, source, given>>

Sleeps == /\ Operates(mode' = (IF shutdown THEN "raise" ELSE "sleep") /\ UNCHANGED <<stack, worker>>)
          /\ UNCHANGED <<shutdown, queue, source, given>>

\* sleep looks at the flag in every slice of 50 ms, however long it is.
SleepStops_Whole == FALSE /\ UNCHANGED sevars

SleepStops ==
    /\ mode = "sleep"
    /\ shutdown
    /\ mode' = "raise"
    /\ UNCHANGED <<worker, stack, slice, hook, spent, shutdown, queue, source, given>>

SleepEnds ==
    /\ mode = "sleep"
    /\ mode' = "run"
    /\ UNCHANGED <<worker, stack, slice, hook, spent, shutdown, queue, source, given>>

\* coroutine.resume: charged, and the hook moves to the coroutine.
Resumes ==
    /\ mode = "run"
    /\ Len(stack) < MaxDepth
    /\ slice' = Charged
    /\ spent' = spent + 1
    /\ IF Interrupted(slice') THEN mode' = "raise" /\ UNCHANGED <<stack, hook>>
       ELSE /\ stack' = Append(stack, "co")
            /\ hook' = [on |-> Thread(stack'), count |-> 0]
            /\ UNCHANGED mode
    /\ UNCHANGED <<worker, shutdown, queue, source, given>>

\* After a frame is left, check_interruption raises again: a protected call
\* cannot turn an interrupted entry into success.
Rebound_Never(s, f) == hook
Rebound(s, f) == IF f = "co" THEN [on |-> Thread(s), count |-> 0] ELSE hook

Uncaught_Swallowed == "run"
Uncaught == IF Interrupted(slice) THEN "raise" ELSE "run"

\* A frame ends by returning (or by yielding, for a coroutine) ...
Returns ==
    /\ mode = "run"
    /\ Len(stack) > 1
    /\ stack' = Below
    /\ hook' = Rebound(Below, Top)
    /\ mode' = Uncaught
    /\ UNCHANGED <<worker, slice, spent, shutdown, queue, source, given>>

\* ... or by an error.  The handler of xpcall runs in a protected call of its
\* own, after the first has unwound and unless the entry is interrupted.
Unwinds ==
    /\ mode = "raise"
    /\ Len(stack) > 1
    /\ stack' = IF Top = "xpcall" /\ ~Interrupted(slice) THEN Append(Below, "pcall") ELSE Below
    /\ hook' = Rebound(Below, Top)
    /\ mode' = Uncaught
    /\ UNCHANGED <<worker, slice, spent, shutdown, queue, source, given>>

\* The entry is over: a failed load leaves no callbacks behind.
Leaves ==
    /\ Len(stack) = 1
    /\ mode \in {"run", "raise"}
    /\ stack' = <<>>
    /\ mode' = "none"
    /\ hook' = [on |-> 0, count |-> 0]
    /\ slice' = [remaining |-> 0, interruption |-> "none"]
    /\ spent' = 0
    /\ LET failed == mode = "raise" \/ Interrupted(slice) IN
       worker' = [worker EXCEPT !.at = IF worker.why = "data" THEN "recv" ELSE "loop",
                                !.handlers = IF worker.why = "load" /\ failed THEN 0 ELSE @,
                                !.timers = IF worker.why = "load" /\ failed THEN 0 ELSE @]
    /\ UNCHANGED <<shutdown, queue, source, given>>

Lua == \/ Compute \/ Registers \/ Sends \/ Raises \/ Sleeps \/ SleepStops
       \/ \E k \in {"pcall", "xpcall"} : Protects(k)
       \/ Resumes \/ Returns \/ Unwinds \/ Leaves

----------------------------------------------------------------------------
(* The loop: spawn_script_thread, drain_automation, load_script, feed_data *)

Idle == UNCHANGED <<stack, mode, slice, hook, spent>>

Ends ==
    /\ worker.at = "loop"
    /\ shutdown \/ (source.chunks = 0 /\ ~source.open)
    /\ worker' = [worker EXCEPT !.at = "ended", !.handlers = 0, !.timers = 0]
    /\ Idle /\ UNCHANGED <<shutdown, queue, source, given>>

\* A chunk is given to the handlers; without one it is dropped.  The 64 chunks
\* after which the loop turns to commands and timers are one here.
Drain ==
    /\ worker.at = "loop"
    /\ ~shutdown
    /\ source.chunks > 0
    /\ source' = [source EXCEPT !.chunks = @ - 1]
    /\ IF worker.handlers > 0 THEN Enters("data")
                              ELSE worker' = [worker EXCEPT !.at = "recv"] /\ Idle
    /\ UNCHANGED <<shutdown, queue, given>>

Drained ==
    /\ worker.at = "loop"
    /\ ~shutdown
    /\ source.chunks = 0 /\ source.open
    /\ worker' = [worker EXCEPT !.at = "recv"]
    /\ Idle /\ UNCHANGED <<shutdown, queue, source, given>>

\* recv_timeout: a command clears the callbacks and runs the new script ...
Loads ==
    /\ worker.at = "recv"
    /\ queue > 0
    /\ queue' = queue - 1
    /\ IF shutdown THEN worker' = [worker EXCEPT !.at = "loop", !.handlers = 0, !.timers = 0] /\ Idle
                   ELSE Enters("load")
    /\ UNCHANGED <<shutdown, source, given>>

\* ... and without one the timers that are due run.
Ticks ==
    /\ worker.at = "recv"
    /\ queue = 0
    /\ IF worker.timers > 0 /\ ~shutdown
         THEN Enters("timer")
         ELSE worker' = [worker EXCEPT !.at = "loop"] /\ Idle
    /\ UNCHANGED <<shutdown, queue, source, given>>

----------------------------------------------------------------------------
(* The others *)

\* start_script on a session that has a script: the queue may be full, the
\* worker gone.
Load ==
    /\ given.loads < MaxLoads
    /\ ~shutdown
    /\ given' = [given EXCEPT !.loads = @ + 1]
    /\ queue' = IF queue < Capacity /\ worker.at # "ended" THEN queue + 1 ELSE queue
    /\ Idle /\ UNCHANGED <<worker, shutdown, source>>

Cancel ==
    /\ ~shutdown
    /\ shutdown' = TRUE
    /\ Idle /\ UNCHANGED <<worker, queue, source, given>>

Arrives ==
    /\ source.open
    /\ given.chunks < MaxData
    /\ given' = [given EXCEPT !.chunks = @ + 1]
    /\ source' = [source EXCEPT !.chunks = @ + 1]
    /\ Idle /\ UNCHANGED <<worker, shutdown, queue>>

SourceCloses ==
    /\ source.open
    /\ source' = [source EXCEPT !.open = FALSE]
    /\ Idle /\ UNCHANGED <<worker, shutdown, queue, given>>

----------------------------------------------------------------------------

\* The worker thread.
Runs == Lua \/ Ends \/ Drain \/ Drained \/ Loads \/ Ticks

\* How long a script sleeps is its own business.
Next == Runs \/ SleepEnds \/ Load \/ Cancel \/ Arrives \/ SourceCloses

Spec == Init /\ [][Next]_sevars /\ WF_sevars(Runs)

----------------------------------------------------------------------------

\* No script escapes its entry: the hook is on the thread that runs, an
\* interrupted entry only unwinds, and the work done stays within the budget
\* (twice, because a coroutine's return starts the caller's count afresh).
EntryBounded ==
    /\ worker.at = "lua" => spent <= 2 * Limit * Every
    /\ mode \in {"run", "sleep"} => ~Interrupted(slice) /\ hook.on = Thread(stack)

\* A cancelled worker ends, and a script that was accepted is run or given up
\* with it, whatever the scripts do, unless one sleeps.
Awaited == shutdown \/ queue > 0
Reached == worker.at = "ended" \/ (~shutdown /\ (queue = 0 \/ mode = "sleep"))

=============================================================================
