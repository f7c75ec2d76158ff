---------------------------- MODULE DataBatcher ----------------------------
(***************************************************************************)
(* kernel/data_batcher.rs: the thread that merges the display data of all  *)
(* sessions.  Chunks of every session arrive in one bounded queue; the     *)
(* thread collects them per session and emits a session's buffer when it   *)
(* is full or when its window of 16 ms is over.  The end of a window is    *)
(* only noticed when recv_timeout finds the queue empty: a receive with an *)
(* elapsed timeout still returns a waiting chunk first.  The contents of   *)
(* chunks are left out; a buffer is its length in chunks.                  *)
(***************************************************************************)
EXTENDS Naturals, Sequences

CONSTANTS Session, Capacity, Threshold   \* Capacity: 512; Threshold: BATCH_FLUSH_THRESHOLD

VARIABLES queue,    \* sync_channel of BatchCmd
          pending,  \* pending_map: buffered chunks of a session
          due,      \* sessions whose window has ended
          thread    \* "running", "stopping" (shutdown sent) or "ended"

dbvars == <<queue, pending, due, thread>>

Stop == "shutdown"

Init ==
    /\ queue = <<>> /\ pending = [s \in Session |-> 0] /\ due = {}
    /\ thread = "running"

(* push: try_send; a chunk that finds the queue full is dropped *)
Push(s) ==
    /\ thread = "running" /\ Len(queue) < Capacity
    /\ queue' = Append(queue, s)
    /\ UNCHANGED <<pending, due, thread>>

(* shutdown, by Drop: waits for room *)
Shutdown ==
    /\ thread = "running" /\ Len(queue) < Capacity
    /\ queue' = Append(queue, Stop) /\ thread' = "stopping"
    /\ UNCHANGED <<pending, due>>

(* 16 ms after the first chunk of a buffer *)
WindowEnds(s) ==
    /\ pending[s] > 0 /\ s \notin due
    /\ due' = due \cup {s}
    /\ UNCHANGED <<queue, pending, thread>>

(* run: Ok(Push); a buffer that has reached the threshold is emitted *)
Collect ==
    /\ queue # <<>> /\ Head(queue) # Stop
    /\ queue' = Tail(queue)
    /\ LET s == Head(queue)
           full == pending[s] + 1 >= Threshold
       IN /\ pending' = [pending EXCEPT ![s] = IF full THEN 0 ELSE @ + 1]
          /\ due' = IF full THEN due \ {s} ELSE due
    /\ UNCHANGED thread

(* run: Timeout, only without a waiting command; emits what is due *)
FlushDue ==
    /\ thread # "ended" /\ queue = <<>> /\ due # {}
    /\ pending' = [s \in Session |-> IF s \in due THEN 0 ELSE pending[s]]
    /\ due' = {}
    /\ UNCHANGED <<queue, thread>>

(* run: Shutdown; everything left is emitted *)
Drain ==
    /\ queue # <<>> /\ Head(queue) = Stop
    /\ queue' = Tail(queue) /\ thread' = "ended"
    /\ pending' = [s \in Session |-> 0] /\ due' = {}

Next ==
    \/ Collect \/ FlushDue \/ Drain \/ Shutdown
    \/ \E s \in Session : Push(s) \/ WindowEnds(s)

(* The batcher thread keeps running.                                       *)
Progress == Collect \/ Drain
Spec == Init /\ [][Next]_dbvars /\ WF_dbvars(Progress)

(* A batcher that is shut down ends, and everything it had accepted from   *)
(* any session has been emitted, full buffer or not.  While it runs, a     *)
(* buffer whose window has ended may wait as long as another session keeps *)
(* the queue from running empty (see FlushDue).                            *)
Awaited == thread = "stopping"
Reached == thread = "ended" /\ queue = <<>> /\ \A s \in Session : pending[s] = 0
=============================================================================
