----------------------------- MODULE DebugTarget -----------------------------
(***************************************************************************)
(* One physical debug probe shared by sessions: EmbeddedDebugManager's     *)
(* slot, DebugTargetRuntime with its worker and scheduler, and the leases  *)
(* (embedded_debug/runtime.rs, probe_runtime.rs), as the RTT backend uses  *)
(* them (plugins/rtt/backend/probe_rs.rs): acquire the target, lease the   *)
(* service "rtt", execute operations one after the other, let go.          *)
(***************************************************************************)
EXTENDS Naturals, Sequences, FiniteSets

CONSTANTS Session,    \* RTT sessions on this probe
          Config,     \* target settings a session may ask for
          Worker,     \* worker threads, one per opening (bound of the model)
          Capacity,   \* SERVICE_QUEUE_CAPACITY
          MaxOps,     \* operations per session (bound of the model)
          None

VARIABLES slot,    \* TargetSlotState: its kind, its worker and settings
          mutex,   \* the session that holds the slot's mutex while it opens
          wk,      \* worker threads: where, holding the probe, its exit flag
          queue,   \* the queue of the service, per worker
          closed,  \* schedulers asked to shut down
          lease,   \* who holds the service "rtt", per worker
          ses      \* sessions: where, their runtime (a worker), operations, last result

dtvars == <<slot, mutex, wk, queue, closed, lease, ses>>

Vacant == [kind |-> "vacant", w |-> None, cfg |-> None]

Init ==
    /\ slot = Vacant /\ mutex = None
    /\ wk = [w \in Worker |-> [pc |-> "unborn", probe |-> FALSE, exited |-> FALSE, op |-> None]]
    /\ queue = [w \in Worker |-> <<>>] /\ closed = {}
    /\ lease = [w \in Worker |-> None]
    /\ ses = [s \in Session |-> [pc |-> "idle", w |-> None, ops |-> 0, cfg |-> None,
                              wait |-> "none", expired |-> FALSE]]

(* Strong references: whoever has the runtime                              *)
Holders(w) == {s \in Session : ses[s].w = w /\ ses[s].pc # "closing"}
(* A worker whose runtime exists (its opening came back)                   *)
Unborn == {w \in Worker : wk[w].pc = "unborn"}

------------------------------------------------------------------------------
(* EmbeddedDebugManager::acquire_target *)

(* The turns of its loop: a slot whose worker has exited is vacant.        *)
Stale_Always == slot.kind # "vacant" /\ Holders(slot.w) = {}
Stale == slot.kind # "vacant" /\ wk[slot.w].exited
Acquire(s, cfg) ==
    /\ ses[s].pc = "idle" /\ ses[s].ops < MaxOps /\ mutex = None
    /\ IF slot.kind # "vacant" /\ ~Stale
       THEN \* TargetConfigConflict, TargetOpening, TargetClosing, or the runtime itself
            /\ LET shared == slot.kind = "active" /\ Holders(slot.w) # {} /\ slot.cfg = cfg
               IN ses' = [ses EXCEPT ![s].cfg = IF shared THEN cfg ELSE None,
                                     ![s].pc = IF shared THEN "target" ELSE "idle",
                                     ![s].w = IF shared THEN slot.w ELSE None,
                                     ![s].ops = IF shared THEN @ ELSE @ + 1]
            /\ UNCHANGED <<slot, mutex, wk>>
       ELSE \E w \in Unborn :
            /\ slot' = [kind |-> "opening", w |-> w, cfg |-> cfg]
            /\ mutex' = s /\ wk' = [wk EXCEPT ![w].pc = "opening"]
            /\ ses' = [ses EXCEPT ![s].pc = "opening", ![s].cfg = cfg]
    /\ UNCHANGED <<queue, closed, lease>>

(* open: what came through startup_tx, or ten seconds; the slot stays      *)
(* Opening only for a worker that may still come late.                     *)
OpenReturns(s) ==
    /\ ses[s].pc = "opening" /\ mutex' = None
    /\ \/ /\ wk[slot.w].pc = "offering" /\ wk' = [wk EXCEPT ![slot.w].pc = "serving"]
          /\ slot' = [slot EXCEPT !.kind = "active"]
          /\ ses' = [ses EXCEPT ![s].pc = "target", ![s].w = slot.w]
       \/ \* the error, after a join
          /\ wk[slot.w].pc = "failed" /\ wk[slot.w].exited /\ slot' = Vacant
          /\ ses' = [ses EXCEPT ![s].pc = "idle", ![s].cfg = None, ![s].ops = @ + 1] /\ UNCHANGED wk
       \/ \* StartupTimeout
          /\ wk[slot.w].pc \in {"opening", "offering"}
          /\ wk' = [wk EXCEPT ![slot.w].pc = IF @ = "opening" THEN "late" ELSE "refused"]
          /\ ses' = [ses EXCEPT ![s].pc = "idle", ![s].cfg = None, ![s].ops = @ + 1] /\ UNCHANGED slot
    /\ UNCHANGED <<queue, closed, lease>>

(* acquire_service, then the local reference to the target goes            *)
Lease(s) ==
    /\ ses[s].pc = "target"
    /\ IF wk[ses[s].w].exited \/ lease[ses[s].w] # None
       THEN ses' = [ses EXCEPT ![s].pc = "dropping", ![s].ops = @ + 1] /\ UNCHANGED lease
       ELSE ses' = [ses EXCEPT ![s].pc = "leased"] /\ lease' = [lease EXCEPT ![ses[s].w] = s]
    /\ UNCHANGED <<slot, mutex, wk, queue, closed>>

------------------------------------------------------------------------------
(* execute *)

Enqueue(s) ==
    /\ ses[s].pc = "leased" /\ ses[s].ops < MaxOps
    /\ LET w == ses[s].w
       IN IF wk[w].exited \/ w \in closed \/ Len(queue[w]) >= Capacity
          THEN ses' = [ses EXCEPT ![s].ops = @ + 1] /\ UNCHANGED queue
          ELSE /\ queue' = [queue EXCEPT ![w] = Append(@, [by |-> s, n |-> ses[s].ops])]
               /\ ses' = [ses EXCEPT ![s].pc = "waiting", ![s].wait = "queued", ![s].expired = FALSE]
    /\ UNCHANGED <<slot, mutex, wk, closed, lease>>
(* the deadline of the operation                                           *)
Expire(s) ==
    /\ ses[s].pc = "waiting" /\ ~ses[s].expired /\ ses' = [ses EXCEPT ![s].expired = TRUE]
    /\ UNCHANGED <<slot, mutex, wk, queue, closed, lease>>
(* the answer, or the deadline: Timeout when the operation had not         *)
(* started, InFlightTimeout when it had                                    *)
Result(s) ==
    /\ ses[s].pc = "waiting"
    /\ \/ ses[s].wait = "answered"
       \/ ses[s].expired
    /\ ses' = [ses EXCEPT ![s].pc = "leased", ![s].ops = @ + 1, ![s].expired = FALSE,
                          ![s].wait = IF @ = "answered" THEN "ok"
                                      ELSE IF @ = "started" THEN "unknown" ELSE "timeout"]
    /\ UNCHANGED <<slot, mutex, wk, queue, closed, lease>>

(* The backend is shut down, or gives up after an unknown outcome.         *)
Release(s) ==
    /\ ses[s].pc = "leased"
    /\ lease' = [lease EXCEPT ![ses[s].w] = None]
    /\ ses' = [ses EXCEPT ![s].pc = "dropping", ![s].wait = "none"]
    /\ UNCHANGED <<slot, mutex, wk, queue, closed>>
(* The last reference: DebugTargetRuntime::drop asks for the shutdown.     *)
DropTarget(s) ==
    /\ ses[s].pc = "dropping"
    /\ IF Holders(ses[s].w) = {s}
       THEN /\ closed' = closed \union {ses[s].w} /\ queue' = [queue EXCEPT ![ses[s].w] = <<>>]
            /\ ses' = [ses EXCEPT ![s].pc = "closing"]
       ELSE ses' = [ses EXCEPT ![s].pc = "idle", ![s].w = None, ![s].cfg = None] /\ UNCHANGED <<closed, queue>>
    /\ UNCHANGED <<slot, mutex, wk, lease>>
(* the handshake and a join, or two seconds and the worker is on its own   *)
Closed(s) ==
    /\ ses[s].pc = "closing"
    /\ ses' = [ses EXCEPT ![s].pc = "idle", ![s].w = None, ![s].cfg = None]
    /\ UNCHANGED <<slot, mutex, wk, queue, closed, lease>>

------------------------------------------------------------------------------
(* The worker *)

(* open_resolved takes the probe, or does not; a startup nobody waits for  *)
(* is given up.                                                            *)
Opens(w) ==
    /\ wk[w].pc \in {"opening", "late"}
    /\ \/ wk' = [wk EXCEPT ![w].pc = IF @ = "late" THEN "refused" ELSE "offering", ![w].probe = TRUE]
       \/ wk' = [wk EXCEPT ![w].pc = "failed"]
    /\ UNCHANGED <<slot, mutex, queue, closed, lease, ses>>
NextOp(w) ==
    /\ wk[w].pc = "serving" /\ w \notin closed /\ queue[w] # <<>>
    /\ LET op == Head(queue[w])
           mine == ses[op.by].pc = "waiting" /\ ses[op.by].ops = op.n
           late == ~mine \/ ses[op.by].expired
       IN /\ wk' = [wk EXCEPT ![w].pc = IF late THEN @ ELSE "checked", ![w].op = IF late THEN None ELSE op]
          /\ ses' = IF late /\ mine THEN [ses EXCEPT ![op.by].wait = "answered"] ELSE ses
    /\ queue' = [queue EXCEPT ![w] = Tail(@)]
    /\ UNCHANGED <<slot, mutex, closed, lease>>
Mine(op) == ses[op.by].pc = "waiting" /\ ses[op.by].ops = op.n
Starts(w) ==
    /\ wk[w].pc = "checked" /\ wk' = [wk EXCEPT ![w].pc = "started"]
    /\ ses' = IF Mine(wk[w].op) THEN [ses EXCEPT ![wk[w].op.by].wait = "started"] ELSE ses
    /\ UNCHANGED <<slot, mutex, queue, closed, lease>>
Answers(w) ==
    /\ wk[w].pc = "started" /\ wk' = [wk EXCEPT ![w].pc = "serving", ![w].op = None]
    /\ ses' = IF Mine(wk[w].op) THEN [ses EXCEPT ![wk[w].op.by].wait = "answered"] ELSE ses
    /\ UNCHANGED <<slot, mutex, queue, closed, lease>>
ShutsDown(w) ==
    /\ wk[w].pc = "serving" /\ w \in closed /\ wk' = [wk EXCEPT ![w].pc = "refused"]
    /\ UNCHANGED <<slot, mutex, queue, closed, lease, ses>>
(* The probe goes first, the guard that tells so last.                     *)
LetsGo_Early(w) ==
    /\ wk[w].pc \in {"refused", "failed"} /\ ~wk[w].exited
    /\ wk' = [wk EXCEPT ![w].exited = TRUE]
    /\ UNCHANGED <<slot, mutex, queue, closed, lease, ses>>
LetsGo(w) ==
    /\ wk[w].pc \in {"refused", "failed"} /\ ~wk[w].exited
    /\ wk' = IF wk[w].probe THEN [wk EXCEPT ![w].probe = FALSE] ELSE [wk EXCEPT ![w].exited = TRUE]
    /\ UNCHANGED <<slot, mutex, queue, closed, lease, ses>>

WorkerRuns(w) == Opens(w) \/ NextOp(w) \/ Starts(w) \/ Answers(w) \/ ShutsDown(w) \/ LetsGo(w)
SessionRuns(s) == OpenReturns(s) \/ Lease(s) \/ Expire(s) \/ Result(s) \/ DropTarget(s) \/ Closed(s)
Next ==
    \/ \E s \in Session : (\E cfg \in Config : Acquire(s, cfg)) \/ Enqueue(s) \/ Release(s) \/ SessionRuns(s)
    \/ \E w \in Worker : WorkerRuns(w)
Runs == (\E s \in Session : SessionRuns(s)) \/ \E w \in Worker : WorkerRuns(w)
Spec == Init /\ [][Next]_dtvars /\ WF_dtvars(Runs)

------------------------------------------------------------------------------
(* A probe has one owner: through slow openings that were given up, workers*)
(* that were left to end on their own and sessions that come and go, no two*)
(* workers ever hold it, and a session only ever works with the target     *)
(* settings it asked for (acquire_target, WorkerExitGuard).                *)
OneProbeOwner ==
    /\ Cardinality({w \in Worker : wk[w].probe}) <= 1
    /\ \A s \in Session : ses[s].pc \in {"leased", "waiting"} =>
           lease[ses[s].w] = s /\ slot.w = ses[s].w /\ slot.cfg = ses[s].cfg
(* Nobody waits for ever for the probe, and a probe nobody uses is let go  *)
(* of.                                                                     *)
Waiting(s) == ses[s].pc \in {"opening", "waiting", "closing"}
Unused(w) == w \in closed
LetGo(w) == ~wk[w].probe
=============================================================================
