---------------------------- MODULE VirtualPorts ----------------------------
(***************************************************************************)
(* Ownership of com0com port pairs on Windows: virtual_port/manager.rs,    *)
(* the TauTermService that serves GUI processes over a pipe                *)
(* (bin/tauterm-service.rs, service_backend.rs) and the one-shot elevated  *)
(* helper a GUI uses without the service (elevated.rs).                    *)
(*                                                                         *)
(* Three things must agree although any process may die between two of     *)
(* them: the pairs installed in the driver, the ledger on disk of the      *)
(* pairs TauTerm made (with the GUI that owns each), and the active set in *)
(* the manager's memory.  Other programs also install and remove pairs.    *)
(* A pair is a bus number and its two COM names (one value here); other    *)
(* programs use other names.  The driver list and the removal that follows *)
(* it are one step: the mutation mutex excludes TauTerm's own processes.   *)
(***************************************************************************)
EXTENDS Naturals, FiniteSets

CONSTANTS Gui,          \* GUI processes (PIDs)
          MaxBus,       \* bus numbers 0..MaxBus (bound of the model)
          Names,        \* pairs of COM names TauTerm may choose
          MaxPairs,     \* pairs per request (4 in the code)
          MaxFaults,    \* crashes, failures of setupc or the disk, foreign changes
          Meddling      \* other programs also remove TauTerm's pairs
CONSTANTS Foreign, NoName, Nobody

VARIABLES mode,         \* "service" or "direct" (elevated helper)
          driver,       \* [bus -> names of the installed pair]
          ledger,       \* com0com_state.json: records [ep, owner]
          active,       \* active_endpoints of the manager
          conn,         \* per GUI: is it connected, and the pairs it holds
          watch,        \* exit watchers [g, eps] of closed connections
          alive,        \* running GUI processes
          job,          \* the request the manager works on
          lost,         \* history: pairs nobody records, or nobody releases, any more
          faults

vpvars == <<mode, driver, ledger, active, conn, watch, alive, job, lost, faults>>

Bus == 0..MaxBus
Endpoint == [bus : Bus, names : Names]

Idle == [op |-> "idle", g |-> Nobody, owner |-> Nobody, left |-> 0, made |-> {}, todo |-> {},
         after |-> {}, ep |-> [bus |-> 0, names |-> NoName], auth |-> FALSE, asked |-> FALSE]
Down == [Idle EXCEPT !.op = "down"]
NotConnected == [up |-> FALSE, eps |-> {}]

Init ==
    /\ mode \in {"service", "direct"}
    /\ driver = [b \in Bus |-> NoName]
    /\ ledger = {} /\ active = {} /\ watch = {} /\ lost = {} /\ faults = 0
    /\ conn = [g \in Gui |-> NotConnected]
    /\ alive = Gui
    /\ job = Idle

(* The manager's own owner_pid: none in the service.                       *)
Self == IF mode = "service" THEN Nobody ELSE job.owner

Installed(ep) == driver[ep.bus] = ep.names
Fault == faults < MaxFaults /\ faults' = faults + 1

(* record_is_reclaimable, seen by a manager that works for self.           *)
Reclaimable(r, self, held) == r.ep \notin held /\ ~(r.owner \in alive /\ r.owner # self)

Orphans(self, held) == {r.ep : r \in {x \in ledger : Reclaimable(x, self, held)}}

(* reconcile_owned_state: records whose pair is gone or changed are        *)
(* forgotten.                                                              *)
Reconciled == {r \in ledger : Installed(r.ep)}
StillActive == active \ {r.ep : r \in ledger \ Reconciled}

------------------------------------------------------------------------------
(* Requests of a GUI *)

(* adopt_owned_endpoints_for_owner                                         *)
Adopted(g) == {r.ep : r \in {x \in Reconciled : x.owner = g}}

(* connect_inner and hello: the service adopts what the ledger says this   *)
(* process owns.                                                           *)
Hello(g) ==
    /\ mode = "service" /\ job.op = "idle" /\ g \in alive /\ ~conn[g].up
    /\ conn' = [conn EXCEPT ![g] = [up |-> TRUE, eps |-> Adopted(g)]]
    /\ active' = {a \in StillActive : a.bus \notin {e.bus : e \in Adopted(g)}} \cup Adopted(g)
    /\ ledger' = Reconciled
    /\ UNCHANGED <<mode, driver, watch, alive, job, lost, faults>>

(* May this GUI ask now?  Requests are served one at a time (the manager's *)
(* lock, the mutation mutex of the helpers).                               *)
Asks(g, m) == mode = m /\ job.op = "idle" /\ g \in alive /\ (m = "service" => conn[g].up)

Request(g, op) == [Idle EXCEPT !.op = op, !.g = g, !.owner = g]

(* create_endpoints: the ledger is reconciled first.                       *)
EnsureByService(g) ==
    /\ Asks(g, "service")
    /\ \E count \in 1..MaxPairs : job' = [Request(g, "create") EXCEPT !.left = count]
    /\ ledger' = Reconciled /\ active' = StillActive
    /\ UNCHANGED <<mode, driver, conn, watch, alive, lost, faults>>

(* EnsureEndpoints in the helper: it has no active pair of its own, and    *)
(* cleans what it was told afterwards.                                     *)
EnsureByHelper(g) ==
    /\ Asks(g, "direct")
    /\ \E count \in 1..MaxPairs :
          job' = [Request(g, "create") EXCEPT !.left = count, !.after = Orphans(g, conn[g].eps)]
    /\ ledger' = Reconciled /\ active' = {}
    /\ UNCHANGED <<mode, driver, conn, watch, alive, lost, faults>>

(* remove_pair *)
DestroyByService(g, ep) ==
    /\ Asks(g, "service") /\ ep \in conn[g].eps
    /\ job' = [Idle EXCEPT !.op = "remove", !.g = g, !.todo = {ep}, !.auth = TRUE, !.asked = TRUE]
    /\ UNCHANGED <<mode, driver, ledger, active, conn, watch, alive, lost, faults>>

(* Without the service a removal is only deferred: a disconnect must not   *)
(* ask for elevation.                                                      *)
DestroyLater(g, ep) ==
    /\ Asks(g, "direct") /\ ep \in conn[g].eps
    /\ conn' = [conn EXCEPT ![g].eps = @ \ {ep}]
    /\ UNCHANGED <<mode, driver, ledger, active, watch, alive, job, lost, faults>>

(* cleanup_orphans *)
CleanupByService(g) ==
    /\ Asks(g, "service")
    /\ ledger' = Reconciled /\ active' = StillActive
    /\ job' = [Idle EXCEPT !.op = "remove", !.auth = TRUE,
                   !.todo = {e \in Orphans(Nobody, StillActive) : Installed(e)}]
    /\ UNCHANGED <<mode, driver, conn, watch, alive, lost, faults>>

CleanupByHelper(g) ==
    /\ Asks(g, "direct")
    /\ active' = {}
    /\ job' = [Idle EXCEPT !.op = "remove", !.owner = g, !.auth = TRUE, !.todo = Orphans(g, conn[g].eps)]
    /\ UNCHANGED <<mode, driver, ledger, conn, watch, alive, lost, faults>>

------------------------------------------------------------------------------
(* create_endpoints_privileged *)

(* What a failed creation does: the pairs made so far are rolled back, and *)
(* the helper does not go on to its cleaning.                              *)
RolledBack(also) == [job EXCEPT !.op = "remove", !.left = 0, !.todo = job.made \cup also,
                                !.made = {}, !.after = {}, !.auth = FALSE]

(* next_free_bus *)
NextBus ==
    LET used == {b \in Bus : driver[b] # NoName}
    IN IF used = {} THEN 0 ELSE 1 + CHOOSE b \in used : \A c \in used : c <= b

(* find_available_port_pairs, without its order *)
FreeNames == {n \in Names : \A b \in Bus : driver[b] # n}

(* One pair: setupc install and the list after it.  Without an exact       *)
(* mapping in that list, or after a timeout of setupc, nothing is claimed. *)
Install ==
    /\ job.op = "create" /\ job.left > 0
    /\ \/ /\ NextBus \in Bus
          /\ \E n \in FreeNames :
               /\ LET ep == [bus |-> NextBus, names |-> n]
                  IN /\ driver' = [driver EXCEPT ![ep.bus] = n]
                     /\ \/ job' = [job EXCEPT !.op = "record", !.ep = ep] /\ UNCHANGED <<faults, lost>>
                        \/ Fault /\ job' = [job EXCEPT !.op = "partial", !.ep = ep] /\ UNCHANGED lost
                        \/ Fault /\ job' = RolledBack({}) /\ lost' = lost \cup {ep}
       \/ job' = RolledBack({}) /\ UNCHANGED <<driver, lost, faults>>
    /\ UNCHANGED <<mode, ledger, active, conn, watch, alive>>

Recorded(ep, owner) == {r \in ledger : r.ep.bus # ep.bus} \cup {[ep |-> ep, owner |-> owner]}

(* track_active_endpoint_with_owner: the ledger first, then the active     *)
(* set.  A pair of which setupc reported an error is recorded too, and     *)
(* then rolled back, alone (the names were taken) or with the rest.        *)
Record_ActiveFirst ==
    /\ job.op \in {"record", "partial"}
    /\ active' = {a \in active : a.bus # job.ep.bus} \cup {job.ep}
    /\ job' = [job EXCEPT !.op = "create", !.left = @ - 1, !.made = @ \cup {job.ep}]
    /\ UNCHANGED <<mode, driver, ledger, conn, watch, alive, lost, faults>>
Record ==
    /\ job.op \in {"record", "partial"}
    /\ \/ /\ ledger' = Recorded(job.ep, job.owner)
          /\ active' = {a \in active : a.bus # job.ep.bus} \cup {job.ep}
          /\ \/ /\ job.op = "record"
                /\ job' = [job EXCEPT !.op = "create", !.left = @ - 1, !.made = @ \cup {job.ep}]
             \/ job.op = "partial" /\ job' = [job EXCEPT !.op = "remove", !.todo = {job.ep}, !.auth = FALSE]
             \/ job.op = "partial" /\ job' = RolledBack({job.ep})
          /\ UNCHANGED faults
       \/ Fault /\ job' = RolledBack({job.ep}) /\ UNCHANGED <<ledger, active>>
    /\ UNCHANGED <<mode, driver, conn, watch, alive, lost>>

(* All pairs made: the reply, or first the helper's cleaning.              *)
Created ==
    /\ job.op = "create" /\ job.left = 0
    /\ conn' = [conn EXCEPT ![job.g].eps =
                    {e \in @ : mode = "direct" \/ e.bus \notin {n.bus : n \in job.made}} \cup job.made]
    /\ job' = [job EXCEPT !.op = "remove", !.made = {}, !.todo = job.after, !.after = {}, !.auth = TRUE]
    /\ UNCHANGED <<mode, driver, ledger, active, watch, alive, lost, faults>>

------------------------------------------------------------------------------
(* remove_endpoint_privileged_locked, one pair of job.todo *)

Done(ep) == [job EXCEPT !.todo = @ \ {ep}]

(* defer_cleanup: the pair stays, or becomes, TauTerm's to reclaim; a bus  *)
(* that has the record of another pair is refused.                         *)
Defer(ep) ==
    /\ active' = active \ {ep}
    /\ job' = Done(ep)
    /\ IF \E r \in ledger : r.ep = ep THEN UNCHANGED <<ledger, lost>>
       ELSE \/ /\ \A r \in ledger : r.ep.bus # ep.bus
               /\ ledger' = Recorded(ep, Self) /\ UNCHANGED lost
            \/ UNCHANGED ledger /\ lost' = lost \cup {ep}

(* forget_owned_endpoint; the ledger may fail to be written.               *)
Forget(ep) ==
    /\ active' = active \ {ep}
    /\ job' = [Done(ep) EXCEPT !.op = "remove"]
    /\ conn' = IF job.asked THEN [conn EXCEPT ![job.g].eps = @ \ {ep}] ELSE conn
    /\ \/ ledger' = {r \in ledger : r.ep # ep} /\ UNCHANGED faults
       \/ Fault /\ UNCHANGED ledger

Authorized(ep) ==
    \/ ~job.auth
    \/ ep \in active
    \/ \E r \in ledger : r.ep = ep /\ Reclaimable(r, Self, active)

Remove(ep) ==
    /\ job.op = "remove" /\ ep \in job.todo
    /\ UNCHANGED <<mode, watch, alive>>
    /\ \/ /\ ~Authorized(ep)
          /\ job' = Done(ep) /\ UNCHANGED <<driver, ledger, active, conn, lost, faults>>
       \/ Authorized(ep) /\ Fault /\ Defer(ep) /\ UNCHANGED <<driver, conn>>
       \/ /\ Authorized(ep) /\ Installed(ep)
          /\ driver' = [driver EXCEPT ![ep.bus] = NoName]
          /\ job' = [job EXCEPT !.op = "forget", !.ep = ep]
          /\ UNCHANGED <<ledger, active, conn, lost, faults>>
       \/ /\ Authorized(ep) /\ ~Installed(ep)
          /\ IF driver[ep.bus] = NoName \/ job.auth THEN Forget(ep)
             ELSE job' = Done(ep) /\ UNCHANGED <<ledger, active, conn, faults>>
          /\ UNCHANGED <<driver, lost>>

Removed ==
    /\ job.op = "forget" /\ Forget(job.ep)
    /\ UNCHANGED <<mode, driver, watch, alive, lost>>

(* Nothing left to remove: the creation goes on, or the request, and with  *)
(* it the helper, ends.                                                    *)
RemovalsDone ==
    /\ job.op = "remove" /\ job.todo = {}
    /\ job' = IF job.left > 0 THEN [job EXCEPT !.op = "create"] ELSE Idle
    /\ active' = IF mode = "direct" /\ job.left = 0 THEN {} ELSE active
    /\ UNCHANGED <<mode, driver, ledger, conn, watch, alive, lost, faults>>

------------------------------------------------------------------------------
(* Processes *)

(* The connection of a GUI breaks, because it ended or for no reason.  Its *)
(* pairs stay active; a watcher removes them once that process has ended,  *)
(* unless the process can no longer be opened.                             *)
Disconnect_Unwatched(g) ==
    /\ conn[g].up /\ job.g # g
    /\ g \in alive => Fault
    /\ g \notin alive => UNCHANGED faults
    /\ conn' = [conn EXCEPT ![g] = NotConnected]
    /\ UNCHANGED <<mode, driver, ledger, active, watch, alive, job, lost>>
Disconnect(g) ==
    /\ conn[g].up /\ job.g # g
    /\ g \in alive => Fault
    /\ g \notin alive => UNCHANGED faults
    /\ conn' = [conn EXCEPT ![g] = NotConnected]
    /\ \/ /\ watch' = IF conn[g].eps = {} THEN watch ELSE watch \cup {[g |-> g, eps |-> conn[g].eps]}
          /\ UNCHANGED lost
       \/ g \notin alive /\ lost' = lost \cup conn[g].eps /\ UNCHANGED watch
    /\ UNCHANGED <<mode, driver, ledger, active, alive, job>>

WatcherFires(w) ==
    /\ w \in watch /\ w.g \notin alive /\ job.op = "idle"
    /\ watch' = watch \ {w}
    /\ job' = [Idle EXCEPT !.op = "remove", !.todo = w.eps, !.auth = TRUE]
    /\ UNCHANGED <<mode, driver, ledger, active, conn, alive, lost, faults>>

GuiExits(g) ==
    /\ g \in alive
    /\ alive' = alive \ {g}
    /\ conn' = IF mode = "direct" THEN [conn EXCEPT ![g].eps = {}] ELSE conn
    /\ UNCHANGED <<mode, driver, ledger, active, watch, job, lost, faults>>

(* The service, or the helper, dies in the middle of anything.  A pair     *)
(* installed but not yet recorded is lost.                                 *)
Crash ==
    /\ job.op # "down" /\ (mode = "direct" => job.op # "idle")
    /\ Fault
    /\ lost' = IF job.op \in {"record", "partial"} THEN lost \cup {job.ep}
               ELSE lost \cup {e \in job.todo : Installed(e) /\ \A r \in ledger : r.ep # e}
    /\ active' = {}
    /\ IF mode = "service"
       THEN /\ job' = Down /\ watch' = {}
            /\ conn' = [g \in Gui |-> NotConnected]
       ELSE job' = Idle /\ UNCHANGED <<watch, conn>>
    /\ UNCHANGED <<mode, driver, ledger, alive>>

(* run_server: cleans the orphans before it accepts connections.           *)
Restart ==
    /\ job.op = "down"
    /\ ledger' = Reconciled
    /\ job' = [Idle EXCEPT !.op = "remove", !.auth = TRUE,
                   !.todo = {e \in Orphans(Nobody, {}) : Installed(e)}]
    /\ UNCHANGED <<mode, driver, active, conn, watch, alive, lost, faults>>

(* Another program installs a pair, or removes any.                        *)
ForeignChange(b) ==
    /\ Fault
    /\ driver[b] \in {NoName, Foreign} \/ Meddling
    /\ driver' \in {[driver EXCEPT ![b] = NoName]}
                   \cup (IF driver[b] = NoName THEN {[driver EXCEPT ![b] = Foreign]} ELSE {})
    /\ driver' # driver
    /\ UNCHANGED <<mode, ledger, active, conn, watch, alive, job, lost>>

------------------------------------------------------------------------------
Works == Install \/ Record \/ Created \/ Removed \/ RemovalsDone \/ Restart
         \/ (\E ep \in Endpoint : Remove(ep))

(* What threads of their own do for a GUI that has ended: its connection   *)
(* is read to the end, its watcher wakes up.                               *)
Hangups == \E g \in Gui \ alive : Disconnect(g)
Wakeups == \E w \in watch : WatcherFires(w)

Next ==
    \/ Works \/ Wakeups \/ Crash
    \/ \E g \in Gui : \/ Hello(g) \/ EnsureByService(g) \/ EnsureByHelper(g)
                     \/ CleanupByService(g) \/ CleanupByHelper(g)
                     \/ Disconnect(g) \/ GuiExits(g)
    \/ \E g \in Gui, ep \in Endpoint : DestroyByService(g, ep) \/ DestroyLater(g, ep)
    \/ \E b \in Bus : ForeignChange(b)

(* A request is worked off; a thread that waits for the manager's lock     *)
(* gets it although requests keep coming.                                  *)
Spec == Init /\ [][Next]_vpvars /\ WF_vpvars(Works) /\ SF_vpvars(Hangups) /\ SF_vpvars(Wakeups)

------------------------------------------------------------------------------
(* Properties *)

(* No pair TauTerm made is forgotten: an installed pair with TauTerm's     *)
(* names is in the ledger, or in the hands of the request being worked on, *)
(* or was lost where the code refuses to guess (a crash or a failing setupc*)
(* between the installation and the record of it).                         *)
PairsAccounted ==
    \A b \in Bus : driver[b] \in Names =>
        LET ep == [bus |-> b, names |-> driver[b]]
        IN \/ \E r \in ledger : r.ep = ep
           \/ ep \in lost \cup job.todo
           \/ ep = job.ep /\ job.op \in {"record", "partial"}

(* A pair of a GUI that runs is removed only at its own request or because *)
(* its own creation failed (record_is_reclaimable, the exit watchers).     *)
LiveOwnerKeepsPair ==
    [][\A r \in ledger : r.owner \in alive /\ Installed(r.ep) /\ driver'[r.ep.bus] = NoName
            => faults' # faults \/ job.g = r.owner \/ job.owner = r.owner]_vpvars

(* A pair whose owner has ended does not stay active for ever: it is       *)
(* removed, or counted as an orphan for the next cleaning, unless the      *)
(* process could not be watched any more (schedule_disconnect_cleanup, a   *)
(* restarted service).                                                     *)
Awaited(g) == g \notin alive
Reached(g) == \A r \in ledger : r.owner = g => r.ep \notin active \/ r.ep \in lost
=============================================================================
