--------------------------- MODULE SessionLifecycle ---------------------------
(***************************************************************************)
(* The life of a session: kernel/session_store.rs, session/runtime.rs,     *)
(* plugin_application.rs, the connect handlers, disconnect_session,        *)
(* open_channel and close_channel.                                         *)
(*                                                                         *)
(* A session id is stable across reconnections; every connection gets a    *)
(* fresh runtime id.  A simple session owns one data plane, a container    *)
(* (SSH, local shell) owns one per terminal channel.  A data plane here is *)
(* a SessionDataPlane: a transport actor and a pump thread that calls      *)
(* on_disconnect with the identity it captured.                            *)
(*                                                                         *)
(* Each step is one critical section of the SessionStore mutex or one step *)
(* of a thread outside it; tasks may be overtaken between any two of them. *)
(* Left out: scripts, transfer tasks (joined with a time-out),             *)
(* the children's numbering, tab order and names, and the Network plugin's *)
(* background children, which share SubConnection but not the channel      *)
(* factory.                                                                *)
(***************************************************************************)
EXTENDS Naturals, FiniteSets

CONSTANTS
  Simple,        \* ids of sessions made by create_session
  Containers,    \* ids of sessions made by create_container_session
  Chans,         \* terminal channels (fresh uuids)
  Users,         \* commands the front end may have in flight
  MaxRuntimes,   \* bound of the model: connections ever made
  MaxRoots,      \* max_active_root_sessions
  MaxChildren,   \* active terminals of one parent (32)
  MayExit,       \* whether the application may exit in the instance
  None

ASSUME BoundsAssumption ==
  /\ MaxRuntimes \in Nat /\ MaxRoots \in Nat \ {0} /\ MaxChildren \in Nat \ {0}
  /\ MayExit \in BOOLEAN
  /\ Simple \cap Containers = {}
  /\ None \notin Simple \cup Containers \cup Chans
  /\ Chans \cap Nat = {}

Ids == Simple \cup Containers
Runtimes == 1..MaxRuntimes

(* The plane of a simple session is named by its runtime.                  *)
Planes == Runtimes \cup Chans

VARIABLES
  next,        \* next_runtime_id
  rt,          \* runtime_id of the handle under each id, 0 when there is none
  up,          \* that handle's state is Connected
  home,        \* the session id each runtime captured
  kids,        \* sub_connections of each runtime's handle
  kidUp,       \* children whose state is Connected
  published,   \* roots and children with their published flag set
  registry,    \* SessionRuntimeRegistry of the plugin
  pump,        \* the event thread of each plane
  alive,       \* planes whose transport actor runs
  activated,   \* planes whose activation barrier is released
  shutReq,     \* planes with shutdown_requested
  cleanup,     \* planes a runtime's SessionCleanup has still to join
  detaching,   \* runtimes whose SessionCleanup has still to call on_detached
  loose,       \* planes a SubConnectionCleanup has still to join
  stats,       \* planes whose statistics collector runs
  conn,        \* the connect handler of each runtime
  first,       \* the first channel of each container runtime
  task,        \* create_terminal_sub_channel of each channel
  parent,      \* the runtime each channel is opened for
  user,        \* the front end's commands
  exited,      \* RunEvent::Exit has been handled
  asked,       \* history: runtimes a command closed while connected,
  dropped,     \* channels a command closed,
  died,        \* planes whose actor ended by itself,
  losses,      \* session-disconnected events sent by callbacks,
  ended        \* runtimes with a session-disconnected event

storeVars == <<next, rt, up, home, kids, kidUp, published, registry>>
planeVars == <<pump, alive, activated, shutReq>>
cleanVars == <<cleanup, detaching, loose, stats>>
taskVars  == <<conn, first, task, parent, user, exited>>
history   == <<asked, dropped, died, losses, ended>>
vars == <<storeVars, planeVars, cleanVars, taskVars, history>>

Idle == [cmd |-> "idle", r |-> 0, waits |-> {}, detach |-> FALSE]

StoreTypes ==
  /\ next \in 1..MaxRuntimes + 1
  /\ rt \in [Ids -> 0..MaxRuntimes]
  /\ up \in [Ids -> BOOLEAN]
  /\ home \in [Runtimes -> Ids \cup {None}]
  /\ kids \in [Runtimes -> SUBSET Chans]
  /\ kidUp \in SUBSET Chans
  /\ published \in SUBSET Planes
  /\ registry \in [Ids -> 0..MaxRuntimes]

PlaneTypes ==
  /\ pump \in [Planes -> {"none", "paused", "active", "closing", "done"}]
  /\ alive \in SUBSET Planes
  /\ activated \in SUBSET Planes
  /\ shutReq \in SUBSET Planes

CleanTypes ==
  /\ cleanup \in [Runtimes -> SUBSET Planes]
  /\ detaching \in SUBSET Runtimes
  /\ loose \in SUBSET Chans
  /\ stats \in SUBSET Planes

TaskTypes ==
  /\ conn \in [Runtimes -> {"none", "setup", "publish", "child", "done"}]
  /\ first \in [Runtimes -> Chans \cup {None}]
  /\ task \in [Chans -> {"new", "opened", "attached", "registered", "done", "failed"}]
  /\ parent \in [Chans -> 0..MaxRuntimes]
  /\ user \in [Users -> {Idle} \cup [cmd : {"disconnect", "close"}, r : Runtimes,
                                     waits : SUBSET Planes, detach : BOOLEAN]]
  /\ exited \in BOOLEAN

HistoryTypes ==
  /\ asked \in SUBSET Runtimes
  /\ dropped \in SUBSET Chans
  /\ died \in SUBSET Planes
  /\ losses \in [Runtimes -> Nat]
  /\ ended \in SUBSET Runtimes

TypeOK == StoreTypes /\ PlaneTypes /\ CleanTypes /\ TaskTypes /\ HistoryTypes

-----------------------------------------------------------------------------
(* What the store's lookups say.                                           *)

RuntimeOf(p) == IF p \in Chans THEN parent[p] ELSE p

(* matches_runtime, of a root identity.                                    *)
Current(r) == home[r] # None /\ rt[home[r]] = r

(* runtime_is_connected, of a root ...                                     *)
Connected(r) == Current(r) /\ up[home[r]]

(* ... and of a child.                                                     *)
ChildConnected(c) ==
  Connected(parent[c]) /\ c \in kids[parent[c]] /\ c \in kidUp

ActiveKids(r) == kids[r] \cap kidUp

Taken_RootOnly(r) == IF up[home[r]] /\ home[r] \in Simple THEN {r} ELSE {}

(* The planes close_session takes out of a handle; none the second time.   *)
Taken(r) == kids[r] \cup (IF up[home[r]] /\ home[r] \in Simple THEN {r} ELSE {})

(* close_session: the planes and the attachment move into a SessionCleanup.*)
(* The handle stays, Disconnected; closing it again finds nothing to move. *)
CloseSession(r) ==
  /\ up' = [up EXCEPT ![home[r]] = FALSE]
  /\ kids' = [kids EXCEPT ![r] = {}]
  /\ cleanup' = [cleanup EXCEPT ![r] = @ \cup Taken(r)]
  /\ stats' = stats \ Taken(r)
  /\ detaching' = IF up[home[r]] THEN detaching \cup {r} ELSE detaching

(* close_if_current, where the caller drops the error.                     *)
CloseIfCurrent(r) ==
  \/ Current(r) /\ CloseSession(r)
  \/ ~Current(r) /\ UNCHANGED <<up, kids, cleanup, detaching, stats>>

-----------------------------------------------------------------------------
(* Connecting.                                                             *)

(* The part create_session and create_container_session share: refuse an   *)
(* active id, drop every Disconnected handle, keep to the root budget,     *)
(* allocate the runtime id.                                                *)
Allocate(id) ==
  /\ next <= MaxRuntimes
  /\ ~up[id]
  /\ Cardinality({i \in Ids : up[i]}) < MaxRoots
  /\ next' = next + 1
  /\ home' = [home EXCEPT ![next] = id]

Purged == [i \in Ids |-> IF up[i] THEN rt[i] ELSE 0]

(* create_session: a paused plane is attached under the new identity.  The *)
(* subscription fails if the actor is gone already; the identity is spent. *)
CreateSession(id) ==
  /\ Allocate(id)
  /\ \/ /\ rt' = [Purged EXCEPT ![id] = next]
        /\ up' = [up EXCEPT ![id] = TRUE]
        /\ registry' = [registry EXCEPT ![id] = next]
        /\ pump' = [pump EXCEPT ![next] = "paused"]
        /\ alive' = alive \cup {next}
        /\ stats' = stats \cup {next}
        /\ conn' = [conn EXCEPT ![next] = "publish"]
     \/ /\ rt' = Purged
        /\ UNCHANGED <<up, registry, pump, alive, stats, conn>>
  /\ UNCHANGED <<kids, kidUp, published, activated, shutReq, cleanup, detaching, loose, first,
                 task, parent, user, exited, history>>

(* A connection over the budget is refused, after the purge.               *)
CreateRefused(id) ==
  /\ ~up[id]
  /\ Cardinality({i \in Ids : up[i]}) >= MaxRoots
  /\ rt' = Purged
  /\ UNCHANGED <<next, up, home, kids, kidUp, published, registry, planeVars, cleanVars,
                 taskVars, history>>

(* create_container_session; channel c is the protocol's first terminal.   *)
CreateContainer(id, c) ==
  /\ Allocate(id)
  /\ task[c] = "new"
  /\ rt' = [Purged EXCEPT ![id] = next]
  /\ up' = [up EXCEPT ![id] = TRUE]
  /\ registry' = [registry EXCEPT ![id] = next]
  /\ conn' = [conn EXCEPT ![next] = "setup"]
  /\ first' = [first EXCEPT ![next] = c]
  /\ task' = [task EXCEPT ![c] = "opened"]
  /\ parent' = [parent EXCEPT ![c] = next]
  /\ UNCHANGED <<kids, kidUp, published, planeVars, cleanVars, user, exited, history>>

(* The connect handler of a container: when its first channel is registered*)
(* and still connected it goes on, otherwise it rolls the parent back.     *)
ConnectSetup(r) ==
  /\ conn[r] = "setup"
  /\ task[first[r]] \in {"registered", "failed"}
  /\ \/ /\ ChildConnected(first[r])
        /\ conn' = [conn EXCEPT ![r] = "publish"]
        /\ UNCHANGED <<up, kids, cleanup, detaching, stats>>
     \/ /\ ~ChildConnected(first[r])
        /\ conn' = [conn EXCEPT ![r] = "done"]
        /\ CloseIfCurrent(r)
  /\ UNCHANGED <<next, rt, home, kidUp, published, registry, planeVars, loose, first, task,
                 parent, user, exited, history>>

ConnectPublish_NoGate(r) ==
  /\ conn[r] = "publish"
  /\ conn' = [conn EXCEPT ![r] = IF Connected(r) /\ home[r] \in Containers
                                 THEN "child" ELSE "done"]
  /\ published' = IF Connected(r) THEN published \cup {r} ELSE published
  /\ UNCHANGED activated
  /\ UNCHANGED <<next, rt, up, home, kids, kidUp, registry, pump, alive, shutReq, cleanVars,
                 first, task, parent, user, exited, history>>

(* publish_session_connected of a root: session-connected is sent and the  *)
(* barriers of the root and of its published children are released.        *)
ConnectPublish(r) ==
  /\ conn[r] = "publish"
  /\ \/ /\ Connected(r)
        /\ conn' = [conn EXCEPT ![r] = IF home[r] \in Containers THEN "child" ELSE "done"]
        /\ published' = published \cup {r}
        /\ activated' = activated \cup (kids[r] \cap published)
                          \cup (IF home[r] \in Simple THEN {r} ELSE {})
     \/ /\ ~Connected(r)
        /\ conn' = [conn EXCEPT ![r] = "done"]
        /\ UNCHANGED <<published, activated>>
  /\ UNCHANGED <<next, rt, up, home, kids, kidUp, registry, pump, alive, shutReq, cleanVars,
                 first, task, parent, user, exited, history>>

-----------------------------------------------------------------------------
(* Terminal channels: open_channel and create_terminal_sub_channel.        *)

(* open_channel, once the front end knows the parent's runtime.  Its check *)
(* of the parent is repeated by ChannelAttach, and a parent that has gone  *)
(* down stays down.                                                        *)
OpenChannel(c, r) ==
  /\ task[c] = "new"
  /\ r \in published /\ home[r] \in Containers
  /\ task' = [task EXCEPT ![c] = "opened"]
  /\ parent' = [parent EXCEPT ![c] = r]
  /\ UNCHANGED <<storeVars, planeVars, cleanVars, conn, first, user, exited, history>>

(* First critical section, and the paused plane made after it.  Attaching  *)
(* fails if the channel's actor is gone already.                           *)
ChannelAttach(c) ==
  /\ task[c] = "opened"
  /\ \/ /\ Connected(parent[c])
        /\ Cardinality(ActiveKids(parent[c])) < MaxChildren
        /\ task' = [task EXCEPT ![c] = "attached"]
        /\ pump' = [pump EXCEPT ![c] = "paused"]
        /\ alive' = alive \cup {c}
        /\ stats' = stats \cup {c}
     \/ /\ task' = [task EXCEPT ![c] = "failed"]
        /\ UNCHANGED <<pump, alive, stats>>
  /\ UNCHANGED <<storeVars, activated, shutReq, cleanup, detaching, loose, conn, first, parent,
                 user, exited, history>>

ChannelRegister_NoRecheck(c) ==
  /\ task[c] = "attached"
  /\ task' = [task EXCEPT ![c] = "registered"]
  /\ kids' = [kids EXCEPT ![parent[c]] = @ \cup {c}]
  /\ kidUp' = kidUp \cup {c}
  /\ UNCHANGED <<next, rt, up, home, published, registry, planeVars, cleanVars, conn, first,
                 parent, user, exited, history>>

ChannelRegister_NoBudget(c) ==
  /\ task[c] = "attached"
  /\ \/ /\ Connected(parent[c])
        /\ task' = [task EXCEPT ![c] = "registered"]
        /\ kids' = [kids EXCEPT ![parent[c]] = @ \cup {c}]
        /\ kidUp' = kidUp \cup {c}
        /\ UNCHANGED <<shutReq, activated, stats>>
     \/ /\ ~Connected(parent[c])
        /\ task' = [task EXCEPT ![c] = "failed"]
        /\ shutReq' = shutReq \cup {c}
        /\ activated' = activated \cup {c}
        /\ stats' = IF rt[home[parent[c]]] = 0 THEN stats ELSE stats \ {c}
        /\ UNCHANGED <<kids, kidUp>>
  /\ UNCHANGED <<next, rt, up, home, published, registry, pump, alive, cleanup, detaching,
                 loose, conn, first, parent, user, exited, history>>

(* Second critical section: everything is checked again, and a refused     *)
(* plane is told to shut down (by its Drop when the parent's handle is     *)
(* gone); its collector is cancelled only if there is a handle.            *)
ChannelRegister(c) ==
  /\ task[c] = "attached"
  /\ \/ /\ Connected(parent[c])
        /\ Cardinality(ActiveKids(parent[c])) < MaxChildren
        /\ task' = [task EXCEPT ![c] = "registered"]
        /\ kids' = [kids EXCEPT ![parent[c]] = @ \cup {c}]
        /\ kidUp' = kidUp \cup {c}
        /\ UNCHANGED <<shutReq, activated, stats>>
     \/ /\ ~Connected(parent[c]) \/ Cardinality(ActiveKids(parent[c])) >= MaxChildren
        /\ task' = [task EXCEPT ![c] = "failed"]
        /\ shutReq' = shutReq \cup {c}
        /\ activated' = activated \cup {c}
        /\ stats' = IF rt[home[parent[c]]] = 0 THEN stats ELSE stats \ {c}
        /\ UNCHANGED <<kids, kidUp>>
  /\ UNCHANGED <<next, rt, up, home, published, registry, pump, alive, cleanup, detaching,
                 loose, conn, first, parent, user, exited, history>>

(* publish_session_connected of a child, for a first channel after its     *)
(* root's: the barrier waits for the root.                                 *)
ChannelPublish(c) ==
  /\ task[c] = "registered"
  /\ c = first[parent[c]] => conn[parent[c]] = "child"
  /\ task' = [task EXCEPT ![c] = "done"]
  /\ conn' = IF c = first[parent[c]] THEN [conn EXCEPT ![parent[c]] = "done"] ELSE conn
  /\ \/ /\ ChildConnected(c)
        /\ published' = published \cup {c}
        /\ activated' = IF parent[c] \in published THEN activated \cup {c} ELSE activated
     \/ /\ ~ChildConnected(c)
        /\ UNCHANGED <<published, activated>>
  /\ UNCHANGED <<next, rt, up, home, kids, kidUp, registry, pump, alive, shutReq, cleanVars,
                 first, parent, user, exited, history>>

-----------------------------------------------------------------------------
(* Planes: the transport actor and the pump of attach_paused.              *)

(* The remote end closes, the device fails or the driver panics.           *)
ActorDies(p) ==
  /\ p \in alive \ shutReq
  /\ alive' = alive \ {p}
  /\ died' = died \cup {p}
  /\ UNCHANGED <<storeVars, pump, activated, shutReq, cleanVars, taskVars, asked, dropped,
                 losses, ended>>

(* The shutdown the owner requested.                                       *)
ActorStops(p) ==
  /\ p \in alive \cap shutReq
  /\ alive' = alive \ {p}
  /\ UNCHANGED <<storeVars, pump, activated, shutReq, cleanVars, taskVars, history>>

PumpStart_Ungated(p) ==
  /\ pump[p] = "paused"
  /\ pump' = [pump EXCEPT ![p] = IF p \in shutReq THEN "done" ELSE "active"]
  /\ UNCHANGED <<storeVars, alive, activated, shutReq, cleanVars, taskVars, history>>

(* The pump passes its barrier; one woken by a shutdown ends at once.      *)
PumpStart(p) ==
  /\ pump[p] = "paused"
  /\ p \in activated
  /\ pump' = [pump EXCEPT ![p] = IF p \in shutReq THEN "done" ELSE "active"]
  /\ UNCHANGED <<storeVars, alive, activated, shutReq, cleanVars, taskVars, history>>

(* An active pump delivers data until it sees a shutdown or the end of the *)
(* actor; an end nobody asked for it is about to report.                   *)
PumpEnd(p) ==
  /\ pump[p] = "active"
  /\ \/ p \in shutReq /\ pump' = [pump EXCEPT ![p] = "done"]
     \/ p \notin shutReq \cup alive /\ pump' = [pump EXCEPT ![p] = "closing"]
  /\ UNCHANGED <<storeVars, alive, activated, shutReq, cleanVars, taskVars, history>>

RootLost_ById(r) ==
  /\ pump[r] = "closing"
  /\ pump' = [pump EXCEPT ![r] = "done"]
  /\ LET cur == rt[home[r]]
     IN \/ /\ cur # 0 /\ up[home[r]]
           /\ CloseSession(cur)
           /\ losses' = [losses EXCEPT ![cur] = @ + 1]
           /\ ended' = ended \cup {cur}
        \/ /\ cur = 0 \/ ~up[home[r]]
           /\ UNCHANGED <<up, kids, cleanup, detaching, stats, losses, ended>>
  /\ UNCHANGED <<next, rt, home, kidUp, published, registry, alive, activated, shutReq, loose,
                 taskVars, asked, dropped, died>>

RootLost_AnyState(r) ==
  /\ pump[r] = "closing"
  /\ pump' = [pump EXCEPT ![r] = "done"]
  /\ \/ /\ Current(r)
        /\ CloseSession(r)
        /\ losses' = [losses EXCEPT ![r] = @ + 1]
        /\ ended' = ended \cup {r}
     \/ /\ ~Current(r)
        /\ UNCHANGED <<up, kids, cleanup, detaching, stats, losses, ended>>
  /\ UNCHANGED <<next, rt, home, kidUp, published, registry, alive, activated, shutReq, loose,
                 taskVars, asked, dropped, died>>

(* on_disconnect of a simple session: mark_disconnected, then the event.   *)
RootLost(r) ==
  /\ pump[r] = "closing"
  /\ pump' = [pump EXCEPT ![r] = "done"]
  /\ \/ /\ Connected(r)
        /\ CloseSession(r)
        /\ losses' = [losses EXCEPT ![r] = @ + 1]
        /\ ended' = ended \cup {r}
     \/ /\ ~Connected(r)
        /\ UNCHANGED <<up, kids, cleanup, detaching, stats, losses, ended>>
  /\ UNCHANGED <<next, rt, home, kidUp, published, registry, alive, activated, shutReq, loose,
                 taskVars, asked, dropped, died>>

ChannelLost_KeepsParent(c) ==
  /\ pump[c] = "closing"
  /\ pump' = [pump EXCEPT ![c] = "done"]
  /\ kidUp' = IF ChildConnected(c) THEN kidUp \ {c} ELSE kidUp
  /\ UNCHANGED <<next, rt, up, home, kids, published, registry, alive, activated, shutReq,
                 cleanVars, taskVars, history>>

(* on_disconnect of a channel: mark_sub_disconnected, and when no child is *)
(* left connected the parent goes too, in the same critical section.       *)
ChannelLost(c) ==
  /\ pump[c] = "closing"
  /\ pump' = [pump EXCEPT ![c] = "done"]
  /\ LET r == parent[c]
     IN \/ /\ ChildConnected(c) /\ ActiveKids(r) # {c}
           /\ kidUp' = kidUp \ {c}
           /\ stats' = stats \ {c}
           /\ UNCHANGED <<up, kids, cleanup, detaching, losses, ended>>
        \/ /\ ChildConnected(c) /\ ActiveKids(r) = {c}
           /\ kidUp' = kidUp \ {c}
           /\ CloseSession(r)
           /\ losses' = [losses EXCEPT ![r] = @ + 1]
           /\ ended' = ended \cup {r}
        \/ /\ ~ChildConnected(c)
           /\ UNCHANGED <<kidUp, up, kids, cleanup, detaching, stats, losses, ended>>
  /\ UNCHANGED <<next, rt, home, published, registry, alive, activated, shutReq, loose,
                 taskVars, asked, dropped, died>>

-----------------------------------------------------------------------------
(* Commands of the front end, which knows the runtimes announced to it.    *)

(* disconnect_session, one at a time per session (pendingOperations): the  *)
(* critical section.  The command then waits for the cleanup it was given. *)
Disconnect(u, r) ==
  /\ user[u] = Idle
  /\ r \in published
  /\ \A v \in Users : ~(user[v].cmd = "disconnect" /\ user[v].r = r)
  /\ Current(r)
  /\ CloseSession(r)
  /\ user' = [user EXCEPT ![u] =
               [cmd |-> "disconnect", r |-> r, waits |-> Taken(r), detach |-> up[home[r]]]]
  /\ asked' = IF up[home[r]] THEN asked \cup {r} ELSE asked
  /\ UNCHANGED <<next, rt, home, kidUp, published, registry, planeVars, loose, conn, first,
                 task, parent, exited, dropped, died, losses, ended>>

(* close_channel: the channel leaves its parent; the last connected one    *)
(* takes the parent along.                                                 *)
CloseChannel(u, c) ==
  LET r == parent[c]
      last == ActiveKids(r) \subseteq {c}
  IN /\ user[u] = Idle
     /\ c \in published
     /\ Current(r)
     /\ c \in kids[r]
     /\ dropped' = dropped \cup {c}
     /\ \/ /\ last
           /\ CloseSession(r)
           /\ user' = [user EXCEPT ![u] = [cmd |-> "close", r |-> r, waits |-> Taken(r),
                                           detach |-> TRUE]]
           /\ UNCHANGED loose
        \/ /\ ~last
           /\ kids' = [kids EXCEPT ![r] = @ \ {c}]
           /\ loose' = loose \cup {c}
           /\ stats' = stats \ {c}
           /\ user' = [user EXCEPT ![u] = [cmd |-> "close", r |-> r, waits |-> {c},
                                           detach |-> FALSE]]
           /\ UNCHANGED <<up, cleanup, detaching>>
     /\ UNCHANGED <<next, rt, home, kidUp, published, registry, planeVars, conn, first, task,
                    parent, exited, asked, died, losses, ended>>

Joining == loose \cup UNION {cleanup[r] : r \in Runtimes}

(* A command that closed a session sends session-disconnected.             *)
Ends(u) == user[u].cmd = "disconnect" \/ user[u].detach

CommandDone_Early(u) ==
  /\ user[u] # Idle
  /\ user' = [user EXCEPT ![u] = Idle]
  /\ ended' = IF Ends(u) THEN ended \cup {user[u].r} ELSE ended
  /\ UNCHANGED <<storeVars, planeVars, cleanVars, conn, first, task, parent, exited, asked,
                 dropped, died, losses>>

(* The command's own cleanup has finished: the event is sent.              *)
CommandDone(u) ==
  /\ user[u] # Idle
  /\ user[u].waits \cap Joining = {}
  /\ user[u].detach => user[u].r \notin detaching
  /\ user' = [user EXCEPT ![u] = Idle]
  /\ ended' = IF Ends(u) THEN ended \cup {user[u].r} ELSE ended
  /\ UNCHANGED <<storeVars, planeVars, cleanVars, conn, first, task, parent, exited, asked,
                 dropped, died, losses>>

(* RunEvent::Exit closes every session, announced or not; its handler then *)
(* waits for the cleanups while other tasks still run.                     *)
AppExit ==
  LET open == {r \in Runtimes : Connected(r)}
  IN /\ MayExit /\ ~exited /\ exited' = TRUE
     /\ up' = [i \in Ids |-> FALSE]
     /\ kids' = [r \in Runtimes |-> IF r \in open THEN {} ELSE kids[r]]
     /\ cleanup' = [r \in Runtimes |-> IF r \in open THEN cleanup[r] \cup Taken(r)
                                       ELSE cleanup[r]]
     /\ detaching' = detaching \cup open
     /\ stats' = stats \ UNION {Taken(r) : r \in open}
     /\ asked' = asked \cup open
     /\ UNCHANGED <<next, rt, home, kidUp, published, registry, planeVars, loose, conn, first,
                    task, parent, user, dropped, died, losses, ended>>

-----------------------------------------------------------------------------
(* Cleanup, outside the lock.  The planes of one cleanup go in any order.  *)

CleanupRequest_NoWake(p) ==
  /\ p \in Joining \ shutReq
  /\ shutReq' = shutReq \cup {p}
  /\ UNCHANGED <<storeVars, pump, alive, activated, cleanVars, taskVars, history>>

(* SessionDataPlane::shutdown, first half: request_shutdown.               *)
CleanupRequest(p) ==
  /\ p \in Joining \ shutReq
  /\ shutReq' = shutReq \cup {p}
  /\ activated' = activated \cup {p}
  /\ UNCHANGED <<storeVars, pump, alive, cleanVars, taskVars, history>>

(* Second half: join the actor, then the pump.                             *)
CleanupJoin(p) ==
  /\ p \in Joining \cap shutReq
  /\ p \notin alive
  /\ pump[p] = "done"
  /\ cleanup' = [r \in Runtimes |-> cleanup[r] \ {p}]
  /\ loose' = loose \ {p}
  /\ UNCHANGED <<storeVars, planeVars, detaching, stats, taskVars, history>>

CleanupDetach_ById(r) ==
  /\ r \in detaching
  /\ cleanup[r] = {}
  /\ detaching' = detaching \ {r}
  /\ registry' = [registry EXCEPT ![home[r]] = 0]
  /\ UNCHANGED <<next, rt, up, home, kids, kidUp, published, planeVars, cleanup, loose,
                 stats, taskVars, history>>

(* Service shutdown and on_detached: the registry drops its entry only if  *)
(* it is still this instance's.                                            *)
CleanupDetach(r) ==
  /\ r \in detaching
  /\ cleanup[r] = {}
  /\ detaching' = detaching \ {r}
  /\ registry' = IF registry[home[r]] = r THEN [registry EXCEPT ![home[r]] = 0] ELSE registry
  /\ UNCHANGED <<next, rt, up, home, kids, kidUp, published, planeVars, cleanup, loose,
                 stats, taskVars, history>>

-----------------------------------------------------------------------------

Init ==
  /\ next = 1
  /\ rt = [i \in Ids |-> 0] /\ up = [i \in Ids |-> FALSE]
  /\ home = [r \in Runtimes |-> None] /\ kids = [r \in Runtimes |-> {}]
  /\ kidUp = {} /\ published = {} /\ registry = [i \in Ids |-> 0]
  /\ pump = [p \in Planes |-> "none"] /\ alive = {} /\ activated = {} /\ shutReq = {}
  /\ cleanup = [r \in Runtimes |-> {}] /\ detaching = {} /\ loose = {} /\ stats = {}
  /\ conn = [r \in Runtimes |-> "none"] /\ first = [r \in Runtimes |-> None]
  /\ task = [c \in Chans |-> "new"] /\ parent = [c \in Chans |-> 0]
  /\ user = [u \in Users |-> Idle] /\ exited = FALSE
  /\ asked = {} /\ dropped = {} /\ died = {} /\ losses = [r \in Runtimes |-> 0]
  /\ ended = {}

ConnectStep ==
  \/ \E id \in Simple : CreateSession(id)
  \/ \E id \in Containers, c \in Chans : CreateContainer(id, c)
  \/ \E id \in Ids : CreateRefused(id)
  \/ \E r \in Runtimes : ConnectSetup(r) \/ ConnectPublish(r)
  \/ \E c \in Chans, r \in Runtimes : OpenChannel(c, r)

ChannelStep(c) == ChannelAttach(c) \/ ChannelRegister(c) \/ ChannelPublish(c)

PlaneStep(p) ==
  \/ ActorDies(p) \/ ActorStops(p) \/ PumpStart(p) \/ PumpEnd(p)
  \/ CleanupRequest(p) \/ CleanupJoin(p)

UserStep(u) ==
  \/ \E r \in Runtimes : Disconnect(u, r)
  \/ \E c \in Chans : CloseChannel(u, c)
  \/ CommandDone(u)

Next ==
  \/ ConnectStep
  \/ \E c \in Chans : ChannelStep(c) \/ ChannelLost(c)
  \/ \E r \in Runtimes : RootLost(r) \/ CleanupDetach(r)
  \/ \E p \in Planes : PlaneStep(p)
  \/ \E u \in Users : UserStep(u)
  \/ AppExit

Spec == Init /\ [][Next]_vars

(* Threads and tasks go on; a transport actor told to shut down stops, a   *)
(* lease that delays it being bounded (see DataPlane).  Nothing makes the  *)
(* remote end die or the front end issue a command.                        *)
Fairness ==
  /\ \A r \in Runtimes :
       /\ WF_vars(ConnectSetup(r)) /\ WF_vars(ConnectPublish(r))
       /\ WF_vars(RootLost(r)) /\ WF_vars(CleanupDetach(r))
  /\ \A c \in Chans : WF_vars(ChannelStep(c)) /\ WF_vars(ChannelLost(c))
  /\ \A p \in Planes :
       /\ WF_vars(ActorStops(p)) /\ WF_vars(PumpStart(p)) /\ WF_vars(PumpEnd(p))
       /\ WF_vars(CleanupRequest(p)) /\ WF_vars(CleanupJoin(p))
  /\ \A u \in Users : WF_vars(CommandDone(u))

FairSpec == Spec /\ Fairness

-----------------------------------------------------------------------------
(* Properties.                                                             *)

PlaneConnected(p) ==
  IF p \in Chans THEN parent[p] # 0 /\ ChildConnected(p) ELSE Connected(p)

(* Nothing overtakes the announcement: a pump that may call on_data or     *)
(* on_disconnect belongs to a root that was announced and, for a channel,  *)
(* to a channel that was announced too, in whichever order that happened.  *)
PublishedFirst ==
  \A p \in Planes : pump[p] \in {"active", "closing"} =>
    p \in published /\ RuntimeOf(p) \in published

(* A connection ends only for a reason of its own, never for one of an     *)
(* earlier connection under the same id: a command closed it, its plane    *)
(* died, its first channel could not be set up, or each channel it ever    *)
(* registered died or was closed.                                          *)
EndsForItsOwnReason ==
  \A r \in Runtimes : (conn[r] # "none" /\ ~Connected(r)) =>
    \/ r \in asked
    \/ home[r] \in Simple /\ r \in died
    \/ /\ home[r] \in Containers
       /\ \/ task[first[r]] = "failed"
          \/ \A c \in Chans : (parent[c] = r /\ task[c] \in {"registered", "done"}) =>
                 c \in died \cup dropped

(* A container that has its first channel set up is connected only while a *)
(* channel is: it never lingers without terminals.                         *)
NoEmptyContainer ==
  \A r \in Runtimes :
    (Connected(r) /\ home[r] \in Containers /\ task[first[r]] \in {"registered", "done"})
      => ActiveKids(r) # {}

Owners(p) ==
  {o \in {"session", "cleanup", "channel close", "opening task"} :
     CASE o = "session" -> IF p \in Chans THEN p \in kids[parent[p]] ELSE Connected(p)
       [] o = "cleanup" -> p \in cleanup[RuntimeOf(p)]
       [] o = "channel close" -> p \in loose
       [] o = "opening task" -> p \in Chans /\ task[p] = "attached"}

(* No plane leaks and none is torn down twice: until it is told to shut    *)
(* down, a plane has exactly one owner - its connected session, the        *)
(* cleanup of that session, a channel close, or the task opening it.       *)
OneOwner ==
  \A p \in Planes : (pump[p] # "none" /\ p \notin shutReq) => Cardinality(Owners(p)) = 1

(* A statistics collector runs only for a plane that is connected or being *)
(* opened: a connection that ends, or fails, takes its collector along.    *)
(* Only if another session's connection purges the parent's handle while   *)
(* the channel is being opened (two session ids) does it go on for ever.   *)
CollectorOwned ==
  \A p \in stats : PlaneConnected(p) \/ (p \in Chans /\ task[p] = "attached")

(* The plugin's index finds the runtime of every connected session,        *)
(* whenever the cleanup of an earlier one detaches.                        *)
RegistryCurrent == \A i \in Ids : up[i] => registry[i] = rt[i]

(* A parent never has more than its 32 active terminals, although each is  *)
(* opened across two critical sections and openers overtake each other.    *)
ChannelBudget ==
  \A r \in Runtimes : Cardinality(ActiveKids(r)) <= MaxChildren

(* The loss of a connection is reported once, and not at all if a command  *)
(* closed it first.                                                        *)
LossReportedOnce ==
  \A r \in Runtimes : losses[r] <= (IF r \in asked THEN 0 ELSE 1)

(* After session-disconnected no data of that runtime follows, except from *)
(* a channel the user is closing.  While the application exits there is no *)
(* such promise: a disconnect_session then finds the session closed by the *)
(* exit handler and answers before that handler's cleanup is done.         *)
EndedIsQuiet ==
  ~exited =>
    \A r \in ended, p \in Planes :
      (RuntimeOf(p) = r /\ pump[p] = "active") => p \in dropped

(* A container and its channels come and go together, each plane in one    *)
(* hand, within the budget and with its collector.                         *)
ChannelsSound ==
  /\ EndsForItsOwnReason /\ NoEmptyContainer /\ OneOwner /\ CollectorOwned
  /\ ChannelBudget /\ EndedIsQuiet

(* The end of a published plane reaches the store.                         *)
LossNoticed ==
  \A p \in Planes :
    (p \in died /\ p \in published /\ RuntimeOf(p) \in published) ~> ~PlaneConnected(p)

(* Every cleanup finishes, whatever callbacks run meanwhile, and every     *)
(* command returns.                                                        *)
CleanupCompletes == \A r \in Runtimes : (r \in detaching) ~> (r \notin detaching)

CommandsReturn == \A u \in Users : (user[u] # Idle) ~> (user[u] = Idle)

=============================================================================
