---------------------------- MODULE NetworkPeers ----------------------------
(***************************************************************************)
(* The peers of a network debugging session (plugins/network): how the     *)
(* listener, or the client's own start, registers a TCP peer in three      *)
(* places (peer_handles and peers of NetworkCore, the sub-connections of   *)
(* the SessionStore), how a peer's end is taken out of them again, and how *)
(* both race with close_network_peer, with connect_session and with the    *)
(* end of the parent session.                                              *)
(*                                                                         *)
(* Each map has a lock of its own, so every step below is one critical     *)
(* section.  A peer's data plane is attached paused: its callbacks run     *)
(* only after activate_data_plane has opened the child and the root.       *)
(***************************************************************************)
EXTENDS Naturals, FiniteSets

CONSTANTS
    Peer,           \* connections a remote end can make
    MaxClients,     \* max_clients; 0 is no limit
    NoPeer,         \* no registration is running
    AllPeers        \* the send target "__all__"

VARIABLES
    role,           \* "client" or "server"
    root,           \* the parent session: at, published
    running,        \* NetworkRuntime.running
    line,           \* per peer: the TCP connection
    reg,            \* the registration under way: [peer, at]
    handles,        \* peer_handles
    child,          \* the sub-connection of the SessionStore
    opened,         \* children whose own gate is open (child.published)
    listed,         \* peers: the plugin's own list with its history
    target,         \* send_target
    leaving,        \* per peer: how far its disconnect callback is
    closing,        \* per peer: how far close_network_peer is
    joined, left    \* how often netdbg-peer-joined and netdbg-peer-left came

npvars == <<role, root, running, line, reg, handles, child, opened, listed,
            target, leaving, closing, joined, left>>

NoOne == [peer |-> NoPeer, at |-> "idle"]

Init ==
    /\ role \in {"client", "server"}
    /\ root = [at |-> "starting", published |-> FALSE]
    /\ running = TRUE
    /\ line = [p \in Peer |-> "none"]
    /\ reg = NoOne
    /\ handles = {}
    /\ child = [p \in Peer |-> "none"]
    /\ opened = {}
    /\ listed = [p \in Peer |-> "none"]
    /\ target = NoPeer
    /\ leaving = [p \in Peer |-> "none"]
    /\ closing = [p \in Peer |-> "none"]
    /\ joined = [p \in Peer |-> 0]
    /\ left = [p \in Peer |-> 0]

\* The store takes and marks children only while the parent is connected and
\* has the runtime the peer belongs to.
Current == root.at \in {"starting", "started", "open"}

----------------------------------------------------------------------------
(* The network *)

\* A remote end connects: the listener's backlog, or the client's own
\* connection, which adapter connect made before the session existed.
Dial(p) ==
    /\ line[p] = "none"
    /\ role = "client" => \A q \in Peer : line[q] = "none"
    /\ line' = [line EXCEPT ![p] = "up"]
    /\ UNCHANGED <<role, root, running, reg, handles, child, opened, listed,
                   target, leaving, closing, joined, left>>

HangUp(p) ==
    /\ line[p] = "up"
    /\ line' = [line EXCEPT ![p] = "down"]
    /\ UNCHANGED <<role, root, running, reg, handles, child, opened, listed,
                   target, leaving, closing, joined, left>>

----------------------------------------------------------------------------
(* register_tcp_peer, run by the listener thread or by the client's start *)

client_limit_reached(n) == MaxClients > 0 /\ n >= MaxClients

Waiting(p) == line[p] # "none" /\ joined[p] = 0 /\ leaving[p] = "none"
              /\ p \notin handles /\ closing[p] = "none"

\* accept and the limit, then the handle: only this thread adds handles, so
\* the count it read can only have fallen since.  A refused connection is
\* dropped.
Accept(p) ==
    /\ reg = NoOne
    /\ running
    /\ Waiting(p)
    /\ IF role = "server" THEN root.at \in {"started", "open", "ended"}
                          ELSE root.at = "starting"
    /\ IF role = "server" /\ client_limit_reached(Cardinality(handles))
         THEN /\ line' = [line EXCEPT ![p] = "refused"]
              /\ leaving' = [leaving EXCEPT ![p] = "over"]
              /\ UNCHANGED <<reg, handles>>
         ELSE /\ reg' = [peer |-> p, at |-> "child"]
              /\ handles' = handles \union {p}
              /\ UNCHANGED <<line, leaving>>
    /\ UNCHANGED <<role, root, running, child, opened, listed, target, closing,
                   joined, left>>

\* add_sub_connection; when the parent has gone the handle is taken back and
\* the data plane dropped.
AddChild ==
    /\ reg.at = "child"
    /\ IF Current
         THEN /\ child' = [child EXCEPT ![reg.peer] = "connected"]
              /\ reg' = [reg EXCEPT !.at = "list"]
              /\ UNCHANGED <<handles, leaving, line>>
         ELSE /\ handles' = handles \ {reg.peer}
              /\ leaving' = [leaving EXCEPT ![reg.peer] = "over"]
              /\ line' = [line EXCEPT ![reg.peer] = "refused"]
              /\ reg' = NoOne
              /\ UNCHANGED child
    /\ UNCHANGED <<role, root, running, opened, listed, target, closing, joined,
                   left>>

ListPeer ==
    /\ reg.at = "list"
    /\ listed' = [listed EXCEPT ![reg.peer] = "connected"]
    /\ reg' = [reg EXCEPT !.at = "announce"]
    /\ UNCHANGED <<role, root, running, line, handles, child, opened, target,
                   leaving, closing, joined, left>>

Announce ==
    /\ reg.at = "announce"
    /\ joined' = [joined EXCEPT ![reg.peer] = @ + 1]
    /\ reg' = [reg EXCEPT !.at = "activate"]
    /\ UNCHANGED <<role, root, running, line, handles, child, opened, listed,
                   target, leaving, closing, left>>

\* activate_data_plane of the child, refused when the child or its runtime
\* has gone.
Activate ==
    /\ reg.at = "activate"
    /\ opened' = IF Current /\ child[reg.peer] # "none" THEN opened \union {reg.peer}
                                                        ELSE opened
    /\ reg' = NoOne
    /\ UNCHANGED <<role, root, running, line, handles, child, listed, target,
                   leaving, closing, joined, left>>

----------------------------------------------------------------------------
(* The peer's disconnect callback *)

\* attach_paused: no callback before both gates are open.
Released_Unpaused(p) == TRUE
Released(p) == p \in opened /\ root.published

\* The data plane reads the end and calls back, unless it was told to shut
\* down: then the end is silent.
Notice(p) ==
    /\ line[p] = "down"
    /\ leaving[p] = "none"
    /\ child[p] = "connected"
    /\ Released(p)
    /\ leaving' = [leaving EXCEPT ![p] = "handle"]
    /\ UNCHANGED <<role, root, running, line, reg, handles, child, opened, listed,
                   target, closing, joined, left>>

\* mark_peer_disconnected takes three locks, one after the other.
Unhandle(p) ==
    /\ leaving[p] = "handle"
    /\ handles' = handles \ {p}
    /\ leaving' = [leaving EXCEPT ![p] = "list"]
    /\ UNCHANGED <<role, root, running, line, reg, child, opened, listed, target,
                   closing, joined, left>>

Unlist(p) ==
    /\ leaving[p] = "list"
    /\ listed' = [listed EXCEPT ![p] = IF @ = "none" THEN @ ELSE "disconnected"]
    /\ leaving' = [leaving EXCEPT ![p] = "target"]
    /\ UNCHANGED <<role, root, running, line, reg, handles, child, opened, target,
                   closing, joined, left>>

Untarget(p) ==
    /\ leaving[p] = "target"
    /\ target' = IF target = p THEN NoPeer ELSE target
    /\ leaving' = [leaving EXCEPT ![p] = "store"]
    /\ UNCHANGED <<role, root, running, line, reg, handles, child, opened, listed,
                   closing, joined, left>>

\* mark_sub_disconnected, and for a client the parent with it.  A peer or a
\* parent that is already gone ends the callback without an event.
MarkChild(p) ==
    /\ leaving[p] = "store"
    /\ IF Current /\ child[p] = "connected"
         THEN /\ child' = [child EXCEPT ![p] = "disconnected"]
              /\ leaving' = [leaving EXCEPT ![p] = "event"]
              /\ IF role = "client" THEN root' = [root EXCEPT !.at = "ended"]
                                         /\ running' = FALSE
                                    ELSE UNCHANGED <<root, running>>
         ELSE /\ leaving' = [leaving EXCEPT ![p] = "over"]
              /\ UNCHANGED <<child, root, running>>
    /\ UNCHANGED <<role, line, reg, handles, opened, listed, target, closing,
                   joined, left>>

TellLeft(p) ==
    /\ leaving[p] = "event"
    /\ left' = [left EXCEPT ![p] = @ + 1]
    /\ leaving' = [leaving EXCEPT ![p] = "over"]
    /\ UNCHANGED <<role, root, running, line, reg, handles, child, opened, listed,
                   target, closing, joined>>

----------------------------------------------------------------------------
(* The commands *)

\* close_network_peer of a peer the front end was told of: the child leaves
\* the store and its data plane is told to shut down under the store's lock.
ClosePeer(p) ==
    /\ closing[p] = "none"
    /\ joined[p] > 0
    /\ Current
    /\ child[p] # "none"
    /\ child' = [child EXCEPT ![p] = "none"]
    /\ closing' = [closing EXCEPT ![p] = "join"]
    /\ UNCHANGED <<role, root, running, line, reg, handles, opened, listed, target,
                   leaving, joined, left>>

\* The join outside the lock waits for a callback that is running.
CloseJoined(p) ==
    /\ closing[p] = "join"
    /\ leaving[p] \in {"none", "over"}
    /\ closing' = [closing EXCEPT ![p] = "remove"]
    /\ line' = [line EXCEPT ![p] = "down"]
    /\ UNCHANGED <<role, root, running, reg, handles, child, opened, listed, target,
                   leaving, joined, left>>

\* remove_peer, if the plugin still has a runtime for the session.
CloseRemoves_Keeps(p) ==
    /\ closing[p] = "remove"
    /\ closing' = [closing EXCEPT ![p] = "done"]
    /\ listed' = [listed EXCEPT ![p] = "none"]
    /\ target' = IF target = p THEN NoPeer ELSE target
    /\ UNCHANGED <<role, root, running, line, reg, handles, child, opened, leaving,
                   joined, left>>

CloseRemoves(p) ==
    /\ closing[p] = "remove"
    /\ closing' = [closing EXCEPT ![p] = "done"]
    /\ IF root.at # "ended"
         THEN /\ handles' = handles \ {p}
              /\ listed' = [listed EXCEPT ![p] = "none"]
              /\ target' = IF target = p THEN NoPeer ELSE target
         ELSE UNCHANGED <<handles, listed, target>>
    /\ UNCHANGED <<role, root, running, line, reg, child, opened, leaving, joined,
                   left>>

\* set_network_send_target does not look whether the peer is there.
SetTarget(t) ==
    /\ Current
    /\ target # t
    /\ target' = t
    /\ UNCHANGED <<role, root, running, line, reg, handles, child, opened, listed,
                   leaving, closing, joined, left>>

----------------------------------------------------------------------------
(* connect_session and the end of the parent *)

\* start returns: the listener thread is running, or the client's peer is
\* registered; when that failed the session is rolled back.
StartReturns ==
    /\ root.at = "starting"
    /\ reg = NoOne
    /\ role = "client" => \E p \in Peer : joined[p] > 0 \/ leaving[p] = "over"
    /\ IF role = "client" /\ \A p \in Peer : joined[p] = 0
         THEN root' = [root EXCEPT !.at = "ended"] /\ running' = FALSE
         ELSE root' = [root EXCEPT !.at = "started"] /\ UNCHANGED running
    /\ UNCHANGED <<role, line, reg, handles, child, opened, listed, target, leaving,
                   closing, joined, left>>

\* publish_session_connected: the event, then the gate, under one lock.
Publish ==
    /\ root.at = "started"
    /\ root' = [at |-> "open", published |-> TRUE]
    /\ UNCHANGED <<role, running, line, reg, handles, child, opened, listed, target,
                   leaving, closing, joined, left>>

\* The session is closed: its children leave the store with it, the service
\* is told to stop.  The listener notices between two connections.
CloseSession ==
    /\ Current
    /\ root' = [root EXCEPT !.at = "ended"]
    /\ running' = FALSE
    /\ child' = [p \in Peer |-> "none"]
    /\ UNCHANGED <<role, line, reg, handles, opened, listed, target, leaving,
                   closing, joined, left>>

----------------------------------------------------------------------------

Registers == AddChild \/ ListPeer \/ Announce \/ Activate
             \/ \E p \in Peer : Accept(p)

Leaves(p) == \/ Notice(p) \/ Unhandle(p) \/ Unlist(p) \/ Untarget(p)
             \/ MarkChild(p) \/ TellLeft(p)

Closes(p) == CloseJoined(p) \/ CloseRemoves(p)

Connects == StartReturns \/ Publish

Progress == \/ Registers
            \/ \E p \in Peer : Leaves(p) \/ Closes(p)
            \/ Connects

Next ==
    \/ Progress
    \/ \E p \in Peer : Dial(p) \/ HangUp(p) \/ ClosePeer(p)
    \/ \E t \in Peer \union {AllPeers} : SetTarget(t)
    \/ CloseSession

Spec == Init /\ [][Next]_npvars /\ WF_npvars(Progress)

----------------------------------------------------------------------------

Settled(p) == /\ reg.peer # p
              /\ leaving[p] \in {"none", "over"}
              /\ closing[p] \in {"none", "done"}

\* While the session is open and nothing is under way for a peer, the three
\* places agree about it: the plugin can write to it exactly when the store
\* and the list say it is connected.  The limit holds throughout, and a peer
\* leaves at most once, after it joined.
PeersAgree ==
    /\ MaxClients > 0 /\ role = "server" => Cardinality(handles) <= MaxClients
    /\ \A p \in Peer :
         /\ left[p] <= joined[p] /\ joined[p] <= 1
         /\ (Current /\ Settled(p)) =>
              /\ (p \in handles) <=> (child[p] = "connected")
              /\ (p \in handles) <=> (listed[p] = "connected")

\* A peer that hung up is reported, unless it is closed or the session ends.
Awaited(p) == joined[p] = 1 /\ line[p] = "down"
Reached(p) == left[p] = 1 \/ closing[p] # "none" \/ root.at = "ended"

=============================================================================
