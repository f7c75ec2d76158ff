----------------------------- MODULE RttChannels -----------------------------
(***************************************************************************)
(* Who may use which RTT channel: the automation source, the send target,  *)
(* the down channel SystemView claims for its commands, and the observers, *)
(* through refreshes that change the channels (RttShared and the observer  *)
(* operations of RttRuntime, plugins/rtt/runtime.rs).                      *)
(* One refresh at a time, with other operations between its steps; how two *)
(* operations on one observer overlap is not in this module.               *)
(***************************************************************************)
EXTENDS Naturals, FiniteSets, FiniteSetsExt

CONSTANTS Channel,     \* channel indices, numbers
          Named,       \* channels whose name says SystemView
          NoChannel    \* None

VARIABLES up, down,      \* the usable directions of the channels
          source,        \* automation_source_channel
          send,          \* send_channel
          claims,        \* channels SystemView claims
          observers,     \* the systemview map
          control,       \* observers with control_available
          suppressed,    \* systemview_suppressed
          sync           \* a refresh that is under way: observers to stop, channels to start

rcvars == <<up, down, source, send, claims, observers, control, suppressed, sync>>

(* channel 0 if it will do, else the first that does                       *)
First(C) == IF C = {} THEN NoChannel ELSE Min(C)
Kept(chosen, C) == IF chosen \in C THEN chosen ELSE First(C)

(* start: the first set_running, then sync_systemview_observers.           *)
Init ==
    /\ up \in SUBSET Channel /\ down \in SUBSET Channel
    /\ source = First(up) /\ suppressed = {}
    /\ observers = Named \intersect up
    /\ claims = IF observers \intersect down = {} THEN {} ELSE {First(observers \intersect down)}
    /\ control = claims
    /\ send = LET before == First(down) IN IF before \in claims THEN First(down \ claims) ELSE before
    /\ sync = [pc |-> "idle", lost |-> {}, found |-> {}]

------------------------------------------------------------------------------
Claim_Keeps(s, c, ch) == [claims |-> c \union {ch}, send |-> s.send]
(* claim_down_channel: the target is replaced when it was claimed          *)
Claim(s, c, ch) == [claims |-> c \union {ch}, send |-> IF s.send = ch /\ ch \notin c THEN First(down' \ (c \union {ch})) ELSE s.send]
(* release_down_channel, of the channels of C; of those only one ever holds*)
(* a claim, so the loop over them is one step: a target is chosen if there *)
(* was none.                                                               *)
Release(s, C) ==
    IF s.claims \intersect C = {} THEN s
    ELSE [claims |-> s.claims \ C,
          send |-> IF s.send = NoChannel THEN First(down' \ (s.claims \ C)) ELSE s.send]

(* rebalance_systemview_control: the lowest observed channel with a usable *)
(* down direction gets the claim, the other observers give theirs up.      *)
Rebalanced(s, obs) ==
    LET candidates == obs \intersect down'
        controller == First(candidates)
        claimed == IF candidates = {} THEN s ELSE Claim(s, s.claims, controller)
    IN Release(claimed, obs \ {controller})
Controller(obs) == IF obs \intersect down' = {} THEN {} ELSE {First(obs \intersect down')}

Settle(s, obs) ==
    /\ observers' = obs /\ control' = Controller(obs)
    /\ LET r == Rebalanced(s, obs) IN claims' = r.claims /\ send' = r.send
Now == [claims |-> claims, send |-> send]

(* refresh_channels: set_running with the channels that are found, then    *)
(* sync_systemview_observers with the snapshot and the observers of that   *)
(* moment.  Each observer it stops and each that it starts is an operation *)
(* of its own, so that others come between.                                *)
RefreshChannels(u, d) ==
    /\ sync.pc = "idle" /\ up' = u /\ down' = d /\ source' = Kept(source, u)
    /\ send' = Kept(send, d \ claims)
    /\ sync' = [pc |-> "syncing", lost |-> observers \ u, found |-> Named \intersect u]
    /\ UNCHANGED <<claims, observers, control, suppressed>>
SyncStops(ch) ==
    /\ ch \in sync.lost /\ sync' = [sync EXCEPT !.lost = @ \ {ch}]
    /\ UNCHANGED <<up, down, source, suppressed>>
    /\ Settle(Release(Now, {ch}), observers \ {ch})
SyncStarts ==
    /\ sync.lost = {} /\ sync.found # {} /\ UNCHANGED <<up, down, source, suppressed>>
    /\ LET ch == First(sync.found)
       IN /\ sync' = [sync EXCEPT !.found = @ \ {ch}]
          /\ IF ch \in suppressed \union observers THEN UNCHANGED <<observers, control, claims, send>>
             ELSE Settle(Now, observers \union {ch})
SyncEnds ==
    /\ sync.pc = "syncing" /\ sync.lost = {} /\ sync.found = {}
    /\ UNCHANGED <<up, down, source, suppressed>>
    /\ sync' = [sync EXCEPT !.pc = "idle"] /\ Settle(Now, observers)

(* systemview_attach, of any readable channel                              *)
SystemviewAttach(ch) ==
    /\ suppressed' = suppressed \ {ch} /\ UNCHANGED <<up, down, source, sync>>
    /\ IF ch \in observers \/ ch \notin up THEN UNCHANGED <<observers, control, claims, send>>
       ELSE Settle(Now, observers \union {ch})
(* systemview_detach; stop_systemview_observer releases in any case        *)
SystemviewDetach(ch) ==
    /\ ch \in up /\ suppressed' = suppressed \union {ch} /\ UNCHANGED <<up, down, source, sync>>
    /\ Settle(Release(Now, {ch}), observers \ {ch})

SetSendChannel(ch) ==
    /\ ch \in down /\ ch \notin claims /\ send' = ch
    /\ UNCHANGED <<up, down, source, claims, observers, control, suppressed, sync>>
SetAutomationSource(ch) ==
    /\ ch \in up /\ source' = ch
    /\ UNCHANGED <<up, down, send, claims, observers, control, suppressed, sync>>

Next ==
    \/ \E u, d \in SUBSET Channel : RefreshChannels(u, d)
    \/ SyncStarts \/ SyncEnds
    \/ \E ch \in Channel : SyncStops(ch) \/ SystemviewAttach(ch) \/ SystemviewDetach(ch)
                          \/ SetSendChannel(ch) \/ SetAutomationSource(ch)
Spec == Init /\ [][Next]_rcvars

------------------------------------------------------------------------------
(* SystemView has one command stream, and what a user or a script sends    *)
(* never goes into it: at most one observer holds a claim, it is the one   *)
(* that says it has control, and the send target is a writable channel     *)
(* nobody claims, chosen whenever there is one - whatever channels a       *)
(* refresh finds or loses, in whichever order observers come and go, and at*)
(* every moment of a refresh.                                              *)
ChannelsApart ==
    /\ claims = control /\ Cardinality(claims) <= 1 /\ claims \subseteq observers
    /\ send \notin claims
    /\ IF down \ claims = {} THEN send = NoChannel ELSE send \in down
=============================================================================
