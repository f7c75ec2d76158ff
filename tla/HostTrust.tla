----------------------------- MODULE HostTrust -----------------------------
(***************************************************************************)
(* Which SSH host keys TauTerm trusts for one endpoint: KnownHostStore     *)
(* (plugins/ssh/known_hosts.rs) with its file, its "blocked" marker and    *)
(* its memory, and HostKeyVerifier (plugins/ssh/mod.rs) with the questions *)
(* that connections put to the user, who answers them through              *)
(* confirm_host_key and confirm_host_key_change.                           *)
(*                                                                         *)
(* Every change of trust holds `trust_actions` and the store's             *)
(* mutation_lock from its check to its write, so it is one step; an answer *)
(* takes its question out of the map before it gets them.  The start and   *)
(* the reset write several files and can be cut short anywhere.            *)
(***************************************************************************)
EXTENDS FiniteSets, Naturals

CONSTANTS
    Conn,           \* connection attempts
    Alg, Finger,     \* host-key algorithms and fingerprints
    MaxFaults       \* failing writes, crashes and damaged files, together

VARIABLES
    disk,           \* known_hosts.json and its .blocked marker
    store,          \* KnownHostStore: at, available, hosts
    reset,          \* how far reset_ssh_known_hosts is
    conn,           \* the connections: at, key
    ask,            \* per connection: its question and what it assumed
    granted,        \* per key: the user never / once / still trusts it
    damaged,        \* the file was damaged and trust not reset since
    faults

htvars == <<disk, store, reset, conn, ask, granted, damaged, faults>>

Key == [alg : Alg, fp : Finger]

NoQuestion == [at |-> "none", reason |-> "none", seen |-> {}]

Init ==
    /\ disk = [file |-> "none", keys |-> {}, blocked |-> FALSE]
    /\ store = [at |-> "down", available |-> FALSE, hosts |-> {}]
    /\ reset = "idle"
    /\ conn \in [Conn -> [at : {"idle"}, key : Key]]
    /\ ask = [c \in Conn |-> NoQuestion]
    /\ granted = [k \in Key |-> "never"]
    /\ damaged = FALSE
    /\ faults = 0

----------------------------------------------------------------------------
(* The decision *)

SameAlg(keys, k) == {j \in keys : j.alg = k.alg}
Algs(keys) == {j.alg : j \in keys}

\* KnownHostStore::evaluate on what is in memory.
Evaluate(k) ==
    IF ~store.available THEN "unavailable"
    ELSE IF store.hosts = {} THEN "first_seen"
    ELSE IF k \in store.hosts THEN "trusted"
    ELSE IF SameAlg(store.hosts, k) = {} THEN "additional_key"
    ELSE "changed"

\* The file and then the memory; nothing of it when the write fails.
Commit(keys) ==
    /\ disk' = [disk EXCEPT !.file = "good", !.keys = keys]
    /\ store' = [store EXCEPT !.hosts = keys]

Grant(k) == granted' = [granted EXCEPT ![k] = "now"]

----------------------------------------------------------------------------
(* The start: configure and load *)

Boot ==
    /\ store.at = "down"
    /\ store' = [at |-> "loading", available |-> FALSE, hosts |-> {}]
    /\ UNCHANGED <<disk, reset, conn, ask, granted, damaged, faults>>

Loadable == ~disk.blocked /\ disk.file # "bad"

\* The marker refuses the store at once; a missing file is an empty store.
Load ==
    /\ store.at = "loading"
    /\ disk.blocked \/ disk.file # "bad"
    /\ store' = [at |-> "up", available |-> Loadable,
                 hosts |-> IF Loadable THEN disk.keys ELSE {}]
    /\ UNCHANGED <<disk, reset, conn, ask, granted, damaged, faults>>

\* An empty, unreadable or foreign file: first the marker, then the file is
\* moved aside.
MarkBlocked ==
    /\ store.at = "loading"
    /\ ~disk.blocked /\ disk.file = "bad"
    /\ disk' = [disk EXCEPT !.blocked = TRUE]
    /\ store' = [store EXCEPT !.at = "quarantine"]
    /\ UNCHANGED <<reset, conn, ask, granted, damaged, faults>>

Quarantine ==
    /\ store.at = "quarantine"
    /\ disk' = [disk EXCEPT !.file = "none", !.keys = {}, !.blocked = TRUE]
    /\ store' = [store EXCEPT !.at = "up"]
    /\ UNCHANGED <<reset, conn, ask, granted, damaged, faults>>

\* Either write fails: the start goes on without a store.
StartFails ==
    /\ store.at = "quarantine" \/ (store.at = "loading" /\ ~Loadable /\ ~disk.blocked)
    /\ faults < MaxFaults
    /\ faults' = faults + 1
    /\ store' = [store EXCEPT !.at = "up"]
    /\ UNCHANGED <<disk, reset, conn, ask, granted, damaged>>

----------------------------------------------------------------------------
(* A connection meets the server's key: build_connection_with_config *)

Meet(c) ==
    /\ store.at = "up"
    /\ conn[c].at = "idle"
    /\ LET d == Evaluate(conn[c].key)
           asks == d \in {"first_seen", "additional_key"} IN
        /\ conn' = [conn EXCEPT ![c].at =
                      IF d = "trusted" THEN "through" ELSE IF asks THEN "waiting" ELSE "refused"]
        /\ ask' = [ask EXCEPT ![c] =
                     IF asks THEN [at |-> "pending", reason |-> d,
                                   seen |-> {[alg |-> a] : a \in Algs(store.hosts)}]
                     ELSE IF d = "changed" THEN [at |-> "pending", reason |-> d,
                                                 seen |-> SameAlg(store.hosts, conn[c].key)]
                     ELSE @]
    /\ UNCHANGED <<disk, store, reset, granted, damaged, faults>>

\* The user's time is over, or the attempt is given up: the guard withdraws
\* the question, unless the answer has already taken it.
GiveUp(c) ==
    /\ conn[c].at = "waiting"
    /\ ask[c].at \in {"pending", "taken"}
    /\ conn' = [conn EXCEPT ![c].at = "refused"]
    /\ ask' = [ask EXCEPT ![c].at = IF @ = "pending" THEN "over" ELSE @]
    /\ UNCHANGED <<disk, store, reset, granted, damaged, faults>>

\* The oneshot arrives.
Told(c) ==
    /\ conn[c].at = "waiting"
    /\ ask[c].at \in {"yes", "no"}
    /\ conn' = [conn EXCEPT ![c].at = IF ask[c].at = "yes" THEN "through" ELSE "refused"]
    /\ UNCHANGED <<disk, store, reset, ask, granted, damaged, faults>>

----------------------------------------------------------------------------
(* The user's answers: respond and respond_to_change *)

Respond(c) ==
    /\ ask[c].at = "pending"
    /\ ask' = [ask EXCEPT ![c].at = "taken"]
    /\ UNCHANGED <<disk, store, reset, conn, granted, damaged, faults>>

\* A change nobody answered within the time is dropped by the next question
\* or by its own late answer.
ChangeExpires(c) ==
    /\ ask[c].at \in {"pending", "taken"}
    /\ ask[c].reason = "changed"
    /\ ask' = [ask EXCEPT ![c].at = "over"]
    /\ UNCHANGED <<disk, store, reset, conn, granted, damaged, faults>>

Refuse(c) ==
    /\ ask[c].at = "taken"
    /\ ask' = [ask EXCEPT ![c].at = "no"]
    /\ UNCHANGED <<disk, store, reset, conn, granted, damaged, faults>>

\* What the question assumed must still be so.
StillValid_Trusting(c) == TRUE

StillValid(c) ==
    LET d == Evaluate(conn[c].key) IN
    \/ d = "trusted"
    \/ d = "first_seen" /\ ask[c].reason = d
    \/ /\ d = "additional_key" /\ ask[c].reason = d
       /\ ask[c].seen = {[alg |-> a] : a \in Algs(store.hosts)}

\* respond(accept): trust is written before the connection is let through.
Accept(c) ==
    /\ ask[c].at = "taken"
    /\ ask[c].reason \in {"first_seen", "additional_key"}
    /\ reset = "idle" /\ store.at = "up"
    /\ \/ /\ StillValid(c)
          /\ ask' = [ask EXCEPT ![c].at = "yes"]
          /\ IF Evaluate(conn[c].key) = "trusted"
               THEN UNCHANGED <<disk, store, granted>>
               ELSE Commit(store.hosts \union {conn[c].key}) /\ Grant(conn[c].key)
          /\ UNCHANGED faults
       \/ /\ ~StillValid(c)
          /\ ask' = [ask EXCEPT ![c].at = "no"]
          /\ UNCHANGED <<disk, store, granted, faults>>
       \/ /\ StillValid(c) /\ faults < MaxFaults
          /\ faults' = faults + 1
          /\ ask' = [ask EXCEPT ![c].at = "no"]
          /\ UNCHANGED <<disk, store, granted>>
    /\ UNCHANGED <<reset, conn, damaged>>

\* replace_if_matches: the keys that were shown are still the ones there.
Matches(c) == store.available /\ SameAlg(store.hosts, conn[c].key) = ask[c].seen

AcceptChange(c) ==
    /\ ask[c].at = "taken"
    /\ ask[c].reason = "changed"
    /\ reset = "idle" /\ store.at = "up"
    /\ LET k == conn[c].key IN
       \/ /\ Matches(c)
          /\ Commit((store.hosts \ ask[c].seen) \union {k})
          /\ granted' = [j \in Key |-> IF j = k THEN "now"
                                       ELSE IF j \in ask[c].seen THEN "once" ELSE granted[j]]
       \/ /\ ~Matches(c)
          /\ UNCHANGED <<disk, store, granted>>
    /\ ask' = [ask EXCEPT ![c].at = "over"]
    /\ UNCHANGED <<reset, conn, damaged, faults>>

----------------------------------------------------------------------------
(* forget_ssh_known_host and reset_ssh_known_hosts *)

Withdrawn == [k \in Key |-> IF granted[k] = "now" THEN "once" ELSE granted[k]]

Forget ==
    /\ reset = "idle" /\ store.at = "up"
    /\ store.available /\ store.hosts # {}
    /\ Commit({})
    /\ granted' = Withdrawn
    /\ UNCHANGED <<reset, conn, ask, damaged, faults>>

\* Every open question is answered with no; a change is forgotten.
ResetBegins ==
    /\ reset = "idle" /\ store.at = "up"
    /\ reset' = "write"
    /\ ask' = [c \in Conn |-> IF ask[c].at # "pending" THEN ask[c]
                              ELSE [ask[c] EXCEPT !.at =
                                      IF ask[c].reason = "changed" THEN "over" ELSE "no"]]
    /\ UNCHANGED <<disk, store, conn, granted, damaged, faults>>

ResetWrites ==
    /\ reset = "write"
    /\ disk' = [disk EXCEPT !.file = "good", !.keys = {}]
    /\ damaged' = FALSE
    /\ reset' = "unblock"
    /\ UNCHANGED <<store, conn, ask, granted, faults>>

ResetUnblocks ==
    /\ reset = "unblock"
    /\ disk' = [disk EXCEPT !.blocked = FALSE]
    /\ reset' = "memory"
    /\ UNCHANGED <<store, conn, ask, granted, damaged, faults>>

ResetEnds ==
    /\ reset = "memory"
    /\ store' = [store EXCEPT !.hosts = {}, !.available = TRUE]
    /\ granted' = Withdrawn
    /\ reset' = "idle"
    /\ UNCHANGED <<disk, conn, ask, damaged, faults>>

ResetFails ==
    /\ reset = "write" \/ (reset = "unblock" /\ disk.blocked)
    /\ faults < MaxFaults
    /\ faults' = faults + 1
    /\ reset' = "idle"
    /\ UNCHANGED <<disk, store, conn, ask, granted, damaged>>

----------------------------------------------------------------------------
(* Faults *)

Crash ==
    /\ store.at # "down"
    /\ faults < MaxFaults
    /\ faults' = faults + 1
    /\ store' = [at |-> "down", available |-> FALSE, hosts |-> {}]
    /\ reset' = "idle"
    /\ conn' = [c \in Conn |-> IF conn[c].at = "waiting" THEN [conn[c] EXCEPT !.at = "refused"]
                                                          ELSE conn[c]]
    /\ ask' = [c \in Conn |-> IF ask[c].at = "none" THEN ask[c] ELSE [ask[c] EXCEPT !.at = "over"]]
    /\ granted' = [k \in Key |-> IF k \in disk.keys \/ granted[k] = "never" THEN granted[k]
                                                                         ELSE "once"]
    /\ UNCHANGED <<disk, damaged>>

\* The file is truncated, edited or of another version while TauTerm is off.
Damage ==
    /\ store.at = "down"
    /\ disk.file = "good"
    /\ faults < MaxFaults
    /\ faults' = faults + 1
    /\ disk' = [disk EXCEPT !.file = "bad"]
    /\ damaged' = TRUE
    /\ UNCHANGED <<store, reset, conn, ask, granted>>

----------------------------------------------------------------------------

Works ==
    \/ Boot \/ Load \/ MarkBlocked \/ Quarantine
    \/ ResetWrites \/ ResetUnblocks \/ ResetEnds
    \/ \E c \in Conn : Meet(c) \/ Accept(c) \/ AcceptChange(c)

\* The wait for the user has a deadline of its own.
Waits == \E c \in Conn : GiveUp(c) \/ Told(c)

Next ==
    \/ Works
    \/ Waits
    \/ StartFails \/ ResetFails \/ Crash \/ Damage
    \/ Forget \/ ResetBegins
    \/ \E c \in Conn : Respond(c) \/ Refuse(c) \/ ChangeExpires(c)

Spec == Init /\ [][Next]_htvars /\ WF_htvars(Waits)

----------------------------------------------------------------------------

\* Trust is only what the user granted: an algorithm of an endpoint has one
\* key; every trusted key, in memory or in the file, was granted and not
\* withdrawn since; a connection only got through with a key the user had
\* granted; memory and file agree, so a restart decides alike; and damaged
\* trust is never taken for an empty one before the user resets it.
TrustIsGranted ==
    /\ \A k \in store.hosts : SameAlg(store.hosts, k) = {k} /\ granted[k] = "now"
    /\ reset = "idle" /\ store.available => store.hosts = disk.keys
    /\ disk.file = "good" => \A k \in disk.keys : granted[k] = "now"
    /\ \A c \in Conn : conn[c].at = "through" => granted[conn[c].key] # "never"
    /\ damaged => ~store.available

\* Every connection that waits for the user ends.
Awaited(c) == conn[c].at = "waiting"
Reached(c) == conn[c].at \in {"through", "refused"}

=============================================================================
