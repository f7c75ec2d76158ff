------------------------------ MODULE DataPlane ------------------------------
(***************************************************************************)
(* The DataPlane actor of src-tauri/src/transport/runtime.rs.              *)
(*                                                                         *)
(* One OS thread (run_blocking_runtime) owns the byte-stream driver.       *)
(* Clones of DataPlaneHandle talk to it through a bounded command queue    *)
(* and one shared atomic, exclusive_active.  A file transfer may lease the *)
(* driver (acquire_exclusive / ExclusiveIo); bytes the actor has read but  *)
(* not yet handed to a subscriber must then travel with the driver.        *)
(*                                                                         *)
(* Grain of atomicity: one step per access to shared state.  A load of     *)
(* exclusive_active and the sends to subscriber queues it guards are one   *)
(* step, because those sends commute with every access to the flag made by *)
(* other threads.  The contents of shared commands (bytes written, terminal*)
(* size) and the byte counters are left out; a write and a resize are the  *)
(* same command, a driver operation that succeeds, fails or panics.        *)
(***************************************************************************)
EXTENDS Naturals, Sequences, FiniteSets

CONSTANTS
  SyncCallers,      \* threads calling write / resize_terminal
  AsyncCallers,     \* tasks calling write_async / resize_terminal_async
  Owners,           \* threads calling acquire_exclusive
  Subs,             \* subscriptions (next_subscription_id: never reused)
  Closers,          \* threads calling shutdown
  CommandCapacity,  \* COMMAND_CAPACITY
  SubCapacity,      \* SUBSCRIPTION_CAPACITY, in messages
  StartupLimit,     \* STARTUP_BUFFER_LIMIT, in bytes
  MaxChunk,         \* READ_BUFFER_SIZE: bytes one physical read may return
  MaxBytes,         \* bound of the model: bytes the remote end sends
  SerialOwners,     \* TRUE: owners take turns, as the transfer scheduler makes them
  None

ASSUME CapacityAssumption ==
  /\ CommandCapacity \in Nat \ {0}
  /\ SubCapacity \in Nat \ {0}
  /\ StartupLimit \in Nat
  /\ MaxChunk \in Nat \ {0}
  /\ MaxBytes \in Nat
  /\ SerialOwners \in BOOLEAN

ASSUME NoneAssumption == None \notin Owners

ASSUME HolderAssumption == Owners \cap {"actor", "queue", "gone"} = {}

Callers == SyncCallers \cup AsyncCallers

(* A received byte: its position in the stream and the position of the     *)
(* first byte of the physical read that returned it.                       *)
Byte == [n : Nat, c : Nat]

(* DataPlaneEvent: Data carries at least one byte, Closed carries none.    *)
Event == Seq(Byte)

Closed == <<>>

Command ==
  [op : {"io"}, who : Callers] \cup
  [op : {"subscribe", "unsubscribe"}, who : Subs] \cup
  [op : {"acquire", "return"}, who : Owners] \cup
  [op : {"shutdown"}, who : Closers]

VARIABLES
  actor,            \* where run_blocking_runtime is
  cmds,             \* the sync_channel of RuntimeCommands
  flag,             \* exclusive_active
  lease,            \* RuntimeLoopState.exclusive
  shutdownPending,  \* RuntimeLoopState.shutdown_pending
  connected,        \* connected
  driver,           \* who owns the Box<dyn BlockingByteStream>
  shut,             \* the driver's shutdown() has been called
  startup,          \* startup_buffer, its chunks laid end to end
  handoff,          \* handoff_buffer
  prefetched,       \* ExclusiveIo.prefetched of each owner
  sender,           \* the SyncSender of each subscription
  sub,              \* the receiving half of each subscription
  chan,             \* events queued for each subscription
  reason,           \* disconnect_reason of each subscription
  seen,             \* history: last byte each subscription received
  call,             \* program counters of the callers,
  own,              \* of the owners
  closer,           \* and of the closers
  rx,               \* rx_bytes: bytes physically read
  leaseOut,         \* history: bytes consumed through a lease,
  sharedOut,        \* bytes published to subscribers,
  lost              \* and bytes dropped (startup overflow, dead actor)

actorVars == <<actor, shutdownPending, connected, shut>>
subVars   == <<sender, sub, chan, reason, seen>>
byteVars  == <<startup, handoff, prefetched, rx, leaseOut, sharedOut, lost>>
vars == <<actorVars, subVars, byteVars, cmds, flag, lease, driver, call, own,
          closer>>

TypeOK ==
  /\ actor \in {"top", "recv", "unflag", "drain", "reading", "exit", "unwind",
                "drop", "done"}
  /\ cmds \in Seq(Command) /\ Len(cmds) <= CommandCapacity
  /\ flag \in BOOLEAN
  /\ lease \in Owners \cup {None}
  /\ shutdownPending \in BOOLEAN
  /\ connected \in BOOLEAN
  /\ driver \in Owners \cup {"actor", "queue", "gone"}
  /\ shut \in BOOLEAN
  /\ startup \in Seq(Byte)
  /\ handoff \in Seq(Byte)
  /\ prefetched \in [Owners -> Seq(Byte)]
  /\ sender \in [Subs -> {"none", "queued", "held", "gone"}]
  /\ sub \in [Subs -> {"new", "live", "dropped"}]
  /\ chan \in [Subs -> Seq(Event)]
  /\ reason \in [Subs -> {"none", "backlog", "stopped"}]
  /\ seen \in [Subs -> Nat]
  /\ call \in [Callers -> {"idle", "send", "wait"}]
  /\ own \in [Owners -> {"idle", "send", "wait", "failed", "leased",
                         "returning", "returned", "clear"}]
  /\ closer \in [Closers -> {"idle", "wait", "done"}]
  /\ rx \in Nat
  /\ leaseOut \in SUBSET Nat
  /\ sharedOut \in SUBSET Nat
  /\ lost \in SUBSET Nat

-----------------------------------------------------------------------------
(* Helpers.                                                                *)

(* sync_channel(COMMAND_CAPACITY): a send goes through while this holds.   *)
HasRoom == Len(cmds) < CommandCapacity

Enqueue(op, who) == cmds' = Append(cmds, [op |-> op, who |-> who])

Positions(bytes) == {bytes[i].n : i \in DOMAIN bytes}

(* The bytes a physical read of k bytes returns.                           *)
NewBytes(k) == [i \in 1..k |-> [n |-> rx + i, c |-> rx + 1]]

HeldSubs == {s \in Subs : sender[s] = "held"}

(* The places where bytes may be cut: a chunk is dropped whole.            *)
Cuts(bytes) == {d \in 0..Len(bytes) :
                  d \in 1..Len(bytes) - 1 => bytes[d].c # bytes[d + 1].c}

TrimStartup_OffByOne(bytes) ==
  LET fits == {d \in Cuts(bytes) : Len(bytes) - d <= StartupLimit + 1}
      drop == CHOOSE d \in fits : \A e \in fits : d <= e
  IN SubSeq(bytes, drop + 1, Len(bytes))

(* While the buffer exceeds its limit its oldest chunk goes.               *)
TrimStartup(bytes) ==
  LET fits == {d \in Cuts(bytes) : Len(bytes) - d <= StartupLimit}
      drop == CHOOSE d \in fits : \A e \in fits : d <= e
  IN SubSeq(bytes, drop + 1, Len(bytes))

TakeUnconsumed_Swapped == handoff \o startup

(* take_unconsumed_bytes: what a new lease is given.                       *)
TakeUnconsumed == startup \o handoff

RestoreUnconsumed_Forgotten(o) == handoff

(* restore_unconsumed_bytes: what a lease leaves goes back in front.       *)
RestoreUnconsumed(o) == prefetched[o] \o handoff

(* try_send of one event to every registered subscriber: a full queue      *)
(* detaches the subscriber with a reason, a dropped receiver without one.  *)
Broadcast(event) ==
  LET ok   == {s \in HeldSubs : sub[s] = "live" /\ Len(chan[s]) < SubCapacity}
      full == {s \in HeldSubs : sub[s] = "live" /\ Len(chan[s]) >= SubCapacity}
  IN /\ chan' = [s \in Subs |-> IF s \in ok THEN Append(chan[s], event) ELSE chan[s]]
     /\ sender' = [s \in Subs |-> IF s \in HeldSubs \ ok THEN "gone" ELSE sender[s]]
     /\ reason' = [s \in Subs |-> IF s \in full /\ reason[s] = "none"
                                  THEN "backlog" ELSE reason[s]]
     /\ UNCHANGED <<sub, seen>>

(* publish_shared_data.                                                    *)
Publish(data) ==
  \/ /\ data = <<>>
     /\ UNCHANGED <<startup, lost, sharedOut, subVars>>
  \/ /\ data # <<>> /\ HeldSubs = {}
     /\ startup' = TrimStartup(startup \o data)
     /\ lost' = lost \cup (Positions(startup \o data) \ Positions(startup'))
     /\ UNCHANGED <<sharedOut, subVars>>
  \/ /\ data # <<>> /\ HeldSubs # {}
     /\ Broadcast(data)
     /\ sharedOut' = sharedOut \cup Positions(data)
     /\ UNCHANGED <<startup, lost>>

-----------------------------------------------------------------------------
(* Callers: write, write_async, resize_terminal, resize_terminal_async.    *)

(* The admission check; a caller that finds the flag set returns Busy.     *)
CallAdmit(c) ==
  /\ call[c] = "idle"
  /\ ~flag
  /\ c \in AsyncCallers => \A d \in AsyncCallers : call[d] # "send"  \* async_command_order
  /\ call' = [call EXCEPT ![c] = "send"]
  /\ UNCHANGED <<actorVars, subVars, byteVars, cmds, flag, lease, driver, own, closer>>

(* The send.  A synchronous caller blocks while the queue is full, an      *)
(* asynchronous one returns Busy; both fail once the actor is gone.        *)
CallSend(c) ==
  /\ call[c] = "send"
  /\ \/ /\ actor = "done"
        /\ call' = [call EXCEPT ![c] = "idle"]
        /\ UNCHANGED cmds
     \/ /\ actor # "done" /\ HasRoom
        /\ Enqueue("io", c)
        /\ call' = [call EXCEPT ![c] = "wait"]
     \/ /\ actor # "done" /\ ~HasRoom /\ c \in AsyncCallers
        /\ call' = [call EXCEPT ![c] = "idle"]
        /\ UNCHANGED cmds
  /\ UNCHANGED <<actorVars, subVars, byteVars, flag, lease, driver, own, closer>>

-----------------------------------------------------------------------------
(* Owners: acquire_exclusive and ExclusiveIo.                              *)

(* compare_exchange(false, true).  With SerialOwners an owner first holds  *)
(* the only transfer slot of its session, from before this step until it   *)
(* has dropped its lease.                                                  *)
AcquireRequest(o) ==
  /\ own[o] = "idle"
  /\ ~flag
  /\ SerialOwners => \A p \in Owners : own[p] = "idle"
  /\ flag' = TRUE
  /\ own' = [own EXCEPT ![o] = "send"]
  /\ UNCHANGED <<actorVars, subVars, byteVars, cmds, lease, driver, call, closer>>

AcquireSend_Retries(o) ==
  /\ own[o] = "send"
  /\ actor # "done" /\ HasRoom
  /\ Enqueue("acquire", o)
  /\ own' = [own EXCEPT ![o] = "wait"]
  /\ UNCHANGED <<actorVars, subVars, byteVars, flag, lease, driver, call, closer>>

(* The send of AcquireExclusive, which blocks while the queue is full.     *)
AcquireSend(o) ==
  /\ own[o] = "send"
  /\ \/ /\ actor = "done"
        /\ own' = [own EXCEPT ![o] = "failed"]
        /\ UNCHANGED cmds
     \/ /\ actor # "done" /\ HasRoom
        /\ Enqueue("acquire", o)
        /\ own' = [own EXCEPT ![o] = "wait"]
  /\ UNCHANGED <<actorVars, subVars, byteVars, flag, lease, driver, call, closer>>

(* Every failed acquisition stores false before it returns its error.      *)
AcquireFail(o) ==
  /\ own[o] = "failed"
  /\ flag' = FALSE
  /\ own' = [own EXCEPT ![o] = "idle"]
  /\ UNCHANGED <<actorVars, subVars, byteVars, cmds, lease, driver, call, closer>>

(* ExclusiveIo::read: prefetched bytes first, then the driver itself.      *)
LeaseRead(o) ==
  /\ own[o] = "leased"
  /\ \/ \E k \in 1..Len(prefetched[o]) :
          /\ leaseOut' = leaseOut \cup Positions(SubSeq(prefetched[o], 1, k))
          /\ prefetched' = [prefetched EXCEPT ![o] = SubSeq(@, k + 1, Len(@))]
          /\ UNCHANGED rx
     \/ \E k \in 1..MaxChunk :
          /\ prefetched[o] = <<>>
          /\ rx + k <= MaxBytes
          /\ leaseOut' = leaseOut \cup Positions(NewBytes(k))
          /\ rx' = rx + k
          /\ UNCHANGED prefetched
  /\ UNCHANGED <<actorVars, subVars, startup, handoff, sharedOut, lost, cmds, flag,
                 lease, driver, call, own, closer>>

(* release / Drop: release_inner marks the lease released ...              *)
ReleaseBegin(o) ==
  /\ own[o] = "leased"
  /\ own' = [own EXCEPT ![o] = "returning"]
  /\ UNCHANGED <<actorVars, subVars, byteVars, cmds, flag, lease, driver, call, closer>>

(* ... and sends the driver back; a dead actor leaves the owner to shut    *)
(* the driver down.                                                        *)
ReleaseSend(o) ==
  /\ own[o] = "returning"
  /\ \/ /\ actor = "done"
        /\ driver' = "gone" /\ shut' = TRUE /\ flag' = FALSE
        /\ own' = [own EXCEPT ![o] = "idle"]
        /\ UNCHANGED cmds
     \/ /\ actor # "done" /\ HasRoom
        /\ Enqueue("return", o)
        /\ driver' = "queue"
        /\ own' = [own EXCEPT ![o] = "returned"]
        /\ UNCHANGED <<flag, shut>>
  /\ UNCHANGED <<actor, shutdownPending, connected, subVars, byteVars, lease, call, closer>>

(* After the acknowledgement release_inner stores false a second time.     *)
ReleaseClear(o) ==
  /\ own[o] = "clear"
  /\ flag' = FALSE
  /\ own' = [own EXCEPT ![o] = "idle"]
  /\ UNCHANGED <<actorVars, subVars, byteVars, cmds, lease, driver, call, closer>>

-----------------------------------------------------------------------------
(* Subscribers and closers.                                                *)

Subscribe(s) ==
  /\ sub[s] = "new"
  /\ actor # "done" /\ HasRoom
  /\ Enqueue("subscribe", s)
  /\ sub' = [sub EXCEPT ![s] = "live"]
  /\ sender' = [sender EXCEPT ![s] = "queued"]
  /\ UNCHANGED <<actorVars, byteVars, chan, reason, seen, flag, lease, driver, call, own,
                 closer>>

Receive(s) ==
  /\ sub[s] = "live"
  /\ chan[s] # <<>>
  /\ chan' = [chan EXCEPT ![s] = Tail(@)]
  /\ LET event == Head(chan[s])
     IN seen' = [seen EXCEPT ![s] = IF event = Closed THEN @ ELSE event[Len(event)].n]
  /\ UNCHANGED <<actorVars, byteVars, sender, sub, reason, cmds, flag, lease, driver, call,
                 own, closer>>

(* Drop for DataPlaneSubscription: the Unsubscribe is only tried.          *)
DropSubscription(s) ==
  /\ sub[s] = "live"
  /\ sub' = [sub EXCEPT ![s] = "dropped"]
  /\ chan' = [chan EXCEPT ![s] = <<>>]
  /\ \/ actor # "done" /\ HasRoom /\ Enqueue("unsubscribe", s)
     \/ (actor = "done" \/ ~HasRoom) /\ UNCHANGED cmds
  /\ UNCHANGED <<actorVars, byteVars, sender, reason, seen, flag, lease, driver, call, own,
                 closer>>

Shutdown(k) ==
  /\ closer[k] = "idle"
  /\ \/ /\ actor = "done"
        /\ closer' = [closer EXCEPT ![k] = "done"]
        /\ UNCHANGED cmds
     \/ /\ actor # "done" /\ HasRoom
        /\ Enqueue("shutdown", k)
        /\ closer' = [closer EXCEPT ![k] = "wait"]
  /\ UNCHANGED <<actorVars, subVars, byteVars, flag, lease, driver, call, own>>

-----------------------------------------------------------------------------
(* The actor: run_blocking_runtime and handle_command.  Its "no driver",   *)
(* "owner mismatch" and "already owns a driver" branches are left out:     *)
(* DriverOwnership shows that no state reaches them.                       *)

(* The head of the loop: blocking receive while a lease is active or asked *)
(* for, otherwise publish what an earlier lease left behind.               *)
ActorTop ==
  /\ actor = "top"
  /\ \/ /\ lease # None \/ flag
        /\ actor' = "recv"
        /\ UNCHANGED <<subVars, byteVars>>
     \/ /\ lease = None /\ ~flag
        /\ actor' = "drain"
        /\ Publish(handoff)
        /\ handoff' = <<>>
        /\ UNCHANGED <<prefetched, rx, leaseOut>>
  /\ UNCHANGED <<shutdownPending, connected, shut, cmds, flag, lease, driver, call, own,
                 closer>>

ActorQueueEmpty_IgnoresFlag ==
  /\ actor = "drain"
  /\ cmds = <<>>
  /\ actor' = "reading"
  /\ UNCHANGED <<shutdownPending, connected, shut, subVars, byteVars, cmds, flag, lease,
                 driver, call, own, closer>>

(* The try_recv loop found nothing: start a read unless a lease was asked. *)
ActorQueueEmpty ==
  /\ actor = "drain"
  /\ cmds = <<>>
  /\ actor' = IF flag THEN "top" ELSE "reading"
  /\ UNCHANGED <<shutdownPending, connected, shut, subVars, byteVars, cmds, flag, lease,
                 driver, call, own, closer>>

(* A read returns k bytes: theirs is the lease's if one was asked meanwhile. *)
ReadData(k) ==
  /\ actor = "reading"
  /\ rx + k <= MaxBytes
  /\ actor' = "top"
  /\ rx' = rx + k
  /\ \/ /\ flag
        /\ handoff' = handoff \o NewBytes(k)
        /\ UNCHANGED <<startup, lost, sharedOut, subVars>>
     \/ /\ ~flag
        /\ Publish(NewBytes(k))
        /\ UNCHANGED handoff
  /\ UNCHANGED <<shutdownPending, connected, shut, prefetched, leaseOut, cmds, flag, lease,
                 driver, call, own, closer>>

ReadIdle ==
  /\ actor = "reading"
  /\ actor' = "top"
  /\ UNCHANGED <<shutdownPending, connected, shut, subVars, byteVars, cmds, flag, lease,
                 driver, call, own, closer>>

ReadFail_GoesOn ==
  /\ actor = "reading"
  /\ actor' = "top"
  /\ Broadcast(Closed)
  /\ UNCHANGED <<shutdownPending, connected, shut, byteVars, cmds, flag, lease, driver,
                 call, own, closer>>

(* Eof or an error ends the actor after a Closed event; a panic of the     *)
(* driver unwinds it.                                                      *)
ReadFail ==
  /\ actor = "reading"
  /\ \/ actor' = "exit" /\ Broadcast(Closed)
     \/ actor' = "unwind" /\ UNCHANGED subVars
  /\ UNCHANGED <<shutdownPending, connected, shut, byteVars, cmds, flag, lease, driver,
                 call, own, closer>>

(* recv / try_recv returned a command of client w.                         *)
Dequeue(op, w) ==
  /\ actor \in {"recv", "drain"}
  /\ cmds # <<>>
  /\ Head(cmds) = [op |-> op, who |-> w]
  /\ cmds' = Tail(cmds)

(* CommandOutcome::Continue in the loop the command was received by.       *)
Continue == actor' = IF actor = "recv" THEN "top" ELSE "drain"

ExecIo_NoAckWhenLeased(c) ==
  /\ Dequeue("io", c)
  /\ call' = [call EXCEPT ![c] = IF lease # None THEN @ ELSE "idle"]
  /\ Continue
  /\ UNCHANGED <<shutdownPending, connected, shut, subVars, byteVars, flag, lease, driver,
                 own, closer>>

(* Write and ResizeTerminal.                                               *)
ExecIo(c) ==
  /\ Dequeue("io", c)
  /\ call' = [call EXCEPT ![c] = "idle"]
  /\ \/ lease # None /\ Continue /\ UNCHANGED subVars             \* Busy
     \/ lease = None /\ Continue /\ UNCHANGED subVars             \* done
     \/ lease = None /\ actor' = "exit" /\ Broadcast(Closed)      \* failed
     \/ lease = None /\ actor' = "unwind" /\ UNCHANGED subVars    \* panicked
  /\ UNCHANGED <<shutdownPending, connected, shut, byteVars, flag, lease, driver, own,
                 closer>>

(* The startup backlog goes to the new subscriber as one event.            *)
ExecSubscribe(s) ==
  /\ Dequeue("subscribe", s)
  /\ Continue
  /\ startup' = <<>>
  /\ \/ /\ startup = <<>>
        /\ sender' = [sender EXCEPT ![s] = "held"]
        /\ UNCHANGED <<chan, sharedOut, lost>>
     \/ /\ startup # <<>> /\ sub[s] = "live"
        /\ sender' = [sender EXCEPT ![s] = "held"]
        /\ chan' = [chan EXCEPT ![s] = Append(@, startup)]
        /\ sharedOut' = sharedOut \cup Positions(startup)
        /\ UNCHANGED lost
     \/ /\ startup # <<>> /\ sub[s] = "dropped"
        /\ sender' = [sender EXCEPT ![s] = "gone"]
        /\ lost' = lost \cup Positions(startup)
        /\ UNCHANGED <<chan, sharedOut>>
  /\ UNCHANGED <<shutdownPending, connected, shut, sub, reason, seen, handoff, prefetched,
                 rx, leaseOut, flag, lease, driver, call, own, closer>>

ExecUnsubscribe(s) ==
  /\ Dequeue("unsubscribe", s)
  /\ Continue
  /\ sender' = [sender EXCEPT ![s] = "gone"]
  /\ UNCHANGED <<shutdownPending, connected, shut, sub, chan, reason, seen, byteVars, flag,
                 lease, driver, call, own, closer>>

ExecAcquire_NoLeaseCheck(o) ==
  /\ Dequeue("acquire", o)
  /\ actor' = "top"
  /\ own' = [own EXCEPT ![o] = "leased"]
  /\ lease' = o
  /\ driver' = o
  /\ UNCHANGED <<shutdownPending, connected, shut, subVars, byteVars, flag, call, closer>>

(* The driver and take_unconsumed_bytes go to the owner; a second owner is *)
(* refused, and then the actor stores false.                               *)
ExecAcquire(o) ==
  /\ Dequeue("acquire", o)
  /\ \/ /\ lease # None
        /\ actor' = "unflag"
        /\ own' = [own EXCEPT ![o] = "failed"]
        /\ UNCHANGED <<lease, driver, byteVars>>
     \/ /\ lease = None
        /\ actor' = "top"
        /\ own' = [own EXCEPT ![o] = "leased"]
        /\ lease' = o
        /\ driver' = o
        /\ prefetched' = [prefetched EXCEPT ![o] = TakeUnconsumed]
        /\ startup' = <<>>
        /\ handoff' = <<>>
        /\ UNCHANGED <<rx, leaseOut, sharedOut, lost>>
  /\ UNCHANGED <<shutdownPending, connected, shut, subVars, flag, call, closer>>

(* A lease is only refused under a lease, hence in the blocking loop.      *)
ActorUnflag ==
  /\ actor = "unflag"
  /\ actor' = "top"
  /\ flag' = FALSE
  /\ UNCHANGED <<shutdownPending, connected, shut, subVars, byteVars, cmds, lease, driver,
                 call, own, closer>>

ReturnOutcome_ForgetsShutdown == Continue /\ UNCHANGED shut

(* A shutdown that came during the lease is carried out now.               *)
ReturnOutcome ==
  \/ shutdownPending /\ shut' = TRUE /\ actor' = "exit"
  \/ ~shutdownPending /\ Continue /\ UNCHANGED shut

(* The driver comes back with what the lease did not consume.              *)
ExecReturn(o) ==
  /\ Dequeue("return", o)
  /\ handoff' = RestoreUnconsumed(o)
  /\ prefetched' = [prefetched EXCEPT ![o] = <<>>]
  /\ driver' = "actor"
  /\ lease' = None
  /\ flag' = FALSE
  /\ own' = [own EXCEPT ![o] = "clear"]
  /\ ReturnOutcome
  /\ UNCHANGED <<shutdownPending, connected, subVars, startup, rx, leaseOut, sharedOut,
                 lost, call, closer>>

ExecShutdown_IgnoresLease(k) ==
  /\ Dequeue("shutdown", k)
  /\ closer' = [closer EXCEPT ![k] = "done"]
  /\ shut' = TRUE
  /\ actor' = "exit"
  /\ UNCHANGED <<shutdownPending, connected, subVars, byteVars, flag, lease, driver, call,
                 own>>

(* A shutdown during a lease is acknowledged at once and left pending.     *)
ExecShutdown(k) ==
  /\ Dequeue("shutdown", k)
  /\ closer' = [closer EXCEPT ![k] = "done"]
  /\ \/ /\ lease # None
        /\ shutdownPending' = TRUE
        /\ Continue
        /\ UNCHANGED shut
     \/ /\ lease = None
        /\ shut' = TRUE
        /\ actor' = "exit"
        /\ UNCHANGED shutdownPending
  /\ UNCHANGED <<connected, subVars, byteVars, flag, lease, driver, call, own>>

(* After the loop: reasons, flags, and the driver's shutdown if the loop   *)
(* did not end with it.                                                    *)
ActorExit ==
  /\ actor = "exit"
  /\ actor' = "unwind"
  /\ reason' = [s \in Subs |-> IF s \in HeldSubs /\ reason[s] = "none"
                               THEN "stopped" ELSE reason[s]]
  /\ flag' = FALSE
  /\ connected' = FALSE
  /\ shut' = TRUE
  /\ UNCHANGED <<shutdownPending, sender, sub, chan, seen, byteVars, cmds, lease, driver,
                 call, own, closer>>

GuardDrop_AfterState ==
  /\ actor = "unwind"
  /\ actor' = "drop"
  /\ UNCHANGED <<shutdownPending, connected, shut, flag, subVars, byteVars, cmds, lease,
                 driver, call, own, closer>>

(* RuntimeStateGuard::drop, on return and on unwinding alike.              *)
GuardDrop ==
  /\ actor = "unwind"
  /\ actor' = "drop"
  /\ flag' = FALSE
  /\ connected' = FALSE
  /\ UNCHANGED <<shutdownPending, shut, subVars, byteVars, cmds, lease, driver, call, own,
                 closer>>

(* The state, the driver and the receiver of commands are dropped: every   *)
(* sender held or queued goes, and whoever waits for an answer is told.    *)
DropState ==
  /\ actor = "drop"
  /\ actor' = "done"
  /\ cmds' = <<>>
  /\ sender' = [s \in Subs |-> IF sender[s] = "none" THEN "none" ELSE "gone"]
  /\ startup' = <<>>
  /\ handoff' = <<>>
  /\ lost' = lost \cup Positions(startup \o handoff)
  /\ driver' = IF driver \in {"actor", "queue"} THEN "gone" ELSE driver
  /\ call' = [c \in Callers |-> IF call[c] = "wait" THEN "idle" ELSE call[c]]
  /\ own' = [o \in Owners |-> CASE own[o] = "wait" -> "failed"
                                 [] own[o] = "returned" -> "idle"
                                 [] OTHER -> own[o]]
  /\ closer' = [k \in Closers |-> IF closer[k] = "wait" THEN "done" ELSE closer[k]]
  /\ UNCHANGED <<shutdownPending, connected, shut, sub, chan, reason, seen, prefetched, rx,
                 leaseOut, sharedOut, flag, lease>>

-----------------------------------------------------------------------------

Init ==
  /\ actor = "top" /\ cmds = <<>> /\ flag = FALSE /\ lease = None
  /\ shutdownPending = FALSE /\ connected = TRUE /\ driver = "actor" /\ shut = FALSE
  /\ startup = <<>> /\ handoff = <<>> /\ prefetched = [o \in Owners |-> <<>>]
  /\ sender = [s \in Subs |-> "none"] /\ sub = [s \in Subs |-> "new"]
  /\ chan = [s \in Subs |-> <<>>] /\ reason = [s \in Subs |-> "none"]
  /\ seen = [s \in Subs |-> 0]
  /\ call = [c \in Callers |-> "idle"] /\ own = [o \in Owners |-> "idle"]
  /\ closer = [k \in Closers |-> "idle"]
  /\ rx = 0 /\ leaseOut = {} /\ sharedOut = {} /\ lost = {}

ActorStep ==
  \/ ActorTop \/ ActorQueueEmpty \/ ActorUnflag
  \/ \E k \in 1..MaxChunk : ReadData(k)
  \/ ReadIdle \/ ReadFail
  \/ \E c \in Callers : ExecIo(c)
  \/ \E s \in Subs : ExecSubscribe(s) \/ ExecUnsubscribe(s)
  \/ \E o \in Owners : ExecAcquire(o) \/ ExecReturn(o)
  \/ \E k \in Closers : ExecShutdown(k)
  \/ ActorExit \/ GuardDrop \/ DropState

CallerStep(c) == CallAdmit(c) \/ CallSend(c)

OwnerStep(o) ==
  \/ AcquireRequest(o) \/ AcquireSend(o) \/ AcquireFail(o)
  \/ LeaseRead(o) \/ ReleaseBegin(o) \/ ReleaseSend(o) \/ ReleaseClear(o)

SubStep(s) == Subscribe(s) \/ Receive(s) \/ DropSubscription(s)

Next ==
  \/ ActorStep
  \/ \E c \in Callers : CallerStep(c)
  \/ \E o \in Owners : OwnerStep(o)
  \/ \E s \in Subs : SubStep(s)
  \/ \E k \in Closers : Shutdown(k)

Spec == Init /\ [][Next]_vars

(* The actor runs and a read or write returns within the driver's poll     *)
(* interval (the contract of BlockingByteStream); a client that has begun  *)
(* a call goes on with it; a transfer ends, since its protocol loops have  *)
(* timeouts and a cancel flag.  Nobody has to begin a call.                *)
Fairness ==
  /\ WF_vars(ActorStep)
  /\ \A c \in Callers : WF_vars(CallSend(c))
  /\ \A o \in Owners :
       /\ WF_vars(AcquireSend(o)) /\ WF_vars(AcquireFail(o))
       /\ WF_vars(ReleaseBegin(o)) /\ WF_vars(ReleaseSend(o)) /\ WF_vars(ReleaseClear(o))

FairSpec == Spec /\ Fairness

-----------------------------------------------------------------------------
(* Properties.                                                             *)

Alive == actor \in {"top", "recv", "unflag", "drain", "reading"}

Buffered == startup \o handoff

LeaseBytes == UNION {Positions(prefetched[o]) : o \in Owners}

(* No received byte is duplicated or silently lost: each byte that was     *)
(* physically read is in exactly one place - the startup or the handoff    *)
(* buffer, the lease that owns the driver, consumed by a lease, published, *)
(* or dropped by startup overflow or the end of the actor.                 *)
ByteConservation ==
  LET places == <<Positions(startup), Positions(handoff), LeaseBytes, leaseOut,
                  sharedOut, lost>>
  IN /\ UNION {places[i] : i \in DOMAIN places} = 1..rx
     /\ \A i, j \in DOMAIN places : i # j => places[i] \cap places[j] = {}
     /\ \A o, p \in Owners :
          o # p => Positions(prefetched[o]) \cap Positions(prefetched[p]) = {}

Increasing(bytes) == \A i, j \in DOMAIN bytes : i < j => bytes[i].n < bytes[j].n

(* Bytes cross every ownership boundary in order: what waits in the actor  *)
(* or in a lease is in stream order and newer than everything already      *)
(* consumed or published, and what a subscription will receive is in order *)
(* and newer than what it has received.                                    *)
InOrder ==
  /\ Increasing(Buffered)
  /\ \A o \in Owners : Increasing(prefetched[o] \o Buffered)
  /\ \A m \in LeaseBytes \cup Positions(Buffered), n \in leaseOut \cup sharedOut : n < m
  /\ \A s \in Subs : \A i \in DOMAIN chan[s] :
       /\ Increasing(chan[s][i])
       /\ \A n \in Positions(chan[s][i]) : seen[s] < n
       /\ \A j \in DOMAIN chan[s] : i < j =>
            \A m \in Positions(chan[s][i]), n \in Positions(chan[s][j]) : m < n

(* Memory is bounded though the lease boundary buffers bytes outside the   *)
(* startup buffer and its limit: a consumer's queue keeps to its capacity  *)
(* and all bytes waiting in the actor and in a lease are at most a full    *)
(* startup buffer and one physical read, however often leases come and go. *)
BoundedMemory ==
  /\ \A s \in Subs : Len(chan[s]) <= SubCapacity
  /\ Len(startup) <= StartupLimit
  /\ \A o \in Owners : Len(prefetched[o]) + Len(Buffered) <= StartupLimit + MaxChunk

(* A Closed event is the last event of its queue: no data follows it.      *)
ClosedIsLast ==
  \A s \in Subs : \A i \in DOMAIN chan[s] :
    chan[s][i] = Closed => /\ i = Len(chan[s])
                           /\ ~Alive

(* The byte stream survives every change of hands of the driver.           *)
StreamIntact == ByteConservation /\ InOrder /\ ClosedIsLast

Returns == {i \in DOMAIN cmds : cmds[i].op = "return"}

(* The driver has one owner, and the actor's view of the lease is right:   *)
(* whenever the actor touches its driver it has it, a lease is held by the *)
(* owner the actor believes in, and a driver on its way back is in exactly *)
(* one command, of that owner, which the actor lives to handle.  This is   *)
(* why the branches for a missing driver and a mismatched owner are dead.  *)
DriverOwnership ==
  /\ lease = None /\ actor # "done" => driver = "actor"
  /\ lease = None /\ actor = "done" => driver = "gone"
  /\ lease # None =>
       /\ actor \in {"top", "recv", "unflag"}
       /\ \/ driver = lease /\ own[lease] \in {"leased", "returning"} /\ Returns = {}
          \/ /\ driver = "queue" /\ own[lease] = "returned"
             /\ \E i \in Returns : Returns = {i} /\ cmds[i].who = lease
  /\ \A o \in Owners : own[o] \in {"leased", "returning", "returned"} => lease = o

(* Nobody uses a driver that was shut down: a shutdown that arrives during *)
(* a lease waits for the lease to end.                                     *)
NoUseAfterShutdown ==
  shut => /\ ~Alive
          /\ \A o \in Owners : own[o] \notin {"leased", "returning", "returned"}

(* A subscription that ends while its consumer is still listening, other   *)
(* than by falling behind, finds the session already marked disconnected   *)
(* (the drop order RuntimeStateGuard's comment asks for).                  *)
DisconnectVisibleFirst ==
  \A s \in Subs : sub[s] = "live" /\ sender[s] = "gone" /\ reason[s] # "backlog"
                   => ~connected

(* The actor never starts a physical read once an owner has asked for the  *)
(* driver, until that owner has it no more.                                *)
AdmissionStopsReads ==
  [][actor # "reading" /\ actor' = "reading" =>
       \A o \in Owners : own[o] \notin {"send", "wait", "leased", "returning", "returned"}
    ]_vars

(* Every accepted command is answered, whatever becomes of the actor.      *)
CallsAnswered == \A c \in Callers : call[c] = "wait" ~> call[c] = "idle"

(* Every acquisition ends, with a lease or an error.                       *)
AcquisitionsEnd == \A o \in Owners : own[o] = "send" ~> own[o] \in {"leased", "idle"}

(* An accepted shutdown ends the actor and gives up the driver, even when  *)
(* it arrives in the middle of a lease.                                    *)
ShutdownCompletes ==
  \A k \in Closers : closer[k] = "wait" ~> actor = "done" /\ driver = "gone"

=============================================================================
