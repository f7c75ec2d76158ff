--------------------------- MODULE DataPlaneProofs ---------------------------
(***************************************************************************)
(* Proofs about DataPlane, for every set of clients, every capacity and    *)
(* every number of bytes.                                                  *)
(***************************************************************************)
EXTENDS DataPlane, SequenceTheorems, WellFoundedInduction, TLAPS

(* Trimming keeps a suffix that respects the limit, and there always is    *)
(* one, the empty suffix.                                                  *)
LEMMA TrimProperties ==
  ASSUME NEW bytes \in Seq(Byte)
  PROVE  \E d \in 0..Len(bytes) :
           /\ TrimStartup(bytes) = SubSeq(bytes, d + 1, Len(bytes))
           /\ Len(bytes) - d <= StartupLimit
<1> DEFINE fits == {d \in Cuts(bytes) : Len(bytes) - d <= StartupLimit}
           drop == CHOOSE d \in fits : \A e \in fits : d <= e
<1>1. Len(bytes) \in Nat
  BY LenProperties
<1>2. fits \subseteq Nat /\ fits \subseteq 0..Len(bytes)
  BY <1>1 DEF Cuts
<1>3. Len(bytes) \in fits
  BY <1>1, CapacityAssumption DEF Cuts
<1>4. \E x \in fits : \A y \in fits : ~(<<y, x>> \in OpToRel(<, Nat))
  <2> HIDE DEF fits
  <2> QED BY <1>2, <1>3, NatLessThanWellFounded, WFMin
<1>5. \E d \in fits : \A e \in fits : d <= e
  <2> HIDE DEF fits
  <2>1. \A x, y \in Nat : y < x => <<y, x>> \in OpToRel(<, Nat)
    BY DEF OpToRel
  <2>2. PICK x \in fits : \A y \in fits : ~(<<y, x>> \in OpToRel(<, Nat))
    BY <1>4
  <2>3. \A e \in fits : x <= e
    <3> SUFFICES ASSUME NEW e \in fits PROVE x <= e
      OBVIOUS
    <3>1. e \in Nat /\ x \in Nat /\ ~(e < x)
      BY <1>2, <2>1, <2>2
    <3> QED BY <3>1
  <2> QED BY <2>3
<1>6. drop \in fits
  <2> HIDE DEF fits
  <2> QED BY <1>5
<1>7. TrimStartup(bytes) = SubSeq(bytes, drop + 1, Len(bytes))
  BY DEF TrimStartup
<1> HIDE DEF drop
<1> QED BY <1>2, <1>6, <1>7

(* The startup buffer keeps a suffix of what it is given, within its       *)
(* limit.                                                                  *)
LEMMA TrimType ==
  ASSUME NEW bytes \in Seq(Byte)
  PROVE  /\ TrimStartup(bytes) \in Seq(Byte)
         /\ Len(TrimStartup(bytes)) <= StartupLimit
<1>1. PICK d \in 0..Len(bytes) : /\ TrimStartup(bytes) = SubSeq(bytes, d + 1, Len(bytes))
                                 /\ Len(bytes) - d <= StartupLimit
  BY TrimProperties
<1>2. Len(bytes) \in Nat
  BY LenProperties
<1> QED BY <1>1, <1>2, SubSeqProperties, CapacityAssumption

(* What the sequence operators return, for the buffers of this module.     *)
LEMMA NewBytesType ==
  ASSUME NEW k \in Nat, rx \in Nat
  PROVE  NewBytes(k) \in Seq(Byte) /\ Len(NewBytes(k)) = k
<1>1. \A i \in 1..k : [n |-> rx + i, c |-> rx + 1] \in Byte
  BY DEF Byte
<1> QED BY <1>1 DEF NewBytes

(* The positions of a run of bytes are numbers.                            *)
LEMMA PositionsType ==
  ASSUME NEW bytes \in Seq(Byte)
  PROVE  Positions(bytes) \subseteq Nat
<1>1. \A i \in DOMAIN bytes : bytes[i] \in Byte
  BY ElementOfSeq, LenProperties
<1> QED BY <1>1 DEF Positions, Byte

(* The part of the type invariant that publishing can disturb.             *)
SubTypes ==
  /\ startup \in Seq(Byte)
  /\ sender \in [Subs -> {"none", "queued", "held", "gone"}]
  /\ sub \in [Subs -> {"new", "live", "dropped"}]
  /\ chan \in [Subs -> Seq(Event)]
  /\ reason \in [Subs -> {"none", "backlog", "stopped"}]
  /\ seen \in [Subs -> Nat]
  /\ sharedOut \in SUBSET Nat
  /\ lost \in SUBSET Nat

(* A broadcast leaves the subscriptions well typed.                        *)
LEMMA BroadcastType ==
  ASSUME SubTypes, NEW event \in Event, Broadcast(event)
  PROVE  /\ sender' \in [Subs -> {"none", "queued", "held", "gone"}]
         /\ sub' \in [Subs -> {"new", "live", "dropped"}]
         /\ chan' \in [Subs -> Seq(Event)]
         /\ reason' \in [Subs -> {"none", "backlog", "stopped"}]
         /\ seen' \in [Subs -> Nat]
<1>1. \A s \in Subs : Append(chan[s], event) \in Seq(Event)
  BY AppendProperties DEF SubTypes
<1> QED BY <1>1 DEF SubTypes, Broadcast

(* So does the Closed event of an actor that ends.                         *)
LEMMA ClosedType ==
  ASSUME SubTypes, UNCHANGED subVars \/ Broadcast(Closed)
  PROVE  /\ sender' \in [Subs -> {"none", "queued", "held", "gone"}]
         /\ sub' \in [Subs -> {"new", "live", "dropped"}]
         /\ chan' \in [Subs -> Seq(Event)]
         /\ reason' \in [Subs -> {"none", "backlog", "stopped"}]
         /\ seen' \in [Subs -> Nat]
<1>1. Closed \in Event
  BY EmptySeq DEF Closed, Event
<1>2. CASE UNCHANGED subVars
  BY <1>2 DEF SubTypes, subVars
<1>3. CASE Broadcast(Closed)
  BY <1>1, <1>3, BroadcastType
<1> QED BY <1>2, <1>3

(* And what the driver or an owner publishes.                              *)
LEMMA PublishType ==
  ASSUME SubTypes, NEW data \in Seq(Byte), Publish(data)
  PROVE  SubTypes'
<1>1. startup \o data \in Seq(Byte)
  BY ConcatProperties DEF SubTypes
<1>2. CASE data = <<>>
  BY <1>2 DEF Publish, SubTypes, subVars
<1>3. CASE data # <<>> /\ HeldSubs = {}
  BY <1>1, <1>3, TrimType, PositionsType DEF Publish, SubTypes, subVars
<1>4. CASE data # <<>> /\ HeldSubs # {}
  <2>1. Broadcast(data) /\ startup' = startup /\ lost' = lost
        /\ sharedOut' = sharedOut \cup Positions(data)
    BY <1>4 DEF Publish
  <2>2. data \in Event
    BY DEF Event
  <2> QED BY <2>1, <2>2, BroadcastType, PositionsType DEF SubTypes
<1> QED BY <1>2, <1>3, <1>4

(* The actor starts with empty buffers and no subscription.                *)
LEMMA TypeInit == Init => TypeOK
<1> SUFFICES ASSUME Init PROVE TypeOK
  OBVIOUS
<1>1. <<>> \in Seq(Byte) /\ <<>> \in Seq(Command) /\ <<>> \in Seq(Event) /\ Len(<<>>) = 0
  BY EmptySeq
<1>2. cmds \in Seq(Command) /\ Len(cmds) <= CommandCapacity
  BY <1>1, CapacityAssumption DEF Init
<1>3. startup \in Seq(Byte) /\ handoff \in Seq(Byte)
      /\ prefetched \in [Owners -> Seq(Byte)] /\ chan \in [Subs -> Seq(Event)]
  BY <1>1 DEF Init
<1> QED BY <1>2, <1>3 DEF Init, TypeOK

(* Sending and receiving on the command queue.                             *)
LEMMA EnqueueType ==
  ASSUME TypeOK, NEW op, NEW who, [op |-> op, who |-> who] \in Command,
         HasRoom, Enqueue(op, who)
  PROVE  cmds' \in Seq(Command) /\ Len(cmds') <= CommandCapacity
BY AppendProperties, CapacityAssumption DEF TypeOK, HasRoom, Enqueue

(* Taking a command off the queue makes it shorter.                        *)
LEMMA DequeueType ==
  ASSUME TypeOK, NEW op, NEW who, Dequeue(op, who)
  PROVE  cmds' \in Seq(Command) /\ Len(cmds') <= CommandCapacity
BY HeadTailProperties, CapacityAssumption DEF TypeOK, Dequeue

(* Every step leaves the state well typed.                                 *)
LEMMA TypeStep == TypeOK /\ [Next]_vars => TypeOK'
<1> SUFFICES ASSUME TypeOK, [Next]_vars PROVE TypeOK'
  OBVIOUS
<1> USE DEF actorVars, subVars, byteVars
<1>1. ASSUME NEW c \in Callers, CallAdmit(c) PROVE TypeOK'
  BY <1>1 DEF TypeOK, CallAdmit
<1>2. ASSUME NEW c \in Callers, CallSend(c) PROVE TypeOK'
  <2>1. cmds' \in Seq(Command) /\ Len(cmds') <= CommandCapacity
    <3>1. CASE UNCHANGED cmds
      BY <3>1 DEF TypeOK
    <3>2. CASE ~UNCHANGED cmds
      BY <1>2, <3>2, EnqueueType DEF CallSend, Command
    <3> QED BY <3>1, <3>2
  <2>2. call' \in [Callers -> {"idle", "send", "wait"}]
    <3>1. call \in [Callers -> {"idle", "send", "wait"}]
      BY DEF TypeOK
    <3>2. \/ call' = [call EXCEPT ![c] = "idle"]
          \/ call' = [call EXCEPT ![c] = "wait"]
      BY <1>2 DEF CallSend
    <3> QED BY <3>1, <3>2
  <2>3. UNCHANGED <<actorVars, subVars, byteVars, flag, lease, driver, own, closer>>
    BY <1>2 DEF CallSend
  <2> QED BY <2>1, <2>2, <2>3 DEF TypeOK
<1>3. ASSUME NEW o \in Owners, AcquireRequest(o) PROVE TypeOK'
  BY <1>3 DEF TypeOK, AcquireRequest
<1>4. ASSUME NEW o \in Owners, AcquireSend(o) PROVE TypeOK'
  <2>1. cmds' \in Seq(Command) /\ Len(cmds') <= CommandCapacity
    <3>1. CASE UNCHANGED cmds
      BY <3>1 DEF TypeOK
    <3>2. CASE ~UNCHANGED cmds
      BY <1>4, <3>2, EnqueueType DEF AcquireSend, Command
    <3> QED BY <3>1, <3>2
  <2>2. own' \in [Owners -> {"idle", "send", "wait", "failed", "leased",
                            "returning", "returned", "clear"}]
    <3>1. PICK pc \in {"failed", "wait"} : own' = [own EXCEPT ![o] = pc]
      BY <1>4 DEF AcquireSend
    <3> QED BY <3>1 DEF TypeOK
  <2>3. UNCHANGED <<actorVars, subVars, byteVars, flag, lease, driver, call, closer>>
    BY <1>4 DEF AcquireSend
  <2> QED BY <2>1, <2>2, <2>3 DEF TypeOK
<1>5. ASSUME NEW o \in Owners, AcquireFail(o) PROVE TypeOK'
  BY ZenonT(60), <1>5 DEF TypeOK, AcquireFail
<1>6. ASSUME NEW o \in Owners, LeaseRead(o) PROVE TypeOK'
  <2>1. prefetched[o] \in Seq(Byte) /\ Len(prefetched[o]) \in Nat
    BY LenProperties DEF TypeOK
  <2>2. \A k \in 1..Len(prefetched[o]) :
          /\ SubSeq(prefetched[o], 1, k) \in Seq(Byte)
          /\ SubSeq(prefetched[o], k + 1, Len(prefetched[o])) \in Seq(Byte)
    BY <2>1, SubSeqProperties, ElementOfSeq
  <2>3. \A k \in 1..MaxChunk : Positions(NewBytes(k)) \subseteq Nat
    BY NewBytesType, PositionsType, CapacityAssumption DEF TypeOK
  <2>4. \A k \in 1..Len(prefetched[o]) :
          Positions(SubSeq(prefetched[o], 1, k)) \subseteq Nat
    BY <2>2, PositionsType
  <2>5. leaseOut' \in SUBSET Nat
    BY <1>6, <2>3, <2>4 DEF TypeOK, LeaseRead
  <2>6. prefetched' \in [Owners -> Seq(Byte)]
    BY <1>6, <2>2 DEF TypeOK, LeaseRead
  <2>7. rx' \in Nat
    BY <1>6, CapacityAssumption DEF TypeOK, LeaseRead
  <2>8. UNCHANGED <<actorVars, subVars, startup, handoff, sharedOut, lost, cmds, flag,
                    lease, driver, call, own, closer>>
    BY <1>6 DEF LeaseRead
  <2> QED BY <2>5, <2>6, <2>7, <2>8 DEF TypeOK
<1>7. ASSUME NEW o \in Owners, ReleaseBegin(o) PROVE TypeOK'
  BY <1>7 DEF TypeOK, ReleaseBegin
<1>8. ASSUME NEW o \in Owners, ReleaseSend(o) PROVE TypeOK'
  <2>1. cmds' \in Seq(Command) /\ Len(cmds') <= CommandCapacity
    <3>1. CASE UNCHANGED cmds
      BY <3>1 DEF TypeOK
    <3>2. CASE ~UNCHANGED cmds
      BY <1>8, <3>2, EnqueueType DEF ReleaseSend, Command
    <3> QED BY <3>1, <3>2
  <2>2. PICK pc \in {"idle", "returned"} : own' = [own EXCEPT ![o] = pc]
    BY <1>8 DEF ReleaseSend
  <2>3. own' \in [Owners -> {"idle", "send", "wait", "failed", "leased",
                            "returning", "returned", "clear"}]
    BY <2>2 DEF TypeOK
  <2>4. /\ driver' \in {"queue", "gone"}
        /\ shut' \in {shut, TRUE} /\ flag' \in {flag, FALSE}
    BY <1>8 DEF ReleaseSend
  <2>5. /\ driver' \in Owners \cup {"actor", "queue", "gone"}
        /\ shut' \in BOOLEAN /\ flag' \in BOOLEAN
    BY <2>4 DEF TypeOK
  <2>6. UNCHANGED <<actor, shutdownPending, connected, subVars, byteVars, lease, call, closer>>
    BY <1>8 DEF ReleaseSend
  <2> QED BY <2>1, <2>3, <2>5, <2>6 DEF TypeOK
<1>9. ASSUME NEW o \in Owners, ReleaseClear(o) PROVE TypeOK'
  BY ZenonT(60), <1>9 DEF TypeOK, ReleaseClear
<1>10. ASSUME NEW s \in Subs, Subscribe(s) PROVE TypeOK'
  <2>1. cmds' \in Seq(Command) /\ Len(cmds') <= CommandCapacity
    <3>1. CASE UNCHANGED cmds
      BY <3>1 DEF TypeOK
    <3>2. CASE ~UNCHANGED cmds
      BY <1>10, <3>2, EnqueueType DEF Subscribe, Command
    <3> QED BY <3>1, <3>2
  <2>2. sub' = [sub EXCEPT ![s] = "live"] /\ sender' = [sender EXCEPT ![s] = "queued"]
    BY <1>10 DEF Subscribe
  <2>3. /\ sub' \in [Subs -> {"new", "live", "dropped"}]
        /\ sender' \in [Subs -> {"none", "queued", "held", "gone"}]
    BY <2>2 DEF TypeOK
  <2>4. UNCHANGED <<actorVars, byteVars, chan, reason, seen, flag, lease, driver, call, own,
                    closer>>
    BY <1>10 DEF Subscribe
  <2> QED BY <2>1, <2>3, <2>4 DEF TypeOK
<1>11. ASSUME NEW s \in Subs, Receive(s) PROVE TypeOK'
  <2>1. chan[s] \in Seq(Event) /\ Head(chan[s]) \in Event /\ Tail(chan[s]) \in Seq(Event)
    BY <1>11, HeadTailProperties DEF TypeOK, Receive
  <2>2. ASSUME Head(chan[s]) # Closed
        PROVE  Head(chan[s])[Len(Head(chan[s]))].n \in Nat
    <3>1. Len(Head(chan[s])) \in 1..Len(Head(chan[s]))
      BY <2>1, <2>2, EmptySeq, LenProperties DEF Event, Closed
    <3>2. Head(chan[s]) \in Seq(Byte)
      BY <2>1 DEF Event
    <3>3. Head(chan[s])[Len(Head(chan[s]))] \in Byte
      BY <3>1, <3>2, ElementOfSeq
    <3> QED BY <3>3 DEF Byte
  <2>3. chan' \in [Subs -> Seq(Event)]
    BY <1>11, <2>1 DEF TypeOK, Receive
  <2>4. seen' \in [Subs -> Nat]
    BY <1>11, <2>2 DEF TypeOK, Receive
  <2>5. UNCHANGED <<actorVars, byteVars, sender, sub, reason, cmds, flag, lease, driver,
                    call, own, closer>>
    BY <1>11 DEF Receive
  <2> QED BY SMTT(30), <2>3, <2>4, <2>5 DEF TypeOK
<1>12. ASSUME NEW s \in Subs, DropSubscription(s) PROVE TypeOK'
  <2>1. cmds' \in Seq(Command) /\ Len(cmds') <= CommandCapacity
    <3>1. CASE UNCHANGED cmds
      BY <3>1 DEF TypeOK
    <3>2. CASE ~UNCHANGED cmds
      BY <1>12, <3>2, EnqueueType DEF DropSubscription, Command
    <3> QED BY <3>1, <3>2
  <2>2. sub' = [sub EXCEPT ![s] = "dropped"] /\ chan' = [chan EXCEPT ![s] = <<>>]
    BY <1>12 DEF DropSubscription
  <2>3. /\ sub' \in [Subs -> {"new", "live", "dropped"}]
        /\ chan' \in [Subs -> Seq(Event)]
    BY <2>2, EmptySeq DEF TypeOK
  <2>4. UNCHANGED <<actorVars, byteVars, sender, reason, seen, flag, lease, driver, call, own,
                    closer>>
    BY <1>12 DEF DropSubscription
  <2> QED BY SMTT(30), <2>1, <2>3, <2>4 DEF TypeOK
<1>13. ASSUME NEW k \in Closers, Shutdown(k) PROVE TypeOK'
  <2>1. cmds' \in Seq(Command) /\ Len(cmds') <= CommandCapacity
    <3>1. CASE UNCHANGED cmds
      BY <3>1 DEF TypeOK
    <3>2. CASE ~UNCHANGED cmds
      BY <1>13, <3>2, EnqueueType DEF Shutdown, Command
    <3> QED BY <3>1, <3>2
  <2>2. closer' = [closer EXCEPT ![k] = "done"] \/ closer' = [closer EXCEPT ![k] = "wait"]
    BY <1>13 DEF Shutdown
  <2>3. closer' \in [Closers -> {"idle", "wait", "done"}]
    BY <2>2 DEF TypeOK
  <2>4. UNCHANGED <<actorVars, subVars, byteVars, flag, lease, driver, call, own>>
    BY <1>13 DEF Shutdown
  <2> QED BY <2>1, <2>3, <2>4 DEF TypeOK
<1>14. ASSUME ActorTop PROVE TypeOK'
  <2>1. SubTypes'
    BY <1>14, PublishType DEF TypeOK, ActorTop, SubTypes
  <2>2. handoff' \in Seq(Byte)
    BY <1>14, EmptySeq DEF TypeOK, ActorTop
  <2>3. /\ actor' \in {"recv", "drain"}
        /\ UNCHANGED <<prefetched, rx, leaseOut>>
        /\ UNCHANGED <<shutdownPending, connected, shut, cmds, flag, lease, driver, call, own,
                       closer>>
    BY <1>14 DEF ActorTop
  <2> QED BY <2>1, <2>2, <2>3 DEF TypeOK, SubTypes
<1>15. ASSUME ActorQueueEmpty PROVE TypeOK'
  BY <1>15 DEF TypeOK, ActorQueueEmpty
<1>16. ASSUME ActorUnflag PROVE TypeOK'
  BY <1>16 DEF TypeOK, ActorUnflag
<1>17. ASSUME NEW k \in 1..MaxChunk, ReadData(k) PROVE TypeOK'
  <2>1. NewBytes(k) \in Seq(Byte)
    BY NewBytesType, CapacityAssumption DEF TypeOK
  <2>2. SubTypes'
    BY <1>17, <2>1, PublishType DEF TypeOK, ReadData, SubTypes
  <2>3. handoff \o NewBytes(k) \in Seq(Byte) /\ rx + k \in Nat
    BY <2>1, ConcatProperties, CapacityAssumption DEF TypeOK
  <2>4. handoff' \in Seq(Byte) /\ rx' \in Nat /\ actor' = "top"
    BY <1>17, <2>3 DEF TypeOK, ReadData
  <2>5. UNCHANGED <<shutdownPending, connected, shut, prefetched, leaseOut, cmds, flag, lease,
                    driver, call, own, closer>>
    BY <1>17 DEF ReadData
  <2> QED BY <2>2, <2>4, <2>5 DEF TypeOK, SubTypes
<1>18. ASSUME ReadIdle PROVE TypeOK'
  BY <1>18 DEF TypeOK, ReadIdle
<1>19. ASSUME ReadFail PROVE TypeOK'
  <2>1. SubTypes
    BY DEF TypeOK, SubTypes
  <2>2. /\ actor' \in {"exit", "unwind"}
        /\ UNCHANGED subVars \/ Broadcast(Closed)
        /\ UNCHANGED <<shutdownPending, connected, shut, byteVars, cmds, flag, lease, driver,
                       call, own, closer>>
    BY <1>19 DEF ReadFail
  <2>3. /\ sender' \in [Subs -> {"none", "queued", "held", "gone"}]
        /\ sub' \in [Subs -> {"new", "live", "dropped"}]
        /\ chan' \in [Subs -> Seq(Event)]
        /\ reason' \in [Subs -> {"none", "backlog", "stopped"}]
        /\ seen' \in [Subs -> Nat]
    BY <2>1, <2>2, ClosedType
  <2> QED BY <2>2, <2>3 DEF TypeOK
<1>20. ASSUME NEW c \in Callers, ExecIo(c) PROVE TypeOK'
  <2>1. SubTypes
    BY DEF TypeOK, SubTypes
  <2>2. cmds' \in Seq(Command) /\ Len(cmds') <= CommandCapacity
    BY <1>20, DequeueType DEF ExecIo
  <2>3. call' = [call EXCEPT ![c] = "idle"]
    BY <1>20 DEF ExecIo
  <2>4. /\ actor' \in {"top", "drain", "exit", "unwind"}
        /\ UNCHANGED subVars \/ Broadcast(Closed)
        /\ UNCHANGED <<shutdownPending, connected, shut, byteVars, flag, lease, driver, own,
                       closer>>
    BY <1>20 DEF ExecIo, Continue
  <2>5. /\ sender' \in [Subs -> {"none", "queued", "held", "gone"}]
        /\ sub' \in [Subs -> {"new", "live", "dropped"}]
        /\ chan' \in [Subs -> Seq(Event)]
        /\ reason' \in [Subs -> {"none", "backlog", "stopped"}]
        /\ seen' \in [Subs -> Nat]
    BY <2>1, <2>4, ClosedType
  <2>6. call' \in [Callers -> {"idle", "send", "wait"}]
    BY <2>3 DEF TypeOK
  <2> QED BY <2>2, <2>4, <2>5, <2>6 DEF TypeOK
<1>21. ASSUME NEW s \in Subs, ExecSubscribe(s) PROVE TypeOK'
  <2>1. Append(chan[s], startup) \in Seq(Event)
    BY AppendProperties DEF TypeOK, Event
  <2>2. Positions(startup) \subseteq Nat
    BY PositionsType DEF TypeOK
  <2>3. cmds' \in Seq(Command) /\ Len(cmds') <= CommandCapacity
    BY <1>21, DequeueType DEF ExecSubscribe
  <2>4. sender' \in [Subs -> {"none", "queued", "held", "gone"}]
    BY <1>21 DEF TypeOK, ExecSubscribe
  <2>5. chan' \in [Subs -> Seq(Event)]
    BY <1>21, <2>1 DEF TypeOK, ExecSubscribe
  <2>6. sharedOut' \in SUBSET Nat /\ lost' \in SUBSET Nat
    BY <1>21, <2>2 DEF TypeOK, ExecSubscribe
  <2>7. /\ startup' = <<>> /\ <<>> \in Seq(Byte) /\ actor' \in {"top", "drain"}
        /\ UNCHANGED <<shutdownPending, connected, shut, sub, reason, seen, handoff,
                        prefetched, rx, leaseOut, flag, lease, driver, call, own, closer>>
    BY <1>21, EmptySeq DEF ExecSubscribe, Continue
  <2> QED BY <2>3, <2>4, <2>5, <2>6, <2>7 DEF TypeOK
<1>22. ASSUME NEW s \in Subs, ExecUnsubscribe(s) PROVE TypeOK'
  <2>1. cmds' \in Seq(Command) /\ Len(cmds') <= CommandCapacity
    BY <1>22, DequeueType DEF ExecUnsubscribe
  <2>2. sender' \in [Subs -> {"none", "queued", "held", "gone"}]
    BY <1>22 DEF TypeOK, ExecUnsubscribe
  <2>3. /\ actor' \in {"top", "drain"}
        /\ UNCHANGED <<shutdownPending, connected, shut, sub, chan, reason, seen, byteVars,
                       flag, lease, driver, call, own, closer>>
    BY <1>22 DEF ExecUnsubscribe, Continue
  <2> QED BY <2>1, <2>2, <2>3 DEF TypeOK
<1>23. ASSUME NEW o \in Owners, ExecAcquire(o) PROVE TypeOK'
  <2>1. startup \o handoff \in Seq(Byte)
    BY ConcatProperties DEF TypeOK
  <2>2. cmds' \in Seq(Command) /\ Len(cmds') <= CommandCapacity
    BY <1>23, DequeueType DEF ExecAcquire
  <2>3. startup' \in Seq(Byte) /\ handoff' \in Seq(Byte)
    <3>1. <<>> \in Seq(Byte)
      BY EmptySeq
    <3> QED BY <1>23, <3>1 DEF TypeOK, ExecAcquire
  <2>4. prefetched' \in [Owners -> Seq(Byte)]
    BY <1>23, <2>1 DEF TypeOK, ExecAcquire, TakeUnconsumed
  <2>5. PICK pc \in {"failed", "leased"} : own' = [own EXCEPT ![o] = pc]
    BY <1>23 DEF ExecAcquire
  <2>6. own' \in [Owners -> {"idle", "send", "wait", "failed", "leased",
                            "returning", "returned", "clear"}]
    BY <2>5 DEF TypeOK
  <2>7. actor' \in {"unflag", "top"} /\ lease' \in {lease, o} /\ driver' \in {driver, o}
    BY <1>23 DEF ExecAcquire
  <2>8. lease' \in Owners \cup {None} /\ driver' \in Owners \cup {"actor", "queue", "gone"}
    BY <2>7 DEF TypeOK
  <2>9. /\ actor' \in {"unflag", "top"}
        /\ UNCHANGED <<rx, leaseOut, sharedOut, lost>>
        /\ UNCHANGED <<shutdownPending, connected, shut, subVars, flag, call, closer>>
    BY <1>23 DEF ExecAcquire
  <2> QED BY <2>2, <2>3, <2>4, <2>6, <2>8, <2>9 DEF TypeOK
<1>24. ASSUME NEW o \in Owners, ExecReturn(o) PROVE TypeOK'
  <2>1. prefetched[o] \o handoff \in Seq(Byte)
    BY ConcatProperties DEF TypeOK
  <2>2. cmds' \in Seq(Command) /\ Len(cmds') <= CommandCapacity
    BY <1>24, DequeueType DEF ExecReturn
  <2>3. /\ handoff' = prefetched[o] \o handoff
        /\ prefetched' = [prefetched EXCEPT ![o] = <<>>]
        /\ own' = [own EXCEPT ![o] = "clear"]
    BY <1>24 DEF ExecReturn, RestoreUnconsumed
  <2>4. shut' \in BOOLEAN /\ actor' \in {"exit", "top", "drain"}
    BY <1>24 DEF TypeOK, ExecReturn, ReturnOutcome, Continue
  <2>5. /\ prefetched' \in [Owners -> Seq(Byte)] /\ handoff' \in Seq(Byte)
        /\ own' \in [Owners -> {"idle", "send", "wait", "failed", "leased",
                               "returning", "returned", "clear"}]
    BY <2>1, <2>3, EmptySeq DEF TypeOK
  <2>6. /\ driver' = "actor" /\ lease' = None /\ flag' = FALSE
        /\ UNCHANGED <<shutdownPending, connected, subVars, startup, rx, leaseOut, sharedOut,
                       lost, call, closer>>
    BY <1>24 DEF ExecReturn, RestoreUnconsumed
  <2> QED BY <2>2, <2>4, <2>5, <2>6 DEF TypeOK
<1>25. ASSUME NEW k \in Closers, ExecShutdown(k) PROVE TypeOK'
  <2>1. cmds' \in Seq(Command) /\ Len(cmds') <= CommandCapacity
    BY <1>25, DequeueType DEF ExecShutdown
  <2>2. closer' \in [Closers -> {"idle", "wait", "done"}]
    BY <1>25 DEF TypeOK, ExecShutdown
  <2>3. /\ actor' \in {"top", "drain", "exit"}
        /\ shut' \in BOOLEAN /\ shutdownPending' \in BOOLEAN
        /\ UNCHANGED <<connected, subVars, byteVars, flag, lease, driver, call, own>>
    BY <1>25 DEF TypeOK, ExecShutdown, Continue
  <2> QED BY <2>1, <2>2, <2>3 DEF TypeOK
<1>26. ASSUME ActorExit PROVE TypeOK'
  <2>1. reason' \in [Subs -> {"none", "backlog", "stopped"}]
    BY <1>26 DEF TypeOK, ActorExit
  <2>2. /\ actor' = "unwind" /\ flag' = FALSE /\ connected' = FALSE /\ shut' = TRUE
        /\ UNCHANGED <<shutdownPending, sender, sub, chan, seen, byteVars, cmds, lease, driver,
                       call, own, closer>>
    BY <1>26 DEF ActorExit
  <2> QED BY <2>1, <2>2 DEF TypeOK
<1>27. ASSUME GuardDrop PROVE TypeOK'
  BY <1>27 DEF TypeOK, GuardDrop
<1>28. ASSUME DropState PROVE TypeOK'
  <2>1. startup \o handoff \in Seq(Byte)
    BY ConcatProperties DEF TypeOK
  <2>2. Positions(startup \o handoff) \subseteq Nat
    BY <2>1, PositionsType
  <2>3. cmds' \in Seq(Command) /\ Len(cmds') <= CommandCapacity
        /\ startup' \in Seq(Byte) /\ handoff' \in Seq(Byte)
    BY <1>28, EmptySeq, CapacityAssumption DEF DropState
  <2>4. lost' \in SUBSET Nat /\ sender' \in [Subs -> {"none", "queued", "held", "gone"}]
        /\ call' \in [Callers -> {"idle", "send", "wait"}]
        /\ closer' \in [Closers -> {"idle", "wait", "done"}]
    BY <1>28, <2>2 DEF TypeOK, DropState
  <2>5. own' \in [Owners -> {"idle", "send", "wait", "failed", "leased",
                            "returning", "returned", "clear"}]
    BY <1>28 DEF TypeOK, DropState
  <2>6. /\ actor' = "done" /\ driver' \in Owners \cup {"actor", "queue", "gone"}
        /\ UNCHANGED <<shutdownPending, connected, shut, sub, chan, reason, seen, prefetched,
                       rx, leaseOut, sharedOut, flag, lease>>
    BY <1>28 DEF TypeOK, DropState
  <2> QED BY <2>3, <2>4, <2>5, <2>6 DEF TypeOK
<1>29. CASE UNCHANGED vars
  BY <1>29 DEF TypeOK, vars
<1> QED BY <1>1, <1>2, <1>3, <1>4, <1>5, <1>6, <1>7, <1>8, <1>9, <1>10, <1>11, <1>12, <1>13, <1>14, <1>15, <1>16, <1>17, <1>18, <1>19, <1>20, <1>21, <1>22, <1>23, <1>24, <1>25, <1>26, <1>27, <1>28, <1>29
       DEF Next, ActorStep, CallerStep, OwnerStep, SubStep

(* Every variable keeps its type, and the command queue its bound: no      *)
(* sender gets past the capacity of the sync_channel.                      *)
THEOREM TypeCorrect == Spec => []TypeOK
BY TypeInit, TypeStep, PTL DEF Spec

-----------------------------------------------------------------------------
(* Ownership of the driver.  DriverOwnership is not inductive: to know that *)
(* a command the actor takes from its queue agrees with the owner that sent *)
(* it, the queue has to be part of the invariant.                           *)

Ownership == {"acquire", "return"}

(* A queued acquisition has its owner waiting for it, a queued return comes *)
(* from an owner waiting for its acknowledgement; none is there twice.      *)
QueueInv ==
  /\ \A i \in DOMAIN cmds :
       /\ cmds[i].op = "acquire" => own[cmds[i].who] = "wait"
       /\ cmds[i].op = "return" => own[cmds[i].who] = "returned"
  /\ \A i, j \in DOMAIN cmds : cmds[i] = cmds[j] /\ cmds[i].op \in Ownership => i = j
  /\ \A o \in Owners : own[o] = "returned" =>
       \E i \in DOMAIN cmds : cmds[i] = [op |-> "return", who |-> o]

(* The actor's lease names the owner that has the driver or has sent it     *)
(* back, and the actor stays in its blocking loop meanwhile.                *)
LeaseInv ==
  /\ \A o \in Owners : own[o] \in {"leased", "returning", "returned"} <=> lease = o
  /\ lease = None => driver = IF actor = "done" THEN "gone" ELSE "actor"
  /\ \A o \in Owners : lease = o => driver = IF own[o] = "returned" THEN "queue" ELSE o
  /\ lease # None => actor \in {"top", "recv", "unflag"}

OwnershipInv == TypeOK /\ QueueInv /\ LeaseInv

(* The command at a place of the queue, by its fields; a lease command     *)
(* names an owner.                                                         *)
LEMMA CommandFields ==
  ASSUME TypeOK, NEW i \in DOMAIN cmds
  PROVE  /\ cmds[i] = [op |-> cmds[i].op, who |-> cmds[i].who]
         /\ cmds[i].op \in Ownership => cmds[i].who \in Owners
<1>1. cmds[i] \in Command
  BY ElementOfSeq, LenProperties DEF TypeOK
<1> QED BY <1>1 DEF Command, Ownership

(* How the queue changes when a command is sent and when one is taken.     *)
LEMMA EnqueueEffect ==
  ASSUME TypeOK, NEW op, NEW who, Enqueue(op, who)
  PROVE  /\ Len(cmds) \in Nat
         /\ DOMAIN cmds = 1..Len(cmds) /\ DOMAIN cmds' = 1..Len(cmds) + 1
         /\ \A i \in DOMAIN cmds : cmds'[i] = cmds[i]
         /\ cmds'[Len(cmds) + 1] = [op |-> op, who |-> who]
<1>1. cmds \in Seq(Command \cup {[op |-> op, who |-> who]})
  BY SeqMonotonic DEF TypeOK
<1> QED BY <1>1, AppendProperties, LenProperties DEF Enqueue

(* What is left of the command queue: every later command, one place       *)
(* further on.                                                             *)
LEMMA DequeueEffect ==
  ASSUME TypeOK, NEW op, NEW who, Dequeue(op, who)
  PROVE  /\ Len(cmds) \in Nat \ {0}
         /\ DOMAIN cmds = 1..Len(cmds) /\ DOMAIN cmds' = 1..Len(cmds) - 1
         /\ \A i \in DOMAIN cmds' : cmds'[i] = cmds[i + 1]
         /\ cmds[1] = [op |-> op, who |-> who]
<1>1. cmds \in Seq(Command) /\ cmds # <<>>
  BY DEF TypeOK, Dequeue
<1>2. Len(cmds) \in Nat \ {0} /\ DOMAIN cmds = 1..Len(cmds)
  BY <1>1, EmptySeq, LenProperties
<1>3. /\ Tail(cmds) \in Seq(Command) /\ Len(Tail(cmds)) = Len(cmds) - 1
      /\ \A i \in 1..Len(Tail(cmds)) : Tail(cmds)[i] = cmds[i + 1]
      /\ Head(cmds) = cmds[1]
  BY <1>1, HeadTailProperties
<1> QED BY <1>1, <1>2, <1>3, LenProperties DEF Dequeue

(* Commands that have nothing to do with ownership leave QueueInv alone.   *)
LEMMA EnqueueOther ==
  ASSUME TypeOK, QueueInv, NEW op, NEW who, op \notin Ownership, Enqueue(op, who),
         own' = own
  PROVE  QueueInv'
<1>1. /\ Len(cmds) \in Nat
      /\ DOMAIN cmds = 1..Len(cmds) /\ DOMAIN cmds' = 1..Len(cmds) + 1
      /\ \A i \in DOMAIN cmds : cmds'[i] = cmds[i]
      /\ cmds'[Len(cmds) + 1] = [op |-> op, who |-> who]
  BY EnqueueEffect
<1> QED BY <1>1 DEF QueueInv, Ownership

(* Taking a command that is about no lease keeps the order of the lease    *)
(* commands.                                                               *)
LEMMA DequeueOther ==
  ASSUME TypeOK, QueueInv, NEW op, NEW who, op \notin Ownership, Dequeue(op, who),
         own' = own
  PROVE  QueueInv'
<1>1. /\ Len(cmds) \in Nat \ {0}
      /\ DOMAIN cmds = 1..Len(cmds) /\ DOMAIN cmds' = 1..Len(cmds) - 1
      /\ \A i \in DOMAIN cmds' : cmds'[i] = cmds[i + 1]
      /\ cmds[1] = [op |-> op, who |-> who]
  BY DequeueEffect
<1>2. \A i \in DOMAIN cmds' : i + 1 \in DOMAIN cmds /\ i \in Nat
  BY <1>1
<1>3. \A o \in Owners : own[o] = "returned" =>
        \E i \in DOMAIN cmds' : cmds'[i] = [op |-> "return", who |-> o]
  <2> SUFFICES ASSUME NEW o \in Owners, own[o] = "returned"
               PROVE  \E i \in DOMAIN cmds' : cmds'[i] = [op |-> "return", who |-> o]
    OBVIOUS
  <2>1. PICK j \in DOMAIN cmds : cmds[j] = [op |-> "return", who |-> o]
    BY DEF QueueInv
  <2>2. j # 1
    BY <1>1, <2>1 DEF Ownership
  <2>3. j - 1 \in DOMAIN cmds' /\ (j - 1) + 1 = j
    BY <1>1, <2>2
  <2>4. cmds'[j - 1] = cmds[j]
    BY <1>1, <2>3
  <2> QED BY <2>1, <2>3, <2>4
<1> QED BY <1>1, <1>2, <1>3 DEF QueueInv

(* An owner step that sends nothing and is not about waiting does too.     *)
LEMMA OwnerMoves ==
  ASSUME TypeOK, QueueInv, NEW o \in Owners, NEW pc, cmds' = cmds,
         own[o] \notin {"wait", "returned"}, pc # "returned",
         own' = [own EXCEPT ![o] = pc]
  PROVE  QueueInv'
<1>1. \A i \in DOMAIN cmds : cmds[i].op \in Ownership => cmds[i].who \in Owners \ {o}
  BY CommandFields DEF QueueInv, Ownership
<1> QED BY <1>1 DEF QueueInv, TypeOK, Ownership

(* Sending a command of ownership: its owner was not waiting before.       *)
LEMMA EnqueueOwnership ==
  ASSUME TypeOK, QueueInv, NEW o \in Owners, NEW op \in Ownership, Enqueue(op, o),
         own[o] \notin {"wait", "returned"},
         own' = [own EXCEPT ![o] = IF op = "acquire" THEN "wait" ELSE "returned"]
  PROVE  QueueInv'
<1>1. /\ Len(cmds) \in Nat
      /\ DOMAIN cmds = 1..Len(cmds) /\ DOMAIN cmds' = 1..Len(cmds) + 1
      /\ \A i \in DOMAIN cmds : cmds'[i] = cmds[i]
      /\ cmds'[Len(cmds) + 1] = [op |-> op, who |-> o]
  BY EnqueueEffect
<1>2. \A i \in DOMAIN cmds : cmds[i].op \in Ownership => cmds[i].who \in Owners \ {o}
  BY CommandFields DEF QueueInv, Ownership
<1>3. own \in [Owners -> {"idle", "send", "wait", "failed", "leased", "returning",
                           "returned", "clear"}]
  BY DEF TypeOK
<1>4. \A i \in DOMAIN cmds' : /\ cmds'[i].op = "acquire" => own'[cmds'[i].who] = "wait"
                              /\ cmds'[i].op = "return" => own'[cmds'[i].who] = "returned"
  <2> TAKE i \in DOMAIN cmds'
  <2>1. CASE i \in DOMAIN cmds
    BY <1>1, <1>2, <1>3, <2>1 DEF QueueInv, Ownership
  <2>2. CASE i = Len(cmds) + 1
    BY <1>1, <1>3, <2>2 DEF Ownership
  <2> QED BY <1>1, <2>1, <2>2
<1>5. \A i, j \in DOMAIN cmds' :
        cmds'[i] = cmds'[j] /\ cmds'[i].op \in Ownership => i = j
  BY <1>1, <1>2 DEF QueueInv
<1>6. \A p \in Owners : own'[p] = "returned" =>
        \E i \in DOMAIN cmds' : cmds'[i] = [op |-> "return", who |-> p]
  <2> SUFFICES ASSUME NEW p \in Owners, own'[p] = "returned"
               PROVE  \E i \in DOMAIN cmds' : cmds'[i] = [op |-> "return", who |-> p]
    OBVIOUS
  <2>1. CASE p = o
    BY <1>1, <1>3, <2>1 DEF Ownership
  <2>2. CASE p # o
    BY <1>1, <1>3, <2>2 DEF QueueInv
  <2> QED BY <2>1, <2>2
<1> QED BY <1>4, <1>5, <1>6 DEF QueueInv

(* Taking one: it was the only one of its owner.                           *)
LEMMA DequeueOwnership ==
  ASSUME TypeOK, QueueInv, NEW o \in Owners, NEW op \in Ownership, Dequeue(op, o),
         NEW pc, pc \notin {"wait", "returned"}, own' = [own EXCEPT ![o] = pc]
  PROVE  /\ QueueInv'
         /\ own[o] = IF op = "acquire" THEN "wait" ELSE "returned"
<1>1. /\ Len(cmds) \in Nat \ {0}
      /\ DOMAIN cmds = 1..Len(cmds) /\ DOMAIN cmds' = 1..Len(cmds) - 1
      /\ \A i \in DOMAIN cmds' : cmds'[i] = cmds[i + 1]
      /\ cmds[1] = [op |-> op, who |-> o]
  BY DequeueEffect
<1>2. own[o] = IF op = "acquire" THEN "wait" ELSE "returned"
  BY <1>1 DEF QueueInv, Ownership
<1>3. \A i \in DOMAIN cmds' : i + 1 \in DOMAIN cmds /\ i + 1 # 1 /\ i \in Nat
  BY <1>1
<1>4. \A i \in DOMAIN cmds : i # 1 /\ cmds[i].op \in Ownership
                             => cmds[i].who \in Owners \ {o}
  <2> SUFFICES ASSUME NEW i \in DOMAIN cmds, i # 1, cmds[i].op \in Ownership,
                      cmds[i].who = o
               PROVE  FALSE
    BY CommandFields
  <2>1. cmds[i].op = op
    BY <1>2 DEF QueueInv, Ownership
  <2>2. cmds[i] = cmds[1]
    BY <1>1, <2>1, CommandFields
  <2> QED BY <1>1, <2>2 DEF QueueInv
<1>5. \A p \in Owners : own'[p] = "returned" =>
        \E i \in DOMAIN cmds' : cmds'[i] = [op |-> "return", who |-> p]
  <2> SUFFICES ASSUME NEW p \in Owners, own'[p] = "returned"
               PROVE  \E i \in DOMAIN cmds' : cmds'[i] = [op |-> "return", who |-> p]
    OBVIOUS
  <2>1. p # o /\ own[p] = "returned"
    BY DEF TypeOK
  <2>2. PICK j \in DOMAIN cmds : cmds[j] = [op |-> "return", who |-> p]
    BY <2>1 DEF QueueInv
  <2>3. j # 1
    BY <1>1, <2>1, <2>2
  <2>4. j - 1 \in DOMAIN cmds' /\ (j - 1) + 1 = j
    BY <1>1, <2>3
  <2>5. cmds'[j - 1] = cmds[j]
    BY <1>1, <2>4
  <2> QED BY <2>2, <2>4, <2>5
<1>6. \A i \in DOMAIN cmds' : /\ cmds'[i].op = "acquire" => own'[cmds'[i].who] = "wait"
                              /\ cmds'[i].op = "return" => own'[cmds'[i].who] = "returned"
  BY <1>1, <1>3, <1>4 DEF QueueInv, TypeOK, Ownership
<1>7. \A i, j \in DOMAIN cmds' :
        cmds'[i] = cmds'[j] /\ cmds'[i].op \in Ownership => i = j
  BY <1>1, <1>3 DEF QueueInv
<1> QED BY <1>2, <1>5, <1>6, <1>7 DEF QueueInv

(* Every step keeps one acquire and one return of each owner in the queue  *)
(* at most, in turn.                                                       *)
LEMMA QueueStep == OwnershipInv /\ [Next]_vars => QueueInv'
<1> SUFFICES ASSUME OwnershipInv, [Next]_vars PROVE QueueInv'
  OBVIOUS
<1> USE DEF actorVars, subVars, byteVars
<1>1. ASSUME NEW c \in Callers, CallAdmit(c) PROVE QueueInv'
  BY <1>1 DEF CallAdmit, OwnershipInv, QueueInv
<1>2. ASSUME NEW c \in Callers, CallSend(c) PROVE QueueInv'
  <2>1. CASE UNCHANGED cmds
    BY <1>2, <2>1 DEF CallSend, OwnershipInv, QueueInv
  <2>2. CASE ~UNCHANGED cmds
    BY <1>2, <2>2, EnqueueOther DEF CallSend, OwnershipInv, Ownership
  <2> QED BY <2>1, <2>2
<1>3. ASSUME NEW o \in Owners, AcquireRequest(o) PROVE QueueInv'
  BY <1>3, OwnerMoves DEF AcquireRequest, OwnershipInv
<1>4. ASSUME NEW o \in Owners, AcquireSend(o) PROVE QueueInv'
  <2>1. CASE actor = "done"
    BY <1>4, <2>1, OwnerMoves DEF AcquireSend, OwnershipInv
  <2>2. CASE actor # "done"
    <3>1. Enqueue("acquire", o) /\ own[o] = "send" /\ own' = [own EXCEPT ![o] = "wait"]
      BY <1>4, <2>2 DEF AcquireSend
    <3> QED BY <3>1, EnqueueOwnership DEF OwnershipInv, Ownership
  <2> QED BY <2>1, <2>2
<1>5. ASSUME NEW o \in Owners, AcquireFail(o) PROVE QueueInv'
  BY <1>5, OwnerMoves DEF AcquireFail, OwnershipInv
<1>6. ASSUME NEW o \in Owners, LeaseRead(o) PROVE QueueInv'
  BY <1>6 DEF LeaseRead, OwnershipInv, QueueInv
<1>7. ASSUME NEW o \in Owners, ReleaseBegin(o) PROVE QueueInv'
  BY <1>7, OwnerMoves DEF ReleaseBegin, OwnershipInv
<1>8. ASSUME NEW o \in Owners, ReleaseSend(o) PROVE QueueInv'
  <2>1. CASE actor = "done"
    BY <1>8, <2>1, OwnerMoves DEF ReleaseSend, OwnershipInv
  <2>2. CASE actor # "done"
    <3>1. /\ Enqueue("return", o) /\ own[o] = "returning"
          /\ own' = [own EXCEPT ![o] = "returned"]
      BY <1>8, <2>2 DEF ReleaseSend
    <3> QED BY <3>1, EnqueueOwnership DEF OwnershipInv, Ownership
  <2> QED BY <2>1, <2>2
<1>9. ASSUME NEW o \in Owners, ReleaseClear(o) PROVE QueueInv'
  BY <1>9, OwnerMoves DEF ReleaseClear, OwnershipInv
<1>10. ASSUME NEW s \in Subs, Subscribe(s) PROVE QueueInv'
  <2>1. CASE UNCHANGED cmds
    BY <1>10, <2>1 DEF Subscribe, OwnershipInv, QueueInv
  <2>2. CASE ~UNCHANGED cmds
    BY <1>10, <2>2, EnqueueOther DEF Subscribe, OwnershipInv, Ownership
  <2> QED BY <2>1, <2>2
<1>11. ASSUME NEW s \in Subs, Receive(s) PROVE QueueInv'
  BY <1>11 DEF Receive, OwnershipInv, QueueInv
<1>12. ASSUME NEW s \in Subs, DropSubscription(s) PROVE QueueInv'
  <2>1. CASE UNCHANGED cmds
    BY <1>12, <2>1 DEF DropSubscription, OwnershipInv, QueueInv
  <2>2. CASE ~UNCHANGED cmds
    BY <1>12, <2>2, EnqueueOther DEF DropSubscription, OwnershipInv, Ownership
  <2> QED BY <2>1, <2>2
<1>13. ASSUME NEW k \in Closers, Shutdown(k) PROVE QueueInv'
  <2>1. CASE UNCHANGED cmds
    BY <1>13, <2>1 DEF Shutdown, OwnershipInv, QueueInv
  <2>2. CASE ~UNCHANGED cmds
    BY <1>13, <2>2, EnqueueOther DEF Shutdown, OwnershipInv, Ownership
  <2> QED BY <2>1, <2>2
<1>14. ASSUME ActorTop PROVE QueueInv'
  BY <1>14 DEF ActorTop, OwnershipInv, QueueInv
<1>15. ASSUME ActorQueueEmpty PROVE QueueInv'
  BY <1>15 DEF ActorQueueEmpty, OwnershipInv, QueueInv
<1>16. ASSUME ActorUnflag PROVE QueueInv'
  BY <1>16 DEF ActorUnflag, OwnershipInv, QueueInv
<1>17. ASSUME NEW k \in 1..MaxChunk, ReadData(k) PROVE QueueInv'
  BY <1>17 DEF ReadData, OwnershipInv, QueueInv
<1>18. ASSUME ReadIdle PROVE QueueInv'
  BY <1>18 DEF ReadIdle, OwnershipInv, QueueInv
<1>19. ASSUME ReadFail PROVE QueueInv'
  BY <1>19 DEF ReadFail, OwnershipInv, QueueInv
<1>20. ASSUME NEW c \in Callers, ExecIo(c) PROVE QueueInv'
  BY <1>20, DequeueOther DEF ExecIo, OwnershipInv, Ownership
<1>21. ASSUME NEW s \in Subs, ExecSubscribe(s) PROVE QueueInv'
  BY <1>21, DequeueOther DEF ExecSubscribe, OwnershipInv, Ownership
<1>22. ASSUME NEW s \in Subs, ExecUnsubscribe(s) PROVE QueueInv'
  BY <1>22, DequeueOther DEF ExecUnsubscribe, OwnershipInv, Ownership
<1>23. ASSUME NEW o \in Owners, ExecAcquire(o) PROVE QueueInv'
  <2>1. PICK pc \in {"failed", "leased"} : own' = [own EXCEPT ![o] = pc]
    BY <1>23 DEF ExecAcquire
  <2> QED BY <1>23, <2>1, DequeueOwnership DEF ExecAcquire, OwnershipInv, Ownership
<1>24. ASSUME NEW o \in Owners, ExecReturn(o) PROVE QueueInv'
  BY <1>24, DequeueOwnership DEF ExecReturn, OwnershipInv, Ownership
<1>25. ASSUME NEW k \in Closers, ExecShutdown(k) PROVE QueueInv'
  BY <1>25, DequeueOther DEF ExecShutdown, OwnershipInv, Ownership
<1>26. ASSUME ActorExit PROVE QueueInv'
  BY <1>26 DEF ActorExit, OwnershipInv, QueueInv
<1>27. ASSUME GuardDrop PROVE QueueInv'
  BY <1>27 DEF GuardDrop, OwnershipInv, QueueInv
<1>28. ASSUME DropState PROVE QueueInv'
  <2>1. cmds' = <<>> /\ DOMAIN cmds' = {}
    BY <1>28 DEF DropState
  <2>2. \A o \in Owners : own'[o] # "returned"
    BY <1>28 DEF DropState
  <2> QED BY <2>1, <2>2 DEF QueueInv
<1>29. CASE UNCHANGED vars
  BY <1>29 DEF vars, OwnershipInv, QueueInv
<1> QED
  BY <1>1, <1>2, <1>3, <1>4, <1>5, <1>6, <1>7, <1>8, <1>9, <1>10, <1>11, <1>12, <1>13, <1>14, <1>15,
     <1>16, <1>17, <1>18, <1>19, <1>20, <1>21, <1>22, <1>23, <1>24, <1>25, <1>26, <1>27, <1>28, <1>29
  DEF Next, ActorStep, CallerStep, OwnerStep, SubStep

(* Every step keeps the driver with the actor or with the one owner that   *)
(* holds the lease.                                                        *)
LEMMA LeaseStep == OwnershipInv /\ [Next]_vars => LeaseInv'
<1> SUFFICES ASSUME OwnershipInv, [Next]_vars PROVE LeaseInv'
  OBVIOUS
<1> USE DEF actorVars, subVars, byteVars
<1> USE DEF OwnershipInv, LeaseInv, TypeOK
<1>1. ASSUME NEW c \in Callers, CallAdmit(c) PROVE LeaseInv'
  BY <1>1 DEF CallAdmit
<1>2. ASSUME NEW c \in Callers, CallSend(c) PROVE LeaseInv'
  BY <1>2 DEF CallSend
<1>3. ASSUME NEW o \in Owners, AcquireRequest(o) PROVE LeaseInv'
  BY <1>3 DEF AcquireRequest
<1>4. ASSUME NEW o \in Owners, AcquireSend(o) PROVE LeaseInv'
  BY <1>4 DEF AcquireSend
<1>5. ASSUME NEW o \in Owners, AcquireFail(o) PROVE LeaseInv'
  BY <1>5 DEF AcquireFail
<1>6. ASSUME NEW o \in Owners, LeaseRead(o) PROVE LeaseInv'
  BY <1>6 DEF LeaseRead
<1>7. ASSUME NEW o \in Owners, ReleaseBegin(o) PROVE LeaseInv'
  BY <1>7 DEF ReleaseBegin
<1>8. ASSUME NEW o \in Owners, ReleaseSend(o) PROVE LeaseInv'
  <2>1. lease = o /\ actor # "done"
    BY <1>8, NoneAssumption DEF ReleaseSend
  <2>2. /\ own' = [own EXCEPT ![o] = "returned"] /\ driver' = "queue"
        /\ lease' = o /\ actor' = actor
    BY <1>8, <2>1 DEF ReleaseSend
  <2> QED BY <2>1, <2>2, NoneAssumption
<1>9. ASSUME NEW o \in Owners, ReleaseClear(o) PROVE LeaseInv'
  BY <1>9 DEF ReleaseClear
<1>10. ASSUME NEW s \in Subs, Subscribe(s) PROVE LeaseInv'
  BY <1>10 DEF Subscribe
<1>11. ASSUME NEW s \in Subs, Receive(s) PROVE LeaseInv'
  BY <1>11 DEF Receive
<1>12. ASSUME NEW s \in Subs, DropSubscription(s) PROVE LeaseInv'
  BY <1>12 DEF DropSubscription
<1>13. ASSUME NEW k \in Closers, Shutdown(k) PROVE LeaseInv'
  BY <1>13 DEF Shutdown
<1>14. ASSUME ActorTop PROVE LeaseInv'
  BY <1>14 DEF ActorTop
<1>15. ASSUME ActorQueueEmpty PROVE LeaseInv'
  BY <1>15 DEF ActorQueueEmpty
<1>16. ASSUME ActorUnflag PROVE LeaseInv'
  BY <1>16 DEF ActorUnflag
<1>17. ASSUME NEW k \in 1..MaxChunk, ReadData(k) PROVE LeaseInv'
  BY <1>17 DEF ReadData
<1>18. ASSUME ReadIdle PROVE LeaseInv'
  BY <1>18 DEF ReadIdle
<1>19. ASSUME ReadFail PROVE LeaseInv'
  BY <1>19 DEF ReadFail
<1>20. ASSUME NEW c \in Callers, ExecIo(c) PROVE LeaseInv'
  BY <1>20 DEF ExecIo, Continue, Dequeue
<1>21. ASSUME NEW s \in Subs, ExecSubscribe(s) PROVE LeaseInv'
  BY <1>21 DEF ExecSubscribe, Continue, Dequeue
<1>22. ASSUME NEW s \in Subs, ExecUnsubscribe(s) PROVE LeaseInv'
  BY <1>22 DEF ExecUnsubscribe, Continue, Dequeue
<1>23. ASSUME NEW o \in Owners, ExecAcquire(o) PROVE LeaseInv'
  <2>1. own[o] = "wait"
    <3>1. PICK pc \in {"failed", "leased"} : own' = [own EXCEPT ![o] = pc]
      BY <1>23 DEF ExecAcquire
    <3> QED BY <1>23, <3>1, DequeueOwnership DEF ExecAcquire, Ownership
  <2>2. actor \in {"recv", "drain"}
    BY <1>23 DEF ExecAcquire, Dequeue
  <2>3. CASE lease # None
    BY <1>23, <2>1, <2>2, <2>3 DEF ExecAcquire
  <2>4. CASE lease = None
    BY <1>23, <2>1, <2>4, NoneAssumption DEF ExecAcquire
  <2> QED BY <2>3, <2>4
<1>24. ASSUME NEW o \in Owners, ExecReturn(o) PROVE LeaseInv'
  <2>1. own[o] = "returned" /\ lease = o
    BY <1>24, DequeueOwnership DEF ExecReturn, Ownership
  <2>2. actor' # "done"
    BY <1>24 DEF ExecReturn, ReturnOutcome, Continue
  <2> QED BY <1>24, <2>1, <2>2, NoneAssumption DEF ExecReturn
<1>25. ASSUME NEW k \in Closers, ExecShutdown(k) PROVE LeaseInv'
  BY <1>25 DEF ExecShutdown, Continue, Dequeue
<1>26. ASSUME ActorExit PROVE LeaseInv'
  BY <1>26 DEF ActorExit
<1>27. ASSUME GuardDrop PROVE LeaseInv'
  BY <1>27 DEF GuardDrop
<1>28. ASSUME DropState PROVE LeaseInv'
  <2>1. lease = None /\ driver = "actor"
    BY <1>28 DEF DropState
  <2>2. \A o \in Owners : own'[o] \notin {"leased", "returning", "returned"}
    BY <1>28, <2>1, NoneAssumption DEF DropState
  <2> QED BY <1>28, <2>1, <2>2, NoneAssumption DEF DropState
<1>29. CASE UNCHANGED vars
  BY <1>29 DEF vars
<1> QED
  BY <1>1, <1>2, <1>3, <1>4, <1>5, <1>6, <1>7, <1>8, <1>9, <1>10, <1>11, <1>12, <1>13, <1>14, <1>15,
     <1>16, <1>17, <1>18, <1>19, <1>20, <1>21, <1>22, <1>23, <1>24, <1>25, <1>26, <1>27, <1>28, <1>29
  DEF Next, ActorStep, CallerStep, OwnerStep, SubStep

(* The driver starts with the actor and the queue is empty.                *)
LEMMA OwnershipInit == Init => OwnershipInv
<1> SUFFICES ASSUME Init PROVE OwnershipInv
  OBVIOUS
<1>1. TypeOK
  BY TypeInit
<1>2. DOMAIN cmds = {}
  BY DEF Init
<1>3. QueueInv
  BY <1>2 DEF Init, QueueInv
<1>4. LeaseInv
  BY NoneAssumption DEF Init, LeaseInv
<1> QED BY <1>1, <1>3, <1>4 DEF OwnershipInv

(* The driver has one place at a time in every state: the actor, or the    *)
(* one owner acquire_driver answered.                                      *)
THEOREM OwnershipInvariant == Spec => []OwnershipInv
<1>1. OwnershipInv /\ [Next]_vars => OwnershipInv'
  BY TypeStep, QueueStep, LeaseStep DEF OwnershipInv
<1> QED BY <1>1, OwnershipInit, PTL DEF Spec

(* That is what DriverOwnership asks for.                                  *)
LEMMA OwnershipImplies == OwnershipInv => DriverOwnership
<1> SUFFICES ASSUME OwnershipInv PROVE DriverOwnership
  OBVIOUS
<1>1. \A i \in Returns : i \in DOMAIN cmds /\ cmds[i].op = "return" /\ cmds[i].who \in Owners
                        /\ own[cmds[i].who] = "returned" /\ lease = cmds[i].who
  BY CommandFields DEF OwnershipInv, QueueInv, LeaseInv, Returns, Ownership
<1>2. ASSUME lease # None, own[lease] # "returned"
      PROVE  driver = lease /\ own[lease] \in {"leased", "returning"} /\ Returns = {}
  BY <1>1, <1>2 DEF OwnershipInv, LeaseInv, TypeOK
<1>3. ASSUME lease # None, own[lease] = "returned"
      PROVE  driver = "queue" /\ \E i \in Returns : Returns = {i} /\ cmds[i].who = lease
  <2>1. lease \in Owners /\ driver = "queue"
    BY <1>3 DEF OwnershipInv, LeaseInv, TypeOK
  <2>2. PICK i \in DOMAIN cmds : cmds[i] = [op |-> "return", who |-> lease]
    BY <1>3, <2>1 DEF OwnershipInv, QueueInv
  <2>3. i \in Returns /\ cmds[i].who = lease
    BY <2>2 DEF Returns
  <2>4. \A j \in Returns : cmds[j] = cmds[i]
    BY <1>1, <2>2, CommandFields DEF OwnershipInv
  <2>5. \A j \in Returns : j = i
    BY <1>1, <2>2, <2>4 DEF OwnershipInv, QueueInv, Ownership
  <2> QED BY <2>1, <2>3, <2>5
<1> QED BY <1>2, <1>3, NoneAssumption DEF DriverOwnership, OwnershipInv, LeaseInv, TypeOK

(* At every moment the driver has exactly one owner, the actor's view of   *)
(* the lease is right and no returned driver is lost in the queue: for any *)
(* number of competing owners, callers and closers, with or without the    *)
(* transfer scheduler in front.                                            *)
THEOREM DriverOwnershipHolds == Spec => []DriverOwnership
BY OwnershipInvariant, OwnershipImplies, PTL

-----------------------------------------------------------------------------
(* A driver that was shut down is used no more.  The actor shuts it down   *)
(* only on its way out; an owner only once the actor is gone.              *)

ShutInv == shut => ~Alive

(* Every step keeps a driver that was shut down out of the hands of a      *)
(* living actor.                                                           *)
LEMMA ShutStep == ShutInv /\ [Next]_vars => ShutInv'
<1> SUFFICES ASSUME ShutInv, [Next]_vars PROVE ShutInv'
  OBVIOUS
<1> USE DEF actorVars, subVars, byteVars
<1> USE DEF ShutInv, Alive
<1>1. ASSUME NEW c \in Callers, CallAdmit(c) PROVE ShutInv'
  BY <1>1 DEF CallAdmit
<1>2. ASSUME NEW c \in Callers, CallSend(c) PROVE ShutInv'
  BY <1>2 DEF CallSend
<1>3. ASSUME NEW o \in Owners, AcquireRequest(o) PROVE ShutInv'
  BY <1>3 DEF AcquireRequest
<1>4. ASSUME NEW o \in Owners, AcquireSend(o) PROVE ShutInv'
  BY <1>4 DEF AcquireSend
<1>5. ASSUME NEW o \in Owners, AcquireFail(o) PROVE ShutInv'
  BY <1>5 DEF AcquireFail
<1>6. ASSUME NEW o \in Owners, LeaseRead(o) PROVE ShutInv'
  BY <1>6 DEF LeaseRead
<1>7. ASSUME NEW o \in Owners, ReleaseBegin(o) PROVE ShutInv'
  BY <1>7 DEF ReleaseBegin
<1>8. ASSUME NEW o \in Owners, ReleaseSend(o) PROVE ShutInv'
  BY <1>8 DEF ReleaseSend
<1>9. ASSUME NEW o \in Owners, ReleaseClear(o) PROVE ShutInv'
  BY <1>9 DEF ReleaseClear
<1>10. ASSUME NEW s \in Subs, Subscribe(s) PROVE ShutInv'
  BY <1>10 DEF Subscribe
<1>11. ASSUME NEW s \in Subs, Receive(s) PROVE ShutInv'
  BY <1>11 DEF Receive
<1>12. ASSUME NEW s \in Subs, DropSubscription(s) PROVE ShutInv'
  BY <1>12 DEF DropSubscription
<1>13. ASSUME NEW k \in Closers, Shutdown(k) PROVE ShutInv'
  BY <1>13 DEF Shutdown
<1>14. ASSUME ActorTop PROVE ShutInv'
  BY <1>14 DEF ActorTop
<1>15. ASSUME ActorQueueEmpty PROVE ShutInv'
  BY <1>15 DEF ActorQueueEmpty
<1>16. ASSUME ActorUnflag PROVE ShutInv'
  BY <1>16 DEF ActorUnflag
<1>17. ASSUME NEW k \in 1..MaxChunk, ReadData(k) PROVE ShutInv'
  BY <1>17 DEF ReadData
<1>18. ASSUME ReadIdle PROVE ShutInv'
  BY <1>18 DEF ReadIdle
<1>19. ASSUME ReadFail PROVE ShutInv'
  BY <1>19 DEF ReadFail
<1>20. ASSUME NEW c \in Callers, ExecIo(c) PROVE ShutInv'
  BY <1>20 DEF ExecIo, Continue, Dequeue
<1>21. ASSUME NEW s \in Subs, ExecSubscribe(s) PROVE ShutInv'
  BY <1>21 DEF ExecSubscribe, Continue, Dequeue
<1>22. ASSUME NEW s \in Subs, ExecUnsubscribe(s) PROVE ShutInv'
  BY <1>22 DEF ExecUnsubscribe, Continue, Dequeue
<1>23. ASSUME NEW o \in Owners, ExecAcquire(o) PROVE ShutInv'
  BY <1>23 DEF ExecAcquire, Continue, Dequeue
<1>24. ASSUME NEW o \in Owners, ExecReturn(o) PROVE ShutInv'
  BY <1>24 DEF ExecReturn, ReturnOutcome, Continue, Dequeue
<1>25. ASSUME NEW k \in Closers, ExecShutdown(k) PROVE ShutInv'
  BY <1>25 DEF ExecShutdown, Continue, Dequeue
<1>26. ASSUME ActorExit PROVE ShutInv'
  BY <1>26 DEF ActorExit
<1>27. ASSUME GuardDrop PROVE ShutInv'
  BY <1>27 DEF GuardDrop
<1>28. ASSUME DropState PROVE ShutInv'
  BY <1>28 DEF DropState
<1>29. CASE UNCHANGED vars
  BY <1>29 DEF vars
<1> QED
  BY <1>1, <1>2, <1>3, <1>4, <1>5, <1>6, <1>7, <1>8, <1>9, <1>10, <1>11, <1>12, <1>13, <1>14, <1>15,
     <1>16, <1>17, <1>18, <1>19, <1>20, <1>21, <1>22, <1>23, <1>24, <1>25, <1>26, <1>27, <1>28, <1>29
  DEF Next, ActorStep, CallerStep, OwnerStep, SubStep

(* A shutdown request that meets a lease waits for the driver to return,   *)
(* and nothing uses the driver after it was shut down.                     *)
THEOREM NoUseAfterShutdownHolds == Spec => []NoUseAfterShutdown
<1>1. Init => ShutInv
  BY DEF Init, ShutInv
<1>2. OwnershipInv /\ ShutInv => NoUseAfterShutdown
  BY NoneAssumption DEF OwnershipInv, LeaseInv, ShutInv, Alive, NoUseAfterShutdown, TypeOK
<1> QED BY <1>1, <1>2, ShutStep, OwnershipInvariant, PTL DEF Spec

-----------------------------------------------------------------------------
(* Admission.  Where owners take turns, the flag stays up from the request *)
(* to the return of the driver, so the actor starts no read in between.    *)

Asking == {"send", "wait", "leased", "returning", "returned"}

AdmissionInv ==
  SerialOwners =>
    /\ \A o, p \in Owners : own[o] # "idle" /\ own[p] # "idle" => o = p
    /\ Alive => actor # "unflag" /\ \A o \in Owners : own[o] \in Asking => flag

(* Every step keeps the admission flag up from the request to the return.  *)
LEMMA AdmissionStep == OwnershipInv /\ AdmissionInv /\ [Next]_vars => AdmissionInv'
<1> SUFFICES ASSUME OwnershipInv, AdmissionInv, [Next]_vars PROVE AdmissionInv'
  OBVIOUS
<1> USE DEF actorVars, subVars, byteVars
<1> USE DEF AdmissionInv, Alive, Asking, TypeOK, OwnershipInv
<1>1. ASSUME NEW c \in Callers, CallAdmit(c) PROVE AdmissionInv'
  BY <1>1 DEF CallAdmit
<1>2. ASSUME NEW c \in Callers, CallSend(c) PROVE AdmissionInv'
  BY <1>2 DEF CallSend
<1>3. ASSUME NEW o \in Owners, AcquireRequest(o) PROVE AdmissionInv'
  BY <1>3 DEF AcquireRequest
<1>4. ASSUME NEW o \in Owners, AcquireSend(o) PROVE AdmissionInv'
  <2>1. PICK pc \in {"failed", "wait"} :
          own' = [own EXCEPT ![o] = pc] /\ (pc = "failed" => ~Alive)
    BY <1>4 DEF AcquireSend
  <2>2. own[o] = "send" /\ flag' = flag /\ actor' = actor
    BY <1>4 DEF AcquireSend
  <2> QED BY <2>1, <2>2
<1>5. ASSUME NEW o \in Owners, AcquireFail(o) PROVE AdmissionInv'
  BY <1>5 DEF AcquireFail
<1>6. ASSUME NEW o \in Owners, LeaseRead(o) PROVE AdmissionInv'
  BY <1>6 DEF LeaseRead
<1>7. ASSUME NEW o \in Owners, ReleaseBegin(o) PROVE AdmissionInv'
  BY <1>7 DEF ReleaseBegin
<1>8. ASSUME NEW o \in Owners, ReleaseSend(o) PROVE AdmissionInv'
  <2>1. PICK pc \in {"idle", "returned"} :
          own' = [own EXCEPT ![o] = pc] /\ (pc = "idle" => ~Alive)
    BY <1>8 DEF ReleaseSend
  <2>2. own[o] = "returning" /\ (Alive => flag' = flag) /\ actor' = actor
    BY <1>8 DEF ReleaseSend
  <2> QED BY <2>1, <2>2
<1>9. ASSUME NEW o \in Owners, ReleaseClear(o) PROVE AdmissionInv'
  BY <1>9 DEF ReleaseClear
<1>10. ASSUME NEW s \in Subs, Subscribe(s) PROVE AdmissionInv'
  BY <1>10 DEF Subscribe
<1>11. ASSUME NEW s \in Subs, Receive(s) PROVE AdmissionInv'
  BY <1>11 DEF Receive
<1>12. ASSUME NEW s \in Subs, DropSubscription(s) PROVE AdmissionInv'
  BY <1>12 DEF DropSubscription
<1>13. ASSUME NEW k \in Closers, Shutdown(k) PROVE AdmissionInv'
  BY <1>13 DEF Shutdown
<1>14. ASSUME ActorTop PROVE AdmissionInv'
  BY <1>14 DEF ActorTop
<1>15. ASSUME ActorQueueEmpty PROVE AdmissionInv'
  BY <1>15 DEF ActorQueueEmpty
<1>16. ASSUME ActorUnflag PROVE AdmissionInv'
  BY <1>16 DEF ActorUnflag
<1>17. ASSUME NEW k \in 1..MaxChunk, ReadData(k) PROVE AdmissionInv'
  BY <1>17 DEF ReadData
<1>18. ASSUME ReadIdle PROVE AdmissionInv'
  BY <1>18 DEF ReadIdle
<1>19. ASSUME ReadFail PROVE AdmissionInv'
  BY <1>19 DEF ReadFail
<1>20. ASSUME NEW c \in Callers, ExecIo(c) PROVE AdmissionInv'
  BY <1>20 DEF ExecIo, Continue, Dequeue
<1>21. ASSUME NEW s \in Subs, ExecSubscribe(s) PROVE AdmissionInv'
  BY <1>21 DEF ExecSubscribe, Continue, Dequeue
<1>22. ASSUME NEW s \in Subs, ExecUnsubscribe(s) PROVE AdmissionInv'
  BY <1>22 DEF ExecUnsubscribe, Continue, Dequeue
<1>23. ASSUME NEW o \in Owners, ExecAcquire(o) PROVE AdmissionInv'
  <2>1. own[o] = "wait"
    <3>1. PICK pc \in {"failed", "leased"} : own' = [own EXCEPT ![o] = pc]
      BY <1>23 DEF ExecAcquire
    <3> QED BY <1>23, <3>1, DequeueOwnership DEF ExecAcquire, OwnershipInv, Ownership
  <2>2. SerialOwners => lease = None
    <3>1. \A p \in Owners : lease = p => own[p] \in {"leased", "returning", "returned"}
      BY DEF LeaseInv
    <3>2. SerialOwners => \A p \in Owners : own[p] # "idle" => p = o
      BY <2>1
    <3> QED BY <2>1, <3>1, <3>2
  <2>3. PICK pc \in {"failed", "leased"} : own' = [own EXCEPT ![o] = pc]
    BY <1>23 DEF ExecAcquire
  <2> QED BY <1>23, <2>1, <2>2, <2>3 DEF ExecAcquire, Dequeue
<1>24. ASSUME NEW o \in Owners, ExecReturn(o) PROVE AdmissionInv'
  <2>1. own[o] = "returned"
    BY <1>24, DequeueOwnership DEF ExecReturn, OwnershipInv, Ownership
  <2>2. actor' \in {"top", "drain", "exit"} /\ own' = [own EXCEPT ![o] = "clear"]
    BY <1>24 DEF ExecReturn, ReturnOutcome, Continue
  <2>3. \A p \in Owners : SerialOwners => own'[p] \notin Asking
    BY ZenonT(60), <2>1, <2>2
  <2>4. SerialOwners => \A p, q \in Owners : own'[p] # "idle" /\ own'[q] # "idle" => p = q
    BY <2>1, <2>2
  <2> QED BY <1>24, <2>2, <2>3, <2>4 DEF Dequeue
<1>25. ASSUME NEW k \in Closers, ExecShutdown(k) PROVE AdmissionInv'
  BY <1>25 DEF ExecShutdown, Continue, Dequeue
<1>26. ASSUME ActorExit PROVE AdmissionInv'
  BY <1>26 DEF ActorExit
<1>27. ASSUME GuardDrop PROVE AdmissionInv'
  BY <1>27 DEF GuardDrop
<1>28. ASSUME DropState PROVE AdmissionInv'
  <2>1. \A o \in Owners : own'[o] # "idle" => own[o] # "idle"
    BY <1>28 DEF DropState
  <2> QED BY <1>28, <2>1 DEF DropState
<1>29. CASE UNCHANGED vars
  BY <1>29 DEF vars
<1> QED
  BY <1>1, <1>2, <1>3, <1>4, <1>5, <1>6, <1>7, <1>8, <1>9, <1>10, <1>11, <1>12, <1>13, <1>14, <1>15,
     <1>16, <1>17, <1>18, <1>19, <1>20, <1>21, <1>22, <1>23, <1>24, <1>25, <1>26, <1>27, <1>28, <1>29
  DEF Next, ActorStep, CallerStep, OwnerStep, SubStep

(* With one transfer at a time, as the scheduler has it, the actor never   *)
(* starts a physical read between an owner's request and the return of the *)
(* driver.  The assumption is needed: without it TLC refutes the property. *)
THEOREM AdmissionHolds ==
  ASSUME SerialOwners
  PROVE  Spec => AdmissionStopsReads
<1> DEFINE Admitted ==
      actor # "reading" /\ actor' = "reading" =>
        \A o \in Owners : own[o] \notin {"send", "wait", "leased", "returning", "returned"}
<1>1. Init => AdmissionInv
  BY DEF Init, AdmissionInv, Asking
<1>2. AdmissionInv /\ [Next]_vars => [Admitted]_vars
  <2> SUFFICES ASSUME AdmissionInv, Next, actor # "reading", actor' = "reading"
               PROVE  \A o \in Owners : own[o] \notin Asking
    BY DEF Asking
  <2>1. ActorQueueEmpty
    BY DEF Next, ActorStep, CallerStep, OwnerStep, SubStep, actorVars, CallAdmit, CallSend,
           AcquireRequest, AcquireSend, AcquireFail, LeaseRead, ReleaseBegin, ReleaseSend,
           ReleaseClear, Subscribe, Receive, DropSubscription, Shutdown, ActorTop,
           ActorUnflag, ReadData, ReadIdle, ReadFail, ExecIo, ExecSubscribe,
           ExecUnsubscribe, ExecAcquire, ExecReturn, ExecShutdown, ReturnOutcome, Continue,
           ActorExit, GuardDrop, DropState
  <2> QED BY <2>1 DEF ActorQueueEmpty, AdmissionInv, Alive
<1> QED BY <1>1, <1>2, AdmissionStep, OwnershipInvariant, PTL DEF Spec, AdmissionStopsReads

-----------------------------------------------------------------------------
(* Subscriptions.  Their commands in the queue agree with the state of the  *)
(* two halves of each subscription: a queued Subscribe still carries its    *)
(* sender, no Unsubscribe overtakes it, and a queue is empty until the      *)
(* actor has the sender.                                                    *)

SubQueueInv ==
  /\ \A i \in DOMAIN cmds :
       /\ cmds[i].op = "subscribe" => sender[cmds[i].who] = "queued"
       /\ cmds[i].op = "unsubscribe" => sub[cmds[i].who] = "dropped"
  /\ \A i, j \in DOMAIN cmds :
       /\ cmds[i].op = "subscribe"
       /\ cmds[j].op \in {"subscribe", "unsubscribe"}
       /\ cmds[i].who = cmds[j].who
       => i <= j

(* A reason is set when the actor lets go of the sender, or on its way out. *)
SubStateInv ==
  /\ \A s \in Subs :
       /\ sub[s] = "new" <=> sender[s] = "none"
       /\ sender[s] \in {"none", "queued"} => chan[s] = <<>>
       /\ Len(chan[s]) <= SubCapacity
       /\ actor \notin {"unwind", "drop", "done"} /\ sender[s] # "gone" => reason[s] = "none"
  /\ actor \in {"drop", "done"} => ~connected

SubInv == SubQueueInv /\ SubStateInv /\ DisconnectVisibleFirst

(* Buffers.  A lease takes every byte that waits in the actor with it, a    *)
(* read starts with an empty handoff buffer, and the startup buffer is only *)
(* used while nobody listens.                                               *)
BufferInv ==
  /\ \A o \in Owners : prefetched[o] # <<>> => lease = o
  /\ lease # None => startup = <<>> /\ handoff = <<>>
  /\ actor \in {"drain", "reading"} => handoff = <<>>
  /\ HeldSubs # {} => startup = <<>>
  /\ Len(startup) <= StartupLimit
  /\ Len(startup) + Len(handoff) <= StartupLimit + MaxChunk
  /\ \A o \in Owners : Len(prefetched[o]) <= StartupLimit + MaxChunk

(* A subscription command names a subscription.                            *)
LEMMA SubscriptionFields ==
  ASSUME TypeOK, NEW i \in DOMAIN cmds, cmds[i].op \in {"subscribe", "unsubscribe"}
  PROVE  cmds[i].who \in Subs
<1>1. cmds[i] \in Command
  BY ElementOfSeq, LenProperties DEF TypeOK
<1> QED BY <1>1 DEF Command

(* How the three kinds of steps leave the queue of subscriptions' commands. *)
LEMMA SubQueueKept ==
  ASSUME TypeOK, SubQueueInv, UNCHANGED cmds,
         \A s \in Subs : /\ sender[s] = "queued" => sender'[s] = "queued"
                         /\ sub[s] = "dropped" => sub'[s] = "dropped"
  PROVE  SubQueueInv'
BY SubscriptionFields DEF SubQueueInv

(* Sending any other command leaves the subscription commands where they   *)
(* are.                                                                    *)
LEMMA SubQueueEnqueue ==
  ASSUME TypeOK, SubQueueInv, NEW op, op \notin {"subscribe", "unsubscribe"}, NEW who,
         Enqueue(op, who), UNCHANGED <<sender, sub>>
  PROVE  SubQueueInv'
<1>1. /\ Len(cmds) \in Nat
      /\ DOMAIN cmds = 1..Len(cmds) /\ DOMAIN cmds' = 1..Len(cmds) + 1
      /\ \A i \in DOMAIN cmds : cmds'[i] = cmds[i]
      /\ cmds'[Len(cmds) + 1] = [op |-> op, who |-> who]
  BY EnqueueEffect
<1> QED BY <1>1 DEF SubQueueInv

(* Taking a command keeps the subscription commands in turn.               *)
LEMMA SubQueueDequeue ==
  ASSUME TypeOK, SubQueueInv, NEW op, NEW who, Dequeue(op, who), UNCHANGED sub,
         \A s \in Subs :
           sender[s] = "queued" /\ (op \in {"subscribe", "unsubscribe"} => s # who)
             => sender'[s] = "queued"
  PROVE  SubQueueInv'
<1>1. /\ Len(cmds) \in Nat \ {0}
      /\ DOMAIN cmds = 1..Len(cmds) /\ DOMAIN cmds' = 1..Len(cmds) - 1
      /\ \A i \in DOMAIN cmds' : cmds'[i] = cmds[i + 1]
      /\ cmds[1] = [op |-> op, who |-> who]
  BY DequeueEffect
<1>2. \A i \in DOMAIN cmds' : i + 1 \in DOMAIN cmds /\ i + 1 > 1 /\ i \in Nat
  BY <1>1
<1>3. ASSUME NEW i \in DOMAIN cmds'
      PROVE  /\ cmds'[i].op = "subscribe" => sender'[cmds'[i].who] = "queued"
             /\ cmds'[i].op = "unsubscribe" => sub'[cmds'[i].who] = "dropped"
  <2>1. ASSUME cmds'[i].op = "subscribe" PROVE sender'[cmds'[i].who] = "queued"
    <3>1. cmds[i + 1].op = "subscribe" /\ cmds[i + 1].who = cmds'[i].who
          /\ sender[cmds[i + 1].who] = "queued" /\ cmds[i + 1].who \in Subs
      BY <1>1, <1>2, <2>1, SubscriptionFields DEF SubQueueInv
    <3>2. 1 \in DOMAIN cmds
      BY <1>1
    <3>3. op \in {"subscribe", "unsubscribe"} => cmds[i + 1].who # who
      BY <1>1, <1>2, <3>1, <3>2 DEF SubQueueInv
    <3> QED BY <3>1, <3>3
  <2>2. ASSUME cmds'[i].op = "unsubscribe" PROVE sub'[cmds'[i].who] = "dropped"
    BY <1>1, <1>2, <2>2 DEF SubQueueInv
  <2> QED BY <2>1, <2>2
<1>4. \A i, j \in DOMAIN cmds' :
        /\ cmds'[i].op = "subscribe"
        /\ cmds'[j].op \in {"subscribe", "unsubscribe"}
        /\ cmds'[i].who = cmds'[j].who
        => i <= j
  <2> SUFFICES ASSUME NEW i \in DOMAIN cmds', NEW j \in DOMAIN cmds',
                      cmds'[i].op = "subscribe",
                      cmds'[j].op \in {"subscribe", "unsubscribe"},
                      cmds'[i].who = cmds'[j].who
               PROVE  i <= j
    OBVIOUS
  <2>1. i + 1 <= j + 1
    BY <1>1, <1>2 DEF SubQueueInv
  <2> QED BY <1>2, <2>1
<1> QED BY <1>3, <1>4 DEF SubQueueInv

(* What a broadcast does to one subscription.                              *)
LEMMA BroadcastEffect ==
  ASSUME TypeOK, NEW event, Broadcast(event), NEW s \in Subs
  PROVE  /\ sub'[s] = sub[s] /\ seen'[s] = seen[s]
         /\ \/ /\ sender[s] = "held" /\ sub[s] = "live" /\ Len(chan[s]) < SubCapacity
               /\ chan'[s] = Append(chan[s], event)
               /\ sender'[s] = "held" /\ reason'[s] = reason[s]
            \/ /\ sender[s] = "held" /\ sub[s] = "live"
               /\ chan'[s] = chan[s] /\ sender'[s] = "gone"
               /\ reason'[s] = IF reason[s] = "none" THEN "backlog" ELSE reason[s]
            \/ /\ sender[s] = "held" /\ sub[s] # "live"
               /\ chan'[s] = chan[s] /\ sender'[s] = "gone" /\ reason'[s] = reason[s]
            \/ /\ sender[s] # "held"
               /\ chan'[s] = chan[s] /\ sender'[s] = sender[s] /\ reason'[s] = reason[s]
<1>1. Len(chan[s]) \in Nat
  BY LenProperties DEF TypeOK
<1> QED BY <1>1, CapacityAssumption DEF Broadcast, HeldSubs, TypeOK

(* A broadcast leaves a sender that is still queued alone.                 *)
LEMMA BroadcastQueue ==
  ASSUME TypeOK, NEW event, Broadcast(event)
  PROVE  \A s \in Subs : (sender[s] = "queued" => sender'[s] = "queued") /\ sub'[s] = sub[s]
BY BroadcastEffect

(* Publishing is a broadcast or, with nobody listening, leaves the         *)
(* subscriptions alone.                                                    *)
LEMMA PublishSubs ==
  ASSUME NEW data, Publish(data)
  PROVE  UNCHANGED subVars \/ Broadcast(data)
BY DEF Publish

Ending == {"unwind", "drop", "done"}

(* Steps that leave the subscriptions alone, and steps that broadcast.     *)
LEMMA SubStateKept ==
  ASSUME SubStateInv, DisconnectVisibleFirst, UNCHANGED subVars,
         connected' => connected, actor' \notin Ending => actor \notin Ending,
         actor' \in {"drop", "done"} => ~connected'
  PROVE  SubStateInv' /\ DisconnectVisibleFirst'
BY DEF SubStateInv, DisconnectVisibleFirst, subVars, Ending

(* A broadcast of a living actor keeps what is known of the subscriptions. *)
LEMMA SubStateBroadcast ==
  ASSUME TypeOK, SubStateInv, DisconnectVisibleFirst, NEW event \in Event,
         Broadcast(event), actor \notin Ending, actor' \notin {"drop", "done"},
         connected' = connected
  PROVE  SubStateInv' /\ DisconnectVisibleFirst'
<1> SUFFICES ASSUME NEW s \in Subs
             PROVE  /\ sub'[s] = "new" <=> sender'[s] = "none"
                    /\ sender'[s] \in {"none", "queued"} => chan'[s] = <<>>
                    /\ Len(chan'[s]) <= SubCapacity
                    /\ actor' \notin Ending /\ sender'[s] # "gone" => reason'[s] = "none"
                    /\ (sub'[s] = "live" /\ sender'[s] = "gone" /\ reason'[s] # "backlog"
                         => ~connected')
  BY DEF SubStateInv, DisconnectVisibleFirst, Ending
<1>1. /\ sub[s] = "new" <=> sender[s] = "none"
      /\ sender[s] \in {"none", "queued"} => chan[s] = <<>>
      /\ Len(chan[s]) <= SubCapacity
      /\ sender[s] # "gone" => reason[s] = "none"
      /\ (sub[s] = "live" /\ sender[s] = "gone" /\ reason[s] # "backlog" => ~connected)
  BY DEF SubStateInv, DisconnectVisibleFirst, Ending
<1>2. /\ sub'[s] = sub[s]
      /\ \/ /\ sender[s] = "held" /\ sub[s] = "live" /\ Len(chan[s]) < SubCapacity
            /\ chan'[s] = Append(chan[s], event)
            /\ sender'[s] = "held" /\ reason'[s] = reason[s]
         \/ /\ sender[s] = "held" /\ sub[s] = "live"
            /\ chan'[s] = chan[s] /\ sender'[s] = "gone"
            /\ reason'[s] = IF reason[s] = "none" THEN "backlog" ELSE reason[s]
         \/ /\ sender[s] = "held" /\ sub[s] # "live"
            /\ chan'[s] = chan[s] /\ sender'[s] = "gone" /\ reason'[s] = reason[s]
         \/ /\ sender[s] # "held"
            /\ chan'[s] = chan[s] /\ sender'[s] = sender[s] /\ reason'[s] = reason[s]
  BY BroadcastEffect
<1>3. Len(chan'[s]) <= SubCapacity
  <2>1. chan[s] \in Seq(Event) /\ Len(chan[s]) \in Nat
        /\ Len(Append(chan[s], event)) = Len(chan[s]) + 1
    BY AppendProperties, LenProperties DEF TypeOK
  <2> QED BY <1>1, <1>2, <2>1, CapacityAssumption
<1> QED BY <1>1, <1>2, <1>3

(* Sending a command on behalf of a subscription.                          *)
LEMMA SubscribeQueue ==
  ASSUME TypeOK, SubQueueInv, SubStateInv, NEW s \in Subs,
         \/ /\ Enqueue("subscribe", s) /\ sub[s] = "new"
            /\ sub' = [sub EXCEPT ![s] = "live"]
            /\ sender' = [sender EXCEPT ![s] = "queued"]
         \/ /\ Enqueue("unsubscribe", s) /\ sender' = sender
            /\ sub' = [sub EXCEPT ![s] = "dropped"]
  PROVE  SubQueueInv'
<1>1. PICK op \in {"subscribe", "unsubscribe"} :
        Enqueue(op, s) /\ (op = "subscribe" => sub[s] = "new" /\ sender'[s] = "queued")
                       /\ (op = "unsubscribe" => sub'[s] = "dropped")
  BY DEF TypeOK
<1>2. /\ Len(cmds) \in Nat
      /\ DOMAIN cmds = 1..Len(cmds) /\ DOMAIN cmds' = 1..Len(cmds) + 1
      /\ \A i \in DOMAIN cmds : cmds'[i] = cmds[i]
      /\ cmds'[Len(cmds) + 1] = [op |-> op, who |-> s]
  BY <1>1, EnqueueEffect
<1>3. \A i \in DOMAIN cmds : cmds[i].op = "subscribe" =>
        cmds[i].who \in Subs /\ sender'[cmds[i].who] = "queued"
  BY SubscriptionFields DEF SubQueueInv, TypeOK
<1>4. \A i \in DOMAIN cmds : cmds[i].op = "unsubscribe" =>
        cmds[i].who \in Subs /\ sub'[cmds[i].who] = "dropped"
  BY SubscriptionFields DEF SubQueueInv, TypeOK
<1>5. op = "subscribe" =>
        \A i \in DOMAIN cmds : cmds[i].op \in {"subscribe", "unsubscribe"} => cmds[i].who # s
  BY <1>1, SubscriptionFields DEF SubQueueInv, SubStateInv
<1>6. ASSUME NEW i \in DOMAIN cmds'
      PROVE  /\ cmds'[i].op = "subscribe" => sender'[cmds'[i].who] = "queued"
             /\ cmds'[i].op = "unsubscribe" => sub'[cmds'[i].who] = "dropped"
  <2>1. CASE i \in DOMAIN cmds
    BY <1>2, <1>3, <1>4, <2>1
  <2>2. CASE i = Len(cmds) + 1
    BY <1>1, <1>2, <2>2
  <2> QED BY <1>2, <2>1, <2>2
<1>7. ASSUME NEW i \in DOMAIN cmds', NEW j \in DOMAIN cmds',
             cmds'[i].op = "subscribe", cmds'[j].op \in {"subscribe", "unsubscribe"},
             cmds'[i].who = cmds'[j].who
      PROVE  i <= j
  <2>1. CASE i \in DOMAIN cmds /\ j \in DOMAIN cmds
    BY <1>2, <1>7, <2>1 DEF SubQueueInv
  <2>2. CASE j = Len(cmds) + 1
    BY <1>2, <2>2
  <2>3. CASE i = Len(cmds) + 1 /\ j \in DOMAIN cmds
    BY <1>2, <1>5, <1>7, <2>3
  <2> QED BY <1>2, <2>1, <2>2, <2>3
<1> QED BY <1>6, <1>7 DEF SubQueueInv

(* Every step keeps what is known of the subscriptions.                    *)
LEMMA SubInvStep == TypeOK /\ SubInv /\ [Next]_vars => SubInv'
<1> SUFFICES ASSUME TypeOK, SubQueueInv, SubStateInv, DisconnectVisibleFirst, [Next]_vars
             PROVE  SubQueueInv' /\ SubStateInv' /\ DisconnectVisibleFirst'
  BY DEF SubInv
<1> DEFINE Goal == SubQueueInv' /\ SubStateInv' /\ DisconnectVisibleFirst'
           Safe == /\ connected' => connected
                   /\ actor' \notin Ending => actor \notin Ending
                   /\ actor' \in {"drop", "done"} => ~connected'
<1>0. actor \in {"drop", "done"} => ~connected
  BY DEF SubStateInv
<1>a. ASSUME UNCHANGED <<subVars, cmds>>, Safe PROVE Goal
  BY <1>a, SubQueueKept, SubStateKept DEF subVars
<1>b. ASSUME NEW op, op \notin {"subscribe", "unsubscribe"}, NEW who, Enqueue(op, who),
             UNCHANGED subVars, Safe
      PROVE  Goal
  BY <1>b, SubQueueEnqueue, SubStateKept DEF subVars
<1>c. ASSUME NEW op, op \notin {"subscribe", "unsubscribe"}, NEW who, Dequeue(op, who),
             UNCHANGED subVars, Safe
      PROVE  Goal
  BY <1>c, SubQueueDequeue, SubStateKept DEF subVars
<1>d. ASSUME NEW event \in Event, Broadcast(event), actor \notin Ending,
             actor' \notin {"drop", "done"}, UNCHANGED <<connected, cmds>>
      PROVE  Goal
  BY <1>d, SubStateBroadcast, BroadcastQueue, SubQueueKept
<1>e. Closed \in Event
  BY EmptySeq DEF Closed, Event
<1>1. ASSUME NEW c \in Callers, CallAdmit(c) PROVE Goal
  BY <1>0, <1>a, <1>1 DEF CallAdmit, actorVars, Safe
<1>2. ASSUME NEW c \in Callers, CallSend(c) PROVE Goal
  <2>1. Safe /\ UNCHANGED subVars /\ (UNCHANGED cmds \/ Enqueue("io", c))
    BY <1>0, <1>2 DEF CallSend, actorVars
  <2> QED BY <1>a, <1>b, <2>1
<1>3. ASSUME NEW o \in Owners, AcquireRequest(o) PROVE Goal
  BY <1>0, <1>a, <1>3 DEF AcquireRequest, actorVars
<1>4. ASSUME NEW o \in Owners, AcquireSend(o) PROVE Goal
  <2>1. Safe /\ UNCHANGED subVars /\ (UNCHANGED cmds \/ Enqueue("acquire", o))
    BY <1>0, <1>4 DEF AcquireSend, actorVars
  <2> QED BY <1>a, <1>b, <2>1
<1>5. ASSUME NEW o \in Owners, AcquireFail(o) PROVE Goal
  BY <1>0, <1>a, <1>5 DEF AcquireFail, actorVars
<1>6. ASSUME NEW o \in Owners, LeaseRead(o) PROVE Goal
  <2>1. Safe /\ UNCHANGED <<subVars, cmds>>
    BY <1>0, <1>6 DEF LeaseRead, actorVars
  <2> QED BY <1>a, <2>1
<1>7. ASSUME NEW o \in Owners, ReleaseBegin(o) PROVE Goal
  BY <1>0, <1>a, <1>7 DEF ReleaseBegin, actorVars
<1>8. ASSUME NEW o \in Owners, ReleaseSend(o) PROVE Goal
  <2>1. Safe /\ UNCHANGED subVars /\ (UNCHANGED cmds \/ Enqueue("return", o))
    BY <1>0, <1>8 DEF ReleaseSend, actorVars
  <2> QED BY <1>a, <1>b, <2>1
<1>9. ASSUME NEW o \in Owners, ReleaseClear(o) PROVE Goal
  BY <1>0, <1>a, <1>9 DEF ReleaseClear, actorVars
<1>10. ASSUME NEW s \in Subs, Subscribe(s) PROVE Goal
  <2>1. SubQueueInv'
    BY <1>10, SubscribeQueue DEF Subscribe
  <2>2. /\ sub[s] = "new" /\ sub' = [sub EXCEPT ![s] = "live"]
        /\ sender' = [sender EXCEPT ![s] = "queued"]
        /\ UNCHANGED <<chan, reason, actor, connected>>
    BY <1>10 DEF Subscribe, actorVars
  <2> QED BY <2>1, <2>2 DEF SubStateInv, DisconnectVisibleFirst, TypeOK
<1>11. ASSUME NEW s \in Subs, Receive(s) PROVE Goal
  <2>1. /\ chan' = [chan EXCEPT ![s] = Tail(@)] /\ chan[s] # <<>>
        /\ UNCHANGED <<sender, sub, reason, cmds, actor, connected>>
    BY <1>11 DEF Receive, actorVars
  <2>2. SubQueueInv'
    BY <2>1, SubQueueKept
  <2>3. \A t \in Subs : chan[t] \in Seq(Event)
    BY DEF TypeOK
  <2>4. Len(chan[s]) \in Nat /\ Len(Tail(chan[s])) = Len(chan[s]) - 1
    BY <2>1, <2>3, HeadTailProperties, LenProperties
  <2>5. \A t \in Subs : /\ Len(chan'[t]) <= SubCapacity
                        /\ sender[t] \in {"none", "queued"} => chan'[t] = <<>>
    BY <2>1, <2>4, CapacityAssumption DEF SubStateInv, TypeOK
  <2> QED BY <2>1, <2>2, <2>5 DEF SubStateInv, DisconnectVisibleFirst
<1>12. ASSUME NEW s \in Subs, DropSubscription(s) PROVE Goal
  <2>1. /\ sub[s] = "live" /\ sub' = [sub EXCEPT ![s] = "dropped"]
        /\ chan' = [chan EXCEPT ![s] = <<>>]
        /\ UNCHANGED <<sender, reason, actor, connected>>
        /\ UNCHANGED cmds \/ Enqueue("unsubscribe", s)
    BY <1>12 DEF DropSubscription, actorVars
  <2>2. SubQueueInv'
    <3>1. CASE UNCHANGED cmds
      BY <2>1, <3>1, SubQueueKept DEF TypeOK
    <3>2. CASE Enqueue("unsubscribe", s)
      BY <2>1, <3>2, SubscribeQueue
    <3> QED BY <2>1, <3>1, <3>2
  <2>3. \A t \in Subs : /\ Len(chan'[t]) <= SubCapacity
                        /\ sender[t] \in {"none", "queued"} => chan'[t] = <<>>
    BY <2>1, EmptySeq, CapacityAssumption DEF SubStateInv, TypeOK
  <2> QED BY <2>1, <2>2, <2>3 DEF SubStateInv, DisconnectVisibleFirst, TypeOK
<1>13. ASSUME NEW k \in Closers, Shutdown(k) PROVE Goal
  <2>1. Safe /\ UNCHANGED subVars /\ (UNCHANGED cmds \/ Enqueue("shutdown", k))
    BY <1>0, <1>13 DEF Shutdown, actorVars
  <2> QED BY <1>a, <1>b, <2>1
<1>14. ASSUME ActorTop PROVE Goal
  <2>1. handoff \in Event
    BY DEF TypeOK, Event
  <2>2. /\ actor \notin Ending /\ actor' \notin Ending /\ UNCHANGED <<connected, cmds>>
        /\ UNCHANGED subVars \/ Broadcast(handoff)
    BY <1>14, PublishSubs DEF ActorTop, Ending
  <2>3. CASE UNCHANGED subVars
    BY <1>a, <2>2, <2>3 DEF Ending
  <2> QED BY <1>d, <2>1, <2>2, <2>3 DEF Ending
<1>15. ASSUME ActorQueueEmpty PROVE Goal
  BY <1>0, <1>a, <1>15 DEF ActorQueueEmpty, Ending
<1>16. ASSUME ActorUnflag PROVE Goal
  BY <1>0, <1>a, <1>16 DEF ActorUnflag, Ending
<1>17. ASSUME NEW k \in 1..MaxChunk, ReadData(k) PROVE Goal
  <2>1. NewBytes(k) \in Event
    BY NewBytesType, CapacityAssumption DEF TypeOK, Event
  <2>2. /\ actor \notin Ending /\ actor' \notin Ending /\ UNCHANGED <<connected, cmds>>
        /\ UNCHANGED subVars \/ Broadcast(NewBytes(k))
    BY <1>17, PublishSubs DEF ReadData, Ending
  <2>3. CASE UNCHANGED subVars
    BY <1>a, <2>2, <2>3 DEF Ending
  <2> QED BY <1>d, <2>1, <2>2, <2>3 DEF Ending
<1>18. ASSUME ReadIdle PROVE Goal
  BY <1>0, <1>a, <1>18 DEF ReadIdle, Ending
<1>19. ASSUME ReadFail PROVE Goal
  <2>1. /\ actor = "reading" /\ actor' \in {"exit", "unwind"} /\ UNCHANGED <<connected, cmds>>
        /\ UNCHANGED subVars \/ Broadcast(Closed)
    BY <1>19 DEF ReadFail
  <2>2. CASE UNCHANGED subVars
    BY <1>a, <2>1, <2>2 DEF Ending
  <2> QED BY <1>d, <1>e, <2>1, <2>2 DEF Ending
<1>20. ASSUME NEW c \in Callers, ExecIo(c) PROVE Goal
  <2>1. /\ Dequeue("io", c) /\ UNCHANGED connected /\ actor \notin Ending
        /\ actor' \in {"top", "drain", "exit", "unwind"}
        /\ UNCHANGED subVars \/ Broadcast(Closed)
    BY <1>20 DEF ExecIo, Continue, Dequeue, Ending
  <2>2. CASE UNCHANGED subVars
    BY <1>c, <2>1, <2>2 DEF Ending
  <2>3. CASE Broadcast(Closed)
    <3>1. SubQueueInv'
      BY <2>1, <2>3, BroadcastQueue, SubQueueDequeue DEF Broadcast
    <3>2. SubStateInv' /\ DisconnectVisibleFirst'
      BY <1>e, <2>1, <2>3, SubStateBroadcast
    <3> QED BY <3>1, <3>2
  <2> QED BY <2>1, <2>2, <2>3
<1>21. ASSUME NEW s \in Subs, ExecSubscribe(s) PROVE Goal
  <2>1. /\ Dequeue("subscribe", s) /\ UNCHANGED <<sub, reason, connected>>
        /\ actor \notin Ending /\ actor' \notin Ending
    BY <1>21 DEF ExecSubscribe, Continue, Dequeue, Ending
  <2>2. SubQueueInv'
    <3>1. \A t \in Subs : t # s => sender'[t] = sender[t]
      BY <1>21 DEF ExecSubscribe, TypeOK
    <3> QED BY <2>1, <3>1, SubQueueDequeue
  <2>3. sender[s] = "queued" /\ chan[s] = <<>> /\ reason[s] = "none" /\ sub[s] # "new"
    <3>1. Len(cmds) \in Nat \ {0} /\ DOMAIN cmds = 1..Len(cmds)
          /\ cmds[1] = [op |-> "subscribe", who |-> s]
      BY <2>1, DequeueEffect
    <3>2. 1 \in DOMAIN cmds
      BY <3>1
    <3>3. sender[s] = "queued"
      BY <3>1, <3>2 DEF SubQueueInv
    <3> QED BY <2>1, <3>3 DEF SubStateInv, Ending
  <2>4. PICK h \in {"held", "gone"}, q \in Seq(Event) :
          /\ sender' = [sender EXCEPT ![s] = h] /\ (h = "gone" => sub[s] = "dropped")
          /\ chan' = [chan EXCEPT ![s] = q] /\ Len(q) <= SubCapacity
    <3>1. chan[s] \in Seq(Event) /\ startup \in Event /\ chan = [chan EXCEPT ![s] = chan[s]]
      BY DEF TypeOK, Event
    <3>2. Append(chan[s], startup) \in Seq(Event) /\ Len(Append(chan[s], startup)) = 1
      BY <2>3, <3>1, AppendProperties, EmptySeq
    <3>3. Len(chan[s]) <= SubCapacity /\ 1 <= SubCapacity
      BY CapacityAssumption DEF SubStateInv
    <3>4. \/ sender' = [sender EXCEPT ![s] = "held"] /\ UNCHANGED chan
          \/ /\ sender' = [sender EXCEPT ![s] = "held"]
             /\ chan' = [chan EXCEPT ![s] = Append(@, startup)]
          \/ sender' = [sender EXCEPT ![s] = "gone"] /\ sub[s] = "dropped" /\ UNCHANGED chan
      BY <1>21 DEF ExecSubscribe
    <3> QED BY <3>1, <3>2, <3>3, <3>4
  <2>5. ASSUME NEW t \in Subs
        PROVE  /\ sub'[t] = "new" <=> sender'[t] = "none"
               /\ sender'[t] \in {"none", "queued"} => chan'[t] = <<>>
               /\ Len(chan'[t]) <= SubCapacity
               /\ actor' \notin Ending /\ sender'[t] # "gone" => reason'[t] = "none"
               /\ (sub'[t] = "live" /\ sender'[t] = "gone" /\ reason'[t] # "backlog"
                    => ~connected')
    <3>1. CASE t = s
      BY <2>1, <2>3, <2>4, <3>1 DEF TypeOK
    <3>2. CASE t # s
      BY <2>1, <2>4, <3>2 DEF TypeOK, SubStateInv, DisconnectVisibleFirst, Ending
    <3> QED BY <3>1, <3>2
  <2> QED BY <2>1, <2>2, <2>5 DEF SubStateInv, DisconnectVisibleFirst, Ending
<1>22. ASSUME NEW s \in Subs, ExecUnsubscribe(s) PROVE Goal
  <2>1. /\ Dequeue("unsubscribe", s) /\ UNCHANGED <<sub, reason, chan, connected>>
        /\ sender' = [sender EXCEPT ![s] = "gone"]
        /\ actor \notin Ending /\ actor' \notin Ending
    BY <1>22 DEF ExecUnsubscribe, Continue, Dequeue, Ending
  <2>2. SubQueueInv'
    BY <2>1, SubQueueDequeue DEF TypeOK
  <2>3. sub[s] = "dropped"
    <3>1. Len(cmds) \in Nat \ {0} /\ DOMAIN cmds = 1..Len(cmds)
          /\ cmds[1] = [op |-> "unsubscribe", who |-> s]
      BY <2>1, DequeueEffect
    <3>2. 1 \in DOMAIN cmds
      BY <3>1
    <3> QED BY <3>1, <3>2 DEF SubQueueInv
  <2> QED BY <2>1, <2>2, <2>3 DEF SubStateInv, DisconnectVisibleFirst, TypeOK, Ending
<1>23. ASSUME NEW o \in Owners, ExecAcquire(o) PROVE Goal
  <2>1. Safe /\ UNCHANGED subVars /\ Dequeue("acquire", o)
    BY <1>23 DEF ExecAcquire, Dequeue, Ending
  <2> QED BY <1>c, <2>1
<1>24. ASSUME NEW o \in Owners, ExecReturn(o) PROVE Goal
  <2>1. Safe /\ UNCHANGED subVars /\ Dequeue("return", o)
    BY <1>24 DEF ExecReturn, ReturnOutcome, Continue, Dequeue, Ending
  <2> QED BY <1>c, <2>1
<1>25. ASSUME NEW k \in Closers, ExecShutdown(k) PROVE Goal
  <2>1. Safe /\ UNCHANGED subVars /\ Dequeue("shutdown", k)
    BY <1>25 DEF ExecShutdown, Continue, Dequeue, Ending
  <2> QED BY <1>c, <2>1
<1>26. ASSUME ActorExit PROVE Goal
  <2>1. /\ actor' = "unwind" /\ connected' = FALSE /\ UNCHANGED <<sender, sub, chan, cmds>>
    BY <1>26 DEF ActorExit
  <2> QED BY <2>1, SubQueueKept DEF SubStateInv, DisconnectVisibleFirst
<1>27. ASSUME GuardDrop PROVE Goal
  BY <1>a, <1>27 DEF GuardDrop, Ending
<1>28. ASSUME DropState PROVE Goal
  <2>1. /\ actor = "drop" /\ actor' = "done" /\ UNCHANGED <<connected, sub, chan>>
        /\ sender' = [s \in Subs |-> IF sender[s] = "none" THEN "none" ELSE "gone"]
        /\ cmds' = <<>>
    BY <1>28 DEF DropState
  <2>2. SubQueueInv'
    BY <2>1 DEF SubQueueInv
  <2> QED BY <2>1, <2>2 DEF SubStateInv, DisconnectVisibleFirst
<1>29. CASE UNCHANGED vars
  BY <1>0, <1>a, <1>29 DEF vars, actorVars
<1> QED
  BY <1>1, <1>2, <1>3, <1>4, <1>5, <1>6, <1>7, <1>8, <1>9, <1>10, <1>11, <1>12, <1>13, <1>14, <1>15,
     <1>16, <1>17, <1>18, <1>19, <1>20, <1>21, <1>22, <1>23, <1>24, <1>25, <1>26, <1>27, <1>28, <1>29
  DEF Next, ActorStep, CallerStep, OwnerStep, SubStep

(* No subscription exists at the start.                                    *)
LEMMA SubInvInit == Init => SubInv
<1> SUFFICES ASSUME Init PROVE SubInv
  OBVIOUS
<1>1. DOMAIN cmds = {} /\ Len(<<>>) = 0
  BY EmptySeq DEF Init
<1> QED BY <1>1, CapacityAssumption
        DEF Init, SubInv, SubQueueInv, SubStateInv, DisconnectVisibleFirst

(* The commands of a subscription stay in their order and its queue within *)
(* its capacity, whatever the consumer does meanwhile.                     *)
THEOREM SubscriptionInvariant == Spec => []SubInv
BY SubInvInit, SubInvStep, TypeCorrect, PTL DEF Spec

(* A consumer that sees its queue end, other than for falling behind, sees *)
(* the session disconnected: the state guard of the actor clears the flag  *)
(* before any sender is dropped, on return and on unwinding alike.         *)
THEOREM DisconnectVisibleFirstHolds == Spec => []DisconnectVisibleFirst
BY SubscriptionInvariant, PTL DEF SubInv

-----------------------------------------------------------------------------
(* Closed events.                                                          *)

(* An event may be appended to a queue only while no Closed is in one.     *)
LEMMA ClosedAppended ==
  ASSUME TypeOK, ClosedIsLast, Alive, NEW event \in Event, Alive' => event # Closed,
         \A s \in Subs : chan'[s] = chan[s] \/ chan'[s] = Append(chan[s], event)
  PROVE  ClosedIsLast'
<1> SUFFICES ASSUME NEW s \in Subs, NEW i \in DOMAIN chan'[s], chan'[s][i] = Closed
             PROVE  i = Len(chan'[s]) /\ ~Alive'
  BY DEF ClosedIsLast
<1>1. chan[s] \in Seq(Event) /\ \A j \in DOMAIN chan[s] : chan[s][j] # Closed
  BY DEF TypeOK, ClosedIsLast
<1>2. chan'[s] = Append(chan[s], event)
  BY <1>1
<1>3. /\ Len(chan[s]) \in Nat /\ DOMAIN chan[s] = 1..Len(chan[s])
      /\ DOMAIN chan'[s] = 1..Len(chan[s]) + 1 /\ Len(chan'[s]) = Len(chan[s]) + 1
      /\ chan'[s][Len(chan[s]) + 1] = event
      /\ \A j \in DOMAIN chan[s] : chan'[s][j] = chan[s][j]
  BY <1>1, <1>2, AppendProperties, LenProperties
<1>4. i = Len(chan[s]) + 1
  BY <1>1, <1>3
<1> QED BY <1>3, <1>4

(* A step that leaves the queues alone keeps Closed last.                  *)
LEMMA ClosedKept ==
  ASSUME ClosedIsLast, UNCHANGED chan, Alive' => Alive
  PROVE  ClosedIsLast'
BY DEF ClosedIsLast

(* A broadcast of a living actor keeps Closed last.                        *)
LEMMA ClosedBroadcast ==
  ASSUME TypeOK, ClosedIsLast, Alive, NEW event \in Event, Alive' => event # Closed,
         Broadcast(event)
  PROVE  ClosedIsLast'
<1>1. \A s \in Subs : chan'[s] = chan[s] \/ chan'[s] = Append(chan[s], event)
  BY DEF Broadcast
<1> QED BY <1>1, ClosedAppended

(* And what a living actor publishes.                                      *)
LEMMA ClosedPublish ==
  ASSUME TypeOK, ClosedIsLast, Alive, NEW data \in Event, Publish(data)
  PROVE  ClosedIsLast'
<1>1. CASE UNCHANGED subVars
  BY <1>1, ClosedKept DEF subVars
<1>2. CASE data # <<>> /\ Broadcast(data)
  BY <1>2, ClosedBroadcast DEF Closed
<1> QED BY <1>1, <1>2 DEF Publish

(* Every step keeps Closed last.                                           *)
LEMMA ClosedStep == TypeOK /\ ClosedIsLast /\ [Next]_vars => ClosedIsLast'
<1> SUFFICES ASSUME TypeOK, ClosedIsLast, [Next]_vars PROVE ClosedIsLast'
  OBVIOUS
<1> USE DEF actorVars, subVars
<1>a. ASSUME UNCHANGED chan, Alive' => Alive PROVE ClosedIsLast'
  BY <1>a, ClosedKept
<1>1. ASSUME NEW c \in Callers, CallAdmit(c) PROVE ClosedIsLast'
  BY <1>a, <1>1 DEF CallAdmit, Alive
<1>2. ASSUME NEW c \in Callers, CallSend(c) PROVE ClosedIsLast'
  BY <1>a, <1>2 DEF CallSend, Alive
<1>3. ASSUME NEW o \in Owners, OwnerStep(o) PROVE ClosedIsLast'
  <2>1. UNCHANGED <<chan, actor>>
    BY <1>3 DEF OwnerStep, AcquireRequest, AcquireSend, AcquireFail, LeaseRead,
                ReleaseBegin, ReleaseSend, ReleaseClear
  <2> QED BY <1>a, <2>1 DEF Alive
<1>4. ASSUME NEW s \in Subs, Subscribe(s) PROVE ClosedIsLast'
  BY <1>a, <1>4 DEF Subscribe, Alive
<1>5. ASSUME NEW s \in Subs, Receive(s) PROVE ClosedIsLast'
  <2>1. chan' = [chan EXCEPT ![s] = Tail(@)] /\ chan[s] # <<>> /\ UNCHANGED actor
    BY <1>5 DEF Receive
  <2>2. chan[s] \in Seq(Event)
    BY DEF TypeOK
  <2>3. /\ Len(chan[s]) \in Nat \ {0} /\ DOMAIN chan[s] = 1..Len(chan[s])
        /\ Len(Tail(chan[s])) = Len(chan[s]) - 1
        /\ DOMAIN Tail(chan[s]) = 1..Len(chan[s]) - 1
        /\ \A i \in 1..Len(Tail(chan[s])) : Tail(chan[s])[i] = chan[s][i + 1]
    BY <2>1, <2>2, HeadTailProperties, LenProperties, EmptySeq
  <2>4. \A i \in DOMAIN chan'[s] :
          chan'[s][i] = Closed => i = Len(chan'[s]) /\ ~Alive'
    BY <2>1, <2>3 DEF ClosedIsLast, Alive, TypeOK
  <2> QED BY <2>1, <2>4 DEF ClosedIsLast, Alive, TypeOK
<1>6. ASSUME NEW s \in Subs, DropSubscription(s) PROVE ClosedIsLast'
  <2>1. chan' = [chan EXCEPT ![s] = <<>>] /\ UNCHANGED actor
    BY <1>6 DEF DropSubscription
  <2>2. chan'[s] = <<>>
    BY <2>1 DEF TypeOK
  <2> QED BY <2>1, <2>2 DEF ClosedIsLast, Alive, TypeOK
<1>7. ASSUME NEW k \in Closers, Shutdown(k) PROVE ClosedIsLast'
  BY <1>a, <1>7 DEF Shutdown, Alive
<1>8. ASSUME ActorTop PROVE ClosedIsLast'
  <2>1. handoff \in Event
    BY DEF TypeOK, Event
  <2>2. Alive /\ (UNCHANGED chan \/ Publish(handoff))
    BY <1>8 DEF ActorTop, Alive
  <2> QED BY <1>a, <2>1, <2>2, ClosedPublish
<1>9. ASSUME ActorQueueEmpty PROVE ClosedIsLast'
  BY <1>a, <1>9 DEF ActorQueueEmpty, Alive
<1>10. ASSUME ActorUnflag PROVE ClosedIsLast'
  BY <1>a, <1>10 DEF ActorUnflag, Alive
<1>11. ASSUME NEW k \in 1..MaxChunk, ReadData(k) PROVE ClosedIsLast'
  <2>1. NewBytes(k) \in Event
    BY NewBytesType, CapacityAssumption DEF TypeOK, Event
  <2>2. Alive /\ (UNCHANGED chan \/ Publish(NewBytes(k)))
    BY <1>11 DEF ReadData, Alive
  <2> QED BY <1>a, <2>1, <2>2, ClosedPublish
<1>12. ASSUME ReadIdle PROVE ClosedIsLast'
  BY <1>a, <1>12 DEF ReadIdle, Alive
<1>13. Closed \in Event
  BY EmptySeq DEF Closed, Event
<1>14. ASSUME ReadFail PROVE ClosedIsLast'
  BY <1>a, <1>13, <1>14, ClosedBroadcast DEF ReadFail, Alive
<1>15. ASSUME NEW c \in Callers, ExecIo(c) PROVE ClosedIsLast'
  <2>1. Alive /\ (UNCHANGED chan \/ (Broadcast(Closed) /\ ~Alive'))
    BY <1>15 DEF ExecIo, Dequeue, Alive
  <2> QED BY <1>a, <1>13, <2>1, ClosedBroadcast
<1>16. ASSUME NEW s \in Subs, ExecSubscribe(s) PROVE ClosedIsLast'
  <2>1. Alive /\ startup \in Event
    BY <1>16 DEF ExecSubscribe, Dequeue, Alive, TypeOK, Event
  <2>2. \/ UNCHANGED chan
        \/ startup # <<>> /\ chan' = [chan EXCEPT ![s] = Append(@, startup)]
    BY <1>16 DEF ExecSubscribe
  <2>3. CASE startup # <<>> /\ chan' = [chan EXCEPT ![s] = Append(@, startup)]
    <3>1. \A t \in Subs : chan'[t] = chan[t] \/ chan'[t] = Append(chan[t], startup)
      BY <2>3 DEF TypeOK
    <3> QED BY <2>1, <2>3, <3>1, ClosedAppended DEF Closed
  <2> QED BY <1>a, <2>1, <2>2, <2>3
<1>17. ASSUME NEW s \in Subs, ExecUnsubscribe(s) PROVE ClosedIsLast'
  BY <1>a, <1>17 DEF ExecUnsubscribe, Dequeue, Alive
<1>18. ASSUME NEW o \in Owners, ExecAcquire(o) PROVE ClosedIsLast'
  BY <1>a, <1>18 DEF ExecAcquire, Dequeue, Alive
<1>19. ASSUME NEW o \in Owners, ExecReturn(o) PROVE ClosedIsLast'
  BY <1>a, <1>19 DEF ExecReturn, Dequeue, Alive
<1>20. ASSUME NEW k \in Closers, ExecShutdown(k) PROVE ClosedIsLast'
  BY <1>a, <1>20 DEF ExecShutdown, Dequeue, Alive
<1>21. ASSUME ActorExit \/ GuardDrop \/ DropState PROVE ClosedIsLast'
  BY <1>a, <1>21 DEF ActorExit, GuardDrop, DropState, Alive
<1>22. CASE UNCHANGED vars
  BY <1>a, <1>22 DEF vars, Alive
<1> QED
  BY <1>1, <1>2, <1>3, <1>4, <1>5, <1>6, <1>7, <1>8, <1>9, <1>10, <1>11, <1>12, <1>14, <1>15,
     <1>16, <1>17, <1>18, <1>19, <1>20, <1>21, <1>22
  DEF Next, ActorStep, CallerStep, SubStep

(* The Closed event is the last one of every queue and means the actor has *)
(* left its loop: no data, not even a backlog, is sent after it.           *)
THEOREM ClosedIsLastHolds == Spec => []ClosedIsLast
<1>1. Init => ClosedIsLast
  BY DEF Init, ClosedIsLast
<1> QED BY <1>1, ClosedStep, TypeCorrect, PTL DEF Spec

-----------------------------------------------------------------------------
(* Bounded memory.                                                         *)

(* The lengths the buffer bounds speak of are numbers.                     *)
LEMMA LengthType ==
  ASSUME TypeOK
  PROVE  /\ Len(startup) \in Nat /\ Len(handoff) \in Nat /\ Len(<<>>) = 0
         /\ StartupLimit \in Nat /\ MaxChunk \in Nat
         /\ \A o \in Owners : Len(prefetched[o]) \in Nat
BY LenProperties, EmptySeq, CapacityAssumption DEF TypeOK

(* A step that leaves the buffers alone keeps their bounds.                *)
LEMMA BufferKept ==
  ASSUME BufferInv, UNCHANGED <<startup, handoff, prefetched, lease>>,
         \A s \in Subs : sender'[s] = "held" => sender[s] = "held",
         actor' \in {"drain", "reading"} => actor \in {"drain", "reading"}
  PROVE  BufferInv'
BY DEF BufferInv, HeldSubs

(* Publishing with no lease active.                                        *)
LEMMA BufferPublish ==
  ASSUME TypeOK, BufferInv, lease = None, NEW data \in Seq(Byte), Publish(data),
         UNCHANGED <<prefetched, lease>>, handoff' = <<>>
  PROVE  BufferInv'
<1>1. \A s \in Subs : sender'[s] = "held" => sender[s] = "held"
  BY PublishSubs, BroadcastEffect DEF subVars
<1>2. Len(startup') \in Nat /\ Len(startup') <= StartupLimit
      /\ (HeldSubs' # {} => startup' = <<>>)
  <2>1. CASE UNCHANGED startup
    BY <1>1, <2>1, LengthType DEF BufferInv, HeldSubs
  <2>2. CASE HeldSubs = {} /\ startup' = TrimStartup(startup \o data)
    <3>1. startup \o data \in Seq(Byte)
      BY ConcatProperties DEF TypeOK
    <3>2. startup' \in Seq(Byte) /\ Len(startup') <= StartupLimit
      BY <2>2, <3>1, TrimType
    <3> QED BY <1>1, <2>2, <3>2, LenProperties DEF HeldSubs
  <2> QED BY <2>1, <2>2 DEF Publish
<1> QED BY <1>2, LengthType DEF BufferInv

(* Every step keeps the bounds of the buffers.                             *)
LEMMA BufferStep == OwnershipInv /\ BufferInv /\ [Next]_vars => BufferInv'
<1> SUFFICES ASSUME OwnershipInv, BufferInv, [Next]_vars PROVE BufferInv'
  OBVIOUS
<1> USE DEF byteVars, subVars, actorVars
<1>0. TypeOK /\ LeaseInv
  BY DEF OwnershipInv
<1>a. ASSUME UNCHANGED <<startup, handoff, prefetched, lease, sender>>,
             actor' \in {"drain", "reading"} => actor \in {"drain", "reading"}
      PROVE  BufferInv'
  BY <1>a, BufferKept
<1>1. ASSUME NEW c \in Callers, CallerStep(c) PROVE BufferInv'
  BY <1>a, <1>1 DEF CallerStep, CallAdmit, CallSend
<1>2. ASSUME NEW o \in Owners, AcquireRequest(o) \/ AcquireSend(o) \/ AcquireFail(o)
                               \/ ReleaseBegin(o) \/ ReleaseSend(o) \/ ReleaseClear(o)
      PROVE  BufferInv'
  BY <1>a, <1>2 DEF AcquireRequest, AcquireSend, AcquireFail, ReleaseBegin, ReleaseSend,
                    ReleaseClear
<1>3. ASSUME NEW o \in Owners, LeaseRead(o) PROVE BufferInv'
  <2>1. prefetched[o] \in Seq(Byte) /\ Len(prefetched[o]) \in Nat /\ lease = o
    BY <1>0, <1>3, LengthType DEF TypeOK, LeaseRead, LeaseInv
  <2>2. \A k \in 1..Len(prefetched[o]) :
          LET rest == SubSeq(prefetched[o], k + 1, Len(prefetched[o]))
          IN rest \in Seq(Byte) /\ Len(rest) = Len(prefetched[o]) - k
    BY <2>1, SubSeqProperties, ElementOfSeq
  <2>3. PICK rest \in Seq(Byte) : /\ prefetched' = [prefetched EXCEPT ![o] = rest]
                                  /\ Len(rest) <= Len(prefetched[o])
    <3>1. CASE UNCHANGED prefetched
      BY <1>0, <2>1, <3>1 DEF TypeOK
    <3>2. CASE ~UNCHANGED prefetched
      <4>1. PICK k \in 1..Len(prefetched[o]) :
              prefetched' = [prefetched EXCEPT ![o] =
                               SubSeq(prefetched[o], k + 1, Len(prefetched[o]))]
        BY <1>3, <3>2 DEF LeaseRead
      <4> DEFINE kept == SubSeq(prefetched[o], k + 1, Len(prefetched[o]))
      <4>2. kept \in Seq(Byte) /\ Len(kept) <= Len(prefetched[o])
        BY <2>1, <2>2
      <4>3. prefetched' = [prefetched EXCEPT ![o] = kept]
        BY <4>1
      <4> HIDE DEF kept
      <4> QED BY <4>2, <4>3
    <3> QED BY <3>1, <3>2
  <2>4. \A p \in Owners : /\ prefetched'[p] # <<>> => lease = p
                          /\ Len(prefetched'[p]) <= StartupLimit + MaxChunk
    <3> SUFFICES ASSUME NEW p \in Owners
                 PROVE  /\ prefetched'[p] # <<>> => lease = p
                        /\ Len(prefetched'[p]) <= StartupLimit + MaxChunk
      OBVIOUS
    <3>1. CASE p = o
      <4>1. prefetched'[p] = rest
        BY <1>0, <2>3, <3>1 DEF TypeOK
      <4>2. Len(rest) \in Nat /\ Len(prefetched[o]) <= StartupLimit + MaxChunk
        BY LenProperties DEF BufferInv
      <4> QED BY <1>0, <2>1, <2>3, <3>1, <4>1, <4>2, LengthType
    <3>2. CASE p # o
      BY <1>0, <2>3, <3>2 DEF TypeOK, BufferInv
    <3> QED BY <3>1, <3>2
  <2>5. UNCHANGED <<startup, handoff, lease, sender, actor>>
    BY <1>3 DEF LeaseRead
  <2> QED BY <2>4, <2>5 DEF BufferInv, HeldSubs
<1>4. ASSUME NEW s \in Subs, Subscribe(s) PROVE BufferInv'
  <2>1. /\ UNCHANGED <<startup, handoff, prefetched, lease, actor>>
        /\ sender' = [sender EXCEPT ![s] = "queued"]
    BY <1>4 DEF Subscribe
  <2>2. \A t \in Subs : sender'[t] = "held" => sender[t] = "held"
    BY <1>0, <2>1 DEF TypeOK
  <2> QED BY <2>1, <2>2, BufferKept
<1>5. ASSUME NEW s \in Subs, Receive(s) \/ DropSubscription(s) PROVE BufferInv'
  BY <1>a, <1>5 DEF Receive, DropSubscription
<1>6. ASSUME NEW k \in Closers, Shutdown(k) PROVE BufferInv'
  BY <1>a, <1>6 DEF Shutdown
<1>7. ASSUME ActorTop PROVE BufferInv'
  <2>1. CASE UNCHANGED subVars /\ UNCHANGED byteVars /\ actor' = "recv"
    BY <1>7, <1>a, <2>1 DEF ActorTop
  <2>2. CASE lease = None /\ Publish(handoff) /\ handoff' = <<>> /\ UNCHANGED prefetched
    BY <1>0, <1>7, <2>2, BufferPublish DEF ActorTop, TypeOK
  <2> QED BY <1>7, <2>1, <2>2 DEF ActorTop
<1>8. ASSUME ActorQueueEmpty \/ ActorUnflag \/ ReadIdle PROVE BufferInv'
  BY <1>a, <1>8 DEF ActorQueueEmpty, ActorUnflag, ReadIdle
<1>9. ASSUME NEW k \in 1..MaxChunk, ReadData(k) PROVE BufferInv'
  <2>1. NewBytes(k) \in Seq(Byte) /\ Len(NewBytes(k)) = k /\ k \in Nat /\ k <= MaxChunk
    BY <1>0, NewBytesType, CapacityAssumption DEF TypeOK
  <2>2. lease = None /\ handoff = <<>> /\ UNCHANGED <<prefetched, lease>> /\ actor' = "top"
    BY <1>0, <1>9 DEF ReadData, BufferInv, LeaseInv
  <2>3. CASE handoff' = handoff \o NewBytes(k) /\ UNCHANGED <<startup, subVars>>
    <3>1. Len(handoff') = k
      BY <1>0, <2>1, <2>2, <2>3, ConcatProperties, EmptySeq
    <3> QED BY <1>0, <2>1, <2>2, <2>3, <3>1, LengthType DEF BufferInv, HeldSubs
  <2>4. CASE Publish(NewBytes(k)) /\ UNCHANGED handoff
    BY <1>0, <2>1, <2>2, <2>4, BufferPublish
  <2> QED BY <1>9, <2>3, <2>4 DEF ReadData
<1>10. ASSUME ReadFail PROVE BufferInv'
  <2>1. /\ UNCHANGED <<startup, handoff, prefetched, lease>> /\ actor' \in {"exit", "unwind"}
        /\ UNCHANGED subVars \/ Broadcast(Closed)
    BY <1>10 DEF ReadFail
  <2>2. \A s \in Subs : sender'[s] = "held" => sender[s] = "held"
    BY <1>0, <2>1, BroadcastEffect
  <2> QED BY <2>1, <2>2, BufferKept
<1>11. ASSUME NEW c \in Callers, ExecIo(c) PROVE BufferInv'
  <2>1. /\ UNCHANGED <<startup, handoff, prefetched, lease>>
        /\ actor' \in {"drain", "reading"} => actor \in {"drain", "reading"}
        /\ UNCHANGED subVars \/ Broadcast(Closed)
    BY <1>11 DEF ExecIo, Continue, Dequeue
  <2>2. \A s \in Subs : sender'[s] = "held" => sender[s] = "held"
    BY <1>0, <2>1, BroadcastEffect
  <2> QED BY <2>1, <2>2, BufferKept
<1>12. ASSUME NEW s \in Subs, ExecSubscribe(s) PROVE BufferInv'
  <2>1. /\ startup' = <<>> /\ UNCHANGED <<handoff, prefetched, lease>>
        /\ actor' \in {"drain", "reading"} => actor \in {"drain", "reading"}
    BY <1>12 DEF ExecSubscribe, Continue, Dequeue
  <2> QED BY <1>0, <2>1, LengthType DEF BufferInv
<1>13. ASSUME NEW s \in Subs, ExecUnsubscribe(s) PROVE BufferInv'
  <2>1. /\ UNCHANGED <<startup, handoff, prefetched, lease>>
        /\ sender' = [sender EXCEPT ![s] = "gone"]
        /\ actor' \in {"drain", "reading"} => actor \in {"drain", "reading"}
    BY <1>13 DEF ExecUnsubscribe, Continue, Dequeue
  <2>2. \A t \in Subs : sender'[t] = "held" => sender[t] = "held"
    BY <1>0, <2>1 DEF TypeOK
  <2> QED BY <2>1, <2>2, BufferKept
<1>14. ASSUME NEW o \in Owners, ExecAcquire(o) PROVE BufferInv'
  <2>1. CASE lease # None
    BY <1>a, <1>14, <2>1 DEF ExecAcquire
  <2>2. CASE lease = None
    <3>1. /\ prefetched' = [prefetched EXCEPT ![o] = startup \o handoff]
          /\ startup' = <<>> /\ handoff' = <<>> /\ lease' = o /\ UNCHANGED sender
      BY <1>14, <2>2 DEF ExecAcquire, TakeUnconsumed
    <3>2. Len(startup \o handoff) = Len(startup) + Len(handoff)
      BY <1>0, ConcatProperties DEF TypeOK
    <3>3. \A p \in Owners : p # o => prefetched[p] = <<>>
      BY <2>2, NoneAssumption DEF BufferInv
    <3>4. \A p \in Owners : prefetched'[p] = IF p = o THEN startup \o handoff ELSE prefetched[p]
      BY <1>0, <3>1 DEF TypeOK
    <3>5. \A p \in Owners : /\ prefetched'[p] # <<>> => lease' = p
                            /\ Len(prefetched'[p]) <= StartupLimit + MaxChunk
      BY <3>1, <3>2, <3>3, <3>4 DEF BufferInv
    <3> QED BY <1>0, <3>1, <3>5, LengthType DEF BufferInv
  <2> QED BY <2>1, <2>2
<1>15. ASSUME NEW o \in Owners, ExecReturn(o) PROVE BufferInv'
  <2>1. lease = o
    BY <1>0, <1>15, DequeueOwnership DEF ExecReturn, Ownership, OwnershipInv, LeaseInv
  <2>2. startup = <<>> /\ handoff = <<>> /\ prefetched[o] \in Seq(Byte)
        /\ actor \in {"top", "recv", "unflag"}
    BY <1>0, <2>1, NoneAssumption DEF BufferInv, LeaseInv, TypeOK
  <2>3. /\ handoff' = prefetched[o] \o handoff /\ lease' = None
        /\ prefetched' = [prefetched EXCEPT ![o] = <<>>] /\ UNCHANGED <<startup, sender>>
        /\ actor' \in {"top", "exit"}
    BY <1>15, <2>2 DEF ExecReturn, RestoreUnconsumed, ReturnOutcome, Continue, Dequeue
  <2>4. Len(handoff') = Len(prefetched[o])
    BY <1>0, <2>2, <2>3, ConcatProperties, EmptySeq, LengthType
  <2>5. \A p \in Owners : prefetched'[p] = <<>>
    BY <1>0, <2>1, <2>3 DEF TypeOK, BufferInv
  <2> QED BY <1>0, <2>2, <2>3, <2>4, <2>5, LengthType DEF BufferInv, HeldSubs
<1>16. ASSUME NEW k \in Closers, ExecShutdown(k) PROVE BufferInv'
  BY <1>a, <1>16 DEF ExecShutdown, Continue, Dequeue
<1>17. ASSUME ActorExit \/ GuardDrop PROVE BufferInv'
  BY <1>a, <1>17 DEF ActorExit, GuardDrop
<1>18. ASSUME DropState PROVE BufferInv'
  <2>1. /\ startup' = <<>> /\ handoff' = <<>> /\ actor' = "done"
        /\ UNCHANGED <<prefetched, lease>>
    BY <1>18 DEF DropState
  <2> QED BY <1>0, <2>1, LengthType DEF BufferInv
<1>19. CASE UNCHANGED vars
  BY <1>a, <1>19 DEF vars
<1> QED
  BY <1>1, <1>2, <1>3, <1>4, <1>5, <1>6, <1>7, <1>8, <1>9, <1>10, <1>11, <1>12, <1>13, <1>14,
     <1>15, <1>16, <1>17, <1>18, <1>19
  DEF Next, ActorStep, OwnerStep, SubStep

(* The buffers are empty at the start.                                     *)
LEMMA BufferInit == Init => BufferInv
<1> SUFFICES ASSUME Init PROVE BufferInv
  OBVIOUS
<1> QED BY TypeInit, LengthType DEF Init, BufferInv, HeldSubs

(* A lease carries every byte that waits in the actor, so the buffers of   *)
(* the actor and of the lease never hold bytes at the same time.           *)
THEOREM BufferInvariant == Spec => []BufferInv
BY BufferInit, BufferStep, OwnershipInvariant, PTL DEF Spec

(* However often leases come and go, what waits in the actor and in a      *)
(* lease is at most a full startup buffer and one physical read, and a     *)
(* consumer's queue keeps to its capacity.                                 *)
THEOREM BoundedMemoryHolds == Spec => []BoundedMemory
<1>1. TypeOK /\ BufferInv /\ SubInv => BoundedMemory
  <2> SUFFICES ASSUME TypeOK, BufferInv, SubInv PROVE BoundedMemory
    OBVIOUS
  <2>1. startup \o handoff \in Seq(Byte) /\ Len(startup \o handoff) = Len(startup) + Len(handoff)
    BY ConcatProperties DEF TypeOK
  <2>2. ASSUME NEW o \in Owners
        PROVE  Len(prefetched[o]) + Len(Buffered) <= StartupLimit + MaxChunk
    <3>1. CASE prefetched[o] = <<>>
      BY <2>1, <3>1, LengthType DEF BufferInv, Buffered
    <3>2. CASE prefetched[o] # <<>>
      <4>1. startup = <<>> /\ handoff = <<>> /\ Len(prefetched[o]) <= StartupLimit + MaxChunk
        BY <3>2, NoneAssumption DEF BufferInv
      <4>2. Len(Buffered) = 0
        BY <2>1, <4>1, LengthType DEF Buffered
      <4> QED BY <4>1, <4>2, LengthType
    <3> QED BY <3>1, <3>2
  <2> QED BY <2>2 DEF BoundedMemory, BufferInv, SubInv, SubStateInv
<1> QED BY <1>1, BufferInvariant, SubscriptionInvariant, TypeCorrect, PTL

-----------------------------------------------------------------------------
(* The byte stream.  Cutting and joining buffers, as sets of positions.    *)

(* The empty run of bytes has no position.                                 *)
LEMMA EmptyStream == Positions(<<>>) = {} /\ Increasing(<<>>)
BY DEF Positions, Increasing

(* Two runs joined are in order when each is and the first is older than   *)
(* the second.                                                             *)
LEMMA ConcatStream ==
  ASSUME NEW a \in Seq(Byte), NEW b \in Seq(Byte)
  PROVE  /\ a \o b \in Seq(Byte)
         /\ Positions(a \o b) = Positions(a) \cup Positions(b)
         /\ Increasing(a \o b) <=>
              /\ Increasing(a) /\ Increasing(b)
              /\ \A m \in Positions(a), n \in Positions(b) : m < n
<1> DEFINE c == a \o b
<1>1. /\ c \in Seq(Byte)
      /\ Len(a) \in Nat /\ Len(b) \in Nat
      /\ DOMAIN a = 1..Len(a) /\ DOMAIN b = 1..Len(b) /\ DOMAIN c = 1..Len(a) + Len(b)
      /\ \A i \in DOMAIN a : c[i] = a[i]
      /\ \A i \in DOMAIN b : c[Len(a) + i] = b[i]
  BY ConcatProperties, LenProperties
<1>2. \A i \in DOMAIN c : i \in DOMAIN a \/ \E j \in DOMAIN b : i = Len(a) + j
  <2> SUFFICES ASSUME NEW i \in DOMAIN c, i \notin DOMAIN a
               PROVE  \E j \in DOMAIN b : i = Len(a) + j
    OBVIOUS
  <2>1. i \in Nat /\ i - Len(a) \in 1..Len(b) /\ i = Len(a) + (i - Len(a))
    BY <1>1
  <2> QED BY <1>1, <2>1
<1>3. \A i \in DOMAIN a : i \in DOMAIN c
  BY <1>1
<1>4. \A i \in DOMAIN b : Len(a) + i \in DOMAIN c
  BY <1>1
<1>5. \A i \in DOMAIN a, j \in DOMAIN b : i < Len(a) + j
  BY <1>1
<1>6. \A i, j \in DOMAIN b : i < j <=> Len(a) + i < Len(a) + j
  BY <1>1
<1> HIDE DEF c
<1>7. Positions(c) = Positions(a) \cup Positions(b)
  <2>1. \A i \in DOMAIN c : c[i].n \in Positions(a) \cup Positions(b)
    BY <1>1, <1>2 DEF Positions
  <2>2. \A i \in DOMAIN a : a[i].n \in Positions(c)
    BY <1>1, <1>3 DEF Positions
  <2>3. \A i \in DOMAIN b : b[i].n \in Positions(c)
    BY <1>1, <1>4 DEF Positions
  <2> QED BY <2>1, <2>2, <2>3 DEF Positions
<1>8. ASSUME Increasing(c)
      PROVE  /\ Increasing(a) /\ Increasing(b)
             /\ \A m \in Positions(a), n \in Positions(b) : m < n
  <2>1. Increasing(a)
    BY <1>1, <1>3, <1>8 DEF Increasing
  <2>2. Increasing(b)
    BY <1>1, <1>4, <1>6, <1>8 DEF Increasing
  <2>3. \A i \in DOMAIN a, j \in DOMAIN b : a[i].n < b[j].n
    BY <1>1, <1>3, <1>4, <1>5, <1>8 DEF Increasing
  <2> QED BY <2>1, <2>2, <2>3 DEF Positions
<1>9. ASSUME Increasing(a), Increasing(b), \A m \in Positions(a), n \in Positions(b) : m < n
      PROVE  Increasing(c)
  <2>1. \A i \in DOMAIN a, j \in DOMAIN b : a[i].n < b[j].n
    BY <1>9 DEF Positions
  <2> SUFFICES ASSUME NEW i \in DOMAIN c, NEW j \in DOMAIN c, i < j
               PROVE  c[i].n < c[j].n
    BY DEF Increasing
  <2>2. CASE i \in DOMAIN a /\ j \in DOMAIN a
    BY <1>1, <1>9, <2>2 DEF Increasing
  <2>3. CASE i \in DOMAIN a /\ j \notin DOMAIN a
    BY <1>1, <1>2, <2>1, <2>3
  <2>4. CASE i \notin DOMAIN a
    <3>1. PICK p \in DOMAIN b : i = Len(a) + p
      BY <1>2, <2>4
    <3>2. j \notin DOMAIN a
      BY <1>1, <3>1
    <3>3. PICK q \in DOMAIN b : j = Len(a) + q
      BY <1>2, <3>2
    <3> QED BY <1>1, <1>6, <1>9, <3>1, <3>3 DEF Increasing
  <2> QED BY <2>2, <2>3, <2>4
<1> QED BY <1>1, <1>7, <1>8, <1>9 DEF c

(* Joining nothing changes nothing.                                        *)
LEMMA ConcatEmpty ==
  ASSUME NEW a \in Seq(Byte)
  PROVE  a \o <<>> = a /\ <<>> \o a = a
BY ConcatProperties, EmptySeq, LenProperties

(* A run is its beginning joined to its end.                               *)
LEMMA SplitStream ==
  ASSUME NEW a \in Seq(Byte), NEW k \in 0..Len(a)
  PROVE  /\ SubSeq(a, 1, k) \in Seq(Byte) /\ SubSeq(a, k + 1, Len(a)) \in Seq(Byte)
         /\ a = SubSeq(a, 1, k) \o SubSeq(a, k + 1, Len(a))
<1> DEFINE b == SubSeq(a, 1, k)
           c == SubSeq(a, k + 1, Len(a))
<1>1. Len(a) \in Nat /\ DOMAIN a = 1..Len(a) /\ k \in Nat /\ k <= Len(a)
  BY LenProperties
<1>2. \A i \in 1..Len(a) : a[i] \in Byte
  BY ElementOfSeq
<1>3. b \in Seq(Byte) /\ Len(b) = k /\ \A i \in 1..k : b[i] = a[i]
  BY <1>1, <1>2, SubSeqProperties
<1>4. c \in Seq(Byte) /\ Len(c) = Len(a) - k /\ \A i \in 1..Len(a) - k : c[i] = a[k + i]
  <2>1. /\ c \in Seq(Byte)
        /\ Len(c) = IF k + 1 <= Len(a) THEN Len(a) - (k + 1) + 1 ELSE 0
        /\ \A i \in 1..Len(a) - (k + 1) + 1 : c[i] = a[(k + 1) + i - 1]
    <3>1. k + 1 \in Int /\ Len(a) \in Int /\ \A i \in k + 1..Len(a) : a[i] \in Byte
      BY <1>1, <1>2
    <3> QED BY <3>1, SubSeqProperties
  <2> HIDE DEF c
  <2>2. /\ Len(a) - (k + 1) + 1 = Len(a) - k
        /\ (IF k + 1 <= Len(a) THEN Len(a) - (k + 1) + 1 ELSE 0) = Len(a) - k
    <3>1. \A x, y \in Nat : y <= x =>
            /\ x - (y + 1) + 1 = x - y
            /\ y + 1 <= x \/ x - y = 0
      OBVIOUS
    <3>2. /\ Len(a) - (k + 1) + 1 = Len(a) - k
          /\ k + 1 <= Len(a) \/ Len(a) - k = 0
      BY <1>1, <3>1
    <3> QED BY <3>2
  <2>3. \A i \in 1..Len(a) - k : (k + 1) + i - 1 = k + i
    BY <1>1
  <2> QED BY <2>1, <2>2, <2>3
<1> HIDE DEF b, c
<1>5. /\ b \o c \in Seq(Byte) /\ Len(b \o c) = Len(a)
      /\ \A i \in 1..Len(a) : (b \o c)[i] = IF i <= k THEN b[i] ELSE c[i - k]
  <2>1. Len(b) + Len(c) = Len(a)
    BY <1>1, <1>3, <1>4
  <2>2. /\ b \o c \in Seq(Byte) /\ Len(b \o c) = Len(b) + Len(c)
        /\ \A i \in 1..Len(b) + Len(c) : (b \o c)[i] = IF i <= Len(b) THEN b[i] ELSE c[i - Len(b)]
    BY <1>3, <1>4, ConcatProperties
  <2> QED BY <1>3, <2>1, <2>2
<1>6. \A i \in 1..Len(a) : (b \o c)[i] = a[i]
  <2> SUFFICES ASSUME NEW i \in 1..Len(a) PROVE (b \o c)[i] = a[i]
    OBVIOUS
  <2>1. CASE i <= k
    BY <1>1, <1>3, <1>5, <2>1
  <2>2. CASE ~(i <= k)
    <3>1. i - k \in 1..Len(a) - k /\ k + (i - k) = i
      BY <1>1, <2>2
    <3> QED BY <1>4, <1>5, <2>2, <3>1
  <2> QED BY <2>1, <2>2
<1>7. b \o c = a
  BY <1>1, <1>5, <1>6, SeqEqual
<1> QED BY <1>3, <1>4, <1>7 DEF b, c

(* What a read returns are the next positions of the stream, in order.     *)
LEMMA NewBytesStream ==
  ASSUME NEW k \in Nat, rx \in Nat
  PROVE  Positions(NewBytes(k)) = rx + 1..rx + k /\ Increasing(NewBytes(k))
<1>1. DOMAIN NewBytes(k) = 1..k /\ \A i \in 1..k : NewBytes(k)[i].n = rx + i
  BY DEF NewBytes
<1>2. Increasing(NewBytes(k))
  BY <1>1 DEF Increasing
<1>3. \A n \in rx + 1..rx + k : n - rx \in 1..k /\ n = rx + (n - rx)
  OBVIOUS
<1>4. \A n \in rx + 1..rx + k : \E i \in 1..k : n = NewBytes(k)[i].n
  BY <1>1, <1>3
<1>5. \A i \in 1..k : NewBytes(k)[i].n \in rx + 1..rx + k
  BY <1>1
<1> QED BY <1>1, <1>2, <1>4, <1>5 DEF Positions

(* The last byte of an event is its newest.                                *)
LEMMA LastByte ==
  ASSUME NEW a \in Seq(Byte), a # <<>>, Increasing(a)
  PROVE  /\ a[Len(a)].n \in Positions(a)
         /\ \A n \in Positions(a) : n <= a[Len(a)].n
<1>1. Len(a) \in Nat \ {0} /\ DOMAIN a = 1..Len(a) /\ \A i \in 1..Len(a) : a[i].n \in Nat
  <2>1. Len(a) \in Nat \ {0} /\ DOMAIN a = 1..Len(a)
    BY EmptySeq, LenProperties
  <2>2. \A i \in 1..Len(a) : a[i] \in Byte
    BY ElementOfSeq
  <2> QED BY <2>1, <2>2 DEF Byte
<1>2. \A i \in DOMAIN a : a[i].n <= a[Len(a)].n
  <2> SUFFICES ASSUME NEW i \in DOMAIN a PROVE a[i].n <= a[Len(a)].n
    OBVIOUS
  <2>1. CASE i = Len(a)
    BY <1>1, <2>1
  <2>2. CASE i < Len(a)
    BY <1>1, <2>2 DEF Increasing
  <2> QED BY <1>1, <2>1, <2>2
<1> QED BY <1>1, <1>2 DEF Positions

-----------------------------------------------------------------------------
(* The bytes that wait in the actor or in a lease, those consumed through  *)
(* leases, those published and those dropped are the bytes received, each  *)
(* in one place, and what waits is newer than what was handed out.         *)
Accounted(received, waiting, leased, shared, dropped) ==
  /\ 1..received = waiting \cup leased \cup shared \cup dropped
  /\ leased \cap shared = {}
  /\ dropped \cap (waiting \cup leased \cup shared) = {}
  /\ \A m \in waiting, n \in leased \cup shared : n < m

(* Buffers are in stream order.                                            *)
OrderInv == Increasing(Buffered) /\ \A o \in Owners : Increasing(prefetched[o])

(* What a subscription was sent is published, in order and newer than what *)
(* it has seen.                                                            *)
ChanInv ==
  \A s \in Subs :
    /\ seen[s] \in sharedOut \cup {0}
    /\ \A i \in DOMAIN chan[s] :
         /\ Increasing(chan[s][i])
         /\ Positions(chan[s][i]) \subseteq sharedOut
         /\ \A n \in Positions(chan[s][i]) : seen[s] < n
         /\ \A j \in DOMAIN chan[s] : i < j =>
              \A m \in Positions(chan[s][i]), n \in Positions(chan[s][j]) : m < n

StreamInv ==
  /\ Accounted(rx, Positions(Buffered) \cup LeaseBytes, leaseOut, sharedOut, lost)
  /\ OrderInv
  /\ ChanInv

(* The ways bytes move: handed out oldest first, dropped, or received.     *)
LEMMA HandedOut ==
  ASSUME NEW r \in Nat, NEW waiting, NEW leased, NEW shared, NEW dropped,
         Accounted(r, waiting, leased, shared, dropped),
         NEW out, NEW rest, waiting = out \cup rest, \A m \in out, n \in rest : m < n
  PROVE  /\ Accounted(r, rest, leased \cup out, shared, dropped)
         /\ Accounted(r, rest, leased, shared \cup out, dropped)
<1>1. waiting \subseteq Nat /\ leased \subseteq Nat /\ shared \subseteq Nat
  BY DEF Accounted
<1>2. \A n \in out : n \notin leased /\ n \notin shared /\ n \notin dropped
  <2>1. \A n \in out : n \in waiting /\ n \in Nat
    BY <1>1
  <2> QED BY <1>1, <2>1 DEF Accounted
<1>3. \A m \in rest, n \in leased \cup shared \cup out : n < m
  BY DEF Accounted
<1> QED BY <1>2, <1>3 DEF Accounted

(* Bytes that are thrown away are still accounted for.                     *)
LEMMA Dropped ==
  ASSUME NEW r \in Nat, NEW waiting, NEW leased, NEW shared, NEW dropped,
         Accounted(r, waiting, leased, shared, dropped),
         NEW out, NEW rest, waiting = out \cup rest, out \cap rest = {}
  PROVE  Accounted(r, rest, leased, shared, dropped \cup out)
<1>1. waiting \subseteq Nat /\ leased \subseteq Nat /\ shared \subseteq Nat
  BY DEF Accounted
<1>2. \A n \in out : n \notin leased /\ n \notin shared
  <2>1. \A n \in out : n \in waiting /\ n \in Nat
    BY <1>1
  <2> QED BY <1>1, <2>1 DEF Accounted
<1>3. \A m \in rest, n \in leased \cup shared : n < m
  BY DEF Accounted
<1> QED BY <1>2, <1>3 DEF Accounted

(* Bytes that arrive are accounted for as waiting.                         *)
LEMMA Received ==
  ASSUME NEW r \in Nat, NEW k \in Nat, NEW waiting, NEW leased, NEW shared, NEW dropped,
         Accounted(r, waiting, leased, shared, dropped)
  PROVE  Accounted(r + k, waiting \cup (r + 1..r + k), leased, shared, dropped)
<1>1. 1..r + k = 1..r \cup (r + 1..r + k)
  OBVIOUS
<1>2. waiting \subseteq 1..r /\ leased \subseteq 1..r /\ shared \subseteq 1..r
      /\ dropped \subseteq 1..r
  BY DEF Accounted
<1>3. \A m \in r + 1..r + k, n \in 1..r : n < m
  OBVIOUS
<1>4. \A m \in r + 1..r + k, n \in leased \cup shared : n < m
  BY <1>2, <1>3
<1>5. \A m \in r + 1..r + k : m \notin dropped
  <2>1. \A m \in r + 1..r + k : m \notin 1..r
    OBVIOUS
  <2> QED BY <1>2, <2>1
<1> QED BY <1>1, <1>4, <1>5 DEF Accounted

(* How the queues of subscriptions change.                                 *)
LEMMA ChanKept ==
  ASSUME ChanInv, UNCHANGED <<chan, seen>>, sharedOut \subseteq sharedOut'
  PROVE  ChanInv'
BY DEF ChanInv

(* A newer event may be appended to any of the queues.                     *)
LEMMA ChanAppended ==
  ASSUME TypeOK, ChanInv, NEW event \in Seq(Byte), Increasing(event),
         \A m \in Positions(event) : 0 < m /\ \A n \in sharedOut : n < m,
         sharedOut \cup Positions(event) \subseteq sharedOut', UNCHANGED seen,
         \A s \in Subs : chan'[s] = chan[s] \/ chan'[s] = Append(chan[s], event)
  PROVE  ChanInv'
<1> SUFFICES ASSUME NEW s \in Subs
             PROVE  /\ seen'[s] \in sharedOut' \cup {0}
                    /\ \A i \in DOMAIN chan'[s] :
                         /\ Increasing(chan'[s][i])
                         /\ Positions(chan'[s][i]) \subseteq sharedOut'
                         /\ \A n \in Positions(chan'[s][i]) : seen'[s] < n
                         /\ \A j \in DOMAIN chan'[s] : i < j =>
                              \A m \in Positions(chan'[s][i]), n \in Positions(chan'[s][j]) : m < n
  BY DEF ChanInv
<1>1. seen'[s] = seen[s] /\ seen[s] \in sharedOut \cup {0}
  BY DEF ChanInv
<1>2. \A i \in DOMAIN chan[s] :
        /\ Increasing(chan[s][i])
        /\ Positions(chan[s][i]) \subseteq sharedOut
        /\ \A n \in Positions(chan[s][i]) : seen[s] < n
        /\ \A j \in DOMAIN chan[s] : i < j =>
             \A m \in Positions(chan[s][i]), n \in Positions(chan[s][j]) : m < n
  BY DEF ChanInv
<1>3. CASE chan'[s] = chan[s]
  BY <1>1, <1>2, <1>3
<1>4. CASE chan'[s] = Append(chan[s], event)
  <2>1. chan[s] \in Seq(Event) /\ event \in Event
    BY DEF TypeOK, Event
  <2>2. /\ Len(chan[s]) \in Nat /\ DOMAIN chan[s] = 1..Len(chan[s])
        /\ DOMAIN chan'[s] = 1..Len(chan[s]) + 1
        /\ chan'[s][Len(chan[s]) + 1] = event
        /\ \A j \in DOMAIN chan[s] : chan'[s][j] = chan[s][j]
    BY <1>4, <2>1, AppendProperties, LenProperties
  <2>3. ASSUME NEW i \in DOMAIN chan'[s]
        PROVE  /\ Increasing(chan'[s][i])
               /\ Positions(chan'[s][i]) \subseteq sharedOut'
               /\ \A n \in Positions(chan'[s][i]) : seen'[s] < n
    <3>1. CASE i \in DOMAIN chan[s]
      BY <1>1, <1>2, <2>2, <3>1
    <3>2. CASE i = Len(chan[s]) + 1
      BY <1>1, <2>2, <3>2
    <3> QED BY <2>2, <3>1, <3>2
  <2>4. ASSUME NEW i \in DOMAIN chan'[s], NEW j \in DOMAIN chan'[s], i < j,
               NEW m \in Positions(chan'[s][i]), NEW n \in Positions(chan'[s][j])
        PROVE  m < n
    <3>1. i \in DOMAIN chan[s]
      BY <2>2, <2>4
    <3>2. CASE j \in DOMAIN chan[s]
      BY <1>2, <2>2, <2>4, <3>1, <3>2
    <3>3. CASE j = Len(chan[s]) + 1
      BY <1>2, <2>2, <3>1, <3>3
    <3> QED BY <2>2, <3>2, <3>3
  <2> QED BY <1>1, <2>3, <2>4
<1> QED BY <1>3, <1>4

(* A subscriber that takes an event keeps its queue newer than what it has *)
(* seen.                                                                   *)
LEMMA ChanReceive ==
  ASSUME TypeOK, ChanInv, NEW s \in Subs, Receive(s)
  PROVE  ChanInv'
<1> DEFINE event == Head(chan[s])
<1>1. /\ chan[s] # <<>> /\ chan[s] \in Seq(Event) /\ sharedOut' = sharedOut
      /\ chan' = [chan EXCEPT ![s] = Tail(chan[s])]
      /\ seen' = [seen EXCEPT ![s] = IF event = Closed THEN seen[s] ELSE event[Len(event)].n]
  BY DEF Receive, TypeOK, byteVars
<1>2. /\ Len(chan[s]) \in Nat \ {0} /\ DOMAIN chan[s] = 1..Len(chan[s])
      /\ DOMAIN Tail(chan[s]) = 1..Len(chan[s]) - 1
      /\ \A i \in 1..Len(chan[s]) - 1 : Tail(chan[s])[i] = chan[s][i + 1]
      /\ event = chan[s][1] /\ event \in Event
  BY <1>1, HeadTailProperties, LenProperties, EmptySeq
<1>3. \A i \in 1..Len(chan[s]) - 1 : i + 1 \in DOMAIN chan[s] /\ 1 < i + 1 /\ i \in Nat
  BY <1>2
<1>4. 1 \in DOMAIN chan[s]
  BY <1>2
<1>5. \A t \in Subs : t # s => chan'[t] = chan[t] /\ seen'[t] = seen[t]
  BY <1>1 DEF TypeOK
<1>6. chan'[s] = Tail(chan[s])
  BY <1>1 DEF TypeOK
<1>7. /\ seen'[s] \in sharedOut \cup {0}
      /\ \A i \in DOMAIN chan'[s] : \A n \in Positions(chan'[s][i]) : seen'[s] < n
  <2>1. CASE event = Closed
    <3>1. seen'[s] = seen[s]
      BY <1>1, <2>1 DEF TypeOK
    <3> QED BY <1>2, <1>3, <1>6, <3>1 DEF ChanInv
  <2>2. CASE event # Closed
    <3>1. seen'[s] = event[Len(event)].n
      BY <1>1, <2>2 DEF TypeOK
    <3>2. event \in Seq(Byte) /\ event # <<>> /\ Increasing(event)
      BY <1>2, <1>4, <2>2 DEF Event, Closed, ChanInv
    <3>3. event[Len(event)].n \in Positions(event)
      BY <3>2, LastByte
    <3>4. Positions(event) \subseteq sharedOut
      BY <1>2, <1>4 DEF ChanInv
    <3>5. \A i \in 1..Len(chan[s]) - 1 : \A m \in Positions(event), n \in Positions(chan[s][i + 1]) : m < n
      BY <1>2, <1>3, <1>4 DEF ChanInv
    <3> HIDE DEF event
    <3> QED BY <1>2, <1>6, <3>1, <3>3, <3>4, <3>5
  <2> QED BY <2>1, <2>2
<1>8. \A i \in DOMAIN chan'[s] :
        /\ Increasing(chan'[s][i])
        /\ Positions(chan'[s][i]) \subseteq sharedOut
  BY <1>2, <1>3, <1>6 DEF ChanInv
<1>9. ASSUME NEW i \in DOMAIN chan'[s], NEW j \in DOMAIN chan'[s], i < j
      PROVE  \A m \in Positions(chan'[s][i]), n \in Positions(chan'[s][j]) : m < n
  <2>1. i + 1 \in DOMAIN chan[s] /\ j + 1 \in DOMAIN chan[s] /\ i + 1 < j + 1
        /\ chan'[s][i] = chan[s][i + 1] /\ chan'[s][j] = chan[s][j + 1]
    BY <1>2, <1>3, <1>6, <1>9
  <2> QED BY <2>1 DEF ChanInv
<1> HIDE DEF event
<1> QED BY <1>1, <1>5, <1>7, <1>8, <1>9 DEF ChanInv

(* A subscriber that goes away has an empty queue.                         *)
LEMMA ChanDrop ==
  ASSUME TypeOK, ChanInv, NEW s \in Subs, DropSubscription(s)
  PROVE  ChanInv'
<1>1. chan' = [chan EXCEPT ![s] = <<>>] /\ UNCHANGED <<seen, sharedOut>>
  BY DEF DropSubscription, byteVars
<1>2. chan'[s] = <<>> /\ \A t \in Subs : t # s => chan'[t] = chan[t]
  BY <1>1 DEF TypeOK
<1> QED BY <1>1, <1>2 DEF ChanInv

(* Publishing the bytes that wait behind the startup buffer.               *)
LEMMA PublishStream ==
  ASSUME TypeOK, BufferInv, ChanInv, NEW r \in Nat, NEW data \in Seq(Byte), Publish(data),
         Accounted(r, Positions(startup \o data), leaseOut, sharedOut, lost),
         Increasing(startup \o data)
  PROVE  /\ Accounted(r, Positions(startup'), leaseOut, sharedOut', lost')
         /\ Increasing(startup')
         /\ ChanInv'
<1> DEFINE all == startup \o data
<1>1. all \in Seq(Byte) /\ startup \in Seq(Byte) /\ Increasing(all)
  BY ConcatStream DEF TypeOK
<1>2. CASE data = <<>>
  <2>1. UNCHANGED <<startup, lost, sharedOut, subVars>>
    BY <1>2 DEF Publish, HeldSubs
  <2>2. startup \o data = startup
    BY <1>1, <1>2, ConcatEmpty
  <2> QED BY <2>1, <2>2, ChanKept DEF subVars
<1>3. CASE data # <<>> /\ HeldSubs = {}
  <2>1. /\ startup' = TrimStartup(all) /\ UNCHANGED <<sharedOut, subVars>>
        /\ lost' = lost \cup (Positions(all) \ Positions(startup'))
    BY <1>3 DEF Publish
  <2> HIDE DEF all
  <2>2. PICK d \in 0..Len(all) : TrimStartup(all) = SubSeq(all, d + 1, Len(all))
    BY <1>1, TrimProperties
  <2>3. PICK gone \in Seq(Byte) : startup' \in Seq(Byte) /\ gone \o startup' = all
    <3>1. /\ SubSeq(all, 1, d) \in Seq(Byte) /\ startup' \in Seq(Byte)
          /\ all = SubSeq(all, 1, d) \o startup'
      BY <1>1, <2>1, <2>2, SplitStream
    <3> QED BY <3>1
  <2>4. Positions(startup') \subseteq Positions(all) /\ Increasing(startup')
    <3>1. /\ Positions(gone \o startup') = Positions(gone) \cup Positions(startup')
          /\ Increasing(gone \o startup') => Increasing(startup')
      BY <2>3, ConcatStream
    <3> QED BY <1>1, <2>3, <3>1
  <2>5. ChanInv'
    BY <2>1, ChanKept DEF subVars
  <2>6. Accounted(r, Positions(all), leaseOut, sharedOut, lost)
    BY DEF all
  <2>7. Positions(all) = (Positions(all) \ Positions(startup')) \cup Positions(startup')
        /\ (Positions(all) \ Positions(startup')) \cap Positions(startup') = {}
    BY <2>4
  <2>8. Accounted(r, Positions(startup'), leaseOut, sharedOut, lost')
    BY <2>1, <2>6, <2>7, Dropped
  <2> QED BY <2>1, <2>4, <2>5, <2>8
<1>4. CASE data # <<>> /\ HeldSubs # {}
  <2>1. /\ Broadcast(data) /\ UNCHANGED <<startup, lost>>
        /\ sharedOut' = sharedOut \cup Positions(data)
    BY <1>4 DEF Publish
  <2>2. startup = <<>> /\ startup \o data = data
    BY <1>4, ConcatEmpty DEF BufferInv
  <2>3. Accounted(r, Positions(data), leaseOut, sharedOut, lost) /\ Increasing(data)
    BY <2>2
  <2>4. Accounted(r, {}, leaseOut, sharedOut \cup Positions(data), lost)
    BY <2>3, HandedOut
  <2>5. Positions(startup') = {} /\ Increasing(startup')
    BY <2>1, <2>2, EmptyStream
  <2>6. Accounted(r, Positions(startup'), leaseOut, sharedOut', lost')
    BY <2>1, <2>4, <2>5
  <2>7. \A m \in Positions(data) : m \in 1..r /\ \A n \in sharedOut : n < m
    BY <2>3 DEF Accounted
  <2>8. \A m \in Positions(data) : 0 < m /\ \A n \in sharedOut : n < m
    BY <2>7
  <2>9. \A s \in Subs : chan'[s] = chan[s] \/ chan'[s] = Append(chan[s], data)
    BY <2>1 DEF Broadcast
  <2>10. ChanInv'
    BY <2>1, <2>3, <2>8, <2>9, ChanAppended DEF Broadcast
  <2> QED BY <2>5, <2>6, <2>10
<1> QED BY <1>2, <1>3, <1>4

(* The bytes of the leases, when at most one lease has any.                *)
LEMMA LeaseBytesOf ==
  ASSUME NEW f \in [Owners -> Seq(Byte)], NEW o \in Owners,
         \A p \in Owners : p # o => f[p] = <<>>
  PROVE  UNION {Positions(f[p]) : p \in Owners} = Positions(f[o])
BY EmptyStream

(* With no prefetched bytes nothing waits with an owner.                   *)
LEMMA LeaseBytesNone ==
  ASSUME NEW f, \A p \in Owners : f[p] = <<>>
  PROVE  UNION {Positions(f[p]) : p \in Owners} = {}
BY EmptyStream

(* A Closed event carries no bytes.                                        *)
LEMMA ClosedChan ==
  ASSUME TypeOK, ChanInv, UNCHANGED sharedOut, UNCHANGED subVars \/ Broadcast(Closed)
  PROVE  ChanInv'
<1>1. CASE UNCHANGED subVars
  BY <1>1, ChanKept DEF subVars
<1>2. CASE Broadcast(Closed)
  <2>1. Closed \in Seq(Byte) /\ Increasing(Closed) /\ Positions(Closed) = {}
    BY EmptySeq, EmptyStream DEF Closed
  <2>2. \A s \in Subs : chan'[s] = chan[s] \/ chan'[s] = Append(chan[s], Closed)
    BY <1>2 DEF Broadcast
  <2> QED BY <1>2, <2>1, <2>2, ChanAppended DEF Broadcast
<1> QED BY <1>1, <1>2

(* A step that leaves the bytes where they are keeps the stream.           *)
LEMMA StreamKept ==
  ASSUME Accounted(rx, Positions(Buffered) \cup LeaseBytes, leaseOut, sharedOut, lost),
         OrderInv, ChanInv',
         UNCHANGED <<startup, handoff, prefetched, rx, leaseOut, sharedOut, lost>>
  PROVE  StreamInv'
<1>1. Buffered' = Buffered /\ LeaseBytes' = LeaseBytes
  BY DEF Buffered, LeaseBytes, Positions
<1>2. Accounted(rx, Positions(Buffered) \cup LeaseBytes, leaseOut, sharedOut, lost)'
  BY <1>1 DEF Accounted, Positions
<1>3. OrderInv'
  BY <1>1 DEF OrderInv, Increasing
<1> QED BY <1>2, <1>3 DEF StreamInv

(* Every step keeps every byte in one place and in order.                  *)
LEMMA StreamStep == OwnershipInv /\ BufferInv /\ StreamInv /\ [Next]_vars => StreamInv'
<1> SUFFICES ASSUME OwnershipInv, BufferInv, StreamInv, [Next]_vars PROVE StreamInv'
  OBVIOUS
<1> USE DEF byteVars
<1>0. /\ TypeOK /\ LeaseInv /\ OrderInv /\ ChanInv
      /\ Accounted(rx, Positions(Buffered) \cup LeaseBytes, leaseOut, sharedOut, lost)
  BY DEF OwnershipInv, StreamInv
<1>a. ASSUME UNCHANGED byteVars, UNCHANGED subVars \/ Broadcast(Closed) PROVE StreamInv'
  BY <1>0, <1>a, ClosedChan, StreamKept
<1>b. ASSUME UNCHANGED <<byteVars, chan, seen>> PROVE StreamInv'
  BY <1>0, <1>b, ChanKept, StreamKept
<1>c. /\ startup \in Seq(Byte) /\ handoff \in Seq(Byte) /\ rx \in Nat
      /\ prefetched \in [Owners -> Seq(Byte)]
      /\ Buffered \in Seq(Byte) /\ Positions(Buffered) = Positions(startup) \cup Positions(handoff)
      /\ Increasing(startup) /\ Increasing(handoff)
      /\ \A m \in Positions(startup), n \in Positions(handoff) : m < n
  BY <1>0, ConcatStream DEF TypeOK, Buffered, OrderInv
<1>d. lease = None => \A p \in Owners : prefetched[p] = <<>>
  BY NoneAssumption DEF BufferInv
<1>e. lease = None => LeaseBytes = {}
  BY <1>d, LeaseBytesNone DEF LeaseBytes
<1>f. ASSUME NEW o \in Owners, lease = o
      PROVE  /\ startup = <<>> /\ handoff = <<>> /\ Buffered = <<>>
             /\ \A p \in Owners : p # o => prefetched[p] = <<>>
             /\ LeaseBytes = Positions(prefetched[o])
             /\ Accounted(rx, Positions(prefetched[o]), leaseOut, sharedOut, lost)
  <2>1. startup = <<>> /\ handoff = <<>> /\ \A p \in Owners : p # o => prefetched[p] = <<>>
    BY <1>f, NoneAssumption DEF BufferInv
  <2>2. Buffered = <<>>
    BY <1>c, <2>1, ConcatEmpty DEF Buffered
  <2>3. LeaseBytes = Positions(prefetched[o])
    BY <1>c, <2>1, LeaseBytesOf DEF LeaseBytes
  <2>4. Positions(Buffered) \cup LeaseBytes = Positions(prefetched[o])
    BY <2>2, <2>3, EmptyStream
  <2> QED BY <1>0, <2>1, <2>2, <2>3, <2>4
(* Publishing with no lease active.                                        *)
<1>g. ASSUME lease = None, NEW r \in Nat, rx' = r, NEW data \in Seq(Byte), Publish(data),
             Accounted(r, Positions(startup \o data), leaseOut, sharedOut, lost),
             Increasing(startup \o data), handoff' = <<>>, UNCHANGED <<prefetched, leaseOut>>
      PROVE  StreamInv'
  <2>1. /\ Accounted(r, Positions(startup'), leaseOut, sharedOut', lost')
        /\ Increasing(startup') /\ ChanInv'
    BY <1>0, <1>g, PublishStream
  <2>2. startup' \in Seq(Byte)
    BY <1>0, <1>g, PublishType DEF TypeOK, SubTypes
  <2>3. Buffered' = startup'
    BY <1>g, <2>2, ConcatEmpty DEF Buffered
  <2>4. LeaseBytes' = {}
    BY <1>e, <1>g DEF LeaseBytes
  <2>5. (Positions(Buffered) \cup LeaseBytes)' = Positions(startup')
    BY <2>3, <2>4 DEF Positions
  <2>6. Accounted(rx', (Positions(Buffered) \cup LeaseBytes)', leaseOut', sharedOut', lost')
    BY <1>g, <2>1, <2>5
  <2>7. OrderInv'
    BY <1>0, <1>g, <2>1, <2>3 DEF OrderInv, Increasing
  <2> QED BY <2>1, <2>6, <2>7 DEF StreamInv, Accounted
<1>1. ASSUME NEW c \in Callers, CallerStep(c) PROVE StreamInv'
  BY <1>a, <1>1 DEF CallerStep, CallAdmit, CallSend
<1>2. ASSUME NEW o \in Owners, AcquireRequest(o) \/ AcquireSend(o) \/ AcquireFail(o)
                               \/ ReleaseBegin(o) \/ ReleaseSend(o) \/ ReleaseClear(o)
      PROVE  StreamInv'
  BY <1>a, <1>2 DEF AcquireRequest, AcquireSend, AcquireFail, ReleaseBegin, ReleaseSend,
                    ReleaseClear
<1>3. ASSUME NEW o \in Owners, LeaseRead(o) PROVE StreamInv'
  <2>0. lease = o
    BY <1>0, <1>3 DEF LeaseRead, LeaseInv
  <2>1. /\ startup = <<>> /\ handoff = <<>> /\ Buffered = <<>>
        /\ \A p \in Owners : p # o => prefetched[p] = <<>>
        /\ Accounted(rx, Positions(prefetched[o]), leaseOut, sharedOut, lost)
    BY <1>f, <2>0
  <2>2. UNCHANGED <<startup, handoff, sharedOut, lost, chan, seen>>
    BY <1>3 DEF LeaseRead, subVars
  <2>3. ChanInv' /\ Buffered' = <<>> /\ Positions(Buffered)' = {} /\ Increasing(Buffered)'
    BY <1>0, <2>1, <2>2, ChanKept, EmptyStream DEF Buffered
  <2>4. PICK rest \in Seq(Byte) :
          /\ prefetched' = [prefetched EXCEPT ![o] = rest] /\ Increasing(rest)
          /\ Accounted(rx', Positions(rest), leaseOut', sharedOut, lost)
    <3>1. prefetched[o] \in Seq(Byte) /\ Increasing(prefetched[o])
      BY <1>0, <1>c DEF OrderInv
    <3>2. ASSUME NEW k \in 1..Len(prefetched[o]), UNCHANGED rx,
                 leaseOut' = leaseOut \cup Positions(SubSeq(prefetched[o], 1, k)),
                 prefetched' = [prefetched EXCEPT ![o] = SubSeq(@, k + 1, Len(@))]
          PROVE  \E rest \in Seq(Byte) :
                   /\ prefetched' = [prefetched EXCEPT ![o] = rest] /\ Increasing(rest)
                   /\ Accounted(rx', Positions(rest), leaseOut', sharedOut, lost)
      <4> DEFINE first == SubSeq(prefetched[o], 1, k)
                 kept == SubSeq(prefetched[o], k + 1, Len(prefetched[o]))
      <4>1. k \in 0..Len(prefetched[o])
        BY <3>1, LenProperties
      <4>2. first \in Seq(Byte) /\ kept \in Seq(Byte) /\ prefetched[o] = first \o kept
        BY <3>1, <4>1, SplitStream
      <4>3. prefetched' = [prefetched EXCEPT ![o] = kept] /\ leaseOut' = leaseOut \cup Positions(first)
        BY <3>2
      <4> HIDE DEF first, kept
      <4>4. /\ Positions(prefetched[o]) = Positions(first) \cup Positions(kept)
            /\ Increasing(kept) /\ \A m \in Positions(first), n \in Positions(kept) : m < n
        BY <3>1, <4>2, ConcatStream
      <4>5. Accounted(rx, Positions(kept), leaseOut \cup Positions(first), sharedOut, lost)
        BY <1>c, <2>1, <4>4, HandedOut
      <4> QED BY <3>2, <4>2, <4>3, <4>4, <4>5
    <3>3. ASSUME NEW k \in 1..MaxChunk, prefetched[o] = <<>>, rx' = rx + k,
                 leaseOut' = leaseOut \cup Positions(NewBytes(k)), UNCHANGED prefetched
          PROVE  \E rest \in Seq(Byte) :
                   /\ prefetched' = [prefetched EXCEPT ![o] = rest] /\ Increasing(rest)
                   /\ Accounted(rx', Positions(rest), leaseOut', sharedOut, lost)
      <4>1. k \in Nat /\ Positions(NewBytes(k)) = rx + 1..rx + k
        BY <1>c, NewBytesStream, CapacityAssumption
      <4>2. Accounted(rx, {}, leaseOut, sharedOut, lost)
        BY <2>1, <3>3, EmptyStream
      <4>3. Accounted(rx + k, {} \cup (rx + 1..rx + k), leaseOut, sharedOut, lost)
        BY <1>c, <4>1, <4>2, Received
      <4>4. rx + k \in Nat /\ {} \cup (rx + 1..rx + k) = Positions(NewBytes(k)) \cup {}
        BY <1>c, <4>1
      <4>5. Accounted(rx + k, {}, leaseOut \cup Positions(NewBytes(k)), sharedOut, lost)
        BY <4>3, <4>4, HandedOut
      <4>6. prefetched' = [prefetched EXCEPT ![o] = <<>>] /\ <<>> \in Seq(Byte)
        BY <1>c, <3>3, EmptySeq
      <4> QED BY <3>3, <4>5, <4>6, EmptyStream
    <3> QED BY <1>3, <3>2, <3>3 DEF LeaseRead
  <2>5. /\ prefetched' \in [Owners -> Seq(Byte)] /\ prefetched'[o] = rest
        /\ \A p \in Owners : p # o => prefetched'[p] = prefetched[p]
    BY <1>c, <2>4
  <2>6. LeaseBytes' = Positions(rest)
    <3>1. \A p \in Owners : p # o => prefetched'[p] = <<>>
      BY <2>1, <2>5
    <3>2. UNION {Positions(prefetched'[p]) : p \in Owners} = Positions(prefetched'[o])
      BY <2>5, <3>1, LeaseBytesOf
    <3> QED BY <2>5, <3>2 DEF LeaseBytes, Positions
  <2>7. (Positions(Buffered) \cup LeaseBytes)' = Positions(rest)
    BY <2>3, <2>6
  <2>8. OrderInv'
    BY <1>0, <2>3, <2>4, <2>5 DEF OrderInv, Increasing
  <2>9. Accounted(rx, Positions(Buffered) \cup LeaseBytes, leaseOut, sharedOut, lost)'
    BY <2>2, <2>4, <2>7 DEF Accounted
  <2> QED BY <2>3, <2>8, <2>9 DEF StreamInv
<1>4. ASSUME NEW s \in Subs, Subscribe(s) PROVE StreamInv'
  BY <1>b, <1>4 DEF Subscribe
<1>5. ASSUME NEW s \in Subs, Receive(s) PROVE StreamInv'
  BY <1>0, <1>5, ChanReceive, StreamKept DEF Receive
<1>6. ASSUME NEW s \in Subs, DropSubscription(s) PROVE StreamInv'
  BY <1>0, <1>6, ChanDrop, StreamKept DEF DropSubscription
<1>7. ASSUME NEW k \in Closers, Shutdown(k) PROVE StreamInv'
  BY <1>a, <1>7 DEF Shutdown
<1>8. ASSUME ActorTop PROVE StreamInv'
  <2>1. CASE UNCHANGED <<subVars, byteVars>>
    BY <1>a, <2>1
  <2>2. CASE lease = None /\ Publish(handoff) /\ handoff' = <<>>
             /\ UNCHANGED <<prefetched, rx, leaseOut>>
    <3>1. Positions(Buffered) \cup LeaseBytes = Positions(startup \o handoff)
          /\ Increasing(startup \o handoff)
      BY <1>0, <1>e, <2>2 DEF Buffered, OrderInv
    <3>2. Accounted(rx, Positions(startup \o handoff), leaseOut, sharedOut, lost)
      BY <1>0, <3>1
    <3> QED BY <1>c, <1>g, <2>2, <3>1, <3>2
  <2> QED BY <1>8, <2>1, <2>2 DEF ActorTop
<1>9. ASSUME ActorQueueEmpty \/ ActorUnflag \/ ReadIdle PROVE StreamInv'
  BY <1>a, <1>9 DEF ActorQueueEmpty, ActorUnflag, ReadIdle
<1>10. ASSUME NEW k \in 1..MaxChunk, ReadData(k) PROVE StreamInv'
  <2>0. k \in Nat /\ rx + k \in Nat /\ NewBytes(k) \in Seq(Byte)
        /\ Positions(NewBytes(k)) = rx + 1..rx + k /\ Increasing(NewBytes(k))
    <3>1. k \in Nat /\ rx \in Nat /\ rx + k \in Nat
      BY <1>c, CapacityAssumption
    <3> QED BY <3>1, NewBytesType, NewBytesStream
  <2>1. lease = None /\ handoff = <<>> /\ rx' = rx + k /\ UNCHANGED <<prefetched, leaseOut>>
    BY <1>0, <1>10 DEF ReadData, BufferInv, LeaseInv
  <2>2. Positions(Buffered) \cup LeaseBytes = Positions(startup)
    BY <1>c, <1>e, <2>1, EmptyStream
  <2>3. Accounted(rx + k, Positions(startup) \cup (rx + 1..rx + k), leaseOut, sharedOut, lost)
    BY <1>0, <1>c, <2>0, <2>2, Received
  <2>4. \A m \in Positions(startup), n \in rx + 1..rx + k : m < n
    <3>1. \A m \in Positions(startup) : m \in 1..rx
      BY <1>0, <2>2 DEF Accounted
    <3> QED BY <1>c, <2>0, <3>1
  <2>5. /\ startup \o NewBytes(k) \in Seq(Byte) /\ Increasing(startup \o NewBytes(k))
        /\ Positions(startup \o NewBytes(k)) = Positions(startup) \cup (rx + 1..rx + k)
    BY <1>c, <2>0, <2>4, ConcatStream
  <2>6. Accounted(rx + k, Positions(startup \o NewBytes(k)), leaseOut, sharedOut, lost)
    BY <2>3, <2>5
  <2>7. CASE handoff' = handoff \o NewBytes(k) /\ UNCHANGED <<startup, lost, sharedOut, subVars>>
    <3>1. handoff' = NewBytes(k)
      BY <2>0, <2>1, <2>7, ConcatEmpty
    <3>2. Buffered' = startup \o NewBytes(k) /\ LeaseBytes' = {}
      BY <1>e, <2>1, <2>7, <3>1 DEF Buffered, LeaseBytes
    <3>3. (Positions(Buffered) \cup LeaseBytes)' = Positions(startup \o NewBytes(k))
      BY <3>2 DEF Positions
    <3>4. Accounted(rx, Positions(Buffered) \cup LeaseBytes, leaseOut, sharedOut, lost)'
      BY <2>1, <2>6, <2>7, <3>3 DEF Accounted
    <3>5. OrderInv'
      BY <1>0, <2>1, <2>5, <3>2 DEF OrderInv, Increasing
    <3>6. ChanInv'
      BY <1>0, <2>7, ChanKept DEF subVars
    <3> QED BY <3>4, <3>5, <3>6 DEF StreamInv
  <2>8. CASE Publish(NewBytes(k)) /\ UNCHANGED handoff
    BY <1>g, <2>0, <2>1, <2>5, <2>6, <2>8
  <2> QED BY <1>10, <2>7, <2>8 DEF ReadData
<1>11. ASSUME ReadFail PROVE StreamInv'
  BY <1>a, <1>11 DEF ReadFail
<1>12. ASSUME NEW c \in Callers, ExecIo(c) PROVE StreamInv'
  BY <1>a, <1>12 DEF ExecIo
<1>13. ASSUME NEW s \in Subs, ExecSubscribe(s) PROVE StreamInv'
  <2>1. startup' = <<>> /\ UNCHANGED <<handoff, prefetched, rx, leaseOut, seen>>
    BY <1>13 DEF ExecSubscribe
  <2>2. Buffered' = handoff /\ LeaseBytes' = LeaseBytes
    BY <1>c, <2>1, ConcatEmpty DEF Buffered, LeaseBytes
  <2>3. (Positions(Buffered) \cup LeaseBytes)' = Positions(handoff) \cup LeaseBytes
    BY <2>2 DEF Positions
  <2>4. OrderInv'
    BY <1>0, <1>c, <2>1, <2>2 DEF OrderInv, Increasing
  <2>5. CASE startup = <<>> /\ UNCHANGED <<chan, sharedOut, lost>>
    <3>1. Positions(Buffered) \cup LeaseBytes = Positions(handoff) \cup LeaseBytes
      BY <1>c, <2>5, EmptyStream
    <3>2. Accounted(rx, Positions(Buffered) \cup LeaseBytes, leaseOut, sharedOut, lost)'
      BY <1>0, <2>1, <2>3, <2>5, <3>1 DEF Accounted
    <3>3. ChanInv'
      BY <1>0, <2>1, <2>5, ChanKept
    <3> QED BY <2>4, <3>2, <3>3 DEF StreamInv
  <2>6. startup # <<>> => LeaseBytes = {}
    BY <1>e DEF BufferInv
  <2>7. startup # <<>> =>
          /\ Positions(Buffered) \cup LeaseBytes = Positions(startup) \cup Positions(handoff)
          /\ (Positions(Buffered) \cup LeaseBytes)' = Positions(handoff)
    BY <1>c, <2>3, <2>6
  <2>8. CASE /\ startup # <<>> /\ UNCHANGED lost
             /\ chan' = [chan EXCEPT ![s] = Append(@, startup)]
             /\ sharedOut' = sharedOut \cup Positions(startup)
    <3>1. Accounted(rx, Positions(startup) \cup Positions(handoff), leaseOut, sharedOut, lost)
      BY <1>0, <2>7, <2>8
    <3>2. Accounted(rx, Positions(handoff), leaseOut, sharedOut \cup Positions(startup), lost)
      BY <1>c, <3>1, HandedOut
    <3>3. Accounted(rx, Positions(Buffered) \cup LeaseBytes, leaseOut, sharedOut, lost)'
      BY <2>1, <2>7, <2>8, <3>2 DEF Accounted
    <3>4. \A m \in Positions(startup) : m \in 1..rx /\ \A n \in sharedOut : n < m
      BY <3>1 DEF Accounted
    <3>5. \A m \in Positions(startup) : 0 < m /\ \A n \in sharedOut : n < m
      BY <1>c, <3>4
    <3>6. \A t \in Subs : chan'[t] = chan[t] \/ chan'[t] = Append(chan[t], startup)
      BY <1>0, <2>8 DEF TypeOK
    <3>7. ChanInv'
      BY <1>0, <1>c, <2>1, <2>8, <3>5, <3>6, ChanAppended
    <3> QED BY <2>4, <3>3, <3>7 DEF StreamInv
  <2>9. CASE /\ startup # <<>> /\ UNCHANGED <<chan, sharedOut>>
             /\ lost' = lost \cup Positions(startup)
    <3>1. Accounted(rx, Positions(startup) \cup Positions(handoff), leaseOut, sharedOut, lost)
      BY <1>0, <2>7, <2>9
    <3>2. Positions(startup) \cap Positions(handoff) = {}
      <4>1. Positions(startup) \subseteq Nat
        BY <1>c, PositionsType
      <4> QED BY <1>c, <4>1
    <3>3. Accounted(rx, Positions(handoff), leaseOut, sharedOut, lost \cup Positions(startup))
      BY <1>c, <3>1, <3>2, Dropped
    <3>4. Accounted(rx, Positions(Buffered) \cup LeaseBytes, leaseOut, sharedOut, lost)'
      BY <2>1, <2>7, <2>9, <3>3 DEF Accounted
    <3>5. ChanInv'
      BY <1>0, <2>1, <2>9, ChanKept
    <3> QED BY <2>4, <3>4, <3>5 DEF StreamInv
  <2> QED BY <1>13, <2>5, <2>8, <2>9 DEF ExecSubscribe
<1>14. ASSUME NEW s \in Subs, ExecUnsubscribe(s) PROVE StreamInv'
  BY <1>b, <1>14 DEF ExecUnsubscribe
<1>15. ASSUME NEW o \in Owners, ExecAcquire(o) PROVE StreamInv'
  <2>1. CASE lease # None
    BY <1>a, <1>15, <2>1 DEF ExecAcquire
  <2>2. CASE lease = None
    <3>1. /\ prefetched' = [prefetched EXCEPT ![o] = Buffered]
          /\ startup' = <<>> /\ handoff' = <<>>
          /\ UNCHANGED <<rx, leaseOut, sharedOut, lost, subVars>>
      BY <1>15, <2>2 DEF ExecAcquire, TakeUnconsumed, Buffered
    <3>2. /\ prefetched' \in [Owners -> Seq(Byte)] /\ prefetched'[o] = Buffered
          /\ \A p \in Owners : p # o => prefetched'[p] = <<>>
      BY <1>c, <1>d, <2>2, <3>1
    <3>3. UNION {Positions(prefetched'[p]) : p \in Owners} = Positions(prefetched'[o])
      BY <3>2, LeaseBytesOf
    <3>4. Buffered' = <<>>
      BY <3>1, ConcatEmpty, EmptySeq DEF Buffered
    <3>5. (Positions(Buffered) \cup LeaseBytes)' = Positions(Buffered)
      BY <3>2, <3>3, <3>4, EmptyStream DEF LeaseBytes, Positions
    <3>6. Positions(Buffered) \cup LeaseBytes = Positions(Buffered)
      BY <1>e, <2>2
    <3>7. Accounted(rx, Positions(Buffered) \cup LeaseBytes, leaseOut, sharedOut, lost)'
      BY <1>0, <3>1, <3>5, <3>6 DEF Accounted
    <3>8. OrderInv'
      <4>1. Increasing(Buffered) /\ Increasing(<<>>)
        BY <1>0, EmptyStream DEF OrderInv
      <4>2. Increasing(Buffered)'
        BY <3>4, <4>1
      <4>3. \A p \in Owners : Increasing(prefetched'[p])
        BY <3>2, <4>1
      <4> QED BY <4>2, <4>3 DEF OrderInv, Increasing
    <3>9. ChanInv'
      BY <1>0, <3>1, ChanKept DEF subVars
    <3> QED BY <3>7, <3>8, <3>9 DEF StreamInv
  <2> QED BY <2>1, <2>2
<1>16. ASSUME NEW o \in Owners, ExecReturn(o) PROVE StreamInv'
  <2>1. lease = o
    BY <1>0, <1>16, DequeueOwnership DEF ExecReturn, Ownership, OwnershipInv, LeaseInv
  <2>2. /\ startup = <<>> /\ handoff = <<>>
        /\ \A p \in Owners : p # o => prefetched[p] = <<>>
        /\ Accounted(rx, Positions(prefetched[o]), leaseOut, sharedOut, lost)
    BY <1>f, <2>1
  <2>3. /\ handoff' = prefetched[o] \o handoff /\ startup' = startup
        /\ prefetched' = [prefetched EXCEPT ![o] = <<>>]
        /\ UNCHANGED <<rx, leaseOut, sharedOut, lost, subVars>>
    BY <1>16 DEF ExecReturn, RestoreUnconsumed
  <2>4. prefetched[o] \in Seq(Byte) /\ handoff' = prefetched[o]
    BY <1>c, <2>2, <2>3, ConcatEmpty
  <2>5. Buffered' = prefetched[o]
    BY <2>2, <2>3, <2>4, ConcatEmpty DEF Buffered
  <2>6. \A p \in Owners : prefetched'[p] = <<>>
    BY <1>c, <2>2, <2>3
  <2>7. LeaseBytes' = {}
    BY <2>6, LeaseBytesNone DEF LeaseBytes, Positions
  <2>8. (Positions(Buffered) \cup LeaseBytes)' = Positions(prefetched[o])
    BY <2>5, <2>7 DEF Positions
  <2>9. Accounted(rx, Positions(Buffered) \cup LeaseBytes, leaseOut, sharedOut, lost)'
    BY <2>2, <2>3, <2>8 DEF Accounted
  <2>10. OrderInv'
    <3>1. Increasing(prefetched[o]) /\ Increasing(<<>>)
      BY <1>0, EmptyStream DEF OrderInv
    <3>2. Increasing(Buffered)'
      BY <2>5, <3>1 DEF Increasing
    <3>3. \A p \in Owners : Increasing(prefetched'[p])
      BY <2>6, <3>1
    <3> QED BY <3>2, <3>3 DEF OrderInv, Increasing
  <2>11. ChanInv'
    BY <1>0, <2>3, ChanKept DEF subVars
  <2> QED BY <2>9, <2>10, <2>11 DEF StreamInv
<1>17. ASSUME NEW k \in Closers, ExecShutdown(k) PROVE StreamInv'
  BY <1>a, <1>17 DEF ExecShutdown
<1>18. ASSUME ActorExit PROVE StreamInv'
  BY <1>b, <1>18 DEF ActorExit
<1>19. ASSUME GuardDrop PROVE StreamInv'
  BY <1>a, <1>19 DEF GuardDrop
<1>20. ASSUME DropState PROVE StreamInv'
  <2>1. /\ startup' = <<>> /\ handoff' = <<>> /\ lost' = lost \cup Positions(Buffered)
        /\ UNCHANGED <<chan, seen, prefetched, rx, leaseOut, sharedOut>>
    BY <1>20 DEF DropState, Buffered
  <2>2. lease = None
    BY <1>0, <1>20 DEF DropState, LeaseInv
  <2>3. Buffered' = <<>> /\ LeaseBytes' = {} /\ LeaseBytes = {}
    BY <1>e, <2>1, <2>2, ConcatEmpty, EmptySeq DEF Buffered, LeaseBytes
  <2>4. Accounted(rx, {}, leaseOut, sharedOut, lost \cup Positions(Buffered))
    BY <1>0, <1>c, <2>3, Dropped
  <2>5. (Positions(Buffered) \cup LeaseBytes)' = {}
    BY <2>3, EmptyStream DEF Positions
  <2>6. Accounted(rx, Positions(Buffered) \cup LeaseBytes, leaseOut, sharedOut, lost)'
    BY <2>1, <2>4, <2>5 DEF Accounted
  <2>7. OrderInv'
    BY <1>0, <2>1, <2>3, EmptyStream DEF OrderInv, Increasing
  <2>8. ChanInv'
    BY <1>0, <2>1, ChanKept
  <2> QED BY <2>6, <2>7, <2>8 DEF StreamInv
<1>21. CASE UNCHANGED vars
  BY <1>a, <1>21 DEF vars
<1> QED
  BY <1>1, <1>2, <1>3, <1>4, <1>5, <1>6, <1>7, <1>8, <1>9, <1>10, <1>11, <1>12, <1>13, <1>14,
     <1>15, <1>16, <1>17, <1>18, <1>19, <1>20, <1>21
  DEF Next, ActorStep, OwnerStep, SubStep

(* No byte was read at the start.                                          *)
LEMMA StreamInit == Init => StreamInv
<1> SUFFICES ASSUME Init PROVE StreamInv
  OBVIOUS
<1>1. Buffered = <<>> /\ LeaseBytes = {} /\ \A o \in Owners : prefetched[o] = <<>>
  BY ConcatEmpty, EmptySeq, EmptyStream DEF Init, Buffered, LeaseBytes
<1>2. Accounted(rx, Positions(Buffered) \cup LeaseBytes, leaseOut, sharedOut, lost)
  BY <1>1, EmptyStream DEF Init, Accounted
<1>3. OrderInv /\ ChanInv
  BY <1>1, EmptyStream DEF Init, OrderInv, ChanInv
<1> QED BY <1>2, <1>3 DEF StreamInv

(* What waits, what was handed out and what was dropped make up what was   *)
(* received, in order, at every change of hands of the driver.             *)
THEOREM StreamInvariant == Spec => []StreamInv
BY StreamInit, StreamStep, OwnershipInvariant, BufferInvariant, PTL DEF Spec

(* Then no byte is lost but those counted as lost, and none is in two      *)
(* places.                                                                 *)
LEMMA StreamConserved ==
  ASSUME TypeOK, BufferInv, StreamInv
  PROVE  ByteConservation
<1> DEFINE places == <<Positions(startup), Positions(handoff), LeaseBytes, leaseOut, sharedOut,
                       lost>>
<1>1. /\ Accounted(rx, Positions(Buffered) \cup LeaseBytes, leaseOut, sharedOut, lost)
      /\ Positions(Buffered) = Positions(startup) \cup Positions(handoff)
      /\ \A m \in Positions(startup), n \in Positions(handoff) : m < n
  BY ConcatStream DEF StreamInv, OrderInv, TypeOK, Buffered
<1>2. LeaseBytes # {} => startup = <<>> /\ handoff = <<>>
  BY LeaseBytesNone, NoneAssumption DEF BufferInv, LeaseBytes
<1>3. /\ Positions(startup) \subseteq Nat /\ Positions(handoff) \subseteq Nat
      /\ LeaseBytes \subseteq Nat /\ rx \in Nat
  BY <1>1 DEF Accounted, TypeOK
<1>4. LeaseBytes \cap (Positions(startup) \cup Positions(handoff)) = {}
  BY <1>2, EmptyStream
<1>5. Positions(startup) \cap Positions(handoff) = {}
  BY <1>1, <1>3
<1>6. \A n \in leaseOut \cup sharedOut : n \notin Positions(startup) \cup Positions(handoff) \cup LeaseBytes
  BY <1>1, <1>3 DEF Accounted
<1>7. /\ UNION {places[i] : i \in DOMAIN places} = 1..rx
      /\ \A i, j \in DOMAIN places : i # j => places[i] \cap places[j] = {}
  <2>1. DOMAIN places = 1..6
    OBVIOUS
  <2>2. /\ places[1] = Positions(startup) /\ places[2] = Positions(handoff)
        /\ places[3] = LeaseBytes /\ places[4] = leaseOut /\ places[5] = sharedOut
        /\ places[6] = lost
    OBVIOUS
  <2> HIDE DEF places
  <2>3. \A n : (\E i \in 1..6 : n \in places[i]) <=> n \in 1..rx
    BY <1>1, <2>2 DEF Accounted
  <2>4. \A i, j \in 1..6 : i < j => places[i] \cap places[j] = {}
    BY <1>1, <1>4, <1>5, <1>6, <2>2 DEF Accounted
  <2> QED BY <2>1, <2>3, <2>4
<1>8. \A o, p \in Owners : o # p => Positions(prefetched[o]) \cap Positions(prefetched[p]) = {}
  BY EmptyStream DEF BufferInv
<1> QED BY <1>7, <1>8 DEF ByteConservation

(* And every reader finds its bytes in the order of the wire.              *)
LEMMA StreamOrdered ==
  ASSUME TypeOK, BufferInv, StreamInv
  PROVE  InOrder
<1>1. Increasing(Buffered) /\ Buffered \in Seq(Byte)
  BY ConcatStream DEF StreamInv, OrderInv, TypeOK, Buffered
<1>2. \A o \in Owners : Increasing(prefetched[o] \o Buffered)
  <2> SUFFICES ASSUME NEW o \in Owners PROVE Increasing(prefetched[o] \o Buffered)
    OBVIOUS
  <2>1. prefetched[o] \in Seq(Byte) /\ Increasing(prefetched[o])
    BY DEF StreamInv, OrderInv, TypeOK
  <2>2. CASE prefetched[o] = <<>>
    BY <1>1, <2>2, ConcatEmpty
  <2>3. CASE prefetched[o] # <<>>
    <3>1. Buffered = <<>>
      BY <2>3, NoneAssumption, ConcatEmpty, EmptySeq DEF BufferInv, Buffered
    <3> QED BY <2>1, <3>1, ConcatEmpty
  <2> QED BY <2>2, <2>3
<1> QED BY <1>1, <1>2 DEF InOrder, StreamInv, Accounted, ChanInv

(* The byte stream survives every change of hands of the driver: each byte *)
(* received is in exactly one place, what waits is in order and newer than *)
(* what was handed out, and nothing follows the end of a stream.           *)
THEOREM StreamIntactHolds == Spec => []StreamIntact
<1>1. TypeOK /\ BufferInv /\ StreamInv /\ ClosedIsLast => StreamIntact
  BY StreamConserved, StreamOrdered DEF StreamIntact
<1> QED BY <1>1, StreamInvariant, BufferInvariant, ClosedIsLastHolds, TypeCorrect, PTL

==============================================================================
