-------------------------- MODULE TransferTaskProofs --------------------------
(***************************************************************************)
(* Proofs about TransferTask, for every set of transfers, every number of  *)
(* connections and every limit on the transfers of one session.            *)
(***************************************************************************)
EXTENDS TransferTask, SequenceTheorems, TLAPS

-----------------------------------------------------------------------------
(* Types.  The front end takes the outcome of a task from its final event, *)
(* so the type of what it shows rests on this: the event is only sent with *)
(* an outcome.  And whoever shows, closes or ends a connection has one.    *)

HasOutcome(t) == result[t] \in Terminal

WireInv ==
  /\ \A t \in Transfers : job[t] = "freed" => HasOutcome(t)
  /\ \A i \in 1..Len(events) : events[i].type = "finished" => HasOutcome(events[i].t)
  /\ \A i \in 1..Len(events) : events[i].type = "connected" => cur \in Runtimes
  /\ up \/ shown # "disconnected" \/ quit # "no" => cur \in Runtimes

TypeInv == TypeOK /\ WireInv

(* What an event carries.                                                  *)
LEMMA EventFields ==
  ASSUME NEW e \in Event
  PROVE  /\ e.type \in {"connected", "disconnected", "started", "progress", "finished"}
         /\ e.type \in {"connected", "disconnected"} => e.r \in Runtimes
         /\ e.type \in {"started", "progress", "finished"} => e.t \in Transfers
BY DEF Event

(* The events the tasks send.                                              *)
LEMMA EventShapes ==
  /\ \A r \in Runtimes : \A y \in {"connected", "disconnected"} : [type |-> y, r |-> r] \in Event
  /\ \A t \in Transfers : \A y \in {"started", "progress", "finished"} :
       [type |-> y, t |-> t] \in Event
BY DEF Event

(* The wire after an event is sent and after one is delivered.             *)
LEMMA EmitWire ==
  ASSUME events \in Seq(Event), NEW e \in Event, Emit(e)
  PROVE  /\ events' \in Seq(Event) /\ Len(events) \in Nat /\ Len(events') = Len(events) + 1
         /\ \A i \in 1..Len(events) : events'[i] = events[i]
         /\ events'[Len(events) + 1] = e
BY AppendProperties, LenProperties DEF Emit

(* The wire after an event is delivered.                                   *)
LEMMA TailWire ==
  ASSUME events \in Seq(Event), events # <<>>
  PROVE  /\ Head(events) \in Event /\ Head(events) = events[1]
         /\ Tail(events) \in Seq(Event)
         /\ Len(events) \in Nat \ {0} /\ Len(Tail(events)) = Len(events) - 1
         /\ \A i \in 1..Len(Tail(events)) : Tail(events)[i] = events[i + 1]
BY HeadTailProperties, EmptySeq, LenProperties

(* Nothing runs and no event is under way at the start.                    *)
LEMMA TypeInit == Init => TypeInv
<1> SUFFICES ASSUME Init PROVE TypeInv
  OBVIOUS
<1>1. events \in Seq(Event) /\ Len(events) = 0
  BY EmptySeq DEF Init
<1>2. cur \in 0..MaxRuntimes /\ tab \in 0..MaxRuntimes /\ run \in [Transfers -> 0..MaxRuntimes]
  BY ConstantsAssumption DEF Init
<1>3. TypeOK
  BY <1>1, <1>2 DEF Init, TypeOK
<1>4. WireInv
  BY <1>1 DEF Init, WireInv
<1> QED BY <1>3, <1>4 DEF TypeInv

(* An action that sends e and keeps the outcomes keeps what is said of the *)
(* wire.                                                                   *)
LEMMA EmitKeeps ==
  ASSUME TypeInv, NEW e \in Event, Emit(e), UNCHANGED result,
         cur \in Runtimes => cur' \in Runtimes,
         e.type = "connected" => cur' \in Runtimes,
         e.type = "finished" => HasOutcome(e.t)
  PROVE  /\ events' \in Seq(Event)
         /\ (\A i \in 1..Len(events) : events[i].type = "finished" => HasOutcome(events[i].t))'
         /\ (\A i \in 1..Len(events) : events[i].type = "connected" => cur \in Runtimes)'
<1>1. events \in Seq(Event)
  BY DEF TypeInv, TypeOK
<1>2. /\ events' \in Seq(Event) /\ Len(events) \in Nat /\ Len(events') = Len(events) + 1
      /\ \A i \in 1..Len(events) : events'[i] = events[i]
      /\ events'[Len(events) + 1] = e
  BY <1>1, EmitWire
<1>3. \A i \in 1..Len(events') : i \in 1..Len(events) \/ i = Len(events) + 1
  BY <1>2
<1> QED BY <1>2, <1>3 DEF TypeInv, WireInv, HasOutcome

(* Every step leaves the state well typed.                                 *)
LEMMA TypeStep == TypeInv /\ [Next]_vars => TypeInv'
<1> SUFFICES ASSUME TypeInv, [Next]_vars PROVE TypeInv'
  OBVIOUS
<1> USE DEF sessionVars, slotVars, taskVars, frontVars, wireVars
<1>0. events \in Seq(Event) /\ TypeOK /\ WireInv
  BY DEF TypeInv, TypeOK
<1>1. ASSUME Connect PROVE TypeInv'
  <2>1. cur + 1 \in Runtimes /\ cur + 1 \in 0..MaxRuntimes
    BY <1>1, ConstantsAssumption DEF Connect, TypeInv, TypeOK, Runtimes
  <2>2. [type |-> "connected", r |-> cur + 1] \in Event
    BY <2>1, EventShapes
  <2>3. events' \in Seq(Event) /\ WireInv'
    BY <1>1, <2>1, <2>2, EmitKeeps DEF Connect, TypeInv, WireInv, HasOutcome
  <2> QED BY <1>0, <1>1, <2>1, <2>3 DEF Connect, TypeInv, TypeOK
<1>2. ASSUME Lose PROVE TypeInv'
  <2>1. cur \in Runtimes
    BY <1>0, <1>2 DEF Lose, WireInv
  <2>2. /\ up' \in BOOLEAN /\ cancel' \in SUBSET Transfers /\ unsaid' \in SUBSET Runtimes
        /\ joins' \in [Runtimes -> SUBSET Transfers] /\ tasks' \in [Runtimes -> SUBSET Transfers]
    BY <1>0, <1>2, <2>1 DEF Lose, Close, TypeOK
  <2>3. TypeOK'
    BY <1>0, <1>2, <2>2 DEF Lose, TypeOK
  <2> QED BY <1>0, <1>2, <2>1, <2>3 DEF Lose, TypeInv, WireInv, HasOutcome
<1>3. ASSUME AskDisconnect PROVE TypeInv'
  BY <1>0, <1>3 DEF AskDisconnect, TypeInv, TypeOK, WireInv, HasOutcome
<1>4. ASSUME RunDisconnect PROVE TypeInv'
  <2>1. cur \in Runtimes
    BY <1>0, <1>4 DEF RunDisconnect, WireInv
  <2>2. /\ up' \in BOOLEAN /\ cancel' \in SUBSET Transfers
        /\ joins' \in [Runtimes -> SUBSET Transfers] /\ tasks' \in [Runtimes -> SUBSET Transfers]
    <3>1. CASE up /\ Close
      BY <1>0, <2>1, <3>1 DEF Close, TypeOK
    <3>2. CASE UNCHANGED <<up, cancel, joins, tasks>>
      BY <1>0, <3>2 DEF TypeOK
    <3> QED BY <1>4, <3>1, <3>2 DEF RunDisconnect
  <2>3. quit' \in {"no", "sent", "joining", "answering"}
    BY <1>4 DEF RunDisconnect
  <2>4. TypeOK'
    BY <1>0, <1>4, <2>2, <2>3 DEF RunDisconnect, TypeOK
  <2> QED BY <1>0, <1>4, <2>1, <2>4 DEF RunDisconnect, TypeInv, WireInv, HasOutcome
<1>5. ASSUME AnswerDisconnect PROVE TypeInv'
  <2>1. [type |-> "disconnected", r |-> cur] \in Event
    BY <1>0, <1>5, EventShapes DEF AnswerDisconnect, WireInv
  <2>2. events' \in Seq(Event) /\ WireInv'
    BY <1>5, <2>1, EmitKeeps DEF AnswerDisconnect, TypeInv, WireInv, HasOutcome
  <2> QED BY <1>0, <1>5, <2>2 DEF AnswerDisconnect, TypeInv, TypeOK
<1>6. ASSUME NEW r \in Runtimes, TellLoss(r) PROVE TypeInv'
  <2>1. [type |-> "disconnected", r |-> r] \in Event
    BY <1>0, <1>6, EventShapes DEF TellLoss, TypeOK
  <2>2. events' \in Seq(Event) /\ WireInv'
    BY <1>6, <2>1, EmitKeeps DEF TellLoss, TypeInv, WireInv, HasOutcome
  <2> QED BY <1>0, <1>6, <2>2 DEF TellLoss, TypeInv, TypeOK
<1>7. ASSUME NEW r \in Runtimes, NEW t \in Transfers, JoinTransfer(r, t) PROVE TypeInv'
  BY <1>0, <1>7 DEF JoinTransfer, TypeInv, TypeOK, WireInv, HasOutcome
<1>8. ASSUME Deliver PROVE TypeInv'
  <2>1. /\ events' \in Seq(Event) /\ 1 \in 1..Len(events)
        /\ \A i \in 1..Len(events') : i + 1 \in 1..Len(events) /\ events'[i] = events[i + 1]
    BY <1>0, <1>8, TailWire DEF Deliver
  <2>2. /\ tab' \in 0..MaxRuntimes /\ shown' \in {"disconnected", "connected", "disconnecting"}
        /\ ui' \in [Transfers -> Live \cup Terminal \cup {"absent"}]
        /\ unsettled' \in SUBSET Transfers /\ seen' \in SUBSET Transfers
        /\ shown' # "disconnected" => cur \in Runtimes
    <3> DEFINE e == Head(events)
    <3>1. e \in Event /\ e = events[1] /\ 1 \in 1..Len(events)
      BY <1>0, <1>8, <2>1, TailWire DEF Deliver
    <3> HIDE DEF e
    <3>2. CASE e.type = "connected"
      <4>1. OnConnected(e.r) /\ e.r \in Runtimes /\ cur \in Runtimes
        BY <1>0, <1>8, <3>1, <3>2, EventFields DEF Deliver, WireInv, e
      <4> QED BY <1>0, <4>1, ConstantsAssumption DEF OnConnected, TypeOK, Runtimes
    <3>3. CASE e.type = "disconnected"
      <4>1. OnDisconnected(e.r)
        BY <1>8, <3>3 DEF Deliver, e
      <4> QED BY <1>0, <4>1 DEF OnDisconnected, TypeOK, WireInv
    <3>4. CASE e.type = "started"
      <4>1. OnStarted(e.t) /\ e.t \in Transfers
        BY <1>8, <3>1, <3>4, EventFields DEF Deliver, e
      <4> QED BY <1>0, <4>1 DEF OnStarted, TypeOK, Live, WireInv
    <3>5. CASE e.type = "finished"
      <4>1. OnFinished(e.t) /\ e.t \in Transfers /\ HasOutcome(e.t)
        BY <1>0, <1>8, <3>1, <3>5, EventFields DEF Deliver, WireInv, e
      <4> QED BY <1>0, <4>1 DEF OnFinished, TypeOK, HasOutcome, WireInv
    <3>6. CASE e.type = "progress"
      <4>1. OnProgress(e.t) /\ e.t \in Transfers
        BY <1>8, <3>1, <3>6, EventFields DEF Deliver, e
      <4> QED BY <1>0, <4>1 DEF OnProgress, TypeOK, WireInv
    <3> QED BY <3>1, <3>2, <3>3, <3>4, <3>5, <3>6, EventFields
  <2>3. TypeOK'
    BY <1>0, <1>8, <2>1, <2>2 DEF Deliver, TypeOK
  <2>4. WireInv'
    BY <1>0, <1>8, <2>1, <2>2 DEF Deliver, WireInv, HasOutcome
  <2> QED BY <2>3, <2>4 DEF TypeInv
<1>9. ASSUME NEW t \in Transfers, Reserve(t) PROVE TypeInv'
  BY <1>0, <1>9 DEF Reserve, TypeInv, TypeOK, WireInv, HasOutcome
<1>10. ASSUME NEW t \in Transfers, Refuse(t) PROVE TypeInv'
  BY <1>0, <1>10 DEF Refuse, TypeInv, TypeOK, WireInv, HasOutcome
<1>11. ASSUME NEW t \in Transfers, Acquire(t) PROVE TypeInv'
  <2>1. /\ active' \in [Runtimes -> SUBSET Transfers]
        /\ leased' \in SUBSET Transfers
    BY <1>0, <1>11 DEF Acquire, Freed, TypeOK
  <2>2. /\ \E pc \in {"spawned", "refused"} : cmd' = [cmd EXCEPT ![t] = pc]
        /\ job' = job \/ job' = [job EXCEPT ![t] = "gated"]
    BY <1>11 DEF Acquire
  <2>3. /\ cmd' \in [Transfers -> {"none", "asked", "reserved", "spawned", "registered",
                                   "announced", "answered", "refused"}]
        /\ job' \in [Transfers -> {"none", "gated", "running", "ended", "freed", "done"}]
        /\ \A x \in Transfers : job'[x] = "freed" => job[x] = "freed"
    BY <1>0, <2>2 DEF TypeOK
  <2>4. TypeOK'
    BY <1>0, <1>11, <2>1, <2>3 DEF Acquire, TypeOK
  <2> QED BY <1>0, <1>11, <2>3, <2>4 DEF Acquire, TypeInv, WireInv, HasOutcome
<1>12. ASSUME NEW t \in Transfers, Register(t) PROVE TypeInv'
  <2>1. PICK pc \in {"registered", "refused"} : cmd' = [cmd EXCEPT ![t] = pc]
    BY <1>12 DEF Register
  <2>2. cmd' \in [Transfers -> {"none", "asked", "reserved", "spawned", "registered",
                                "announced", "answered", "refused"}]
    BY <1>0, <2>1 DEF TypeOK
  <2>3. tasks' \in [Runtimes -> SUBSET Transfers]
    BY <1>0, <1>12 DEF Register, TypeOK
  <2>4. TypeOK'
    BY <1>0, <1>12, <2>2, <2>3 DEF Register, TypeOK
  <2> QED BY <1>0, <1>12, <2>4 DEF Register, TypeInv, WireInv, HasOutcome
<1>13. ASSUME NEW t \in Transfers, Announce(t) PROVE TypeInv'
  <2>1. [type |-> "started", t |-> t] \in Event
    BY <1>0, <1>13, EventShapes DEF Announce, TypeOK
  <2>2. events' \in Seq(Event) /\ WireInv'
    BY <1>13, <2>1, EmitKeeps DEF Announce, TypeInv, WireInv, HasOutcome
  <2> QED BY <1>0, <1>13, <2>2 DEF Announce, TypeInv, TypeOK
<1>14. ASSUME NEW t \in Transfers, OpenGate(t) PROVE TypeInv'
  BY <1>0, <1>14 DEF OpenGate, TypeInv, TypeOK, WireInv, HasOutcome
<1>15. ASSUME NEW t \in Transfers, Return(t) PROVE TypeInv'
  BY <1>0, <1>15 DEF Return, Outcomes, Terminal, TypeInv, TypeOK, WireInv, HasOutcome
<1>16. ASSUME NEW t \in Transfers, Panic(t) PROVE TypeInv'
  BY <1>0, <1>16 DEF Panic, Terminal, TypeInv, TypeOK, WireInv, HasOutcome
<1>17. ASSUME NEW t \in Transfers, GateDropped(t) PROVE TypeInv'
  BY <1>0, <1>17 DEF GateDropped, Terminal, TypeInv, TypeOK, WireInv, HasOutcome
<1>18. ASSUME NEW t \in Transfers, ReturnLease(t) PROVE TypeInv'
  BY <1>0, <1>18 DEF ReturnLease, TypeInv, TypeOK, WireInv, HasOutcome
<1>19. ASSUME NEW t \in Transfers, FreeSlot(t) PROVE TypeInv'
  BY <1>0, <1>19 DEF FreeSlot, Freed, TypeInv, TypeOK, WireInv, HasOutcome
<1>20. ASSUME NEW t \in Transfers, Finish(t) PROVE TypeInv'
  <2>1. [type |-> "finished", t |-> t] \in Event
    BY <1>0, <1>20, EventShapes DEF Finish, TypeOK
  <2>2. events' \in Seq(Event) /\ WireInv'
    BY <1>20, <2>1, EmitKeeps DEF Finish, TypeInv, WireInv, HasOutcome
  <2> QED BY <1>0, <1>20, <2>2 DEF Finish, TypeInv, TypeOK
<1>21. ASSUME NEW t \in Transfers, Progress(t) PROVE TypeInv'
  <2>1. [type |-> "progress", t |-> t] \in Event
    BY <1>0, <1>21, EventShapes DEF Progress, TypeOK
  <2>2. events' \in Seq(Event) /\ WireInv'
    BY <1>21, <2>1, EmitKeeps DEF Progress, TypeInv, WireInv, HasOutcome
  <2> QED BY <1>0, <1>21, <2>2 DEF Progress, TypeInv, TypeOK
<1>22. ASSUME NEW t \in Transfers, AskStart(t) PROVE TypeInv'
  BY <1>0, <1>22 DEF AskStart, TypeInv, TypeOK, WireInv, HasOutcome
<1>23. ASSUME NEW t \in Transfers, AskCancel(t) PROVE TypeInv'
  BY <1>0, <1>23 DEF AskCancel, Live, TypeInv, TypeOK, WireInv, HasOutcome
<1>24. ASSUME NEW t \in Transfers, RunCancel(t) PROVE TypeInv'
  <2>1. PICK a \in {"none", "rejected"} : asking' = [asking EXCEPT ![t] = a]
    BY <1>24 DEF RunCancel
  <2>2. asking' \in [Transfers -> {"none", "sent", "rejected"}]
    BY <1>0, <2>1 DEF TypeOK
  <2>3. cancel' \in SUBSET Transfers
    BY <1>0, <1>24 DEF RunCancel, TypeOK
  <2>4. TypeOK'
    BY <1>0, <1>24, <2>2, <2>3 DEF RunCancel, TypeOK
  <2> QED BY <1>0, <1>24, <2>4 DEF RunCancel, TypeInv, WireInv, HasOutcome
<1>25. ASSUME NEW t \in Transfers, CancelRejected(t) PROVE TypeInv'
  BY <1>0, <1>25 DEF CancelRejected, Live, TypeInv, TypeOK, WireInv, HasOutcome
<1>26. ASSUME NEW t \in Transfers, Dismiss(t) PROVE TypeInv'
  BY <1>0, <1>26 DEF Dismiss, TypeInv, TypeOK, WireInv, HasOutcome
<1>27. ASSUME NEW t \in Transfers, DeliverAck(t) PROVE TypeInv'
  BY <1>0, <1>27 DEF DeliverAck, TypeInv, TypeOK, WireInv, HasOutcome
<1>28. CASE UNCHANGED vars
  BY <1>0, <1>28 DEF vars, TypeInv, TypeOK, WireInv, HasOutcome
<1> QED
  BY <1>1, <1>2, <1>3, <1>4, <1>5, <1>6, <1>7, <1>8, <1>9, <1>10, <1>11, <1>12, <1>13, <1>14, <1>15, <1>16, <1>17, <1>18, <1>19, <1>20, <1>21, <1>22, <1>23, <1>24, <1>25, <1>26, <1>27, <1>28
  DEF Next, SessionStep, CommandStep, JobStep, FrontStep

(* Every part of the state has its type; what the front end shows of a     *)
(* finished task is always an outcome.                                     *)
THEOREM TransferTypeCorrect == Spec => []TypeOK
<1>1. TypeInv => TypeOK
  BY DEF TypeInv
<1> QED BY <1>1, TypeInit, TypeStep, PTL DEF Spec

-----------------------------------------------------------------------------
(* Slots and leases.  A slot belongs to one runtime and its holder was     *)
(* started for that runtime; from the reservation until the task gives it  *)
(* back the holder is there, also when the session has gone on to another  *)
(* connection; and an inline scheduler holds one transfer at a time.       *)

Underway(t) == cmd[t] = "reserved" \/ job[t] \in {"gated", "running", "ended"}

(* How far the task is, by how far the command is.                         *)
Stages ==
  \A t \in Transfers :
    /\ cmd[t] \in {"none", "asked", "reserved"} => job[t] = "none"
    /\ cmd[t] \in {"spawned", "registered", "announced"} => job[t] = "gated"
    /\ cmd[t] = "refused" => job[t] # "running"
    /\ cmd[t] = "reserved" => Inline
    /\ cmd[t] = "answered" => job[t] \notin {"none", "gated"}

Holders ==
  /\ \A r \in Runtimes : \A t \in active[r] :
       /\ r <= cur /\ run[t] = r /\ cmd[t] \notin {"none", "asked"}
       /\ r = cur => job[t] \notin {"freed", "done"}
  /\ Inline => \A r \in Runtimes : \A t, x \in active[r] : t = x

Held == \A t \in Transfers : Underway(t) => run[t] \in Runtimes /\ t \in active[run[t]]

Leases == \A t \in leased : Inline /\ job[t] \in {"gated", "running", "ended"}

SlotInv == Stages /\ Holders /\ Held /\ Leases

(* Every slot is free at the start.                                        *)
LEMMA SlotInit == Init => SlotInv
BY DEF Init, SlotInv, Stages, Holders, Held, Leases, Underway

SlotTypes ==
  /\ cur \in 0..MaxRuntimes
  /\ active \in [Runtimes -> SUBSET Transfers]
  /\ cmd \in [Transfers -> {"none", "asked", "reserved", "spawned", "registered", "announced",
                            "answered", "refused"}]
  /\ run \in [Transfers -> 0..MaxRuntimes]
  /\ job \in [Transfers -> {"none", "gated", "running", "ended", "freed", "done"}]
  /\ leased \in SUBSET Transfers

(* transfer_done removes the transfer from the scheduler of the current    *)
(* connection and touches no other.                                        *)
LEMMA FreedSlots ==
  ASSUME SlotTypes, Holders, NEW t \in Transfers
  PROVE  /\ Freed(t) \in [Runtimes -> SUBSET Transfers]
         /\ \A r \in Runtimes : \A x : x \in Freed(t)[r] <=> x \in active[r] /\ (r = cur => x # t)
<1>1. CASE Current(t) /\ run[t] \in Runtimes
  BY <1>1 DEF Freed, SlotTypes, Current
<1>2. CASE ~(Current(t) /\ run[t] \in Runtimes)
  BY <1>2 DEF Freed, SlotTypes, Current, Holders
<1> QED BY <1>1, <1>2

(* Every step keeps the tasks and the transfer slots of the runtimes in    *)
(* agreement.                                                              *)
LEMMA SlotStep == TypeInv /\ SlotInv /\ [Next]_vars => SlotInv'
<1> SUFFICES ASSUME TypeInv, SlotInv, [Next]_vars PROVE SlotInv'
  OBVIOUS
<1> USE DEF sessionVars, slotVars, taskVars, frontVars, wireVars
<1>0. SlotTypes /\ Stages /\ Holders /\ Held /\ Leases
  BY DEF TypeInv, TypeOK, SlotInv, SlotTypes
<1>1. ASSUME UNCHANGED <<strategy, cur, active, cmd, run, job, leased>> PROVE SlotInv'
  BY <1>0, <1>1 DEF SlotInv, Stages, Holders, Held, Leases, Underway, Inline
<1>2. ASSUME Connect PROVE SlotInv'
  <2>1. cur' = cur + 1 /\ UNCHANGED <<strategy, active, cmd, run, job, leased>>
    BY <1>2 DEF Connect
  <2>2. \A r \in Runtimes : \A t \in active[r] : r <= cur' /\ r # cur'
    BY <1>0, <2>1, ConstantsAssumption DEF SlotTypes, Holders, Runtimes
  <2>3. Holders'
    BY <1>0, <2>1, <2>2, ConstantsAssumption DEF SlotTypes, Holders, Runtimes, Inline
  <2> QED BY <1>0, <2>1, <2>3 DEF SlotInv, Stages, Held, Leases, Underway, Inline
<1>3. ASSUME NEW t \in Transfers, AskStart(t) PROVE SlotInv'
  <2>1. /\ cmd[t] = "none" /\ cmd' = [cmd EXCEPT ![t] = "asked"] /\ run' = [run EXCEPT ![t] = tab]
        /\ UNCHANGED <<strategy, cur, active, job, leased>>
    BY <1>3 DEF AskStart
  <2>2. Stages'
    BY <1>0, <2>1 DEF SlotTypes, Stages, Inline
  <2>3. Holders'
    BY <1>0, <2>1 DEF SlotTypes, Stages, Holders, Inline, Runtimes
  <2>4. Held'
    BY <1>0, <2>1 DEF SlotTypes, Stages, Holders, Held, Underway
  <2>5. Leases'
    BY <1>0, <2>1 DEF SlotTypes, Stages, Leases, Inline
  <2> QED BY <2>2, <2>3, <2>4, <2>5 DEF SlotInv
<1>4. ASSUME NEW t \in Transfers, Reserve(t) PROVE SlotInv'
  <2>1. /\ cmd[t] = "asked" /\ run[t] = cur /\ cur \in Runtimes
        /\ active' = [active EXCEPT ![cur] = active[cur] \cup {t}]
        /\ Inline => \A x : x \notin active[cur]
        /\ UNCHANGED <<strategy, cur, run, leased>>
    BY <1>4 DEF Reserve, Connected, CanReserve, TypeInv, WireInv
  <2>2. \/ cmd' = [cmd EXCEPT ![t] = "reserved"] /\ job' = job /\ Inline
        \/ cmd' = [cmd EXCEPT ![t] = "spawned"] /\ job' = [job EXCEPT ![t] = "gated"]
    BY <1>4 DEF Reserve
  <2>3. \A r \in Runtimes : \A x : x \in active'[r] <=> x \in active[r] \/ (r = cur /\ x = t)
    BY <1>0, <2>1 DEF SlotTypes
  <2>4. Stages'
    BY <1>0, <2>1, <2>2, <2>3 DEF SlotTypes, Stages, Inline
  <2>5. Holders'
    <3>1. cur <= cur /\ cmd'[t] \notin {"none", "asked"} /\ job'[t] \notin {"freed", "done"}
      BY <1>0, <2>1, <2>2 DEF SlotTypes, Stages
    <3>2. \A x \in Transfers : x # t => cmd'[x] = cmd[x] /\ job'[x] = job[x]
      BY <1>0, <2>2 DEF SlotTypes
    <3>3. \A r \in Runtimes : \A x \in active[r] : x \in Transfers
      BY <1>0 DEF SlotTypes
    <3>4. \A r \in Runtimes : \A x \in active'[r] :
            /\ r <= cur /\ run[x] = r /\ cmd'[x] \notin {"none", "asked"}
            /\ r = cur => job'[x] \notin {"freed", "done"}
      BY <1>0, <2>1, <2>3, <3>1, <3>2, <3>3 DEF Holders
    <3>5. Inline => \A r \in Runtimes : \A y, x \in active'[r] : y = x
      BY <1>0, <2>1, <2>3 DEF Holders
    <3> QED BY <2>1, <3>4, <3>5 DEF Holders, Inline
  <2>6. Held'
    BY <1>0, <2>1, <2>2, <2>3 DEF SlotTypes, Stages, Holders, Held, Underway
  <2>7. Leases'
    BY <1>0, <2>1, <2>2, <2>3 DEF SlotTypes, Stages, Leases, Inline
  <2> QED BY <2>4, <2>5, <2>6, <2>7 DEF SlotInv
<1>5. ASSUME NEW t \in Transfers, Refuse(t) PROVE SlotInv'
  <2>1. /\ cmd[t] = "asked" /\ cmd' = [cmd EXCEPT ![t] = "refused"]
        /\ UNCHANGED <<strategy, cur, active, run, job, leased>>
    BY <1>5 DEF Refuse
  <2>2. Stages'
    BY <1>0, <2>1 DEF SlotTypes, Stages, Inline
  <2>3. Holders'
    BY <1>0, <2>1 DEF SlotTypes, Stages, Holders, Inline, Runtimes
  <2>4. Held'
    BY <1>0, <2>1 DEF SlotTypes, Stages, Holders, Held, Underway
  <2>5. Leases'
    BY <1>0, <2>1 DEF SlotTypes, Stages, Leases, Inline
  <2> QED BY <2>2, <2>3, <2>4, <2>5 DEF SlotInv
<1>6. ASSUME NEW t \in Transfers, Acquire(t) PROVE SlotInv'
  <2>1. cmd[t] = "reserved" /\ UNCHANGED <<strategy, cur, run>>
    BY <1>6 DEF Acquire
  <2>2. CASE /\ cmd' = [cmd EXCEPT ![t] = "spawned"] /\ job' = [job EXCEPT ![t] = "gated"]
             /\ leased' = leased \cup {t} /\ UNCHANGED active
    <3>1. Stages'
      BY <1>0, <2>1, <2>2 DEF SlotTypes, Stages, Inline
    <3>2. Holders'
      BY <1>0, <2>1, <2>2 DEF SlotTypes, Stages, Holders, Inline, Runtimes
    <3>3. Held'
      BY <1>0, <2>1, <2>2 DEF SlotTypes, Stages, Holders, Held, Underway
    <3>4. Leases'
      BY <1>0, <2>1, <2>2 DEF SlotTypes, Stages, Leases, Inline
    <3> QED BY <3>1, <3>2, <3>3, <3>4 DEF SlotInv
  <2>3. CASE cmd' = [cmd EXCEPT ![t] = "refused"] /\ active' = Freed(t) /\ UNCHANGED <<job, leased>>
    <3>0. \A r \in Runtimes : \A x : x \in active'[r] <=> x \in active[r] /\ (r = cur => x # t)
      BY <1>0, <2>3, FreedSlots
    <3>1. Stages'
      BY <1>0, <2>1, <2>3, <3>0 DEF SlotTypes, Stages, Inline
    <3>2. Holders'
      BY <1>0, <2>1, <2>3, <3>0 DEF SlotTypes, Stages, Holders, Inline, Runtimes
    <3>3. Held'
      BY <1>0, <2>1, <2>3, <3>0 DEF SlotTypes, Stages, Holders, Held, Underway
    <3>4. Leases'
      BY <1>0, <2>1, <2>3, <3>0 DEF SlotTypes, Stages, Leases, Inline
    <3> QED BY <3>1, <3>2, <3>3, <3>4 DEF SlotInv
  <2> QED BY <1>6, <2>2, <2>3 DEF Acquire
<1>7. ASSUME NEW t \in Transfers, Register(t) PROVE SlotInv'
  <2>1. PICK pc \in {"registered", "refused"} : cmd' = [cmd EXCEPT ![t] = pc]
    BY <1>7 DEF Register
  <2>2. cmd[t] = "spawned" /\ UNCHANGED <<strategy, cur, active, run, job, leased>>
    BY <1>7 DEF Register
  <2>3. Stages'
    BY <1>0, <2>1, <2>2 DEF SlotTypes, Stages, Inline
  <2>4. Holders'
    BY <1>0, <2>1, <2>2 DEF SlotTypes, Stages, Holders, Inline, Runtimes
  <2>5. Held'
    BY <1>0, <2>1, <2>2 DEF SlotTypes, Stages, Holders, Held, Underway
  <2>6. Leases'
    BY <1>0, <2>1, <2>2 DEF SlotTypes, Stages, Leases, Inline
  <2> QED BY <2>3, <2>4, <2>5, <2>6 DEF SlotInv
<1>8. ASSUME NEW t \in Transfers, Announce(t) PROVE SlotInv'
  <2>1. /\ cmd[t] = "registered" /\ cmd' = [cmd EXCEPT ![t] = "announced"]
        /\ UNCHANGED <<strategy, cur, active, run, job, leased>>
    BY <1>8 DEF Announce
  <2>2. Stages'
    BY <1>0, <2>1 DEF SlotTypes, Stages, Inline
  <2>3. Holders'
    BY <1>0, <2>1 DEF SlotTypes, Stages, Holders, Inline, Runtimes
  <2>4. Held'
    BY <1>0, <2>1 DEF SlotTypes, Stages, Holders, Held, Underway
  <2>5. Leases'
    BY <1>0, <2>1 DEF SlotTypes, Stages, Leases, Inline
  <2> QED BY <2>2, <2>3, <2>4, <2>5 DEF SlotInv
<1>9. ASSUME NEW t \in Transfers, OpenGate(t) PROVE SlotInv'
  <2>1. /\ cmd[t] = "announced" /\ cmd' = [cmd EXCEPT ![t] = "answered"]
        /\ job' = [job EXCEPT ![t] = "running"]
        /\ UNCHANGED <<strategy, cur, active, run, leased>>
    BY <1>9 DEF OpenGate
  <2>2. Stages'
    BY <1>0, <2>1 DEF SlotTypes, Stages, Inline
  <2>3. Holders'
    BY <1>0, <2>1 DEF SlotTypes, Stages, Holders, Inline, Runtimes
  <2>4. Held'
    BY <1>0, <2>1 DEF SlotTypes, Stages, Holders, Held, Underway
  <2>5. Leases'
    BY <1>0, <2>1 DEF SlotTypes, Stages, Leases, Inline
  <2> QED BY <2>2, <2>3, <2>4, <2>5 DEF SlotInv
<1>10. ASSUME NEW t \in Transfers, Return(t) PROVE SlotInv'
  <2>1. /\ job[t] = "running" /\ job' = [job EXCEPT ![t] = "ended"]
        /\ UNCHANGED <<strategy, cur, active, run, cmd, leased>>
    BY <1>10 DEF Return
  <2>2. Stages'
    BY <1>0, <2>1 DEF SlotTypes, Stages, Inline
  <2>3. Holders'
    BY <1>0, <2>1 DEF SlotTypes, Stages, Holders, Inline, Runtimes
  <2>4. Held'
    BY <1>0, <2>1 DEF SlotTypes, Stages, Holders, Held, Underway
  <2>5. Leases'
    BY <1>0, <2>1 DEF SlotTypes, Stages, Leases, Inline
  <2> QED BY <2>2, <2>3, <2>4, <2>5 DEF SlotInv
<1>11. ASSUME NEW t \in Transfers, Panic(t) PROVE SlotInv'
  <2>1. /\ job[t] = "running" /\ job' = [job EXCEPT ![t] = "ended"]
        /\ UNCHANGED <<strategy, cur, active, run, cmd, leased>>
    BY <1>11 DEF Panic
  <2>2. Stages'
    BY <1>0, <2>1 DEF SlotTypes, Stages, Inline
  <2>3. Holders'
    BY <1>0, <2>1 DEF SlotTypes, Stages, Holders, Inline, Runtimes
  <2>4. Held'
    BY <1>0, <2>1 DEF SlotTypes, Stages, Holders, Held, Underway
  <2>5. Leases'
    BY <1>0, <2>1 DEF SlotTypes, Stages, Leases, Inline
  <2> QED BY <2>2, <2>3, <2>4, <2>5 DEF SlotInv
<1>12. ASSUME NEW t \in Transfers, GateDropped(t) PROVE SlotInv'
  <2>1. /\ job[t] = "gated" /\ cmd[t] = "refused" /\ job' = [job EXCEPT ![t] = "ended"]
        /\ UNCHANGED <<strategy, cur, active, run, cmd, leased>>
    BY <1>12 DEF GateDropped
  <2>2. Stages'
    BY <1>0, <2>1 DEF SlotTypes, Stages, Inline
  <2>3. Holders'
    BY <1>0, <2>1 DEF SlotTypes, Stages, Holders, Inline, Runtimes
  <2>4. Held'
    BY <1>0, <2>1 DEF SlotTypes, Stages, Holders, Held, Underway
  <2>5. Leases'
    BY <1>0, <2>1 DEF SlotTypes, Stages, Leases, Inline
  <2> QED BY <2>2, <2>3, <2>4, <2>5 DEF SlotInv
<1>13. ASSUME NEW t \in Transfers, ReturnLease(t) PROVE SlotInv'
  <2>1. leased' = leased \ {t} /\ UNCHANGED <<strategy, cur, active, run, cmd, job>>
    BY <1>13 DEF ReturnLease
  <2>2. Stages'
    BY <1>0, <2>1 DEF SlotTypes, Stages, Inline
  <2>3. Holders'
    BY <1>0, <2>1 DEF SlotTypes, Stages, Holders, Inline, Runtimes
  <2>4. Held'
    BY <1>0, <2>1 DEF SlotTypes, Stages, Holders, Held, Underway
  <2>5. Leases'
    BY <1>0, <2>1 DEF SlotTypes, Stages, Leases, Inline
  <2> QED BY <2>2, <2>3, <2>4, <2>5 DEF SlotInv
<1>14. ASSUME NEW t \in Transfers, FreeSlot(t) PROVE SlotInv'
  <2>1. PICK pc \in {"freed", "done"} : job' = [job EXCEPT ![t] = pc]
    BY <1>14 DEF FreeSlot
  <2>2. /\ job[t] = "ended" /\ t \notin leased /\ active' = Freed(t)
        /\ UNCHANGED <<strategy, cur, run, cmd, leased>>
    BY <1>14 DEF FreeSlot
  <2>3. \A r \in Runtimes : \A x : x \in active'[r] <=> x \in active[r] /\ (r = cur => x # t)
    BY <1>0, <2>2, FreedSlots
  <2>4. Stages'
    BY <1>0, <2>1, <2>2, <2>3 DEF SlotTypes, Stages, Inline
  <2>5. Holders'
    BY <1>0, <2>1, <2>2, <2>3 DEF SlotTypes, Stages, Holders, Inline, Runtimes
  <2>6. Held'
    BY <1>0, <2>1, <2>2, <2>3 DEF SlotTypes, Stages, Holders, Held, Underway
  <2>7. Leases'
    BY <1>0, <2>1, <2>2, <2>3 DEF SlotTypes, Stages, Leases, Inline
  <2> QED BY <2>4, <2>5, <2>6, <2>7 DEF SlotInv
<1>15. ASSUME NEW t \in Transfers, Finish(t) PROVE SlotInv'
  <2>1. /\ job[t] = "freed" /\ job' = [job EXCEPT ![t] = "done"]
        /\ UNCHANGED <<strategy, cur, active, run, cmd, leased>>
    BY <1>15 DEF Finish
  <2>2. Stages'
    BY <1>0, <2>1 DEF SlotTypes, Stages, Inline
  <2>3. Holders'
    BY <1>0, <2>1 DEF SlotTypes, Stages, Holders, Inline, Runtimes
  <2>4. Held'
    BY <1>0, <2>1 DEF SlotTypes, Stages, Holders, Held, Underway
  <2>5. Leases'
    BY <1>0, <2>1 DEF SlotTypes, Stages, Leases, Inline
  <2> QED BY <2>2, <2>3, <2>4, <2>5 DEF SlotInv
<1>16. CASE UNCHANGED vars
  BY <1>1, <1>16 DEF vars
<1> QED
  BY <1>1, <1>2, <1>3, <1>4, <1>5, <1>6, <1>7, <1>8, <1>9, <1>10, <1>11, <1>12, <1>13, <1>14, <1>15, <1>16
  DEF Next, SessionStep, CommandStep, JobStep, FrontStep, Lose, Close, AskDisconnect,
      RunDisconnect, AnswerDisconnect, TellLoss, JoinTransfer, Deliver, Progress, AskCancel,
      RunCancel, CancelRejected, Dismiss, DeliverAck

(* The inductive invariant of the scheduler, across every reconnection.    *)
THEOREM SlotInvariant == Spec => [](TypeInv /\ SlotInv)
BY TypeInit, TypeStep, SlotInit, SlotStep, PTL DEF Spec

(* A transfer under way holds its slot, a finished one has given back its  *)
(* slot and its lease, and the owners of one driver take turns, which is   *)
(* what SerialOwners of DataPlane stands for (reserve_inline, transfer_done*)
(* and drop(transfer) of the orchestrator).                                *)
THEOREM SlotsHeldHolds == Spec => []SlotsHeld
<1>1. TypeInv /\ SlotInv => SlotsHeld
  <2> SUFFICES ASSUME TypeInv, SlotInv PROVE SlotsHeld
    OBVIOUS
  <2>0. SlotTypes /\ Stages /\ Holders /\ Held /\ Leases
    BY DEF TypeInv, TypeOK, SlotInv, SlotTypes
  <2>1. FinishedFrees
    BY <2>0 DEF FinishedFrees, Finished, HoldsSlot, SlotTypes, Holders, Leases, Runtimes
  <2>2. WorkingHoldsSlot
    BY <2>0 DEF WorkingHoldsSlot, Current, Stages, Held, Underway
  <2>3. SerialLeases
    <3> SUFFICES ASSUME NEW t \in Transfers, NEW x \in Transfers, t # x, run[t] = run[x],
                        t \in leased, x \in leased \/ cmd[x] = "reserved"
                 PROVE  FALSE
      BY DEF SerialLeases
    <3>1. Inline /\ Underway(t) /\ Underway(x)
      BY <2>0 DEF Leases, Underway
    <3>2. run[t] \in Runtimes /\ t \in active[run[t]] /\ x \in active[run[t]]
      BY <2>0, <3>1 DEF Held
    <3> QED BY <2>0, <3>1, <3>2 DEF Holders
  <2> QED BY <2>1, <2>2, <2>3 DEF SlotsHeld
<1> QED BY <1>1, SlotInvariant, PTL

-----------------------------------------------------------------------------
(* What a closing session owes: the cancel flag to every transfer that is  *)
(* not over,                                                               *)
Working(t) ==
  cmd[t] \in {"reserved", "spawned", "registered", "announced"} \/ job[t] = "running"

(* Every step keeps the transfers of a closed runtime cancelled.           *)
LEMMA CancelsStep == TypeInv /\ SlotInv /\ ClosedCancels /\ [Next]_vars => ClosedCancels'
<1> SUFFICES ASSUME TypeInv, SlotInv, ClosedCancels, [Next]_vars PROVE ClosedCancels'
  OBVIOUS
<1> USE DEF sessionVars, slotVars, taskVars, frontVars, wireVars
<1>0. /\ SlotTypes /\ Stages /\ Held /\ up \in BOOLEAN /\ cancel \in SUBSET Transfers
      /\ \A t \in Transfers : Working(t) /\ ~Connected(t) => t \in cancel
  BY DEF TypeInv, TypeOK, SlotInv, SlotTypes, ClosedCancels, Working
<1>1. ASSUME /\ \A t \in Transfers : Working(t)' => Working(t)
             /\ cancel \subseteq cancel'
             /\ UNCHANGED <<up, cur, run>>
      PROVE  ClosedCancels'
  BY <1>0, <1>1 DEF ClosedCancels, Working, Connected
<1>2. ASSUME Connect PROVE ClosedCancels'
  <2>1. ~up /\ UNCHANGED <<cmd, job, run, cancel>>
    BY <1>2 DEF Connect
  <2> QED BY <1>0, <2>1 DEF ClosedCancels, Working, Connected
<1>3. ASSUME Close, UNCHANGED <<cur, cmd, job, run, active>> PROVE ClosedCancels'
  <2>1. \A t \in Transfers : Working(t) => t \in active[run[t]]
    BY <1>0 DEF Working, Stages, Held, Underway
  <2> QED BY <1>0, <1>3, <2>1 DEF ClosedCancels, Working, Connected, Close
<1>4. ASSUME Lose PROVE ClosedCancels'
  BY <1>3, <1>4 DEF Lose
<1>5. ASSUME RunDisconnect PROVE ClosedCancels'
  <2>1. CASE Close
    BY <1>3, <1>5, <2>1 DEF RunDisconnect
  <2>2. CASE UNCHANGED <<up, cancel>>
    BY <1>1, <1>5, <2>2 DEF RunDisconnect, Working
  <2> QED BY <1>5, <2>1, <2>2 DEF RunDisconnect
<1>6. ASSUME NEW t \in Transfers, AskStart(t) PROVE ClosedCancels'
  <2>1. /\ cmd[t] = "none" /\ cmd' = [cmd EXCEPT ![t] = "asked"] /\ run' = [run EXCEPT ![t] = tab]
        /\ UNCHANGED <<up, cur, job, cancel>>
    BY <1>6 DEF AskStart
  <2>2. \A x \in Transfers : Working(x)' => Working(x) /\ run'[x] = run[x]
    BY <1>0, <2>1 DEF Working, SlotTypes, Stages
  <2> QED BY <1>0, <2>1, <2>2 DEF ClosedCancels, Working, Connected
<1>7. ASSUME NEW t \in Transfers, Reserve(t) PROVE ClosedCancels'
  <2>1. Connected(t) /\ UNCHANGED <<up, cur, run, cancel>>
    BY <1>7 DEF Reserve
  <2>2. \A x \in Transfers : x # t => (Working(x)' <=> Working(x))
    BY <1>0, <1>7 DEF Reserve, Working, SlotTypes
  <2> QED BY <1>0, <2>1, <2>2 DEF ClosedCancels, Working, Connected
<1>8. ASSUME NEW t \in Transfers, Refuse(t) PROVE ClosedCancels'
  <2>1. \A x \in Transfers : Working(x)' => Working(x)
    BY <1>0, <1>8 DEF Refuse, Working, SlotTypes, Stages
  <2> QED BY <1>1, <1>8, <2>1 DEF Refuse
<1>9. ASSUME NEW t \in Transfers, Acquire(t) PROVE ClosedCancels'
  <2>1. \A x \in Transfers : Working(x)' => Working(x)
    BY <1>0, <1>9 DEF Acquire, Working, SlotTypes, Stages
  <2> QED BY <1>1, <1>9, <2>1 DEF Acquire
<1>10. ASSUME NEW t \in Transfers, Register(t) PROVE ClosedCancels'
  <2>1. \A x \in Transfers : Working(x)' => Working(x)
    BY <1>0, <1>10 DEF Register, Working, SlotTypes, Stages
  <2> QED BY <1>1, <1>10, <2>1 DEF Register
<1>11. ASSUME NEW t \in Transfers, Announce(t) PROVE ClosedCancels'
  <2>1. \A x \in Transfers : Working(x)' => Working(x)
    BY <1>0, <1>11 DEF Announce, Working, SlotTypes, Stages
  <2> QED BY <1>1, <1>11, <2>1 DEF Announce
<1>12. ASSUME NEW t \in Transfers, OpenGate(t) PROVE ClosedCancels'
  <2>1. \A x \in Transfers : Working(x)' => Working(x)
    BY <1>0, <1>12 DEF OpenGate, Working, SlotTypes, Stages
  <2> QED BY <1>1, <1>12, <2>1 DEF OpenGate
<1>13. ASSUME NEW t \in Transfers, Return(t) PROVE ClosedCancels'
  <2>1. \A x \in Transfers : Working(x)' => Working(x)
    BY <1>0, <1>13 DEF Return, Working, SlotTypes, Stages
  <2> QED BY <1>1, <1>13, <2>1 DEF Return
<1>14. ASSUME NEW t \in Transfers, Panic(t) PROVE ClosedCancels'
  <2>1. \A x \in Transfers : Working(x)' => Working(x)
    BY <1>0, <1>14 DEF Panic, Working, SlotTypes, Stages
  <2> QED BY <1>1, <1>14, <2>1 DEF Panic
<1>15. ASSUME NEW t \in Transfers, GateDropped(t) PROVE ClosedCancels'
  <2>1. \A x \in Transfers : Working(x)' => Working(x)
    BY <1>0, <1>15 DEF GateDropped, Working, SlotTypes, Stages
  <2> QED BY <1>1, <1>15, <2>1 DEF GateDropped
<1>16. ASSUME NEW t \in Transfers, FreeSlot(t) PROVE ClosedCancels'
  <2>1. \A x \in Transfers : Working(x)' => Working(x)
    BY <1>0, <1>16 DEF FreeSlot, Working, SlotTypes, Stages
  <2> QED BY <1>1, <1>16, <2>1 DEF FreeSlot
<1>17. ASSUME NEW t \in Transfers, Finish(t) PROVE ClosedCancels'
  <2>1. \A x \in Transfers : Working(x)' => Working(x)
    BY <1>0, <1>17 DEF Finish, Working, SlotTypes, Stages
  <2> QED BY <1>1, <1>17, <2>1 DEF Finish
<1>18. ASSUME NEW t \in Transfers, RunCancel(t) PROVE ClosedCancels'
  BY <1>0, <1>1, <1>18 DEF RunCancel, Working
<1>19. ASSUME UNCHANGED <<up, cur, cmd, job, run, cancel>> PROVE ClosedCancels'
  BY <1>1, <1>19 DEF Working
<1> QED
  BY <1>2, <1>3, <1>4, <1>5, <1>6, <1>7, <1>8, <1>9, <1>10, <1>11, <1>12, <1>13, <1>14, <1>15, <1>16, <1>17, <1>18, <1>19
  DEF Next, SessionStep, CommandStep, JobStep, FrontStep, AskDisconnect, AnswerDisconnect,
      TellLoss, JoinTransfer, Deliver, Progress, ReturnLease, AskCancel, CancelRejected,
      Dismiss, DeliverAck, vars

(* Closing a session raises the cancel flag of every transfer that is not  *)
(* over, in whatever stage its command or its task is (close_session).     *)
THEOREM ClosedCancelsHolds == Spec => []ClosedCancels
<1>1. Init => ClosedCancels
  BY DEF Init, ClosedCancels
<1> QED BY <1>1, CancelsStep, SlotInvariant, PTL DEF Spec

(* and a place in the cleanup to every accepted one.                       *)
Accepted(t) == cmd[t] \in {"registered", "announced", "answered"}

Cared(t) == t \in tasks[run[t]] \/ t \in joins[run[t]] \/ t \in abandoned

CleanupInv ==
  /\ \A r \in Runtimes : r > cur \/ (up /\ r = cur) => \A t \in Transfers : t \notin joins[r]
  /\ \A t \in Transfers : Accepted(t) => run[t] \in Runtimes /\ (job[t] # "done" => Cared(t))

(* Every step keeps an accepted task done or cared for.                    *)
LEMMA CleanupStep == TypeInv /\ SlotInv /\ CleanupInv /\ [Next]_vars => CleanupInv'
<1> SUFFICES ASSUME TypeInv, SlotInv, CleanupInv, [Next]_vars PROVE CleanupInv'
  OBVIOUS
<1> USE DEF sessionVars, slotVars, taskVars, frontVars, wireVars
<1>0. /\ SlotTypes /\ Stages /\ Held /\ up \in BOOLEAN /\ (up => cur \in Runtimes)
      /\ tasks \in [Runtimes -> SUBSET Transfers] /\ joins \in [Runtimes -> SUBSET Transfers]
  BY DEF TypeInv, TypeOK, WireInv, SlotInv, SlotTypes
<1>1. ASSUME /\ \A t \in Transfers : Accepted(t)' /\ job'[t] # "done" => Accepted(t) /\ job[t] # "done"
             /\ \A t \in Transfers : Accepted(t)' => Accepted(t)
             /\ UNCHANGED <<up, cur, run, tasks, joins, abandoned>>
      PROVE  CleanupInv'
  BY <1>1 DEF CleanupInv, Cared
<1>2. ASSUME Connect PROVE CleanupInv'
  <2>1. cur' = cur + 1 /\ UNCHANGED <<cmd, job, run, tasks, joins, abandoned>>
    BY <1>2 DEF Connect
  <2>2. \A r \in Runtimes : r > cur' \/ r = cur' => r > cur
    BY <1>0, <2>1, ConstantsAssumption DEF SlotTypes, Runtimes
  <2> QED BY <2>1, <2>2 DEF CleanupInv, Cared, Accepted
<1>3. ASSUME up, Close, UNCHANGED <<cur, cmd, job, run, abandoned>> PROVE CleanupInv'
  <2>1. /\ \A r \in Runtimes : r # cur => joins'[r] = joins[r] /\ tasks'[r] = tasks[r]
        /\ joins'[cur] = tasks[cur] /\ cur \in Runtimes
    BY <1>0, <1>3 DEF Close
  <2>2. \A r \in Runtimes : r > cur => r # cur
    BY <1>0 DEF SlotTypes, Runtimes
  <2>3. \A r \in Runtimes : r > cur => \A t \in Transfers : t \notin joins'[r]
    BY <2>1, <2>2 DEF CleanupInv
  <2>4. \A t \in Transfers : run[t] \in Runtimes /\ Cared(t) => Cared(t)'
    BY <1>3, <2>1 DEF CleanupInv, Cared
  <2> QED BY <1>3, <2>3, <2>4 DEF CleanupInv, Close, Accepted
<1>4. ASSUME Lose PROVE CleanupInv'
  BY <1>3, <1>4 DEF Lose
<1>5. ASSUME RunDisconnect PROVE CleanupInv'
  <2>1. CASE up /\ Close
    BY <1>3, <1>5, <2>1 DEF RunDisconnect
  <2>2. CASE UNCHANGED <<up, joins, tasks>>
    BY <1>1, <1>5, <2>2 DEF RunDisconnect, Accepted
  <2> QED BY <1>5, <2>1, <2>2 DEF RunDisconnect
<1>6. ASSUME NEW r \in Runtimes, NEW t \in Transfers, JoinTransfer(r, t) PROVE CleanupInv'
  <2>1. /\ UNCHANGED <<up, cur, cmd, job, run, tasks>>
        /\ joins' = [joins EXCEPT ![r] = @ \ {t}] /\ abandoned \subseteq abandoned'
        /\ job[t] # "done" => t \in abandoned'
    BY <1>6 DEF JoinTransfer
  <2>2. \A p \in Runtimes : \A x : x \in joins'[p] <=> x \in joins[p] /\ (p = r => x # t)
    BY <1>0, <2>1
  <2>3. \A x \in Transfers : run[x] \in Runtimes /\ job[x] # "done" /\ Cared(x) => Cared(x)'
    BY <2>1, <2>2 DEF Cared
  <2> QED BY <2>1, <2>2, <2>3 DEF CleanupInv, Accepted
<1>7. ASSUME NEW t \in Transfers, AskStart(t) PROVE CleanupInv'
  <2>1. /\ cmd[t] = "none" /\ cmd' = [cmd EXCEPT ![t] = "asked"] /\ run' = [run EXCEPT ![t] = tab]
        /\ UNCHANGED <<up, cur, job, tasks, joins, abandoned>>
    BY <1>7 DEF AskStart
  <2>2. \A x \in Transfers : Accepted(x)' => Accepted(x) /\ run'[x] = run[x]
    BY <1>0, <2>1 DEF Accepted, SlotTypes
  <2> QED BY <2>1, <2>2 DEF CleanupInv, Cared
<1>8. ASSUME NEW t \in Transfers, Register(t) PROVE CleanupInv'
  <2>1. cmd[t] = "spawned" /\ UNCHANGED <<up, cur, job, run, joins, abandoned>>
    BY <1>8 DEF Register
  <2>2. CASE Connected(t)
    <3>1. /\ cmd' = [cmd EXCEPT ![t] = "registered"] /\ run[t] = cur /\ cur \in Runtimes
          /\ tasks' = [tasks EXCEPT ![cur] = {x \in @ : job[x] # "done"} \cup {t}]
      BY <1>0, <1>8, <2>2 DEF Register, Connected
    <3>2. \A r \in Runtimes : \A x : x \in tasks[r] /\ job[x] # "done" => x \in tasks'[r]
      BY <1>0, <3>1
    <3>3. t \in tasks'[cur]
      BY <1>0, <3>1
    <3>4. \A x \in Transfers : x # t /\ Accepted(x)' => Accepted(x)
      BY <1>0, <3>1 DEF Accepted, SlotTypes
    <3>5. \A x \in Transfers : run[x] \in Runtimes /\ job[x] # "done" /\ Cared(x) => Cared(x)'
      BY <2>1, <3>2 DEF Cared
    <3>6. Cared(t)'
      BY <2>1, <3>1, <3>3 DEF Cared
    <3> QED BY <2>1, <3>1, <3>4, <3>5, <3>6 DEF CleanupInv
  <2>3. CASE ~Connected(t)
    <3>1. cmd' = [cmd EXCEPT ![t] = "refused"] /\ UNCHANGED tasks
      BY <1>8, <2>3 DEF Register
    <3>2. \A x \in Transfers : Accepted(x)' => Accepted(x)
      BY <1>0, <3>1 DEF Accepted, SlotTypes
    <3> QED BY <1>1, <2>1, <3>1, <3>2
  <2> QED BY <2>2, <2>3
<1>9. ASSUME NEW t \in Transfers, Reserve(t) PROVE CleanupInv'
  <2>1. /\ \A x \in Transfers : Accepted(x)' => Accepted(x)
        /\ \A x \in Transfers : Accepted(x)' /\ job'[x] # "done" => job[x] # "done"
    BY <1>0, <1>9 DEF Reserve, Accepted, SlotTypes, Stages
  <2> QED BY <1>1, <1>9, <2>1 DEF Reserve
<1>10. ASSUME NEW t \in Transfers, Refuse(t) PROVE CleanupInv'
  <2>1. /\ \A x \in Transfers : Accepted(x)' => Accepted(x)
        /\ \A x \in Transfers : Accepted(x)' /\ job'[x] # "done" => job[x] # "done"
    BY <1>0, <1>10 DEF Refuse, Accepted, SlotTypes, Stages
  <2> QED BY <1>1, <1>10, <2>1 DEF Refuse
<1>11. ASSUME NEW t \in Transfers, Acquire(t) PROVE CleanupInv'
  <2>1. /\ \A x \in Transfers : Accepted(x)' => Accepted(x)
        /\ \A x \in Transfers : Accepted(x)' /\ job'[x] # "done" => job[x] # "done"
    BY <1>0, <1>11 DEF Acquire, Accepted, SlotTypes, Stages
  <2> QED BY <1>1, <1>11, <2>1 DEF Acquire
<1>12. ASSUME NEW t \in Transfers, Announce(t) PROVE CleanupInv'
  <2>1. /\ \A x \in Transfers : Accepted(x)' => Accepted(x)
        /\ \A x \in Transfers : Accepted(x)' /\ job'[x] # "done" => job[x] # "done"
    BY <1>0, <1>12 DEF Announce, Accepted, SlotTypes, Stages
  <2> QED BY <1>1, <1>12, <2>1 DEF Announce
<1>13. ASSUME NEW t \in Transfers, OpenGate(t) PROVE CleanupInv'
  <2>1. /\ \A x \in Transfers : Accepted(x)' => Accepted(x)
        /\ \A x \in Transfers : Accepted(x)' /\ job'[x] # "done" => job[x] # "done"
    BY <1>0, <1>13 DEF OpenGate, Accepted, SlotTypes, Stages
  <2> QED BY <1>1, <1>13, <2>1 DEF OpenGate
<1>14. ASSUME NEW t \in Transfers, Return(t) PROVE CleanupInv'
  <2>1. /\ \A x \in Transfers : Accepted(x)' => Accepted(x)
        /\ \A x \in Transfers : Accepted(x)' /\ job'[x] # "done" => job[x] # "done"
    BY <1>0, <1>14 DEF Return, Accepted, SlotTypes, Stages
  <2> QED BY <1>1, <1>14, <2>1 DEF Return
<1>15. ASSUME NEW t \in Transfers, Panic(t) PROVE CleanupInv'
  <2>1. /\ \A x \in Transfers : Accepted(x)' => Accepted(x)
        /\ \A x \in Transfers : Accepted(x)' /\ job'[x] # "done" => job[x] # "done"
    BY <1>0, <1>15 DEF Panic, Accepted, SlotTypes, Stages
  <2> QED BY <1>1, <1>15, <2>1 DEF Panic
<1>16. ASSUME NEW t \in Transfers, GateDropped(t) PROVE CleanupInv'
  <2>1. /\ \A x \in Transfers : Accepted(x)' => Accepted(x)
        /\ \A x \in Transfers : Accepted(x)' /\ job'[x] # "done" => job[x] # "done"
    BY <1>0, <1>16 DEF GateDropped, Accepted, SlotTypes, Stages
  <2> QED BY <1>1, <1>16, <2>1 DEF GateDropped
<1>17. ASSUME NEW t \in Transfers, FreeSlot(t) PROVE CleanupInv'
  <2>1. /\ \A x \in Transfers : Accepted(x)' => Accepted(x)
        /\ \A x \in Transfers : Accepted(x)' /\ job'[x] # "done" => job[x] # "done"
    BY <1>0, <1>17 DEF FreeSlot, Accepted, SlotTypes, Stages
  <2> QED BY <1>1, <1>17, <2>1 DEF FreeSlot
<1>18. ASSUME NEW t \in Transfers, Finish(t) PROVE CleanupInv'
  <2>1. /\ \A x \in Transfers : Accepted(x)' => Accepted(x)
        /\ \A x \in Transfers : Accepted(x)' /\ job'[x] # "done" => job[x] # "done"
    BY <1>0, <1>18 DEF Finish, Accepted, SlotTypes, Stages
  <2> QED BY <1>1, <1>18, <2>1 DEF Finish
<1>19. ASSUME UNCHANGED <<up, cur, cmd, job, run, tasks, joins, abandoned>> PROVE CleanupInv'
  BY <1>1, <1>19 DEF Accepted
<1> QED
  BY <1>2, <1>3, <1>4, <1>5, <1>6, <1>7, <1>8, <1>9, <1>10, <1>11, <1>12, <1>13, <1>14, <1>15, <1>16, <1>17, <1>18, <1>19
  DEF Next, SessionStep, CommandStep, JobStep, FrontStep, AskDisconnect, AnswerDisconnect,
      TellLoss, Deliver, Progress, ReturnLease, AskCancel, RunCancel, CancelRejected,
      Dismiss, DeliverAck, vars

(* No accepted transfer escapes a closing session: a task behind an open   *)
(* gate is in the handle's list or in the cleanup's until the cleanup      *)
(* gives up on it (register_transfer_task, close_session, finish).         *)
THEOREM AcceptedIsJoinedHolds == Spec => []AcceptedIsJoined
<1>1. Init => CleanupInv
  BY DEF Init, CleanupInv, Accepted
<1>2. CleanupInv => AcceptedIsJoined
  BY DEF CleanupInv, AcceptedIsJoined, Accepted, Cared, Started
<1> QED BY <1>1, <1>2, CleanupStep, SlotInvariant, PTL DEF Spec

-----------------------------------------------------------------------------
(* The front end: a task is shown once its started event has come, and     *)
(* that event is sent once.                                                *)
IsStarted(e) == e.type = "started"

WireStarted ==
  /\ \A i \in 1..Len(events) : IsStarted(events[i]) => events[i].t \in Started /\ events[i].t \notin seen
  /\ \A i, j \in 1..Len(events) :
       IsStarted(events[i]) /\ IsStarted(events[j]) /\ events[i].t = events[j].t => i = j

ViewInv ==
  /\ \A t \in Transfers : ui[t] # "absent" => t \in seen
  /\ seen \subseteq Started
  /\ WireStarted
  /\ TerminalIsSettled

FrontTypes ==
  /\ events \in Seq(Event)
  /\ cmd \in [Transfers -> {"none", "asked", "reserved", "spawned", "registered", "announced",
                            "answered", "refused"}]
  /\ ui \in [Transfers -> Live \cup Terminal \cup {"absent"}]
  /\ unsettled \in SUBSET Transfers /\ seen \in SUBSET Transfers

(* Sending any other event keeps what is said of the wire.                 *)
LEMMA EmitOther ==
  ASSUME FrontTypes, WireStarted, NEW e \in Event, ~IsStarted(e), Emit(e),
         Started \subseteq Started', UNCHANGED seen
  PROVE  WireStarted'
<1>1. /\ events' \in Seq(Event) /\ Len(events) \in Nat /\ Len(events') = Len(events) + 1
      /\ \A i \in 1..Len(events) : events'[i] = events[i]
      /\ events'[Len(events) + 1] = e
  BY EmitWire DEF FrontTypes
<1>2. \A i \in 1..Len(events') : IsStarted(events'[i]) => i \in 1..Len(events)
  BY <1>1
<1>3. \A i \in 1..Len(events') : IsStarted(events'[i]) =>
        events'[i].t \in Started' /\ events'[i].t \notin seen'
  BY <1>1, <1>2 DEF WireStarted
<1>4. \A i, j \in 1..Len(events') :
        IsStarted(events'[i]) /\ IsStarted(events'[j]) /\ events'[i].t = events'[j].t => i = j
  BY <1>1, <1>2 DEF WireStarted
<1> QED BY <1>3, <1>4 DEF WireStarted, IsStarted

(* So does sending the started event of a transfer that was not announced. *)
LEMMA EmitStarted ==
  ASSUME FrontTypes, WireStarted, NEW t \in Transfers, t \notin Started, t \notin seen,
         Emit([type |-> "started", t |-> t]), Started' = Started \cup {t}, UNCHANGED seen
  PROVE  WireStarted'
<1> DEFINE e == [type |-> "started", t |-> t]
<1>0. e \in Event /\ e.t = t
  BY EventShapes
<1>1. /\ events' \in Seq(Event) /\ Len(events) \in Nat /\ Len(events') = Len(events) + 1
      /\ \A i \in 1..Len(events) : events'[i] = events[i]
      /\ events'[Len(events) + 1] = e
  BY <1>0, EmitWire DEF FrontTypes
<1>2. \A i \in 1..Len(events') : i \in 1..Len(events) \/ i = Len(events) + 1
  BY <1>1
<1>3. \A i \in 1..Len(events') : IsStarted(events'[i]) =>
        events'[i].t \in Started' /\ events'[i].t \notin seen'
  BY <1>0, <1>1, <1>2 DEF WireStarted
<1>4. \A i \in 1..Len(events) : IsStarted(events[i]) => events[i].t # t
  BY DEF WireStarted
<1>5. \A i, j \in 1..Len(events') :
        IsStarted(events'[i]) /\ IsStarted(events'[j]) /\ events'[i].t = events'[j].t => i = j
  BY <1>0, <1>1, <1>2, <1>4 DEF WireStarted
<1> QED BY <1>3, <1>5 DEF WireStarted, IsStarted

(* Every step keeps the windows to transfers whose started event was sent. *)
LEMMA ViewStep == TypeInv /\ ViewInv /\ [Next]_vars => ViewInv'
<1> SUFFICES ASSUME TypeInv, ViewInv, [Next]_vars PROVE ViewInv'
  OBVIOUS
<1> USE DEF sessionVars, slotVars, taskVars, frontVars, wireVars
<1>0. FrontTypes /\ WireStarted /\ TerminalIsSettled /\ WireInv
      /\ (\A t \in Transfers : ui[t] # "absent" => t \in seen) /\ seen \subseteq Started
  BY DEF TypeInv, TypeOK, FrontTypes, ViewInv
<1>1. ASSUME UNCHANGED <<ui, unsettled, seen>>, Started \subseteq Started', WireStarted' PROVE ViewInv'
  BY <1>0, <1>1 DEF ViewInv, TerminalIsSettled
<1>2. ASSUME NEW e \in Event, ~IsStarted(e), Emit(e), Started \subseteq Started',
             UNCHANGED <<ui, unsettled, seen>>
      PROVE  ViewInv'
  BY <1>0, <1>1, <1>2, EmitOther
<1>3. ASSUME UNCHANGED events, Started \subseteq Started', UNCHANGED seen PROVE WireStarted'
  BY <1>0, <1>3 DEF WireStarted, IsStarted
<1>4. ASSUME Connect PROVE ViewInv'
  <2>1. [type |-> "connected", r |-> cur + 1] \in Event
    <3>1. cur + 1 \in Runtimes
      BY <1>4, ConstantsAssumption DEF Connect, TypeInv, TypeOK, Runtimes
    <3> QED BY <3>1, EventShapes
  <2> QED BY <1>2, <1>4, <2>1 DEF Connect, Started, IsStarted
<1>5. ASSUME AnswerDisconnect PROVE ViewInv'
  <2>1. [type |-> "disconnected", r |-> cur] \in Event
    BY <1>0, <1>5, EventShapes DEF AnswerDisconnect, WireInv
  <2> QED BY <1>2, <1>5, <2>1 DEF AnswerDisconnect, Started, IsStarted
<1>6. ASSUME NEW r \in Runtimes, TellLoss(r) PROVE ViewInv'
  <2>1. [type |-> "disconnected", r |-> r] \in Event
    BY EventShapes
  <2> QED BY <1>2, <1>6, <2>1 DEF TellLoss, Started, IsStarted
<1>7. ASSUME NEW t \in Transfers, Progress(t) PROVE ViewInv'
  <2>1. [type |-> "progress", t |-> t] \in Event
    BY EventShapes
  <2> QED BY <1>2, <1>7, <2>1 DEF Progress, Started, IsStarted
<1>8. ASSUME NEW t \in Transfers, Finish(t) PROVE ViewInv'
  <2>1. [type |-> "finished", t |-> t] \in Event
    BY EventShapes
  <2> QED BY <1>2, <1>8, <2>1 DEF Finish, Started, IsStarted
<1>9. ASSUME NEW t \in Transfers, Announce(t) PROVE ViewInv'
  <2>1. /\ cmd[t] = "registered" /\ cmd' = [cmd EXCEPT ![t] = "announced"]
        /\ Emit([type |-> "started", t |-> t]) /\ UNCHANGED <<ui, unsettled, seen>>
    BY <1>9 DEF Announce
  <2>2. t \notin Started /\ t \notin seen /\ Started' = Started \cup {t}
    BY <1>0, <2>1 DEF FrontTypes, Started
  <2>3. WireStarted'
    BY <1>0, <2>1, <2>2, EmitStarted
  <2> QED BY <1>1, <2>1, <2>2, <2>3
<1>10. ASSUME Deliver PROVE ViewInv'
  <2> DEFINE e == Head(events)
  <2>1. /\ e \in Event /\ e = events[1] /\ 1 \in 1..Len(events) /\ events' \in Seq(Event)
        /\ \A i \in 1..Len(events') :
             i + 1 \in 1..Len(events) /\ i + 1 # 1 /\ events'[i] = events[i + 1]
        /\ \A i, j \in 1..Len(events') : i + 1 = j + 1 => i = j
    BY <1>0, <1>10, TailWire DEF Deliver, FrontTypes
  <2>2. /\ UNCHANGED cmd /\ Started' = Started
        /\ CASE e.type = "connected"    -> OnConnected(e.r)
             [] e.type = "disconnected" -> OnDisconnected(e.r)
             [] e.type = "started"      -> OnStarted(e.t)
             [] e.type = "finished"     -> OnFinished(e.t)
             [] OTHER                   -> OnProgress(e.t)
    BY <1>10 DEF Deliver, Started
  <2> HIDE DEF e
  <2>3. ASSUME seen' \subseteq IF IsStarted(e) THEN seen \cup {e.t} ELSE seen
        PROVE  WireStarted'
    <3>1. \A i \in 1..Len(events') : IsStarted(events'[i]) =>
            /\ events'[i].t \in Started /\ events'[i].t \notin seen
            /\ IsStarted(e) => events'[i].t # e.t
      BY <1>0, <2>1 DEF WireStarted
    <3>2. \A i \in 1..Len(events') : IsStarted(events'[i]) =>
            events'[i].t \in Started' /\ events'[i].t \notin seen'
      BY <2>2, <2>3, <3>1
    <3>3. \A i, j \in 1..Len(events') :
            IsStarted(events'[i]) /\ IsStarted(events'[j]) /\ events'[i].t = events'[j].t => i = j
      BY <1>0, <2>1 DEF WireStarted
    <3> QED BY <3>2, <3>3 DEF WireStarted, IsStarted
  <2>4. CASE e.type = "connected"
    <3>1. UNCHANGED <<ui, unsettled, seen>>
      BY <2>2, <2>4 DEF OnConnected
    <3> QED BY <1>1, <2>2, <2>3, <3>1
  <2>5. CASE e.type = "disconnected"
    <3>1. OnDisconnected(e.r)
      BY <2>2, <2>5
    <3>2. /\ \A t \in Transfers : ui'[t] # "absent" => ui'[t] = ui[t]
          /\ unsettled' \subseteq unsettled /\ UNCHANGED seen
      BY <3>1 DEF OnDisconnected
    <3> QED BY <1>0, <2>2, <2>3, <3>2 DEF ViewInv, TerminalIsSettled, Terminal
  <2>6. CASE e.type = "started"
    <3>1. OnStarted(e.t) /\ e.t \in Transfers /\ e.t \in Started
      BY <1>0, <2>1, <2>2, <2>6, EventFields DEF WireStarted, IsStarted
    <3>2. /\ \A t \in Transfers : ui'[t] \in {"absent", "active"} \/ ui'[t] = ui[t]
          /\ \A t \in Transfers : ui'[t] # "absent" => t \in seen'
          /\ unsettled' \subseteq unsettled /\ seen' \subseteq seen \cup {e.t}
      BY <1>0, <3>1 DEF OnStarted, FrontTypes
    <3> QED BY <1>0, <2>2, <2>3, <2>6, <3>1, <3>2
            DEF ViewInv, TerminalIsSettled, Terminal, IsStarted
  <2>7. CASE e.type = "finished"
    <3>1. OnFinished(e.t) /\ e.t \in Transfers
      BY <2>1, <2>2, <2>7, EventFields
    <3>2. /\ \A t \in Transfers : ui'[t] # ui[t] => ui[t] \in Live /\ t \notin unsettled'
          /\ unsettled' \subseteq unsettled /\ UNCHANGED seen
      BY <1>0, <3>1 DEF OnFinished, FrontTypes
    <3> QED BY <1>0, <2>2, <2>3, <3>2 DEF ViewInv, TerminalIsSettled, Live
  <2>8. CASE e.type = "progress"
    <3>1. /\ UNCHANGED <<ui, seen>>
          /\ \A t \in Transfers : t \in unsettled' => t \in unsettled \/ ui[t] \in Live
      BY <2>2, <2>8 DEF OnProgress
    <3> QED BY <1>0, <2>2, <2>3, <3>1 DEF ViewInv, TerminalIsSettled, Live, Terminal
  <2> QED BY <2>1, <2>4, <2>5, <2>6, <2>7, <2>8, EventFields
<1>11. ASSUME NEW t \in Transfers, DeliverAck(t) PROVE ViewInv'
  <2>1. /\ UNCHANGED <<ui, seen, events, cmd>> /\ Started' = Started
        /\ \A x \in Transfers : x \in unsettled' => x \in unsettled \/ ui[x] \in Live
    BY <1>11 DEF DeliverAck, Started
  <2> QED BY <1>0, <1>3, <2>1 DEF ViewInv, TerminalIsSettled, Live, Terminal
<1>12. ASSUME NEW t \in Transfers, AskCancel(t) PROVE ViewInv'
  <2>1. /\ UNCHANGED <<seen, events, cmd>> /\ Started' = Started
        /\ unsettled' \subseteq unsettled
        /\ \A x \in Transfers : ui'[x] # ui[x] =>
             ui'[x] \in {"absent", "active", "cancelling"} /\ ui[x] # "absent"
    BY <1>0, <1>12 DEF AskCancel, Started, FrontTypes
  <2> QED BY <1>0, <1>3, <2>1 DEF ViewInv, TerminalIsSettled, Terminal
<1>13. ASSUME NEW t \in Transfers, CancelRejected(t) PROVE ViewInv'
  <2>1. /\ UNCHANGED <<seen, events, cmd>> /\ Started' = Started
        /\ unsettled' \subseteq unsettled
        /\ \A x \in Transfers : ui'[x] # ui[x] =>
             ui'[x] \in {"absent", "active", "cancelling"} /\ ui[x] # "absent"
    BY <1>0, <1>13 DEF CancelRejected, Started, FrontTypes
  <2> QED BY <1>0, <1>3, <2>1 DEF ViewInv, TerminalIsSettled, Terminal
<1>14. ASSUME NEW t \in Transfers, Dismiss(t) PROVE ViewInv'
  <2>1. /\ UNCHANGED <<seen, events, cmd>> /\ Started' = Started
        /\ unsettled' \subseteq unsettled
        /\ \A x \in Transfers : ui'[x] # ui[x] =>
             ui'[x] \in {"absent", "active", "cancelling"} /\ ui[x] # "absent"
    BY <1>0, <1>14 DEF Dismiss, Started, FrontTypes
  <2> QED BY <1>0, <1>3, <2>1 DEF ViewInv, TerminalIsSettled, Terminal
<1>15. ASSUME NEW t \in Transfers, AskStart(t) PROVE ViewInv'
  <2>1. Started \subseteq Started'
    BY <1>0, <1>15 DEF AskStart, Started, FrontTypes
  <2> QED BY <1>1, <1>3, <1>15, <2>1 DEF AskStart
<1>16. ASSUME NEW t \in Transfers, Reserve(t) PROVE ViewInv'
  <2>1. Started \subseteq Started'
    BY <1>0, <1>16 DEF Reserve, Started, FrontTypes
  <2> QED BY <1>1, <1>3, <1>16, <2>1 DEF Reserve
<1>17. ASSUME NEW t \in Transfers, Refuse(t) PROVE ViewInv'
  <2>1. Started \subseteq Started'
    BY <1>0, <1>17 DEF Refuse, Started, FrontTypes
  <2> QED BY <1>1, <1>3, <1>17, <2>1 DEF Refuse
<1>18. ASSUME NEW t \in Transfers, Acquire(t) PROVE ViewInv'
  <2>1. Started \subseteq Started'
    BY <1>0, <1>18 DEF Acquire, Started, FrontTypes
  <2> QED BY <1>1, <1>3, <1>18, <2>1 DEF Acquire
<1>19. ASSUME NEW t \in Transfers, Register(t) PROVE ViewInv'
  <2>1. Started \subseteq Started'
    BY <1>0, <1>19 DEF Register, Started, FrontTypes
  <2> QED BY <1>1, <1>3, <1>19, <2>1 DEF Register
<1>20. ASSUME NEW t \in Transfers, OpenGate(t) PROVE ViewInv'
  <2>1. Started \subseteq Started'
    BY <1>0, <1>20 DEF OpenGate, Started, FrontTypes
  <2> QED BY <1>1, <1>3, <1>20, <2>1 DEF OpenGate
<1>21. ASSUME UNCHANGED <<cmd, events, ui, unsettled, seen>> PROVE ViewInv'
  BY <1>1, <1>3, <1>21 DEF Started
<1> QED
  BY <1>4, <1>5, <1>6, <1>7, <1>8, <1>9, <1>10, <1>11, <1>12, <1>13, <1>14, <1>15, <1>16, <1>17, <1>18, <1>19, <1>20, <1>21
  DEF Next, SessionStep, CommandStep, JobStep, FrontStep, Lose, AskDisconnect, RunDisconnect,
      JoinTransfer, Return, Panic, GateDropped, ReturnLease, FreeSlot, RunCancel, vars

(* What the front end shows follows the one started event of a transfer.   *)
THEOREM ViewInvariant == Spec => [](TypeInv /\ ViewInv)
<1>1. Init => ViewInv
  <2> SUFFICES ASSUME Init PROVE ViewInv
    OBVIOUS
  <2>1. Len(events) = 0
    BY EmptySeq DEF Init
  <2> QED BY <2>1 DEF Init, ViewInv, WireStarted, TerminalIsSettled, Terminal
<1> QED BY <1>1, TypeInit, TypeStep, ViewStep, PTL DEF Spec

(* A finished task lists no pending file, whenever the answer of the start *)
(* command arrives (TASK_ACKNOWLEDGED of transfer-state.ts).               *)
THEOREM TerminalIsSettledHolds == Spec => []TerminalIsSettled
<1>1. ViewInv => TerminalIsSettled
  BY DEF ViewInv
<1> QED BY <1>1, ViewInvariant, PTL

(* Late events and answers neither revive a finished task nor bring back   *)
(* one that was dismissed (the reducer of transfer-state.ts).              *)
THEOREM NoRevivalHolds == Spec => NoRevival
<1> DEFINE Kept ==
      \A t \in Transfers :
        /\ ui[t] \in Terminal => ui'[t] \in {ui[t], "absent"}
        /\ (t \in seen /\ ui[t] = "absent") => ui'[t] = "absent"
<1>1. TypeInv /\ ViewInv /\ [Next]_vars => [Kept]_vars
  <2> SUFFICES ASSUME TypeInv, ViewInv, Next PROVE Kept
    OBVIOUS
  <2> USE DEF sessionVars, slotVars, taskVars, frontVars, wireVars
  <2>0. FrontTypes /\ WireStarted /\ \A t \in Transfers : ui[t] # "absent" => t \in seen
    BY DEF TypeInv, TypeOK, FrontTypes, ViewInv
  <2>1. ASSUME UNCHANGED ui PROVE Kept
    BY <2>1
  <2>2. ASSUME Deliver PROVE Kept
    <3> DEFINE e == Head(events)
    <3>1. e \in Event /\ e = events[1] /\ 1 \in 1..Len(events)
      BY <2>0, <2>2, TailWire DEF Deliver, FrontTypes
    <3>2. /\ CASE e.type = "connected"    -> OnConnected(e.r)
               [] e.type = "disconnected" -> OnDisconnected(e.r)
               [] e.type = "started"      -> OnStarted(e.t)
               [] e.type = "finished"     -> OnFinished(e.t)
               [] OTHER                   -> OnProgress(e.t)
      BY <2>2 DEF Deliver
    <3> HIDE DEF e
    <3>3. CASE e.type \in {"connected", "progress"}
      BY <2>1, <3>2, <3>3 DEF OnConnected, OnProgress
    <3>4. CASE e.type = "disconnected"
      <4>1. OnDisconnected(e.r)
        BY <3>2, <3>4
      <4> QED BY <4>1 DEF OnDisconnected
    <3>5. CASE e.type = "started"
      <4>1. OnStarted(e.t) /\ e.t \notin seen /\ e.t \in Transfers
        BY <2>0, <3>1, <3>2, <3>5, EventFields DEF WireStarted, IsStarted
      <4>2. ui[e.t] = "absent"
        BY <2>0, <4>1
      <4> QED BY <4>1, <4>2 DEF OnStarted, Terminal
    <3>6. CASE e.type = "finished"
      <4>1. OnFinished(e.t) /\ e.t \in Transfers
        BY <3>1, <3>2, <3>6, EventFields
      <4> QED BY <2>0, <4>1 DEF OnFinished, FrontTypes, Live, Terminal
    <3> QED BY <3>1, <3>3, <3>4, <3>5, <3>6, EventFields
  <2>3. ASSUME NEW t \in Transfers, AskCancel(t) PROVE Kept
    BY <2>0, <2>3 DEF AskCancel, FrontTypes, Terminal
  <2>4. ASSUME NEW t \in Transfers, CancelRejected(t) PROVE Kept
    BY <2>0, <2>4 DEF CancelRejected, FrontTypes, Terminal
  <2>5. ASSUME NEW t \in Transfers, Dismiss(t) PROVE Kept
    BY <2>0, <2>5 DEF Dismiss, FrontTypes
  <2> QED
    BY <2>1, <2>2, <2>3, <2>4, <2>5
    DEF Next, SessionStep, CommandStep, JobStep, FrontStep, Connect, Lose, AskDisconnect,
        RunDisconnect, AnswerDisconnect, TellLoss, JoinTransfer, Reserve, Refuse, Acquire,
        Register, Announce, OpenGate, Return, Panic, GateDropped, ReturnLease, FreeSlot,
        Finish, Progress, AskStart, RunCancel, DeliverAck
<1> QED BY <1>1, ViewInvariant, PTL DEF Spec, NoRevival


-----------------------------------------------------------------------------
(* A task that ends without an outcome was refused before it was announced, *)
(* so each announced one sends its final event, and sends it behind its     *)
(* started event.                                                           *)
FinalOf(t) == [type |-> "finished", t |-> t]

OutcomeGiven ==
  \A t \in Transfers :
    job[t] \in {"ended", "freed", "done"} /\ result[t] = "none" => cmd[t] = "refused"

FinalBehindStarted ==
  \A i \in 1..Len(events) : IsStarted(events[i]) =>
    \/ job[events[i].t] # "done"
    \/ \E j \in 1..Len(events) : i < j /\ events[j] = FinalOf(events[i].t)

FinalInv == OutcomeGiven /\ FinalBehindStarted /\ LiveIsLive

FinalTypes ==
  /\ FrontTypes
  /\ job \in [Transfers -> {"none", "gated", "running", "ended", "freed", "done"}]
  /\ result \in [Transfers -> Terminal \cup {"none"}]

(* Sending any event but a started one, with no task going on to its end.  *)
LEMMA EmitFinal ==
  ASSUME FinalTypes, FinalBehindStarted, NEW e \in Event, ~IsStarted(e), Emit(e), UNCHANGED job
  PROVE  FinalBehindStarted'
<1>1. /\ events' \in Seq(Event) /\ Len(events) \in Nat /\ Len(events') = Len(events) + 1
      /\ \A i \in 1..Len(events) : events'[i] = events[i]
      /\ events'[Len(events) + 1] = e
  BY EmitWire DEF FinalTypes, FrontTypes
<1>2. \A i \in 1..Len(events) : i \in 1..Len(events')
  BY <1>1
<1>3. \A i \in 1..Len(events') : IsStarted(events'[i]) => i \in 1..Len(events)
  BY <1>1
<1> QED BY <1>1, <1>2, <1>3 DEF FinalBehindStarted, IsStarted, FinalOf

(* The wire is only longer: what is on it stays on it.                     *)
LEMMA EmitLive ==
  ASSUME FinalTypes, LiveIsLive, NEW e \in Event, Emit(e), UNCHANGED <<ui, job>>
  PROVE  LiveIsLive'
<1>1. /\ \A i \in 1..Len(events) : events'[i] = events[i]
      /\ \A i \in 1..Len(events) : i \in 1..Len(events')
  BY EmitWire DEF FinalTypes, FrontTypes
<1> QED BY <1>1 DEF LiveIsLive, Live

(* Every step keeps the outcome behind the start, and a transfer shown as  *)
(* live alive.                                                             *)
LEMMA FinalStep == TypeInv /\ SlotInv /\ ViewInv /\ FinalInv /\ [Next]_vars => FinalInv'
<1> SUFFICES ASSUME TypeInv, SlotInv, ViewInv, FinalInv, [Next]_vars PROVE FinalInv'
  OBVIOUS
<1> USE DEF sessionVars, slotVars, taskVars, frontVars, wireVars
<1>0. /\ FinalTypes /\ WireStarted /\ WireInv /\ Stages
      /\ OutcomeGiven /\ FinalBehindStarted /\ LiveIsLive
      /\ \A t \in Transfers : ui[t] # "absent" => t \in Started
  BY DEF TypeInv, TypeOK, FrontTypes, FinalTypes, ViewInv, SlotInv, FinalInv
<1>a. ASSUME UNCHANGED <<job, result>>,
             \A t \in Transfers : cmd[t] = "refused" => cmd'[t] = "refused"
      PROVE  OutcomeGiven'
  BY <1>0, <1>a DEF OutcomeGiven
<1>b. ASSUME UNCHANGED events, \A t \in Transfers : job'[t] = "done" => job[t] = "done"
      PROVE  FinalBehindStarted'
  <2>1. \A i \in 1..Len(events) : IsStarted(events[i]) => events[i].t \in Transfers
    BY <1>0 DEF WireStarted, Started
  <2> QED BY <1>0, <1>b, <2>1 DEF FinalBehindStarted, IsStarted, FinalOf
<1>c. ASSUME UNCHANGED events, \A t \in Transfers : job'[t] = "done" => job[t] = "done",
             \A t \in Transfers : ui'[t] \in Live => ui[t] \in Live
      PROVE  LiveIsLive'
  BY <1>0, <1>c DEF LiveIsLive, Live
<1>d. ASSUME NEW e \in Event, ~IsStarted(e), Emit(e), UNCHANGED <<cmd, job, result, ui>>
      PROVE  FinalInv'
  BY <1>0, <1>a, <1>d, EmitFinal, EmitLive DEF FinalInv
<1>e. ASSUME UNCHANGED <<events, job, result, ui>>,
             \A t \in Transfers : cmd[t] = "refused" => cmd'[t] = "refused"
      PROVE  FinalInv'
  BY <1>a, <1>b, <1>c, <1>e DEF FinalInv
<1>f. ASSUME UNCHANGED <<events, cmd, job, result>>,
             \A t \in Transfers : ui'[t] \in Live => ui[t] \in Live
      PROVE  FinalInv'
  BY <1>a, <1>b, <1>c, <1>f DEF FinalInv
<1>g. ASSUME UNCHANGED <<events, cmd, ui>>, OutcomeGiven',
             \A t \in Transfers : job'[t] = "done" => job[t] = "done"
      PROVE  FinalInv'
  BY <1>b, <1>c, <1>g DEF FinalInv
<1>4. ASSUME Connect PROVE FinalInv'
  <2>1. [type |-> "connected", r |-> cur + 1] \in Event
    <3>1. cur + 1 \in Runtimes
      BY <1>4, ConstantsAssumption DEF Connect, TypeInv, TypeOK, Runtimes
    <3> QED BY <3>1, EventShapes
  <2> QED BY <1>d, <1>4, <2>1 DEF Connect, IsStarted
<1>5. ASSUME AnswerDisconnect PROVE FinalInv'
  <2>1. [type |-> "disconnected", r |-> cur] \in Event
    BY <1>0, <1>5, EventShapes DEF AnswerDisconnect, WireInv
  <2> QED BY <1>d, <1>5, <2>1 DEF AnswerDisconnect, IsStarted
<1>6. ASSUME NEW r \in Runtimes, TellLoss(r) PROVE FinalInv'
  <2>1. [type |-> "disconnected", r |-> r] \in Event
    BY EventShapes
  <2> QED BY <1>d, <1>6, <2>1 DEF TellLoss, IsStarted
<1>7. ASSUME NEW t \in Transfers, Progress(t) PROVE FinalInv'
  <2>1. [type |-> "progress", t |-> t] \in Event
    BY EventShapes
  <2> QED BY <1>d, <1>7, <2>1 DEF Progress, IsStarted
<1>8. ASSUME NEW t \in Transfers, Finish(t) PROVE FinalInv'
  <2>1. /\ job[t] = "freed" /\ job' = [job EXCEPT ![t] = "done"] /\ Emit(FinalOf(t))
        /\ UNCHANGED <<cmd, result, ui>>
    BY <1>8 DEF Finish, FinalOf
  <2>2. FinalOf(t) \in Event /\ FinalOf(t).t = t /\ ~IsStarted(FinalOf(t))
    BY EventShapes DEF FinalOf, IsStarted
  <2>3. \A x \in Transfers : x # t => job'[x] = job[x]
    BY <1>0, <2>1 DEF FinalTypes
  <2>4. /\ events' \in Seq(Event) /\ Len(events) \in Nat /\ Len(events') = Len(events) + 1
        /\ \A i \in 1..Len(events) : events'[i] = events[i]
        /\ events'[Len(events) + 1] = FinalOf(t)
    BY <1>0, <2>1, <2>2, EmitWire DEF FinalTypes, FrontTypes
  <2>5. /\ \A i \in 1..Len(events) : i \in 1..Len(events') /\ i < Len(events')
        /\ Len(events') \in 1..Len(events') /\ events'[Len(events')] = FinalOf(t)
    BY <2>4
  <2>6. \A i \in 1..Len(events') : IsStarted(events'[i]) => i \in 1..Len(events)
    BY <2>2, <2>4
  <2>7. OutcomeGiven'
    BY <1>0, <2>1, <2>3 DEF OutcomeGiven
  <2>8. FinalBehindStarted'
    <3>1. \A i \in 1..Len(events) : IsStarted(events[i]) => events[i].t \in Transfers
      BY <1>0 DEF WireStarted, Started
    <3> SUFFICES ASSUME NEW i \in 1..Len(events'), IsStarted(events'[i]),
                        job'[events'[i].t] = "done"
                 PROVE  \E j \in 1..Len(events') : i < j /\ events'[j] = FinalOf(events'[i].t)
      BY DEF FinalBehindStarted, IsStarted, FinalOf
    <3>2. i \in 1..Len(events) /\ events'[i] = events[i] /\ IsStarted(events[i])
      BY <2>4, <2>6
    <3>3. CASE events[i].t = t
      BY <2>5, <3>2, <3>3
    <3>4. CASE events[i].t # t
      <4>1. PICK j \in 1..Len(events) : i < j /\ events[j] = FinalOf(events[i].t)
        BY <1>0, <2>3, <3>1, <3>2, <3>4 DEF FinalBehindStarted
      <4> QED BY <2>4, <2>5, <3>2, <4>1
    <3> QED BY <3>3, <3>4
  <2>9. LiveIsLive'
    <3> SUFFICES ASSUME NEW x \in Transfers, ui'[x] \in Live, job'[x] = "done"
                 PROVE  \E i \in 1..Len(events') : events'[i] = FinalOf(x)
      BY DEF LiveIsLive, FinalOf, Live
    <3>1. CASE x = t
      BY <2>5, <3>1
    <3>2. CASE x # t
      <4>1. PICK i \in 1..Len(events) : events[i] = FinalOf(x)
        BY <1>0, <2>1, <2>3, <3>2 DEF LiveIsLive, FinalOf
      <4> QED BY <2>4, <2>5, <4>1
    <3> QED BY <3>1, <3>2
  <2> QED BY <2>7, <2>8, <2>9 DEF FinalInv
<1>9. ASSUME NEW t \in Transfers, Announce(t) PROVE FinalInv'
  <2>1. /\ cmd[t] = "registered" /\ cmd' = [cmd EXCEPT ![t] = "announced"]
        /\ Emit([type |-> "started", t |-> t]) /\ UNCHANGED <<job, result, ui>>
    BY <1>9 DEF Announce
  <2>2. [type |-> "started", t |-> t] \in Event
    BY EventShapes
  <2>3. job[t] # "done"
    BY <1>0, <2>1 DEF Stages
  <2>4. /\ events' \in Seq(Event) /\ Len(events) \in Nat /\ Len(events') = Len(events) + 1
        /\ \A i \in 1..Len(events) : events'[i] = events[i]
        /\ events'[Len(events) + 1] = [type |-> "started", t |-> t]
    BY <1>0, <2>1, <2>2, EmitWire DEF FinalTypes, FrontTypes
  <2>5. /\ \A i \in 1..Len(events) : i \in 1..Len(events')
        /\ \A i \in 1..Len(events') : i \in 1..Len(events) \/ i = Len(events) + 1
    BY <2>4
  <2>6. OutcomeGiven'
    BY <1>0, <1>a, <2>1 DEF FinalTypes, FrontTypes
  <2>7. FinalBehindStarted'
    <3> SUFFICES ASSUME NEW i \in 1..Len(events'), IsStarted(events'[i]),
                        job[events'[i].t] = "done"
                 PROVE  \E j \in 1..Len(events') : i < j /\ events'[j] = FinalOf(events'[i].t)
      BY <2>1 DEF FinalBehindStarted, IsStarted, FinalOf
    <3>1. i \in 1..Len(events)
      BY <2>3, <2>4, <2>5
    <3>2. PICK j \in 1..Len(events) : i < j /\ events[j] = FinalOf(events[i].t)
      BY <1>0, <2>4, <3>1 DEF FinalBehindStarted
    <3> QED BY <2>4, <2>5, <3>1, <3>2
  <2>8. LiveIsLive'
    BY <1>0, <2>1, <2>2, EmitLive
  <2> QED BY <2>6, <2>7, <2>8 DEF FinalInv
<1>10. ASSUME Deliver PROVE FinalInv'
  <2> DEFINE e == Head(events)
  <2>1. /\ e \in Event /\ e = events[1] /\ 1 \in 1..Len(events)
        /\ \A i \in 1..Len(events') :
             i + 1 \in 1..Len(events) /\ 1 < i + 1 /\ events'[i] = events[i + 1]
        /\ \A k \in 1..Len(events) : k # 1 => \E i \in 1..Len(events') : k = i + 1
    <3>1. /\ events' = Tail(events) /\ Len(events) \in Nat \ {0} /\ Len(events') = Len(events) - 1
          /\ \A i \in 1..Len(events') : events'[i] = events[i + 1]
          /\ e \in Event /\ e = events[1]
      BY <1>0, <1>10, TailWire DEF Deliver, FinalTypes, FrontTypes
    <3>2. \A k \in 1..Len(events) : k # 1 => k - 1 \in 1..Len(events') /\ k = (k - 1) + 1
      BY <3>1
    <3>3. \A k \in 1..Len(events) : k # 1 => \E i \in 1..Len(events') : k = i + 1
      BY <3>2
    <3>4. 1 \in 1..Len(events) /\ \A i \in 1..Len(events') : i + 1 \in 1..Len(events) /\ 1 < i + 1
      BY <3>1
    <3> QED BY <3>1, <3>3, <3>4
  <2>2. /\ UNCHANGED <<cmd, job, result>>
        /\ CASE e.type = "connected"    -> OnConnected(e.r)
             [] e.type = "disconnected" -> OnDisconnected(e.r)
             [] e.type = "started"      -> OnStarted(e.t)
             [] e.type = "finished"     -> OnFinished(e.t)
             [] OTHER                   -> OnProgress(e.t)
    BY <1>10 DEF Deliver
  <2> HIDE DEF e
  <2>3. OutcomeGiven'
    BY <1>a, <2>2
  <2>4. ASSUME NEW i \in 1..Len(events), IsStarted(events[i]), job[events[i].t] = "done"
        PROVE  \E j \in 1..Len(events') : i < j + 1 /\ events'[j] = FinalOf(events[i].t)
    <3>1. PICK k \in 1..Len(events) : i < k /\ events[k] = FinalOf(events[i].t)
      BY <1>0, <2>4 DEF FinalBehindStarted
    <3>2. k # 1
      BY <3>1
    <3>3. PICK j \in 1..Len(events') : k = j + 1
      BY <2>1, <3>1, <3>2
    <3> QED BY <2>1, <3>1, <3>3
  <2>5. FinalBehindStarted'
    <3> SUFFICES ASSUME NEW i \in 1..Len(events'), IsStarted(events'[i]),
                        job[events'[i].t] = "done"
                 PROVE  \E j \in 1..Len(events') : i < j /\ events'[j] = FinalOf(events'[i].t)
      BY <2>2 DEF FinalBehindStarted, IsStarted, FinalOf
    <3>1. i + 1 \in 1..Len(events) /\ events'[i] = events[i + 1]
      BY <2>1
    <3>2. PICK j \in 1..Len(events') : i + 1 < j + 1 /\ events'[j] = FinalOf(events'[i].t)
      BY <2>4, <3>1
    <3>3. i < j
      BY <3>2
    <3> QED BY <3>2, <3>3
  <2>6. ASSUME \A x \in Transfers :
                 ui'[x] \in Live => (ui[x] \in Live /\ e # FinalOf(x)) \/ (IsStarted(e) /\ x = e.t)
        PROVE  LiveIsLive'
    <3> SUFFICES ASSUME NEW x \in Transfers, ui'[x] \in Live, job[x] = "done"
                 PROVE  \E i \in 1..Len(events') : events'[i] = FinalOf(x)
      BY <2>2 DEF LiveIsLive, FinalOf, Live
    <3>1. CASE ui[x] \in Live /\ e # FinalOf(x)
      <4>1. PICK k \in 1..Len(events) : events[k] = FinalOf(x)
        BY <1>0, <3>1 DEF LiveIsLive, FinalOf
      <4>2. k # 1
        BY <2>1, <3>1, <4>1
      <4>3. PICK j \in 1..Len(events') : k = j + 1
        BY <2>1, <4>2
      <4> QED BY <2>1, <4>1, <4>3
    <3>2. CASE IsStarted(e) /\ x = e.t
      BY <2>1, <2>4, <3>2
    <3> QED BY <2>6, <3>1, <3>2
  <2>7. \A x \in Transfers :
          ui'[x] \in Live => (ui[x] \in Live /\ e # FinalOf(x)) \/ (IsStarted(e) /\ x = e.t)
    <3>0. e.type # "finished" => \A x \in Transfers : e # FinalOf(x)
      BY DEF FinalOf
    <3>1. CASE e.type \in {"connected", "progress"}
      <4>1. UNCHANGED ui
        BY <2>2, <3>1 DEF OnConnected, OnProgress
      <4> QED BY <3>0, <3>1, <4>1
    <3>2. CASE e.type = "disconnected"
      <4>1. OnDisconnected(e.r)
        BY <2>2, <3>2
      <4> QED BY <3>0, <3>2, <4>1 DEF OnDisconnected, Live
    <3>3. CASE e.type = "started"
      <4>1. OnStarted(e.t)
        BY <2>2, <3>3
      <4> QED BY <3>0, <3>3, <4>1 DEF OnStarted, Live, IsStarted
    <3>4. CASE e.type = "finished"
      <4>1. OnFinished(e.t) /\ e.t \in Transfers /\ result[e.t] \in Terminal
        BY <1>0, <2>1, <2>2, <3>4, EventFields DEF WireInv, HasOutcome
      <4>2. /\ \A x \in Transfers : x # e.t => ui'[x] = ui[x]
            /\ ui'[e.t] \notin Live
        BY <1>0, <4>1 DEF OnFinished, FinalTypes, FrontTypes, Live, Terminal
      <4>3. \A x \in Transfers : e = FinalOf(x) => x = e.t
        BY DEF FinalOf
      <4> QED BY <4>2, <4>3
    <3> QED BY <2>1, <3>1, <3>2, <3>3, <3>4, EventFields
  <2> QED BY <2>3, <2>5, <2>6, <2>7 DEF FinalInv
<1>11. ASSUME NEW t \in Transfers, AskCancel(t) PROVE FinalInv'
  <2>1. \A x \in Transfers : ui'[x] \in Live => ui[x] \in Live
    BY <1>0, <1>11 DEF AskCancel, FinalTypes, FrontTypes, Live
  <2> QED BY <1>f, <1>11, <2>1 DEF AskCancel
<1>12. ASSUME NEW t \in Transfers, CancelRejected(t) PROVE FinalInv'
  <2>1. \A x \in Transfers : ui'[x] \in Live => ui[x] \in Live
    BY <1>0, <1>12 DEF CancelRejected, FinalTypes, FrontTypes, Live
  <2> QED BY <1>f, <1>12, <2>1 DEF CancelRejected
<1>13. ASSUME NEW t \in Transfers, Dismiss(t) PROVE FinalInv'
  <2>1. \A x \in Transfers : ui'[x] \in Live => ui[x] \in Live
    BY <1>0, <1>13 DEF Dismiss, FinalTypes, FrontTypes, Live
  <2> QED BY <1>f, <1>13, <2>1 DEF Dismiss
<1>14. ASSUME NEW t \in Transfers, AskStart(t) PROVE FinalInv'
  <2>1. \A x \in Transfers : cmd[x] = "refused" => cmd'[x] = "refused"
    BY <1>0, <1>14 DEF AskStart, FinalTypes, FrontTypes
  <2> QED BY <1>e, <1>14, <2>1 DEF AskStart
<1>15. ASSUME NEW t \in Transfers, Reserve(t) PROVE FinalInv'
  <2>1. /\ \A x \in Transfers : cmd[x] = "refused" => cmd'[x] = "refused"
        /\ \A x \in Transfers : job'[x] = job[x] \/ job'[x] = "gated"
    BY <1>0, <1>15 DEF Reserve, FinalTypes, FrontTypes
  <2>2. UNCHANGED <<events, result, ui>>
    BY <1>15 DEF Reserve
  <2> QED BY <1>0, <1>b, <1>c, <2>1, <2>2 DEF FinalInv, OutcomeGiven
<1>16. ASSUME NEW t \in Transfers, Refuse(t) PROVE FinalInv'
  <2>1. \A x \in Transfers : cmd[x] = "refused" => cmd'[x] = "refused"
    BY <1>0, <1>16 DEF Refuse, FinalTypes, FrontTypes
  <2> QED BY <1>e, <1>16, <2>1 DEF Refuse
<1>17. ASSUME NEW t \in Transfers, Acquire(t) PROVE FinalInv'
  <2>1. /\ \A x \in Transfers : cmd[x] = "refused" => cmd'[x] = "refused"
        /\ \A x \in Transfers : job'[x] = job[x] \/ job'[x] = "gated"
    BY <1>0, <1>17 DEF Acquire, FinalTypes, FrontTypes
  <2>2. UNCHANGED <<events, result, ui>>
    BY <1>17 DEF Acquire
  <2> QED BY <1>0, <1>b, <1>c, <2>1, <2>2 DEF FinalInv, OutcomeGiven
<1>18. ASSUME NEW t \in Transfers, Register(t) PROVE FinalInv'
  <2>1. \A x \in Transfers : cmd[x] = "refused" => cmd'[x] = "refused"
    BY <1>0, <1>18 DEF Register, FinalTypes, FrontTypes
  <2> QED BY <1>e, <1>18, <2>1 DEF Register
<1>19. ASSUME NEW t \in Transfers, OpenGate(t) PROVE FinalInv'
  <2>1. /\ \A x \in Transfers : cmd[x] = "refused" => cmd'[x] = "refused"
        /\ \A x \in Transfers : job'[x] = job[x] \/ job'[x] = "running"
    BY <1>0, <1>19 DEF OpenGate, FinalTypes, FrontTypes
  <2>2. UNCHANGED <<events, result, ui>>
    BY <1>19 DEF OpenGate
  <2> QED BY <1>0, <1>b, <1>c, <2>1, <2>2 DEF FinalInv, OutcomeGiven
<1>20. ASSUME NEW t \in Transfers, Return(t) PROVE FinalInv'
  <2>1. /\ job' = [job EXCEPT ![t] = "ended"] /\ result'[t] # "none"
        /\ \A x \in Transfers : x # t => result'[x] = result[x]
        /\ UNCHANGED <<events, cmd, ui>>
    BY <1>0, <1>20 DEF Return, Outcomes, FinalTypes
  <2>2. \A x \in Transfers : x # t => job'[x] = job[x]
    BY <1>0, <2>1 DEF FinalTypes
  <2>3. OutcomeGiven'
    BY <1>0, <2>1, <2>2 DEF OutcomeGiven
  <2> QED BY <1>g, <1>0, <2>1, <2>3 DEF FinalTypes
<1>21. ASSUME NEW t \in Transfers, Panic(t) PROVE FinalInv'
  <2>1. /\ job' = [job EXCEPT ![t] = "ended"] /\ result'[t] # "none"
        /\ \A x \in Transfers : x # t => result'[x] = result[x]
        /\ UNCHANGED <<events, cmd, ui>>
    BY <1>0, <1>21 DEF Panic, FinalTypes
  <2>2. \A x \in Transfers : x # t => job'[x] = job[x]
    BY <1>0, <2>1 DEF FinalTypes
  <2>3. OutcomeGiven'
    BY <1>0, <2>1, <2>2 DEF OutcomeGiven
  <2> QED BY <1>g, <1>0, <2>1, <2>3 DEF FinalTypes
<1>22. ASSUME NEW t \in Transfers, GateDropped(t) PROVE FinalInv'
  <2>1. /\ job' = [job EXCEPT ![t] = "ended"] /\ cmd[t] = "refused"
        /\ \A x \in Transfers : x # t => result'[x] = result[x]
        /\ UNCHANGED <<events, cmd, ui>>
    BY <1>0, <1>22 DEF GateDropped, FinalTypes
  <2>2. \A x \in Transfers : x # t => job'[x] = job[x]
    BY <1>0, <2>1 DEF FinalTypes
  <2>3. OutcomeGiven'
    BY <1>0, <2>1, <2>2 DEF OutcomeGiven
  <2> QED BY <1>g, <1>0, <2>1, <2>3 DEF FinalTypes
<1>23. ASSUME NEW t \in Transfers, FreeSlot(t) PROVE FinalInv'
  <2>1. /\ job[t] = "ended" /\ UNCHANGED <<events, cmd, result, ui>>
        /\ job' = [job EXCEPT ![t] = IF result[t] = "none" THEN "done" ELSE "freed"]
    BY <1>23 DEF FreeSlot
  <2>2. /\ \A x \in Transfers : x # t => job'[x] = job[x]
        /\ result[t] # "none" => job'[t] # "done"
    BY <1>0, <2>1 DEF FinalTypes
  <2>3. result[t] = "none" => t \notin Started
    BY <1>0, <2>1 DEF OutcomeGiven, Started
  <2>4. OutcomeGiven'
    BY <1>0, <2>1, <2>2 DEF OutcomeGiven
  <2>5. \A x \in Started : job'[x] = "done" => job[x] = "done"
    BY <2>2, <2>3 DEF Started
  <2>6. FinalBehindStarted'
    <3>1. \A i \in 1..Len(events) : IsStarted(events[i]) => events[i].t \in Started
      BY <1>0 DEF WireStarted
    <3> QED BY <1>0, <2>1, <2>5, <3>1 DEF FinalBehindStarted, IsStarted, FinalOf
  <2>7. LiveIsLive'
    <3>1. \A x \in Transfers : ui[x] \in Live => x \in Started
      BY <1>0 DEF Live
    <3> QED BY <1>0, <2>1, <2>5, <3>1 DEF LiveIsLive, Live
  <2> QED BY <2>4, <2>6, <2>7 DEF FinalInv
<1>24. ASSUME UNCHANGED <<cmd, job, result, events, ui>> PROVE FinalInv'
  BY <1>e, <1>24
<1> QED
  BY <1>4, <1>5, <1>6, <1>7, <1>8, <1>9, <1>10, <1>11, <1>12, <1>13, <1>14, <1>15, <1>16, <1>17, <1>18, <1>19, <1>20, <1>21, <1>22, <1>23, <1>24
  DEF Next, SessionStep, CommandStep, JobStep, FrontStep, Lose, AskDisconnect, RunDisconnect,
      JoinTransfer, ReturnLease, RunCancel, DeliverAck, vars

(* A task the front end shows as live has not ended behind its back: its   *)
(* final event is still to come (emit_transfer_finished is the last thing  *)
(* a task does, and events reach the listener in order).                   *)
THEOREM LiveIsLiveHolds == Spec => []LiveIsLive
<1>1. Init => FinalInv
  <2> SUFFICES ASSUME Init PROVE FinalInv
    OBVIOUS
  <2>1. Len(events) = 0
    BY EmptySeq DEF Init
  <2> QED BY <2>1 DEF Init, FinalInv, OutcomeGiven, FinalBehindStarted, LiveIsLive, Live
<1>2. FinalInv => LiveIsLive
  BY DEF FinalInv
<1> QED BY <1>1, <1>2, FinalStep, SlotInvariant, ViewInvariant, PTL DEF Spec

==============================================================================
