----------------------- MODULE SessionLifecycleProofs -----------------------
(***************************************************************************)
(* Proofs about SessionLifecycle, for every set of sessions, channels and  *)
(* commands and any number of connections.                                 *)
(***************************************************************************)
EXTENDS SessionLifecycle, TLAPS, FiniteSetTheorems

(* A channel that nobody opens yet has left no trace, and one that is      *)
(* being opened has a parent.                                              *)
Untouched(c) ==
  /\ pump[c] = "none"
  /\ c \notin activated \cup published \cup shutReq \cup loose

ChannelsKnown ==
  /\ \A c \in Chans : IF task[c] = "new" THEN Untouched(c) ELSE parent[c] \in Runtimes
  /\ \A r \in Runtimes : \A c \in kids[r] : task[c] # "new" /\ parent[c] = r
  /\ \A r \in Runtimes : \A c \in cleanup[r] \cap Chans : task[c] # "new"

(* What close_session takes out of a handle are planes.                    *)
LEMMA TakenType ==
  ASSUME StoreTypes, NEW r \in Runtimes
  PROVE  Taken(r) \subseteq Planes
BY DEF StoreTypes, Taken, Planes

(* The closing paths keep the types of the store and of the cleanups.      *)
LEMMA CloseTypes ==
  ASSUME StoreTypes, CleanTypes, NEW r \in Runtimes, CloseSession(r)
  PROVE  /\ up' \in [Ids -> BOOLEAN]
         /\ kids' \in [Runtimes -> SUBSET Chans]
         /\ cleanup' \in [Runtimes -> SUBSET Planes]
         /\ stats' \in SUBSET Planes
         /\ detaching' \in SUBSET Runtimes
<1>1. Taken(r) \subseteq Planes
  BY TakenType
<1>2. up' \in [Ids -> BOOLEAN] /\ kids' \in [Runtimes -> SUBSET Chans]
  BY DEF StoreTypes, CloseSession
<1>3. cleanup' \in [Runtimes -> SUBSET Planes]
  BY <1>1 DEF CleanTypes, CloseSession
<1>4. stats' \in SUBSET Planes /\ detaching' \in SUBSET Runtimes
  BY DEF CleanTypes, CloseSession
<1> QED BY <1>2, <1>3, <1>4

(* The same when a stale caller closes nothing.                            *)
LEMMA CloseIfCurrentTypes ==
  ASSUME StoreTypes, CleanTypes, NEW r \in Runtimes, CloseIfCurrent(r)
  PROVE  /\ up' \in [Ids -> BOOLEAN]
         /\ kids' \in [Runtimes -> SUBSET Chans]
         /\ cleanup' \in [Runtimes -> SUBSET Planes]
         /\ stats' \in SUBSET Planes
         /\ detaching' \in SUBSET Runtimes
BY CloseTypes DEF CloseIfCurrent, StoreTypes, CleanTypes

(* A new connection gets a runtime of the model, and purging drops handles *)
(* only.                                                                   *)
LEMMA AllocateTypes ==
  ASSUME StoreTypes, NEW id \in Ids, Allocate(id)
  PROVE  /\ next \in Runtimes
         /\ next' \in 1..MaxRuntimes + 1
         /\ home' \in [Runtimes -> Ids \cup {None}]
<1>1. next \in Runtimes /\ next' \in 1..MaxRuntimes + 1
  BY BoundsAssumption DEF StoreTypes, Allocate, Runtimes
<1>2. home' \in [Runtimes -> Ids \cup {None}]
  BY DEF StoreTypes, Allocate
<1> QED BY <1>1, <1>2

(* Dropping the Disconnected handles keeps the type of the handles.        *)
LEMMA PurgedType ==
  ASSUME StoreTypes
  PROVE  Purged \in [Ids -> 0..MaxRuntimes]
BY BoundsAssumption DEF StoreTypes, Purged

(* Every connection is a handle's value and names a plane.                 *)
LEMMA RuntimesAreNumbers == Runtimes \subseteq 0..MaxRuntimes /\ Runtimes \subseteq Planes
BY BoundsAssumption DEF Runtimes, Planes

(* Every step keeps the types.                                             *)
LEMMA TypeStep == TypeOK /\ ChannelsKnown /\ [Next]_vars => TypeOK'
<1> SUFFICES ASSUME TypeOK, ChannelsKnown, [Next]_vars PROVE TypeOK'
  OBVIOUS
<1>0. StoreTypes /\ PlaneTypes /\ CleanTypes /\ TaskTypes /\ HistoryTypes
  BY DEF TypeOK
<1>1. ASSUME NEW id \in Simple, CreateSession(id) PROVE TypeOK'
  <2>0. /\ id \in Ids /\ next \in Runtimes /\ next \in 0..MaxRuntimes /\ next \in Planes
        /\ next' \in 1..MaxRuntimes + 1
        /\ home' \in [Runtimes -> Ids \cup {None}]
        /\ Purged \in [Ids -> 0..MaxRuntimes]
    BY <1>1, <1>0, AllocateTypes, PurgedType, RuntimesAreNumbers DEF CreateSession, Ids
  <2>1. StoreTypes'
    BY ZenonT(60), <1>1, <1>0, <2>0
       DEF CreateSession, StoreTypes, storeVars
  <2>2. PlaneTypes'
    BY <1>1, <1>0, <2>0
       DEF CreateSession, PlaneTypes, planeVars
  <2>3. CleanTypes'
    BY <1>1, <1>0, <2>0
       DEF CreateSession, CleanTypes, cleanVars
  <2>4. TaskTypes'
    BY <1>1, <1>0, <2>0
       DEF CreateSession, TaskTypes, taskVars
  <2>5. HistoryTypes'
    BY <1>1, <1>0
       DEF CreateSession, HistoryTypes, history
  <2> QED BY <2>1, <2>2, <2>3, <2>4, <2>5 DEF TypeOK
<1>2. ASSUME NEW id \in Containers, NEW c \in Chans, CreateContainer(id, c) PROVE TypeOK'
  <2>0. /\ id \in Ids /\ next \in Runtimes /\ next \in 0..MaxRuntimes /\ next \in Planes
        /\ next' \in 1..MaxRuntimes + 1
        /\ home' \in [Runtimes -> Ids \cup {None}]
        /\ Purged \in [Ids -> 0..MaxRuntimes]
    BY <1>2, <1>0, AllocateTypes, PurgedType, RuntimesAreNumbers DEF CreateContainer, Ids
  <2>1. StoreTypes'
    BY <1>2, <1>0, <2>0
       DEF CreateContainer, StoreTypes, storeVars
  <2>2. PlaneTypes'
    BY <1>2, <1>0
       DEF CreateContainer, PlaneTypes, planeVars
  <2>3. CleanTypes'
    BY <1>2, <1>0
       DEF CreateContainer, CleanTypes, cleanVars
  <2>4. TaskTypes'
    BY <1>2, <1>0, <2>0
       DEF CreateContainer, TaskTypes, taskVars
  <2>5. HistoryTypes'
    BY <1>2, <1>0
       DEF CreateContainer, HistoryTypes, history
  <2> QED BY <2>1, <2>2, <2>3, <2>4, <2>5 DEF TypeOK
<1>3. ASSUME NEW id \in Ids, CreateRefused(id) PROVE TypeOK'
  <2>1. StoreTypes'
    BY <1>3, <1>0, PurgedType
       DEF CreateRefused, StoreTypes, storeVars
  <2>2. PlaneTypes'
    BY <1>3, <1>0
       DEF CreateRefused, PlaneTypes, planeVars
  <2>3. CleanTypes'
    BY <1>3, <1>0
       DEF CreateRefused, CleanTypes, cleanVars
  <2>4. TaskTypes'
    BY <1>3, <1>0
       DEF CreateRefused, TaskTypes, taskVars
  <2>5. HistoryTypes'
    BY <1>3, <1>0
       DEF CreateRefused, HistoryTypes, history
  <2> QED BY <2>1, <2>2, <2>3, <2>4, <2>5 DEF TypeOK
<1>4. ASSUME NEW r \in Runtimes, ConnectSetup(r) PROVE TypeOK'
  <2>1. StoreTypes'
    BY <1>4, <1>0, CloseIfCurrentTypes
       DEF ConnectSetup, StoreTypes, storeVars
  <2>2. PlaneTypes'
    BY <1>4, <1>0
       DEF ConnectSetup, PlaneTypes, planeVars
  <2>3. CleanTypes'
    BY <1>4, <1>0, CloseIfCurrentTypes
       DEF ConnectSetup, CleanTypes, cleanVars
  <2>4. TaskTypes'
    BY <1>4, <1>0
       DEF ConnectSetup, TaskTypes, taskVars
  <2>5. HistoryTypes'
    BY <1>4, <1>0
       DEF ConnectSetup, HistoryTypes, history
  <2> QED BY <2>1, <2>2, <2>3, <2>4, <2>5 DEF TypeOK
<1>5. ASSUME NEW r \in Runtimes, ConnectPublish(r) PROVE TypeOK'
  <2>1. StoreTypes'
    BY <1>5, <1>0, RuntimesAreNumbers
       DEF ConnectPublish, StoreTypes, storeVars
  <2>2. PlaneTypes'
    BY <1>5, <1>0, RuntimesAreNumbers
       DEF ConnectPublish, PlaneTypes, planeVars, StoreTypes, Planes
  <2>3. CleanTypes'
    BY <1>5, <1>0
       DEF ConnectPublish, CleanTypes, cleanVars
  <2>4. TaskTypes'
    BY <1>5, <1>0
       DEF ConnectPublish, TaskTypes, taskVars
  <2>5. HistoryTypes'
    BY <1>5, <1>0
       DEF ConnectPublish, HistoryTypes, history
  <2> QED BY <2>1, <2>2, <2>3, <2>4, <2>5 DEF TypeOK
<1>6. ASSUME NEW c \in Chans, NEW r \in Runtimes, OpenChannel(c, r) PROVE TypeOK'
  <2>1. StoreTypes'
    BY <1>6, <1>0
       DEF OpenChannel, StoreTypes, storeVars
  <2>2. PlaneTypes'
    BY <1>6, <1>0
       DEF OpenChannel, PlaneTypes, planeVars
  <2>3. CleanTypes'
    BY <1>6, <1>0
       DEF OpenChannel, CleanTypes, cleanVars
  <2>4. TaskTypes'
    BY <1>6, <1>0, RuntimesAreNumbers
       DEF OpenChannel, TaskTypes, taskVars
  <2>5. HistoryTypes'
    BY <1>6, <1>0
       DEF OpenChannel, HistoryTypes, history
  <2> QED BY <2>1, <2>2, <2>3, <2>4, <2>5 DEF TypeOK
<1>7. ASSUME NEW c \in Chans, ChannelAttach(c) PROVE TypeOK'
  <2>1. StoreTypes'
    BY <1>7, <1>0
       DEF ChannelAttach, StoreTypes, storeVars
  <2>2. PlaneTypes'
    BY <1>7, <1>0
       DEF ChannelAttach, PlaneTypes, planeVars, Planes
  <2>3. CleanTypes'
    BY <1>7, <1>0
       DEF ChannelAttach, CleanTypes, cleanVars, Planes
  <2>4. TaskTypes'
    BY <1>7, <1>0
       DEF ChannelAttach, TaskTypes, taskVars
  <2>5. HistoryTypes'
    BY <1>7, <1>0
       DEF ChannelAttach, HistoryTypes, history
  <2> QED BY <2>1, <2>2, <2>3, <2>4, <2>5 DEF TypeOK
<1>8. ASSUME NEW c \in Chans, ChannelRegister(c) PROVE TypeOK'
  <2>1. StoreTypes'
    BY <1>8, <1>0
       DEF ChannelRegister, StoreTypes, storeVars
  <2>2. PlaneTypes'
    BY <1>8, <1>0
       DEF ChannelRegister, PlaneTypes, planeVars, Planes
  <2>3. CleanTypes'
    BY <1>8, <1>0
       DEF ChannelRegister, CleanTypes, cleanVars
  <2>4. TaskTypes'
    BY <1>8, <1>0
       DEF ChannelRegister, TaskTypes, taskVars
  <2>5. HistoryTypes'
    BY <1>8, <1>0
       DEF ChannelRegister, HistoryTypes, history
  <2> QED BY <2>1, <2>2, <2>3, <2>4, <2>5 DEF TypeOK
<1>9. ASSUME NEW c \in Chans, ChannelPublish(c) PROVE TypeOK'
  <2>1. StoreTypes'
    BY <1>9, <1>0
       DEF ChannelPublish, StoreTypes, storeVars, Planes
  <2>2. PlaneTypes'
    BY <1>9, <1>0
       DEF ChannelPublish, PlaneTypes, planeVars, Planes
  <2>3. CleanTypes'
    BY <1>9, <1>0
       DEF ChannelPublish, CleanTypes, cleanVars
  <2>4. TaskTypes'
    BY <1>9, <1>0
       DEF ChannelPublish, TaskTypes, taskVars
  <2>5. HistoryTypes'
    BY <1>9, <1>0
       DEF ChannelPublish, HistoryTypes, history
  <2> QED BY <2>1, <2>2, <2>3, <2>4, <2>5 DEF TypeOK
<1>10. ASSUME NEW p \in Planes, ActorDies(p) PROVE TypeOK'
  <2>1. StoreTypes'
    BY <1>10, <1>0
       DEF ActorDies, StoreTypes, storeVars
  <2>2. PlaneTypes'
    BY <1>10, <1>0
       DEF ActorDies, PlaneTypes, planeVars
  <2>3. CleanTypes'
    BY <1>10, <1>0
       DEF ActorDies, CleanTypes, cleanVars
  <2>4. TaskTypes'
    BY <1>10, <1>0
       DEF ActorDies, TaskTypes, taskVars
  <2>5. HistoryTypes'
    BY <1>10, <1>0
       DEF ActorDies, HistoryTypes, history
  <2> QED BY <2>1, <2>2, <2>3, <2>4, <2>5 DEF TypeOK
<1>11. ASSUME NEW p \in Planes, ActorStops(p) PROVE TypeOK'
  <2>1. StoreTypes'
    BY <1>11, <1>0
       DEF ActorStops, StoreTypes, storeVars
  <2>2. PlaneTypes'
    BY <1>11, <1>0
       DEF ActorStops, PlaneTypes, planeVars
  <2>3. CleanTypes'
    BY <1>11, <1>0
       DEF ActorStops, CleanTypes, cleanVars
  <2>4. TaskTypes'
    BY <1>11, <1>0
       DEF ActorStops, TaskTypes, taskVars
  <2>5. HistoryTypes'
    BY <1>11, <1>0
       DEF ActorStops, HistoryTypes, history
  <2> QED BY <2>1, <2>2, <2>3, <2>4, <2>5 DEF TypeOK
<1>12. ASSUME NEW p \in Planes, PumpStart(p) PROVE TypeOK'
  <2>1. StoreTypes'
    BY <1>12, <1>0
       DEF PumpStart, StoreTypes, storeVars
  <2>2. PlaneTypes'
    BY <1>12, <1>0
       DEF PumpStart, PlaneTypes, planeVars
  <2>3. CleanTypes'
    BY <1>12, <1>0
       DEF PumpStart, CleanTypes, cleanVars
  <2>4. TaskTypes'
    BY <1>12, <1>0
       DEF PumpStart, TaskTypes, taskVars
  <2>5. HistoryTypes'
    BY <1>12, <1>0
       DEF PumpStart, HistoryTypes, history
  <2> QED BY <2>1, <2>2, <2>3, <2>4, <2>5 DEF TypeOK
<1>13. ASSUME NEW p \in Planes, PumpEnd(p) PROVE TypeOK'
  <2>1. StoreTypes'
    BY <1>13, <1>0
       DEF PumpEnd, StoreTypes, storeVars
  <2>2. PlaneTypes'
    BY <1>13, <1>0
       DEF PumpEnd, PlaneTypes, planeVars
  <2>3. CleanTypes'
    BY <1>13, <1>0
       DEF PumpEnd, CleanTypes, cleanVars
  <2>4. TaskTypes'
    BY <1>13, <1>0
       DEF PumpEnd, TaskTypes, taskVars
  <2>5. HistoryTypes'
    BY <1>13, <1>0
       DEF PumpEnd, HistoryTypes, history
  <2> QED BY <2>1, <2>2, <2>3, <2>4, <2>5 DEF TypeOK
<1>14. ASSUME NEW r \in Runtimes, RootLost(r) PROVE TypeOK'
  <2>1. StoreTypes'
    BY <1>14, <1>0, CloseTypes
       DEF RootLost, StoreTypes, storeVars
  <2>2. PlaneTypes'
    BY <1>14, <1>0, RuntimesAreNumbers
       DEF RootLost, PlaneTypes, planeVars
  <2>3. CleanTypes'
    BY <1>14, <1>0, CloseTypes
       DEF RootLost, CleanTypes, cleanVars
  <2>4. TaskTypes'
    BY <1>14, <1>0
       DEF RootLost, TaskTypes, taskVars
  <2>5. HistoryTypes'
    BY <1>14, <1>0
       DEF RootLost, HistoryTypes, history
  <2> QED BY <2>1, <2>2, <2>3, <2>4, <2>5 DEF TypeOK
<1>15. ASSUME NEW c \in Chans, ChannelLost(c) PROVE TypeOK'
  <2>0. parent[c] \in Runtimes
    BY <1>15 DEF ChannelLost, ChannelsKnown, Untouched
  <2>1. StoreTypes'
    BY <1>15, <1>0, <2>0, CloseTypes
       DEF ChannelLost, StoreTypes, storeVars
  <2>2. PlaneTypes'
    BY <1>15, <1>0
       DEF ChannelLost, PlaneTypes, planeVars
  <2>3. CleanTypes'
    BY <1>15, <1>0, <2>0, CloseTypes
       DEF ChannelLost, CleanTypes, cleanVars
  <2>4. TaskTypes'
    BY <1>15, <1>0
       DEF ChannelLost, TaskTypes, taskVars
  <2>5. HistoryTypes'
    BY <1>15, <1>0, <2>0
       DEF ChannelLost, HistoryTypes, history
  <2> QED BY <2>1, <2>2, <2>3, <2>4, <2>5 DEF TypeOK
<1>16. ASSUME NEW u \in Users, NEW r \in Runtimes, Disconnect(u, r) PROVE TypeOK'
  <2>1. StoreTypes'
    BY <1>16, <1>0, CloseTypes
       DEF Disconnect, StoreTypes, storeVars
  <2>2. PlaneTypes'
    BY <1>16, <1>0
       DEF Disconnect, PlaneTypes, planeVars
  <2>3. CleanTypes'
    BY <1>16, <1>0, CloseTypes
       DEF Disconnect, CleanTypes, cleanVars
  <2>4. TaskTypes'
    <3>1. Taken(r) \in SUBSET Planes /\ up[home[r]] \in BOOLEAN
      BY <1>16, <1>0, TakenType, BoundsAssumption DEF Disconnect, Current, StoreTypes
    <3> QED BY <1>16, <1>0, <3>1 DEF Disconnect, TaskTypes
  <2>5. HistoryTypes'
    BY <1>16, <1>0
       DEF Disconnect, HistoryTypes, history
  <2> QED BY <2>1, <2>2, <2>3, <2>4, <2>5 DEF TypeOK
<1>17. ASSUME NEW u \in Users, NEW c \in Chans, CloseChannel(u, c) PROVE TypeOK'
  <2>0. parent[c] \in Runtimes
    BY <1>17 DEF CloseChannel, ChannelsKnown, Untouched
  <2>1. StoreTypes'
    <3>1. kids' \in [Runtimes -> SUBSET Chans] /\ up' \in [Ids -> BOOLEAN]
      BY <1>17, <1>0, <2>0, CloseTypes DEF CloseChannel, StoreTypes
    <3> QED BY <1>17, <1>0, <3>1 DEF CloseChannel, StoreTypes
  <2>2. PlaneTypes'
    BY <1>17, <1>0
       DEF CloseChannel, PlaneTypes, planeVars
  <2>3. CleanTypes'
    BY <1>17, <1>0, <2>0, CloseTypes
       DEF CloseChannel, CleanTypes, cleanVars
  <2>4. TaskTypes'
    <3>1. Taken(parent[c]) \in SUBSET Planes /\ {c} \in SUBSET Planes
      BY <1>0, <2>0, TakenType DEF Planes
    <3>2. PICK x \in [cmd : {"disconnect", "close"}, r : Runtimes, waits : SUBSET Planes,
                       detach : BOOLEAN] : user' = [user EXCEPT ![u] = x]
      <4>1. [cmd |-> "close", r |-> parent[c], waits |-> Taken(parent[c]), detach |-> TRUE]
              \in [cmd : {"disconnect", "close"}, r : Runtimes, waits : SUBSET Planes,
                   detach : BOOLEAN]
        BY <2>0, <3>1
      <4>2. [cmd |-> "close", r |-> parent[c], waits |-> {c}, detach |-> FALSE]
              \in [cmd : {"disconnect", "close"}, r : Runtimes, waits : SUBSET Planes,
                   detach : BOOLEAN]
        BY <2>0, <3>1
      <4> QED BY <1>17, <4>1, <4>2 DEF CloseChannel
    <3>3. user' \in [Users -> {Idle} \cup [cmd : {"disconnect", "close"}, r : Runtimes,
                                           waits : SUBSET Planes, detach : BOOLEAN]]
      BY <1>0, <3>2 DEF TaskTypes
    <3> QED BY <1>17, <1>0, <3>3 DEF CloseChannel, TaskTypes
  <2>5. HistoryTypes'
    BY <1>17, <1>0
       DEF CloseChannel, HistoryTypes, history
  <2> QED BY <2>1, <2>2, <2>3, <2>4, <2>5 DEF TypeOK
<1>18. ASSUME NEW u \in Users, CommandDone(u) PROVE TypeOK'
  <2>1. StoreTypes'
    BY <1>18, <1>0
       DEF CommandDone, StoreTypes, storeVars
  <2>2. PlaneTypes'
    BY <1>18, <1>0
       DEF CommandDone, PlaneTypes, planeVars
  <2>3. CleanTypes'
    BY <1>18, <1>0
       DEF CommandDone, CleanTypes, cleanVars
  <2>4. TaskTypes'
    BY <1>18, <1>0
       DEF CommandDone, TaskTypes, taskVars
  <2>5. HistoryTypes'
    <3>1. user[u].r \in Runtimes
      BY <1>18, <1>0 DEF CommandDone, TaskTypes
    <3> QED BY <1>18, <1>0, <3>1 DEF CommandDone, HistoryTypes, history
  <2> QED BY <2>1, <2>2, <2>3, <2>4, <2>5 DEF TypeOK
<1>19. ASSUME AppExit PROVE TypeOK'
  <2>1. StoreTypes'
    BY <1>19, <1>0
       DEF AppExit, StoreTypes, storeVars
  <2>2. PlaneTypes'
    BY <1>19, <1>0
       DEF AppExit, PlaneTypes, planeVars
  <2>3. CleanTypes'
    BY <1>19, <1>0, TakenType
       DEF AppExit, CleanTypes, cleanVars
  <2>4. TaskTypes'
    BY <1>19, <1>0
       DEF AppExit, TaskTypes, taskVars
  <2>5. HistoryTypes'
    BY <1>19, <1>0
       DEF AppExit, HistoryTypes, history
  <2> QED BY <2>1, <2>2, <2>3, <2>4, <2>5 DEF TypeOK
<1>20. ASSUME NEW p \in Planes, CleanupRequest(p) PROVE TypeOK'
  <2>1. StoreTypes'
    BY <1>20, <1>0
       DEF CleanupRequest, StoreTypes, storeVars
  <2>2. PlaneTypes'
    BY <1>20, <1>0
       DEF CleanupRequest, PlaneTypes, planeVars
  <2>3. CleanTypes'
    BY <1>20, <1>0
       DEF CleanupRequest, CleanTypes, cleanVars
  <2>4. TaskTypes'
    BY <1>20, <1>0
       DEF CleanupRequest, TaskTypes, taskVars
  <2>5. HistoryTypes'
    BY <1>20, <1>0
       DEF CleanupRequest, HistoryTypes, history
  <2> QED BY <2>1, <2>2, <2>3, <2>4, <2>5 DEF TypeOK
<1>21. ASSUME NEW p \in Planes, CleanupJoin(p) PROVE TypeOK'
  <2>1. StoreTypes'
    BY <1>21, <1>0
       DEF CleanupJoin, StoreTypes, storeVars
  <2>2. PlaneTypes'
    BY <1>21, <1>0
       DEF CleanupJoin, PlaneTypes, planeVars
  <2>3. CleanTypes'
    BY <1>21, <1>0
       DEF CleanupJoin, CleanTypes, cleanVars, Joining
  <2>4. TaskTypes'
    BY <1>21, <1>0
       DEF CleanupJoin, TaskTypes, taskVars
  <2>5. HistoryTypes'
    BY <1>21, <1>0
       DEF CleanupJoin, HistoryTypes, history
  <2> QED BY <2>1, <2>2, <2>3, <2>4, <2>5 DEF TypeOK
<1>22. ASSUME NEW r \in Runtimes, CleanupDetach(r) PROVE TypeOK'
  <2>1. StoreTypes'
    <3>1. 0 \in 0..MaxRuntimes
      BY BoundsAssumption
    <3>2. registry' \in [Ids -> 0..MaxRuntimes]
      BY <1>22, <1>0, <3>1 DEF CleanupDetach, StoreTypes
    <3> QED BY <1>22, <1>0, <3>2 DEF CleanupDetach, StoreTypes
  <2>2. PlaneTypes'
    BY <1>22, <1>0
       DEF CleanupDetach, PlaneTypes, planeVars
  <2>3. CleanTypes'
    BY <1>22, <1>0
       DEF CleanupDetach, CleanTypes, cleanVars
  <2>4. TaskTypes'
    BY <1>22, <1>0
       DEF CleanupDetach, TaskTypes, taskVars
  <2>5. HistoryTypes'
    BY <1>22, <1>0
       DEF CleanupDetach, HistoryTypes, history
  <2> QED BY <2>1, <2>2, <2>3, <2>4, <2>5 DEF TypeOK
<1>23. ASSUME UNCHANGED vars PROVE TypeOK'
  BY <1>23 DEF vars, storeVars, planeVars, cleanVars, taskVars, history, TypeOK, StoreTypes,
     PlaneTypes,
     CleanTypes, TaskTypes, HistoryTypes
<1> QED
  BY <1>1, <1>2, <1>3, <1>4, <1>5, <1>6, <1>7, <1>8, <1>9, <1>10, <1>11, <1>12, <1>13,
     <1>14, <1>15, <1>16, <1>17, <1>18, <1>19, <1>20, <1>21, <1>22, <1>23
     DEF Next, ConnectStep, ChannelStep, PlaneStep, UserStep

(* A runtime id is a number, a channel is not.                             *)
LEMMA RuntimesAreNoChannels == \A r \in Runtimes : r \notin Chans
BY BoundsAssumption DEF Runtimes

(* What a closing session hands to its cleanup has been opened before.     *)
LEMMA TakenKnown ==
  ASSUME StoreTypes, ChannelsKnown, NEW r \in Runtimes
  PROVE  \A c \in Taken(r) \cap Chans : task[c] # "new"
BY RuntimesAreNoChannels DEF StoreTypes, ChannelsKnown, Taken

(* Each action keeps the channels' bookkeeping.                            *)
LEMMA ChannelsStep == TypeOK /\ ChannelsKnown /\ [Next]_vars => ChannelsKnown'
<1> SUFFICES ASSUME TypeOK, ChannelsKnown, [Next]_vars PROVE ChannelsKnown'
  OBVIOUS
<1>0. StoreTypes /\ PlaneTypes /\ CleanTypes /\ TaskTypes
  BY DEF TypeOK
<1>1. ASSUME NEW id \in Simple, CreateSession(id) PROVE ChannelsKnown'
  <2>0. id \in Ids /\ next \in Runtimes
    BY <1>1, <1>0, AllocateTypes DEF CreateSession, Ids
  <2>1. (\A d \in Chans : IF task[d] = "new" THEN Untouched(d) ELSE parent[d] \in Runtimes)'
    BY <1>1, <1>0, <2>0, RuntimesAreNoChannels
       DEF CreateSession, ChannelsKnown, Untouched, storeVars, planeVars, cleanVars, taskVars,
           PlaneTypes, Planes
  <2>2. (\A q \in Runtimes : \A d \in kids[q] : task[d] # "new" /\ parent[d] = q)'
    BY <1>1, <1>0
       DEF CreateSession, ChannelsKnown, Untouched, storeVars, planeVars, cleanVars, taskVars,
           StoreTypes, PlaneTypes, CleanTypes, TaskTypes
  <2>3. (\A q \in Runtimes : \A d \in cleanup[q] \cap Chans : task[d] # "new")'
    BY <1>1, <1>0
       DEF CreateSession, ChannelsKnown, Untouched, storeVars, planeVars, cleanVars, taskVars,
           StoreTypes, PlaneTypes, CleanTypes, TaskTypes
  <2> QED BY <2>1, <2>2, <2>3 DEF ChannelsKnown
<1>2. ASSUME NEW id \in Containers, NEW c \in Chans, CreateContainer(id, c) PROVE ChannelsKnown'
  <2>0. id \in Ids /\ next \in Runtimes
    BY <1>2, <1>0, AllocateTypes DEF CreateContainer, Ids
  <2>1. (\A d \in Chans : IF task[d] = "new" THEN Untouched(d) ELSE parent[d] \in Runtimes)'
    BY <1>2, <1>0, <2>0, RuntimesAreNoChannels
       DEF CreateContainer, ChannelsKnown, Untouched, storeVars, planeVars, cleanVars, taskVars,
           TaskTypes
  <2>2. (\A q \in Runtimes : \A d \in kids[q] : task[d] # "new" /\ parent[d] = q)'
    BY <1>2, <1>0
       DEF CreateContainer, ChannelsKnown, Untouched, storeVars, planeVars, cleanVars, taskVars,
           StoreTypes, PlaneTypes, CleanTypes, TaskTypes
  <2>3. (\A q \in Runtimes : \A d \in cleanup[q] \cap Chans : task[d] # "new")'
    BY <1>2, <1>0
       DEF CreateContainer, ChannelsKnown, Untouched, storeVars, planeVars, cleanVars, taskVars,
           StoreTypes, PlaneTypes, CleanTypes, TaskTypes
  <2> QED BY <2>1, <2>2, <2>3 DEF ChannelsKnown
<1>3. ASSUME NEW id \in Ids, CreateRefused(id) PROVE ChannelsKnown'
  <2>1. (\A d \in Chans : IF task[d] = "new" THEN Untouched(d) ELSE parent[d] \in Runtimes)'
    BY <1>3, <1>0
       DEF CreateRefused, ChannelsKnown, Untouched, storeVars, planeVars, cleanVars, taskVars,
           StoreTypes, PlaneTypes, CleanTypes, TaskTypes
  <2>2. (\A q \in Runtimes : \A d \in kids[q] : task[d] # "new" /\ parent[d] = q)'
    BY <1>3, <1>0
       DEF CreateRefused, ChannelsKnown, Untouched, storeVars, planeVars, cleanVars, taskVars,
           StoreTypes, PlaneTypes, CleanTypes, TaskTypes
  <2>3. (\A q \in Runtimes : \A d \in cleanup[q] \cap Chans : task[d] # "new")'
    BY <1>3, <1>0
       DEF CreateRefused, ChannelsKnown, Untouched, storeVars, planeVars, cleanVars, taskVars,
           StoreTypes, PlaneTypes, CleanTypes, TaskTypes
  <2> QED BY <2>1, <2>2, <2>3 DEF ChannelsKnown
<1>4. ASSUME NEW r \in Runtimes, ConnectSetup(r) PROVE ChannelsKnown'
  <2>1. (\A d \in Chans : IF task[d] = "new" THEN Untouched(d) ELSE parent[d] \in Runtimes)'
    BY <1>4, <1>0
       DEF ConnectSetup, ChannelsKnown, Untouched, storeVars, planeVars, cleanVars, taskVars,
           StoreTypes, PlaneTypes, CleanTypes, TaskTypes
  <2>2. (\A q \in Runtimes : \A d \in kids[q] : task[d] # "new" /\ parent[d] = q)'
    BY <1>4, <1>0
       DEF ConnectSetup, ChannelsKnown, Untouched, storeVars, planeVars, cleanVars, taskVars,
           StoreTypes, PlaneTypes, CleanTypes, TaskTypes, CloseSession, Taken, CloseIfCurrent
  <2>3. (\A q \in Runtimes : \A d \in cleanup[q] \cap Chans : task[d] # "new")'
    BY <1>4, <1>0, TakenKnown
       DEF ConnectSetup, ChannelsKnown, Untouched, storeVars, planeVars, cleanVars, taskVars,
           CleanTypes, CloseSession, CloseIfCurrent
  <2> QED BY <2>1, <2>2, <2>3 DEF ChannelsKnown
<1>5. ASSUME NEW r \in Runtimes, ConnectPublish(r) PROVE ChannelsKnown'
  <2>1. (\A d \in Chans : IF task[d] = "new" THEN Untouched(d) ELSE parent[d] \in Runtimes)'
    BY <1>5, <1>0, RuntimesAreNoChannels
       DEF ConnectPublish, ChannelsKnown, Untouched, storeVars, planeVars, cleanVars, taskVars,
           StoreTypes
  <2>2. (\A q \in Runtimes : \A d \in kids[q] : task[d] # "new" /\ parent[d] = q)'
    BY <1>5, <1>0
       DEF ConnectPublish, ChannelsKnown, Untouched, storeVars, planeVars, cleanVars, taskVars,
           StoreTypes, PlaneTypes, CleanTypes, TaskTypes
  <2>3. (\A q \in Runtimes : \A d \in cleanup[q] \cap Chans : task[d] # "new")'
    BY <1>5, <1>0
       DEF ConnectPublish, ChannelsKnown, Untouched, storeVars, planeVars, cleanVars, taskVars,
           StoreTypes, PlaneTypes, CleanTypes, TaskTypes
  <2> QED BY <2>1, <2>2, <2>3 DEF ChannelsKnown
<1>6. ASSUME NEW c \in Chans, NEW r \in Runtimes, OpenChannel(c, r) PROVE ChannelsKnown'
  <2>1. (\A d \in Chans : IF task[d] = "new" THEN Untouched(d) ELSE parent[d] \in Runtimes)'
    BY <1>6, <1>0
       DEF OpenChannel, ChannelsKnown, Untouched, storeVars, planeVars, cleanVars, taskVars,
           StoreTypes, PlaneTypes, CleanTypes, TaskTypes
  <2>2. (\A q \in Runtimes : \A d \in kids[q] : task[d] # "new" /\ parent[d] = q)'
    BY <1>6, <1>0
       DEF OpenChannel, ChannelsKnown, Untouched, storeVars, planeVars, cleanVars, taskVars,
           StoreTypes, PlaneTypes, CleanTypes, TaskTypes
  <2>3. (\A q \in Runtimes : \A d \in cleanup[q] \cap Chans : task[d] # "new")'
    BY <1>6, <1>0
       DEF OpenChannel, ChannelsKnown, Untouched, storeVars, planeVars, cleanVars, taskVars,
           StoreTypes, PlaneTypes, CleanTypes, TaskTypes
  <2> QED BY <2>1, <2>2, <2>3 DEF ChannelsKnown
<1>7. ASSUME NEW c \in Chans, ChannelAttach(c) PROVE ChannelsKnown'
  <2>1. (\A d \in Chans : IF task[d] = "new" THEN Untouched(d) ELSE parent[d] \in Runtimes)'
    BY <1>7, <1>0, RuntimesAreNoChannels
       DEF ChannelAttach, ChannelsKnown, Untouched, storeVars, planeVars, cleanVars, taskVars,
           PlaneTypes, TaskTypes, Planes
  <2>2. (\A q \in Runtimes : \A d \in kids[q] : task[d] # "new" /\ parent[d] = q)'
    BY <1>7, <1>0
       DEF ChannelAttach, ChannelsKnown, Untouched, storeVars, planeVars, cleanVars, taskVars,
           StoreTypes, PlaneTypes, CleanTypes, TaskTypes
  <2>3. (\A q \in Runtimes : \A d \in cleanup[q] \cap Chans : task[d] # "new")'
    BY <1>7, <1>0
       DEF ChannelAttach, ChannelsKnown, Untouched, storeVars, planeVars, cleanVars, taskVars,
           StoreTypes, PlaneTypes, CleanTypes, TaskTypes
  <2> QED BY <2>1, <2>2, <2>3 DEF ChannelsKnown
<1>8. ASSUME NEW c \in Chans, ChannelRegister(c) PROVE ChannelsKnown'
  <2>1. (\A d \in Chans : IF task[d] = "new" THEN Untouched(d) ELSE parent[d] \in Runtimes)'
    BY <1>8, <1>0
       DEF ChannelRegister, ChannelsKnown, Untouched, storeVars, planeVars, cleanVars, taskVars,
           StoreTypes, PlaneTypes, CleanTypes, TaskTypes
  <2>2. (\A q \in Runtimes : \A d \in kids[q] : task[d] # "new" /\ parent[d] = q)'
    BY <1>8, <1>0
       DEF ChannelRegister, ChannelsKnown, Untouched, storeVars, planeVars, cleanVars, taskVars,
           StoreTypes, PlaneTypes, CleanTypes, TaskTypes
  <2>3. (\A q \in Runtimes : \A d \in cleanup[q] \cap Chans : task[d] # "new")'
    BY <1>8, <1>0
       DEF ChannelRegister, ChannelsKnown, Untouched, storeVars, planeVars, cleanVars, taskVars,
           StoreTypes, PlaneTypes, CleanTypes, TaskTypes
  <2> QED BY <2>1, <2>2, <2>3 DEF ChannelsKnown
<1>9. ASSUME NEW c \in Chans, ChannelPublish(c) PROVE ChannelsKnown'
  <2>1. (\A d \in Chans : IF task[d] = "new" THEN Untouched(d) ELSE parent[d] \in Runtimes)'
    BY <1>9, <1>0
       DEF ChannelPublish, ChannelsKnown, Untouched, storeVars, planeVars, cleanVars, taskVars,
           StoreTypes, PlaneTypes, CleanTypes, TaskTypes
  <2>2. (\A q \in Runtimes : \A d \in kids[q] : task[d] # "new" /\ parent[d] = q)'
    BY <1>9, <1>0
       DEF ChannelPublish, ChannelsKnown, Untouched, storeVars, planeVars, cleanVars, taskVars,
           StoreTypes, PlaneTypes, CleanTypes, TaskTypes
  <2>3. (\A q \in Runtimes : \A d \in cleanup[q] \cap Chans : task[d] # "new")'
    BY <1>9, <1>0
       DEF ChannelPublish, ChannelsKnown, Untouched, storeVars, planeVars, cleanVars, taskVars,
           StoreTypes, PlaneTypes, CleanTypes, TaskTypes
  <2> QED BY <2>1, <2>2, <2>3 DEF ChannelsKnown
<1>10. ASSUME NEW p \in Planes, ActorDies(p) PROVE ChannelsKnown'
  <2>1. (\A d \in Chans : IF task[d] = "new" THEN Untouched(d) ELSE parent[d] \in Runtimes)'
    BY <1>10, <1>0
       DEF ActorDies, ChannelsKnown, Untouched, storeVars, planeVars, cleanVars, taskVars,
           StoreTypes, PlaneTypes, CleanTypes, TaskTypes
  <2>2. (\A q \in Runtimes : \A d \in kids[q] : task[d] # "new" /\ parent[d] = q)'
    BY <1>10, <1>0
       DEF ActorDies, ChannelsKnown, Untouched, storeVars, planeVars, cleanVars, taskVars,
           StoreTypes, PlaneTypes, CleanTypes, TaskTypes
  <2>3. (\A q \in Runtimes : \A d \in cleanup[q] \cap Chans : task[d] # "new")'
    BY <1>10, <1>0
       DEF ActorDies, ChannelsKnown, Untouched, storeVars, planeVars, cleanVars, taskVars,
           StoreTypes, PlaneTypes, CleanTypes, TaskTypes
  <2> QED BY <2>1, <2>2, <2>3 DEF ChannelsKnown
<1>11. ASSUME NEW p \in Planes, ActorStops(p) PROVE ChannelsKnown'
  <2>1. (\A d \in Chans : IF task[d] = "new" THEN Untouched(d) ELSE parent[d] \in Runtimes)'
    BY <1>11, <1>0
       DEF ActorStops, ChannelsKnown, Untouched, storeVars, planeVars, cleanVars, taskVars,
           StoreTypes, PlaneTypes, CleanTypes, TaskTypes
  <2>2. (\A q \in Runtimes : \A d \in kids[q] : task[d] # "new" /\ parent[d] = q)'
    BY <1>11, <1>0
       DEF ActorStops, ChannelsKnown, Untouched, storeVars, planeVars, cleanVars, taskVars,
           StoreTypes, PlaneTypes, CleanTypes, TaskTypes
  <2>3. (\A q \in Runtimes : \A d \in cleanup[q] \cap Chans : task[d] # "new")'
    BY <1>11, <1>0
       DEF ActorStops, ChannelsKnown, Untouched, storeVars, planeVars, cleanVars, taskVars,
           StoreTypes, PlaneTypes, CleanTypes, TaskTypes
  <2> QED BY <2>1, <2>2, <2>3 DEF ChannelsKnown
<1>12. ASSUME NEW p \in Planes, PumpStart(p) PROVE ChannelsKnown'
  <2>1. (\A d \in Chans : IF task[d] = "new" THEN Untouched(d) ELSE parent[d] \in Runtimes)'
    BY <1>12, <1>0
       DEF PumpStart, ChannelsKnown, Untouched, storeVars, planeVars, cleanVars, taskVars,
           StoreTypes, PlaneTypes, CleanTypes, TaskTypes
  <2>2. (\A q \in Runtimes : \A d \in kids[q] : task[d] # "new" /\ parent[d] = q)'
    BY <1>12, <1>0
       DEF PumpStart, ChannelsKnown, Untouched, storeVars, planeVars, cleanVars, taskVars,
           StoreTypes, PlaneTypes, CleanTypes, TaskTypes
  <2>3. (\A q \in Runtimes : \A d \in cleanup[q] \cap Chans : task[d] # "new")'
    BY <1>12, <1>0
       DEF PumpStart, ChannelsKnown, Untouched, storeVars, planeVars, cleanVars, taskVars,
           StoreTypes, PlaneTypes, CleanTypes, TaskTypes
  <2> QED BY <2>1, <2>2, <2>3 DEF ChannelsKnown
<1>13. ASSUME NEW p \in Planes, PumpEnd(p) PROVE ChannelsKnown'
  <2>1. (\A d \in Chans : IF task[d] = "new" THEN Untouched(d) ELSE parent[d] \in Runtimes)'
    BY <1>13, <1>0, RuntimesAreNoChannels
       DEF PumpEnd, ChannelsKnown, Untouched, storeVars, planeVars, cleanVars, taskVars,
           PlaneTypes, Planes
  <2>2. (\A q \in Runtimes : \A d \in kids[q] : task[d] # "new" /\ parent[d] = q)'
    BY <1>13, <1>0
       DEF PumpEnd, ChannelsKnown, Untouched, storeVars, planeVars, cleanVars, taskVars,
           StoreTypes, PlaneTypes, CleanTypes, TaskTypes
  <2>3. (\A q \in Runtimes : \A d \in cleanup[q] \cap Chans : task[d] # "new")'
    BY <1>13, <1>0
       DEF PumpEnd, ChannelsKnown, Untouched, storeVars, planeVars, cleanVars, taskVars,
           StoreTypes, PlaneTypes, CleanTypes, TaskTypes
  <2> QED BY <2>1, <2>2, <2>3 DEF ChannelsKnown
<1>14. ASSUME NEW r \in Runtimes, RootLost(r) PROVE ChannelsKnown'
  <2>1. (\A d \in Chans : IF task[d] = "new" THEN Untouched(d) ELSE parent[d] \in Runtimes)'
    BY <1>14, <1>0
       DEF RootLost, ChannelsKnown, Untouched, storeVars, planeVars, cleanVars, taskVars,
           StoreTypes, PlaneTypes, CleanTypes, TaskTypes
  <2>2. (\A q \in Runtimes : \A d \in kids[q] : task[d] # "new" /\ parent[d] = q)'
    BY <1>14, <1>0
       DEF RootLost, ChannelsKnown, Untouched, storeVars, planeVars, cleanVars, taskVars,
           StoreTypes, PlaneTypes, CleanTypes, TaskTypes, CloseSession, Taken
  <2>3. (\A q \in Runtimes : \A d \in cleanup[q] \cap Chans : task[d] # "new")'
    BY <1>14, <1>0, TakenKnown
       DEF RootLost, ChannelsKnown, Untouched, storeVars, planeVars, cleanVars, taskVars,
           CleanTypes, CloseSession
  <2> QED BY <2>1, <2>2, <2>3 DEF ChannelsKnown
<1>15. ASSUME NEW c \in Chans, ChannelLost(c) PROVE ChannelsKnown'
  <2>1. (\A d \in Chans : IF task[d] = "new" THEN Untouched(d) ELSE parent[d] \in Runtimes)'
    BY <1>15, <1>0
       DEF ChannelLost, ChannelsKnown, Untouched, storeVars, planeVars, cleanVars, taskVars,
           StoreTypes, PlaneTypes, CleanTypes, TaskTypes
  <2>2. (\A q \in Runtimes : \A d \in kids[q] : task[d] # "new" /\ parent[d] = q)'
    BY <1>15, <1>0
       DEF ChannelLost, ChannelsKnown, Untouched, storeVars, planeVars, cleanVars, taskVars,
           StoreTypes, PlaneTypes, CleanTypes, TaskTypes, CloseSession, Taken
  <2>3. (\A q \in Runtimes : \A d \in cleanup[q] \cap Chans : task[d] # "new")'
    BY <1>15, <1>0, TakenKnown
       DEF ChannelLost, ChannelsKnown, Untouched, storeVars, planeVars, cleanVars, taskVars,
           CleanTypes, CloseSession
  <2> QED BY <2>1, <2>2, <2>3 DEF ChannelsKnown
<1>16. ASSUME NEW u \in Users, NEW r \in Runtimes, Disconnect(u, r) PROVE ChannelsKnown'
  <2>1. (\A d \in Chans : IF task[d] = "new" THEN Untouched(d) ELSE parent[d] \in Runtimes)'
    BY <1>16, <1>0
       DEF Disconnect, ChannelsKnown, Untouched, storeVars, planeVars, cleanVars, taskVars,
           StoreTypes, PlaneTypes, CleanTypes, TaskTypes
  <2>2. (\A q \in Runtimes : \A d \in kids[q] : task[d] # "new" /\ parent[d] = q)'
    BY <1>16, <1>0
       DEF Disconnect, ChannelsKnown, Untouched, storeVars, planeVars, cleanVars, taskVars,
           StoreTypes, PlaneTypes, CleanTypes, TaskTypes, CloseSession, Taken
  <2>3. (\A q \in Runtimes : \A d \in cleanup[q] \cap Chans : task[d] # "new")'
    BY <1>16, <1>0, TakenKnown
       DEF Disconnect, ChannelsKnown, Untouched, storeVars, planeVars, cleanVars, taskVars,
           CleanTypes, CloseSession
  <2> QED BY <2>1, <2>2, <2>3 DEF ChannelsKnown
<1>17. ASSUME NEW u \in Users, NEW c \in Chans, CloseChannel(u, c) PROVE ChannelsKnown'
  <2>1. (\A d \in Chans : IF task[d] = "new" THEN Untouched(d) ELSE parent[d] \in Runtimes)'
    BY <1>17, <1>0
       DEF CloseChannel, ChannelsKnown, Untouched, storeVars, planeVars, cleanVars, taskVars,
           StoreTypes, PlaneTypes, CleanTypes, TaskTypes
  <2>2. (\A q \in Runtimes : \A d \in kids[q] : task[d] # "new" /\ parent[d] = q)'
    BY <1>17, <1>0
       DEF CloseChannel, ChannelsKnown, Untouched, storeVars, planeVars, cleanVars, taskVars,
           StoreTypes, PlaneTypes, CleanTypes, TaskTypes, CloseSession, Taken
  <2>3. (\A q \in Runtimes : \A d \in cleanup[q] \cap Chans : task[d] # "new")'
    BY <1>17, <1>0, TakenKnown
       DEF CloseChannel, ChannelsKnown, Untouched, storeVars, planeVars, cleanVars, taskVars,
           CleanTypes, CloseSession
  <2> QED BY <2>1, <2>2, <2>3 DEF ChannelsKnown
<1>18. ASSUME NEW u \in Users, CommandDone(u) PROVE ChannelsKnown'
  <2>1. (\A d \in Chans : IF task[d] = "new" THEN Untouched(d) ELSE parent[d] \in Runtimes)'
    BY <1>18, <1>0
       DEF CommandDone, ChannelsKnown, Untouched, storeVars, planeVars, cleanVars, taskVars,
           StoreTypes, PlaneTypes, CleanTypes, TaskTypes
  <2>2. (\A q \in Runtimes : \A d \in kids[q] : task[d] # "new" /\ parent[d] = q)'
    BY <1>18, <1>0
       DEF CommandDone, ChannelsKnown, Untouched, storeVars, planeVars, cleanVars, taskVars,
           StoreTypes, PlaneTypes, CleanTypes, TaskTypes
  <2>3. (\A q \in Runtimes : \A d \in cleanup[q] \cap Chans : task[d] # "new")'
    BY <1>18, <1>0
       DEF CommandDone, ChannelsKnown, Untouched, storeVars, planeVars, cleanVars, taskVars,
           StoreTypes, PlaneTypes, CleanTypes, TaskTypes
  <2> QED BY <2>1, <2>2, <2>3 DEF ChannelsKnown
<1>19. ASSUME AppExit PROVE ChannelsKnown'
  <2>1. (\A d \in Chans : IF task[d] = "new" THEN Untouched(d) ELSE parent[d] \in Runtimes)'
    BY <1>19, <1>0
       DEF AppExit, ChannelsKnown, Untouched, storeVars, planeVars, cleanVars, taskVars,
           StoreTypes, PlaneTypes, CleanTypes, TaskTypes
  <2>2. (\A q \in Runtimes : \A d \in kids[q] : task[d] # "new" /\ parent[d] = q)'
    BY <1>19, <1>0
       DEF AppExit, ChannelsKnown, Untouched, storeVars, planeVars, cleanVars, taskVars,
           StoreTypes, PlaneTypes, CleanTypes, TaskTypes, CloseSession, Taken
  <2>3. (\A q \in Runtimes : \A d \in cleanup[q] \cap Chans : task[d] # "new")'
    BY <1>19, <1>0, TakenKnown
       DEF AppExit, ChannelsKnown, Untouched, storeVars, planeVars, cleanVars, taskVars,
           CleanTypes, CloseSession
  <2> QED BY <2>1, <2>2, <2>3 DEF ChannelsKnown
<1>20. ASSUME NEW p \in Planes, CleanupRequest(p) PROVE ChannelsKnown'
  <2>1. (\A d \in Chans : IF task[d] = "new" THEN Untouched(d) ELSE parent[d] \in Runtimes)'
    BY <1>20, <1>0
       DEF CleanupRequest, ChannelsKnown, Untouched, storeVars, planeVars, cleanVars, taskVars,
           StoreTypes, PlaneTypes, CleanTypes, TaskTypes, Joining
  <2>2. (\A q \in Runtimes : \A d \in kids[q] : task[d] # "new" /\ parent[d] = q)'
    BY <1>20, <1>0
       DEF CleanupRequest, ChannelsKnown, Untouched, storeVars, planeVars, cleanVars, taskVars,
           StoreTypes, PlaneTypes, CleanTypes, TaskTypes
  <2>3. (\A q \in Runtimes : \A d \in cleanup[q] \cap Chans : task[d] # "new")'
    BY <1>20, <1>0
       DEF CleanupRequest, ChannelsKnown, Untouched, storeVars, planeVars, cleanVars, taskVars,
           StoreTypes, PlaneTypes, CleanTypes, TaskTypes
  <2> QED BY <2>1, <2>2, <2>3 DEF ChannelsKnown
<1>21. ASSUME NEW p \in Planes, CleanupJoin(p) PROVE ChannelsKnown'
  <2>1. (\A d \in Chans : IF task[d] = "new" THEN Untouched(d) ELSE parent[d] \in Runtimes)'
    BY <1>21, <1>0
       DEF CleanupJoin, ChannelsKnown, Untouched, storeVars, planeVars, cleanVars, taskVars,
           StoreTypes, PlaneTypes, CleanTypes, TaskTypes, Joining
  <2>2. (\A q \in Runtimes : \A d \in kids[q] : task[d] # "new" /\ parent[d] = q)'
    BY <1>21, <1>0
       DEF CleanupJoin, ChannelsKnown, Untouched, storeVars, planeVars, cleanVars, taskVars,
           StoreTypes, PlaneTypes, CleanTypes, TaskTypes
  <2>3. (\A q \in Runtimes : \A d \in cleanup[q] \cap Chans : task[d] # "new")'
    BY <1>21, <1>0
       DEF CleanupJoin, ChannelsKnown, Untouched, storeVars, planeVars, cleanVars, taskVars,
           StoreTypes, PlaneTypes, CleanTypes, TaskTypes
  <2> QED BY <2>1, <2>2, <2>3 DEF ChannelsKnown
<1>22. ASSUME NEW r \in Runtimes, CleanupDetach(r) PROVE ChannelsKnown'
  <2>1. (\A d \in Chans : IF task[d] = "new" THEN Untouched(d) ELSE parent[d] \in Runtimes)'
    BY <1>22, <1>0
       DEF CleanupDetach, ChannelsKnown, Untouched, storeVars, planeVars, cleanVars, taskVars,
           StoreTypes, PlaneTypes, CleanTypes, TaskTypes
  <2>2. (\A q \in Runtimes : \A d \in kids[q] : task[d] # "new" /\ parent[d] = q)'
    BY <1>22, <1>0
       DEF CleanupDetach, ChannelsKnown, Untouched, storeVars, planeVars, cleanVars, taskVars,
           StoreTypes, PlaneTypes, CleanTypes, TaskTypes
  <2>3. (\A q \in Runtimes : \A d \in cleanup[q] \cap Chans : task[d] # "new")'
    BY <1>22, <1>0
       DEF CleanupDetach, ChannelsKnown, Untouched, storeVars, planeVars, cleanVars, taskVars,
           StoreTypes, PlaneTypes, CleanTypes, TaskTypes
  <2> QED BY <2>1, <2>2, <2>3 DEF ChannelsKnown
<1>23. ASSUME UNCHANGED vars PROVE ChannelsKnown'
  BY <1>23 DEF vars, storeVars, planeVars, cleanVars, taskVars, history, ChannelsKnown, Untouched
<1> QED
  BY <1>1, <1>2, <1>3, <1>4, <1>5, <1>6, <1>7, <1>8, <1>9, <1>10, <1>11, <1>12, <1>13,
     <1>14, <1>15, <1>16, <1>17, <1>18, <1>19, <1>20, <1>21, <1>22, <1>23
     DEF Next, ConnectStep, ChannelStep, PlaneStep, UserStep

(* What a plane needs before its pump may run: both announcements.  The    *)
(* barrier is released, and the pump active, only behind them.             *)
Gate ==
  \A p \in Planes :
    (p \in activated \ shutReq \/ pump[p] \in {"active", "closing"})
      => p \in published /\ RuntimeOf(p) \in published

(* Which handle belongs to which connection, and that a cleanup is only    *)
(* for a connection that is closed.                                        *)
Handles ==
  /\ \A i \in Ids : rt[i] # 0 => rt[i] < next /\ home[rt[i]] = i
  /\ \A i \in Ids : up[i] => rt[i] # 0
  /\ \A r \in detaching : r < next /\ home[r] \in Ids /\ ~Connected(r)

(* Nothing has happened to a connection that is still to come, and none    *)
(* that is open was lost or closed by a command.                           *)
LossesKnown ==
  \A r \in Runtimes : r >= next \/ Connected(r) => losses[r] = 0 /\ r \notin asked

(* Each action keeps the gate: a barrier is released by an announcement    *)
(* or by a shutdown.                                                       *)
LEMMA GateStep == TypeOK /\ ChannelsKnown /\ Gate /\ [Next]_vars => Gate'
<1> SUFFICES ASSUME TypeOK, ChannelsKnown, Gate, [Next]_vars PROVE Gate'
  OBVIOUS
<1>0. StoreTypes /\ PlaneTypes /\ CleanTypes /\ TaskTypes
  BY DEF TypeOK
<1>1. ASSUME NEW id \in Simple, CreateSession(id) PROVE Gate'
  <2>0. id \in Ids /\ next \in Runtimes
    BY <1>1, <1>0, AllocateTypes DEF CreateSession, Ids
  <2> QED
    BY <1>1, <1>0, <2>0, RuntimesAreNoChannels
       DEF CreateSession, Gate, RuntimeOf, storeVars, planeVars, taskVars, PlaneTypes
<1>2. ASSUME NEW id \in Containers, NEW c \in Chans, CreateContainer(id, c) PROVE Gate'
  BY <1>2, <1>0
     DEF CreateContainer, Gate, RuntimeOf, storeVars, planeVars, taskVars, ChannelsKnown,
         Untouched, TaskTypes
<1>3. ASSUME NEW id \in Ids, CreateRefused(id) PROVE Gate'
  BY <1>3, <1>0
     DEF CreateRefused, Gate, RuntimeOf, storeVars, planeVars, taskVars, PlaneTypes
<1>4. ASSUME NEW r \in Runtimes, ConnectSetup(r) PROVE Gate'
  BY <1>4, <1>0
     DEF ConnectSetup, Gate, RuntimeOf, storeVars, planeVars, taskVars, PlaneTypes
<1>5. ASSUME NEW r \in Runtimes, ConnectPublish(r) PROVE Gate'
  BY <1>5, <1>0, RuntimesAreNoChannels
     DEF ConnectPublish, Gate, RuntimeOf, storeVars, planeVars, taskVars, ChannelsKnown,
         StoreTypes
<1>6. ASSUME NEW c \in Chans, NEW r \in Runtimes, OpenChannel(c, r) PROVE Gate'
  BY <1>6, <1>0
     DEF OpenChannel, Gate, RuntimeOf, storeVars, planeVars, taskVars, ChannelsKnown, Untouched,
         TaskTypes
<1>7. ASSUME NEW c \in Chans, ChannelAttach(c) PROVE Gate'
  BY <1>7, <1>0
     DEF ChannelAttach, Gate, RuntimeOf, storeVars, planeVars, taskVars, PlaneTypes
<1>8. ASSUME NEW c \in Chans, ChannelRegister(c) PROVE Gate'
  BY <1>8, <1>0
     DEF ChannelRegister, Gate, RuntimeOf, storeVars, planeVars, taskVars, PlaneTypes
<1>9. ASSUME NEW c \in Chans, ChannelPublish(c) PROVE Gate'
  BY <1>9, <1>0
     DEF ChannelPublish, Gate, RuntimeOf, storeVars, planeVars, taskVars, PlaneTypes
<1>10. ASSUME NEW p \in Planes, ActorDies(p) PROVE Gate'
  BY <1>10, <1>0
     DEF ActorDies, Gate, RuntimeOf, storeVars, planeVars, taskVars, PlaneTypes
<1>11. ASSUME NEW p \in Planes, ActorStops(p) PROVE Gate'
  BY <1>11, <1>0
     DEF ActorStops, Gate, RuntimeOf, storeVars, planeVars, taskVars, PlaneTypes
<1>12. ASSUME NEW p \in Planes, PumpStart(p) PROVE Gate'
  BY <1>12, <1>0
     DEF PumpStart, Gate, RuntimeOf, storeVars, planeVars, taskVars, PlaneTypes
<1>13. ASSUME NEW p \in Planes, PumpEnd(p) PROVE Gate'
  BY <1>13, <1>0
     DEF PumpEnd, Gate, RuntimeOf, storeVars, planeVars, taskVars, PlaneTypes
<1>14. ASSUME NEW r \in Runtimes, RootLost(r) PROVE Gate'
  BY <1>14, <1>0
     DEF RootLost, Gate, RuntimeOf, storeVars, planeVars, taskVars, PlaneTypes
<1>15. ASSUME NEW c \in Chans, ChannelLost(c) PROVE Gate'
  BY <1>15, <1>0
     DEF ChannelLost, Gate, RuntimeOf, storeVars, planeVars, taskVars, PlaneTypes
<1>16. ASSUME NEW u \in Users, NEW r \in Runtimes, Disconnect(u, r) PROVE Gate'
  BY <1>16, <1>0
     DEF Disconnect, Gate, RuntimeOf, storeVars, planeVars, taskVars, PlaneTypes
<1>17. ASSUME NEW u \in Users, NEW c \in Chans, CloseChannel(u, c) PROVE Gate'
  BY <1>17, <1>0
     DEF CloseChannel, Gate, RuntimeOf, storeVars, planeVars, taskVars, PlaneTypes
<1>18. ASSUME NEW u \in Users, CommandDone(u) PROVE Gate'
  BY <1>18, <1>0
     DEF CommandDone, Gate, RuntimeOf, storeVars, planeVars, taskVars, PlaneTypes
<1>19. ASSUME AppExit PROVE Gate'
  BY <1>19, <1>0
     DEF AppExit, Gate, RuntimeOf, storeVars, planeVars, taskVars, PlaneTypes
<1>20. ASSUME NEW p \in Planes, CleanupRequest(p) PROVE Gate'
  BY <1>20, <1>0
     DEF CleanupRequest, Gate, RuntimeOf, storeVars, planeVars, taskVars, PlaneTypes
<1>21. ASSUME NEW p \in Planes, CleanupJoin(p) PROVE Gate'
  BY <1>21, <1>0
     DEF CleanupJoin, Gate, RuntimeOf, storeVars, planeVars, taskVars, PlaneTypes
<1>22. ASSUME NEW r \in Runtimes, CleanupDetach(r) PROVE Gate'
  BY <1>22, <1>0
     DEF CleanupDetach, Gate, RuntimeOf, storeVars, planeVars, taskVars, PlaneTypes
<1>23. ASSUME UNCHANGED vars PROVE Gate'
  BY <1>23 DEF vars, storeVars, planeVars, cleanVars, taskVars, history, Gate, RuntimeOf
<1> QED
  BY <1>1, <1>2, <1>3, <1>4, <1>5, <1>6, <1>7, <1>8, <1>9, <1>10, <1>11, <1>12, <1>13,
     <1>14, <1>15, <1>16, <1>17, <1>18, <1>19, <1>20, <1>21, <1>22, <1>23
     DEF Next, ConnectStep, ChannelStep, PlaneStep, UserStep

(* Closing the current connection of an id.                                *)
LEMMA HandlesClose ==
  ASSUME StoreTypes, CleanTypes, Handles, NEW r \in Runtimes, Current(r), CloseSession(r),
         UNCHANGED <<next, rt, home>>
  PROVE  Handles'
<1>1. home[r] \in Ids /\ r # 0 /\ rt[home[r]] = r /\ r < next
  BY BoundsAssumption DEF StoreTypes, Handles, Current, Runtimes
<1>2. up' = [up EXCEPT ![home[r]] = FALSE] /\ detaching' \subseteq detaching \cup {r}
  BY DEF CloseSession
<1>3. \A i \in Ids : up'[i] => up[i]
  BY <1>2 DEF StoreTypes
<1>4. ~Connected(r)'
  BY <1>1, <1>2 DEF Connected, StoreTypes
<1>5. \A x \in detaching : ~Connected(x)'
  BY <1>3 DEF Handles, Connected, Current
<1> QED BY <1>1, <1>2, <1>3, <1>4, <1>5 DEF Handles

(* A new connection, or an attempt that only spends its runtime id.        *)
LEMMA HandlesCreate ==
  ASSUME StoreTypes, CleanTypes, Handles, NEW id \in Ids, Allocate(id),
         UNCHANGED detaching,
         \/ rt' = [Purged EXCEPT ![id] = next] /\ up' = [up EXCEPT ![id] = TRUE]
         \/ rt' = Purged /\ up' = up
  PROVE  Handles'
<1>1. /\ next \in Runtimes /\ next' = next + 1 /\ next \in Nat \ {0}
      /\ home' = [home EXCEPT ![next] = id] /\ ~up[id]
  <2>1. next \in Runtimes
    BY AllocateTypes
  <2>2. next \in Nat \ {0}
    BY <2>1, BoundsAssumption DEF Runtimes
  <2> QED BY <2>1, <2>2 DEF Allocate
<1>2. \A i \in Ids : i # id => /\ rt'[i] = IF up[i] THEN rt[i] ELSE 0
                             /\ up'[i] = up[i]
  BY DEF Purged, StoreTypes
<1>3. \/ rt'[id] = next /\ up'[id] = TRUE
      \/ rt'[id] = 0 /\ up'[id] = FALSE
  BY <1>1 DEF Purged, StoreTypes
<1>4. \A r \in Runtimes : r < next => home'[r] = home[r]
  BY <1>1 DEF StoreTypes
<1>5. \A i \in Ids : rt[i] \in Nat /\ (rt[i] # 0 => rt[i] \in Runtimes)
  BY BoundsAssumption DEF StoreTypes, Runtimes
<1>6. \A i \in Ids : rt'[i] # 0 => rt'[i] < next' /\ home'[rt'[i]] = i
  <2> SUFFICES ASSUME NEW i \in Ids, rt'[i] # 0 PROVE rt'[i] < next' /\ home'[rt'[i]] = i
    OBVIOUS
  <2>1. CASE i = id
    BY <1>1, <1>3, <2>1 DEF StoreTypes
  <2>2. CASE i # id
    <3>1. rt'[i] = rt[i] /\ rt[i] < next /\ home[rt[i]] = i
      BY <1>2, <2>2 DEF Handles
    <3> QED BY <1>1, <1>4, <1>5, <3>1
  <2> QED BY <2>1, <2>2
<1>7. \A i \in Ids : up'[i] => rt'[i] # 0
  BY <1>1, <1>2, <1>3 DEF Handles
<1>8. \A r \in detaching : r < next' /\ home'[r] \in Ids /\ ~Connected(r)'
  <2> SUFFICES ASSUME NEW r \in detaching
               PROVE  r < next' /\ home'[r] \in Ids /\ ~Connected(r)'
    OBVIOUS
  <2>1. r \in Runtimes /\ r \in Nat \ {0} /\ r < next /\ home[r] \in Ids
    BY BoundsAssumption DEF Handles, CleanTypes, Runtimes
  <2>2. home'[r] = home[r] /\ r < next'
    BY <1>1, <1>4, <2>1
  <2>3. ~(home[r] # None /\ rt[home[r]] = r /\ up[home[r]])
    BY DEF Handles, Connected, Current
  <2>4. home[r] # None
    BY <2>1, BoundsAssumption DEF Ids
  <2>5. ~(rt'[home[r]] = r /\ up'[home[r]])
    BY <1>1, <1>2, <1>3, <2>1, <2>3, <2>4
  <2> QED BY <2>1, <2>2, <2>5 DEF Connected, Current
<1> QED BY <1>6, <1>7, <1>8 DEF Handles

(* Each action keeps the correspondence of handles and connections.        *)
LEMMA HandlesStep == TypeOK /\ ChannelsKnown /\ Handles /\ [Next]_vars => Handles'
<1> SUFFICES ASSUME TypeOK, ChannelsKnown, Handles, [Next]_vars PROVE Handles'
  OBVIOUS
<1>0. StoreTypes /\ PlaneTypes /\ CleanTypes /\ TaskTypes
  BY DEF TypeOK
<1>1. ASSUME NEW id \in Simple, CreateSession(id) PROVE Handles'
  <2>0. id \in Ids
    BY DEF Ids
  <2> QED BY <1>1, <1>0, <2>0, HandlesCreate DEF CreateSession, cleanVars
<1>2. ASSUME NEW id \in Containers, NEW c \in Chans, CreateContainer(id, c) PROVE Handles'
  <2>0. id \in Ids
    BY DEF Ids
  <2> QED BY <1>2, <1>0, <2>0, HandlesCreate DEF CreateContainer, cleanVars
<1>3. ASSUME NEW id \in Ids, CreateRefused(id) PROVE Handles'
  BY <1>3, <1>0
     DEF CreateRefused, Handles, Connected, Current, storeVars, cleanVars, Purged, StoreTypes,
         CleanTypes
<1>4. ASSUME NEW r \in Runtimes, ConnectSetup(r) PROVE Handles'
  BY <1>4, <1>0, HandlesClose
     DEF ConnectSetup, Handles, Connected, Current, storeVars, cleanVars, CloseIfCurrent
<1>5. ASSUME NEW r \in Runtimes, ConnectPublish(r) PROVE Handles'
  BY <1>5, <1>0
     DEF ConnectPublish, Handles, Connected, Current, storeVars, cleanVars, StoreTypes, CleanTypes
<1>6. ASSUME NEW c \in Chans, NEW r \in Runtimes, OpenChannel(c, r) PROVE Handles'
  BY <1>6, <1>0
     DEF OpenChannel, Handles, Connected, Current, storeVars, cleanVars, StoreTypes, CleanTypes
<1>7. ASSUME NEW c \in Chans, ChannelAttach(c) PROVE Handles'
  BY <1>7, <1>0
     DEF ChannelAttach, Handles, Connected, Current, storeVars, cleanVars, StoreTypes, CleanTypes
<1>8. ASSUME NEW c \in Chans, ChannelRegister(c) PROVE Handles'
  BY <1>8, <1>0
     DEF ChannelRegister, Handles, Connected, Current, storeVars, cleanVars, StoreTypes,
         CleanTypes
<1>9. ASSUME NEW c \in Chans, ChannelPublish(c) PROVE Handles'
  BY <1>9, <1>0
     DEF ChannelPublish, Handles, Connected, Current, storeVars, cleanVars, StoreTypes, CleanTypes
<1>10. ASSUME NEW p \in Planes, ActorDies(p) PROVE Handles'
  BY <1>10, <1>0
     DEF ActorDies, Handles, Connected, Current, storeVars, cleanVars, StoreTypes, CleanTypes
<1>11. ASSUME NEW p \in Planes, ActorStops(p) PROVE Handles'
  BY <1>11, <1>0
     DEF ActorStops, Handles, Connected, Current, storeVars, cleanVars, StoreTypes, CleanTypes
<1>12. ASSUME NEW p \in Planes, PumpStart(p) PROVE Handles'
  BY <1>12, <1>0
     DEF PumpStart, Handles, Connected, Current, storeVars, cleanVars, StoreTypes, CleanTypes
<1>13. ASSUME NEW p \in Planes, PumpEnd(p) PROVE Handles'
  BY <1>13, <1>0
     DEF PumpEnd, Handles, Connected, Current, storeVars, cleanVars, StoreTypes, CleanTypes
<1>14. ASSUME NEW r \in Runtimes, RootLost(r) PROVE Handles'
  BY <1>14, <1>0, HandlesClose
     DEF RootLost, Handles, Connected, Current, storeVars, cleanVars
<1>15. ASSUME NEW c \in Chans, ChannelLost(c) PROVE Handles'
  <2>1. parent[c] \in Runtimes
    BY <1>15 DEF ChannelLost, ChannelsKnown, Untouched
  <2> QED BY <1>15, <1>0, <2>1, HandlesClose
         DEF ChannelLost, ChildConnected, Handles, Connected, Current
<1>16. ASSUME NEW u \in Users, NEW r \in Runtimes, Disconnect(u, r) PROVE Handles'
  BY <1>16, <1>0, HandlesClose
     DEF Disconnect, Handles, Connected, Current, storeVars, cleanVars
<1>17. ASSUME NEW u \in Users, NEW c \in Chans, CloseChannel(u, c) PROVE Handles'
  <2>1. parent[c] \in Runtimes
    BY <1>17 DEF CloseChannel, ChannelsKnown, Untouched
  <2> QED BY <1>17, <1>0, <2>1, HandlesClose DEF CloseChannel, Handles, Connected, Current
<1>18. ASSUME NEW u \in Users, CommandDone(u) PROVE Handles'
  BY <1>18, <1>0
     DEF CommandDone, Handles, Connected, Current, storeVars, cleanVars, StoreTypes, CleanTypes
<1>19. ASSUME AppExit PROVE Handles'
  BY <1>19, <1>0, BoundsAssumption
     DEF AppExit, Handles, Connected, Current, storeVars, cleanVars, Runtimes, StoreTypes,
         CleanTypes
<1>20. ASSUME NEW p \in Planes, CleanupRequest(p) PROVE Handles'
  BY <1>20, <1>0
     DEF CleanupRequest, Handles, Connected, Current, storeVars, cleanVars, StoreTypes, CleanTypes
<1>21. ASSUME NEW p \in Planes, CleanupJoin(p) PROVE Handles'
  BY <1>21, <1>0
     DEF CleanupJoin, Handles, Connected, Current, storeVars, cleanVars, StoreTypes, CleanTypes
<1>22. ASSUME NEW r \in Runtimes, CleanupDetach(r) PROVE Handles'
  BY <1>22, <1>0
     DEF CleanupDetach, Handles, Connected, Current, storeVars, cleanVars, StoreTypes, CleanTypes
<1>23. ASSUME UNCHANGED vars PROVE Handles'
  BY <1>23 DEF vars, storeVars, planeVars, cleanVars, taskVars, history, Handles, Connected,
     Current
<1> QED
  BY <1>1, <1>2, <1>3, <1>4, <1>5, <1>6, <1>7, <1>8, <1>9, <1>10, <1>11, <1>12, <1>13,
     <1>14, <1>15, <1>16, <1>17, <1>18, <1>19, <1>20, <1>21, <1>22, <1>23
     DEF Next, ConnectStep, ChannelStep, PlaneStep, UserStep

(* The index of the plugin finds the runtime of every connected session:   *)
(* a cleanup that detaches does so for a connection that is over, so its   *)
(* entry is no longer the current one.                                     *)
LEMMA RegistryStep ==
  TypeOK /\ ChannelsKnown /\ Handles /\ RegistryCurrent /\ [Next]_vars => RegistryCurrent'
<1> SUFFICES ASSUME TypeOK, ChannelsKnown, Handles, RegistryCurrent,
             [Next]_vars PROVE RegistryCurrent'
  OBVIOUS
<1>0. StoreTypes /\ PlaneTypes /\ CleanTypes /\ TaskTypes /\ HistoryTypes
  BY DEF TypeOK
<1>1. ASSUME NEW id \in Simple, CreateSession(id) PROVE RegistryCurrent'
  <2>0. id \in Ids /\ ~up[id]
    BY <1>1 DEF CreateSession, Allocate, Ids
  <2> QED BY <1>1, <1>0, <2>0 DEF CreateSession, RegistryCurrent, Purged, StoreTypes
<1>2. ASSUME NEW id \in Containers, NEW c \in Chans, CreateContainer(id, c) PROVE RegistryCurrent'
  <2>0. id \in Ids /\ ~up[id]
    BY <1>2 DEF CreateContainer, Allocate, Ids
  <2> QED BY <1>2, <1>0, <2>0 DEF CreateContainer, RegistryCurrent, Purged, StoreTypes
<1>3. ASSUME NEW id \in Ids, CreateRefused(id) PROVE RegistryCurrent'
  BY <1>3, <1>0 DEF CreateRefused, RegistryCurrent, Purged, StoreTypes
<1>4. ASSUME NEW r \in Runtimes, ConnectSetup(r) PROVE RegistryCurrent'
  BY <1>4, <1>0 DEF ConnectSetup, CloseIfCurrent, CloseSession, RegistryCurrent, StoreTypes
<1>5. ASSUME NEW r \in Runtimes, ConnectPublish(r) PROVE RegistryCurrent'
  BY <1>5 DEF ConnectPublish, RegistryCurrent, storeVars
<1>6. ASSUME NEW c \in Chans, NEW r \in Runtimes, OpenChannel(c, r) PROVE RegistryCurrent'
  BY <1>6 DEF OpenChannel, RegistryCurrent, storeVars
<1>7. ASSUME NEW c \in Chans, ChannelAttach(c) PROVE RegistryCurrent'
  BY <1>7 DEF ChannelAttach, RegistryCurrent, storeVars
<1>8. ASSUME NEW c \in Chans, ChannelRegister(c) PROVE RegistryCurrent'
  BY <1>8 DEF ChannelRegister, RegistryCurrent, storeVars
<1>9. ASSUME NEW c \in Chans, ChannelPublish(c) PROVE RegistryCurrent'
  BY <1>9 DEF ChannelPublish, RegistryCurrent, storeVars
<1>10. ASSUME NEW p \in Planes, ActorDies(p) PROVE RegistryCurrent'
  BY <1>10 DEF ActorDies, RegistryCurrent, storeVars
<1>11. ASSUME NEW p \in Planes, ActorStops(p) PROVE RegistryCurrent'
  BY <1>11 DEF ActorStops, RegistryCurrent, storeVars
<1>12. ASSUME NEW p \in Planes, PumpStart(p) PROVE RegistryCurrent'
  BY <1>12 DEF PumpStart, RegistryCurrent, storeVars
<1>13. ASSUME NEW p \in Planes, PumpEnd(p) PROVE RegistryCurrent'
  BY <1>13 DEF PumpEnd, RegistryCurrent, storeVars
<1>14. ASSUME NEW r \in Runtimes, RootLost(r) PROVE RegistryCurrent'
  BY <1>14, <1>0 DEF RootLost, CloseSession, RegistryCurrent, storeVars, StoreTypes
<1>15. ASSUME NEW c \in Chans, ChannelLost(c) PROVE RegistryCurrent'
  <2>1. parent[c] \in Runtimes
    BY <1>15 DEF ChannelLost, ChannelsKnown, Untouched
  <2>2. home[parent[c]] \in Ids \/ UNCHANGED up
    BY <1>15, <1>0, <2>1 DEF ChannelLost, ChildConnected, Connected, Current, StoreTypes
  <2> QED BY <1>15, <1>0, <2>1, <2>2 DEF ChannelLost, CloseSession, RegistryCurrent, StoreTypes
<1>16. ASSUME NEW u \in Users, NEW r \in Runtimes, Disconnect(u, r) PROVE RegistryCurrent'
  BY <1>16, <1>0 DEF Disconnect, CloseSession, RegistryCurrent, storeVars, StoreTypes
<1>17. ASSUME NEW u \in Users, NEW c \in Chans, CloseChannel(u, c) PROVE RegistryCurrent'
  <2>1. parent[c] \in Runtimes
    BY <1>17 DEF CloseChannel, ChannelsKnown, Untouched
  <2>2. home[parent[c]] \in Ids \/ UNCHANGED up
    BY <1>17, <1>0, <2>1 DEF CloseChannel, ChildConnected, Connected, Current, StoreTypes
  <2> QED BY <1>17, <1>0, <2>1, <2>2 DEF CloseChannel, CloseSession, RegistryCurrent, StoreTypes
<1>18. ASSUME NEW u \in Users, CommandDone(u) PROVE RegistryCurrent'
  BY <1>18 DEF CommandDone, RegistryCurrent, storeVars
<1>19. ASSUME AppExit PROVE RegistryCurrent'
  BY <1>19 DEF AppExit, RegistryCurrent
<1>20. ASSUME NEW p \in Planes, CleanupRequest(p) PROVE RegistryCurrent'
  BY <1>20 DEF CleanupRequest, RegistryCurrent, storeVars
<1>21. ASSUME NEW p \in Planes, CleanupJoin(p) PROVE RegistryCurrent'
  BY <1>21 DEF CleanupJoin, RegistryCurrent, storeVars
<1>22. ASSUME NEW r \in Runtimes, CleanupDetach(r) PROVE RegistryCurrent'
  <2>1. home[r] \in Ids /\ ~Connected(r) /\ home[r] # None
    BY <1>22, BoundsAssumption DEF CleanupDetach, Handles, Ids
  <2>2. rt[home[r]] # r \/ ~up[home[r]]
    BY <2>1 DEF Connected, Current
  <2> QED BY <1>22, <1>0, <2>1, <2>2 DEF CleanupDetach, RegistryCurrent, StoreTypes
<1>23. ASSUME UNCHANGED vars PROVE RegistryCurrent'
  BY <1>23 DEF vars, storeVars, RegistryCurrent
<1> QED
  BY <1>1, <1>2, <1>3, <1>4, <1>5, <1>6, <1>7, <1>8, <1>9, <1>10, <1>11, <1>12, <1>13,
     <1>14, <1>15, <1>16, <1>17, <1>18, <1>19, <1>20, <1>21, <1>22, <1>23
     DEF Next, ConnectStep, ChannelStep, PlaneStep, UserStep

(* LossReportedOnce with what makes it inductive.                         *)
Losses == LossesKnown /\ LossReportedOnce

(* Closing a current connection: it is reported or asked for only while    *)
(* it is connected, and then it has not been before.                       *)
LEMMA LossesClose ==
  ASSUME StoreTypes, HistoryTypes, Handles, Losses, NEW r \in Runtimes, Current(r),
         CloseSession(r), UNCHANGED <<next, rt, home>>,
         \/ losses' = losses /\ asked' \subseteq asked \cup (IF Connected(r) THEN {r} ELSE {})
         \/ Connected(r) /\ asked' = asked /\ losses' = [losses EXCEPT ![r] = @ + 1]
  PROVE  Losses'
<1>1. home[r] \in Ids /\ rt[home[r]] = r /\ r \in Nat \ {0} /\ r < next /\ next \in Nat
  BY BoundsAssumption DEF StoreTypes, Handles, Current, Runtimes
<1>2. up' = [up EXCEPT ![home[r]] = FALSE]
  BY DEF CloseSession
<1>3. ~Connected(r)'
  BY <1>1, <1>2 DEF Connected, StoreTypes
<1>4. \A x \in Runtimes : Connected(x)' => Connected(x)
  BY <1>1, <1>2 DEF Connected, Current, StoreTypes
<1>5. \A x \in Runtimes : x # r => losses'[x] = losses[x] /\ (x \in asked' => x \in asked)
  BY DEF HistoryTypes
<1>6. LossesKnown'
  <2> SUFFICES ASSUME NEW x \in Runtimes, x >= next \/ Connected(x)'
               PROVE  losses'[x] = 0 /\ x \notin asked'
    BY DEF LossesKnown
  <2>1. x # r
    BY <1>1, <1>3
  <2>2. losses[x] = 0 /\ x \notin asked
    BY <1>4 DEF Losses, LossesKnown
  <2> QED BY <2>1, <2>2, <1>5
<1>7. LossReportedOnce'
  <2> SUFFICES ASSUME NEW x \in Runtimes
               PROVE  losses'[x] <= IF x \in asked' THEN 0 ELSE 1
    BY DEF LossReportedOnce
  <2>1. losses[x] \in Nat /\ losses[x] <= IF x \in asked THEN 0 ELSE 1
    BY DEF HistoryTypes, Losses, LossReportedOnce
  <2>2. CASE x # r
    BY <2>1, <2>2, <1>5
  <2>3. CASE x = r /\ Connected(r)
    <3>1. losses[r] = 0 /\ r \notin asked
      BY <2>3 DEF Losses, LossesKnown
    <3>2. \/ losses'[r] = 0
          \/ losses'[r] = 1 /\ r \notin asked'
      BY <3>1 DEF HistoryTypes
    <3> QED BY <2>3, <3>2
  <2>4. CASE x = r /\ ~Connected(r)
    BY <2>1, <2>4
  <2> QED BY <2>2, <2>3, <2>4
<1> QED BY <1>6, <1>7 DEF Losses

(* Steps that neither report nor ask: nothing becomes connected that was   *)
(* not, except under a runtime id never used before.                       *)
LEMMA LossesKept ==
  ASSUME StoreTypes, Losses, UNCHANGED <<losses, asked>>, next' \in Nat, next' >= next,
         \A x \in Runtimes : Connected(x)' => Connected(x) \/ x >= next
  PROVE  Losses'
<1>1. next \in Nat /\ \A x \in Runtimes : x \in Nat
  BY BoundsAssumption DEF StoreTypes, Runtimes
<1>2. LossesKnown'
  BY <1>1 DEF Losses, LossesKnown
<1> QED BY <1>2 DEF Losses, LossReportedOnce

(* A connection that is made, or fails, leaves only the earlier ones and   *)
(* the new one connected.                                                  *)
LEMMA LossesCreate ==
  ASSUME StoreTypes, Handles, Losses, NEW id \in Ids, Allocate(id), UNCHANGED <<losses, asked>>,
         \/ rt' = [Purged EXCEPT ![id] = next] /\ up' = [up EXCEPT ![id] = TRUE]
         \/ rt' = Purged /\ up' = up
  PROVE  Losses'
<1>1. next \in Runtimes /\ next \in Nat \ {0} /\ next' = next + 1
  <2>1. next \in Runtimes
    BY AllocateTypes
  <2> QED BY <2>1, BoundsAssumption DEF Allocate, Runtimes
<1>2. ASSUME NEW x \in Runtimes, Connected(x)' PROVE Connected(x) \/ x >= next
  <2> SUFFICES ASSUME x # next PROVE Connected(x)
    BY <1>1
  <2>1. home'[x] = home[x] /\ home[x] \in Ids /\ x # 0
    BY <1>2, BoundsAssumption DEF Allocate, Connected, Current, StoreTypes, Runtimes
  <2>2. rt'[home[x]] = x /\ up'[home[x]] /\ home[x] # None
    BY <1>2, <2>1 DEF Connected, Current
  <2>3. home[x] # id /\ rt[home[x]] = x /\ up[home[x]]
    BY <2>1, <2>2 DEF Purged, StoreTypes, Allocate
  <2> QED BY <2>2, <2>3 DEF Connected, Current
<1> QED BY <1>1, <1>2, LossesKept

(* The loss of a connection is reported at most once, and never after a    *)
(* command closed it.                                                      *)
LEMMA LossesStep ==
  TypeOK /\ ChannelsKnown /\ Handles /\ Losses /\ [Next]_vars => Losses'
<1> SUFFICES ASSUME TypeOK, ChannelsKnown, Handles, Losses, [Next]_vars PROVE Losses'
  OBVIOUS
<1>0. StoreTypes /\ PlaneTypes /\ CleanTypes /\ TaskTypes /\ HistoryTypes
  BY DEF TypeOK
<1>1. ASSUME NEW id \in Simple, CreateSession(id) PROVE Losses'
  <2>0. id \in Ids
    BY DEF Ids
  <2> QED BY <1>1, <1>0, <2>0, LossesCreate DEF CreateSession, history
<1>2. ASSUME NEW id \in Containers, NEW c \in Chans, CreateContainer(id, c) PROVE Losses'
  <2>0. id \in Ids
    BY DEF Ids
  <2> QED BY <1>2, <1>0, <2>0, LossesCreate DEF CreateContainer, history
<1>3. ASSUME NEW id \in Ids, CreateRefused(id) PROVE Losses'
  <2>1. next' \in Nat /\ next' >= next
    BY <1>3, <1>0, BoundsAssumption DEF CreateRefused, StoreTypes
  <2>2. ASSUME NEW x \in Runtimes, Connected(x)' PROVE Connected(x)
    <3>1. x # 0 /\ home[x] \in Ids
      BY <1>3, <1>0, <2>2, BoundsAssumption DEF CreateRefused, Connected, Current, StoreTypes,
         Runtimes
    <3> QED BY <1>3, <1>0, <2>2, <3>1 DEF CreateRefused, Connected, Current, Purged, StoreTypes
  <2> QED BY <1>3, <1>0, <2>1, <2>2, LossesKept DEF CreateRefused, history
<1>4. ASSUME NEW r \in Runtimes, ConnectSetup(r) PROVE Losses'
  <2>1. CASE Current(r) /\ CloseSession(r)
    BY <1>4, <2>1, <1>0, LossesClose DEF ConnectSetup, history
  <2>2. CASE UNCHANGED up
    BY <1>4, <2>2 DEF ConnectSetup, history, Losses, LossesKnown, LossReportedOnce, Connected,
       Current
  <2> QED BY <1>4, <2>1, <2>2 DEF ConnectSetup, CloseIfCurrent
<1>5. ASSUME NEW r \in Runtimes, ConnectPublish(r) PROVE Losses'
  BY <1>5
     DEF ConnectPublish, storeVars, history, Losses, LossesKnown, LossReportedOnce, Connected,
         Current
<1>6. ASSUME NEW c \in Chans, NEW r \in Runtimes, OpenChannel(c, r) PROVE Losses'
  BY <1>6
     DEF OpenChannel, storeVars, history, Losses, LossesKnown, LossReportedOnce, Connected,
         Current
<1>7. ASSUME NEW c \in Chans, ChannelAttach(c) PROVE Losses'
  BY <1>7
     DEF ChannelAttach, storeVars, history, Losses, LossesKnown, LossReportedOnce, Connected,
         Current
<1>8. ASSUME NEW c \in Chans, ChannelRegister(c) PROVE Losses'
  BY <1>8
     DEF ChannelRegister, storeVars, history, Losses, LossesKnown, LossReportedOnce, Connected,
         Current
<1>9. ASSUME NEW c \in Chans, ChannelPublish(c) PROVE Losses'
  BY <1>9
     DEF ChannelPublish, storeVars, history, Losses, LossesKnown, LossReportedOnce, Connected,
         Current
<1>10. ASSUME NEW p \in Planes, ActorDies(p) PROVE Losses'
  BY <1>10
     DEF ActorDies, storeVars, history, Losses, LossesKnown, LossReportedOnce, Connected, Current
<1>11. ASSUME NEW p \in Planes, ActorStops(p) PROVE Losses'
  BY <1>11
     DEF ActorStops, storeVars, history, Losses, LossesKnown, LossReportedOnce, Connected, Current
<1>12. ASSUME NEW p \in Planes, PumpStart(p) PROVE Losses'
  BY <1>12
     DEF PumpStart, storeVars, history, Losses, LossesKnown, LossReportedOnce, Connected, Current
<1>13. ASSUME NEW p \in Planes, PumpEnd(p) PROVE Losses'
  BY <1>13
     DEF PumpEnd, storeVars, history, Losses, LossesKnown, LossReportedOnce, Connected, Current
<1>14. ASSUME NEW r \in Runtimes, RootLost(r) PROVE Losses'
  <2>1. CASE Connected(r) /\ CloseSession(r) /\ losses' = [losses EXCEPT ![r] = @ + 1]
    BY <1>14, <2>1, <1>0, LossesClose DEF RootLost, Connected
  <2>2. CASE UNCHANGED <<up, losses>>
    BY <1>14, <2>2 DEF RootLost, Losses, LossesKnown, LossReportedOnce, Connected, Current
  <2> QED BY <1>14, <2>1, <2>2 DEF RootLost
<1>15. ASSUME NEW c \in Chans, ChannelLost(c) PROVE Losses'
  <2>1. parent[c] \in Runtimes
    BY <1>15 DEF ChannelLost, ChannelsKnown, Untouched
  <2>2. CASE /\ Connected(parent[c]) /\ CloseSession(parent[c])
             /\ losses' = [losses EXCEPT ![parent[c]] = @ + 1]
    BY <1>15, <2>1, <2>2, <1>0, LossesClose DEF ChannelLost, Connected
  <2>3. CASE UNCHANGED <<up, losses>>
    BY <1>15, <2>3 DEF ChannelLost, Losses, LossesKnown, LossReportedOnce, Connected, Current
  <2> QED BY <1>15, <2>2, <2>3 DEF ChannelLost, ChildConnected
<1>16. ASSUME NEW u \in Users, NEW r \in Runtimes, Disconnect(u, r) PROVE Losses'
  BY <1>16, <1>0, LossesClose DEF Disconnect, Connected
<1>17. ASSUME NEW u \in Users, NEW c \in Chans, CloseChannel(u, c) PROVE Losses'
  <2>1. parent[c] \in Runtimes
    BY <1>17 DEF CloseChannel, ChannelsKnown, Untouched
  <2>2. CASE Current(parent[c]) /\ CloseSession(parent[c])
    BY <1>17, <2>1, <2>2, <1>0, LossesClose DEF CloseChannel
  <2>3. CASE UNCHANGED up
    BY <1>17, <2>3 DEF CloseChannel, Losses, LossesKnown, LossReportedOnce, Connected, Current
  <2> QED BY <1>17, <2>2, <2>3 DEF CloseChannel
<1>18. ASSUME NEW u \in Users, CommandDone(u) PROVE Losses'
  BY <1>18
     DEF CommandDone, storeVars, history, Losses, LossesKnown, LossReportedOnce, Connected,
         Current
<1>19. ASSUME AppExit PROVE Losses'
  <2>1. \A x \in Runtimes : ~Connected(x)'
    BY <1>19, <1>0 DEF AppExit, Connected, Current, StoreTypes
  <2>2. \A x \in Runtimes : Connected(x) => x < next
    BY <1>0, BoundsAssumption DEF Connected, Current, Handles, StoreTypes, Runtimes
  <2>3. \A x \in Runtimes : x \in asked' => x \in asked \/ Connected(x)
    BY <1>19 DEF AppExit
  <2>4. LossesKnown'
    <3>1. next \in Nat /\ \A x \in Runtimes : x \in Nat
      BY <1>0, BoundsAssumption DEF StoreTypes, Runtimes
    <3>2. UNCHANGED <<next, losses>>
      BY <1>19 DEF AppExit
    <3> QED BY <2>1, <2>2, <2>3, <3>1, <3>2 DEF Losses, LossesKnown
  <2>5. LossReportedOnce'
    BY <1>19, <2>3 DEF AppExit, Losses, LossesKnown, LossReportedOnce
  <2> QED BY <2>4, <2>5 DEF Losses
<1>20. ASSUME NEW p \in Planes, CleanupRequest(p) PROVE Losses'
  BY <1>20
     DEF CleanupRequest, storeVars, history, Losses, LossesKnown, LossReportedOnce, Connected,
         Current
<1>21. ASSUME NEW p \in Planes, CleanupJoin(p) PROVE Losses'
  BY <1>21
     DEF CleanupJoin, storeVars, history, Losses, LossesKnown, LossReportedOnce, Connected,
         Current
<1>22. ASSUME NEW r \in Runtimes, CleanupDetach(r) PROVE Losses'
  BY <1>22
     DEF CleanupDetach, storeVars, history, Losses, LossesKnown, LossReportedOnce, Connected,
         Current
<1>23. ASSUME UNCHANGED vars PROVE Losses'
  BY <1>23
     DEF vars, storeVars, history, Losses, LossesKnown, LossReportedOnce, Connected, Current
<1> QED
  BY <1>1, <1>2, <1>3, <1>4, <1>5, <1>6, <1>7, <1>8, <1>9, <1>10, <1>11, <1>12, <1>13,
     <1>14, <1>15, <1>16, <1>17, <1>18, <1>19, <1>20, <1>21, <1>22, <1>23
     DEF Next, ConnectStep, ChannelStep, PlaneStep, UserStep

-----------------------------------------------------------------------------

(* The inductive invariant: the channels' bookkeeping, the activation      *)
(* gate, the handles of the store and the two properties that rest on      *)
(* them.                                                                   *)
Inv == TypeOK /\ ChannelsKnown /\ Gate /\ Handles /\ RegistryCurrent /\ Losses

(* Every part holds before the first connection.                           *)
LEMMA InitInv == Init => Inv
<1> SUFFICES ASSUME Init PROVE Inv
  OBVIOUS
<1>1. 0 \in 0..MaxRuntimes /\ 1 \in 1..MaxRuntimes + 1 /\ \A r \in Runtimes : r # 0
  BY BoundsAssumption DEF Runtimes
<1>2. StoreTypes
  BY <1>1 DEF Init, StoreTypes
<1>3. PlaneTypes /\ CleanTypes /\ HistoryTypes
  BY DEF Init, PlaneTypes, CleanTypes, HistoryTypes
<1>4. TaskTypes
  BY <1>1 DEF Init, TaskTypes
<1>5. ChannelsKnown
  BY <1>1 DEF Init, ChannelsKnown, Untouched, Planes
<1>6. Gate
  BY DEF Init, Gate
<1>7. Handles /\ RegistryCurrent
  BY DEF Init, Handles, RegistryCurrent
<1>8. Losses
  BY DEF Init, Losses, LossesKnown, LossReportedOnce
<1> QED BY <1>2, <1>3, <1>4, <1>5, <1>6, <1>7, <1>8 DEF Inv, TypeOK

(* Every step of the store, of a thread or of a command preserves it.      *)
LEMMA StepInv == Inv /\ [Next]_vars => Inv'
BY TypeStep, ChannelsStep, GateStep, HandlesStep, RegistryStep, LossesStep DEF Inv

(* The invariant holds in every reachable state.                           *)
THEOREM InvHolds == Spec => []Inv
BY InitInv, StepInv, PTL DEF Spec

(* Every variable of the session store, its planes and its commands keeps  *)
(* its type, for any number of sessions, channels and commands.            *)
THEOREM LifecycleTypeCorrect == Spec => []TypeOK
<1>1. Inv => TypeOK
  BY DEF Inv
<1> QED BY <1>1, InvHolds, PTL

(* No data or disconnect callback runs before the session, and for a       *)
(* channel the channel too, has been announced to the front end by         *)
(* publish_session_connected.                                              *)
THEOREM PublishedFirstHolds == Spec => []PublishedFirst
<1>1. Inv => PublishedFirst
  BY DEF Inv, Gate, PublishedFirst
<1> QED BY <1>1, InvHolds, PTL

(* The plugin's registry finds the runtime of every connected session,     *)
(* however late the cleanup of an earlier connection under the same id     *)
(* calls on_detached.                                                      *)
THEOREM RegistryCurrentHolds == Spec => []RegistryCurrent
<1>1. Inv => RegistryCurrent
  BY DEF Inv
<1> QED BY <1>1, InvHolds, PTL

(* mark_disconnected and mark_sub_disconnected report the loss of a        *)
(* connection at most once, and not after a command closed it.             *)
THEOREM LossReportedOnceHolds == Spec => []LossReportedOnce
<1>1. Inv => LossReportedOnce
  BY DEF Inv, Losses
<1> QED BY <1>1, InvHolds, PTL

-----------------------------------------------------------------------------
(***************************************************************************)
(* The terminal channels of a container, and why and how quietly a         *)
(* connection ends: what the invariant above leaves out.                   *)
(***************************************************************************)

Registered(c) == task[c] \in {"registered", "done"}

(* What is known of a connection: one still to come has left no trace; a   *)
(* container has its first channel from the start and no other until it is *)
(* announced.                                                              *)
Root(r) ==
  /\ r >= next => /\ conn[r] = "none" /\ home[r] = None /\ pump[r] = "none"
                  /\ cleanup[r] = {} /\ r \notin published \cup ended
  /\ Connected(r) => conn[r] # "none"
  /\ pump[r] # "none" => home[r] \in Simple
  /\ conn[r] # "none" /\ home[r] \in Containers =>
       first[r] \in Chans /\ parent[first[r]] = r /\ task[first[r]] # "new"
  /\ conn[r] = "setup" =>
       /\ home[r] \in Containers
       /\ \A c \in Chans : task[c] # "new" /\ parent[c] = r => c = first[r]
  /\ r \in published => conn[r] \in {"child", "done"}

Roots == \A r \in Runtimes : Root(r)

(* The stages of a channel: its pump is paused behind its barrier until it *)
(* is registered, and one that failed never runs.                          *)
Stage(c) ==
  /\ task[c] # "new" => parent[c] < next /\ home[parent[c]] \in Containers
  /\ c \in published => task[c] = "done"
  /\ task[c] = "opened" => pump[c] = "none" /\ c \notin activated \cup shutReq
  /\ task[c] = "attached" => pump[c] = "paused" /\ c \notin activated \cup shutReq
  /\ task[c] = "failed" =>
       pump[c] = "none" \/ (c \in shutReq /\ pump[c] \in {"paused", "done"})

Stages == \A c \in Chans : Stage(c)

(* In whose hands a registered channel, and a simple session's plane, is:  *)
(* the hands are disjoint, and it leaves them only told to shut down.      *)
Hands ==
  /\ \A r \in Runtimes : \A c \in kids[r] :
       Connected(r) /\ Registered(c) /\ c \notin cleanup[r] /\ c \notin loose
  /\ \A r \in Runtimes : \A c \in Chans :
       c \in cleanup[r] => Registered(c) /\ parent[c] = r /\ c \notin loose
  /\ \A c \in loose : Registered(c)
  /\ \A c \in Chans : Registered(c) /\ c \notin shutReq =>
       c \in kids[parent[c]] \/ c \in cleanup[parent[c]] \/ c \in loose
  /\ \A r, q \in Runtimes : q \in cleanup[r] => q = r /\ ~Connected(r)
  /\ \A r \in Runtimes : pump[r] # "none" /\ r \notin shutReq => Connected(r) \/ r \in cleanup[r]

(* The actor of a plane whose pump still goes has not stopped unnoticed.   *)
Deaths ==
  \A p \in Planes :
    /\ pump[p] = "closing" => p \in died
    /\ pump[p] \in {"paused", "active"} /\ p \notin alive => p \in died \cup shutReq

(* What became of the channels of a connected container.                   *)
KidStates ==
  \A c \in Chans : Registered(c) /\ Connected(parent[c]) =>
    \/ c \in kids[parent[c]] /\ c \in kidUp
    \/ c \in dropped
    \/ c \in died /\ pump[c] = "done"

Budget ==
  \A r \in Runtimes :
    IsFiniteSet(ActiveKids(r)) /\ Cardinality(ActiveKids(r)) <= MaxChildren

(* Commands: one disconnect at a time for a session; a close that took the *)
(* session along did so before any disconnect.                             *)
Commands ==
  /\ \A u, v \in Users :
       user[u].cmd = "disconnect" /\ user[v].cmd = "disconnect" /\ user[u].r = user[v].r => u = v
  /\ \A u \in Users :
       /\ Ends(u) => user[u].r < next /\ ~Connected(user[u].r)
       /\ user[u].cmd = "disconnect" /\ user[u].waits # {} => user[u].r \in asked
       /\ user[u].cmd = "close" /\ user[u].detach => user[u].r \notin asked

(* A plane that delivers data, or will, and that nobody closes by itself   *)
(* belongs to a connection that has not ended; if that is closed already,  *)
(* a disconnect command waits for the plane.                               *)
Loud(p) ==
  /\ p \notin dropped
  /\ \/ pump[p] = "active"
     \/ pump[p] = "paused" /\ p \notin shutReq /\ ~(p \in Chans /\ task[p] = "attached")

Awaited(p, r) ==
  \E u \in Users :
    user[u].cmd = "disconnect" /\ user[u].r = r /\ p \in user[u].waits /\ p \in cleanup[r]

Quiet ==
  /\ \A r \in ended : ~Connected(r)
  /\ ~exited => \A p \in Planes, r \in Runtimes :
       Loud(p) /\ r = RuntimeOf(p) => r \notin ended /\ (~Connected(r) => Awaited(p, r))

(* With one session id nothing purges the handle of a container while its  *)
(* channels are opened, so that a refused channel finds it.                *)
OneId == \A i, j \in Ids : i = j

Owned(p) == PlaneConnected(p) \/ (p \in Chans /\ task[p] = "attached")

Collectors ==
  OneId => /\ \A p \in stats : Owned(p)
           /\ \A i \in Containers : rt[i] = 0 => \A r \in Runtimes : home[r] # i
           /\ \A r \in Runtimes : r \in stats => home[r] \in Simple

ChannelInv ==
  /\ Roots /\ Stages /\ Hands /\ Deaths /\ KidStates /\ EndsForItsOwnReason
  /\ NoEmptyContainer /\ Budget /\ Commands /\ Quiet
  /\ Collectors

-----------------------------------------------------------------------------
(* How the actions change which connections are up.                        *)

(* What the closing of connection x moves into its cleanup.                *)
HandedOver(x, p) == p \in kids[x] \/ (p = x /\ Connected(x) /\ home[x] \in Simple)

Closes(S) ==
  /\ \A x \in Runtimes : Connected(x)' <=> Connected(x) /\ x \notin S
  /\ \A x \in Runtimes : kids'[x] = IF x \in S THEN {} ELSE kids[x]
  /\ \A x \in Runtimes : \A p :
       p \in cleanup'[x] <=> p \in cleanup[x] \/ (x \in S /\ HandedOver(x, p))
  /\ \A p : p \in stats' <=> p \in stats /\ \A x \in S : ~HandedOver(x, p)
  /\ UNCHANGED <<next, rt, home>>

(* Where a connection's handle is.                                         *)
LEMMA RuntimeFacts ==
  ASSUME Inv, NEW r \in Runtimes
  PROVE  /\ r \in Nat \ {0} /\ r \notin Chans /\ r \in Planes /\ next \in Nat
         /\ home[r] \in Ids \cup {None}
         /\ Current(r) => home[r] \in Ids /\ rt[home[r]] = r /\ r < next
         /\ Connected(r) <=> Current(r) /\ up[home[r]]
<1>1. r \in Nat \ {0} /\ r \notin Chans /\ r \in Planes
  BY BoundsAssumption DEF Runtimes, Planes
<1>2. next \in Nat /\ home[r] \in Ids \cup {None}
  BY BoundsAssumption DEF Inv, TypeOK, StoreTypes
<1>3. Current(r) => home[r] \in Ids /\ rt[home[r]] = r
  BY <1>2 DEF Current
<1>4. Current(r) => r < next
  BY <1>1, <1>3 DEF Inv, Handles
<1> QED BY <1>1, <1>2, <1>3, <1>4 DEF Connected

(* close_session of the handle of r, connected or not.                     *)
LEMMA CloseCloses ==
  ASSUME Inv, NEW r \in Runtimes, Current(r), CloseSession(r), UNCHANGED <<next, rt, home>>
  PROVE  Closes({r})
<1>0. StoreTypes /\ CleanTypes
  BY DEF Inv, TypeOK
<1>1. home[r] \in Ids /\ rt[home[r]] = r
  BY RuntimeFacts
<1>2. /\ up' = [up EXCEPT ![home[r]] = FALSE]
      /\ kids' = [kids EXCEPT ![r] = {}]
      /\ cleanup' = [cleanup EXCEPT ![r] = cleanup[r] \cup Taken(r)]
      /\ stats' = stats \ Taken(r)
  BY DEF CloseSession
<1>3. \A p : p \in Taken(r) <=> HandedOver(r, p)
  BY DEF Taken, HandedOver, Connected
<1>4. \A x \in Runtimes : Connected(x)' <=> Connected(x) /\ x \notin {r}
  <2> SUFFICES ASSUME NEW x \in Runtimes PROVE Connected(x)' <=> Connected(x) /\ x # r
    OBVIOUS
  <2>1. home[x] \in Ids \/ home[x] = None
    BY <1>0 DEF StoreTypes
  <2>2. home[x] = None => ~Connected(x) /\ ~Connected(x)'
    BY DEF Connected, Current
  <2>3. home[x] \in Ids => up'[home[x]] = (up[home[x]] /\ home[x] # home[r])
    BY <1>0, <1>1, <1>2 DEF StoreTypes
  <2> QED BY <1>1, <2>1, <2>2, <2>3 DEF Connected, Current
<1>5. \A x \in Runtimes : kids'[x] = IF x \in {r} THEN {} ELSE kids[x]
  BY <1>0, <1>2 DEF StoreTypes
<1>6. \A x \in Runtimes : \A p :
        p \in cleanup'[x] <=> p \in cleanup[x] \/ (x \in {r} /\ HandedOver(x, p))
  BY <1>0, <1>2, <1>3 DEF CleanTypes
<1>7. \A p : p \in stats' <=> p \in stats /\ \A x \in {r} : ~HandedOver(x, p)
  BY <1>2, <1>3
<1> QED BY <1>4, <1>5, <1>6, <1>7 DEF Closes

(* Application exit: every session.                                        *)
LEMMA ExitCloses ==
  ASSUME Inv, AppExit
  PROVE  Closes({r \in Runtimes : Connected(r)})
<1> DEFINE S == {r \in Runtimes : Connected(r)}
<1>0. StoreTypes /\ CleanTypes
  BY DEF Inv, TypeOK
<1>1. /\ up' = [i \in Ids |-> FALSE]
      /\ kids' = [r \in Runtimes |-> IF r \in S THEN {} ELSE kids[r]]
      /\ cleanup' = [r \in Runtimes |-> IF r \in S THEN cleanup[r] \cup Taken(r)
                                        ELSE cleanup[r]]
      /\ stats' = stats \ UNION {Taken(r) : r \in S}
      /\ UNCHANGED <<next, rt, home>>
  BY DEF AppExit
<1>2. \A x \in S : \A p : p \in Taken(x) <=> HandedOver(x, p)
  BY DEF Taken, HandedOver, Connected
<1>3. \A x \in Runtimes : ~Connected(x)' /\ (Connected(x) <=> x \in S)
  BY <1>0, <1>1 DEF Connected, Current, StoreTypes
<1>4. \A x \in S : x \in Runtimes
  OBVIOUS
<1> HIDE DEF S
<1>5. \A x \in Runtimes : \A p :
        p \in cleanup'[x] <=> p \in cleanup[x] \/ (x \in S /\ HandedOver(x, p))
  BY <1>1, <1>2
<1>6. \A p : p \in stats' <=> p \in stats /\ \A x \in S : ~HandedOver(x, p)
  BY <1>1, <1>2
<1>7. Closes(S)
  BY <1>1, <1>3, <1>5, <1>6 DEF Closes
<1> QED BY <1>7 DEF S

(* A new connection, or an attempt that fails: no other changes.           *)
LEMMA AllocateKeeps ==
  ASSUME Inv, NEW id \in Ids, Allocate(id),
         \/ rt' = [Purged EXCEPT ![id] = next] /\ up' = [up EXCEPT ![id] = TRUE]
         \/ rt' = Purged /\ up' = up
  PROVE  /\ next \in Runtimes /\ next' = next + 1 /\ home'[next] = id
         /\ \A x \in Runtimes : x # next => home'[x] = home[x] /\ (Connected(x)' <=> Connected(x))
         /\ \A x \in Runtimes : x = next /\ Connected(x)' => rt' = [Purged EXCEPT ![id] = next]
<1>0. StoreTypes /\ Handles
  BY DEF Inv, TypeOK
<1>1. /\ next \in Runtimes /\ next' = next + 1 /\ home' = [home EXCEPT ![next] = id] /\ ~up[id]
      /\ next # 0
  <2>1. next \in Runtimes
    BY <1>0, AllocateTypes
  <2>2. next # 0
    BY <2>1, BoundsAssumption DEF Runtimes
  <2> QED BY <2>1, <2>2 DEF Allocate
<1>2. home'[next] = id /\ \A x \in Runtimes : x # next => home'[x] = home[x]
  BY <1>0, <1>1 DEF StoreTypes
<1>3. \A i \in Ids : i # id => rt'[i] = (IF up[i] THEN rt[i] ELSE 0) /\ up'[i] = up[i]
  BY <1>0 DEF Purged, StoreTypes
<1>4. (rt'[id] = next /\ up'[id]) \/ (rt'[id] = 0 /\ ~up'[id])
  BY <1>0, <1>1 DEF Purged, StoreTypes
<1>5. \A x \in Runtimes : x # 0 /\ home[x] \in Ids \cup {None}
  BY <1>0, BoundsAssumption DEF StoreTypes, Runtimes
<1>6. \A x \in Runtimes : x # next => (Connected(x)' <=> Connected(x))
  <2> SUFFICES ASSUME NEW x \in Runtimes, x # next PROVE Connected(x)' <=> Connected(x)
    OBVIOUS
  <2>1. CASE home[x] = None
    BY <1>2, <2>1 DEF Connected, Current
  <2>2. CASE home[x] = id
    BY <1>1, <1>2, <1>4, <1>5, <2>2 DEF Connected, Current
  <2>3. CASE home[x] \in Ids /\ home[x] # id
    BY <1>2, <1>3, <1>5, <2>3 DEF Connected, Current
  <2> QED BY <1>5, <2>1, <2>2, <2>3
<1>7. ASSUME NEW x \in Runtimes, x = next, Connected(x)'
      PROVE  rt' = [Purged EXCEPT ![id] = next]
  <2>1. rt' = Purged => rt'[id] = 0
    BY <1>1 DEF Purged
  <2> QED BY <1>1, <1>2, <1>7, <2>1 DEF Connected, Current
<1> QED BY <1>1, <1>2, <1>6, <1>7

(* A refused one only purges the handles of sessions that are down.        *)
LEMMA RefusedKeeps ==
  ASSUME Inv, NEW id \in Ids, CreateRefused(id)
  PROVE  \A x \in Runtimes : Connected(x)' <=> Connected(x)
<1> SUFFICES ASSUME NEW x \in Runtimes PROVE Connected(x)' <=> Connected(x)
  OBVIOUS
<1>1. rt' = Purged /\ UNCHANGED <<up, home>>
  BY DEF CreateRefused
<1>2. x # 0 /\ (home[x] \in Ids \/ home[x] = None)
  BY RuntimeFacts
<1>3. home[x] \in Ids => rt'[home[x]] = IF up[home[x]] THEN rt[home[x]] ELSE 0
  BY <1>1 DEF Purged
<1> QED BY <1>1, <1>2, <1>3 DEF Connected, Current

(* What leaves the handles alone leaves every connection as it is.         *)
LEMMA StoreKeeps ==
  ASSUME UNCHANGED <<rt, up, home>>
  PROVE  \A x \in Runtimes : Connected(x)' <=> Connected(x)
BY DEF Connected, Current
-----------------------------------------------------------------------------
(* What the steps that make no connection and open no channel do to one.   *)
RootsFrame ==
  /\ UNCHANGED <<next, home, first, parent>>
  /\ \A x \in Runtimes :
       /\ Connected(x)' => Connected(x)
       /\ x >= next => cleanup'[x] = {}
       /\ pump'[x] # "none" => pump[x] # "none"
       /\ x \in published' => conn'[x] \in {"child", "done"}
       /\ x \in ended' => x \in ended \/ x < next
       /\ conn'[x] = "none" <=> conn[x] = "none"
       /\ conn'[x] = "setup" => conn[x] = "setup"
  /\ \A c \in Chans : task'[c] = "new" <=> task[c] = "new"

(* They keep what is known of a connection.                                *)
LEMMA RootsKept ==
  ASSUME Inv, Roots, RootsFrame
  PROVE  Roots'
<1> SUFFICES ASSUME NEW r \in Runtimes PROVE Root(r)'
  BY DEF Roots
<1>0. Root(r)
  BY DEF Roots
<1>1. next \in Nat /\ r \in Nat
  BY RuntimeFacts
<1>2. r >= next => ~(r < next)
  BY <1>1
<1>3. r >= next => /\ conn'[r] = "none" /\ home[r] = None /\ pump'[r] = "none"
                   /\ cleanup'[r] = {} /\ r \notin published' \cup ended'
  BY <1>0, <1>2 DEF Root, RootsFrame
<1>4. /\ Connected(r)' => conn'[r] # "none"
      /\ pump'[r] # "none" => home[r] \in Simple
      /\ r \in published' => conn'[r] \in {"child", "done"}
  BY <1>0 DEF Root, RootsFrame
<1>5. conn'[r] # "none" /\ home[r] \in Containers =>
        first[r] \in Chans /\ parent[first[r]] = r /\ task'[first[r]] # "new"
  BY <1>0 DEF Root, RootsFrame
<1>6. conn'[r] = "setup" =>
        /\ home[r] \in Containers
        /\ \A c \in Chans : task'[c] # "new" /\ parent[c] = r => c = first[r]
  BY <1>0 DEF Root, RootsFrame
<1>7. UNCHANGED <<next, home, first, parent>>
  BY DEF RootsFrame
<1> QED BY <1>3, <1>4, <1>5, <1>6, <1>7 DEF Root

(* The closing of connections is such a step.                              *)
LEMMA ClosesFrame ==
  ASSUME Inv, Roots, NEW S, Closes(S), \A x \in S : x < next
  PROVE  /\ UNCHANGED <<next, home>>
         /\ \A x \in Runtimes : Connected(x)' => Connected(x)
         /\ \A x \in Runtimes : x >= next => cleanup'[x] = {}
<1>1. UNCHANGED <<next, home>> /\ \A x \in Runtimes : Connected(x)' => Connected(x)
  BY DEF Closes
<1>2. ASSUME NEW x \in Runtimes, x >= next PROVE cleanup'[x] = {}
  <2>1. x \notin S
    <3>1. x \in Nat /\ next \in Nat
      BY RuntimeFacts
    <3> QED BY <3>1, <1>2
  <2>2. cleanup[x] = {}
    BY <1>2 DEF Roots, Root
  <2>3. \A p : p \in cleanup'[x] <=> p \in cleanup[x]
    BY <2>1 DEF Closes
  <2> QED BY <2>2, <2>3
<1> QED BY <1>1, <1>2

(* What is known of a connection stays so.                                 *)
LEMMA RootsStep == Inv /\ Roots /\ Stages /\ Commands /\ [Next]_vars => Roots'
<1> SUFFICES ASSUME Inv, Roots, Stages, Commands, [Next]_vars PROVE Roots'
  OBVIOUS
<1> USE DEF storeVars, planeVars, cleanVars, taskVars, history
<1>0. StoreTypes /\ PlaneTypes /\ CleanTypes /\ TaskTypes /\ HistoryTypes /\ ChannelsKnown
  BY DEF Inv, TypeOK
<1>a. \A x \in Runtimes : x \in Nat \ {0} /\ x \notin Chans /\ x \in Planes
  BY RuntimeFacts
<1>b. \A c \in Chans : c \in Planes
  BY DEF Planes
<1>c. next \in Nat
  BY <1>0, BoundsAssumption DEF StoreTypes
<1>d. \A x \in Runtimes : /\ x >= next => cleanup[x] = {} /\ x \notin ended
                          /\ x \in published => conn[x] \in {"child", "done"}
  BY DEF Roots, Root
<1>e. ASSUME UNCHANGED <<next, rt, up, home, first, parent, conn, task, published>>,
             \A x \in Runtimes : /\ x >= next => cleanup'[x] = {}
                                 /\ pump'[x] # "none" => pump[x] # "none"
                                 /\ x \in ended' => x \in ended \/ x < next
      PROVE  Roots'
  BY <1>e, <1>d, StoreKeeps, RootsKept DEF RootsFrame
<1>1. ASSUME NEW id \in Simple, CreateSession(id) PROVE Roots'
  <2>0. id \in Ids /\ id \notin Containers
    BY BoundsAssumption DEF Ids
  <2>1. /\ next \in Runtimes /\ next' = next + 1 /\ home'[next] = id
        /\ \A x \in Runtimes : x # next => home'[x] = home[x] /\ (Connected(x)' <=> Connected(x))
        /\ \A x \in Runtimes : x = next /\ Connected(x)' => rt' = [Purged EXCEPT ![id] = next]
    BY <1>1, <2>0, AllocateKeeps DEF CreateSession
  <2>2. ~(rt' = [Purged EXCEPT ![id] = next] /\ rt' = Purged)
    BY <1>1, <2>0, <2>1, <1>a DEF Purged, Allocate, CreateSession
  <2>3. \A x \in Runtimes : x # next => conn'[x] = conn[x] /\ pump'[x] = pump[x]
    BY <1>1, <1>0, <1>a DEF CreateSession, TaskTypes, PlaneTypes
  <2>4. conn'[next] = "publish" \/ (rt' = Purged /\ pump' = pump /\ conn' = conn)
    BY <1>1, <2>1, <1>0 DEF CreateSession, TaskTypes
  <2>5. UNCHANGED <<cleanup, published, ended, first, parent, task>>
    BY <1>1 DEF CreateSession
  <2> SUFFICES ASSUME NEW x \in Runtimes PROVE Root(x)'
    BY DEF Roots
  <2>6. CASE x = next
    <3>1. ~(x >= next') /\ home'[x] = id
      BY <2>6, <2>1, <1>c
    <3>2. conn[x] = "none" /\ pump[x] = "none" /\ x \notin published
      BY <2>6, <1>c DEF Roots, Root
    <3>3. Connected(x)' => conn'[x] # "none"
      BY <2>6, <2>1, <2>2, <2>4
    <3>4. conn'[x] # "setup"
      BY <2>6, <2>4, <3>2
    <3> QED BY <3>1, <3>2, <3>3, <3>4, <2>0, <2>5, <1>1 DEF Root
  <2>7. CASE x # next
    <3>1. x >= next' => x >= next
      BY <2>1, <1>a, <1>c
    <3> QED BY <2>7, <3>1, <2>1, <2>3, <2>5 DEF Roots, Root
  <2> QED BY <2>6, <2>7
<1>2. ASSUME NEW id \in Containers, NEW c \in Chans, CreateContainer(id, c) PROVE Roots'
  <2>0. id \in Ids /\ id \notin Simple
    BY BoundsAssumption DEF Ids
  <2>1. /\ next \in Runtimes /\ next' = next + 1 /\ home'[next] = id
        /\ \A x \in Runtimes : x # next => home'[x] = home[x] /\ (Connected(x)' <=> Connected(x))
    BY <1>2, <2>0, AllocateKeeps DEF CreateContainer
  <2>2. /\ conn' = [conn EXCEPT ![next] = "setup"] /\ first' = [first EXCEPT ![next] = c]
        /\ task' = [task EXCEPT ![c] = "opened"] /\ parent' = [parent EXCEPT ![c] = next]
        /\ task[c] = "new" /\ UNCHANGED <<cleanup, published, ended, pump>>
    BY <1>2 DEF CreateContainer
  <2>3. \A x \in Runtimes : x # next => conn'[x] = conn[x] /\ first'[x] = first[x]
    BY <2>2, <1>0 DEF TaskTypes
  <2>4. conn'[next] = "setup" /\ first'[next] = c /\ task'[c] = "opened" /\ parent'[c] = next
    BY <2>1, <2>2, <1>0 DEF TaskTypes
  <2>5. \A d \in Chans : d # c => task'[d] = task[d] /\ parent'[d] = parent[d]
    BY <2>2, <1>0 DEF TaskTypes
  <2> SUFFICES ASSUME NEW x \in Runtimes PROVE Root(x)'
    BY DEF Roots
  <2>6. CASE x = next
    <3>1. ~(x >= next') /\ home'[x] = id
      BY <2>6, <2>1, <1>c
    <3>2. pump[x] = "none" /\ x \notin published
      BY <2>6, <1>c DEF Roots, Root
    <3>3. ASSUME NEW d \in Chans, task'[d] # "new", parent'[d] = x PROVE d = c
      <4>1. task[d] # "new" => parent[d] # next
        BY <1>c DEF Stages, Stage
      <4> QED BY <3>3, <4>1, <2>5, <2>6
    <3> QED BY <2>6, <3>1, <3>2, <3>3, <2>2, <2>4, <1>2 DEF Root
  <2>7. CASE x # next
    <3>1. x >= next' => x >= next
      BY <2>1, <1>a, <1>c
    <3>2. Root(x)
      BY DEF Roots
    <3>3. conn[x] # "none" /\ home[x] \in Containers => first[x] # c
      BY <3>2, <2>2 DEF Root
    <3>4. ASSUME conn[x] = "setup", NEW d \in Chans, task'[d] # "new", parent'[d] = x
          PROVE  d = first[x]
      BY <3>2, <3>4, <2>4, <2>5, <2>7 DEF Root
    <3>5. conn'[x] # "none" /\ home'[x] \in Containers =>
            first'[x] \in Chans /\ parent'[first'[x]] = x /\ task'[first'[x]] # "new"
      BY <2>7, <3>2, <3>3, <2>1, <2>3, <2>5 DEF Root
    <3> QED BY <2>7, <3>1, <3>2, <3>4, <3>5, <2>1, <2>2, <2>3 DEF Root
  <2> QED BY <2>6, <2>7
<1>3. ASSUME NEW id \in Ids, CreateRefused(id) PROVE Roots'
  <2>1. \A x \in Runtimes : Connected(x)' <=> Connected(x)
    BY <1>3, RefusedKeeps
  <2> QED BY <1>3, <2>1, <1>d, RootsKept DEF CreateRefused, RootsFrame
<1>4. ASSUME NEW r \in Runtimes, ConnectSetup(r) PROVE Roots'
  <2>1. CASE Current(r) /\ CloseSession(r)
    <3>1. Closes({r}) /\ r < next
      BY <1>4, <2>1, CloseCloses, RuntimeFacts DEF ConnectSetup
    <3>2. /\ \A x \in Runtimes : Connected(x)' => Connected(x)
          /\ \A x \in Runtimes : x >= next => cleanup'[x] = {}
      BY <3>1, ClosesFrame
    <3>3. conn' = [conn EXCEPT ![r] = "publish"] \/ conn' = [conn EXCEPT ![r] = "done"]
      BY <1>4 DEF ConnectSetup
    <3>4. \A x \in Runtimes : /\ conn'[x] = "none" <=> conn[x] = "none"
                              /\ conn'[x] = "setup" => conn[x] = "setup"
                              /\ x \in published => conn'[x] \in {"child", "done"}
      BY <1>4, <3>3, <1>0, <1>d DEF ConnectSetup, TaskTypes
    <3> QED BY <1>4, <3>2, <3>4, RootsKept DEF ConnectSetup, RootsFrame
  <2>2. CASE UNCHANGED <<up, cleanup>>
    <3>3. conn' = [conn EXCEPT ![r] = "publish"] \/ conn' = [conn EXCEPT ![r] = "done"]
      BY <1>4 DEF ConnectSetup
    <3>4. \A x \in Runtimes : /\ conn'[x] = "none" <=> conn[x] = "none"
                              /\ conn'[x] = "setup" => conn[x] = "setup"
                              /\ x \in published => conn'[x] \in {"child", "done"}
      BY <1>4, <3>3, <1>0, <1>d DEF ConnectSetup, TaskTypes
    <3> QED BY <1>4, <2>2, <3>4, <1>d, StoreKeeps, RootsKept DEF ConnectSetup, RootsFrame
  <2> QED BY <1>4, <2>1, <2>2 DEF ConnectSetup, CloseIfCurrent
<1>5. ASSUME NEW r \in Runtimes, ConnectPublish(r) PROVE Roots'
  <2>1. /\ conn[r] = "publish" /\ published' \subseteq published \cup {r}
        /\ conn' = [conn EXCEPT ![r] = "child"] \/ conn' = [conn EXCEPT ![r] = "done"]
    BY <1>5 DEF ConnectPublish
  <2>2. \A x \in Runtimes : /\ conn'[x] = "none" <=> conn[x] = "none"
                            /\ conn'[x] = "setup" => conn[x] = "setup"
                            /\ x \in published' => conn'[x] \in {"child", "done"}
    BY <2>1, <1>0, <1>d DEF TaskTypes
  <2> QED BY <1>5, <2>2, <1>d, StoreKeeps, RootsKept DEF ConnectPublish, RootsFrame
<1>6. ASSUME NEW c \in Chans, NEW r \in Runtimes, OpenChannel(c, r) PROVE Roots'
  <2>1. /\ task[c] = "new" /\ r \in published
        /\ task' = [task EXCEPT ![c] = "opened"] /\ parent' = [parent EXCEPT ![c] = r]
        /\ UNCHANGED <<next, rt, up, home, conn, first, pump, cleanup, published, ended>>
    BY <1>6 DEF OpenChannel
  <2>2. \A d \in Chans : d # c => task'[d] = task[d] /\ parent'[d] = parent[d]
    BY <2>1, <1>0 DEF TaskTypes
  <2>3. parent'[c] = r /\ conn[r] # "setup"
    BY <2>1, <1>0, <1>d DEF TaskTypes
  <2> SUFFICES ASSUME NEW x \in Runtimes PROVE Root(x)'
    BY DEF Roots
  <2>4. Root(x) /\ (Connected(x)' <=> Connected(x))
    BY <2>1, StoreKeeps DEF Roots
  <2>5. conn[x] # "none" /\ home[x] \in Containers => first[x] # c
    BY <2>4, <2>1 DEF Root
  <2>6. conn[x] # "none" /\ home[x] \in Containers =>
          first[x] \in Chans /\ parent'[first[x]] = x /\ task'[first[x]] # "new"
    BY <2>4, <2>5, <2>2 DEF Root
  <2>7. conn[x] = "setup" =>
          /\ home[x] \in Containers
          /\ \A d \in Chans : task'[d] # "new" /\ parent'[d] = x => d = first[x]
    BY <2>4, <2>2, <2>3 DEF Root
  <2> QED BY <2>1, <2>4, <2>6, <2>7 DEF Root
<1>7. ASSUME NEW c \in Chans, ChannelAttach(c) PROVE Roots'
  <2>1. /\ task[c] = "opened"
        /\ task' = [task EXCEPT ![c] = "attached"] \/ task' = [task EXCEPT ![c] = "failed"]
        /\ pump' = [pump EXCEPT ![c] = "paused"] \/ pump' = pump
    BY <1>7 DEF ChannelAttach
  <2>2. \A d \in Chans : task'[d] = "new" <=> task[d] = "new"
    BY <2>1, <1>0 DEF TaskTypes
  <2>3. \A x \in Runtimes : pump'[x] = pump[x]
    BY <2>1, <1>0, <1>a DEF PlaneTypes
  <2> QED BY <1>7, <2>2, <2>3, <1>d, StoreKeeps, RootsKept DEF ChannelAttach, RootsFrame
<1>8. ASSUME NEW c \in Chans, ChannelRegister(c) PROVE Roots'
  <2>1. /\ task[c] = "attached"
        /\ task' = [task EXCEPT ![c] = "registered"] \/ task' = [task EXCEPT ![c] = "failed"]
        /\ pump' = pump
    BY <1>8 DEF ChannelRegister
  <2>2. \A d \in Chans : task'[d] = "new" <=> task[d] = "new"
    BY <2>1, <1>0 DEF TaskTypes
  <2>3. \A x \in Runtimes : pump'[x] = pump[x]
    BY <2>1, <1>0, <1>a DEF PlaneTypes
  <2> QED BY <1>8, <2>2, <2>3, <1>d, StoreKeeps, RootsKept DEF ChannelRegister, RootsFrame
<1>9. ASSUME NEW c \in Chans, ChannelPublish(c) PROVE Roots'
  <2>1. /\ task[c] = "registered" /\ task' = [task EXCEPT ![c] = "done"]
        /\ \/ conn' = conn
           \/ conn[parent[c]] = "child" /\ conn' = [conn EXCEPT ![parent[c]] = "done"]
        /\ published' \subseteq published \cup {c}
    BY <1>9 DEF ChannelPublish
  <2>2. \A d \in Chans : task'[d] = "new" <=> task[d] = "new"
    BY <2>1, <1>0 DEF TaskTypes
  <2>3. parent[c] \in Runtimes
    BY <2>1, <1>0 DEF ChannelsKnown
  <2>4. \A x \in Runtimes : /\ conn'[x] = "none" <=> conn[x] = "none"
                            /\ conn'[x] = "setup" => conn[x] = "setup"
                            /\ x \in published' => conn'[x] \in {"child", "done"}
    BY <2>1, <2>3, <1>0, <1>a, <1>d DEF TaskTypes
  <2> QED BY <1>9, <2>2, <2>4, <1>d, StoreKeeps, RootsKept DEF ChannelPublish, RootsFrame
<1>10. ASSUME NEW p \in Planes, ActorDies(p) PROVE Roots'
  BY <1>10, <1>0, <1>a, <1>b, <1>d, <1>e DEF ActorDies, PlaneTypes
<1>11. ASSUME NEW p \in Planes, ActorStops(p) PROVE Roots'
  BY <1>11, <1>0, <1>a, <1>b, <1>d, <1>e DEF ActorStops, PlaneTypes
<1>12. ASSUME NEW p \in Planes, PumpStart(p) PROVE Roots'
  <2>1. \A x \in Runtimes : pump'[x] # "none" => pump[x] # "none"
    BY <1>12, <1>0, <1>a DEF PumpStart, PlaneTypes
  <2> QED BY <1>12, <2>1, <1>d, <1>e DEF PumpStart
<1>13. ASSUME NEW p \in Planes, PumpEnd(p) PROVE Roots'
  <2>1. \A x \in Runtimes : pump'[x] # "none" => pump[x] # "none"
    BY <1>13, <1>0, <1>a DEF PumpEnd, PlaneTypes
  <2> QED BY <1>13, <2>1, <1>d, <1>e DEF PumpEnd
<1>14. ASSUME NEW r \in Runtimes, RootLost(r) PROVE Roots'
  <2>1. \A x \in Runtimes : pump'[x] # "none" => pump[x] # "none"
    BY <1>14, <1>0, <1>a DEF RootLost, PlaneTypes
  <2>2. CASE Connected(r) /\ CloseSession(r) /\ ended' = ended \cup {r}
    <3>1. Closes({r}) /\ r < next
      BY <1>14, <2>2, CloseCloses, RuntimeFacts DEF RootLost, Connected
    <3>2. /\ \A x \in Runtimes : Connected(x)' => Connected(x)
          /\ \A x \in Runtimes : x >= next => cleanup'[x] = {}
      BY <3>1, ClosesFrame
    <3> QED BY <1>14, <2>1, <2>2, <3>1, <3>2, <1>d, RootsKept DEF RootLost, RootsFrame
  <2>3. CASE UNCHANGED <<up, cleanup, ended>>
    BY <1>14, <2>1, <2>3, <1>d, <1>e DEF RootLost
  <2> QED BY <1>14, <2>2, <2>3 DEF RootLost
<1>15. ASSUME NEW c \in Chans, ChannelLost(c) PROVE Roots'
  <2> DEFINE q == parent[c]
  <2>1. \A x \in Runtimes : pump'[x] = pump[x]
    BY <1>15, <1>0, <1>a DEF ChannelLost, PlaneTypes
  <2>2. CASE ChildConnected(c) /\ CloseSession(q) /\ ended' = ended \cup {q}
    <3>1. q \in Runtimes /\ Current(q)
      <4>1. c \in Planes /\ pump[c] = "closing"
        BY <1>15, <1>b DEF ChannelLost
      <4>2. task[c] # "new"
        BY <4>1, <1>0 DEF ChannelsKnown, Untouched
      <4> QED BY <2>2, <4>2, <1>0 DEF ChannelsKnown, ChildConnected, Connected
    <3>2. Closes({q}) /\ q < next
      BY <1>15, <2>2, <3>1, CloseCloses, RuntimeFacts DEF ChannelLost
    <3> HIDE DEF q
    <3>3. /\ \A x \in Runtimes : Connected(x)' => Connected(x)
          /\ \A x \in Runtimes : x >= next => cleanup'[x] = {}
      BY <3>2, ClosesFrame
    <3> QED BY <1>15, <2>1, <2>2, <3>2, <3>3, <1>d, RootsKept DEF ChannelLost, RootsFrame
  <2>3. CASE UNCHANGED <<up, cleanup, ended>>
    BY <1>15, <2>1, <2>3, <1>d, <1>e DEF ChannelLost
  <2> QED BY <1>15, <2>2, <2>3 DEF ChannelLost
<1>16. ASSUME NEW u \in Users, NEW r \in Runtimes, Disconnect(u, r) PROVE Roots'
  <2>1. Closes({r}) /\ r < next
    BY <1>16, CloseCloses, RuntimeFacts DEF Disconnect
  <2>2. /\ \A x \in Runtimes : Connected(x)' => Connected(x)
        /\ \A x \in Runtimes : x >= next => cleanup'[x] = {}
    BY <2>1, ClosesFrame
  <2> QED BY <1>16, <2>2, <1>d, RootsKept DEF Disconnect, RootsFrame
<1>17. ASSUME NEW u \in Users, NEW c \in Chans, CloseChannel(u, c) PROVE Roots'
  <2> DEFINE q == parent[c]
  <2>1. CASE CloseSession(q)
    <3>1. q \in Runtimes /\ Current(q)
      <4>1. c \in published /\ Current(q)
        BY <1>17 DEF CloseChannel
      <4>2. task[c] # "new"
        BY <4>1, <1>0 DEF ChannelsKnown, Untouched
      <4> QED BY <4>1, <4>2, <1>0 DEF ChannelsKnown
    <3>2. Closes({q}) /\ q < next
      BY <1>17, <2>1, <3>1, CloseCloses, RuntimeFacts DEF CloseChannel
    <3> HIDE DEF q
    <3>3. /\ \A x \in Runtimes : Connected(x)' => Connected(x)
          /\ \A x \in Runtimes : x >= next => cleanup'[x] = {}
      BY <3>2, ClosesFrame
    <3> QED BY <1>17, <3>3, <1>d, RootsKept DEF CloseChannel, RootsFrame
  <2>2. CASE UNCHANGED <<up, cleanup>>
    BY <1>17, <2>2, <1>d, <1>e DEF CloseChannel
  <2> QED BY <1>17, <2>1, <2>2 DEF CloseChannel
<1>18. ASSUME NEW u \in Users, CommandDone(u) PROVE Roots'
  <2>1. \A x \in Runtimes : x \in ended' => x \in ended \/ x < next
    BY <1>18 DEF CommandDone, Commands
  <2> QED BY <1>18, <2>1, <1>d, <1>e DEF CommandDone
<1>19. ASSUME AppExit PROVE Roots'
  <2> DEFINE S == {x \in Runtimes : Connected(x)}
  <2>1. Closes(S)
    BY <1>19, ExitCloses
  <2>2. \A x \in S : x < next
    BY RuntimeFacts DEF Connected
  <2> HIDE DEF S
  <2>3. /\ \A x \in Runtimes : Connected(x)' => Connected(x)
        /\ \A x \in Runtimes : x >= next => cleanup'[x] = {}
    BY <2>1, <2>2, ClosesFrame
  <2> QED BY <1>19, <2>3, <1>d, RootsKept DEF AppExit, RootsFrame
<1>20. ASSUME NEW p \in Planes, CleanupRequest(p) PROVE Roots'
  BY <1>20, <1>0, <1>a, <1>b, <1>d, <1>e DEF CleanupRequest, PlaneTypes
<1>21. ASSUME NEW p \in Planes, CleanupJoin(p) PROVE Roots'
  <2>1. \A x \in Runtimes : x >= next => cleanup'[x] = {}
    BY <1>21, <1>d DEF CleanupJoin
  <2> QED BY <1>21, <2>1, <1>d, <1>e DEF CleanupJoin
<1>22. ASSUME NEW r \in Runtimes, CleanupDetach(r) PROVE Roots'
  BY <1>22, <1>0, <1>a, <1>b, <1>d, <1>e DEF CleanupDetach, PlaneTypes
<1>23. ASSUME UNCHANGED vars PROVE Roots'
  BY <1>23, <1>d, <1>e DEF vars
<1> QED
  BY <1>1, <1>2, <1>3, <1>4, <1>5, <1>6, <1>7, <1>8, <1>9, <1>10, <1>11, <1>12, <1>13,
     <1>14, <1>15, <1>16, <1>17, <1>18, <1>19, <1>20, <1>21, <1>22, <1>23
     DEF Next, ConnectStep, ChannelStep, PlaneStep, UserStep
-----------------------------------------------------------------------------
(* What a step does to a channel it does not move on.                      *)
StageFrame ==
  /\ next' \in Nat /\ next' >= next
  /\ \A x \in Runtimes : x < next => home'[x] = home[x]
  /\ shutReq \subseteq shutReq'

StageKept(c) ==
  /\ task'[c] = task[c] /\ parent'[c] = parent[c]
  /\ c \in published' => c \in published
  /\ task[c] \in {"opened", "attached"} =>
       pump'[c] = pump[c] /\ (c \in activated' \cup shutReq' => c \in activated \cup shutReq)
  /\ task[c] = "failed" =>
       pump'[c] = pump[c] \/ (c \in shutReq /\ pump[c] = "paused" /\ pump'[c] = "done")

(* Such a channel keeps its stage.                                         *)
LEMMA StageStays ==
  ASSUME Inv, Stages, StageFrame, NEW c \in Chans, StageKept(c)
  PROVE  Stage(c)'
<1>0. Stage(c)
  BY DEF Stages
<1>1. task'[c] # "new" => parent'[c] < next' /\ home'[parent'[c]] \in Containers
  <2> SUFFICES ASSUME task[c] # "new" PROVE parent[c] < next' /\ home'[parent[c]] \in Containers
    BY DEF StageKept
  <2>1. parent[c] \in Runtimes /\ parent[c] < next /\ home[parent[c]] \in Containers
    BY <1>0 DEF Inv, ChannelsKnown, Stage
  <2>2. parent[c] \in Nat /\ next \in Nat
    BY <2>1, RuntimeFacts
  <2> QED BY <2>1, <2>2 DEF StageFrame
<1>2. /\ c \in published' => task'[c] = "done"
      /\ task'[c] = "opened" => pump'[c] = "none" /\ c \notin activated' \cup shutReq'
      /\ task'[c] = "attached" => pump'[c] = "paused" /\ c \notin activated' \cup shutReq'
      /\ task'[c] = "failed" =>
           pump'[c] = "none" \/ (c \in shutReq' /\ pump'[c] \in {"paused", "done"})
  BY <1>0 DEF Stage, StageKept, StageFrame
<1> QED BY <1>1, <1>2 DEF Stage

(* Every channel goes through its stages.                                  *)
LEMMA StagesStep == Inv /\ Roots /\ Stages /\ Hands /\ [Next]_vars => Stages'
<1> SUFFICES ASSUME Inv, Roots, Stages, Hands, [Next]_vars PROVE Stages'
  OBVIOUS
<1> USE DEF storeVars, planeVars, cleanVars, taskVars, history
<1>0. StoreTypes /\ PlaneTypes /\ CleanTypes /\ TaskTypes /\ HistoryTypes /\ ChannelsKnown
  BY DEF Inv, TypeOK
<1>a. \A x \in Runtimes : x \in Nat \ {0} /\ x \notin Chans /\ x \in Planes
  BY RuntimeFacts
<1>b. \A c \in Chans : c \in Planes
  BY DEF Planes
<1>c. next \in Nat
  BY <1>0, BoundsAssumption DEF StoreTypes
<1>d. ASSUME UNCHANGED <<next, home>>, shutReq \subseteq shutReq' PROVE StageFrame
  BY <1>c, <1>d DEF StageFrame
<1>e. ASSUME UNCHANGED <<next, home, shutReq, task, parent, published, pump, activated>>
      PROVE  Stages'
  BY <1>e, <1>d, StageStays DEF StageKept, Stages
<1>f. ASSUME NEW c \in Chans, NEW d \in Chans, d # c,
             UNCHANGED <<shutReq, published, pump, activated>>,
             task'[d] = task[d], parent'[d] = parent[d]
      PROVE  StageKept(d)
  BY <1>f DEF StageKept
<1>1. ASSUME NEW id \in Simple, CreateSession(id) PROVE Stages'
  <2>0. id \in Ids
    BY DEF Ids
  <2>1. /\ next \in Runtimes /\ next' = next + 1
        /\ \A x \in Runtimes : x # next => home'[x] = home[x]
    BY <1>1, <2>0, AllocateKeeps DEF CreateSession
  <2>2. StageFrame
    BY <1>1, <2>1, <1>a, <1>c DEF StageFrame, CreateSession
  <2>3. \A d \in Chans : pump'[d] = pump[d]
    BY <1>1, <2>1, <1>0, <1>a, <1>b DEF CreateSession, PlaneTypes
  <2> QED BY <1>1, <2>2, <2>3, StageStays DEF CreateSession, StageKept, Stages
<1>2. ASSUME NEW id \in Containers, NEW c \in Chans, CreateContainer(id, c) PROVE Stages'
  <2>0. id \in Ids
    BY DEF Ids
  <2>1. /\ next \in Runtimes /\ next' = next + 1 /\ home'[next] = id
        /\ \A x \in Runtimes : x # next => home'[x] = home[x]
    BY <1>2, <2>0, AllocateKeeps DEF CreateContainer
  <2>2. StageFrame
    BY <1>2, <2>1, <1>a, <1>c DEF StageFrame, CreateContainer
  <2>3. /\ task[c] = "new" /\ task'[c] = "opened" /\ parent'[c] = next
        /\ \A d \in Chans : d # c => task'[d] = task[d] /\ parent'[d] = parent[d]
        /\ UNCHANGED <<shutReq, published, pump, activated>>
    BY <1>2, <1>0 DEF CreateContainer, TaskTypes
  <2>4. Stage(c)'
    <3>1. c \notin published /\ pump[c] = "none" /\ c \notin activated \cup shutReq
      BY <2>3, <1>0 DEF ChannelsKnown, Untouched
    <3>2. parent'[c] < next' /\ home'[parent'[c]] \in Containers
      BY <2>1, <2>3, <1>c
    <3> QED BY <2>3, <3>1, <3>2 DEF Stage
  <2> QED BY <2>2, <2>3, <2>4, <1>f, StageStays DEF Stages
<1>3. ASSUME NEW id \in Ids, CreateRefused(id) PROVE Stages'
  BY <1>3, <1>e DEF CreateRefused
<1>4. ASSUME NEW r \in Runtimes, ConnectSetup(r) PROVE Stages'
  BY <1>4, <1>e DEF ConnectSetup
<1>5. ASSUME NEW r \in Runtimes, ConnectPublish(r) PROVE Stages'
  <2>1. StageFrame
    BY <1>5, <1>d DEF ConnectPublish
  <2>2. /\ UNCHANGED <<task, parent, pump, shutReq>>
        /\ \A d \in Chans : /\ d \in published' => d \in published
                            /\ d \in activated' => d \in activated \cup published
    BY <1>5, <1>a DEF ConnectPublish
  <2>3. \A d \in Chans : d \in published => task[d] = "done"
    BY DEF Stages, Stage
  <2> QED BY <2>1, <2>2, <2>3, StageStays DEF Stages, StageKept
<1>6. ASSUME NEW c \in Chans, NEW r \in Runtimes, OpenChannel(c, r) PROVE Stages'
  <2>1. StageFrame
    BY <1>6, <1>d DEF OpenChannel
  <2>2. /\ task[c] = "new" /\ task'[c] = "opened" /\ parent'[c] = r
        /\ \A d \in Chans : d # c => task'[d] = task[d] /\ parent'[d] = parent[d]
        /\ UNCHANGED <<shutReq, published, pump, activated, next, home>>
    BY <1>6, <1>0 DEF OpenChannel, TaskTypes
  <2>3. Stage(c)'
    <3>1. c \notin published /\ pump[c] = "none" /\ c \notin activated \cup shutReq
      BY <2>2, <1>0 DEF ChannelsKnown, Untouched
    <3>2. r < next /\ home[r] \in Containers
      <4>1. r \in published /\ home[r] \in Containers
        BY <1>6 DEF OpenChannel
      <4>2. ~(r >= next)
        BY <4>1 DEF Roots, Root
      <4> QED BY <4>1, <4>2, <1>a, <1>c
    <3> QED BY <2>2, <3>1, <3>2 DEF Stage
  <2> QED BY <2>1, <2>2, <2>3, <1>f, StageStays DEF Stages
<1>7. ASSUME NEW c \in Chans, ChannelAttach(c) PROVE Stages'
  <2>1. StageFrame
    BY <1>7, <1>d DEF ChannelAttach
  <2>2. /\ task[c] = "opened" /\ Stage(c)
        /\ UNCHANGED <<shutReq, published, activated, next, home, parent>>
        /\ \/ task'[c] = "attached" /\ pump'[c] = "paused"
           \/ task'[c] = "failed" /\ pump'[c] = pump[c]
    BY <1>7, <1>0, <1>b DEF ChannelAttach, TaskTypes, PlaneTypes, Stages
  <2>3. \A d \in Chans : d # c => task'[d] = task[d] /\ pump'[d] = pump[d]
    BY <1>7, <1>0, <1>b DEF ChannelAttach, TaskTypes, PlaneTypes
  <2>4. Stage(c)'
    BY <2>2 DEF Stage
  <2> QED BY <2>1, <2>2, <2>3, <2>4, StageStays DEF Stages, StageKept
<1>8. ASSUME NEW c \in Chans, ChannelRegister(c) PROVE Stages'
  <2>1. StageFrame
    BY <1>8, <1>d DEF ChannelRegister
  <2>2. /\ task[c] = "attached" /\ Stage(c) /\ UNCHANGED <<published, next, home, parent, pump>>
        /\ \/ task'[c] = "registered"
           \/ task'[c] = "failed" /\ c \in shutReq'
    BY <1>8, <1>0 DEF ChannelRegister, TaskTypes, Stages
  <2>3. \A d \in Chans : d # c => /\ task'[d] = task[d]
                                  /\ d \in activated' \cup shutReq' => d \in activated \cup shutReq
    BY <1>8, <1>0 DEF ChannelRegister, TaskTypes
  <2>4. Stage(c)'
    BY <2>2 DEF Stage
  <2> QED BY <2>1, <2>2, <2>3, <2>4, StageStays DEF Stages, StageKept
<1>9. ASSUME NEW c \in Chans, ChannelPublish(c) PROVE Stages'
  <2>1. StageFrame
    BY <1>9, <1>d DEF ChannelPublish
  <2>2. /\ task[c] = "registered" /\ Stage(c) /\ UNCHANGED <<next, home, parent, pump, shutReq>>
        /\ task'[c] = "done"
    BY <1>9, <1>0 DEF ChannelPublish, TaskTypes, Stages
  <2>3. \A d \in Chans : d # c => /\ task'[d] = task[d]
                                  /\ d \in published' => d \in published
                                  /\ d \in activated' => d \in activated
    BY <1>9, <1>0 DEF ChannelPublish, TaskTypes
  <2>4. Stage(c)'
    BY <2>2 DEF Stage
  <2> QED BY <2>1, <2>2, <2>3, <2>4, StageStays DEF Stages, StageKept
<1>10. ASSUME NEW p \in Planes, ActorDies(p) PROVE Stages'
  BY <1>10, <1>e DEF ActorDies
<1>11. ASSUME NEW p \in Planes, ActorStops(p) PROVE Stages'
  BY <1>11, <1>e DEF ActorStops
<1>12. ASSUME NEW p \in Planes, PumpStart(p) PROVE Stages'
  <2>1. StageFrame
    BY <1>12, <1>d DEF PumpStart
  <2>2. /\ UNCHANGED <<task, parent, shutReq, published, activated>>
        /\ pump[p] = "paused" /\ p \in activated
        /\ p \in shutReq => pump'[p] = "done"
        /\ \A d \in Chans : d # p => pump'[d] = pump[d]
    BY <1>12, <1>0, <1>b DEF PumpStart, PlaneTypes
  <2>3. \A d \in Chans : StageKept(d)
    BY <2>2 DEF Stages, Stage, StageKept
  <2> QED BY <2>1, <2>3, StageStays DEF Stages
<1>13. ASSUME NEW p \in Planes, PumpEnd(p) PROVE Stages'
  <2>1. StageFrame
    BY <1>13, <1>d DEF PumpEnd
  <2>2. /\ UNCHANGED <<task, parent, shutReq, published, activated>>
        /\ pump[p] = "active"
        /\ \A d \in Chans : d # p => pump'[d] = pump[d]
    BY <1>13, <1>0, <1>b DEF PumpEnd, PlaneTypes
  <2>3. \A d \in Chans : StageKept(d)
    BY <2>2 DEF Stages, Stage, StageKept
  <2> QED BY <2>1, <2>3, StageStays DEF Stages
<1>14. ASSUME NEW r \in Runtimes, RootLost(r) PROVE Stages'
  <2>1. StageFrame
    BY <1>14, <1>d DEF RootLost
  <2>2. /\ UNCHANGED <<task, parent, shutReq, published, activated>>
        /\ \A d \in Chans : pump'[d] = pump[d]
    BY <1>14, <1>0, <1>a, <1>b DEF RootLost, PlaneTypes
  <2>3. \A d \in Chans : StageKept(d)
    BY <2>2 DEF StageKept
  <2> QED BY <2>1, <2>3, StageStays DEF Stages
<1>15. ASSUME NEW c \in Chans, ChannelLost(c) PROVE Stages'
  <2>1. StageFrame
    BY <1>15, <1>d DEF ChannelLost
  <2>2. /\ UNCHANGED <<task, parent, shutReq, published, activated>>
        /\ pump[c] = "closing"
        /\ \A d \in Chans : d # c => pump'[d] = pump[d]
    BY <1>15, <1>0, <1>b DEF ChannelLost, PlaneTypes
  <2>3. \A d \in Chans : StageKept(d)
    BY <2>2 DEF Stages, Stage, StageKept
  <2> QED BY <2>1, <2>3, StageStays DEF Stages
<1>16. ASSUME NEW u \in Users, NEW r \in Runtimes, Disconnect(u, r) PROVE Stages'
  BY <1>16, <1>e DEF Disconnect
<1>17. ASSUME NEW u \in Users, NEW c \in Chans, CloseChannel(u, c) PROVE Stages'
  BY <1>17, <1>e DEF CloseChannel
<1>18. ASSUME NEW u \in Users, CommandDone(u) PROVE Stages'
  BY <1>18, <1>e DEF CommandDone
<1>19. ASSUME AppExit PROVE Stages'
  BY <1>19, <1>e DEF AppExit
<1>20. ASSUME NEW p \in Planes, CleanupRequest(p) PROVE Stages'
  <2>1. StageFrame
    BY <1>20, <1>d DEF CleanupRequest
  <2>2. /\ UNCHANGED <<task, parent, pump, published>>
        /\ \A d \in Chans : d # p => (d \in activated' \cup shutReq' => d \in activated \cup shutReq)
        /\ p \in Joining
    BY <1>20 DEF CleanupRequest
  <2>3. p \in Chans => Registered(p)
    BY <2>2 DEF Hands, Joining
  <2>4. \A d \in Chans : StageKept(d)
    BY <2>2, <2>3 DEF Registered, StageKept
  <2> QED BY <2>1, <2>4, StageStays DEF Stages
<1>21. ASSUME NEW p \in Planes, CleanupJoin(p) PROVE Stages'
  BY <1>21, <1>e DEF CleanupJoin
<1>22. ASSUME NEW r \in Runtimes, CleanupDetach(r) PROVE Stages'
  BY <1>22, <1>e DEF CleanupDetach
<1>23. ASSUME UNCHANGED vars PROVE Stages'
  BY <1>23, <1>e DEF vars
<1> QED
  BY <1>1, <1>2, <1>3, <1>4, <1>5, <1>6, <1>7, <1>8, <1>9, <1>10, <1>11, <1>12, <1>13,
     <1>14, <1>15, <1>16, <1>17, <1>18, <1>19, <1>20, <1>21, <1>22, <1>23
     DEF Next, ConnectStep, ChannelStep, PlaneStep, UserStep
-----------------------------------------------------------------------------
(* What the steps that open, close and join nothing do to the planes.      *)
HandsFrame ==
  /\ UNCHANGED loose
  /\ \A x \in Runtimes :
       /\ kids'[x] = kids[x] /\ cleanup'[x] = cleanup[x] /\ (Connected(x)' <=> Connected(x))
       /\ pump'[x] # "none" => pump[x] # "none"
  /\ \A c \in Chans : /\ Registered(c)' <=> Registered(c)
                      /\ Registered(c) => parent'[c] = parent[c]
  /\ shutReq \subseteq shutReq'

(* Every plane stays in the hands it is in.                                *)
LEMMA HandsKept ==
  ASSUME Inv, Hands, HandsFrame
  PROVE  Hands'
<1>0. \A c \in Chans : Registered(c) => parent[c] \in Runtimes
  BY DEF Inv, ChannelsKnown, Registered
<1>1. \A r \in Runtimes : \A c \in kids'[r] :
        Connected(r)' /\ Registered(c)' /\ c \notin cleanup'[r] /\ c \notin loose'
  <2>1. \A r \in Runtimes : kids[r] \subseteq Chans
    BY DEF Inv, TypeOK, StoreTypes
  <2> QED BY <2>1 DEF Hands, HandsFrame
<1>2. \A r \in Runtimes : \A c \in Chans :
        c \in cleanup'[r] => Registered(c)' /\ parent'[c] = r /\ c \notin loose'
  BY DEF Hands, HandsFrame
<1>3. \A c \in loose' : Registered(c)'
  <2>1. loose \subseteq Chans
    BY DEF Inv, TypeOK, CleanTypes
  <2> QED BY <2>1 DEF Hands, HandsFrame
<1>4. ASSUME NEW c \in Chans, Registered(c)', c \notin shutReq'
      PROVE  c \in kids'[parent'[c]] \/ c \in cleanup'[parent'[c]] \/ c \in loose'
  <2>1. Registered(c) /\ parent'[c] = parent[c] /\ parent[c] \in Runtimes /\ c \notin shutReq
    BY <1>4, <1>0 DEF HandsFrame
  <2> QED BY <2>1 DEF Hands, HandsFrame
<1>5. \A r, q \in Runtimes : q \in cleanup'[r] => q = r /\ ~Connected(r)'
  BY DEF Hands, HandsFrame
<1>6. \A r \in Runtimes : pump'[r] # "none" /\ r \notin shutReq' => Connected(r)' \/ r \in cleanup'[r]
  BY DEF Hands, HandsFrame
<1> QED BY <1>1, <1>2, <1>3, <1>4, <1>5, <1>6 DEF Hands

(* A connection that closes hands its planes to its cleanup.               *)
LEMMA HandsClosed ==
  ASSUME Inv, Roots, Hands, NEW S, Closes(S), UNCHANGED <<loose, task, parent, shutReq>>,
         \A x \in Runtimes : pump'[x] # "none" => pump[x] # "none"
  PROVE  Hands'
<1>0. /\ \A c \in Chans : Registered(c)' <=> Registered(c)
      /\ \A c \in Chans : Registered(c) => parent[c] \in Runtimes
      /\ \A x \in Runtimes : x \notin Chans
      /\ \A x \in Runtimes : kids[x] \subseteq Chans /\ \A c \in kids[x] : parent[c] = x
      /\ loose \subseteq Chans
  BY RuntimesAreNoChannels
     DEF Inv, ChannelsKnown, Registered, TypeOK, StoreTypes, CleanTypes
<1>1. \A r \in Runtimes : \A c \in kids'[r] :
        Connected(r)' /\ Registered(c)' /\ c \notin cleanup'[r] /\ c \notin loose'
  <2> SUFFICES ASSUME NEW r \in Runtimes, NEW c \in kids'[r]
               PROVE  Connected(r)' /\ Registered(c)' /\ c \notin cleanup'[r] /\ c \notin loose'
    OBVIOUS
  <2>1. r \notin S /\ c \in kids[r] /\ c \in Chans
    BY <1>0 DEF Closes
  <2>2. Connected(r) /\ Registered(c) /\ c \notin cleanup[r] /\ c \notin loose
    BY <2>1 DEF Hands
  <2> QED BY <2>1, <2>2, <1>0 DEF Closes
<1>2. \A r \in Runtimes : \A c \in Chans :
        c \in cleanup'[r] => Registered(c)' /\ parent'[c] = r /\ c \notin loose'
  <2> SUFFICES ASSUME NEW r \in Runtimes, NEW c \in Chans, c \in cleanup'[r]
               PROVE  Registered(c) /\ parent[c] = r /\ c \notin loose
    BY <1>0
  <2>1. c \in cleanup[r] \/ c \in kids[r]
    BY <1>0 DEF Closes, HandedOver
  <2> QED BY <2>1, <1>0 DEF Hands
<1>3. \A c \in loose' : Registered(c)'
  BY <1>0 DEF Hands
<1>4. ASSUME NEW c \in Chans, Registered(c)', c \notin shutReq'
      PROVE  c \in kids'[parent'[c]] \/ c \in cleanup'[parent'[c]] \/ c \in loose'
  <2>1. Registered(c) /\ parent[c] \in Runtimes /\ c \notin shutReq
    BY <1>4, <1>0
  <2>2. c \in kids[parent[c]] \/ c \in cleanup[parent[c]] \/ c \in loose
    BY <2>1 DEF Hands
  <2> QED BY <2>1, <2>2 DEF Closes, HandedOver
<1>5. \A r, q \in Runtimes : q \in cleanup'[r] => q = r /\ ~Connected(r)'
  <2> SUFFICES ASSUME NEW r \in Runtimes, NEW q \in Runtimes, q \in cleanup'[r]
               PROVE  q = r /\ ~Connected(r)'
    OBVIOUS
  <2>1. q \in cleanup[r] \/ (r \in S /\ q = r)
    BY <1>0 DEF Closes, HandedOver
  <2> QED BY <2>1 DEF Hands, Closes
<1>6. ASSUME NEW r \in Runtimes, pump'[r] # "none", r \notin shutReq'
      PROVE  Connected(r)' \/ r \in cleanup'[r]
  <2>1. pump[r] # "none" /\ r \notin shutReq
    BY <1>6
  <2>2. home[r] \in Simple
    BY <2>1 DEF Roots, Root
  <2>3. Connected(r) \/ r \in cleanup[r]
    BY <2>1 DEF Hands
  <2> QED BY <2>2, <2>3 DEF Closes, HandedOver
<1> QED BY <1>1, <1>2, <1>3, <1>4, <1>5, <1>6 DEF Hands

(* The parent of a channel that closes it is a connection with a handle.   *)
LEMMA ParentCloses ==
  ASSUME Inv, NEW c \in Chans, task[c] # "new", Current(parent[c]), CloseSession(parent[c]),
         UNCHANGED <<next, rt, home>>
  PROVE  parent[c] \in Runtimes /\ parent[c] < next /\ Closes({parent[c]})
<1>1. parent[c] \in Runtimes
  BY DEF Inv, ChannelsKnown
<1> QED BY <1>1, CloseCloses, RuntimeFacts

(* Every plane stays in one hand.                                          *)
LEMMA HandsStep == Inv /\ Roots /\ Stages /\ Hands /\ [Next]_vars => Hands'
<1> SUFFICES ASSUME Inv, Roots, Stages, Hands, [Next]_vars PROVE Hands'
  OBVIOUS
<1> USE DEF storeVars, planeVars, cleanVars, taskVars, history
<1>0. StoreTypes /\ PlaneTypes /\ CleanTypes /\ TaskTypes /\ HistoryTypes /\ ChannelsKnown
  BY DEF Inv, TypeOK
<1>a. \A x \in Runtimes : x \in Nat \ {0} /\ x \notin Chans /\ x \in Planes
  BY RuntimeFacts
<1>b. \A c \in Chans : c \in Planes
  BY DEF Planes
<1>c. next \in Nat
  BY <1>0, BoundsAssumption DEF StoreTypes
<1>e. ASSUME UNCHANGED <<rt, up, home, kids, cleanup, loose, parent, task>>,
             shutReq \subseteq shutReq',
             \A x \in Runtimes : pump'[x] # "none" => pump[x] # "none"
      PROVE  Hands'
  BY <1>e, StoreKeeps, HandsKept DEF HandsFrame, Registered
<1>1. ASSUME NEW id \in Simple, CreateSession(id) PROVE Hands'
  <2>0. id \in Ids
    BY DEF Ids
  <2>1. /\ next \in Runtimes /\ next' = next + 1 /\ home'[next] = id
        /\ \A x \in Runtimes : x # next => home'[x] = home[x] /\ (Connected(x)' <=> Connected(x))
    BY <1>1, <2>0, AllocateKeeps DEF CreateSession
  <2>2. UNCHANGED <<kids, cleanup, loose, task, parent, shutReq>>
    BY <1>1 DEF CreateSession
  <2>3. next >= next /\ kids[next] = {} /\ cleanup[next] = {} /\ pump[next] = "none"
    <3>1. next >= next
      BY <1>c
    <3>2. home[next] = None /\ cleanup[next] = {} /\ pump[next] = "none"
      BY <2>1, <3>1 DEF Roots, Root
    <3>3. kids[next] = {}
      BY <2>1, <3>2 DEF Hands, Connected, Current
    <3> QED BY <3>1, <3>2, <3>3
  <2>4. \A x \in Runtimes : x # next => pump'[x] = pump[x]
    BY <1>1, <1>0, <1>a DEF CreateSession, PlaneTypes
  <2>5. \A x \in Runtimes : x = next => Connected(x)' \/ pump' = pump
    BY <1>1, <1>0, <2>0, <2>1, BoundsAssumption DEF CreateSession, Connected, Current, StoreTypes,
       Purged, Ids
  <2>6. \A c \in Chans : /\ Registered(c)' <=> Registered(c)
                         /\ Registered(c) => parent[c] \in Runtimes
    BY <2>2, <1>0 DEF Registered, ChannelsKnown
  <2>7. loose \subseteq Chans /\ \A x \in Runtimes : kids[x] \subseteq Chans
    BY <1>0 DEF StoreTypes, CleanTypes
  <2>8. \A r \in Runtimes : \A c \in kids'[r] :
          Connected(r)' /\ Registered(c)' /\ c \notin cleanup'[r] /\ c \notin loose'
    BY <2>1, <2>2, <2>3, <2>6, <2>7 DEF Hands
  <2>9. \A r \in Runtimes : \A c \in Chans :
          c \in cleanup'[r] => Registered(c)' /\ parent'[c] = r /\ c \notin loose'
    BY <2>2, <2>6 DEF Hands
  <2>10. \A c \in loose' : Registered(c)'
    BY <2>2, <2>6, <2>7 DEF Hands
  <2>11. \A c \in Chans : Registered(c)' /\ c \notin shutReq' =>
           c \in kids'[parent'[c]] \/ c \in cleanup'[parent'[c]] \/ c \in loose'
    BY <2>2, <2>6 DEF Hands
  <2>12. \A r, q \in Runtimes : q \in cleanup'[r] => q = r /\ ~Connected(r)'
    BY <2>1, <2>2, <2>3 DEF Hands
  <2>13. \A r \in Runtimes :
           pump'[r] # "none" /\ r \notin shutReq' => Connected(r)' \/ r \in cleanup'[r]
    BY <2>1, <2>2, <2>3, <2>4, <2>5 DEF Hands
  <2> QED BY <2>8, <2>9, <2>10, <2>11, <2>12, <2>13 DEF Hands
<1>2. ASSUME NEW id \in Containers, NEW c \in Chans, CreateContainer(id, c) PROVE Hands'
  <2>0. id \in Ids
    BY DEF Ids
  <2>1. /\ next \in Runtimes /\ next' = next + 1 /\ home'[next] = id
        /\ \A x \in Runtimes : x # next => home'[x] = home[x] /\ (Connected(x)' <=> Connected(x))
    BY <1>2, <2>0, AllocateKeeps DEF CreateContainer
  <2>2. /\ UNCHANGED <<kids, cleanup, loose, shutReq, pump>>
        /\ task[c] = "new" /\ task'[c] = "opened"
        /\ \A d \in Chans : d # c => task'[d] = task[d] /\ parent'[d] = parent[d]
    BY <1>2, <1>0 DEF CreateContainer, TaskTypes
  <2>3. kids[next] = {} /\ cleanup[next] = {} /\ pump[next] = "none"
    <3>1. next >= next
      BY <1>c
    <3>2. home[next] = None /\ cleanup[next] = {} /\ pump[next] = "none"
      BY <2>1, <3>1 DEF Roots, Root
    <3>3. kids[next] = {}
      BY <2>1, <3>2 DEF Hands, Connected, Current
    <3> QED BY <3>1, <3>2, <3>3
  <2>6. \A d \in Chans : /\ Registered(d)' <=> Registered(d)
                         /\ Registered(d) => parent[d] \in Runtimes /\ parent'[d] = parent[d]
    BY <2>2, <1>0 DEF Registered, ChannelsKnown
  <2>7. loose \subseteq Chans /\ \A x \in Runtimes : kids[x] \subseteq Chans
    BY <1>0 DEF StoreTypes, CleanTypes
  <2>8. \A r \in Runtimes : \A d \in kids'[r] :
          Connected(r)' /\ Registered(d)' /\ d \notin cleanup'[r] /\ d \notin loose'
    BY <2>1, <2>2, <2>3, <2>6, <2>7 DEF Hands
  <2>9. \A r \in Runtimes : \A d \in Chans :
          d \in cleanup'[r] => Registered(d)' /\ parent'[d] = r /\ d \notin loose'
    BY <2>2, <2>6 DEF Hands
  <2>10. \A d \in loose' : Registered(d)'
    BY <2>2, <2>6, <2>7 DEF Hands
  <2>11. \A d \in Chans : Registered(d)' /\ d \notin shutReq' =>
           d \in kids'[parent'[d]] \/ d \in cleanup'[parent'[d]] \/ d \in loose'
    BY <2>2, <2>6 DEF Hands
  <2>12. \A r, q \in Runtimes : q \in cleanup'[r] => q = r /\ ~Connected(r)'
    BY <2>1, <2>2, <2>3 DEF Hands
  <2>13. \A r \in Runtimes :
           pump'[r] # "none" /\ r \notin shutReq' => Connected(r)' \/ r \in cleanup'[r]
    BY <2>1, <2>2, <2>3 DEF Hands
  <2> QED BY <2>8, <2>9, <2>10, <2>11, <2>12, <2>13 DEF Hands
<1>3. ASSUME NEW id \in Ids, CreateRefused(id) PROVE Hands'
  <2>1. \A x \in Runtimes : Connected(x)' <=> Connected(x)
    BY <1>3, RefusedKeeps
  <2> QED BY <1>3, <2>1, HandsKept DEF CreateRefused, HandsFrame, Registered
<1>4. ASSUME NEW r \in Runtimes, ConnectSetup(r) PROVE Hands'
  <2>1. CASE Current(r) /\ CloseSession(r)
    <3>1. Closes({r})
      BY <1>4, <2>1, CloseCloses DEF ConnectSetup
    <3> QED BY <1>4, <3>1, HandsClosed DEF ConnectSetup
  <2>2. CASE UNCHANGED <<up, kids, cleanup>>
    BY <1>4, <2>2, <1>e DEF ConnectSetup
  <2> QED BY <1>4, <2>1, <2>2 DEF ConnectSetup, CloseIfCurrent
<1>5. ASSUME NEW r \in Runtimes, ConnectPublish(r) PROVE Hands'
  BY <1>5, <1>e DEF ConnectPublish
<1>6. ASSUME NEW c \in Chans, NEW r \in Runtimes, OpenChannel(c, r) PROVE Hands'
  <2>1. /\ task[c] = "new" /\ task'[c] = "opened"
        /\ \A d \in Chans : d # c => task'[d] = task[d] /\ parent'[d] = parent[d]
    BY <1>6, <1>0 DEF OpenChannel, TaskTypes
  <2>2. \A d \in Chans : /\ Registered(d)' <=> Registered(d)
                         /\ Registered(d) => parent'[d] = parent[d]
    BY <2>1 DEF Registered
  <2> QED BY <1>6, <2>2, StoreKeeps, HandsKept DEF OpenChannel, HandsFrame
<1>7. ASSUME NEW c \in Chans, ChannelAttach(c) PROVE Hands'
  <2>1. /\ task[c] = "opened" /\ task'[c] \in {"attached", "failed"}
        /\ \A d \in Chans : d # c => task'[d] = task[d]
    BY <1>7, <1>0 DEF ChannelAttach, TaskTypes
  <2>2. \A d \in Chans : Registered(d)' <=> Registered(d)
    BY <2>1 DEF Registered
  <2>3. \A x \in Runtimes : pump'[x] = pump[x]
    BY <1>7, <1>0, <1>a, <1>b DEF ChannelAttach, PlaneTypes
  <2> QED BY <1>7, <2>2, <2>3, StoreKeeps, HandsKept DEF ChannelAttach, HandsFrame
<1>8. ASSUME NEW c \in Chans, ChannelRegister(c) PROVE Hands'
  <2>1. /\ task[c] = "attached"
        /\ \A d \in Chans : d # c => task'[d] = task[d]
        /\ UNCHANGED <<rt, up, home, parent, pump, cleanup, loose>> /\ shutReq \subseteq shutReq'
    BY <1>8, <1>0 DEF ChannelRegister, TaskTypes
  <2>2. \A x \in Runtimes : Connected(x)' <=> Connected(x)
    BY <2>1, StoreKeeps
  <2>3. CASE task'[c] = "failed" /\ kids' = kids
    <3>1. \A d \in Chans : Registered(d)' <=> Registered(d)
      BY <2>1, <2>3 DEF Registered
    <3> QED BY <2>1, <2>2, <2>3, <3>1, HandsKept DEF HandsFrame
  <2>4. CASE /\ task'[c] = "registered" /\ Connected(parent[c]) /\ shutReq' = shutReq
             /\ kids' = [kids EXCEPT ![parent[c]] = @ \cup {c}]
    <3>1. parent[c] \in Runtimes
      BY <2>1, <1>0 DEF ChannelsKnown
    <3>2. /\ \A x \in Runtimes : x # parent[c] => kids'[x] = kids[x]
          /\ kids'[parent[c]] = kids[parent[c]] \cup {c}
      BY <2>4, <3>1, <1>0 DEF StoreTypes
    <3>3. /\ \A d \in Chans : Registered(d)' <=> Registered(d) \/ d = c
          /\ ~Registered(c)
          /\ \A d \in Chans : Registered(d) => parent[d] \in Runtimes
      BY <2>1, <2>4, <1>0 DEF Registered, ChannelsKnown
    <3>4. loose \subseteq Chans /\ \A x \in Runtimes : kids[x] \subseteq Chans
      BY <1>0 DEF StoreTypes, CleanTypes
    <3>5. c \notin loose /\ \A x \in Runtimes : c \notin cleanup[x]
      BY <3>3 DEF Hands
    <3>6. \A r \in Runtimes : \A d \in kids'[r] :
            Connected(r)' /\ Registered(d)' /\ d \notin cleanup'[r] /\ d \notin loose'
      <4> SUFFICES ASSUME NEW r \in Runtimes, NEW d \in kids'[r]
                   PROVE  Connected(r) /\ Registered(d)' /\ d \notin cleanup[r] /\ d \notin loose
        BY <2>1, <2>2
      <4>1. CASE d = c
        <5>1. r = parent[c]
          BY <4>1, <3>2, <3>3 DEF Hands
        <5> QED BY <4>1, <5>1, <2>4, <3>3, <3>5
      <4>2. CASE d # c
        <5>1. d \in kids[r] /\ d \in Chans
          BY <4>2, <3>2, <3>4
        <5> QED BY <5>1, <3>3 DEF Hands
      <4> QED BY <4>1, <4>2
    <3>7. \A r \in Runtimes : \A d \in Chans :
            d \in cleanup'[r] => Registered(d)' /\ parent'[d] = r /\ d \notin loose'
      BY <2>1, <3>3 DEF Hands
    <3>8. \A d \in loose' : Registered(d)'
      BY <2>1, <3>3, <3>4 DEF Hands
    <3>9. \A d \in Chans : Registered(d)' /\ d \notin shutReq' =>
            d \in kids'[parent'[d]] \/ d \in cleanup'[parent'[d]] \/ d \in loose'
      BY <2>1, <2>4, <3>2, <3>3 DEF Hands
    <3>10. \A r, q \in Runtimes : q \in cleanup'[r] => q = r /\ ~Connected(r)'
      BY <2>1, <2>2 DEF Hands
    <3>11. \A r \in Runtimes :
             pump'[r] # "none" /\ r \notin shutReq' => Connected(r)' \/ r \in cleanup'[r]
      BY <2>1, <2>2 DEF Hands
    <3> QED BY <3>6, <3>7, <3>8, <3>9, <3>10, <3>11 DEF Hands
  <2> QED BY <1>8, <1>0, <2>3, <2>4 DEF ChannelRegister, TaskTypes
<1>9. ASSUME NEW c \in Chans, ChannelPublish(c) PROVE Hands'
  <2>1. /\ task[c] = "registered" /\ task'[c] = "done"
        /\ \A d \in Chans : d # c => task'[d] = task[d]
    BY <1>9, <1>0 DEF ChannelPublish, TaskTypes
  <2>2. \A d \in Chans : Registered(d)' <=> Registered(d)
    BY <2>1 DEF Registered
  <2> QED BY <1>9, <2>2, StoreKeeps, HandsKept DEF ChannelPublish, HandsFrame
<1>10. ASSUME NEW p \in Planes, ActorDies(p) PROVE Hands'
  BY <1>10, <1>e DEF ActorDies
<1>11. ASSUME NEW p \in Planes, ActorStops(p) PROVE Hands'
  BY <1>11, <1>e DEF ActorStops
<1>12. ASSUME NEW p \in Planes, PumpStart(p) PROVE Hands'
  <2>1. \A x \in Runtimes : pump'[x] # "none" => pump[x] # "none"
    BY <1>12, <1>0, <1>a DEF PumpStart, PlaneTypes
  <2> QED BY <1>12, <2>1, <1>e DEF PumpStart
<1>13. ASSUME NEW p \in Planes, PumpEnd(p) PROVE Hands'
  <2>1. \A x \in Runtimes : pump'[x] # "none" => pump[x] # "none"
    BY <1>13, <1>0, <1>a DEF PumpEnd, PlaneTypes
  <2> QED BY <1>13, <2>1, <1>e DEF PumpEnd
<1>14. ASSUME NEW r \in Runtimes, RootLost(r) PROVE Hands'
  <2>1. \A x \in Runtimes : pump'[x] # "none" => pump[x] # "none"
    BY <1>14, <1>0, <1>a DEF RootLost, PlaneTypes
  <2>2. CASE Connected(r) /\ CloseSession(r)
    <3>1. Closes({r})
      BY <1>14, <2>2, CloseCloses DEF RootLost, Connected
    <3> QED BY <1>14, <2>1, <3>1, HandsClosed DEF RootLost
  <2>3. CASE UNCHANGED <<up, kids, cleanup>>
    BY <1>14, <2>1, <2>3, <1>e DEF RootLost
  <2> QED BY <1>14, <2>2, <2>3 DEF RootLost
<1>15. ASSUME NEW c \in Chans, ChannelLost(c) PROVE Hands'
  <2>1. \A x \in Runtimes : pump'[x] = pump[x]
    BY <1>15, <1>0, <1>a DEF ChannelLost, PlaneTypes
  <2>2. CASE ChildConnected(c) /\ CloseSession(parent[c])
    <3>1. task[c] # "new" /\ Current(parent[c])
      BY <1>15, <2>2, <1>0 DEF ChannelLost, ChannelsKnown, Untouched, ChildConnected, Connected
    <3>2. Closes({parent[c]})
      BY <1>15, <2>2, <3>1, ParentCloses DEF ChannelLost
    <3> QED BY <1>15, <2>1, <3>2, HandsClosed DEF ChannelLost
  <2>3. CASE UNCHANGED <<up, kids, cleanup>>
    BY <1>15, <2>1, <2>3, <1>e DEF ChannelLost
  <2> QED BY <1>15, <2>2, <2>3 DEF ChannelLost
<1>16. ASSUME NEW u \in Users, NEW r \in Runtimes, Disconnect(u, r) PROVE Hands'
  <2>1. Closes({r})
    BY <1>16, CloseCloses DEF Disconnect
  <2> QED BY <1>16, <2>1, HandsClosed DEF Disconnect
<1>17. ASSUME NEW u \in Users, NEW c \in Chans, CloseChannel(u, c) PROVE Hands'
  <2>0. task[c] # "new" /\ Current(parent[c]) /\ c \in kids[parent[c]] /\ parent[c] \in Runtimes
    BY <1>17, <1>0 DEF CloseChannel, ChannelsKnown, Untouched
  <2>1. CASE CloseSession(parent[c]) /\ UNCHANGED loose
    <3>1. Closes({parent[c]})
      BY <1>17, <2>0, <2>1, ParentCloses DEF CloseChannel
    <3> QED BY <1>17, <2>1, <3>1, HandsClosed DEF CloseChannel
  <2>2. CASE /\ kids' = [kids EXCEPT ![parent[c]] = @ \ {c}] /\ loose' = loose \cup {c}
             /\ UNCHANGED <<up, cleanup, detaching>>
    <3>1. /\ UNCHANGED <<rt, up, home, task, parent, pump, shutReq, cleanup>>
          /\ \A x \in Runtimes : Connected(x)' <=> Connected(x)
      BY <1>17, <2>2, StoreKeeps DEF CloseChannel
    <3>2. /\ \A x \in Runtimes : x # parent[c] => kids'[x] = kids[x]
          /\ kids'[parent[c]] = kids[parent[c]] \ {c}
      BY <2>0, <2>2, <1>0 DEF StoreTypes
    <3>3. \A d \in Chans : /\ Registered(d)' <=> Registered(d)
                           /\ Registered(d) => parent[d] \in Runtimes
      BY <3>1, <1>0 DEF Registered, ChannelsKnown
    <3>4. loose \subseteq Chans /\ \A x \in Runtimes : kids[x] \subseteq Chans
      BY <1>0 DEF StoreTypes, CleanTypes
    <3>5. \A x \in Runtimes : \A d \in kids[x] : parent[d] = x
      BY <1>0 DEF ChannelsKnown
    <3>6. \A r \in Runtimes : \A d \in kids'[r] :
            Connected(r)' /\ Registered(d)' /\ d \notin cleanup'[r] /\ d \notin loose'
      <4> SUFFICES ASSUME NEW r \in Runtimes, NEW d \in kids'[r]
                   PROVE  Connected(r) /\ Registered(d)' /\ d \notin cleanup[r] /\ d \notin loose'
        BY <3>1
      <4>1. d \in kids[r] /\ d \in Chans /\ d # c
        BY <3>2, <3>4, <3>5
      <4> QED BY <4>1, <2>2, <3>3 DEF Hands
    <3>7. \A r \in Runtimes : \A d \in Chans :
            d \in cleanup'[r] => Registered(d)' /\ parent'[d] = r /\ d \notin loose'
      BY <2>0, <2>2, <3>1, <3>3 DEF Hands
    <3>8. \A d \in loose' : Registered(d)'
      BY <2>0, <2>2, <3>3, <3>4 DEF Hands
    <3>9. \A d \in Chans : Registered(d)' /\ d \notin shutReq' =>
            d \in kids'[parent'[d]] \/ d \in cleanup'[parent'[d]] \/ d \in loose'
      BY <2>2, <3>1, <3>2, <3>3 DEF Hands
    <3>10. \A r, q \in Runtimes : q \in cleanup'[r] => q = r /\ ~Connected(r)'
      BY <3>1 DEF Hands
    <3>11. \A r \in Runtimes :
             pump'[r] # "none" /\ r \notin shutReq' => Connected(r)' \/ r \in cleanup'[r]
      BY <3>1 DEF Hands
    <3> QED BY <3>6, <3>7, <3>8, <3>9, <3>10, <3>11 DEF Hands
  <2> QED BY <1>17, <2>1, <2>2 DEF CloseChannel
<1>18. ASSUME NEW u \in Users, CommandDone(u) PROVE Hands'
  BY <1>18, <1>e DEF CommandDone
<1>19. ASSUME AppExit PROVE Hands'
  <2>1. Closes({x \in Runtimes : Connected(x)})
    BY <1>19, ExitCloses
  <2> QED BY <1>19, <2>1, HandsClosed DEF AppExit
<1>20. ASSUME NEW p \in Planes, CleanupRequest(p) PROVE Hands'
  BY <1>20, <1>e DEF CleanupRequest
<1>21. ASSUME NEW p \in Planes, CleanupJoin(p) PROVE Hands'
  <2>1. /\ p \in shutReq /\ loose' = loose \ {p}
        /\ \A x \in Runtimes : cleanup'[x] = cleanup[x] \ {p}
        /\ UNCHANGED <<rt, up, home, kids, task, parent, pump, shutReq>>
    BY <1>21 DEF CleanupJoin
  <2>2. \A x \in Runtimes : Connected(x)' <=> Connected(x)
    BY <2>1, StoreKeeps
  <2>3. \A d \in Chans : /\ Registered(d)' <=> Registered(d)
                         /\ Registered(d) => parent[d] \in Runtimes
    BY <2>1, <1>0 DEF Registered, ChannelsKnown
  <2>4. loose \subseteq Chans /\ \A x \in Runtimes : kids[x] \subseteq Chans
    BY <1>0 DEF StoreTypes, CleanTypes
  <2>6. \A r \in Runtimes : \A d \in kids'[r] :
          Connected(r)' /\ Registered(d)' /\ d \notin cleanup'[r] /\ d \notin loose'
    BY <2>1, <2>2, <2>3, <2>4 DEF Hands
  <2>7. \A r \in Runtimes : \A d \in Chans :
          d \in cleanup'[r] => Registered(d)' /\ parent'[d] = r /\ d \notin loose'
    BY <2>1, <2>3 DEF Hands
  <2>8. \A d \in loose' : Registered(d)'
    BY <2>1, <2>3, <2>4 DEF Hands
  <2>9. \A d \in Chans : Registered(d)' /\ d \notin shutReq' =>
          d \in kids'[parent'[d]] \/ d \in cleanup'[parent'[d]] \/ d \in loose'
    BY <2>1, <2>3 DEF Hands
  <2>10. \A r, q \in Runtimes : q \in cleanup'[r] => q = r /\ ~Connected(r)'
    BY <2>1, <2>2 DEF Hands
  <2>11. \A r \in Runtimes :
           pump'[r] # "none" /\ r \notin shutReq' => Connected(r)' \/ r \in cleanup'[r]
    BY <2>1, <2>2 DEF Hands
  <2> QED BY <2>6, <2>7, <2>8, <2>9, <2>10, <2>11 DEF Hands
<1>22. ASSUME NEW r \in Runtimes, CleanupDetach(r) PROVE Hands'
  BY <1>22, <1>e DEF CleanupDetach
<1>23. ASSUME UNCHANGED vars PROVE Hands'
  BY <1>23, <1>e DEF vars
<1> QED
  BY <1>1, <1>2, <1>3, <1>4, <1>5, <1>6, <1>7, <1>8, <1>9, <1>10, <1>11, <1>12, <1>13,
     <1>14, <1>15, <1>16, <1>17, <1>18, <1>19, <1>20, <1>21, <1>22, <1>23
     DEF Next, ConnectStep, ChannelStep, PlaneStep, UserStep
-----------------------------------------------------------------------------
(* An actor that ends without a shutdown has died.                         *)
LEMMA DeathsStep == Inv /\ Deaths /\ [Next]_vars => Deaths'
<1> SUFFICES ASSUME Inv, Deaths, [Next]_vars PROVE Deaths'
  OBVIOUS
<1> USE DEF storeVars, planeVars, cleanVars, taskVars, history
<1>0. StoreTypes /\ PlaneTypes /\ CleanTypes /\ TaskTypes /\ HistoryTypes /\ ChannelsKnown
  BY DEF Inv, TypeOK
<1>b. \A c \in Chans : c \in Planes
  BY DEF Planes
<1>e. ASSUME alive' = alive, died' = died, shutReq \subseteq shutReq',
             \A p \in Planes : pump'[p] = pump[p] \/ pump'[p] = "done"
      PROVE  Deaths'
  BY <1>e DEF Deaths
<1>1. ASSUME NEW id \in Simple, CreateSession(id) PROVE Deaths'
  <2>1. next \in Planes
    BY <1>1, <1>0, AllocateTypes, RuntimesAreNumbers DEF CreateSession, Ids
  <2>2. CASE pump' = [pump EXCEPT ![next] = "paused"] /\ alive' = alive \cup {next}
    BY <1>1, <2>1, <2>2, <1>0 DEF CreateSession, PlaneTypes, Deaths
  <2>3. CASE UNCHANGED <<pump, alive>>
    BY <1>1, <2>3, <1>e DEF CreateSession
  <2> QED BY <1>1, <2>2, <2>3 DEF CreateSession
<1>2. ASSUME NEW id \in Containers, NEW c \in Chans, CreateContainer(id, c) PROVE Deaths'
  BY <1>2, <1>e DEF CreateContainer
<1>3. ASSUME NEW id \in Ids, CreateRefused(id) PROVE Deaths'
  BY <1>3, <1>e DEF CreateRefused
<1>4. ASSUME NEW r \in Runtimes, ConnectSetup(r) PROVE Deaths'
  BY <1>4, <1>e DEF ConnectSetup
<1>5. ASSUME NEW r \in Runtimes, ConnectPublish(r) PROVE Deaths'
  BY <1>5, <1>e DEF ConnectPublish
<1>6. ASSUME NEW c \in Chans, NEW r \in Runtimes, OpenChannel(c, r) PROVE Deaths'
  BY <1>6, <1>e DEF OpenChannel
<1>7. ASSUME NEW c \in Chans, ChannelAttach(c) PROVE Deaths'
  <2>2. CASE pump' = [pump EXCEPT ![c] = "paused"] /\ alive' = alive \cup {c}
    BY <1>7, <2>2, <1>0, <1>b DEF ChannelAttach, PlaneTypes, Deaths
  <2>3. CASE UNCHANGED <<pump, alive>>
    BY <1>7, <2>3, <1>e DEF ChannelAttach
  <2> QED BY <1>7, <2>2, <2>3 DEF ChannelAttach
<1>8. ASSUME NEW c \in Chans, ChannelRegister(c) PROVE Deaths'
  BY <1>8, <1>e DEF ChannelRegister
<1>9. ASSUME NEW c \in Chans, ChannelPublish(c) PROVE Deaths'
  BY <1>9, <1>e DEF ChannelPublish
<1>10. ASSUME NEW p \in Planes, ActorDies(p) PROVE Deaths'
  BY <1>10 DEF ActorDies, Deaths
<1>11. ASSUME NEW p \in Planes, ActorStops(p) PROVE Deaths'
  BY <1>11 DEF ActorStops, Deaths
<1>12. ASSUME NEW p \in Planes, PumpStart(p) PROVE Deaths'
  BY <1>12, <1>0 DEF PumpStart, PlaneTypes, Deaths
<1>13. ASSUME NEW p \in Planes, PumpEnd(p) PROVE Deaths'
  BY <1>13, <1>0 DEF PumpEnd, PlaneTypes, Deaths
<1>14. ASSUME NEW r \in Runtimes, RootLost(r) PROVE Deaths'
  <2>1. \A p \in Planes : pump'[p] = pump[p] \/ pump'[p] = "done"
    BY <1>14, <1>0 DEF RootLost, PlaneTypes
  <2> QED BY <1>14, <2>1, <1>e DEF RootLost
<1>15. ASSUME NEW c \in Chans, ChannelLost(c) PROVE Deaths'
  <2>1. \A p \in Planes : pump'[p] = pump[p] \/ pump'[p] = "done"
    BY <1>15, <1>0 DEF ChannelLost, PlaneTypes
  <2> QED BY <1>15, <2>1, <1>e DEF ChannelLost
<1>16. ASSUME NEW u \in Users, NEW r \in Runtimes, Disconnect(u, r) PROVE Deaths'
  BY <1>16, <1>e DEF Disconnect
<1>17. ASSUME NEW u \in Users, NEW c \in Chans, CloseChannel(u, c) PROVE Deaths'
  BY <1>17, <1>e DEF CloseChannel
<1>18. ASSUME NEW u \in Users, CommandDone(u) PROVE Deaths'
  BY <1>18, <1>e DEF CommandDone
<1>19. ASSUME AppExit PROVE Deaths'
  BY <1>19, <1>e DEF AppExit
<1>20. ASSUME NEW p \in Planes, CleanupRequest(p) PROVE Deaths'
  BY <1>20, <1>e DEF CleanupRequest
<1>21. ASSUME NEW p \in Planes, CleanupJoin(p) PROVE Deaths'
  BY <1>21, <1>e DEF CleanupJoin
<1>22. ASSUME NEW r \in Runtimes, CleanupDetach(r) PROVE Deaths'
  BY <1>22, <1>e DEF CleanupDetach
<1>23. ASSUME UNCHANGED vars PROVE Deaths'
  BY <1>23, <1>e DEF vars
<1> QED
  BY <1>1, <1>2, <1>3, <1>4, <1>5, <1>6, <1>7, <1>8, <1>9, <1>10, <1>11, <1>12, <1>13,
     <1>14, <1>15, <1>16, <1>17, <1>18, <1>19, <1>20, <1>21, <1>22, <1>23
     DEF Next, ConnectStep, ChannelStep, PlaneStep, UserStep

-----------------------------------------------------------------------------
(* What became of a registered channel stays so while its parent is up.    *)
LEMMA KidStatesStep ==
  Inv /\ Roots /\ Stages /\ Hands /\ Deaths /\ KidStates /\ [Next]_vars => KidStates'
<1> SUFFICES ASSUME Inv, Roots, Stages, Hands, Deaths, KidStates, [Next]_vars PROVE KidStates'
  OBVIOUS
<1> USE DEF storeVars, planeVars, cleanVars, taskVars, history
<1>0. StoreTypes /\ PlaneTypes /\ CleanTypes /\ TaskTypes /\ HistoryTypes /\ ChannelsKnown
  BY DEF Inv, TypeOK
<1>a. \A x \in Runtimes : x \in Nat \ {0} /\ x \notin Chans /\ x \in Planes
  BY RuntimeFacts
<1>b. \A c \in Chans : c \in Planes
  BY DEF Planes
<1>c. next \in Nat
  BY <1>0, BoundsAssumption DEF StoreTypes
<1>d. \A c \in Chans : Registered(c) => parent[c] \in Runtimes /\ parent[c] < next
  BY <1>0 DEF Registered, ChannelsKnown, Stages, Stage
<1>e. ASSUME \A c \in Chans :
               Registered(c)' => /\ Registered(c) /\ parent'[c] = parent[c]
                                 /\ c \in dropped => c \in dropped'
                                 /\ pump[c] = "done" => pump'[c] = "done",
             \A x \in Runtimes : x < next /\ Connected(x)' => Connected(x) /\ kids'[x] = kids[x],
             kidUp' = kidUp, died \subseteq died'
      PROVE  KidStates'
  BY <1>e, <1>d DEF KidStates
<1>f. ASSUME UNCHANGED <<rt, up, home, kids, kidUp, parent, dropped, pump>>, died \subseteq died',
             \A c \in Chans : Registered(c)' => Registered(c)
      PROVE  KidStates'
  BY <1>f, <1>e, StoreKeeps
<1>g. ASSUME NEW S, Closes(S), UNCHANGED <<parent, task, kidUp>>, died \subseteq died',
             \A c \in Chans : /\ c \in dropped => c \in dropped'
                              /\ pump[c] = "done" => pump'[c] = "done"
      PROVE  KidStates'
  <2>1. \A x \in Runtimes : Connected(x)' => Connected(x) /\ kids'[x] = kids[x]
    BY <1>g DEF Closes
  <2> QED BY <1>g, <2>1, <1>e DEF Registered
<1>h. ASSUME UNCHANGED task PROVE \A c \in Chans : Registered(c)' => Registered(c)
  BY <1>h DEF Registered
<1>1. ASSUME NEW id \in Simple, CreateSession(id) PROVE KidStates'
  <2>0. id \in Ids
    BY DEF Ids
  <2>1. next \in Runtimes /\ \A x \in Runtimes : x # next => (Connected(x)' <=> Connected(x))
    BY <1>1, <2>0, AllocateKeeps DEF CreateSession
  <2>2. \A x \in Runtimes : x < next => x # next
    BY <1>c
  <2>3. \A c \in Chans : pump'[c] = pump[c]
    BY <1>1, <2>1, <1>0, <1>a, <1>b DEF CreateSession, PlaneTypes
  <2> QED BY <1>1, <2>1, <2>2, <2>3, <1>e, <1>h DEF CreateSession
<1>2. ASSUME NEW id \in Containers, NEW c \in Chans, CreateContainer(id, c) PROVE KidStates'
  <2>0. id \in Ids
    BY DEF Ids
  <2>1. next \in Runtimes /\ \A x \in Runtimes : x # next => (Connected(x)' <=> Connected(x))
    BY <1>2, <2>0, AllocateKeeps DEF CreateContainer
  <2>2. \A x \in Runtimes : x < next => x # next
    BY <1>c
  <2>3. /\ task'[c] = "opened"
        /\ \A d \in Chans : d # c => task'[d] = task[d] /\ parent'[d] = parent[d]
    BY <1>2, <1>0 DEF CreateContainer, TaskTypes
  <2>4. \A d \in Chans : Registered(d)' => Registered(d) /\ parent'[d] = parent[d]
    BY <2>3 DEF Registered
  <2> QED BY <1>2, <2>1, <2>2, <2>4, <1>e DEF CreateContainer
<1>3. ASSUME NEW id \in Ids, CreateRefused(id) PROVE KidStates'
  <2>1. \A x \in Runtimes : Connected(x)' <=> Connected(x)
    BY <1>3, RefusedKeeps
  <2> QED BY <1>3, <2>1, <1>e, <1>h DEF CreateRefused
<1>4. ASSUME NEW r \in Runtimes, ConnectSetup(r) PROVE KidStates'
  <2>1. CASE Current(r) /\ CloseSession(r)
    <3>1. Closes({r})
      BY <1>4, <2>1, CloseCloses DEF ConnectSetup
    <3> QED BY <1>4, <3>1, <1>g DEF ConnectSetup
  <2>2. CASE UNCHANGED <<up, kids, cleanup>>
    BY <1>4, <2>2, <1>f, <1>h DEF ConnectSetup
  <2> QED BY <1>4, <2>1, <2>2 DEF ConnectSetup, CloseIfCurrent
<1>5. ASSUME NEW r \in Runtimes, ConnectPublish(r) PROVE KidStates'
  BY <1>5, <1>f, <1>h DEF ConnectPublish
<1>6. ASSUME NEW c \in Chans, NEW r \in Runtimes, OpenChannel(c, r) PROVE KidStates'
  <2>3. /\ task'[c] = "opened"
        /\ \A d \in Chans : d # c => task'[d] = task[d] /\ parent'[d] = parent[d]
    BY <1>6, <1>0 DEF OpenChannel, TaskTypes
  <2>4. \A d \in Chans : Registered(d)' => Registered(d) /\ parent'[d] = parent[d]
    BY <2>3 DEF Registered
  <2> QED BY <1>6, <2>4, StoreKeeps, <1>e DEF OpenChannel
<1>7. ASSUME NEW c \in Chans, ChannelAttach(c) PROVE KidStates'
  <2>3. /\ task[c] = "opened" /\ task'[c] \in {"attached", "failed"}
        /\ \A d \in Chans : d # c => task'[d] = task[d] /\ pump'[d] = pump[d]
    BY <1>7, <1>0, <1>b DEF ChannelAttach, TaskTypes, PlaneTypes
  <2>4. \A d \in Chans : Registered(d)' => Registered(d) /\ pump'[d] = pump[d]
    BY <2>3 DEF Registered
  <2> QED BY <1>7, <2>4, StoreKeeps, <1>e DEF ChannelAttach
<1>8. ASSUME NEW c \in Chans, ChannelRegister(c) PROVE KidStates'
  <2>1. /\ task[c] = "attached"
        /\ \A d \in Chans : d # c => task'[d] = task[d]
        /\ UNCHANGED <<rt, up, home, parent, pump, dropped, died>>
    BY <1>8, <1>0 DEF ChannelRegister, TaskTypes
  <2>2. \A x \in Runtimes : Connected(x)' <=> Connected(x)
    BY <2>1, StoreKeeps
  <2>3. CASE task'[c] = "failed" /\ kids' = kids /\ kidUp' = kidUp
    <3>1. \A d \in Chans : Registered(d)' => Registered(d)
      BY <2>1, <2>3 DEF Registered
    <3> QED BY <2>1, <2>3, <3>1, <1>f
  <2>4. CASE /\ kidUp' = kidUp \cup {c}
             /\ kids' = [kids EXCEPT ![parent[c]] = @ \cup {c}]
    <3>1. parent[c] \in Runtimes
      BY <2>1, <1>0 DEF ChannelsKnown
    <3>2. /\ \A x \in Runtimes : \A d \in kids[x] : d \in kids'[x]
          /\ c \in kids'[parent[c]]
      BY <2>4, <3>1, <1>0 DEF StoreTypes
    <3>3. \A d \in Chans : Registered(d)' => d = c \/ Registered(d)
      BY <2>1 DEF Registered
    <3> QED BY <2>1, <2>2, <2>4, <3>2, <3>3, <1>d DEF KidStates
  <2> QED BY <1>8, <1>0, <2>3, <2>4 DEF ChannelRegister, TaskTypes
<1>9. ASSUME NEW c \in Chans, ChannelPublish(c) PROVE KidStates'
  <2>1. task[c] = "registered" /\ \A d \in Chans : d # c => task'[d] = task[d]
    BY <1>9, <1>0 DEF ChannelPublish, TaskTypes
  <2>2. \A d \in Chans : Registered(d)' => Registered(d)
    BY <2>1 DEF Registered
  <2> QED BY <1>9, <2>2, <1>f DEF ChannelPublish
<1>10. ASSUME NEW p \in Planes, ActorDies(p) PROVE KidStates'
  BY <1>10, <1>f, <1>h DEF ActorDies
<1>11. ASSUME NEW p \in Planes, ActorStops(p) PROVE KidStates'
  BY <1>11, <1>f, <1>h DEF ActorStops
<1>12. ASSUME NEW p \in Planes, PumpStart(p) PROVE KidStates'
  <2>1. \A d \in Chans : pump[d] = "done" => pump'[d] = "done"
    BY <1>12, <1>0, <1>b DEF PumpStart, PlaneTypes
  <2> QED BY <1>12, <2>1, <1>e, <1>h, StoreKeeps DEF PumpStart
<1>13. ASSUME NEW p \in Planes, PumpEnd(p) PROVE KidStates'
  <2>1. \A d \in Chans : pump[d] = "done" => pump'[d] = "done"
    BY <1>13, <1>0, <1>b DEF PumpEnd, PlaneTypes
  <2> QED BY <1>13, <2>1, <1>e, <1>h, StoreKeeps DEF PumpEnd
<1>14. ASSUME NEW r \in Runtimes, RootLost(r) PROVE KidStates'
  <2>1. \A d \in Chans : pump[d] = "done" => pump'[d] = "done"
    BY <1>14, <1>0, <1>a, <1>b DEF RootLost, PlaneTypes
  <2>2. CASE Connected(r) /\ CloseSession(r)
    <3>1. Closes({r})
      BY <1>14, <2>2, CloseCloses DEF RootLost, Connected
    <3> QED BY <1>14, <2>1, <3>1, <1>g DEF RootLost
  <2>3. CASE UNCHANGED <<up, kids, cleanup>>
    BY <1>14, <2>1, <2>3, <1>e, <1>h, StoreKeeps DEF RootLost
  <2> QED BY <1>14, <2>2, <2>3 DEF RootLost
<1>15. ASSUME NEW c \in Chans, ChannelLost(c) PROVE KidStates'
  <2>1. /\ \A d \in Chans : pump[d] = "done" => pump'[d] = "done"
        /\ pump'[c] = "done" /\ pump[c] = "closing" /\ task[c] # "new"
        /\ UNCHANGED <<rt, home, task, parent, dropped, died>>
    BY <1>15, <1>0, <1>b DEF ChannelLost, PlaneTypes, ChannelsKnown, Untouched
  <2>2. c \in died
    BY <2>1, <1>b DEF Deaths
  <2>3. CASE ChildConnected(c) /\ CloseSession(parent[c]) /\ kidUp' = kidUp \ {c}
    <3>1. Current(parent[c])
      BY <2>3 DEF ChildConnected, Connected
    <3>2. Closes({parent[c]})
      BY <1>15, <2>1, <2>3, <3>1, ParentCloses DEF ChannelLost
    <3>3. \A x \in Runtimes : Connected(x)' => Connected(x) /\ kids'[x] = kids[x]
      BY <3>2 DEF Closes
    <3>4. ~Connected(parent[c])'
      BY <2>1, <3>2, <1>0 DEF Closes, ChannelsKnown
    <3>5. \A d \in Chans : Registered(d)' => Registered(d)
      BY <2>1 DEF Registered
    <3>6. \A d \in Chans : Connected(parent[d])' /\ Registered(d) => d # c
      BY <2>1, <3>2, <1>d DEF Closes
    <3> QED BY <2>1, <2>3, <3>3, <3>5, <3>6, <1>d DEF KidStates
  <2>4. CASE kidUp' = kidUp \ {c} /\ UNCHANGED <<up, kids>>
    <3>1. \A x \in Runtimes : Connected(x)' <=> Connected(x)
      BY <2>1, <2>4, StoreKeeps
    <3>2. \A d \in Chans : Registered(d)' => Registered(d)
      BY <2>1 DEF Registered
    <3> QED BY <2>1, <2>2, <2>4, <3>1, <3>2, <1>d DEF KidStates
  <2>5. CASE UNCHANGED <<up, kids, kidUp>>
    BY <2>1, <2>5, <1>e, <1>h, StoreKeeps
  <2> QED BY <1>15, <2>3, <2>4, <2>5 DEF ChannelLost
<1>16. ASSUME NEW u \in Users, NEW r \in Runtimes, Disconnect(u, r) PROVE KidStates'
  <2>1. Closes({r})
    BY <1>16, CloseCloses DEF Disconnect
  <2> QED BY <1>16, <2>1, <1>g DEF Disconnect
<1>17. ASSUME NEW u \in Users, NEW c \in Chans, CloseChannel(u, c) PROVE KidStates'
  <2>0. /\ task[c] # "new" /\ Current(parent[c]) /\ parent[c] \in Runtimes
        /\ dropped' = dropped \cup {c}
    BY <1>17, <1>0 DEF CloseChannel, ChannelsKnown, Untouched
  <2>1. CASE CloseSession(parent[c])
    <3>1. Closes({parent[c]})
      BY <1>17, <2>0, <2>1, ParentCloses DEF CloseChannel
    <3> QED BY <1>17, <2>0, <3>1, <1>g DEF CloseChannel
  <2>2. CASE kids' = [kids EXCEPT ![parent[c]] = @ \ {c}] /\ UNCHANGED up
    <3>1. /\ UNCHANGED <<task, parent, pump, kidUp, died>>
          /\ \A x \in Runtimes : Connected(x)' <=> Connected(x)
      BY <1>17, <2>2, StoreKeeps DEF CloseChannel
    <3>2. \A x \in Runtimes : \A d \in kids[x] : d = c \/ d \in kids'[x]
      BY <2>0, <2>2, <1>0 DEF StoreTypes
    <3>3. \A d \in Chans : Registered(d)' => Registered(d)
      BY <3>1 DEF Registered
    <3> QED BY <2>0, <3>1, <3>2, <3>3, <1>d DEF KidStates
  <2> QED BY <1>17, <2>1, <2>2 DEF CloseChannel
<1>18. ASSUME NEW u \in Users, CommandDone(u) PROVE KidStates'
  BY <1>18, <1>f, <1>h DEF CommandDone
<1>19. ASSUME AppExit PROVE KidStates'
  <2>1. Closes({x \in Runtimes : Connected(x)})
    BY <1>19, ExitCloses
  <2> QED BY <1>19, <2>1, <1>g DEF AppExit
<1>20. ASSUME NEW p \in Planes, CleanupRequest(p) PROVE KidStates'
  BY <1>20, <1>f, <1>h DEF CleanupRequest
<1>21. ASSUME NEW p \in Planes, CleanupJoin(p) PROVE KidStates'
  BY <1>21, <1>f, <1>h DEF CleanupJoin
<1>22. ASSUME NEW r \in Runtimes, CleanupDetach(r) PROVE KidStates'
  BY <1>22, <1>f, <1>h DEF CleanupDetach
<1>23. ASSUME UNCHANGED vars PROVE KidStates'
  BY <1>23, <1>f, <1>h DEF vars
<1> QED
  BY <1>1, <1>2, <1>3, <1>4, <1>5, <1>6, <1>7, <1>8, <1>9, <1>10, <1>11, <1>12, <1>13,
     <1>14, <1>15, <1>16, <1>17, <1>18, <1>19, <1>20, <1>21, <1>22, <1>23
     DEF Next, ConnectStep, ChannelStep, PlaneStep, UserStep
-----------------------------------------------------------------------------
(* What no step takes back, and the one way to become registered.          *)
Forward ==
  /\ asked \subseteq asked' /\ died \subseteq died' /\ dropped \subseteq dropped'
  /\ \A x \in Runtimes : x < next => home'[x] = home[x] /\ first'[x] = first[x]
  /\ \A c \in Chans :
       /\ task[c] # "new" => task'[c] # "new" /\ parent'[c] = parent[c]
       /\ task[c] = "failed" => task'[c] = "failed"
       /\ Registered(c) => Registered(c)'
       /\ Registered(c)' => Registered(c) \/ (task[c] = "attached" /\ Connected(parent[c]))

(* Every step goes forward.                                                *)
LEMMA ForwardStep == Inv /\ [Next]_vars => Forward
<1> SUFFICES ASSUME Inv, [Next]_vars PROVE Forward
  OBVIOUS
<1> USE DEF storeVars, planeVars, cleanVars, taskVars, history
<1>0. StoreTypes /\ PlaneTypes /\ CleanTypes /\ TaskTypes /\ HistoryTypes /\ ChannelsKnown
  BY DEF Inv, TypeOK
<1>a. ASSUME asked \subseteq asked', died \subseteq died', dropped \subseteq dropped',
             UNCHANGED <<home, first, task, parent>>
      PROVE  Forward
  BY <1>a DEF Forward, Registered
<1>1. ASSUME NEW id \in Simple, CreateSession(id) PROVE Forward
  <2>1. next \in Runtimes /\ next \in Nat
    BY <1>1, <1>0, AllocateTypes, BoundsAssumption DEF CreateSession, Ids, Runtimes
  <2>2. \A x \in Runtimes : x < next => home'[x] = home[x]
    BY <1>1, <2>1, <1>0 DEF CreateSession, Allocate, StoreTypes
  <2> QED BY <1>1, <2>2 DEF CreateSession, Forward, Registered
<1>2. ASSUME NEW id \in Containers, NEW c \in Chans, CreateContainer(id, c) PROVE Forward
  <2>1. next \in Runtimes /\ next \in Nat
    BY <1>2, <1>0, AllocateTypes, BoundsAssumption DEF CreateContainer, Ids, Runtimes
  <2>2. \A x \in Runtimes : x < next => home'[x] = home[x] /\ first'[x] = first[x]
    BY <1>2, <2>1, <1>0 DEF CreateContainer, Allocate, StoreTypes, TaskTypes
  <2>3. /\ task[c] = "new" /\ task'[c] = "opened"
        /\ \A d \in Chans : d # c => task'[d] = task[d] /\ parent'[d] = parent[d]
    BY <1>2, <1>0 DEF CreateContainer, TaskTypes
  <2> QED BY <1>2, <2>2, <2>3 DEF CreateContainer, Forward, Registered
<1>3. ASSUME NEW id \in Ids, CreateRefused(id) PROVE Forward
  BY <1>3, <1>a DEF CreateRefused
<1>4. ASSUME NEW r \in Runtimes, ConnectSetup(r) PROVE Forward
  BY <1>4, <1>a DEF ConnectSetup
<1>5. ASSUME NEW r \in Runtimes, ConnectPublish(r) PROVE Forward
  BY <1>5, <1>a DEF ConnectPublish
<1>6. ASSUME NEW c \in Chans, NEW r \in Runtimes, OpenChannel(c, r) PROVE Forward
  <2>3. /\ task[c] = "new" /\ task'[c] = "opened"
        /\ \A d \in Chans : d # c => task'[d] = task[d] /\ parent'[d] = parent[d]
    BY <1>6, <1>0 DEF OpenChannel, TaskTypes
  <2> QED BY <1>6, <2>3 DEF OpenChannel, Forward, Registered
<1>7. ASSUME NEW c \in Chans, ChannelAttach(c) PROVE Forward
  <2>3. /\ task[c] = "opened" /\ task'[c] \in {"attached", "failed"}
        /\ \A d \in Chans : d # c => task'[d] = task[d]
    BY <1>7, <1>0 DEF ChannelAttach, TaskTypes
  <2> QED BY <1>7, <2>3 DEF ChannelAttach, Forward, Registered
<1>8. ASSUME NEW c \in Chans, ChannelRegister(c) PROVE Forward
  <2>3. /\ task[c] = "attached" /\ \A d \in Chans : d # c => task'[d] = task[d]
        /\ task'[c] = "failed" \/ (task'[c] = "registered" /\ Connected(parent[c]))
    BY <1>8, <1>0 DEF ChannelRegister, TaskTypes
  <2> QED BY <1>8, <2>3 DEF ChannelRegister, Forward, Registered
<1>9. ASSUME NEW c \in Chans, ChannelPublish(c) PROVE Forward
  <2>3. /\ task[c] = "registered" /\ task'[c] = "done"
        /\ \A d \in Chans : d # c => task'[d] = task[d]
    BY <1>9, <1>0 DEF ChannelPublish, TaskTypes
  <2> QED BY <1>9, <2>3 DEF ChannelPublish, Forward, Registered
<1>10. ASSUME NEW p \in Planes, ActorDies(p) PROVE Forward
  BY <1>10, <1>a DEF ActorDies
<1>11. ASSUME NEW p \in Planes, ActorStops(p) PROVE Forward
  BY <1>11, <1>a DEF ActorStops
<1>12. ASSUME NEW p \in Planes, PumpStart(p) PROVE Forward
  BY <1>12, <1>a DEF PumpStart
<1>13. ASSUME NEW p \in Planes, PumpEnd(p) PROVE Forward
  BY <1>13, <1>a DEF PumpEnd
<1>14. ASSUME NEW r \in Runtimes, RootLost(r) PROVE Forward
  BY <1>14, <1>a DEF RootLost
<1>15. ASSUME NEW c \in Chans, ChannelLost(c) PROVE Forward
  BY <1>15, <1>a DEF ChannelLost
<1>16. ASSUME NEW u \in Users, NEW r \in Runtimes, Disconnect(u, r) PROVE Forward
  BY <1>16, <1>a DEF Disconnect
<1>17. ASSUME NEW u \in Users, NEW c \in Chans, CloseChannel(u, c) PROVE Forward
  BY <1>17, <1>a DEF CloseChannel
<1>18. ASSUME NEW u \in Users, CommandDone(u) PROVE Forward
  BY <1>18, <1>a DEF CommandDone
<1>19. ASSUME AppExit PROVE Forward
  BY <1>19, <1>a DEF AppExit
<1>20. ASSUME NEW p \in Planes, CleanupRequest(p) PROVE Forward
  BY <1>20, <1>a DEF CleanupRequest
<1>21. ASSUME NEW p \in Planes, CleanupJoin(p) PROVE Forward
  BY <1>21, <1>a DEF CleanupJoin
<1>22. ASSUME NEW r \in Runtimes, CleanupDetach(r) PROVE Forward
  BY <1>22, <1>a DEF CleanupDetach
<1>23. ASSUME UNCHANGED vars PROVE Forward
  BY <1>23, <1>a DEF vars
<1> QED
  BY <1>1, <1>2, <1>3, <1>4, <1>5, <1>6, <1>7, <1>8, <1>9, <1>10, <1>11, <1>12, <1>13,
     <1>14, <1>15, <1>16, <1>17, <1>18, <1>19, <1>20, <1>21, <1>22, <1>23
     DEF Next, ConnectStep, ChannelStep, PlaneStep, UserStep

(* Why a connection has ended.                                             *)
Reason(r) ==
  \/ r \in asked
  \/ home[r] \in Simple /\ r \in died
  \/ /\ home[r] \in Containers
     /\ \/ task[first[r]] = "failed"
        \/ \A c \in Chans : parent[c] = r /\ Registered(c) => c \in died \cup dropped

(* A connection that has ended keeps its reason: nothing registers a       *)
(* channel with it any more.                                               *)
LEMMA ReasonStays ==
  ASSUME Inv, Roots, Forward, NEW r \in Runtimes, conn[r] # "none", ~Connected(r), Reason(r)
  PROVE  Reason(r)'
<1>1. r < next
  <2>1. ~(r >= next)
    BY DEF Roots, Root
  <2> QED BY <2>1, RuntimeFacts
<1>2. home'[r] = home[r] /\ first'[r] = first[r]
  BY <1>1 DEF Forward
<1>3. CASE r \in asked \/ (home[r] \in Simple /\ r \in died)
  BY <1>2, <1>3 DEF Reason, Forward
<1>4. CASE home[r] \in Containers /\ task[first[r]] = "failed"
  <2>1. first[r] \in Chans
    BY <1>4 DEF Roots, Root
  <2> QED BY <1>2, <1>4, <2>1 DEF Reason, Forward
<1>5. CASE /\ home[r] \in Containers
           /\ \A c \in Chans : parent[c] = r /\ Registered(c) => c \in died \cup dropped
  <2>1. ASSUME NEW c \in Chans, parent'[c] = r, Registered(c)' PROVE c \in died' \cup dropped'
    <3>1. task[c] # "new" /\ parent[c] = r
      BY <2>1 DEF Forward, Registered
    <3>2. Registered(c)
      BY <2>1, <3>1 DEF Forward
    <3> QED BY <1>5, <3>1, <3>2 DEF Forward
  <2> QED BY <1>2, <1>5, <2>1 DEF Reason
<1> QED BY <1>3, <1>4, <1>5 DEF Reason

(* Every connection ends for a reason of its own.                          *)
LEMMA ReasonsStep ==
  Inv /\ Roots /\ Stages /\ Deaths /\ KidStates /\ EndsForItsOwnReason /\ [Next]_vars
    => EndsForItsOwnReason'
<1> SUFFICES ASSUME Inv, Roots, Stages, Deaths, KidStates, EndsForItsOwnReason, [Next]_vars,
                    NEW x \in Runtimes, conn'[x] # "none", ~Connected(x)'
             PROVE  Reason(x)'
  BY DEF EndsForItsOwnReason, Reason, Registered
<1> USE DEF storeVars, planeVars, cleanVars, taskVars, history
<1>0. StoreTypes /\ PlaneTypes /\ CleanTypes /\ TaskTypes /\ HistoryTypes /\ ChannelsKnown
  BY DEF Inv, TypeOK
<1>a. CASE conn[x] # "none" /\ ~Connected(x)
  <2>1. Reason(x)
    BY <1>a DEF EndsForItsOwnReason, Reason, Registered
  <2> QED BY <1>a, <2>1, ReasonStays, ForwardStep
<1> SUFFICES ASSUME conn[x] = "none" \/ Connected(x) PROVE Reason(x)'
  BY <1>a
<1>b. Connected(x) => conn[x] # "none" /\ x < next /\ home'[x] = home[x] /\ first'[x] = first[x]
  <2>1. Connected(x) => conn[x] # "none" /\ x < next
    BY RuntimeFacts DEF Roots, Root, Connected
  <2> QED BY <2>1, ForwardStep DEF Forward
<1>c. \A c \in Chans : c \in Planes
  BY DEF Planes
<1>e. ASSUME UNCHANGED <<rt, up, home, conn>> PROVE FALSE
  BY <1>b, <1>e, StoreKeeps
<1>f. ASSUME NEW r \in Runtimes, Closes({r}), \A y \in Runtimes : conn[y] = "none" => conn'[y] = "none"
      PROVE  x = r /\ Connected(r)
  BY <1>f DEF Closes
<1>1. ASSUME NEW id \in Simple, CreateSession(id) PROVE Reason(x)'
  <2>0. id \in Ids
    BY DEF Ids
  <2>1. /\ next \in Runtimes /\ home'[next] = id
        /\ \A y \in Runtimes : y # next => (Connected(y)' <=> Connected(y))
    BY <1>1, <2>0, AllocateKeeps DEF CreateSession
  <2>2. \A y \in Runtimes : y = next => Connected(y)' \/ conn' = conn
    BY <1>1, <1>0, <2>0, <2>1, BoundsAssumption
       DEF CreateSession, Connected, Current, StoreTypes, Purged, Ids
  <2>3. \A y \in Runtimes : y # next => conn'[y] = conn[y]
    BY <1>1, <1>0 DEF CreateSession, TaskTypes
  <2>4. \A y \in Runtimes : y = next => ~Connected(y)
    <3>1. next \in Nat
      BY <1>0, BoundsAssumption DEF StoreTypes
    <3> QED BY <3>1, RuntimeFacts DEF Connected
  <2> QED BY <1>b, <2>1, <2>2, <2>3, <2>4
<1>2. ASSUME NEW id \in Containers, NEW c \in Chans, CreateContainer(id, c) PROVE Reason(x)'
  <2>0. id \in Ids
    BY DEF Ids
  <2>1. /\ next \in Runtimes /\ home'[next] = id
        /\ \A y \in Runtimes : y # next => (Connected(y)' <=> Connected(y))
    BY <1>2, <2>0, AllocateKeeps DEF CreateContainer
  <2>2. \A y \in Runtimes : y = next => Connected(y)'
    BY <1>2, <1>0, <2>0, <2>1, BoundsAssumption
       DEF CreateContainer, Connected, Current, StoreTypes, Purged, Ids
  <2>3. \A y \in Runtimes : y # next => conn'[y] = conn[y]
    BY <1>2, <1>0 DEF CreateContainer, TaskTypes
  <2> QED BY <1>b, <2>1, <2>2, <2>3
<1>3. ASSUME NEW id \in Ids, CreateRefused(id) PROVE Reason(x)'
  <2>1. \A y \in Runtimes : Connected(y)' <=> Connected(y)
    BY <1>3, RefusedKeeps
  <2> QED BY <1>3, <2>1, <1>b DEF CreateRefused
<1>4. ASSUME NEW r \in Runtimes, ConnectSetup(r) PROVE Reason(x)'
  <2>0. /\ \A y \in Runtimes : conn[y] = "none" => conn'[y] = "none"
        /\ conn[r] = "setup" /\ UNCHANGED <<rt, home, task, parent, first, died, dropped>>
        /\ Registered(first[r]) \/ task[first[r]] = "failed"
    BY <1>4, <1>0 DEF ConnectSetup, TaskTypes, Registered
  <2>1. CASE Current(r) /\ CloseSession(r) /\ ~ChildConnected(first[r])
    <3>1. Closes({r})
      BY <1>4, <2>1, CloseCloses DEF ConnectSetup
    <3>2. x = r /\ Connected(r)
      BY <2>0, <3>1, <1>f
    <3>3. /\ home[r] \in Containers /\ first[r] \in Chans /\ parent[first[r]] = r
          /\ \A c \in Chans : task[c] # "new" /\ parent[c] = r => c = first[r]
      BY <2>0 DEF Roots, Root
    <3>4. CASE task[first[r]] = "failed"
      BY <2>0, <3>2, <3>3, <3>4 DEF Reason
    <3>5. CASE Registered(first[r])
      <4>1. first[r] \in dropped \cup died
        BY <2>1, <3>2, <3>3, <3>5 DEF KidStates, ChildConnected
      <4>2. \A c \in Chans : parent[c] = r /\ Registered(c) => c = first[r]
        BY <3>3 DEF Registered
      <4> QED BY <2>0, <3>2, <3>3, <4>1, <4>2 DEF Reason, Registered
    <3> QED BY <2>0, <3>4, <3>5
  <2>2. CASE UNCHANGED up
    BY <1>b, <2>0, <2>2, StoreKeeps
  <2> QED BY <1>4, <2>1, <2>2 DEF ConnectSetup, CloseIfCurrent
<1>5. ASSUME NEW r \in Runtimes, ConnectPublish(r) PROVE Reason(x)'
  <2>0. \A y \in Runtimes : conn[y] = "none" => conn'[y] = "none"
    BY <1>5, <1>0 DEF ConnectPublish, TaskTypes
  <2> QED BY <1>5, <2>0, <1>b, StoreKeeps DEF ConnectPublish
<1>6. ASSUME NEW c \in Chans, NEW r \in Runtimes, OpenChannel(c, r) PROVE Reason(x)'
  BY <1>6, <1>e DEF OpenChannel
<1>7. ASSUME NEW c \in Chans, ChannelAttach(c) PROVE Reason(x)'
  BY <1>7, <1>e DEF ChannelAttach
<1>8. ASSUME NEW c \in Chans, ChannelRegister(c) PROVE Reason(x)'
  BY <1>8, <1>e DEF ChannelRegister
<1>9. ASSUME NEW c \in Chans, ChannelPublish(c) PROVE Reason(x)'
  <2>0. task[c] = "registered" /\ parent[c] \in Runtimes
    BY <1>9, <1>0 DEF ChannelPublish, ChannelsKnown
  <2>1. c = first[parent[c]] => conn[parent[c]] = "child"
    BY <1>9 DEF ChannelPublish
  <2>2. \A y \in Runtimes : conn[y] = "none" => conn'[y] = "none"
    BY <1>9, <2>0, <2>1, <1>0 DEF ChannelPublish, TaskTypes
  <2> QED BY <1>9, <2>2, <1>b, StoreKeeps DEF ChannelPublish
<1>10. ASSUME NEW p \in Planes, ActorDies(p) PROVE Reason(x)'
  BY <1>10, <1>e DEF ActorDies
<1>11. ASSUME NEW p \in Planes, ActorStops(p) PROVE Reason(x)'
  BY <1>11, <1>e DEF ActorStops
<1>12. ASSUME NEW p \in Planes, PumpStart(p) PROVE Reason(x)'
  BY <1>12, <1>e DEF PumpStart
<1>13. ASSUME NEW p \in Planes, PumpEnd(p) PROVE Reason(x)'
  BY <1>13, <1>e DEF PumpEnd
<1>14. ASSUME NEW r \in Runtimes, RootLost(r) PROVE Reason(x)'
  <2>1. CASE Connected(r) /\ CloseSession(r)
    <3>1. Closes({r})
      BY <1>14, <2>1, CloseCloses DEF RootLost, Connected
    <3>2. x = r
      BY <1>14, <3>1, <1>f DEF RootLost
    <3>3. r \in Planes /\ pump[r] = "closing"
      BY <1>14, RuntimeFacts DEF RootLost
    <3>4. home[r] \in Simple /\ r \in died
      BY <3>3 DEF Roots, Root, Deaths
    <3> QED BY <1>14, <3>2, <3>4 DEF Reason, RootLost
  <2>2. CASE UNCHANGED up
    BY <1>14, <2>2, <1>e DEF RootLost
  <2> QED BY <1>14, <2>1, <2>2 DEF RootLost
<1>15. ASSUME NEW c \in Chans, ChannelLost(c) PROVE Reason(x)'
  <2>0. /\ task[c] # "new" /\ pump[c] = "closing" /\ parent[c] \in Runtimes
        /\ UNCHANGED <<rt, home, conn, first, task, parent, died, dropped>>
    BY <1>15, <1>0 DEF ChannelLost, ChannelsKnown, Untouched
  <2>1. CASE ChildConnected(c) /\ ActiveKids(parent[c]) = {c} /\ CloseSession(parent[c])
    <3>1. Closes({parent[c]})
      BY <1>15, <2>0, <2>1, ParentCloses DEF ChannelLost, ChildConnected, Connected
    <3>2. x = parent[c] /\ Connected(parent[c])
      BY <2>0, <3>1, <1>f
    <3>3. home[x] \in Containers /\ c \in died
      BY <2>0, <3>2, <1>c DEF Stages, Stage, Deaths
    <3>4. ASSUME NEW d \in Chans, parent[d] = x, Registered(d) PROVE d \in died \cup dropped
      <4>1. d \in kids[x] /\ d \in kidUp => d = c
        BY <2>1, <3>2 DEF ActiveKids
      <4> QED BY <3>2, <3>3, <3>4, <4>1 DEF KidStates
    <3> QED BY <2>0, <3>3, <3>4 DEF Reason, Registered
  <2>2. CASE UNCHANGED up
    BY <2>0, <2>2, <1>e
  <2> QED BY <1>15, <2>1, <2>2 DEF ChannelLost
<1>16. ASSUME NEW u \in Users, NEW r \in Runtimes, Disconnect(u, r) PROVE Reason(x)'
  <2>1. Closes({r})
    BY <1>16, CloseCloses DEF Disconnect
  <2>2. x = r /\ Connected(r)
    BY <1>16, <2>1, <1>f DEF Disconnect
  <2> QED BY <1>16, <2>2 DEF Disconnect, Reason, Connected
<1>17. ASSUME NEW u \in Users, NEW c \in Chans, CloseChannel(u, c) PROVE Reason(x)'
  <2>0. /\ task[c] # "new" /\ Current(parent[c]) /\ parent[c] \in Runtimes
        /\ dropped' = dropped \cup {c}
        /\ UNCHANGED <<rt, home, conn, first, task, parent, died>>
    BY <1>17, <1>0 DEF CloseChannel, ChannelsKnown, Untouched
  <2>1. CASE ActiveKids(parent[c]) \subseteq {c} /\ CloseSession(parent[c])
    <3>1. Closes({parent[c]})
      BY <1>17, <2>0, <2>1, ParentCloses DEF CloseChannel
    <3>2. x = parent[c] /\ Connected(parent[c])
      BY <2>0, <3>1, <1>f
    <3>3. home[x] \in Containers
      BY <2>0, <3>2 DEF Stages, Stage
    <3>4. ASSUME NEW d \in Chans, parent[d] = x, Registered(d) PROVE d \in died \cup dropped'
      <4>1. d \in kids[x] /\ d \in kidUp => d = c
        BY <2>1, <3>2 DEF ActiveKids
      <4> QED BY <2>0, <3>2, <3>4, <4>1 DEF KidStates
    <3> QED BY <2>0, <3>3, <3>4 DEF Reason, Registered
  <2>2. CASE UNCHANGED up
    BY <2>0, <2>2, <1>e
  <2> QED BY <1>17, <2>1, <2>2 DEF CloseChannel
<1>18. ASSUME NEW u \in Users, CommandDone(u) PROVE Reason(x)'
  BY <1>18, <1>e DEF CommandDone
<1>19. ASSUME AppExit PROVE Reason(x)'
  <2>1. \A y \in Runtimes : Connected(y) => y \in asked'
    BY <1>19 DEF AppExit
  <2> QED BY <1>19, <2>1, <1>b DEF AppExit, Reason
<1>20. ASSUME NEW p \in Planes, CleanupRequest(p) PROVE Reason(x)'
  BY <1>20, <1>e DEF CleanupRequest
<1>21. ASSUME NEW p \in Planes, CleanupJoin(p) PROVE Reason(x)'
  BY <1>21, <1>e DEF CleanupJoin
<1>22. ASSUME NEW r \in Runtimes, CleanupDetach(r) PROVE Reason(x)'
  BY <1>22, <1>e DEF CleanupDetach
<1>23. ASSUME UNCHANGED vars PROVE Reason(x)'
  BY <1>23, <1>e DEF vars
<1> QED
  BY <1>1, <1>2, <1>3, <1>4, <1>5, <1>6, <1>7, <1>8, <1>9, <1>10, <1>11, <1>12, <1>13,
     <1>14, <1>15, <1>16, <1>17, <1>18, <1>19, <1>20, <1>21, <1>22, <1>23
     DEF Next, ConnectStep, ChannelStep, PlaneStep, UserStep
-----------------------------------------------------------------------------
(* The first channel of a container is registered.                         *)
FirstIn(r) == task[first[r]] \in {"registered", "done"}

(* A container that is up has a channel that is, or none registered yet.   *)
LEMMA NoEmptyStep ==
  Inv /\ Roots /\ Hands /\ NoEmptyContainer /\ [Next]_vars => NoEmptyContainer'
<1> SUFFICES ASSUME Inv, Roots, Hands, NoEmptyContainer, [Next]_vars PROVE NoEmptyContainer'
  OBVIOUS
<1> USE DEF storeVars, planeVars, cleanVars, taskVars, history
<1>0. StoreTypes /\ PlaneTypes /\ CleanTypes /\ TaskTypes /\ HistoryTypes /\ ChannelsKnown
  BY DEF Inv, TypeOK
<1>a. \A x \in Runtimes :
        Connected(x) => /\ x < next /\ home'[x] = home[x] /\ first'[x] = first[x]
                        /\ home[x] \in Containers => first[x] \in Chans /\ parent[first[x]] = x
                                                     /\ task[first[x]] # "new"
  <2>1. \A x \in Runtimes : Connected(x) => x < next /\ conn[x] # "none"
    BY RuntimeFacts DEF Connected, Roots, Root
  <2> QED BY <2>1, ForwardStep DEF Forward, Roots, Root
<1>e. ASSUME \A x \in Runtimes : home'[x] \in Containers /\ Connected(x)' =>
               Connected(x) \/ ~FirstIn(x)',
             \A x \in Runtimes : Connected(x)' => kids[x] \subseteq kids'[x],
             kidUp \subseteq kidUp',
             \A c \in Chans : task[c] # "new" /\ Registered(c)' => Registered(c),
             \A x \in Runtimes : home'[x] \in Containers /\ Connected(x)' => first'[x] \in Chans
      PROVE  NoEmptyContainer'
  <2> SUFFICES ASSUME NEW x \in Runtimes, Connected(x)', home'[x] \in Containers,
                      FirstIn(x)'
               PROVE  kids'[x] \cap kidUp' # {}
    BY DEF NoEmptyContainer, ActiveKids, FirstIn
  <2>1. Connected(x)
    BY <1>e
  <2>2. Registered(first[x]) /\ home[x] \in Containers
    <3>1. /\ home[x] \in Containers /\ first'[x] = first[x] /\ first[x] \in Chans
          /\ task[first[x]] # "new"
      BY <2>1, <1>a
    <3>2. Registered(first[x])'
      BY <3>1 DEF FirstIn, Registered
    <3> QED BY <3>1, <3>2, <1>e
  <2>3. kids[x] \cap kidUp # {}
    BY <2>1, <2>2 DEF NoEmptyContainer, ActiveKids, Registered
  <2> QED BY <2>3, <1>e
<1>f. ASSUME \A x \in Runtimes : Connected(x)' => Connected(x) /\ kids[x] \subseteq kids'[x],
             kidUp \subseteq kidUp',
             \A c \in Chans : task[c] # "new" /\ Registered(c)' => Registered(c)
      PROVE  NoEmptyContainer'
  <2>1. \A x \in Runtimes : home'[x] \in Containers /\ Connected(x)' => first'[x] \in Chans
    BY <1>a, <1>f
  <2> QED BY <1>e, <1>f, <2>1
<1>g. ASSUME UNCHANGED <<rt, up, home, kids, kidUp>>,
             \A c \in Chans : task[c] # "new" /\ Registered(c)' => Registered(c)
      PROVE  NoEmptyContainer'
  BY <1>f, <1>g, StoreKeeps
<1>h. ASSUME UNCHANGED task PROVE \A c \in Chans : Registered(c)' => Registered(c)
  BY <1>h DEF Registered
<1>i. ASSUME NEW S, Closes(S), UNCHANGED <<kidUp, task>> PROVE NoEmptyContainer'
  <2>1. \A x \in Runtimes : Connected(x)' => Connected(x) /\ kids[x] \subseteq kids'[x]
    BY <1>i DEF Closes
  <2> QED BY <1>i, <2>1, <1>f, <1>h
<1>1. ASSUME NEW id \in Simple, CreateSession(id) PROVE NoEmptyContainer'
  <2>0. id \in Ids /\ id \notin Containers
    BY BoundsAssumption DEF Ids
  <2>1. /\ next \in Runtimes /\ home'[next] = id
        /\ \A x \in Runtimes : x # next => (Connected(x)' <=> Connected(x))
    BY <1>1, <2>0, AllocateKeeps DEF CreateSession
  <2>2. UNCHANGED <<kids, kidUp, task, first>>
    BY <1>1 DEF CreateSession
  <2>3. \A x \in Runtimes : home'[x] \in Containers /\ Connected(x)' => Connected(x)
    BY <2>0, <2>1
  <2>4. \A x \in Runtimes : home'[x] \in Containers /\ Connected(x)' => first'[x] \in Chans
    BY <2>3, <1>a
  <2> QED BY <2>2, <2>3, <2>4, <1>e, <1>h
<1>2. ASSUME NEW id \in Containers, NEW c \in Chans, CreateContainer(id, c) PROVE NoEmptyContainer'
  <2>0. id \in Ids
    BY DEF Ids
  <2>1. /\ next \in Runtimes
        /\ \A x \in Runtimes : x # next => (Connected(x)' <=> Connected(x))
    BY <1>2, <2>0, AllocateKeeps DEF CreateContainer
  <2>2. /\ task[c] = "new" /\ task'[c] = "opened" /\ first'[next] = c
        /\ \A d \in Chans : d # c => task'[d] = task[d]
        /\ UNCHANGED <<kids, kidUp>>
    BY <1>2, <2>1, <1>0 DEF CreateContainer, TaskTypes
  <2>3. /\ ~Registered(c)'
        /\ \A d \in Chans : task[d] # "new" /\ Registered(d)' => Registered(d)
    BY <2>2 DEF Registered
  <2>4. \A x \in Runtimes : home'[x] \in Containers /\ Connected(x)' =>
          Connected(x) \/ ~FirstIn(x)'
    BY <2>1, <2>2, <2>3 DEF FirstIn, Registered
  <2>5. \A x \in Runtimes : home'[x] \in Containers /\ Connected(x)' => first'[x] \in Chans
    BY <2>1, <2>2, <1>a
  <2> QED BY <2>2, <2>3, <2>4, <2>5, <1>e
<1>3. ASSUME NEW id \in Ids, CreateRefused(id) PROVE NoEmptyContainer'
  <2>1. \A x \in Runtimes : Connected(x)' <=> Connected(x)
    BY <1>3, RefusedKeeps
  <2> QED BY <1>3, <2>1, <1>f, <1>h DEF CreateRefused
<1>4. ASSUME NEW r \in Runtimes, ConnectSetup(r) PROVE NoEmptyContainer'
  <2>1. CASE Current(r) /\ CloseSession(r)
    <3>1. Closes({r})
      BY <1>4, <2>1, CloseCloses DEF ConnectSetup
    <3> QED BY <1>4, <3>1, <1>i DEF ConnectSetup
  <2>2. CASE UNCHANGED <<up, kids, cleanup>>
    BY <1>4, <2>2, <1>g, <1>h DEF ConnectSetup
  <2> QED BY <1>4, <2>1, <2>2 DEF ConnectSetup, CloseIfCurrent
<1>5. ASSUME NEW r \in Runtimes, ConnectPublish(r) PROVE NoEmptyContainer'
  BY <1>5, <1>g, <1>h DEF ConnectPublish
<1>6. ASSUME NEW c \in Chans, NEW r \in Runtimes, OpenChannel(c, r) PROVE NoEmptyContainer'
  <2>1. task'[c] = "opened" /\ \A d \in Chans : d # c => task'[d] = task[d]
    BY <1>6, <1>0 DEF OpenChannel, TaskTypes
  <2>2. \A d \in Chans : Registered(d)' => Registered(d)
    BY <2>1 DEF Registered
  <2> QED BY <1>6, <2>2, <1>g DEF OpenChannel
<1>7. ASSUME NEW c \in Chans, ChannelAttach(c) PROVE NoEmptyContainer'
  <2>1. task'[c] \in {"attached", "failed"} /\ \A d \in Chans : d # c => task'[d] = task[d]
    BY <1>7, <1>0 DEF ChannelAttach, TaskTypes
  <2>2. \A d \in Chans : Registered(d)' => Registered(d)
    BY <2>1 DEF Registered
  <2> QED BY <1>7, <2>2, <1>g DEF ChannelAttach
<1>8. ASSUME NEW c \in Chans, ChannelRegister(c) PROVE NoEmptyContainer'
  <2>1. /\ task[c] = "attached" /\ \A d \in Chans : d # c => task'[d] = task[d]
        /\ UNCHANGED <<rt, up, home, first>>
    BY <1>8, <1>0 DEF ChannelRegister, TaskTypes
  <2>2. \A x \in Runtimes : Connected(x)' <=> Connected(x)
    BY <2>1, StoreKeeps
  <2>3. CASE task'[c] = "failed" /\ kids' = kids /\ kidUp' = kidUp
    <3>1. \A d \in Chans : Registered(d)' => Registered(d)
      BY <2>1, <2>3 DEF Registered
    <3> QED BY <2>1, <2>3, <3>1, <1>g
  <2>4. CASE kidUp' = kidUp \cup {c} /\ kids' = [kids EXCEPT ![parent[c]] = @ \cup {c}]
    <3>1. parent[c] \in Runtimes
      BY <2>1, <1>0 DEF ChannelsKnown
    <3>2. /\ \A x \in Runtimes : kids[x] \subseteq kids'[x]
          /\ c \in kids'[parent[c]] /\ c \in kidUp'
      BY <2>4, <3>1, <1>0 DEF StoreTypes
    <3>3. \A d \in Chans : Registered(d)' => d = c \/ Registered(d)
      BY <2>1 DEF Registered
    <3> SUFFICES ASSUME NEW x \in Runtimes, Connected(x), home[x] \in Containers,
                        Registered(first[x])'
                 PROVE  kids'[x] \cap kidUp' # {}
      BY <2>1, <2>2 DEF NoEmptyContainer, ActiveKids, Registered
    <3>4. CASE first[x] = c
      BY <3>2, <3>4, <1>a
    <3>5. CASE first[x] # c
      <4>1. kids[x] \cap kidUp # {}
        BY <3>3, <3>5, <1>a DEF NoEmptyContainer, ActiveKids, Registered
      <4> QED BY <4>1, <3>2, <2>4
    <3> QED BY <3>4, <3>5
  <2> QED BY <1>8, <1>0, <2>3, <2>4 DEF ChannelRegister, TaskTypes
<1>9. ASSUME NEW c \in Chans, ChannelPublish(c) PROVE NoEmptyContainer'
  <2>1. task[c] = "registered" /\ \A d \in Chans : d # c => task'[d] = task[d]
    BY <1>9, <1>0 DEF ChannelPublish, TaskTypes
  <2>2. \A d \in Chans : Registered(d)' => Registered(d)
    BY <2>1 DEF Registered
  <2> QED BY <1>9, <2>2, <1>g DEF ChannelPublish
<1>10. ASSUME NEW p \in Planes, ActorDies(p) PROVE NoEmptyContainer'
  BY <1>10, <1>g, <1>h DEF ActorDies
<1>11. ASSUME NEW p \in Planes, ActorStops(p) PROVE NoEmptyContainer'
  BY <1>11, <1>g, <1>h DEF ActorStops
<1>12. ASSUME NEW p \in Planes, PumpStart(p) PROVE NoEmptyContainer'
  BY <1>12, <1>g, <1>h DEF PumpStart
<1>13. ASSUME NEW p \in Planes, PumpEnd(p) PROVE NoEmptyContainer'
  BY <1>13, <1>g, <1>h DEF PumpEnd
<1>14. ASSUME NEW r \in Runtimes, RootLost(r) PROVE NoEmptyContainer'
  <2>2. CASE Connected(r) /\ CloseSession(r)
    <3>1. Closes({r})
      BY <1>14, <2>2, CloseCloses DEF RootLost, Connected
    <3> QED BY <1>14, <3>1, <1>i DEF RootLost
  <2>3. CASE UNCHANGED <<up, kids, cleanup>>
    BY <1>14, <2>3, <1>g, <1>h DEF RootLost
  <2> QED BY <1>14, <2>2, <2>3 DEF RootLost
<1>15. ASSUME NEW c \in Chans, ChannelLost(c) PROVE NoEmptyContainer'
  <2>1. task[c] # "new" /\ UNCHANGED <<rt, home, task, first, parent>> /\ parent[c] \in Runtimes
    BY <1>15, <1>0 DEF ChannelLost, ChannelsKnown, Untouched
  <2>a. \A x \in Runtimes : c \in kids[x] => x = parent[c]
    BY <1>0 DEF ChannelsKnown
  <2>2. CASE ChildConnected(c) /\ CloseSession(parent[c]) /\ kidUp' = kidUp \ {c}
    <3>1. Closes({parent[c]})
      BY <1>15, <2>1, <2>2, ParentCloses DEF ChannelLost, ChildConnected, Connected
    <3>2. \A x \in Runtimes : Connected(x)' => Connected(x) /\ x # parent[c] /\ kids'[x] = kids[x]
      BY <3>1 DEF Closes
    <3> QED BY <2>1, <2>2, <2>a, <3>2 DEF NoEmptyContainer, ActiveKids
  <2>3. CASE /\ kidUp' = kidUp \ {c} /\ UNCHANGED <<up, kids>>
             /\ ChildConnected(c) /\ ActiveKids(parent[c]) # {c}
    <3>1. \A x \in Runtimes : Connected(x)' <=> Connected(x)
      BY <2>1, <2>3, StoreKeeps
    <3>2. kids[parent[c]] \cap (kidUp \ {c}) # {}
      BY <2>3 DEF ActiveKids, ChildConnected
    <3> QED BY <2>1, <2>3, <2>a, <3>1, <3>2 DEF NoEmptyContainer, ActiveKids
  <2>4. CASE UNCHANGED <<up, kids, kidUp>>
    BY <2>1, <2>4, <1>g, <1>h
  <2> QED BY <1>15, <2>2, <2>3, <2>4 DEF ChannelLost
<1>16. ASSUME NEW u \in Users, NEW r \in Runtimes, Disconnect(u, r) PROVE NoEmptyContainer'
  <2>1. Closes({r})
    BY <1>16, CloseCloses DEF Disconnect
  <2> QED BY <1>16, <2>1, <1>i DEF Disconnect
<1>17. ASSUME NEW u \in Users, NEW c \in Chans, CloseChannel(u, c) PROVE NoEmptyContainer'
  <2>0. /\ task[c] # "new" /\ Current(parent[c]) /\ parent[c] \in Runtimes
        /\ UNCHANGED <<rt, home, task, first, kidUp>>
    BY <1>17, <1>0 DEF CloseChannel, ChannelsKnown, Untouched
  <2>1. CASE CloseSession(parent[c])
    <3>1. Closes({parent[c]})
      BY <1>17, <2>0, <2>1, ParentCloses DEF CloseChannel
    <3> QED BY <2>0, <3>1, <1>i
  <2>2. CASE /\ ~(ActiveKids(parent[c]) \subseteq {c})
             /\ kids' = [kids EXCEPT ![parent[c]] = @ \ {c}] /\ UNCHANGED up
    <3>1. \A x \in Runtimes : Connected(x)' <=> Connected(x)
      BY <2>0, <2>2, StoreKeeps
    <3>2. /\ \A x \in Runtimes : x # parent[c] => kids'[x] = kids[x]
          /\ kids'[parent[c]] = kids[parent[c]] \ {c}
      BY <2>0, <2>2, <1>0 DEF StoreTypes
    <3>3. kids'[parent[c]] \cap kidUp # {}
      BY <2>2, <3>2 DEF ActiveKids
    <3> QED BY <2>0, <3>1, <3>2, <3>3 DEF NoEmptyContainer, ActiveKids
  <2> QED BY <1>17, <2>1, <2>2 DEF CloseChannel
<1>18. ASSUME NEW u \in Users, CommandDone(u) PROVE NoEmptyContainer'
  BY <1>18, <1>g, <1>h DEF CommandDone
<1>19. ASSUME AppExit PROVE NoEmptyContainer'
  <2>1. Closes({x \in Runtimes : Connected(x)})
    BY <1>19, ExitCloses
  <2> QED BY <1>19, <2>1, <1>i DEF AppExit
<1>20. ASSUME NEW p \in Planes, CleanupRequest(p) PROVE NoEmptyContainer'
  BY <1>20, <1>g, <1>h DEF CleanupRequest
<1>21. ASSUME NEW p \in Planes, CleanupJoin(p) PROVE NoEmptyContainer'
  BY <1>21, <1>g, <1>h DEF CleanupJoin
<1>22. ASSUME NEW r \in Runtimes, CleanupDetach(r) PROVE NoEmptyContainer'
  BY <1>22, <1>g, <1>h DEF CleanupDetach
<1>23. ASSUME UNCHANGED vars PROVE NoEmptyContainer'
  BY <1>23, <1>g, <1>h DEF vars
<1> QED
  BY <1>1, <1>2, <1>3, <1>4, <1>5, <1>6, <1>7, <1>8, <1>9, <1>10, <1>11, <1>12, <1>13,
     <1>14, <1>15, <1>16, <1>17, <1>18, <1>19, <1>20, <1>21, <1>22, <1>23
     DEF Next, ConnectStep, ChannelStep, PlaneStep, UserStep

(* A parent keeps to its budget: both of an opener's critical sections     *)
(* count.                                                                  *)
LEMMA BudgetStep == Inv /\ Hands /\ Budget /\ [Next]_vars => Budget'
<1> SUFFICES ASSUME Inv, Hands, Budget, [Next]_vars PROVE Budget'
  OBVIOUS
<1> USE DEF storeVars, planeVars, cleanVars, taskVars, history
<1>0. StoreTypes /\ PlaneTypes /\ CleanTypes /\ TaskTypes /\ HistoryTypes /\ ChannelsKnown
  BY DEF Inv, TypeOK
<1>e. ASSUME NEW x \in Runtimes, ActiveKids(x)' \subseteq ActiveKids(x)
      PROVE  IsFiniteSet(ActiveKids(x)') /\ Cardinality(ActiveKids(x)') <= MaxChildren
  <2> DEFINE A == ActiveKids(x)
             B == ActiveKids(x)'
  <2>1. B \subseteq A /\ IsFiniteSet(A) /\ Cardinality(A) <= MaxChildren
    BY <1>e DEF Budget
  <2> HIDE DEF A, B
  <2>2. IsFiniteSet(B) /\ Cardinality(B) <= Cardinality(A)
    BY <2>1, FS_Subset
  <2>3. Cardinality(A) \in Nat /\ Cardinality(B) \in Nat
    BY <2>1, <2>2, FS_CardinalityType
  <2>4. IsFiniteSet(B) /\ Cardinality(B) <= MaxChildren
    BY <2>1, <2>2, <2>3, BoundsAssumption
  <2> QED BY <2>4 DEF B
<1>f. ASSUME \A x \in Runtimes : kids'[x] \subseteq kids[x], kidUp' \subseteq kidUp PROVE Budget'
  BY <1>e, <1>f DEF Budget, ActiveKids
<1>g. ASSUME NEW S, Closes(S), kidUp' \subseteq kidUp PROVE Budget'
  <2>1. \A x \in Runtimes : kids'[x] \subseteq kids[x]
    BY <1>g DEF Closes
  <2> QED BY <1>g, <2>1, <1>f
<1>1. ASSUME NEW id \in Simple, CreateSession(id) PROVE Budget'
  BY <1>1, <1>f DEF CreateSession
<1>2. ASSUME NEW id \in Containers, NEW c \in Chans, CreateContainer(id, c) PROVE Budget'
  BY <1>2, <1>f DEF CreateContainer
<1>3. ASSUME NEW id \in Ids, CreateRefused(id) PROVE Budget'
  BY <1>3, <1>f DEF CreateRefused
<1>4. ASSUME NEW r \in Runtimes, ConnectSetup(r) PROVE Budget'
  <2>1. CASE Current(r) /\ CloseSession(r)
    <3>1. Closes({r})
      BY <1>4, <2>1, CloseCloses DEF ConnectSetup
    <3> QED BY <1>4, <3>1, <1>g DEF ConnectSetup
  <2>2. CASE UNCHANGED kids
    BY <1>4, <2>2, <1>f DEF ConnectSetup
  <2> QED BY <1>4, <2>1, <2>2 DEF ConnectSetup, CloseIfCurrent
<1>5. ASSUME NEW r \in Runtimes, ConnectPublish(r) PROVE Budget'
  BY <1>5, <1>f DEF ConnectPublish
<1>6. ASSUME NEW c \in Chans, NEW r \in Runtimes, OpenChannel(c, r) PROVE Budget'
  BY <1>6, <1>f DEF OpenChannel
<1>7. ASSUME NEW c \in Chans, ChannelAttach(c) PROVE Budget'
  BY <1>7, <1>f DEF ChannelAttach
<1>8. ASSUME NEW c \in Chans, ChannelRegister(c) PROVE Budget'
  <2>1. CASE UNCHANGED <<kids, kidUp>>
    BY <2>1, <1>f
  <2>2. CASE /\ Cardinality(ActiveKids(parent[c])) < MaxChildren
             /\ kids' = [kids EXCEPT ![parent[c]] = @ \cup {c}] /\ kidUp' = kidUp \cup {c}
    <3>1. parent[c] \in Runtimes /\ ~Registered(c)
      BY <1>8, <1>0 DEF ChannelRegister, ChannelsKnown, Registered
    <3>2. /\ \A x \in Runtimes : x # parent[c] => kids'[x] = kids[x]
          /\ kids'[parent[c]] = kids[parent[c]] \cup {c}
          /\ \A x \in Runtimes : c \notin kids[x]
      BY <2>2, <3>1, <1>0 DEF StoreTypes, Hands
    <3>3. ASSUME NEW x \in Runtimes, x # parent[c]
          PROVE  IsFiniteSet(ActiveKids(x)') /\ Cardinality(ActiveKids(x)') <= MaxChildren
      <4>1. ActiveKids(x)' \subseteq ActiveKids(x)
        BY <2>2, <3>2, <3>3 DEF ActiveKids
      <4> QED BY <4>1, <1>e
    <3>4. ASSUME NEW x \in Runtimes, x = parent[c]
          PROVE  IsFiniteSet(ActiveKids(x)') /\ Cardinality(ActiveKids(x)') <= MaxChildren
      <4> DEFINE A == ActiveKids(x)
                 B == ActiveKids(x)'
      <4>1. B = A \cup {c}
        BY <2>2, <3>2, <3>4 DEF ActiveKids
      <4>2. c \notin A /\ IsFiniteSet(A) /\ Cardinality(A) < MaxChildren
        BY <2>2, <3>2, <3>4 DEF ActiveKids, Budget
      <4> HIDE DEF A, B
      <4>3. IsFiniteSet(A \cup {c}) /\ Cardinality(A \cup {c}) = Cardinality(A) + 1
        BY <4>2, FS_AddElement
      <4>4. Cardinality(A) \in Nat
        BY <4>2, FS_CardinalityType
      <4>5. IsFiniteSet(B) /\ Cardinality(B) <= MaxChildren
        BY <4>1, <4>2, <4>3, <4>4, BoundsAssumption
      <4> QED BY <4>5 DEF B
    <3> QED BY <3>3, <3>4 DEF Budget
  <2> QED BY <1>8, <2>1, <2>2 DEF ChannelRegister
<1>9. ASSUME NEW c \in Chans, ChannelPublish(c) PROVE Budget'
  BY <1>9, <1>f DEF ChannelPublish
<1>10. ASSUME NEW p \in Planes, ActorDies(p) PROVE Budget'
  BY <1>10, <1>f DEF ActorDies
<1>11. ASSUME NEW p \in Planes, ActorStops(p) PROVE Budget'
  BY <1>11, <1>f DEF ActorStops
<1>12. ASSUME NEW p \in Planes, PumpStart(p) PROVE Budget'
  BY <1>12, <1>f DEF PumpStart
<1>13. ASSUME NEW p \in Planes, PumpEnd(p) PROVE Budget'
  BY <1>13, <1>f DEF PumpEnd
<1>14. ASSUME NEW r \in Runtimes, RootLost(r) PROVE Budget'
  <2>2. CASE Connected(r) /\ CloseSession(r)
    <3>1. Closes({r})
      BY <1>14, <2>2, CloseCloses DEF RootLost, Connected
    <3> QED BY <1>14, <3>1, <1>g DEF RootLost
  <2>3. CASE UNCHANGED kids
    BY <1>14, <2>3, <1>f DEF RootLost
  <2> QED BY <1>14, <2>2, <2>3 DEF RootLost
<1>15. ASSUME NEW c \in Chans, ChannelLost(c) PROVE Budget'
  <2>1. task[c] # "new" /\ kidUp' \subseteq kidUp
    BY <1>15, <1>0 DEF ChannelLost, ChannelsKnown, Untouched
  <2>2. CASE ChildConnected(c) /\ CloseSession(parent[c])
    <3>1. Closes({parent[c]})
      BY <1>15, <2>1, <2>2, ParentCloses DEF ChannelLost, ChildConnected, Connected
    <3> QED BY <2>1, <3>1, <1>g
  <2>3. CASE UNCHANGED kids
    BY <2>1, <2>3, <1>f
  <2> QED BY <1>15, <2>2, <2>3 DEF ChannelLost
<1>16. ASSUME NEW u \in Users, NEW r \in Runtimes, Disconnect(u, r) PROVE Budget'
  <2>1. Closes({r})
    BY <1>16, CloseCloses DEF Disconnect
  <2> QED BY <1>16, <2>1, <1>g DEF Disconnect
<1>17. ASSUME NEW u \in Users, NEW c \in Chans, CloseChannel(u, c) PROVE Budget'
  <2>0. task[c] # "new" /\ Current(parent[c]) /\ parent[c] \in Runtimes /\ UNCHANGED kidUp
    BY <1>17, <1>0 DEF CloseChannel, ChannelsKnown, Untouched
  <2>1. CASE CloseSession(parent[c])
    <3>1. Closes({parent[c]})
      BY <1>17, <2>0, <2>1, ParentCloses DEF CloseChannel
    <3> QED BY <2>0, <3>1, <1>g
  <2>2. CASE kids' = [kids EXCEPT ![parent[c]] = @ \ {c}]
    <3>1. \A x \in Runtimes : kids'[x] \subseteq kids[x]
      BY <2>2, <1>0 DEF StoreTypes
    <3> QED BY <2>0, <3>1, <1>f
  <2> QED BY <1>17, <2>1, <2>2 DEF CloseChannel
<1>18. ASSUME NEW u \in Users, CommandDone(u) PROVE Budget'
  BY <1>18, <1>f DEF CommandDone
<1>19. ASSUME AppExit PROVE Budget'
  <2>1. Closes({x \in Runtimes : Connected(x)})
    BY <1>19, ExitCloses
  <2> QED BY <1>19, <2>1, <1>g DEF AppExit
<1>20. ASSUME NEW p \in Planes, CleanupRequest(p) PROVE Budget'
  BY <1>20, <1>f DEF CleanupRequest
<1>21. ASSUME NEW p \in Planes, CleanupJoin(p) PROVE Budget'
  BY <1>21, <1>f DEF CleanupJoin
<1>22. ASSUME NEW r \in Runtimes, CleanupDetach(r) PROVE Budget'
  BY <1>22, <1>f DEF CleanupDetach
<1>23. ASSUME UNCHANGED vars PROVE Budget'
  BY <1>23, <1>f DEF vars
<1> QED
  BY <1>1, <1>2, <1>3, <1>4, <1>5, <1>6, <1>7, <1>8, <1>9, <1>10, <1>11, <1>12, <1>13,
     <1>14, <1>15, <1>16, <1>17, <1>18, <1>19, <1>20, <1>21, <1>22, <1>23
     DEF Next, ConnectStep, ChannelStep, PlaneStep, UserStep
-----------------------------------------------------------------------------
(* A command that is to announce an end waits for a closed connection.     *)
LEMMA CommandsStep == Inv /\ Hands /\ Commands /\ [Next]_vars => Commands'
<1> SUFFICES ASSUME Inv, Hands, Commands, [Next]_vars PROVE Commands'
  OBVIOUS
<1> USE DEF storeVars, planeVars, cleanVars, taskVars, history
<1>0. StoreTypes /\ PlaneTypes /\ CleanTypes /\ TaskTypes /\ HistoryTypes /\ ChannelsKnown
  BY DEF Inv, TypeOK
<1>c. next \in Nat
  BY <1>0, BoundsAssumption DEF StoreTypes
<1>d. \A u \in Users : Ends(u) => user[u].r \in Runtimes
  BY <1>0 DEF TaskTypes, Ends, Idle
<1>e. ASSUME UNCHANGED user, next' \in Nat, next' >= next,
             \A x \in Runtimes : x < next /\ Connected(x)' => Connected(x),
             \A x \in Runtimes : x \in asked' => x \in asked \/ Connected(x),
             asked \subseteq asked'
      PROVE  Commands'
  <2>1. \A u \in Users : Ends(u)' <=> Ends(u)
    BY <1>e DEF Ends
  <2>2. ASSUME NEW u \in Users, Ends(u) PROVE user[u].r < next' /\ ~Connected(user[u].r)'
    <3>1. user[u].r \in Runtimes /\ user[u].r < next /\ ~Connected(user[u].r)
      BY <2>2, <1>d DEF Commands
    <3>2. user[u].r \in Nat
      BY <3>1, RuntimeFacts
    <3>3. ~Connected(user[u].r)'
      <4>1. \A x \in Runtimes : x = user[u].r => ~Connected(x)'
        BY <1>e, <3>1
      <4> QED BY <1>e, <4>1, <3>1
    <3> QED BY <3>1, <3>2, <3>3, <1>c, <1>e
  <2>3. \A u \in Users :
          user[u].cmd = "disconnect" /\ user[u].waits # {} => user[u].r \in asked'
    BY <1>e DEF Commands
  <2>4. \A u \in Users : user[u].cmd = "close" /\ user[u].detach => user[u].r \notin asked'
    BY <1>d, <1>e DEF Commands, Ends
  <2> QED BY <1>e, <2>1, <2>2, <2>3, <2>4 DEF Commands
<1>f. ASSUME UNCHANGED <<user, next, rt, up, home, asked>> PROVE Commands'
  BY <1>c, <1>e, <1>f, StoreKeeps
<1>g. ASSUME NEW S, Closes(S), UNCHANGED user, asked \subseteq asked',
             \A x \in Runtimes : x \in asked' => x \in asked \/ Connected(x)
      PROVE  Commands'
  BY <1>c, <1>e, <1>g DEF Closes
<1>1. ASSUME NEW id \in Simple, CreateSession(id) PROVE Commands'
  <2>0. id \in Ids
    BY DEF Ids
  <2>1. /\ next' = next + 1 /\ next \in Runtimes
        /\ \A x \in Runtimes : x # next => (Connected(x)' <=> Connected(x))
    BY <1>1, <2>0, AllocateKeeps DEF CreateSession
  <2>2. next' \in Nat /\ next' >= next /\ \A x \in Runtimes : x < next => x # next
    BY <2>1, <1>c
  <2> QED BY <1>1, <2>1, <2>2, <1>e DEF CreateSession
<1>2. ASSUME NEW id \in Containers, NEW c \in Chans, CreateContainer(id, c) PROVE Commands'
  <2>0. id \in Ids
    BY DEF Ids
  <2>1. /\ next' = next + 1 /\ next \in Runtimes
        /\ \A x \in Runtimes : x # next => (Connected(x)' <=> Connected(x))
    BY <1>2, <2>0, AllocateKeeps DEF CreateContainer
  <2>2. next' \in Nat /\ next' >= next /\ \A x \in Runtimes : x < next => x # next
    BY <2>1, <1>c
  <2> QED BY <1>2, <2>1, <2>2, <1>e DEF CreateContainer
<1>3. ASSUME NEW id \in Ids, CreateRefused(id) PROVE Commands'
  <2>1. \A x \in Runtimes : Connected(x)' <=> Connected(x)
    BY <1>3, RefusedKeeps
  <2> QED BY <1>3, <2>1, <1>c, <1>e DEF CreateRefused
<1>4. ASSUME NEW r \in Runtimes, ConnectSetup(r) PROVE Commands'
  <2>1. CASE Current(r) /\ CloseSession(r)
    <3>1. Closes({r})
      BY <1>4, <2>1, CloseCloses DEF ConnectSetup
    <3> QED BY <1>4, <3>1, <1>g DEF ConnectSetup
  <2>2. CASE UNCHANGED <<up, kids, cleanup>>
    BY <1>4, <2>2, <1>f DEF ConnectSetup
  <2> QED BY <1>4, <2>1, <2>2 DEF ConnectSetup, CloseIfCurrent
<1>5. ASSUME NEW r \in Runtimes, ConnectPublish(r) PROVE Commands'
  BY <1>5, <1>f DEF ConnectPublish
<1>6. ASSUME NEW c \in Chans, NEW r \in Runtimes, OpenChannel(c, r) PROVE Commands'
  BY <1>6, <1>f DEF OpenChannel
<1>7. ASSUME NEW c \in Chans, ChannelAttach(c) PROVE Commands'
  BY <1>7, <1>f DEF ChannelAttach
<1>8. ASSUME NEW c \in Chans, ChannelRegister(c) PROVE Commands'
  BY <1>8, <1>f DEF ChannelRegister
<1>9. ASSUME NEW c \in Chans, ChannelPublish(c) PROVE Commands'
  BY <1>9, <1>f DEF ChannelPublish
<1>10. ASSUME NEW p \in Planes, ActorDies(p) PROVE Commands'
  BY <1>10, <1>f DEF ActorDies
<1>11. ASSUME NEW p \in Planes, ActorStops(p) PROVE Commands'
  BY <1>11, <1>f DEF ActorStops
<1>12. ASSUME NEW p \in Planes, PumpStart(p) PROVE Commands'
  BY <1>12, <1>f DEF PumpStart
<1>13. ASSUME NEW p \in Planes, PumpEnd(p) PROVE Commands'
  BY <1>13, <1>f DEF PumpEnd
<1>14. ASSUME NEW r \in Runtimes, RootLost(r) PROVE Commands'
  <2>2. CASE Connected(r) /\ CloseSession(r)
    <3>1. Closes({r})
      BY <1>14, <2>2, CloseCloses DEF RootLost, Connected
    <3> QED BY <1>14, <3>1, <1>g DEF RootLost
  <2>3. CASE UNCHANGED <<up, kids, cleanup>>
    BY <1>14, <2>3, <1>f DEF RootLost
  <2> QED BY <1>14, <2>2, <2>3 DEF RootLost
<1>15. ASSUME NEW c \in Chans, ChannelLost(c) PROVE Commands'
  <2>1. task[c] # "new"
    BY <1>15, <1>0 DEF ChannelLost, ChannelsKnown, Untouched
  <2>2. CASE ChildConnected(c) /\ CloseSession(parent[c])
    <3>1. Closes({parent[c]})
      BY <1>15, <2>1, <2>2, ParentCloses DEF ChannelLost, ChildConnected, Connected
    <3> QED BY <1>15, <3>1, <1>g DEF ChannelLost
  <2>3. CASE UNCHANGED <<up, kids>>
    BY <1>15, <2>3, <1>f DEF ChannelLost
  <2> QED BY <1>15, <2>2, <2>3 DEF ChannelLost
<1>16. ASSUME NEW u \in Users, NEW r \in Runtimes, Disconnect(u, r) PROVE Commands'
  <2>1. Closes({r}) /\ r < next /\ (Connected(r) <=> up[home[r]])
    BY <1>16, CloseCloses, RuntimeFacts DEF Disconnect
  <2>2. /\ \A v \in Users : ~(user[v].cmd = "disconnect" /\ user[v].r = r)
        /\ asked' = (IF up[home[r]] THEN asked \cup {r} ELSE asked)
    BY <1>16 DEF Disconnect
  <2>3. /\ user'[u] = [cmd |-> "disconnect", r |-> r, waits |-> Taken(r), detach |-> up[home[r]]]
        /\ \A v \in Users : v # u => user'[v] = user[v]
        /\ UNCHANGED next
    BY <1>16, <1>0 DEF Disconnect, TaskTypes
  <2>4. \A v \in Users : v # u => (Ends(v)' <=> Ends(v))
    BY <2>3 DEF Ends
  <2>5. Taken(r) # {} => r \in asked'
    <3>1. kids[r] # {} => Connected(r)
      BY DEF Hands
    <3> QED BY <3>1, <2>1, <2>2 DEF Taken
  <2>6. \A x \in Runtimes : Connected(x)' => Connected(x) /\ x # r
    BY <2>1 DEF Closes
  <2>7. \A v, w \in Users :
          user'[v].cmd = "disconnect" /\ user'[w].cmd = "disconnect" /\ user'[v].r = user'[w].r
            => v = w
    BY <2>2, <2>3 DEF Commands
  <2>8. ASSUME NEW v \in Users, Ends(v)'
        PROVE  user'[v].r < next' /\ \A x \in Runtimes : x = user'[v].r => ~Connected(x)'
    <3>1. CASE v = u
      BY <3>1, <2>1, <2>3, <2>6
    <3>2. CASE v # u
      BY <3>2, <2>8, <2>3, <2>4, <2>6 DEF Commands
    <3> QED BY <3>1, <3>2
  <2>9. \A v \in Users : user'[v].cmd = "disconnect" /\ user'[v].waits # {} => user'[v].r \in asked'
    BY <2>2, <2>3, <2>5 DEF Commands
  <2>10. \A v \in Users : user'[v].cmd = "close" /\ user'[v].detach => user'[v].r \notin asked'
    <3>1. \A v \in Users : user[v].cmd = "close" /\ user[v].detach =>
            user[v].r \notin asked /\ ~Connected(user[v].r)
      BY DEF Commands, Ends
    <3> QED BY <3>1, <2>1, <2>2, <2>3
  <2>11. \A v \in Users : Ends(v)' => user'[v].r \in Runtimes
    BY <2>3, <2>4, <1>d
  <2>12. \A v \in Users : Ends(v)' => ~Connected(user[v].r)'
    BY <2>8, <2>11
  <2> QED BY <2>7, <2>8, <2>9, <2>10, <2>12 DEF Commands
<1>17. ASSUME NEW u \in Users, NEW c \in Chans, CloseChannel(u, c) PROVE Commands'
  <2>0. /\ task[c] # "new" /\ Current(parent[c]) /\ parent[c] \in Runtimes
        /\ c \in kids[parent[c]] /\ UNCHANGED <<next, rt, home, asked>>
    BY <1>17, <1>0 DEF CloseChannel, ChannelsKnown, Untouched
  <2>1. Connected(parent[c]) /\ parent[c] \notin asked /\ parent[c] < next
    <3>1. Connected(parent[c])
      BY <2>0 DEF Hands
    <3> QED BY <3>1, <2>0, RuntimeFacts DEF Inv, Losses, LossesKnown, Connected
  <2>2. \E W, d : /\ user' = [user EXCEPT ![u] = [cmd |-> "close", r |-> parent[c], waits |-> W,
                                                  detach |-> d]]
                  /\ d \in BOOLEAN
                  /\ d => CloseSession(parent[c])
                  /\ ~d => UNCHANGED up
    BY <1>17 DEF CloseChannel
  <2>3. PICK W, d : /\ user' = [user EXCEPT ![u] = [cmd |-> "close", r |-> parent[c],
                                                    waits |-> W, detach |-> d]]
                    /\ d \in BOOLEAN
                    /\ d => CloseSession(parent[c])
                    /\ ~d => UNCHANGED up
    BY <2>2
  <2>4. /\ user'[u] = [cmd |-> "close", r |-> parent[c], waits |-> W, detach |-> d]
        /\ \A v \in Users : v # u => user'[v] = user[v]
    BY <2>3, <1>0 DEF TaskTypes
  <2>5. /\ \A x \in Runtimes : Connected(x)' => Connected(x)
        /\ \A x \in Runtimes : d /\ x = parent[c] => ~Connected(x)'
    <3>1. CASE d
      <4>1. Closes({parent[c]})
        BY <1>17, <2>0, <2>3, <3>1, ParentCloses DEF CloseChannel
      <4> QED BY <4>1 DEF Closes
    <3>2. CASE ~d
      BY <2>0, <2>3, <3>2, StoreKeeps
    <3> QED BY <3>1, <3>2, <2>3
  <2>6. \A v \in Users : v # u => (Ends(v)' <=> Ends(v))
    BY <2>4 DEF Ends
  <2>7. Ends(u)' <=> d
    BY <2>3, <2>4 DEF Ends
  <2>8. \A v, w \in Users :
          user'[v].cmd = "disconnect" /\ user'[w].cmd = "disconnect" /\ user'[v].r = user'[w].r
            => v = w
    BY <2>4 DEF Commands
  <2>9. ASSUME NEW v \in Users, Ends(v)'
        PROVE  /\ user'[v].r < next' /\ user'[v].r \in Runtimes
               /\ \A x \in Runtimes : x = user'[v].r => ~Connected(x)'
    <3>1. CASE v = u
      BY <3>1, <2>9, <2>0, <2>1, <2>4, <2>5, <2>7
    <3>2. CASE v # u
      BY <3>2, <2>9, <2>0, <2>4, <2>5, <2>6, <1>d DEF Commands
    <3> QED BY <3>1, <3>2
  <2>10. \A v \in Users : Ends(v)' => ~Connected(user[v].r)'
    BY <2>9
  <2>11. \A v \in Users : user'[v].cmd = "disconnect" /\ user'[v].waits # {} => user'[v].r \in asked'
    BY <2>0, <2>4 DEF Commands
  <2>12. \A v \in Users : user'[v].cmd = "close" /\ user'[v].detach => user'[v].r \notin asked'
    BY <2>0, <2>1, <2>4 DEF Commands
  <2> QED BY <2>8, <2>9, <2>10, <2>11, <2>12 DEF Commands
<1>18. ASSUME NEW u \in Users, CommandDone(u) PROVE Commands'
  <2>1. /\ user'[u] = Idle /\ \A v \in Users : v # u => user'[v] = user[v]
        /\ UNCHANGED <<next, rt, up, home, asked>>
    BY <1>18, <1>0 DEF CommandDone, TaskTypes
  <2>2. \A v \in Users : Ends(v)' => Ends(v) /\ user'[v] = user[v]
    BY <2>1 DEF Ends, Idle
  <2>3. \A x \in Runtimes : Connected(x)' <=> Connected(x)
    BY <2>1, StoreKeeps
  <2>4. \A v \in Users : Ends(v)' => user'[v].r < next' /\ ~Connected(user[v].r)'
    <3> SUFFICES ASSUME NEW v \in Users, Ends(v)'
                 PROVE  user'[v].r < next' /\ ~Connected(user[v].r)'
      OBVIOUS
    <3>1. user'[v].r = user[v].r /\ user[v].r \in Runtimes /\ user[v].r < next /\ ~Connected(user[v].r)
      BY <2>2, <1>d DEF Commands
    <3>2. \A x \in Runtimes : x = user'[v].r => ~Connected(x)'
      BY <3>1, <2>3
    <3> QED BY <3>1, <3>2, <2>1
  <2> QED BY <2>1, <2>4 DEF Commands, Idle
<1>19. ASSUME AppExit PROVE Commands'
  <2>1. Closes({x \in Runtimes : Connected(x)})
    BY <1>19, ExitCloses
  <2> QED BY <1>19, <2>1, <1>g DEF AppExit
<1>20. ASSUME NEW p \in Planes, CleanupRequest(p) PROVE Commands'
  BY <1>20, <1>f DEF CleanupRequest
<1>21. ASSUME NEW p \in Planes, CleanupJoin(p) PROVE Commands'
  BY <1>21, <1>f DEF CleanupJoin
<1>22. ASSUME NEW r \in Runtimes, CleanupDetach(r) PROVE Commands'
  BY <1>22, <1>f DEF CleanupDetach
<1>23. ASSUME UNCHANGED vars PROVE Commands'
  BY <1>23, <1>f DEF vars
<1> QED
  BY <1>1, <1>2, <1>3, <1>4, <1>5, <1>6, <1>7, <1>8, <1>9, <1>10, <1>11, <1>12, <1>13,
     <1>14, <1>15, <1>16, <1>17, <1>18, <1>19, <1>20, <1>21, <1>22, <1>23
     DEF Next, ConnectStep, ChannelStep, PlaneStep, UserStep

(* Who a plane that makes a noise belongs to.                              *)
LEMMA LoudOwner ==
  ASSUME Inv, Roots, Stages, KidStates, NEW p \in Planes, NEW x \in Runtimes, x = RuntimeOf(p),
         Loud(p)
  PROVE  \/ p = x /\ home[x] \in Simple
         \/ /\ p \in Chans /\ parent[p] = x /\ Registered(p) /\ home[x] \in Containers
            /\ Connected(x) => p \in kids[x] /\ p \in kidUp
<1>1. p \notin dropped /\ pump[p] \in {"active", "paused"}
  BY DEF Loud
<1>2. CASE p \in Runtimes
  <2>1. p = x
    BY <1>2, RuntimesAreNoChannels DEF RuntimeOf
  <2> QED BY <1>1, <2>1 DEF Roots, Root
<1>3. CASE p \in Chans
  <2>1. parent[p] = x /\ Stage(p)
    BY <1>3 DEF RuntimeOf, Stages
  <2>2. task[p] # "new" /\ task[p] # "opened"
    BY <1>1, <1>3, <2>1 DEF Inv, ChannelsKnown, Untouched, Stage
  <2>3. task[p] # "attached" /\ task[p] # "failed"
    BY <1>1, <1>3, <2>1 DEF Stage, Loud
  <2>4. Registered(p)
    BY <1>3, <2>2, <2>3 DEF Inv, TypeOK, TaskTypes, Registered
  <2>5. home[x] \in Containers
    BY <2>1, <2>2 DEF Stage
  <2>6. Connected(x) => p \in kids[x] /\ p \in kidUp
    BY <1>1, <1>3, <2>1, <2>4 DEF KidStates
  <2> QED BY <1>3, <2>1, <2>4, <2>5, <2>6
<1> QED BY <1>2, <1>3 DEF Planes

(* A plane falls silent before its connection is said to have ended.       *)
LEMMA QuietStep ==
  Inv /\ Roots /\ Stages /\ Hands /\ Deaths /\ KidStates /\ Commands /\ Quiet /\ [Next]_vars
    => Quiet'
<1> SUFFICES ASSUME Inv, Roots, Stages, Hands, Deaths, KidStates, Commands, Quiet, [Next]_vars
             PROVE  Quiet'
  OBVIOUS
<1> USE DEF storeVars, planeVars, cleanVars, taskVars, history
<1>0. StoreTypes /\ PlaneTypes /\ CleanTypes /\ TaskTypes /\ HistoryTypes /\ ChannelsKnown
  BY DEF Inv, TypeOK
<1>a. \A x \in Runtimes : x \in Nat \ {0} /\ x \notin Chans /\ x \in Planes
  BY RuntimeFacts
<1>b. \A c \in Chans : c \in Planes
  BY DEF Planes
<1>c. next \in Nat /\ ended \subseteq Runtimes /\ \A x \in ended : x < next
  <2>1. next \in Nat /\ ended \subseteq Runtimes
    BY <1>0, BoundsAssumption DEF StoreTypes, HistoryTypes
  <2>2. \A x \in ended : ~(x >= next)
    BY <2>1 DEF Roots, Root
  <2> QED BY <2>1, <2>2, <1>a
<1> DEFINE Said(p, x) == x \notin ended' /\ (~Connected(x)' => Awaited(p, x)')
<1>d. ASSUME \A x \in ended' : ~Connected(x)',
             ~exited' => \A p \in Planes, x \in Runtimes : Loud(p)' /\ x = RuntimeOf(p)' => Said(p, x)
      PROVE  Quiet'
  BY <1>d DEF Quiet
<1>e. ASSUME NEW p \in Planes, NEW x \in Runtimes, Loud(p), x = RuntimeOf(p), ~exited,
             x \in ended' => x \in ended,
             Connected(x) => Connected(x)',
             p \in cleanup[x] => p \in cleanup'[x],
             \A u \in Users : user[u].cmd = "disconnect" /\ p \in user[u].waits
                              /\ p \in cleanup[x] => user'[u] = user[u]
      PROVE  Said(p, x)
  <2>1. x \notin ended /\ (~Connected(x) => Awaited(p, x))
    BY <1>e DEF Quiet
  <2>2. Awaited(p, x) => Awaited(p, x)'
    BY <1>e DEF Awaited
  <2> QED BY <1>e, <2>1, <2>2
<1>f. ASSUME NEW p \in Planes, Loud(p) PROVE RuntimeOf(p)' = RuntimeOf(p)
  <2>1. p \in Chans => task[p] # "new"
    BY <1>f, <1>0 DEF Loud, ChannelsKnown, Untouched
  <2> QED BY <2>1, ForwardStep DEF Forward, RuntimeOf
<1>g. ASSUME UNCHANGED <<user, ended>>,
             \A x \in Runtimes : x < next => (Connected(x)' <=> Connected(x)),
             \A p \in Planes, x \in Runtimes : Loud(p) /\ x = RuntimeOf(p) => Connected(x)' \/ ~Connected(x),
             \A p \in Planes, x \in Runtimes : Loud(p)' /\ p \in cleanup[x] => p \in cleanup'[x],
             exited => exited',
             \A p \in Planes : Loud(p)' => Loud(p)
      PROVE  Quiet'
  <2>1. \A x \in ended' : ~Connected(x)'
    BY <1>c, <1>g DEF Quiet
  <2>2. ASSUME ~exited', NEW p \in Planes, NEW x \in Runtimes, Loud(p)', x = RuntimeOf(p)'
        PROVE  Said(p, x)
    BY <2>2, <1>e, <1>f, <1>g
  <2> QED BY <2>1, <2>2, <1>d
<1>h. ASSUME UNCHANGED <<user, ended, rt, up, home, cleanup, exited>>,
             \A p \in Planes : Loud(p)' => Loud(p)
      PROVE  Quiet'
  BY <1>g, <1>h, StoreKeeps
<1>i. ASSUME UNCHANGED <<task, dropped, pump>>, shutReq \subseteq shutReq'
      PROVE  \A p \in Planes : Loud(p)' => Loud(p)
  BY <1>i DEF Loud
<1>j. ASSUME NEW S, Closes(S), exited' = exited,
             \A x \in ended' : x \in ended \/ x \in S,
             \A p \in Planes : Loud(p)' => Loud(p),
             \A u \in Users : user[u] # Idle => user'[u] = user[u],
             \A p \in Planes, x \in Runtimes :
               ~exited /\ Loud(p) /\ Loud(p)' /\ x = RuntimeOf(p) /\ x \in S /\ Connected(x)
                 => x \notin ended' /\ Awaited(p, x)',
             \A x \in S : x \in ended' => Connected(x) \/ x \in ended,
             ended' \subseteq Runtimes
      PROVE  Quiet'
  <2>1. \A x \in ended' : ~Connected(x)'
    BY <1>c, <1>j DEF Quiet, Closes
  <2>2. ASSUME ~exited', NEW p \in Planes, NEW x \in Runtimes, Loud(p)', x = RuntimeOf(p)'
        PROVE  Said(p, x)
    <3>1. Loud(p) /\ x = RuntimeOf(p) /\ ~exited
      BY <2>2, <1>f, <1>j
    <3>2. CASE x \in S /\ Connected(x)
      BY <2>2, <3>1, <3>2, <1>j
    <3>3. CASE ~(x \in S /\ Connected(x))
      <4>1. (Connected(x) => Connected(x)') /\ (p \in cleanup[x] => p \in cleanup'[x])
        BY <3>3, <1>j DEF Closes
      <4>2. x \in ended' => x \in ended
        BY <3>3, <1>j
      <4>3. \A u \in Users : user[u].cmd = "disconnect" => user'[u] = user[u]
        BY <1>j DEF Idle
      <4> QED BY <3>1, <4>1, <4>2, <4>3, <1>e
    <3> QED BY <3>2, <3>3
  <2> QED BY <2>1, <2>2, <1>d
<1>1. ASSUME NEW id \in Simple, CreateSession(id) PROVE Quiet'
  <2>0. id \in Ids
    BY DEF Ids
  <2>1. /\ next \in Runtimes /\ home'[next] = id
        /\ \A x \in Runtimes : x # next => (Connected(x)' <=> Connected(x))
    BY <1>1, <2>0, AllocateKeeps DEF CreateSession
  <2>2. \A x \in Runtimes : x = next => Connected(x)' \/ pump' = pump
    BY <1>1, <1>0, <2>0, <2>1, BoundsAssumption
       DEF CreateSession, Connected, Current, StoreTypes, Purged, Ids
  <2>3. UNCHANGED <<user, ended, cleanup, exited, task, parent, dropped, shutReq>>
    BY <1>1 DEF CreateSession
  <2>4. \A p \in Planes : p # next => pump'[p] = pump[p]
    BY <1>1, <2>1, <1>0, <1>a DEF CreateSession, PlaneTypes
  <2>5. \A x \in ended' : ~Connected(x)'
    BY <2>1, <2>3, <1>c DEF Quiet
  <2>6. ASSUME ~exited', NEW p \in Planes, NEW x \in Runtimes, Loud(p)', x = RuntimeOf(p)'
        PROVE  Said(p, x)
    <3>1. CASE p = next
      <4>1. x = next /\ x \notin ended
        BY <3>1, <2>6, <2>1, <1>a, <1>c DEF RuntimeOf
      <4>2. pump[p] = "none"
        BY <3>1, <2>1, <1>c DEF Roots, Root
      <4>3. pump' # pump
        BY <2>6, <4>2, <1>a DEF Loud
      <4> QED BY <2>2, <2>3, <4>1, <4>3
    <3>2. CASE p # next
      <4>1. Loud(p)
        BY <3>2, <2>6, <2>3, <2>4 DEF Loud
      <4>2. x = RuntimeOf(p) /\ ~exited
        BY <4>1, <2>6, <2>3, <1>f
      <4>3. Connected(x) => Connected(x)'
        <5>1. Connected(x) => x # next
          BY RuntimeFacts DEF Connected
        <5> QED BY <5>1, <2>1
      <4> QED BY <4>1, <4>2, <4>3, <2>3, <1>e
    <3> QED BY <3>1, <3>2
  <2> QED BY <2>5, <2>6, <1>d
<1>2. ASSUME NEW id \in Containers, NEW c \in Chans, CreateContainer(id, c) PROVE Quiet'
  <2>0. id \in Ids
    BY DEF Ids
  <2>1. /\ next \in Runtimes
        /\ \A x \in Runtimes : x # next => (Connected(x)' <=> Connected(x))
    BY <1>2, <2>0, AllocateKeeps DEF CreateContainer
  <2>2. \A x \in Runtimes : (x < next \/ Connected(x)) => x # next
    <3>1. \A x \in Runtimes : Connected(x) => x < next
      BY RuntimeFacts DEF Connected
    <3> QED BY <3>1, <1>c
  <2>3. task[c] = "new" /\ \A d \in Chans : d # c => task'[d] = task[d]
    BY <1>2, <1>0 DEF CreateContainer, TaskTypes
  <2>4. UNCHANGED <<user, ended, cleanup, exited, dropped, pump, shutReq>>
    BY <1>2 DEF CreateContainer
  <2>5. ASSUME NEW p \in Planes, Loud(p)' PROVE Loud(p)
    <3>1. p # c
      BY <2>3, <2>4, <2>5, <1>0 DEF Loud, ChannelsKnown, Untouched
    <3> QED BY <3>1, <2>3, <2>4, <2>5 DEF Loud
  <2> QED BY <2>1, <2>2, <2>4, <2>5, <1>g
<1>3. ASSUME NEW id \in Ids, CreateRefused(id) PROVE Quiet'
  <2>1. \A x \in Runtimes : Connected(x)' <=> Connected(x)
    BY <1>3, RefusedKeeps
  <2>2. UNCHANGED <<user, ended, cleanup, exited, task, dropped, pump, shutReq>>
    BY <1>3 DEF CreateRefused
  <2> QED BY <2>1, <2>2, <1>g, <1>i
<1>4. ASSUME NEW r \in Runtimes, ConnectSetup(r) PROVE Quiet'
  <2>0. /\ conn[r] = "setup"
        /\ UNCHANGED <<user, ended, exited, task, dropped, pump, shutReq, rt, home>>
    BY <1>4 DEF ConnectSetup
  <2>1. CASE Current(r) /\ CloseSession(r) /\ ~ChildConnected(first[r])
    <3>1. Closes({r})
      BY <1>4, <2>1, CloseCloses DEF ConnectSetup
    <3>2. ASSUME NEW p \in Planes, Loud(p), RuntimeOf(p) = r, Connected(r) PROVE FALSE
      <4>1. /\ home[r] \in Containers /\ first[r] \in Chans /\ parent[first[r]] = r
            /\ \A d \in Chans : task[d] # "new" /\ parent[d] = r => d = first[r]
        BY <2>0 DEF Roots, Root
      <4>2. p \in Chans /\ parent[p] = r /\ Registered(p) /\ p \in kids[r] /\ p \in kidUp
        BY <3>2, <4>1, LoudOwner, BoundsAssumption
      <4>3. p = first[r]
        BY <4>1, <4>2 DEF Registered
      <4> QED BY <2>1, <3>2, <4>1, <4>2, <4>3 DEF ChildConnected
    <3>3. \A p \in Planes : Loud(p)' => Loud(p)
      BY <2>0, <1>i
    <3> QED BY <2>0, <3>1, <3>2, <3>3, <1>c, <1>j
  <2>2. CASE UNCHANGED <<up, cleanup>>
    BY <2>0, <2>2, <1>h, <1>i
  <2> QED BY <1>4, <2>1, <2>2 DEF ConnectSetup, CloseIfCurrent
<1>5. ASSUME NEW r \in Runtimes, ConnectPublish(r) PROVE Quiet'
  BY <1>5, <1>h, <1>i DEF ConnectPublish
<1>6. ASSUME NEW c \in Chans, NEW r \in Runtimes, OpenChannel(c, r) PROVE Quiet'
  <2>1. /\ task[c] = "new" /\ \A d \in Chans : d # c => task'[d] = task[d]
        /\ UNCHANGED <<user, ended, cleanup, exited, dropped, pump, shutReq, rt, up, home>>
    BY <1>6, <1>0 DEF OpenChannel, TaskTypes
  <2>2. ASSUME NEW p \in Planes, Loud(p)' PROVE Loud(p)
    <3>1. p # c
      BY <2>1, <2>2, <1>0 DEF Loud, ChannelsKnown, Untouched
    <3> QED BY <3>1, <2>1, <2>2 DEF Loud
  <2> QED BY <2>1, <2>2, <1>h
<1>7. ASSUME NEW c \in Chans, ChannelAttach(c) PROVE Quiet'
  <2>1. /\ task[c] = "opened" /\ \A d \in Chans : d # c => task'[d] = task[d]
        /\ \A p \in Planes : p # c => pump'[p] = pump[p]
        /\ \/ task'[c] = "attached" /\ pump'[c] = "paused"
           \/ pump' = pump
        /\ UNCHANGED <<user, ended, cleanup, exited, dropped, shutReq, rt, up, home>>
    BY <1>7, <1>0, <1>b DEF ChannelAttach, TaskTypes, PlaneTypes
  <2>2. ASSUME NEW p \in Planes, Loud(p)' PROVE Loud(p)
    <3>1. p # c
      BY <2>1, <2>2 DEF Loud, Stages, Stage
    <3> QED BY <3>1, <2>1, <2>2 DEF Loud
  <2> QED BY <2>1, <2>2, <1>h
<1>8. ASSUME NEW c \in Chans, ChannelRegister(c) PROVE Quiet'
  <2>1. /\ task[c] = "attached" /\ \A d \in Chans : d # c => task'[d] = task[d]
        /\ UNCHANGED <<user, ended, cleanup, exited, dropped, rt, up, home, pump, parent>>
        /\ shutReq \subseteq shutReq'
        /\ Connected(parent[c]) \/ c \in shutReq'
    BY <1>8, <1>0 DEF ChannelRegister, TaskTypes
  <2>2. \A x \in Runtimes : Connected(x)' <=> Connected(x)
    BY <2>1, StoreKeeps
  <2>3. \A x \in ended' : ~Connected(x)'
    BY <2>1, <2>2, <1>c DEF Quiet
  <2>4. ASSUME ~exited', NEW p \in Planes, NEW x \in Runtimes, Loud(p)', x = RuntimeOf(p)'
        PROVE  Said(p, x)
    <3>1. CASE p = c
      <4>1. pump[c] = "paused"
        BY <2>1 DEF Stages, Stage
      <4>2. c \notin shutReq'
        BY <2>1, <2>4, <3>1, <4>1 DEF Loud
      <4>3. Connected(parent[c]) /\ x = parent[c]
        BY <2>1, <2>4, <3>1, <4>2 DEF RuntimeOf
      <4>4. Connected(x) /\ x \notin ended
        BY <4>3 DEF Quiet
      <4> QED BY <4>4, <2>1, <2>2
    <3>2. CASE p # c
      <4>1. Loud(p)
        BY <3>2, <2>1, <2>4 DEF Loud
      <4>2. x = RuntimeOf(p) /\ ~exited
        BY <4>1, <2>4, <2>1, <1>f
      <4> QED BY <4>1, <4>2, <2>1, <2>2, <1>e
    <3> QED BY <3>1, <3>2
  <2> QED BY <2>3, <2>4, <1>d
<1>9. ASSUME NEW c \in Chans, ChannelPublish(c) PROVE Quiet'
  <2>1. /\ task[c] = "registered" /\ \A d \in Chans : d # c => task'[d] = task[d]
        /\ UNCHANGED <<user, ended, cleanup, exited, dropped, pump, shutReq, rt, up, home>>
    BY <1>9, <1>0 DEF ChannelPublish, TaskTypes
  <2>2. ASSUME NEW p \in Planes, Loud(p)' PROVE Loud(p)
    <3>1. p \in Chans /\ task[p] = "attached" => task'[p] = "attached"
      BY <2>1
    <3> QED BY <3>1, <2>1, <2>2 DEF Loud
  <2> QED BY <2>1, <2>2, <1>h
<1>10. ASSUME NEW p \in Planes, ActorDies(p) PROVE Quiet'
  BY <1>10, <1>h, <1>i DEF ActorDies
<1>11. ASSUME NEW p \in Planes, ActorStops(p) PROVE Quiet'
  BY <1>11, <1>h, <1>i DEF ActorStops
<1>12. ASSUME NEW p \in Planes, PumpStart(p) PROVE Quiet'
  <2>1. /\ pump[p] = "paused" /\ p \in activated
        /\ pump'[p] = (IF p \in shutReq THEN "done" ELSE "active")
        /\ \A q \in Planes : q # p => pump'[q] = pump[q]
        /\ UNCHANGED <<user, ended, cleanup, exited, dropped, shutReq, rt, up, home, task>>
    BY <1>12, <1>0 DEF PumpStart, PlaneTypes
  <2>2. ASSUME NEW q \in Planes, Loud(q)' PROVE Loud(q)
    <3>1. CASE q = p
      <4>1. p \notin shutReq
        BY <2>1, <2>2, <3>1 DEF Loud
      <4>2. ~(p \in Chans /\ task[p] = "attached")
        BY <2>1 DEF Stages, Stage
      <4> QED BY <2>1, <2>2, <3>1, <4>1, <4>2 DEF Loud
    <3>2. CASE q # p
      BY <2>1, <2>2, <3>2 DEF Loud
    <3> QED BY <3>1, <3>2
  <2> QED BY <2>1, <2>2, <1>h
<1>13. ASSUME NEW p \in Planes, PumpEnd(p) PROVE Quiet'
  <2>1. /\ pump'[p] \in {"done", "closing"}
        /\ \A q \in Planes : q # p => pump'[q] = pump[q]
        /\ UNCHANGED <<user, ended, cleanup, exited, dropped, shutReq, rt, up, home, task>>
    BY <1>13, <1>0 DEF PumpEnd, PlaneTypes
  <2>2. \A q \in Planes : Loud(q)' => Loud(q)
    BY <2>1 DEF Loud
  <2> QED BY <2>1, <2>2, <1>h
<1>14. ASSUME NEW r \in Runtimes, RootLost(r) PROVE Quiet'
  <2>0. /\ pump[r] = "closing" /\ pump'[r] = "done"
        /\ \A q \in Planes : q # r => pump'[q] = pump[q]
        /\ UNCHANGED <<user, exited, task, dropped, shutReq, rt, home>>
    BY <1>14, <1>0, <1>a DEF RootLost, PlaneTypes
  <2>a. \A q \in Planes : Loud(q)' => Loud(q) /\ q # r
    BY <2>0 DEF Loud
  <2>1. CASE Connected(r) /\ CloseSession(r) /\ ended' = ended \cup {r}
    <3>1. Closes({r})
      BY <1>14, <2>1, CloseCloses DEF RootLost, Connected
    <3>2. ASSUME NEW p \in Planes, Loud(p), RuntimeOf(p) = r, p # r PROVE FALSE
      <4>1. home[r] \in Simple
        BY <2>0 DEF Roots, Root
      <4> QED BY <3>2, <4>1, LoudOwner, BoundsAssumption
    <3> QED BY <2>0, <2>1, <2>a, <3>1, <3>2, <1>c, <1>j
  <2>2. CASE UNCHANGED <<up, cleanup, ended>>
    BY <2>0, <2>a, <2>2, <1>h
  <2> QED BY <1>14, <2>1, <2>2 DEF RootLost
<1>15. ASSUME NEW c \in Chans, ChannelLost(c) PROVE Quiet'
  <2>0. /\ pump[c] = "closing" /\ pump'[c] = "done" /\ task[c] # "new" /\ parent[c] \in Runtimes
        /\ \A q \in Planes : q # c => pump'[q] = pump[q]
        /\ UNCHANGED <<user, exited, task, dropped, shutReq, rt, home>>
    BY <1>15, <1>0, <1>b DEF ChannelLost, PlaneTypes, ChannelsKnown, Untouched
  <2>a. \A q \in Planes : Loud(q)' => Loud(q) /\ q # c
    BY <2>0 DEF Loud
  <2>1. CASE /\ ChildConnected(c) /\ ActiveKids(parent[c]) = {c} /\ CloseSession(parent[c])
             /\ ended' = ended \cup {parent[c]}
    <3>1. Closes({parent[c]}) /\ Connected(parent[c])
      BY <1>15, <2>0, <2>1, ParentCloses DEF ChannelLost, ChildConnected, Connected
    <3>2. ASSUME NEW p \in Planes, Loud(p), RuntimeOf(p) = parent[c], p # c PROVE FALSE
      <4>1. home[parent[c]] \in Containers
        BY <2>0 DEF Stages, Stage
      <4>2. p \in kids[parent[c]] /\ p \in kidUp
        BY <2>0, <3>1, <3>2, <4>1, LoudOwner, BoundsAssumption
      <4> QED BY <2>1, <3>2, <4>2 DEF ActiveKids
    <3> QED BY <2>0, <2>1, <2>a, <3>1, <3>2, <1>c, <1>j
  <2>2. CASE UNCHANGED <<up, cleanup, ended>>
    BY <2>0, <2>a, <2>2, <1>h
  <2> QED BY <1>15, <2>1, <2>2 DEF ChannelLost
<1>16. ASSUME NEW u \in Users, NEW r \in Runtimes, Disconnect(u, r) PROVE Quiet'
  <2>0. /\ user[u] = Idle
        /\ user'[u] = [cmd |-> "disconnect", r |-> r, waits |-> Taken(r), detach |-> up[home[r]]]
        /\ \A v \in Users : v # u => user'[v] = user[v]
        /\ UNCHANGED <<ended, exited, task, dropped, pump, shutReq>>
    BY <1>16, <1>0 DEF Disconnect, TaskTypes
  <2>1. Closes({r})
    BY <1>16, CloseCloses DEF Disconnect
  <2>2. ASSUME NEW p \in Planes, Loud(p), RuntimeOf(p) = r, Connected(r)
        PROVE  r \notin ended' /\ Awaited(p, r)'
    <3>1. r \notin ended
      BY <2>2 DEF Quiet
    <3>2. p \in Taken(r) /\ HandedOver(r, p)
      BY <2>2, LoudOwner DEF Taken, HandedOver, Connected
    <3>3. p \in cleanup'[r]
      BY <2>1, <3>2 DEF Closes
    <3>4. user'[u].cmd = "disconnect" /\ user'[u].r = r /\ p \in user'[u].waits
      BY <2>0, <3>2
    <3> QED BY <2>0, <3>1, <3>3, <3>4 DEF Awaited
  <2>3. \A p \in Planes : Loud(p)' => Loud(p)
    BY <2>0, <1>i
  <2>4. \A v \in Users : user[v] # Idle => user'[v] = user[v]
    BY <2>0
  <2> QED BY <2>0, <2>1, <2>2, <2>3, <2>4, <1>c, <1>j
<1>17. ASSUME NEW u \in Users, NEW c \in Chans, CloseChannel(u, c) PROVE Quiet'
  <2>0. /\ task[c] # "new" /\ Current(parent[c]) /\ parent[c] \in Runtimes
        /\ dropped' = dropped \cup {c} /\ user[u] = Idle
        /\ UNCHANGED <<rt, home, ended, exited, task, pump, shutReq>>
    BY <1>17, <1>0 DEF CloseChannel, ChannelsKnown, Untouched
  <2>a. \A q \in Planes : Loud(q)' => Loud(q) /\ q # c
    BY <2>0 DEF Loud
  <2>b. \A v \in Users : user[v] # Idle => user'[v] = user[v]
    <3>1. \A v \in Users : v # u => user'[v] = user[v]
      BY <1>17, <1>0 DEF CloseChannel, TaskTypes
    <3> QED BY <2>0, <3>1
  <2>1. CASE ActiveKids(parent[c]) \subseteq {c} /\ CloseSession(parent[c])
    <3>1. Closes({parent[c]})
      BY <1>17, <2>0, <2>1, ParentCloses DEF CloseChannel
    <3>2. ASSUME NEW p \in Planes, Loud(p), RuntimeOf(p) = parent[c], p # c, Connected(parent[c])
          PROVE  FALSE
      <4>1. home[parent[c]] \in Containers
        BY <2>0 DEF Stages, Stage
      <4>2. p \in kids[parent[c]] /\ p \in kidUp
        BY <2>0, <3>2, <4>1, LoudOwner, BoundsAssumption
      <4> QED BY <2>1, <3>2, <4>2 DEF ActiveKids
    <3> QED BY <2>0, <2>a, <2>b, <3>1, <3>2, <1>c, <1>j
  <2>2. CASE UNCHANGED <<up, cleanup>>
    <3>1. \A x \in Runtimes : Connected(x)' <=> Connected(x)
      BY <2>0, <2>2, StoreKeeps
    <3>2. \A x \in ended' : ~Connected(x)'
      BY <2>0, <3>1, <1>c DEF Quiet
    <3>3. ASSUME ~exited', NEW p \in Planes, NEW x \in Runtimes, Loud(p)', x = RuntimeOf(p)'
          PROVE  Said(p, x)
      <4>1. Loud(p) /\ x = RuntimeOf(p) /\ ~exited
        BY <2>0, <2>a, <3>3, <1>f
      <4>2. \A v \in Users : user[v].cmd = "disconnect" => user'[v] = user[v]
        BY <2>b DEF Idle
      <4> QED BY <2>0, <2>2, <3>1, <4>1, <4>2, <1>e
    <3> QED BY <3>2, <3>3, <1>d
  <2> QED BY <1>17, <2>1, <2>2 DEF CloseChannel
<1>18. ASSUME NEW u \in Users, CommandDone(u) PROVE Quiet'
  <2>1. /\ user[u].waits \cap Joining = {}
        /\ \A v \in Users : v # u => user'[v] = user[v]
        /\ ended' = IF Ends(u) THEN ended \cup {user[u].r} ELSE ended
        /\ UNCHANGED <<rt, up, home, cleanup, exited, task, dropped, pump, shutReq>>
    BY <1>18, <1>0 DEF CommandDone, TaskTypes
  <2>2. \A x \in Runtimes : Connected(x)' <=> Connected(x)
    BY <2>1, StoreKeeps
  <2>3. Ends(u) => user[u].r \in Runtimes /\ ~Connected(user[u].r)
    BY <1>0 DEF TaskTypes, Ends, Idle, Commands
  <2>4. \A x \in ended' : ~Connected(x)'
    BY <2>1, <2>2, <2>3, <1>c DEF Quiet
  <2>5. ASSUME ~exited', NEW p \in Planes, NEW x \in Runtimes, Loud(p)', x = RuntimeOf(p)'
        PROVE  Said(p, x)
    <3>1. Loud(p) /\ x = RuntimeOf(p) /\ ~exited
      BY <2>1, <2>5, <1>f, <1>i
    <3>2. ~(p \in user[u].waits /\ p \in cleanup[x])
      BY <2>1 DEF Joining
    <3>3. ASSUME Ends(u), user[u].r = x PROVE FALSE
      <4>1. PICK v \in Users : /\ user[v].cmd = "disconnect" /\ user[v].r = x
                               /\ p \in user[v].waits /\ p \in cleanup[x]
        BY <2>3, <3>1, <3>3 DEF Quiet, Awaited
      <4>2. user[u].cmd # "disconnect"
        BY <3>2, <3>3, <4>1 DEF Commands
      <4>3. user[u].cmd = "close" /\ user[u].detach
        BY <3>3, <4>2, <1>0 DEF Ends, TaskTypes, Idle
      <4> QED BY <3>3, <4>1, <4>3 DEF Commands
    <3>4. x \in ended' => x \in ended
      BY <2>1, <3>3
    <3>5. \A v \in Users : user[v].cmd = "disconnect" /\ p \in user[v].waits /\ p \in cleanup[x]
                             => user'[v] = user[v]
      BY <2>1, <3>2
    <3> QED BY <2>1, <2>2, <3>1, <3>4, <3>5, <1>e
  <2> QED BY <2>4, <2>5, <1>d
<1>19. ASSUME AppExit PROVE Quiet'
  <2>1. Closes({x \in Runtimes : Connected(x)}) /\ exited' /\ UNCHANGED ended
    BY <1>19, ExitCloses DEF AppExit
  <2>2. \A x \in ended' : ~Connected(x)'
    BY <2>1, <1>c DEF Quiet, Closes
  <2> QED BY <2>1, <2>2, <1>d
<1>20. ASSUME NEW p \in Planes, CleanupRequest(p) PROVE Quiet'
  BY <1>20, <1>h, <1>i DEF CleanupRequest
<1>21. ASSUME NEW p \in Planes, CleanupJoin(p) PROVE Quiet'
  <2>1. /\ pump[p] = "done" /\ \A x \in Runtimes : cleanup'[x] = cleanup[x] \ {p}
        /\ UNCHANGED <<user, ended, exited, rt, up, home, task, dropped, pump, shutReq>>
    BY <1>21 DEF CleanupJoin
  <2>2. \A q \in Planes : Loud(q)' => Loud(q) /\ q # p
    BY <2>1 DEF Loud
  <2>3. \A x \in Runtimes : Connected(x)' <=> Connected(x)
    BY <2>1, StoreKeeps
  <2> QED BY <2>1, <2>2, <2>3, <1>g
<1>22. ASSUME NEW r \in Runtimes, CleanupDetach(r) PROVE Quiet'
  BY <1>22, <1>h, <1>i DEF CleanupDetach
<1>23. ASSUME UNCHANGED vars PROVE Quiet'
  BY <1>23, <1>h, <1>i DEF vars
<1> QED
  BY <1>1, <1>2, <1>3, <1>4, <1>5, <1>6, <1>7, <1>8, <1>9, <1>10, <1>11, <1>12, <1>13,
     <1>14, <1>15, <1>16, <1>17, <1>18, <1>19, <1>20, <1>21, <1>22, <1>23
     DEF Next, ConnectStep, ChannelStep, PlaneStep, UserStep
-----------------------------------------------------------------------------
(* With one session id every collector has its plane.                      *)
LEMMA CollectorsStep ==
  Inv /\ Roots /\ Stages /\ Hands /\ Collectors /\ [Next]_vars => Collectors'
<1> SUFFICES ASSUME Inv, Roots, Stages, Hands, Collectors, [Next]_vars, OneId
             PROVE  /\ \A p \in stats' : Owned(p)'
                    /\ \A i \in Containers : rt'[i] = 0 => \A r \in Runtimes : home'[r] # i
                    /\ \A r \in Runtimes : r \in stats' => home'[r] \in Simple
  BY DEF Collectors, OneId
<1> USE DEF storeVars, planeVars, cleanVars, taskVars, history
<1> DEFINE Goal == /\ \A p \in stats' : Owned(p)'
                   /\ \A i \in Containers : rt'[i] = 0 => \A r \in Runtimes : home'[r] # i
                   /\ \A r \in Runtimes : r \in stats' => home'[r] \in Simple
<1>0. StoreTypes /\ PlaneTypes /\ CleanTypes /\ TaskTypes /\ HistoryTypes /\ ChannelsKnown
  BY DEF Inv, TypeOK
<1>a. /\ \A p \in stats : Owned(p)
      /\ \A i \in Containers : rt[i] = 0 => \A r \in Runtimes : home[r] # i
      /\ \A r \in Runtimes : r \in stats => home[r] \in Simple
  BY DEF Collectors
<1>b. /\ \A x \in Runtimes : x \in Nat \ {0} /\ x \notin Chans /\ x \in Planes
      /\ \A c \in Chans : c \in Planes /\ c \notin Runtimes
  BY RuntimeFacts DEF Planes
<1>c. next \in Nat /\ \A x \in Runtimes : Connected(x) => x < next
  BY <1>0, BoundsAssumption, RuntimeFacts DEF StoreTypes, Connected
<1>d. \A p \in stats \cap Chans :
        /\ parent[p] \in Runtimes /\ task[p] # "new"
        /\ task[p] = "attached" \/ (Connected(parent[p]) /\ p \in kids[parent[p]] /\ p \in kidUp)
  <2> SUFFICES ASSUME NEW p \in stats \cap Chans
               PROVE  /\ parent[p] \in Runtimes /\ task[p] # "new"
                      /\ \/ task[p] = "attached"
                         \/ Connected(parent[p]) /\ p \in kids[parent[p]] /\ p \in kidUp
    OBVIOUS
  <2>1. \/ task[p] = "attached"
        \/ parent[p] # 0 /\ Connected(parent[p]) /\ p \in kids[parent[p]] /\ p \in kidUp
    BY <1>a DEF Owned, PlaneConnected, ChildConnected
  <2>2. parent[p] \in 0..MaxRuntimes
    BY <1>0 DEF TaskTypes
  <2>3. parent[p] # 0 => parent[p] \in Runtimes
    BY <2>2, BoundsAssumption DEF Runtimes
  <2> QED BY <2>1, <2>3, <1>0 DEF ChannelsKnown
<1>e. \A p \in stats \cap Chans : parent'[p] = parent[p]
  BY <1>d, ForwardStep DEF Forward
<1>f. ASSUME NEW p \in stats,
             p \in Chans /\ task[p] = "attached" => task'[p] = "attached",
             p \in Chans /\ task[p] # "attached" =>
               \A x \in Runtimes :
                 x = parent[p] /\ Connected(x) /\ p \in kids[x] /\ p \in kidUp
                   => Connected(x)' /\ p \in kids'[x] /\ p \in kidUp',
             p \notin Chans => \A x \in Runtimes : x = p /\ Connected(x) => Connected(x)'
      PROVE  Owned(p)'
  <2>1. p \in Planes
    BY <1>0 DEF CleanTypes
  <2>2. CASE p \in Chans /\ task[p] = "attached"
    BY <1>f, <2>2 DEF Owned
  <2>3. CASE p \in Chans /\ task[p] # "attached"
    <3>1. parent'[p] = parent[p] /\ parent[p] \in Runtimes /\ parent[p] # 0
      BY <2>3, <1>b, <1>d, <1>e
    <3>2. Connected(parent[p]) /\ p \in kids[parent[p]] /\ p \in kidUp
      BY <2>3, <1>d
    <3>3. \A x \in Runtimes : x = parent[p] => Connected(x)' /\ p \in kids'[x] /\ p \in kidUp'
      BY <1>f, <2>3, <3>2
    <3>4. \A x \in Runtimes : x = parent'[p] /\ Connected(x)' /\ p \in kids'[x] /\ p \in kidUp'
                                => ChildConnected(p)'
      BY DEF ChildConnected
    <3> QED BY <2>3, <3>1, <3>3, <3>4 DEF Owned, PlaneConnected
  <2>4. CASE p \notin Chans
    <3>1. p \in Runtimes /\ Connected(p)
      BY <1>a, <2>1, <2>4 DEF Planes, Owned, PlaneConnected
    <3>2. \A x \in Runtimes : x = p => Connected(x)'
      BY <1>f, <2>4, <3>1
    <3>3. Connected(p)'
      BY <3>1, <3>2
    <3> QED BY <2>4, <3>3 DEF Owned, PlaneConnected
  <2> QED BY <2>2, <2>3, <2>4
<1>g. ASSUME UNCHANGED <<rt, home>>, \A x \in Runtimes : x \in stats' => x \in stats,
             \A p \in stats' : Owned(p)'
      PROVE  Goal
  BY <1>a, <1>g
<1>h. ASSUME UNCHANGED <<rt, up, home, kids, kidUp, stats, task>> PROVE Goal
  <2>1. \A x \in Runtimes : Connected(x)' <=> Connected(x)
    BY <1>h, StoreKeeps
  <2>2. \A p \in stats : Owned(p)'
    BY <1>h, <2>1, <1>f
  <2> QED BY <1>g, <1>h, <2>2
<1>i. ASSUME NEW S, Closes(S), task' = task,
             \A c \in Chans : c \in kidUp => c \in kidUp' \/ \A x \in Runtimes : c \in kids[x] => x \in S
      PROVE  Goal
  <2>1. \A p \in stats' : p \in stats
    BY <1>i DEF Closes
  <2>2. ASSUME NEW p \in stats' PROVE Owned(p)'
    <3>1. p \in stats /\ \A x \in S : ~HandedOver(x, p)
      BY <1>i DEF Closes
    <3>2. ASSUME p \in Chans, NEW x \in Runtimes, Connected(x), p \in kids[x], p \in kidUp
          PROVE  Connected(x)' /\ p \in kids'[x] /\ p \in kidUp'
      <4>1. x \notin S
        BY <3>1, <3>2 DEF HandedOver
      <4> QED BY <1>i, <3>2, <4>1 DEF Closes
    <3>3. ASSUME p \notin Chans, NEW x \in Runtimes, x = p, Connected(x) PROVE Connected(x)'
      <4>1. x \notin S
        BY <3>1, <3>3, <1>a DEF HandedOver
      <4> QED BY <1>i, <3>3, <4>1 DEF Closes
    <3>4. task'[p] = task[p]
      BY <1>i
    <3> QED BY <3>1, <3>2, <3>3, <3>4, <1>f
  <2> QED BY <1>i, <2>1, <2>2, <1>g DEF Closes
<1>1. ASSUME NEW id \in Simple, CreateSession(id) PROVE Goal
  <2>0. id \in Ids /\ Containers = {}
    BY BoundsAssumption DEF Ids, OneId
  <2>1. /\ next \in Runtimes /\ home'[next] = id
        /\ \A x \in Runtimes : x # next => home'[x] = home[x] /\ (Connected(x)' <=> Connected(x))
    BY <1>1, <2>0, AllocateKeeps DEF CreateSession
  <2>2. UNCHANGED <<kids, kidUp, task>>
    BY <1>1 DEF CreateSession
  <2>3. \A x \in Runtimes : Connected(x) => Connected(x)'
    <3>1. \A x \in Runtimes : Connected(x) => x # next
      BY <1>b, <1>c
    <3> QED BY <2>1, <3>1
  <2>4. \A p \in stats : Owned(p)'
    BY <2>2, <2>3, <1>f
  <2>5. \/ stats' = stats
        \/ stats' = stats \cup {next} /\ \A x \in Runtimes : x = next => Connected(x)'
    BY <1>1, <1>0, <2>0, <2>1, BoundsAssumption
       DEF CreateSession, Connected, Current, StoreTypes, Purged, Ids
  <2>6. ASSUME NEW p \in stats' PROVE Owned(p)'
    <3>1. CASE p \in stats
      BY <3>1, <2>4
    <3>2. CASE p = next /\ \A x \in Runtimes : x = next => Connected(x)'
      <4>1. Connected(p)' /\ p \notin Chans
        BY <3>2, <2>1, <1>b
      <4> QED BY <4>1 DEF Owned, PlaneConnected
    <3> QED BY <2>5, <2>6, <3>1, <3>2
  <2>7. \A r \in Runtimes : r \in stats' => home'[r] \in Simple
    BY <1>1, <2>1, <2>5, <1>a
  <2> QED BY <2>0, <2>6, <2>7
<1>2. ASSUME NEW id \in Containers, NEW c \in Chans, CreateContainer(id, c) PROVE Goal
  <2>0. id \in Ids /\ \A i \in Containers : i = id
    BY DEF Ids, OneId
  <2>1. /\ next \in Runtimes /\ home'[next] = id
        /\ \A x \in Runtimes : x # next => home'[x] = home[x] /\ (Connected(x)' <=> Connected(x))
    BY <1>2, <2>0, AllocateKeeps DEF CreateContainer
  <2>2. /\ UNCHANGED <<kids, kidUp, stats>> /\ task[c] = "new"
        /\ \A d \in Chans : d # c => task'[d] = task[d]
    BY <1>2, <1>0 DEF CreateContainer, TaskTypes
  <2>3. \A x \in Runtimes : Connected(x) => Connected(x)'
    <3>1. \A x \in Runtimes : Connected(x) => x # next
      BY <1>b, <1>c
    <3> QED BY <2>1, <3>1
  <2>4. \A p \in stats : Owned(p)'
    BY <2>2, <2>3, <1>f
  <2>5. rt'[id] = next /\ next # 0
    BY <1>2, <2>0, <2>1, <1>b, <1>0 DEF CreateContainer, Purged
  <2>6. \A i \in Containers : rt'[i] = 0 => \A r \in Runtimes : home'[r] # i
    BY <2>0, <2>5
  <2>7. ASSUME NEW r \in Runtimes, r \in stats' PROVE home'[r] \in Simple
    <3>1. Connected(r) /\ home[r] \in Simple
      BY <2>7, <2>2, <1>a, <1>b DEF Owned, PlaneConnected
    <3>2. r # next
      BY <3>1, <1>c
    <3> QED BY <2>1, <3>1, <3>2
  <2> QED BY <2>2, <2>4, <2>6, <2>7
<1>3. ASSUME NEW id \in Ids, CreateRefused(id) PROVE Goal
  <2>0. id \in Ids /\ ~up[id] /\ \A i \in Ids : i = id
    BY <1>3 DEF CreateRefused, OneId
  <2>1. {i \in Ids : up[i]} = {}
    BY <2>0
  <2>2. Cardinality({i \in Ids : up[i]}) = 0
    BY <2>1, FS_EmptySet
  <2>3. Cardinality({i \in Ids : up[i]}) >= MaxRoots
    BY <1>3 DEF CreateRefused
  <2> QED BY <2>2, <2>3, BoundsAssumption
<1>4. ASSUME NEW r \in Runtimes, ConnectSetup(r) PROVE Goal
  <2>1. CASE Current(r) /\ CloseSession(r)
    <3>1. Closes({r})
      BY <1>4, <2>1, CloseCloses DEF ConnectSetup
    <3> QED BY <1>4, <3>1, <1>i DEF ConnectSetup
  <2>2. CASE UNCHANGED <<up, kids, stats>>
    BY <1>4, <2>2, <1>h DEF ConnectSetup
  <2> QED BY <1>4, <2>1, <2>2 DEF ConnectSetup, CloseIfCurrent
<1>5. ASSUME NEW r \in Runtimes, ConnectPublish(r) PROVE Goal
  BY <1>5, <1>h DEF ConnectPublish
<1>6. ASSUME NEW c \in Chans, NEW r \in Runtimes, OpenChannel(c, r) PROVE Goal
  <2>1. /\ task[c] = "new" /\ \A d \in Chans : d # c => task'[d] = task[d]
        /\ UNCHANGED <<rt, up, home, kids, kidUp, stats>>
    BY <1>6, <1>0 DEF OpenChannel, TaskTypes
  <2>2. \A x \in Runtimes : Connected(x)' <=> Connected(x)
    BY <2>1, StoreKeeps
  <2>3. \A p \in stats : Owned(p)'
    BY <2>1, <2>2, <1>f
  <2> QED BY <2>1, <2>3, <1>g
<1>7. ASSUME NEW c \in Chans, ChannelAttach(c) PROVE Goal
  <2>1. /\ task[c] = "opened" /\ \A d \in Chans : d # c => task'[d] = task[d]
        /\ UNCHANGED <<rt, up, home, kids, kidUp>>
        /\ stats' = stats \/ (stats' = stats \cup {c} /\ task'[c] = "attached")
    BY <1>7, <1>0 DEF ChannelAttach, TaskTypes
  <2>2. \A x \in Runtimes : Connected(x)' <=> Connected(x)
    BY <2>1, StoreKeeps
  <2>3. \A p \in stats : Owned(p)'
    BY <2>1, <2>2, <1>f
  <2>4. \A p \in stats' : Owned(p)'
    BY <2>1, <2>3 DEF Owned
  <2> QED BY <2>1, <2>4, <1>b, <1>g
<1>8. ASSUME NEW c \in Chans, ChannelRegister(c) PROVE Goal
  <2>1. /\ task[c] = "attached" /\ \A d \in Chans : d # c => task'[d] = task[d]
        /\ UNCHANGED <<rt, up, home, parent>> /\ kidUp \subseteq kidUp' /\ stats' \subseteq stats
    BY <1>8, <1>0 DEF ChannelRegister, TaskTypes
  <2>2. \A x \in Runtimes : Connected(x)' <=> Connected(x)
    BY <2>1, StoreKeeps
  <2>3. parent[c] \in Runtimes /\ parent[c] # 0 /\ home[parent[c]] \in Containers
    BY <2>1, <1>0, <1>b DEF ChannelsKnown, Stages, Stage
  <2>4. \A x \in Runtimes : kids[x] \subseteq kids'[x]
    BY <1>8, <2>3, <1>0 DEF ChannelRegister, StoreTypes
  <2>5. ASSUME NEW p \in stats', p # c PROVE Owned(p)'
    BY <2>1, <2>2, <2>4, <2>5, <1>f
  <2>6. ASSUME c \in stats' PROVE Owned(c)'
    <3>1. rt[home[parent[c]]] # 0
      BY <2>3, <1>a
    <3>2. /\ Connected(parent[c]) /\ kidUp' = kidUp \cup {c}
          /\ kids' = [kids EXCEPT ![parent[c]] = @ \cup {c}]
      BY <1>8, <2>6, <3>1 DEF ChannelRegister
    <3>3. c \in kidUp' /\ c \in kids'[parent[c]]
      BY <2>3, <3>2, <1>0 DEF StoreTypes
    <3>4. \A x \in Runtimes : x = parent[c] => Connected(x)'
      BY <2>2, <3>2
    <3>5. \A x \in Runtimes : x = parent'[c] /\ Connected(x)' /\ c \in kids'[x] /\ c \in kidUp'
                                => ChildConnected(c)'
      BY DEF ChildConnected
    <3>6. ChildConnected(c)' /\ parent'[c] # 0
      BY <2>1, <2>3, <3>3, <3>4, <3>5
    <3> QED BY <3>6 DEF Owned, PlaneConnected
  <2>7. \A p \in stats' : Owned(p)'
    BY <2>5, <2>6
  <2> QED BY <2>1, <2>7, <1>g
<1>9. ASSUME NEW c \in Chans, ChannelPublish(c) PROVE Goal
  <2>1. /\ task[c] = "registered" /\ \A d \in Chans : d # c => task'[d] = task[d]
        /\ UNCHANGED <<rt, up, home, kids, kidUp, stats>>
    BY <1>9, <1>0 DEF ChannelPublish, TaskTypes
  <2>2. \A x \in Runtimes : Connected(x)' <=> Connected(x)
    BY <2>1, StoreKeeps
  <2>3. \A p \in stats : Owned(p)'
    BY <2>1, <2>2, <1>f
  <2> QED BY <2>1, <2>3, <1>g
<1>10. ASSUME NEW p \in Planes, ActorDies(p) PROVE Goal
  BY <1>10, <1>h DEF ActorDies
<1>11. ASSUME NEW p \in Planes, ActorStops(p) PROVE Goal
  BY <1>11, <1>h DEF ActorStops
<1>12. ASSUME NEW p \in Planes, PumpStart(p) PROVE Goal
  BY <1>12, <1>h DEF PumpStart
<1>13. ASSUME NEW p \in Planes, PumpEnd(p) PROVE Goal
  BY <1>13, <1>h DEF PumpEnd
<1>14. ASSUME NEW r \in Runtimes, RootLost(r) PROVE Goal
  <2>2. CASE Connected(r) /\ CloseSession(r)
    <3>1. Closes({r})
      BY <1>14, <2>2, CloseCloses DEF RootLost, Connected
    <3> QED BY <1>14, <3>1, <1>i DEF RootLost
  <2>3. CASE UNCHANGED <<up, kids, stats>>
    BY <1>14, <2>3, <1>h DEF RootLost
  <2> QED BY <1>14, <2>2, <2>3 DEF RootLost
<1>15. ASSUME NEW c \in Chans, ChannelLost(c) PROVE Goal
  <2>1. task[c] # "new" /\ UNCHANGED <<rt, home, task>> /\ parent[c] \in Runtimes
    BY <1>15, <1>0 DEF ChannelLost, ChannelsKnown, Untouched
  <2>2. CASE ChildConnected(c) /\ CloseSession(parent[c]) /\ kidUp' = kidUp \ {c}
    <3>1. Closes({parent[c]})
      BY <1>15, <2>1, <2>2, ParentCloses DEF ChannelLost, ChildConnected, Connected
    <3>2. \A x \in Runtimes : c \in kids[x] => x = parent[c]
      BY <1>0 DEF ChannelsKnown
    <3> QED BY <2>1, <2>2, <3>1, <3>2, <1>i
  <2>3. CASE kidUp' = kidUp \ {c} /\ stats' = stats \ {c} /\ UNCHANGED <<up, kids>>
    <3>1. \A x \in Runtimes : Connected(x)' <=> Connected(x)
      BY <2>1, <2>3, StoreKeeps
    <3>2. \A p \in stats' : Owned(p)'
      BY <2>1, <2>3, <3>1, <1>f
    <3> QED BY <2>1, <2>3, <3>2, <1>g
  <2>4. CASE UNCHANGED <<up, kids, kidUp, stats>>
    BY <2>1, <2>4, <1>h
  <2> QED BY <1>15, <2>2, <2>3, <2>4 DEF ChannelLost
<1>16. ASSUME NEW u \in Users, NEW r \in Runtimes, Disconnect(u, r) PROVE Goal
  <2>1. Closes({r})
    BY <1>16, CloseCloses DEF Disconnect
  <2> QED BY <1>16, <2>1, <1>i DEF Disconnect
<1>17. ASSUME NEW u \in Users, NEW c \in Chans, CloseChannel(u, c) PROVE Goal
  <2>0. /\ task[c] # "new" /\ Current(parent[c]) /\ parent[c] \in Runtimes
        /\ UNCHANGED <<rt, home, task, kidUp>>
    BY <1>17, <1>0 DEF CloseChannel, ChannelsKnown, Untouched
  <2>1. CASE CloseSession(parent[c])
    <3>1. Closes({parent[c]})
      BY <1>17, <2>0, <2>1, ParentCloses DEF CloseChannel
    <3> QED BY <2>0, <3>1, <1>i
  <2>2. CASE /\ kids' = [kids EXCEPT ![parent[c]] = @ \ {c}] /\ stats' = stats \ {c}
             /\ UNCHANGED up
    <3>1. \A x \in Runtimes : Connected(x)' <=> Connected(x)
      BY <2>0, <2>2, StoreKeeps
    <3>2. \A x \in Runtimes : \A p \in kids[x] : p # c => p \in kids'[x]
      BY <2>0, <2>2, <1>0 DEF StoreTypes
    <3>3. \A p \in stats' : Owned(p)'
      BY <2>0, <2>2, <3>1, <3>2, <1>f
    <3> QED BY <2>0, <2>2, <3>3, <1>g
  <2> QED BY <1>17, <2>1, <2>2 DEF CloseChannel
<1>18. ASSUME NEW u \in Users, CommandDone(u) PROVE Goal
  BY <1>18, <1>h DEF CommandDone
<1>19. ASSUME AppExit PROVE Goal
  <2>1. Closes({x \in Runtimes : Connected(x)})
    BY <1>19, ExitCloses
  <2> QED BY <1>19, <2>1, <1>i DEF AppExit
<1>20. ASSUME NEW p \in Planes, CleanupRequest(p) PROVE Goal
  BY <1>20, <1>h DEF CleanupRequest
<1>21. ASSUME NEW p \in Planes, CleanupJoin(p) PROVE Goal
  BY <1>21, <1>h DEF CleanupJoin
<1>22. ASSUME NEW r \in Runtimes, CleanupDetach(r) PROVE Goal
  BY <1>22, <1>h DEF CleanupDetach
<1>23. ASSUME UNCHANGED vars PROVE Goal
  BY <1>23, <1>h DEF vars
<1> QED
  BY <1>1, <1>2, <1>3, <1>4, <1>5, <1>6, <1>7, <1>8, <1>9, <1>10, <1>11, <1>12, <1>13,
     <1>14, <1>15, <1>16, <1>17, <1>18, <1>19, <1>20, <1>21, <1>22, <1>23
     DEF Next, ConnectStep, ChannelStep, PlaneStep, UserStep
-----------------------------------------------------------------------------
(* The invariant and what follows from it.                                 *)

(* At the start there is nothing.                                          *)
LEMMA InitChannels == Init => ChannelInv
<1> SUFFICES ASSUME Init PROVE ChannelInv
  OBVIOUS
<1>0. /\ next = 1 /\ published = {} /\ shutReq = {} /\ loose = {} /\ stats = {} /\ ended = {}
      /\ \A r \in Runtimes : /\ home[r] = None /\ kids[r] = {} /\ cleanup[r] = {}
                             /\ conn[r] = "none" /\ ~Connected(r)
      /\ \A p \in Planes : pump[p] = "none"
      /\ \A c \in Chans : task[c] = "new"
      /\ \A u \in Users : user[u] = Idle
  BY DEF Init, Connected, Current
<1>1. \A r \in Runtimes : r \in Planes /\ home[r] \notin Containers
  BY <1>0, BoundsAssumption, RuntimesAreNumbers
<1>2. \A c \in Chans : c \in Planes
  BY DEF Planes
<1>3. Roots
  BY <1>0, <1>1 DEF Roots, Root
<1>4. Stages
  BY <1>0 DEF Stages, Stage
<1>5. Hands
  BY <1>0, <1>1 DEF Hands, Registered
<1>6. Deaths
  BY <1>0 DEF Deaths
<1>7. KidStates
  BY <1>0 DEF KidStates, Registered
<1>8. EndsForItsOwnReason /\ NoEmptyContainer
  BY <1>0 DEF EndsForItsOwnReason, NoEmptyContainer
<1>9. Budget
  <2> SUFFICES ASSUME NEW r \in Runtimes
               PROVE  IsFiniteSet(ActiveKids(r)) /\ Cardinality(ActiveKids(r)) <= MaxChildren
    BY DEF Budget
  <2>1. ActiveKids(r) = {}
    BY <1>0 DEF ActiveKids
  <2> QED BY <2>1, FS_EmptySet, BoundsAssumption
<1>10. Commands
  BY <1>0 DEF Commands, Ends, Idle
<1>11. Quiet
  BY <1>0 DEF Quiet, Loud
<1>12. Collectors
  BY <1>0, <1>1 DEF Collectors
<1> QED
  BY <1>3, <1>4, <1>5, <1>6, <1>7, <1>8, <1>9, <1>10, <1>11, <1>12 DEF ChannelInv

(* Every part of the invariant is kept, by way of the others.              *)
LEMMA StepChannels == Inv /\ ChannelInv /\ [Next]_vars => ChannelInv'
<1> SUFFICES ASSUME Inv, ChannelInv, [Next]_vars PROVE ChannelInv'
  OBVIOUS
<1>0. /\ Roots /\ Stages /\ Hands /\ Deaths /\ KidStates /\ EndsForItsOwnReason
      /\ NoEmptyContainer /\ Budget /\ Commands /\ Quiet /\ Collectors
  BY DEF ChannelInv
<1>1. Roots' /\ Stages' /\ Hands' /\ Deaths'
  BY <1>0, RootsStep, StagesStep, HandsStep, DeathsStep
<1>2. KidStates' /\ EndsForItsOwnReason' /\ NoEmptyContainer' /\ Budget'
  BY <1>0, KidStatesStep, ReasonsStep, NoEmptyStep, BudgetStep
<1>3. Commands' /\ Quiet' /\ Collectors'
  BY <1>0, CommandsStep, QuietStep, CollectorsStep
<1> QED BY <1>1, <1>2, <1>3 DEF ChannelInv

(* A plane that was told nothing is in one hand: the hands are disjoint.   *)
LEMMA OneHand ==
  ASSUME Inv, Stages, Hands, NEW p \in Planes, pump[p] # "none", p \notin shutReq
  PROVE  Cardinality(Owners(p)) = 1
<1> DEFINE Session == IF p \in Chans THEN p \in kids[parent[p]] ELSE Connected(p)
           Cleanup == p \in cleanup[RuntimeOf(p)]
           Close   == p \in loose
           Opening == p \in Chans /\ task[p] = "attached"
<1>1. \A o : o \in Owners(p) <=> \/ o = "session" /\ Session
                                 \/ o = "cleanup" /\ Cleanup
                                 \/ o = "channel close" /\ Close
                                 \/ o = "opening task" /\ Opening
  BY DEF Owners
<1>2. \/ Session /\ ~Cleanup /\ ~Close /\ ~Opening
      \/ ~Session /\ Cleanup /\ ~Close /\ ~Opening
      \/ ~Session /\ ~Cleanup /\ Close /\ ~Opening
      \/ ~Session /\ ~Cleanup /\ ~Close /\ Opening
  <2>1. CASE p \in Chans
    <3>1. task[p] # "new" /\ task[p] # "opened" /\ task[p] # "failed" /\ parent[p] \in Runtimes
      BY <2>1 DEF Inv, ChannelsKnown, Untouched, Stages, Stage
    <3>2. task[p] = "attached" \/ Registered(p)
      BY <2>1, <3>1 DEF Inv, TypeOK, TaskTypes, Registered
    <3>3. RuntimeOf(p) = parent[p]
      BY <2>1 DEF RuntimeOf
    <3>4. CASE task[p] = "attached"
      <4>1. ~Registered(p)
        BY <3>4 DEF Registered
      <4> QED BY <2>1, <3>1, <3>3, <3>4, <4>1 DEF Hands
    <3>5. CASE Registered(p)
      <4>1. ~Opening
        BY <3>5 DEF Registered
      <4>2. Session \/ Cleanup \/ Close
        BY <2>1, <3>3, <3>5 DEF Hands
      <4>3. Session => ~Cleanup /\ ~Close
        BY <2>1, <3>1, <3>3 DEF Hands
      <4>4. Cleanup => ~Close
        BY <2>1, <3>1, <3>3 DEF Hands
      <4> HIDE DEF Session, Cleanup, Close, Opening
      <4> QED BY <4>1, <4>2, <4>3, <4>4
    <3> QED BY <3>2, <3>4, <3>5
  <2>2. CASE p \notin Chans
    <3>1. p \in Runtimes /\ RuntimeOf(p) = p /\ ~Close /\ ~Opening
      BY <2>2 DEF Planes, RuntimeOf, Inv, TypeOK, CleanTypes
    <3>2. (Connected(p) \/ p \in cleanup[p]) /\ ~(Connected(p) /\ p \in cleanup[p])
      BY <3>1 DEF Hands
    <3> QED BY <2>2, <3>1, <3>2
  <2> QED BY <2>1, <2>2
<1> HIDE DEF Session, Cleanup, Close, Opening
<1>3. \E o : Owners(p) = {o}
  <2>1. CASE Session
    <3>1. ~Cleanup /\ ~Close /\ ~Opening
      BY <1>2, <2>1
    <3>2. \A o : (o \in Owners(p)) <=> (o = "session")
      BY <1>1, <2>1, <3>1
    <3>3. \A o : (o \in Owners(p)) <=> (o \in {"session"})
      BY <3>2
    <3>4. Owners(p) = {"session"}
      BY <3>3
    <3> QED BY <3>4
  <2>2. CASE Cleanup
    <3>1. ~Session /\ ~Close /\ ~Opening
      BY <1>2, <2>2
    <3>2. \A o : (o \in Owners(p)) <=> (o = "cleanup")
      BY <1>1, <2>2, <3>1
    <3>3. \A o : (o \in Owners(p)) <=> (o \in {"cleanup"})
      BY <3>2
    <3>4. Owners(p) = {"cleanup"}
      BY <3>3
    <3> QED BY <3>4
  <2>3. CASE Close
    <3>1. ~Session /\ ~Cleanup /\ ~Opening
      BY <1>2, <2>3
    <3>2. \A o : (o \in Owners(p)) <=> (o = "channel close")
      BY <1>1, <2>3, <3>1
    <3>3. \A o : (o \in Owners(p)) <=> (o \in {"channel close"})
      BY <3>2
    <3>4. Owners(p) = {"channel close"}
      BY <3>3
    <3> QED BY <3>4
  <2>4. CASE Opening
    <3>1. ~Session /\ ~Cleanup /\ ~Close
      BY <1>2, <2>4
    <3>2. \A o : (o \in Owners(p)) <=> (o = "opening task")
      BY <1>1, <2>4, <3>1
    <3>3. \A o : (o \in Owners(p)) <=> (o \in {"opening task"})
      BY <3>2
    <3>4. Owners(p) = {"opening task"}
      BY <3>3
    <3> QED BY <3>4
  <2> QED BY <1>2, <2>1, <2>2, <2>3, <2>4
<1> QED BY <1>3, FS_Singleton

(* What the properties of the specification take from the invariant.       *)
LEMMA ChannelInvGives ==
  ASSUME Inv, ChannelInv
  PROVE  /\ EndsForItsOwnReason /\ EndedIsQuiet /\ NoEmptyContainer /\ OneOwner
         /\ ChannelBudget /\ (OneId => CollectorOwned)
<1>0. /\ Roots /\ Stages /\ Hands /\ EndsForItsOwnReason /\ NoEmptyContainer /\ Budget /\ Quiet
      /\ Collectors
  BY DEF ChannelInv
<1>1. EndedIsQuiet
  <2> SUFFICES ASSUME ~exited, NEW r \in ended, NEW p \in Planes, RuntimeOf(p) = r,
                      pump[p] = "active", p \notin dropped
               PROVE  FALSE
    BY DEF EndedIsQuiet
  <2>1. r \in Runtimes
    BY DEF Inv, TypeOK, HistoryTypes
  <2> QED BY <1>0, <2>1 DEF Quiet, Loud
<1>2. OneOwner
  BY <1>0, OneHand DEF OneOwner
<1>3. ChannelBudget
  BY <1>0 DEF Budget, ChannelBudget
<1>4. OneId => CollectorOwned
  BY <1>0 DEF Collectors, Owned, CollectorOwned
<1> QED BY <1>0, <1>1, <1>2, <1>3, <1>4

(* The connections, the hands their planes are in and the commands that    *)
(* wait for them: the invariant behind the properties below.               *)
THEOREM ChannelInvHolds == Spec => [](Inv /\ ChannelInv)
<1>1. Init => Inv /\ ChannelInv
  BY InitInv, InitChannels
<1>2. Inv /\ ChannelInv /\ [Next]_vars => (Inv /\ ChannelInv)'
  BY StepInv, StepChannels
<1> QED BY <1>1, <1>2, PTL DEF Spec

(* A connection ends only for a reason of its own: a command on it, the    *)
(* death of its plane, a first channel that failed, or the end of every    *)
(* channel it registered; never for one of an earlier connection.          *)
THEOREM EndsForItsOwnReasonHolds == Spec => []EndsForItsOwnReason
<1>1. Inv /\ ChannelInv => EndsForItsOwnReason
  BY ChannelInvGives
<1> QED BY ChannelInvHolds, <1>1, PTL

(* After session-disconnected no plane of that connection delivers data,   *)
(* except one of a channel being closed and while the application exits.   *)
THEOREM EndedIsQuietHolds == Spec => []EndedIsQuiet
<1>1. Inv /\ ChannelInv => EndedIsQuiet
  BY ChannelInvGives
<1> QED BY ChannelInvHolds, <1>1, PTL

(* A container that is up never lingers without a terminal, no plane leaks *)
(* or is torn down twice, and a parent keeps to its budget.                *)
THEOREM ChannelsOwnedHolds == Spec => [](NoEmptyContainer /\ OneOwner /\ ChannelBudget)
<1>1. Inv /\ ChannelInv => NoEmptyContainer /\ OneOwner /\ ChannelBudget
  BY ChannelInvGives
<1> QED BY ChannelInvHolds, <1>1, PTL

(* With one session id, all that is promised of a container and its        *)
(* channels.  With two, a collector may go on for ever (see CollectorOwned)*)
(* and only that conjunct is lost.                                         *)
THEOREM ChannelsSoundHolds == ASSUME OneId PROVE Spec => []ChannelsSound
<1>1. Inv /\ ChannelInv => ChannelsSound
  BY OneId, ChannelInvGives DEF ChannelsSound
<1> QED BY ChannelInvHolds, <1>1, PTL
==============================================================================
