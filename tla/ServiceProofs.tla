---------------------------- MODULE ServiceProofs ----------------------------
(***************************************************************************)
(* Proofs about components of the services, each for every value of its    *)
(* constants: the log engine, the virtual ports, the peers of a network    *)
(* session, the script engine, the session library and SSH host keys.      *)
(* Where two of them use one name for a constant or a variable, it is told *)
(* apart here.                                                             *)
(***************************************************************************)
EXTENDS Naturals, Sequences, FiniteSets, FiniteSetTheorems, SequenceTheorems, TLAPS

CONSTANTS Session, Producer, SessionLimit, SystemLimit, Capacity, MaxSegments, MaxFaults
VARIABLES queue, pending, producer, setting, update, starter, active, writers, disk, consumer, faults
Log == INSTANCE LogEngine

CONSTANTS Gui, MaxBus, Names, MaxPairs, Mishaps, Meddling, Foreign, NoName, Nobody
VARIABLES mode, driver, ledger, tracked, conn, watch, alive, job, lost, mishaps
Ports == INSTANCE VirtualPorts WITH active <- tracked, faults <- mishaps, MaxFaults <- Mishaps

CONSTANTS Peer, MaxClients, NoPeer, AllPeers
VARIABLES role, root, running, line, reg, handles, child, opened, listed, target, leaving,
          closing, joined, left
Peers == INSTANCE NetworkPeers

CONSTANTS Limit, Every, MaxDepth, Commands, MaxData, MaxLoads
VARIABLES worker, stack, frame, slice, hook, spent, shutdown, commands, source, given
Script == INSTANCE ScriptEngine WITH mode <- frame, queue <- commands, Capacity <- Commands

CONSTANTS Stored, Command, LibraryFaults, None
VARIABLES backend, unlocked, file, secret, index, lock, cmd, errors
Library == INSTANCE SessionLibrary WITH
    Session <- Stored, MaxFaults <- LibraryFaults, faults <- errors

CONSTANTS Conn, Alg, Finger, TrustFaults
VARIABLES known, store, reset, client, ask, granted, damaged, failures
Trust == INSTANCE HostTrust WITH
    disk <- known, conn <- client, faults <- failures, MaxFaults <- TrustFaults

-----------------------------------------------------------------------------
(* The log engine *)

(* Sessions and threads are finitely many, and the limits are numbers.     *)
LogLimits ==
  /\ SessionLimit \in Nat /\ SystemLimit \in Nat /\ Capacity \in Nat
  /\ IsFiniteSet(Producer)

LogEntry == [kind : {"data", "sys", "start", "stop", "stopall", "clear", "shutdown"},
             s : Session \cup {0}]
Reservation == [kind : {"data", "sys"}, s : Session \cup {0}] \cup {Log!Nobody}
LogTypes ==
  /\ queue \in Seq(LogEntry)
  /\ pending \in [{"data", "sys"} -> Nat]
  /\ producer \in [Producer -> Reservation]
  /\ starter \in [pc : {"idle", "checked", "waiting", "expired", "ok", "failed"}, s : Session \cup {0}]

(* Every place that is reserved is held by a producer or filled by an entry*)
(* of the queue, and there are never more than the limit of the kind.      *)
PlacesInv ==
  /\ LogTypes
  /\ \A k \in {"data", "sys"} : pending[k] = Log!Entries(k) + Log!Reserved(k) /\ pending[k] <= Log!Limit(k)

(* The positions of a sequence that hold entries of a kind.                *)
Places(q, k) == {i \in 1..Len(q) : q[i].kind = k}

(* They are finitely many.                                                 *)
LEMMA PlacesFinite ==
  ASSUME NEW S, NEW q \in Seq(S), NEW k
  PROVE  IsFiniteSet(Places(q, k)) /\ Cardinality(Places(q, k)) \in Nat
<1>1. Len(q) \in Nat
  BY LenProperties
<1>2. IsFiniteSet(1..Len(q))
  BY <1>1, FS_Interval
<1>3. Places(q, k) \in SUBSET (1..Len(q))
  BY DEF Places
<1> QED BY <1>2, <1>3, FS_Subset, FS_CardinalityType

(* One more entry counts for its kind alone.                               *)
LEMMA PlacesAppend ==
  ASSUME NEW S, NEW q \in Seq(S), NEW e \in S, NEW k
  PROVE  Cardinality(Places(Append(q, e), k)) =
           Cardinality(Places(q, k)) + (IF e.kind = k THEN 1 ELSE 0)
<1>1. /\ Append(q, e) \in Seq(S) /\ Len(Append(q, e)) = Len(q) + 1 /\ Len(q) \in Nat
      /\ \A i \in 1..Len(q) : Append(q, e)[i] = q[i]
      /\ Append(q, e)[Len(q) + 1] = e
  BY AppendProperties, LenProperties
<1>2. IsFiniteSet(Places(q, k)) /\ Cardinality(Places(q, k)) \in Nat
  BY PlacesFinite
<1>3. CASE e.kind = k
  <2>1. Places(Append(q, e), k) = Places(q, k) \cup {Len(q) + 1} /\ Len(q) + 1 \notin Places(q, k)
    BY <1>1, <1>3 DEF Places
  <2> QED BY <1>2, <1>3, <2>1, FS_AddElement
<1>4. CASE e.kind # k
  <2>1. Places(Append(q, e), k) = Places(q, k)
    BY <1>1, <1>4 DEF Places
  <2> QED BY <1>2, <1>4, <2>1
<1> QED BY <1>3, <1>4

(* And the first one, once it is taken, no more.                           *)
LEMMA PlacesTail ==
  ASSUME NEW S, NEW q \in Seq(S), q # <<>>, NEW k
  PROVE  Cardinality(Places(q, k)) =
           Cardinality(Places(Tail(q), k)) + (IF Head(q).kind = k THEN 1 ELSE 0)
<1>1. Len(q) \in Nat /\ Len(q) >= 1
  BY EmptySeq, LenProperties
<1>2. Head(q) = q[1] /\ Tail(q) \in Seq(S) /\ Len(Tail(q)) = Len(q) - 1
  BY HeadTailProperties
<1>3. \A i \in 1..Len(Tail(q)) : Tail(q)[i] = q[i + 1]
  BY HeadTailProperties
<1> DEFINE Rest == Places(Tail(q), k)
           Shifted == {i \in 2..Len(q) : q[i].kind = k}
           f == [i \in Rest |-> i + 1]
<1>4. IsFiniteSet(Rest) /\ Cardinality(Rest) \in Nat
  BY <1>2, PlacesFinite
<1>5. f \in Bijection(Rest, Shifted)
  <2>1. f \in [Rest -> Shifted]
    BY <1>1, <1>2, <1>3 DEF Places
  <2>2. \A a, b \in Rest : f[a] = f[b] => a = b
    BY <1>1, <1>2 DEF Places
  <2>3. \A b \in Shifted : \E a \in Rest : f[a] = b
    <3> TAKE b \in Shifted
    <3>1. b - 1 \in 1..Len(Tail(q)) /\ (b - 1) + 1 = b
      BY <1>1, <1>2
    <3>2. b - 1 \in Rest
      BY <1>3, <3>1 DEF Places
    <3>3. f[b - 1] = b
      BY <3>1, <3>2
    <3> QED BY <3>2, <3>3
  <2> QED BY <2>1, <2>2, <2>3 DEF Bijection, Injection, Surjection, IsInjective
<1>6. IsFiniteSet(Shifted) /\ Cardinality(Shifted) = Cardinality(Rest)
  BY <1>4, <1>5, FS_Bijection DEF ExistsBijection
<1>7. CASE q[1].kind = k
  <2>1. Places(q, k) = Shifted \cup {1} /\ 1 \notin Shifted
    BY <1>1, <1>7 DEF Places
  <2> QED BY <1>2, <1>4, <1>6, <1>7, <2>1, FS_AddElement
<1>8. CASE q[1].kind # k
  <2>1. Places(q, k) = Shifted
    BY <1>1, <1>8 DEF Places
  <2> QED BY <1>2, <1>4, <1>6, <1>8, <2>1
<1> QED BY <1>7, <1>8

(* The producers that hold a place of a kind.                              *)
Holders(held, k) == {p \in Producer : held[p].kind = k}

(* Two sets that differ at most in one element.                            *)
LEMMA OneApart ==
  ASSUME NEW S, IsFiniteSet(S), NEW A \in SUBSET S, NEW B \in SUBSET S, NEW p \in S,
         \A q \in S \ {p} : q \in A <=> q \in B
  PROVE  /\ Cardinality(A) \in Nat /\ Cardinality(B) \in Nat
         /\ Cardinality(B) + (IF p \in A THEN 1 ELSE 0) = Cardinality(A) + (IF p \in B THEN 1 ELSE 0)
<1> DEFINE others == A \ {p}
<1>1. IsFiniteSet(others) /\ Cardinality(others) \in Nat
  <2>1. others \in SUBSET S
    OBVIOUS
  <2> QED BY <2>1, FS_Subset, FS_CardinalityType
<1>2. p \notin others /\ Cardinality(others \cup {p}) = Cardinality(others) + 1
  BY <1>1, FS_AddElement
<1>3. A = IF p \in A THEN others \cup {p} ELSE others
  OBVIOUS
<1>4. B = IF p \in B THEN others \cup {p} ELSE others
  OBVIOUS
<1> HIDE DEF others
<1>5. Cardinality(A) = Cardinality(others) + (IF p \in A THEN 1 ELSE 0)
  <2>1. CASE p \in A
    <3>1. A = others \cup {p}
      BY <1>3, <2>1
    <3> QED BY <1>2, <2>1, <3>1
  <2>2. CASE p \notin A
    <3>1. A = others
      BY <1>3, <2>2
    <3> QED BY <1>1, <2>2, <3>1
  <2> QED BY <2>1, <2>2
<1>6. Cardinality(B) = Cardinality(others) + (IF p \in B THEN 1 ELSE 0)
  <2>1. CASE p \in B
    <3>1. B = others \cup {p}
      BY <1>4, <2>1
    <3> QED BY <1>2, <2>1, <3>1
  <2>2. CASE p \notin B
    <3>1. B = others
      BY <1>4, <2>2
    <3> QED BY <1>1, <2>2, <3>1
  <2> QED BY <2>1, <2>2
<1> QED BY <1>1, <1>5, <1>6

(* The counts of the model are these.                                      *)
LEMMA CountsAre ==
  \A k : /\ Log!Entries(k) = Cardinality(Places(queue, k))
         /\ Log!Entries(k)' = Cardinality(Places(queue', k))
         /\ Log!Reserved(k) = Cardinality(Holders(producer, k))
         /\ Log!Reserved(k)' = Cardinality(Holders(producer', k))
<1>1. \A S : Log!Cardinality(S) = Cardinality(S)
  BY DEF Log!Cardinality, Cardinality
<1> QED BY <1>1 DEF Log!Entries, Log!Reserved, Places, Holders

(* A producer that takes or gives back a place changes the count by one.   *)
LEMMA HoldersChange ==
  ASSUME LogLimits, LogTypes, NEW p \in Producer, NEW e \in Reservation, NEW k,
         producer' = [producer EXCEPT ![p] = e]
  PROVE  /\ Log!Reserved(k) \in Nat /\ Log!Reserved(k)' \in Nat
         /\ Log!Reserved(k)' + (IF producer[p].kind = k THEN 1 ELSE 0) =
              Log!Reserved(k) + (IF e.kind = k THEN 1 ELSE 0)
<1> DEFINE A == Holders(producer, k)
           B == Holders(producer', k)
<1>1. IsFiniteSet(Producer) /\ A \in SUBSET Producer /\ B \in SUBSET Producer
  BY DEF LogLimits, Holders
<1>2. producer'[p] = e /\ \A q \in Producer \ {p} : producer'[q] = producer[q]
  BY DEF LogTypes
<1>3. (p \in A <=> producer[p].kind = k) /\ (p \in B <=> e.kind = k)
  BY <1>2 DEF Holders
<1>4. \A q \in Producer \ {p} : q \in A <=> q \in B
  BY <1>2 DEF Holders
<1>5. Log!Reserved(k) = Cardinality(A) /\ Log!Reserved(k)' = Cardinality(B)
  BY CountsAre
<1> HIDE DEF A, B
<1>6. /\ Cardinality(A) \in Nat /\ Cardinality(B) \in Nat
      /\ Cardinality(B) + (IF p \in A THEN 1 ELSE 0) = Cardinality(A) + (IF p \in B THEN 1 ELSE 0)
  BY <1>1, <1>4, OneApart
<1> QED BY <1>3, <1>5, <1>6

(* A command that is put into the queue takes no place of an entry.        *)
LEMMA CommandPut ==
  ASSUME PlacesInv, NEW e \in LogEntry, e.kind \notin {"data", "sys"},
         Log!Put(e), UNCHANGED <<pending, producer>>,
         starter' \in [pc : {"idle", "checked", "waiting", "expired", "ok", "failed"}, s : Session \cup {0}]
  PROVE  PlacesInv'
<1>1. LogTypes
  BY DEF PlacesInv
<1>2. queue' = Append(queue, e) /\ queue \in Seq(LogEntry)
  BY <1>1 DEF Log!Put, LogTypes
<1>3. queue' \in Seq(LogEntry)
  BY <1>2, AppendProperties
<1>4. \A k \in {"data", "sys"} : Log!Entries(k)' = Log!Entries(k)
  <2> TAKE k \in {"data", "sys"}
  <2>1. Cardinality(Places(Append(queue, e), k)) = Cardinality(Places(queue, k)) + (IF e.kind = k THEN 1 ELSE 0)
    BY <1>2, PlacesAppend
  <2>2. Cardinality(Places(queue, k)) \in Nat
    BY <1>2, PlacesFinite
  <2> QED BY <1>2, <2>1, <2>2, CountsAre
<1>5. \A k : Log!Reserved(k)' = Log!Reserved(k)
  BY CountsAre
<1> QED BY <1>1, <1>3, <1>4, <1>5 DEF PlacesInv, LogTypes, Log!Limit

(* A producer that is admitted below the limit counts itself before its    *)
(* entry is in the queue (log_engine.rs, the compare-exchange loop).       *)
LEMMA ReserveKeeps ==
  ASSUME LogLimits, PlacesInv, NEW p \in Producer, NEW e \in Reservation,
         e.kind \in {"data", "sys"}, Log!Reserve(p, e)
  PROVE  PlacesInv'
<1>1. LogTypes
  BY DEF PlacesInv
<1>2. /\ producer[p].kind = "none" /\ pending[e.kind] < Log!Limit(e.kind)
      /\ pending' = [pending EXCEPT ![e.kind] = @ + 1]
      /\ producer' = [producer EXCEPT ![p] = e]
      /\ UNCHANGED <<queue, starter>>
  BY DEF Log!Reserve, Log!Nobody
<1>3. pending' \in [{"data", "sys"} -> Nat] /\ producer' \in [Producer -> Reservation]
  BY <1>1, <1>2 DEF LogTypes
<1>4. ASSUME NEW k \in {"data", "sys"}
      PROVE  pending'[k] = Log!Entries(k)' + Log!Reserved(k)' /\ pending'[k] <= Log!Limit(k)
  <2>1. /\ Log!Reserved(k) \in Nat /\ Log!Reserved(k)' \in Nat
        /\ Log!Reserved(k)' + (IF producer[p].kind = k THEN 1 ELSE 0) =
             Log!Reserved(k) + (IF e.kind = k THEN 1 ELSE 0)
    BY <1>1, <1>2, HoldersChange
  <2>2. Log!Entries(k)' = Log!Entries(k) /\ Log!Entries(k) \in Nat
    BY <1>1, <1>2, CountsAre, PlacesFinite DEF LogTypes
  <2>3. Log!Reserved(k) \in Nat /\ Log!Reserved(k)' = Log!Reserved(k) + (IF e.kind = k THEN 1 ELSE 0)
    BY <1>2, <1>4, <2>1
  <2>4. pending'[k] = pending[k] + (IF e.kind = k THEN 1 ELSE 0) /\ pending[k] \in Nat
    BY <1>1, <1>2 DEF LogTypes
  <2>5. pending[k] = Log!Entries(k) + Log!Reserved(k) /\ pending[k] <= Log!Limit(k) /\ Log!Limit(k) \in Nat
    BY DEF PlacesInv, Log!Limit, LogLimits
  <2> QED BY <1>2, <2>2, <2>3, <2>4, <2>5
<1> QED BY <1>1, <1>2, <1>3, <1>4 DEF PlacesInv, LogTypes, Log!Limit

(* A reservation that becomes an entry is counted as one instead of the    *)
(* other; one that finds no room is given back.                            *)
LEMMA EnqueueKeeps ==
  ASSUME LogLimits, PlacesInv, NEW p \in Producer, Log!Enqueue(p)
  PROVE  PlacesInv'
<1> DEFINE e == producer[p]
<1>0. PICK free : free = Log!Nobody
  OBVIOUS
<1>1. LogTypes
  BY DEF PlacesInv
<1>2. e # free /\ producer' = [producer EXCEPT ![p] = free] /\ UNCHANGED starter
  BY <1>0 DEF Log!Enqueue
<1>3. free \in Reservation /\ free.kind = "none" /\ e \in Reservation
  BY <1>0, <1>1 DEF LogTypes, Reservation, Log!Nobody
<1> HIDE DEF e
<1>4. producer' \in [Producer -> Reservation]
  BY <1>1, <1>2, <1>3 DEF LogTypes
<1>5. \A k \in {"data", "sys"} :
        /\ Log!Reserved(k) \in Nat /\ Log!Reserved(k)' \in Nat
        /\ Log!Reserved(k) = Log!Reserved(k)' + (IF e.kind = k THEN 1 ELSE 0)
  <2> TAKE k \in {"data", "sys"}
  <2>1. /\ Log!Reserved(k) \in Nat /\ Log!Reserved(k)' \in Nat
        /\ Log!Reserved(k)' + (IF producer[p].kind = k THEN 1 ELSE 0) =
             Log!Reserved(k) + (IF free.kind = k THEN 1 ELSE 0)
    BY <1>1, <1>2, <1>3, HoldersChange
  <2> QED BY <1>3, <2>1 DEF e
<1>6. \A k \in {"data", "sys"} : Log!Entries(k) \in Nat /\ Log!Limit(k) \in Nat
  BY <1>1, CountsAre, PlacesFinite DEF LogTypes, Log!Limit, LogLimits
<1>7. CASE Log!Put(producer[p]) /\ UNCHANGED pending
  <2>1. queue' = Append(queue, e) /\ queue \in Seq(LogEntry)
    BY <1>1, <1>7 DEF Log!Put, LogTypes, e
  <2>2. e \in LogEntry
    <3>1. e \in [kind : {"data", "sys"}, s : Session \cup {0}]
      BY <1>0, <1>2, <1>3 DEF Reservation
    <3> QED BY <3>1 DEF LogEntry
  <2>3. queue' \in Seq(LogEntry)
    BY <2>1, <2>2, AppendProperties
  <2>4. \A k \in {"data", "sys"} : Log!Entries(k)' = Log!Entries(k) + (IF e.kind = k THEN 1 ELSE 0)
    <3> TAKE k \in {"data", "sys"}
    <3>1. Cardinality(Places(Append(queue, e), k)) = Cardinality(Places(queue, k)) + (IF e.kind = k THEN 1 ELSE 0)
      BY <2>1, <2>2, PlacesAppend
    <3> QED BY <2>1, <3>1, CountsAre
  <2>5. \A k \in {"data", "sys"} :
          pending'[k] = Log!Entries(k)' + Log!Reserved(k)' /\ pending'[k] <= Log!Limit(k)
    BY <1>5, <1>6, <1>7, <2>4 DEF PlacesInv
  <2> QED BY <1>1, <1>2, <1>4, <1>7, <2>3, <2>5 DEF PlacesInv, LogTypes, Log!Limit
<1>8. CASE UNCHANGED queue /\ pending' = [pending EXCEPT ![producer[p].kind] = @ - 1]
  <2>1. \A k : Log!Entries(k)' = Log!Entries(k)
    BY <1>8, CountsAre
  <2>2. \A k \in {"data", "sys"} :
          /\ pending'[k] = pending[k] - (IF e.kind = k THEN 1 ELSE 0)
          /\ pending[k] = Log!Entries(k) + Log!Reserved(k) /\ pending[k] <= Log!Limit(k)
    BY <1>1, <1>8 DEF PlacesInv, LogTypes, e
  <2>3. \A k \in {"data", "sys"} : /\ pending'[k] = Log!Entries(k)' + Log!Reserved(k)'
                                   /\ pending'[k] <= Log!Limit(k) /\ pending'[k] \in Nat
    BY <1>5, <1>6, <2>1, <2>2
  <2>4. pending' \in [{"data", "sys"} -> Nat]
    BY <1>1, <1>8, <2>3 DEF LogTypes
  <2> QED BY <1>1, <1>2, <1>4, <1>8, <2>3, <2>4 DEF PlacesInv, LogTypes, Log!Limit
<1> QED BY <1>7, <1>8 DEF Log!Enqueue

(* The consumer gives back the place of the entry it takes.                *)
LEMMA HandleKeeps ==
  ASSUME LogLimits, PlacesInv, Log!Handle
  PROVE  PlacesInv'
<1> DEFINE e == Head(queue)
<1>1. LogTypes
  BY DEF PlacesInv
<1>2. queue # <<>> /\ queue' = Tail(queue) /\ pending' = Log!Released(e.kind) /\ UNCHANGED producer
  BY DEF Log!Handle
<1>3. queue \in Seq(LogEntry) /\ queue' \in Seq(LogEntry) /\ e \in LogEntry
  BY <1>1, <1>2, HeadTailProperties DEF LogTypes
<1>4. starter' \in [pc : {"idle", "checked", "waiting", "expired", "ok", "failed"}, s : Session \cup {0}]
  <2>1. starter' = starter \/ \E s : Log!HandleStart(s)
    BY <1>3 DEF Log!Handle, Log!HandleData, Log!HandleStop, Log!HandleStopAll, Log!HandleClear,
                Log!HandleSystem, LogEntry
  <2>2. ASSUME NEW s, Log!HandleStart(s)
        PROVE  \E pc \in {"idle", "checked", "waiting", "expired", "ok", "failed"} :
                 starter' = [starter EXCEPT !.pc = pc]
    BY <1>1, <2>2 DEF Log!HandleStart, LogTypes
  <2> QED BY <1>1, <2>1, <2>2 DEF LogTypes
<1> HIDE DEF e
<1>5. ASSUME NEW k \in {"data", "sys"}
      PROVE  /\ pending'[k] \in Nat /\ pending'[k] <= Log!Limit(k)
             /\ pending'[k] = Log!Entries(k)' + Log!Reserved(k)'
  <2>1. Cardinality(Places(queue, k)) =
          Cardinality(Places(Tail(queue), k)) + (IF Head(queue).kind = k THEN 1 ELSE 0)
    BY <1>2, <1>3, PlacesTail
  <2>2. Cardinality(Places(queue', k)) \in Nat
    BY <1>3, PlacesFinite
  <2>3. Log!Entries(k)' \in Nat /\ Log!Entries(k) = Log!Entries(k)' + (IF e.kind = k THEN 1 ELSE 0)
    BY <1>2, <2>1, <2>2, CountsAre DEF e
  <2>4. Log!Reserved(k)' = Log!Reserved(k) /\ Log!Reserved(k) \in Nat
    <3>1. Holders(producer, k) \in SUBSET Producer /\ IsFiniteSet(Producer)
      BY DEF Holders, LogLimits
    <3>2. Cardinality(Holders(producer, k)) \in Nat
      BY <3>1, FS_Subset, FS_CardinalityType
    <3> QED BY <1>2, <3>2, CountsAre
  <2>5. pending'[k] = pending[k] - (IF e.kind = k THEN 1 ELSE 0)
    BY <1>1, <1>2 DEF Log!Released, LogTypes
  <2>6. pending[k] = Log!Entries(k) + Log!Reserved(k) /\ pending[k] <= Log!Limit(k) /\ Log!Limit(k) \in Nat
    BY DEF PlacesInv, Log!Limit, LogLimits
  <2> QED BY <2>3, <2>4, <2>5, <2>6
<1>6. pending' \in [{"data", "sys"} -> Nat]
  <2>1. pending' \in [{"data", "sys"} -> Int]
    BY <1>1, <1>2 DEF Log!Released, LogTypes
  <2> QED BY <1>5, <2>1
<1> QED BY <1>1, <1>2, <1>3, <1>4, <1>5, <1>6 DEF PlacesInv, LogTypes, Log!Limit

(* An engine that starts has nothing queued and nothing reserved.          *)
LEMMA PlacesInit == LogLimits /\ Log!Init => PlacesInv
<1> SUFFICES ASSUME LogLimits, Log!Init PROVE PlacesInv
  OBVIOUS
<1>1. LogTypes /\ Len(queue) = 0
  BY EmptySeq DEF Log!Init, LogTypes, Reservation, Log!Nobody
<1>2. \A k \in {"data", "sys"} : Places(queue, k) = {} /\ Holders(producer, k) = {}
  BY <1>1 DEF Log!Init, Log!Nobody, Places, Holders
<1>3. \A k \in {"data", "sys"} : Log!Entries(k) = 0 /\ Log!Reserved(k) = 0
  BY <1>2, CountsAre, FS_EmptySet
<1>4. pending["data"] = 0 /\ pending["sys"] = 0
  BY DEF Log!Init
<1> QED BY <1>1, <1>3, <1>4 DEF PlacesInv, Log!Limit, LogLimits

(* Producers, the commands of the user and the consumer, in any order.     *)
LEMMA PlacesStep ==
  ASSUME LogLimits, PlacesInv, [Log!Next]_(Log!lvars)
  PROVE  PlacesInv'
<1>1. LogTypes
  BY DEF PlacesInv
<1> DEFINE Starters == [pc : {"idle", "checked", "waiting", "expired", "ok", "failed"}, s : Session \cup {0}]
<1>2. ASSUME UNCHANGED <<queue, pending, producer>>, starter' \in Starters PROVE PlacesInv'
  BY <1>1, <1>2 DEF PlacesInv, LogTypes, Log!Entries, Log!Reserved, Log!Limit
<1>3. \A s \in Session \cup {0} : /\ Log!Entry("data", s) \in Reservation /\ Log!Entry("data", s).kind = "data"
                                  /\ Log!Entry("sys", s) \in Reservation /\ Log!Entry("sys", s).kind = "sys"
  BY DEF Log!Entry, Reservation
<1>4. \A s \in Session \cup {0}, k \in {"start", "stop", "clear", "stopall", "shutdown"} :
        Log!Entry(k, s) \in LogEntry /\ Log!Entry(k, s).kind \notin {"data", "sys"}
  BY DEF Log!Entry, LogEntry
<1>5. starter \in Starters /\ starter.s \in Session \cup {0}
  BY <1>1 DEF LogTypes
<1> HIDE DEF Starters
<1>6. CASE Log!ReadConfig \/ Log!Idle \/ Log!UpdatePublish \/ Log!SetLogDir
  BY <1>2, <1>5, <1>6 DEF Log!ReadConfig, Log!Idle, Log!UpdatePublish, Log!SetLogDir
<1>7. CASE Log!Handle
  BY <1>7, HandleKeeps
<1>8. CASE Log!StartSend
  <2>1. \A pc \in {"waiting", "failed"} : [starter EXCEPT !.pc = pc] \in Starters
    BY <1>5 DEF Starters
  <2>2. UNCHANGED <<pending, producer>> /\ starter' \in Starters
    BY <1>8, <2>1 DEF Log!StartSend
  <2>3. CASE Log!Put(Log!Entry("start", starter.s))
    BY <1>4, <1>5, <2>2, <2>3, CommandPut DEF Starters
  <2>4. CASE UNCHANGED queue
    BY <1>2, <2>2, <2>4
  <2> QED BY <1>8, <2>3, <2>4 DEF Log!StartSend
<1>9. CASE Log!StartReturns \/ Log!StartExpires
  <2>1. \A pc \in {"failed", "expired"} : [starter EXCEPT !.pc = pc] \in Starters
    BY <1>5 DEF Starters
  <2>2. [pc |-> "idle", s |-> 0] \in Starters
    BY DEF Starters
  <2> QED BY <1>2, <1>9, <2>1, <2>2 DEF Log!StartReturns, Log!StartExpires
<1>10. ASSUME NEW p \in Producer, Log!Enqueue(p) PROVE PlacesInv'
  BY <1>10, EnqueueKeeps
<1>11. CASE Log!ClearAllLogs
  BY <1>4, <1>5, <1>11, CommandPut DEF Log!ClearAllLogs, Starters
<1>12. CASE Log!Shutdown
  BY <1>4, <1>5, <1>12, CommandPut DEF Log!Shutdown, Starters
<1>13. ASSUME NEW v \in BOOLEAN, Log!UpdateConfig(v) PROVE PlacesInv'
  <2>1. UNCHANGED <<pending, producer, starter>>
    BY <1>13 DEF Log!UpdateConfig
  <2>2. CASE v
    BY <1>2, <1>5, <1>13, <2>1, <2>2 DEF Log!UpdateConfig
  <2>3. CASE ~v
    <3>1. Log!Put(Log!Entry("stopall", 0))
      BY <1>13, <2>3 DEF Log!UpdateConfig
    <3> QED BY <1>4, <1>5, <2>1, <3>1, CommandPut DEF Starters
  <2> QED BY <2>2, <2>3
<1>14. ASSUME NEW s \in Session, Log!StartCheck(s) PROVE PlacesInv'
  <2>1. [pc |-> "checked", s |-> s] \in Starters
    BY DEF Starters
  <2> QED BY <1>2, <1>14, <2>1 DEF Log!StartCheck
<1>15. ASSUME NEW s \in Session, Log!StopSession(s) PROVE PlacesInv'
  BY <1>4, <1>5, <1>15, CommandPut DEF Log!StopSession, Starters
<1>16. ASSUME NEW s \in Session, NEW p \in Producer, Log!Reserve(p, Log!Entry("data", s)) PROVE PlacesInv'
  BY <1>3, <1>16, ReserveKeeps
<1>17. ASSUME NEW p \in Producer, Log!Reserve(p, Log!Entry("sys", 0)) PROVE PlacesInv'
  BY <1>3, <1>17, ReserveKeeps
<1>18. CASE UNCHANGED Log!lvars
  BY <1>2, <1>5, <1>18 DEF Log!lvars
<1> QED BY <1>6, <1>7, <1>8, <1>9, <1>10, <1>11, <1>12, <1>13, <1>14, <1>15, <1>16, <1>17, <1>18
     DEF Log!Next, Log!ConsumerRuns, Log!StarterRuns

(* The two limits leave a place free, and nothing but entries and          *)
(* reservations takes one: a control command finds room.                   *)
LEMMA ControlHasRoomBy ==
  ASSUME LogLimits, PlacesInv
  PROVE  Log!ControlHasRoom
<1>1. /\ pending["data"] = Log!Entries("data") + Log!Reserved("data") /\ pending["data"] <= SessionLimit
      /\ pending["sys"] = Log!Entries("sys") + Log!Reserved("sys") /\ pending["sys"] <= SystemLimit
  BY DEF PlacesInv, Log!Limit
<1>2. \A k : Log!Entries(k) \in Nat /\ Log!Reserved(k) \in Nat
  <2> TAKE k
  <2>1. Holders(producer, k) \in SUBSET Producer /\ IsFiniteSet(Producer)
    BY DEF Holders, LogLimits
  <2>2. Cardinality(Holders(producer, k)) \in Nat
    BY <2>1, FS_Subset, FS_CardinalityType
  <2> QED BY <2>2, CountsAre, PlacesFinite DEF PlacesInv, LogTypes
<1>3. Len(queue) \in Nat
  BY LenProperties DEF PlacesInv, LogTypes
<1> QED BY <1>1, <1>2, <1>3 DEF Log!ControlHasRoom, Log!Commands, Log!HasRoom, LogLimits

(* Data never takes the places of commands in the log queue, for any       *)
(* number of producers and sessions and any limits (try_send_session_log,  *)
(* try_send_system_event, consumer_loop).                                  *)
THEOREM ControlKeepsRoom ==
  ASSUME LogLimits
  PROVE  Log!Init /\ [][Log!Next]_(Log!lvars) => []Log!ControlHasRoom
<1>1. Log!Init => PlacesInv
  BY PlacesInit
<1>2. PlacesInv /\ [Log!Next]_(Log!lvars) => PlacesInv'
  BY PlacesStep
<1>3. PlacesInv => Log!ControlHasRoom
  BY ControlHasRoomBy
<1> QED BY <1>1, <1>2, <1>3, PTL

(* The system log is not the log of a session, and segments are numbered.  *)
LogNames == Log!SystemLog \notin Session /\ MaxSegments \in Nat

(* What is open is on disk and of one writer, and who asks for a log is a  *)
(* session.                                                                *)
SegmentsInv ==
  /\ LogTypes
  /\ writers \in [Log!Log -> Nat]
  /\ Log!OpenSegmentsKept
  /\ \A i \in 1..Len(queue) : queue[i].kind = "start" => queue[i].s \in Session
  /\ starter.pc = "checked" => starter.s \in Session

(* A new segment is none that is on disk, so none that is open.            *)
LEMMA OpensNew ==
  ASSUME LogNames, SegmentsInv, NEW s \in Log!Log, Log!Opens(s)
  PROVE  /\ writers' \in [Log!Log -> Nat]
         /\ writers'[s] # 0 /\ \A l \in Log!Log \ {s} : writers'[l] = writers[l]
         /\ \A l \in Log!Log : writers'[l] # 0 => writers'[l] \in disk'
         /\ \A l, m \in Log!Log : writers'[l] # 0 /\ l # m => writers'[l] # writers'[m]
<1>1. PICK n \in Log!Unused : writers' = [writers EXCEPT ![s] = n] /\ disk' = disk \cup {n}
  BY DEF Log!Opens
<1>2. n \in Nat /\ n # 0 /\ n \notin disk
  BY <1>1 DEF LogNames, Log!Unused
<1>3. /\ writers \in [Log!Log -> Nat]
      /\ \A l \in Log!Log : writers[l] # 0 => writers[l] \in disk
      /\ \A l, m \in Log!Log : writers[l] # 0 /\ l # m => writers[l] # writers[m]
  BY DEF SegmentsInv, Log!OpenSegmentsKept
<1>4. /\ writers' \in [Log!Log -> Nat] /\ writers'[s] = n
      /\ \A l \in Log!Log \ {s} : writers'[l] = writers[l]
  BY <1>1, <1>2, <1>3
<1>5. \A l \in Log!Log : writers'[l] # 0 => writers'[l] \in disk'
  BY <1>1, <1>3, <1>4
<1>6. ASSUME NEW l \in Log!Log, NEW m \in Log!Log, writers'[l] # 0, l # m
      PROVE  writers'[l] # writers'[m]
  <2>1. CASE l = s
    BY <1>2, <1>3, <1>4, <1>6, <2>1
  <2>2. CASE m = s
    BY <1>2, <1>3, <1>4, <1>6, <2>2
  <2>3. CASE l # s /\ m # s
    BY <1>3, <1>4, <1>6, <2>3
  <2> QED BY <2>1, <2>2, <2>3
<1> QED BY <1>2, <1>4, <1>5, <1>6

(* Closing a writer leaves the others, and its session is not active.      *)
LEMMA ClosesOne ==
  ASSUME SegmentsInv, NEW s \in Log!Log, writers' = [writers EXCEPT ![s] = 0], disk' = disk,
         active' = active \ {s}
  PROVE  writers' \in [Log!Log -> Nat] /\ Log!OpenSegmentsKept'
<1>1. /\ writers \in [Log!Log -> Nat] /\ active \subseteq Log!Open
      /\ \A l \in Log!Log : writers[l] # 0 => writers[l] \in disk
      /\ \A l, m \in Log!Log : writers[l] # 0 /\ l # m => writers[l] # writers[m]
  BY DEF SegmentsInv, Log!OpenSegmentsKept
<1>2. /\ writers' \in [Log!Log -> Nat] /\ writers'[s] = 0
      /\ \A l \in Log!Log \ {s} : writers'[l] = writers[l]
  BY <1>1
<1>3. active' \subseteq {l \in Session : writers'[l] # 0}
  BY <1>1, <1>2 DEF Log!Open, Log!Log
<1> QED BY <1>1, <1>2, <1>3 DEF Log!OpenSegmentsKept, Log!Open

(* What the consumer does with an entry of the queue.                      *)
LEMMA HandlesSegments ==
  ASSUME LogNames, SegmentsInv, Log!Handle
  PROVE  writers' \in [Log!Log -> Nat] /\ Log!OpenSegmentsKept'
<1> DEFINE e == Head(queue)
           Kept == writers' \in [Log!Log -> Nat] /\ Log!OpenSegmentsKept'
<1>1. /\ writers \in [Log!Log -> Nat] /\ active \subseteq Log!Open
      /\ \A l \in Log!Log : writers[l] # 0 => writers[l] \in disk
      /\ \A l, m \in Log!Log : writers[l] # 0 /\ l # m => writers[l] # writers[m]
  BY DEF SegmentsInv, Log!OpenSegmentsKept
<1>2. queue \in Seq(LogEntry) /\ queue # <<>>
  BY DEF SegmentsInv, LogTypes, Log!Handle
<1>3. e \in LogEntry /\ e = queue[1] /\ 1 \in 1..Len(queue)
  BY <1>2, EmptySeq, LenProperties, HeadTailProperties
<1>4. e.s \in Log!Log /\ (e.kind = "start" => e.s \in Session)
  BY <1>3 DEF LogEntry, SegmentsInv, Log!Log, Log!SystemLog
<1>5. e.kind \in {"data", "sys", "start", "stop", "stopall", "clear", "shutdown"}
  BY <1>3 DEF LogEntry
<1>6. /\ e.kind = "start" => Log!HandleStart(e.s)
      /\ e.kind = "data" => Log!HandleData(e.s)
      /\ e.kind = "stop" => Log!HandleStop(e.s)
      /\ e.kind = "stopall" => Log!HandleStopAll
      /\ e.kind = "clear" => Log!HandleClear
      /\ e.kind = "shutdown" => active' = {} /\ UNCHANGED <<writers, disk>>
      /\ e.kind = "sys" => Log!HandleSystem
  BY <1>5 DEF Log!Handle
<1> HIDE DEF e
<1>7. ASSUME UNCHANGED writers, disk \subseteq disk', active' \subseteq active PROVE Kept
  BY <1>1, <1>7 DEF Log!OpenSegmentsKept, Log!Open
<1>8. ASSUME NEW s \in Log!Log, Log!Opens(s), active' = active \/ (s \in Session /\ active' = active \cup {s})
      PROVE  Kept
  <2>1. /\ writers' \in [Log!Log -> Nat]
        /\ writers'[s] # 0 /\ \A l \in Log!Log \ {s} : writers'[l] = writers[l]
        /\ \A l \in Log!Log : writers'[l] # 0 => writers'[l] \in disk'
        /\ \A l, m \in Log!Log : writers'[l] # 0 /\ l # m => writers'[l] # writers'[m]
    BY <1>8, OpensNew
  <2>2. active' \subseteq {l \in Session : writers'[l] # 0}
    BY <1>1, <1>8, <2>1 DEF Log!Open, Log!Log
  <2> QED BY <2>1, <2>2 DEF Log!OpenSegmentsKept, Log!Open
<1>9. CASE e.kind = "start"
  <2>1. Log!HandleStart(e.s) /\ e.s \in Session /\ e.s \in Log!Log
    BY <1>4, <1>6, <1>9
  <2>2. CASE Log!Opens(e.s) /\ active' = active \cup {e.s}
    BY <1>8, <2>1, <2>2
  <2>3. CASE UNCHANGED <<active, writers>> /\ disk \subseteq disk'
    BY <1>7, <2>3
  <2> QED BY <2>1, <2>2, <2>3 DEF Log!HandleStart
<1>10. CASE e.kind = "data"
  <2>1. Log!HandleData(e.s)
    BY <1>6, <1>10
  <2>2. CASE Log!Opens(e.s) /\ UNCHANGED active
    BY <1>4, <1>8, <2>2
  <2>3. CASE UNCHANGED <<active, writers, disk>>
    BY <1>7, <2>3
  <2>4. CASE Log!Closes(e.s) /\ UNCHANGED disk
    BY <1>4, <2>4, ClosesOne DEF Log!Closes
  <2> QED BY <2>1, <2>2, <2>3, <2>4 DEF Log!HandleData
<1>11. CASE e.kind = "stop"
  BY <1>4, <1>6, <1>11, ClosesOne DEF Log!HandleStop, Log!Closes
<1>12. CASE e.kind = "stopall"
  <2>1. /\ active' = {} /\ disk' = disk
        /\ writers' = [l \in Log!Log |-> IF l = Log!SystemLog THEN writers[l] ELSE 0]
    BY <1>6, <1>12 DEF Log!HandleStopAll
  <2>2. writers' \in [Log!Log -> Nat] /\ \A l \in Log!Log : writers'[l] \in {writers[l], 0}
    BY <1>1, <2>1
  <2>3. \A l, m \in Log!Log : writers'[l] # 0 /\ l # m => writers'[l] # writers'[m]
    BY <1>1, <2>2
  <2> QED BY <1>1, <2>1, <2>2, <2>3 DEF Log!OpenSegmentsKept
<1>13. CASE e.kind = "clear"
  <2>1. PICK keep \in SUBSET Log!Open, rest \in SUBSET disk :
          /\ \E seg \in [keep -> (1..MaxSegments) \ rest] :
                /\ \A s, t \in keep : s # t => seg[s] # seg[t]
                /\ writers' = [l \in Log!Log |-> IF l \in keep THEN seg[l] ELSE 0]
                /\ disk' = rest \cup {seg[s] : s \in keep}
          /\ active' = active \ (Log!Open \ keep)
    BY <1>6, <1>13 DEF Log!HandleClear
  <2>2. PICK seg \in [keep -> (1..MaxSegments) \ rest] :
                /\ \A s, t \in keep : s # t => seg[s] # seg[t]
                /\ writers' = [l \in Log!Log |-> IF l \in keep THEN seg[l] ELSE 0]
                /\ disk' = rest \cup {seg[s] : s \in keep}
    BY <2>1
  <2>3. \A s \in keep : s \in Session /\ s \in Log!Log /\ seg[s] \in Nat /\ seg[s] # 0
    BY <2>2 DEF Log!Open, Log!Log, LogNames
  <2>4. /\ writers' \in [Log!Log -> Nat]
        /\ \A l \in Log!Log : writers'[l] = IF l \in keep THEN seg[l] ELSE 0
    BY <2>2, <2>3
  <2>5. \A l \in Log!Log : writers'[l] # 0 => writers'[l] \in disk'
    BY <2>2, <2>4
  <2>6. \A l, m \in Log!Log : writers'[l] # 0 /\ l # m => writers'[l] # writers'[m]
    BY <2>2, <2>3, <2>4
  <2>7. active' \subseteq {l \in Session : writers'[l] # 0}
    BY <1>1, <2>1, <2>3, <2>4
  <2> QED BY <2>4, <2>5, <2>6, <2>7 DEF Log!OpenSegmentsKept, Log!Open
<1>14. CASE e.kind = "shutdown"
  BY <1>6, <1>7, <1>14
<1>15. CASE e.kind = "sys"
  <2>1. Log!HandleSystem /\ Log!SystemLog \in Log!Log
    BY <1>6, <1>15 DEF Log!Log
  <2>2. UNCHANGED active
    BY <2>1 DEF Log!HandleSystem
  <2>3. CASE Log!Opens(Log!SystemLog)
    BY <1>8, <2>1, <2>2, <2>3
  <2>4. CASE UNCHANGED <<writers, disk>>
    BY <1>7, <2>2, <2>4
  <2>5. CASE writers' = [writers EXCEPT ![Log!SystemLog] = 0] /\ UNCHANGED disk
    <3>1. active \subseteq Session
      BY <1>1 DEF Log!Open
    <3>2. active' = active \ {Log!SystemLog}
      BY <2>2, <3>1 DEF LogNames
    <3> QED BY <2>1, <2>5, <3>2, ClosesOne
  <2> QED BY <2>1, <2>3, <2>4, <2>5 DEF Log!HandleSystem
<1> QED BY <1>5, <1>9, <1>10, <1>11, <1>12, <1>13, <1>14, <1>15

(* Every other step leaves the writers alone, and deletes no segment of    *)
(* theirs.                                                                 *)
LEMMA SegmentsStep ==
  ASSUME LogLimits, LogNames, PlacesInv, SegmentsInv, [Log!Next]_(Log!lvars)
  PROVE  SegmentsInv'
<1> DEFINE Kept == writers' \in [Log!Log -> Nat] /\ Log!OpenSegmentsKept'
           Asked == /\ \A i \in 1..Len(queue') : queue'[i].kind = "start" => queue'[i].s \in Session
                    /\ starter'.pc = "checked" => starter'.s \in Session
<1>0. LogTypes /\ LogTypes'
  BY PlacesStep DEF PlacesInv
<1>1. queue \in Seq(LogEntry)
      /\ starter \in [pc : {"idle", "checked", "waiting", "expired", "ok", "failed"}, s : Session \cup {0}]
  BY <1>0 DEF LogTypes
<1>2. ASSUME Kept, Asked PROVE SegmentsInv'
  BY <1>0, <1>2 DEF SegmentsInv
<1>3. ASSUME UNCHANGED <<writers, disk, active>> PROVE Kept
  BY <1>3 DEF SegmentsInv, Log!OpenSegmentsKept, Log!Open
<1>4. ASSUME UNCHANGED <<queue, starter>> PROVE Asked
  BY <1>4 DEF SegmentsInv
<1>5. ASSUME NEW x \in LogEntry, x.kind = "start" => x.s \in Session, queue' = Append(queue, x),
             starter'.pc # "checked" \/ starter' = starter
      PROVE  Asked
  <2>1. Len(queue') = Len(queue) + 1 /\ Len(queue) \in Nat /\ queue'[Len(queue) + 1] = x
        /\ \A i \in 1..Len(queue) : queue'[i] = queue[i]
    BY <1>1, <1>5, AppendProperties, LenProperties
  <2>2. \A i \in 1..Len(queue') : i \in 1..Len(queue) \/ i = Len(queue) + 1
    BY <2>1
  <2> QED BY <1>5, <2>1, <2>2 DEF SegmentsInv
<1>6. \A s \in Session \cup {0}, k \in {"start", "stop", "clear", "stopall", "shutdown"} :
        Log!Entry(k, s) \in LogEntry /\ Log!Entry(k, s).kind = k /\ Log!Entry(k, s).s = s
  BY DEF Log!Entry, LogEntry
<1> HIDE DEF Kept, Asked
<1>7. CASE Log!ReadConfig
  <2>1. UNCHANGED <<queue, starter, active, writers>>
    BY <1>7 DEF Log!ReadConfig
  <2>2. \A l \in Log!Log : writers[l] # 0 => writers[l] \in disk'
    BY <1>7 DEF Log!ReadConfig, Log!Protected, SegmentsInv, Log!OpenSegmentsKept
  <2>3. Kept
    BY <2>1, <2>2 DEF Kept, SegmentsInv, Log!OpenSegmentsKept, Log!Open
  <2> QED BY <1>2, <1>4, <2>1, <2>3
<1>8. CASE Log!Handle
  <2>1. Kept
    BY <1>8, HandlesSegments DEF Kept
  <2>2. queue # <<>> /\ queue' = Tail(queue)
    BY <1>8 DEF Log!Handle
  <2>3. Len(queue) \in Nat /\ Len(queue') = Len(queue) - 1 /\ \A i \in 1..Len(queue') : queue'[i] = queue[i + 1]
    BY <1>1, <2>2, HeadTailProperties, LenProperties
  <2>4. \A i \in 1..Len(queue') : i + 1 \in 1..Len(queue)
    BY <2>3
  <2>5. starter' = starter \/ starter'.pc # "checked" \/ (starter'.s = starter.s /\ starter.pc = "checked")
    <3>0. Head(queue) \in LogEntry
      BY <1>1, <2>2, HeadTailProperties
    <3>1. starter' = starter \/ \E s : Log!HandleStart(s)
      BY <1>8, <3>0 DEF Log!Handle, Log!HandleData, Log!HandleStop, Log!HandleStopAll, Log!HandleClear,
                Log!HandleSystem, LogEntry
    <3>2. ASSUME NEW s, Log!HandleStart(s)
          PROVE  \/ starter' = starter
                 \/ starter' = [starter EXCEPT !.pc = starter'.pc] /\ starter'.pc \in {starter.pc, "failed", "ok"}
      BY <1>1, <3>2 DEF Log!HandleStart
    <3>3. CASE \E s : Log!HandleStart(s)
      <4>1. \/ starter' = starter
            \/ starter' = [starter EXCEPT !.pc = starter'.pc] /\ starter'.pc \in {starter.pc, "failed", "ok"}
        BY <3>2, <3>3
      <4> QED BY <1>1, <4>1
    <3> QED BY <3>1, <3>3
  <2>6. Asked
    BY <2>3, <2>4, <2>5 DEF Asked, SegmentsInv
  <2> QED BY <1>2, <2>1, <2>6
<1>9. CASE Log!Idle \/ Log!UpdatePublish \/ Log!SetLogDir
  BY <1>2, <1>3, <1>4, <1>9 DEF Log!Idle, Log!UpdatePublish, Log!SetLogDir
<1>10. CASE Log!StartSend
  <2>1. UNCHANGED <<writers, disk, active>> /\ starter.pc = "checked" /\ starter.s \in Session
    BY <1>10 DEF Log!StartSend, SegmentsInv
  <2>2. starter'.pc # "checked"
    BY <1>1, <1>10 DEF Log!StartSend
  <2>3. CASE Log!Put(Log!Entry("start", starter.s))
    <3>1. queue' = Append(queue, Log!Entry("start", starter.s))
      BY <2>3 DEF Log!Put
    <3>2. Asked
      BY <1>5, <1>6, <2>1, <2>2, <3>1
    <3> QED BY <1>2, <1>3, <2>1, <3>2
  <2>4. CASE UNCHANGED queue
    <3>1. Asked
      BY <2>2, <2>4 DEF Asked, SegmentsInv
    <3> QED BY <1>2, <1>3, <2>1, <3>1
  <2> QED BY <1>10, <2>3, <2>4 DEF Log!StartSend
<1>11. CASE Log!StartReturns \/ Log!StartExpires
  <2>1. UNCHANGED <<writers, disk, active, queue>>
    BY <1>11 DEF Log!StartReturns, Log!StartExpires
  <2>2. starter'.pc # "checked"
    BY <1>1, <1>11 DEF Log!StartReturns, Log!StartExpires
  <2>3. Asked
    BY <2>1, <2>2 DEF Asked, SegmentsInv
  <2> QED BY <1>2, <1>3, <2>1, <2>3
<1>12. ASSUME NEW p \in Producer, Log!Enqueue(p) PROVE SegmentsInv'
  <2>1. UNCHANGED <<writers, disk, active, starter>> /\ producer[p] # Log!Nobody
    BY <1>12 DEF Log!Enqueue
  <2>2. producer[p] \in LogEntry /\ producer[p].kind # "start"
    <3>1. producer[p] \in [kind : {"data", "sys"}, s : Session \cup {0}]
      BY <1>0, <2>1 DEF LogTypes, Reservation
    <3> QED BY <3>1 DEF LogEntry
  <2>3. CASE Log!Put(producer[p])
    <3>1. queue' = Append(queue, producer[p])
      BY <2>3 DEF Log!Put
    <3>2. Asked
      BY <1>5, <2>1, <2>2, <3>1
    <3> QED BY <1>2, <1>3, <2>1, <3>2
  <2>4. CASE UNCHANGED queue
    BY <1>2, <1>3, <1>4, <2>1, <2>4
  <2> QED BY <1>12, <2>3, <2>4 DEF Log!Enqueue
<1>13. ASSUME NEW s \in Session \cup {0}, NEW k \in {"stop", "clear", "stopall", "shutdown"},
              Log!Put(Log!Entry(k, s)), UNCHANGED <<writers, disk, active, starter>>
       PROVE  SegmentsInv'
  <2>1. queue' = Append(queue, Log!Entry(k, s))
    BY <1>13 DEF Log!Put
  <2>2. Asked
    BY <1>5, <1>6, <1>13, <2>1
  <2> QED BY <1>2, <1>3, <1>13, <2>2
<1>14. CASE Log!ClearAllLogs
  BY <1>13, <1>14 DEF Log!ClearAllLogs
<1>15. CASE Log!Shutdown
  BY <1>13, <1>15 DEF Log!Shutdown
<1>16. ASSUME NEW v \in BOOLEAN, Log!UpdateConfig(v) PROVE SegmentsInv'
  <2>1. UNCHANGED <<writers, disk, active, starter>>
    BY <1>16 DEF Log!UpdateConfig
  <2>2. CASE v
    BY <1>2, <1>3, <1>4, <1>16, <2>1, <2>2 DEF Log!UpdateConfig
  <2>3. CASE ~v
    BY <1>13, <1>16, <2>1, <2>3 DEF Log!UpdateConfig
  <2> QED BY <2>2, <2>3
<1>17. ASSUME NEW s \in Session, Log!StartCheck(s) PROVE SegmentsInv'
  <2>1. UNCHANGED <<writers, disk, active, queue>> /\ starter' = [pc |-> "checked", s |-> s]
    BY <1>17 DEF Log!StartCheck
  <2>2. Asked
    BY <2>1 DEF Asked, SegmentsInv
  <2> QED BY <1>2, <1>3, <2>1, <2>2
<1>18. ASSUME NEW s \in Session, Log!StopSession(s) PROVE SegmentsInv'
  BY <1>13, <1>18 DEF Log!StopSession
<1>19. ASSUME NEW p \in Producer, NEW e, Log!Reserve(p, e) PROVE SegmentsInv'
  BY <1>2, <1>3, <1>4, <1>19 DEF Log!Reserve
<1>20. CASE UNCHANGED Log!lvars
  BY <1>2, <1>3, <1>4, <1>20 DEF Log!lvars
<1> QED BY <1>7, <1>8, <1>9, <1>10, <1>11, <1>12, <1>14, <1>15, <1>16, <1>17, <1>18, <1>19, <1>20
     DEF Log!Next, Log!ConsumerRuns, Log!StarterRuns

(* At the start nothing is open and nothing is asked for.                  *)
LEMMA SegmentsInit ==
  ASSUME LogLimits, Log!Init
  PROVE  PlacesInv /\ SegmentsInv
<1>1. PlacesInv
  BY PlacesInit
<1>2. queue = <<>> /\ starter.pc = "idle" /\ active = {} /\ writers = [l \in Log!Log |-> 0]
  BY DEF Log!Init
<1>3. Len(queue) = 0
  BY <1>2, EmptySeq
<1> QED BY <1>1, <1>2, <1>3 DEF SegmentsInv, PlacesInv, Log!OpenSegmentsKept

(* The invariant says of the writers what is promised.                     *)
LEMMA SegmentsKeep == SegmentsInv => Log!OpenSegmentsKept
BY DEF SegmentsInv

(* The segment a writer appends to stays on disk, belongs to no other      *)
(* writer, and an active session has one, for any number of sessions,      *)
(* producers and segments (maintain_storage, clear_all, write_with_rotation).*)
THEOREM SegmentsStayOpen ==
  ASSUME LogLimits, LogNames
  PROVE  Log!Init /\ [][Log!Next]_(Log!lvars) => []Log!OpenSegmentsKept
<1>1. Log!Init => PlacesInv /\ SegmentsInv
  BY SegmentsInit
<1>2. PlacesInv /\ SegmentsInv /\ [Log!Next]_(Log!lvars) => PlacesInv' /\ SegmentsInv'
  BY PlacesStep, SegmentsStep
<1> QED BY <1>1, <1>2, SegmentsKeep, PTL

-----------------------------------------------------------------------------
(* The virtual ports *)

(* Other programs use other names than TauTerm.                            *)
OwnNames == NoName \notin Names /\ Foreign \notin Names

PortTypes ==
  /\ driver \in [Ports!Bus -> Names \cup {NoName, Foreign}]
  /\ job = [op |-> job.op, g |-> job.g, owner |-> job.owner, left |-> job.left, made |-> job.made,
            todo |-> job.todo, after |-> job.after, ep |-> job.ep, auth |-> job.auth, asked |-> job.asked]

(* A pair the ledger has, or that the code has already given up.           *)
Known(ep) == ep \in lost \/ \E r \in ledger : r.ep = ep

(* The request that is worked on has it in its hands.                      *)
InHand(ep) == ep \in job.todo \/ (ep = job.ep /\ job.op \in {"record", "partial"})

(* Only a creation has pairs in its hands that the ledger does not have: a *)
(* removal that must be authorised works on pairs of the ledger.           *)
PairsInv ==
  /\ PortTypes
  /\ \A ep \in Ports!Endpoint : Ports!Installed(ep) => Known(ep) \/ InHand(ep)
  /\ job.op \in {"idle", "down", "create", "record", "partial"} => job.todo = {}
  /\ job.op \in {"record", "partial"} =>
       job.ep \in Ports!Endpoint /\ driver[job.ep.bus] \in {job.ep.names, NoName, Foreign}
  /\ job.op = "forget" => ~Ports!Installed(job.ep) \/ job.ep \notin Ports!Endpoint
  /\ job.op \in {"remove", "forget"} /\ job.auth =>
       \A ep \in Ports!Endpoint : Ports!Installed(ep) => Known(ep)

(* Nothing is installed at first.                                          *)
LEMMA PairsInit ==
  ASSUME OwnNames, Ports!Init
  PROVE  PairsInv
<1>1. PortTypes
  BY DEF Ports!Init, Ports!Idle, PortTypes
<1>2. \A ep \in Ports!Endpoint : ~Ports!Installed(ep)
  BY DEF Ports!Init, Ports!Endpoint, Ports!Installed, OwnNames
<1> QED BY <1>1, <1>2 DEF Ports!Init, Ports!Idle, PairsInv

(* Every step of a GUI, of the manager, of a watcher or of another program *)
(* keeps it, and so does the death of the service or the helper.           *)
LEMMA PairsStep ==
  ASSUME OwnNames, PairsInv, [Ports!Next]_(Ports!vpvars)
  PROVE  PairsInv'
<1> USE DEF OwnNames, Ports!Endpoint, Ports!Installed
<1>1. PortTypes
  BY DEF PairsInv
<1>2. job.op \in {"idle", "down", "create", "record", "partial"} => job.todo = {}
  BY DEF PairsInv
<1>3. job.op \in {"idle", "down", "create"} \/ (job.op \in {"remove", "forget"} /\ job.auth) =>
        \A ep \in Ports!Endpoint : Ports!Installed(ep) => Known(ep)
  BY <1>2 DEF PairsInv, InHand
<1>4. ASSUME NEW g \in Gui, Ports!Hello(g) PROVE PairsInv'
  <2>1. PortTypes'
    BY <1>1, <1>4 DEF PortTypes, Ports!Hello, Ports!Reconciled, Ports!StillActive, Ports!Orphans, Ports!Reclaimable
  <2>2. \A ep \in Ports!Endpoint : Ports!Installed(ep)' => Known(ep)' \/ InHand(ep)'
    BY <1>1, <1>2, <1>3, <1>4 DEF PairsInv, PortTypes, Known, InHand, Ports!Hello, Ports!Reconciled,
       Ports!StillActive, Ports!Orphans, Ports!Reclaimable
  <2> QED BY <1>1, <1>2, <1>3, <1>4, <2>1, <2>2 DEF PairsInv, PortTypes, Known, InHand, Ports!Hello,
             Ports!Reconciled, Ports!StillActive, Ports!Orphans, Ports!Reclaimable
<1>5. ASSUME NEW g \in Gui, Ports!EnsureByService(g) PROVE PairsInv'
  <2>1. PortTypes'
    BY <1>1, <1>5 DEF PortTypes, Ports!EnsureByService, Ports!Asks, Ports!Request, Ports!Idle, Ports!Reconciled,
       Ports!StillActive, Ports!Orphans, Ports!Reclaimable
  <2>2. \A ep \in Ports!Endpoint : Ports!Installed(ep)' => Known(ep)' \/ InHand(ep)'
    BY <1>1, <1>2, <1>3, <1>5 DEF PairsInv, PortTypes, Known, InHand, Ports!EnsureByService, Ports!Asks,
       Ports!Request, Ports!Idle, Ports!Reconciled, Ports!StillActive, Ports!Orphans, Ports!Reclaimable
  <2> QED BY <1>1, <1>2, <1>3, <1>5, <2>1, <2>2 DEF PairsInv, PortTypes, Known, InHand, Ports!EnsureByService,
             Ports!Asks, Ports!Request, Ports!Idle, Ports!Reconciled, Ports!StillActive, Ports!Orphans, Ports!Reclaimable
<1>6. ASSUME NEW g \in Gui, Ports!EnsureByHelper(g) PROVE PairsInv'
  <2>1. PortTypes'
    BY <1>1, <1>6 DEF PortTypes, Ports!EnsureByHelper, Ports!Asks, Ports!Request, Ports!Idle, Ports!Reconciled,
       Ports!StillActive, Ports!Orphans, Ports!Reclaimable
  <2>2. \A ep \in Ports!Endpoint : Ports!Installed(ep)' => Known(ep)' \/ InHand(ep)'
    BY <1>1, <1>2, <1>3, <1>6 DEF PairsInv, PortTypes, Known, InHand, Ports!EnsureByHelper, Ports!Asks,
       Ports!Request, Ports!Idle, Ports!Reconciled, Ports!StillActive, Ports!Orphans, Ports!Reclaimable
  <2> QED BY <1>1, <1>2, <1>3, <1>6, <2>1, <2>2 DEF PairsInv, PortTypes, Known, InHand, Ports!EnsureByHelper,
             Ports!Asks, Ports!Request, Ports!Idle, Ports!Reconciled, Ports!StillActive, Ports!Orphans, Ports!Reclaimable
<1>7. ASSUME NEW g \in Gui, Ports!CleanupByService(g) PROVE PairsInv'
  <2>1. PortTypes'
    BY <1>1, <1>7 DEF PortTypes, Ports!CleanupByService, Ports!Asks, Ports!Idle, Ports!Reconciled,
       Ports!StillActive, Ports!Orphans, Ports!Reclaimable
  <2>2. \A ep \in Ports!Endpoint : Ports!Installed(ep)' => Known(ep)' \/ InHand(ep)'
    BY <1>1, <1>2, <1>3, <1>7 DEF PairsInv, PortTypes, Known, InHand, Ports!CleanupByService, Ports!Asks,
       Ports!Idle, Ports!Reconciled, Ports!StillActive, Ports!Orphans, Ports!Reclaimable
  <2> QED BY <1>1, <1>2, <1>3, <1>7, <2>1, <2>2 DEF PairsInv, PortTypes, Known, InHand, Ports!CleanupByService,
             Ports!Asks, Ports!Idle, Ports!Reconciled, Ports!StillActive, Ports!Orphans, Ports!Reclaimable
<1>8. ASSUME NEW g \in Gui, Ports!CleanupByHelper(g) PROVE PairsInv'
  <2>1. PortTypes'
    BY <1>1, <1>8 DEF PortTypes, Ports!CleanupByHelper, Ports!Asks, Ports!Idle, Ports!Reconciled,
       Ports!StillActive, Ports!Orphans, Ports!Reclaimable
  <2>2. \A ep \in Ports!Endpoint : Ports!Installed(ep)' => Known(ep)' \/ InHand(ep)'
    BY <1>1, <1>2, <1>3, <1>8 DEF PairsInv, PortTypes, Known, InHand, Ports!CleanupByHelper, Ports!Asks,
       Ports!Idle, Ports!Reconciled, Ports!StillActive, Ports!Orphans, Ports!Reclaimable
  <2> QED BY <1>1, <1>2, <1>3, <1>8, <2>1, <2>2 DEF PairsInv, PortTypes, Known, InHand, Ports!CleanupByHelper,
             Ports!Asks, Ports!Idle, Ports!Reconciled, Ports!StillActive, Ports!Orphans, Ports!Reclaimable
<1>9. ASSUME NEW g \in Gui, Ports!Disconnect(g) PROVE PairsInv'
  <2>1. PortTypes'
    BY <1>1, <1>9 DEF PortTypes, Ports!Disconnect
  <2>2. \A ep \in Ports!Endpoint : Ports!Installed(ep)' => Known(ep)' \/ InHand(ep)'
    BY <1>1, <1>2, <1>3, <1>9 DEF PairsInv, PortTypes, Known, InHand, Ports!Disconnect
  <2> QED BY <1>1, <1>2, <1>3, <1>9, <2>1, <2>2 DEF PairsInv, PortTypes, Known, InHand, Ports!Disconnect
<1>10. ASSUME NEW g \in Gui, Ports!GuiExits(g) PROVE PairsInv'
  <2>1. PortTypes'
    BY <1>1, <1>10 DEF PortTypes, Ports!GuiExits
  <2>2. \A ep \in Ports!Endpoint : Ports!Installed(ep)' => Known(ep)' \/ InHand(ep)'
    BY <1>1, <1>2, <1>3, <1>10 DEF PairsInv, PortTypes, Known, InHand, Ports!GuiExits
  <2> QED BY <1>1, <1>2, <1>3, <1>10, <2>1, <2>2 DEF PairsInv, PortTypes, Known, InHand, Ports!GuiExits
<1>11. ASSUME NEW g \in Gui, NEW e \in Ports!Endpoint, Ports!DestroyByService(g, e) PROVE PairsInv'
  <2>1. PortTypes'
    BY <1>1, <1>11 DEF PortTypes, Ports!DestroyByService, Ports!Asks, Ports!Idle
  <2>2. \A ep \in Ports!Endpoint : Ports!Installed(ep)' => Known(ep)' \/ InHand(ep)'
    BY <1>1, <1>2, <1>3, <1>11 DEF PairsInv, PortTypes, Known, InHand, Ports!DestroyByService, Ports!Asks,
       Ports!Idle
  <2> QED BY <1>1, <1>2, <1>3, <1>11, <2>1, <2>2 DEF PairsInv, PortTypes, Known, InHand, Ports!DestroyByService,
             Ports!Asks, Ports!Idle
<1>12. ASSUME NEW g \in Gui, NEW e \in Ports!Endpoint, Ports!DestroyLater(g, e) PROVE PairsInv'
  <2>1. PortTypes'
    BY <1>1, <1>12 DEF PortTypes, Ports!DestroyLater, Ports!Asks
  <2>2. \A ep \in Ports!Endpoint : Ports!Installed(ep)' => Known(ep)' \/ InHand(ep)'
    BY <1>1, <1>2, <1>3, <1>12 DEF PairsInv, PortTypes, Known, InHand, Ports!DestroyLater, Ports!Asks
  <2> QED BY <1>1, <1>2, <1>3, <1>12, <2>1, <2>2 DEF PairsInv, PortTypes, Known, InHand, Ports!DestroyLater,
             Ports!Asks
<1>13. CASE Ports!Install
  <2> DEFINE at(n) == [bus |-> Ports!NextBus, names |-> n]
  <2>1. job.op = "create" /\ job.todo = {} /\ UNCHANGED ledger
    BY <1>2, <1>13 DEF Ports!Install
  <2>2. CASE job' = Ports!RolledBack({}) /\ UNCHANGED <<driver, lost>>
    <3>1. PortTypes' /\ job'.op = "remove" /\ ~job'.auth
      BY <1>1, <2>2 DEF PortTypes, Ports!RolledBack
    <3> QED BY <1>3, <2>1, <2>2, <3>1 DEF PairsInv, Known
  <2>3. ASSUME NEW n \in Names, driver' = [driver EXCEPT ![Ports!NextBus] = n], Ports!NextBus \in Ports!Bus,
               lost' = lost, NEW op \in {"record", "partial"}, job' = [job EXCEPT !.op = op, !.ep = at(n)]
        PROVE  PairsInv'
    <3> HIDE DEF at
    <3>1. PortTypes' /\ job'.op = op /\ job'.ep = at(n) /\ job'.todo = {}
      BY <1>1, <2>1, <2>3 DEF PortTypes
    <3>2. at(n) \in Ports!Endpoint /\ at(n).names = n /\ driver'[at(n).bus] = n
      BY <1>1, <2>3 DEF at, PortTypes
    <3>3. \A ep \in Ports!Endpoint : Ports!Installed(ep)' => Ports!Installed(ep) \/ ep = at(n)
      BY <1>1, <2>3 DEF at, PortTypes
    <3> QED BY <1>3, <2>1, <2>3, <3>1, <3>2, <3>3 DEF PairsInv, Known, InHand
  <2>4. ASSUME NEW n \in Names, driver' = [driver EXCEPT ![Ports!NextBus] = n], Ports!NextBus \in Ports!Bus,
               lost' = lost \cup {at(n)}, job' = Ports!RolledBack({})
        PROVE  PairsInv'
    <3> HIDE DEF at
    <3>1. PortTypes' /\ job'.op = "remove" /\ ~job'.auth
      BY <1>1, <2>4 DEF PortTypes, Ports!RolledBack
    <3>2. \A ep \in Ports!Endpoint : Ports!Installed(ep)' => Ports!Installed(ep) \/ ep = at(n)
      BY <1>1, <2>4 DEF at, PortTypes
    <3> QED BY <1>3, <2>1, <2>4, <3>1, <3>2 DEF PairsInv, Known
  <2> QED BY <1>13, <2>2, <2>3, <2>4 DEF Ports!Install, Ports!FreeNames
<1>14. CASE Ports!Record
  <2>1. job.op \in {"record", "partial"} /\ job.todo = {} /\ UNCHANGED <<driver, lost>>
    BY <1>2, <1>14 DEF Ports!Record
  <2>2. PortTypes'
    BY <1>1, <1>14 DEF PortTypes, Ports!Record, Ports!RolledBack
  <2>3. CASE ledger' = Ports!Recorded(job.ep, job.owner)
    <3>1. \A ep \in Ports!Endpoint : Ports!Installed(ep) => Known(ep)'
      <4> SUFFICES ASSUME NEW ep \in Ports!Endpoint, Ports!Installed(ep) PROVE Known(ep)'
        OBVIOUS
      <4>1. CASE ep.bus = job.ep.bus
        <5>1. driver[ep.bus] = job.ep.names
          BY <2>1, <4>1 DEF PairsInv
        <5>2. ep = job.ep
          BY <4>1, <5>1, <2>1 DEF PairsInv
        <5>3. [ep |-> job.ep, owner |-> job.owner] \in ledger'
          BY <2>3 DEF Ports!Recorded
        <5> QED BY <5>2, <5>3 DEF Known
      <4>2. CASE ep.bus # job.ep.bus
        BY <2>1, <2>3, <4>2 DEF Known, Ports!Recorded, PairsInv, InHand
      <4> QED BY <4>1, <4>2
    <3> QED BY <1>1, <1>14, <2>1, <2>2, <3>1 DEF Ports!Record, Ports!RolledBack, PortTypes, PairsInv, InHand
  <2>4. CASE job' = Ports!RolledBack({job.ep}) /\ UNCHANGED ledger
    <3>1. job.ep \in job'.todo /\ job'.op = "remove" /\ ~job'.auth
      BY <1>1, <2>4 DEF PortTypes, Ports!RolledBack
    <3> QED BY <2>1, <2>2, <2>4, <3>1 DEF PairsInv, Known, InHand
  <2> QED BY <1>14, <2>3, <2>4 DEF Ports!Record
<1>15. CASE Ports!Created
  <2>1. PortTypes'
    BY <1>1, <1>15 DEF PortTypes, Ports!Created
  <2>2. \A ep \in Ports!Endpoint : Ports!Installed(ep)' => Known(ep)' \/ InHand(ep)'
    BY <1>1, <1>2, <1>3, <1>15 DEF PairsInv, PortTypes, Known, InHand, Ports!Created
  <2> QED BY <1>1, <1>2, <1>3, <1>15, <2>1, <2>2 DEF PairsInv, PortTypes, Known, InHand, Ports!Created
<1>16. ASSUME NEW e \in Ports!Endpoint, Ports!Remove(e) PROVE PairsInv'
  <2>1. job.op = "remove"
    BY <1>16 DEF Ports!Remove
  <2>2. CASE UNCHANGED <<driver, ledger, lost>> /\ job' = Ports!Done(e) /\ (job.auth \/ ~Ports!Installed(e))
    <3>1. PortTypes' /\ job'.op = "remove" /\ job'.auth = job.auth /\ job'.todo = job.todo \ {e}
      BY <1>1, <2>1, <2>2 DEF PortTypes, Ports!Done
    <3> QED BY <2>1, <2>2, <3>1 DEF PairsInv, Known, InHand
  <2>3. CASE Ports!Defer(e) /\ UNCHANGED driver
    <3>1. PortTypes' /\ job'.op = "remove" /\ job'.auth = job.auth /\ job'.todo = job.todo \ {e}
      BY <1>1, <2>1, <2>3 DEF PortTypes, Ports!Done, Ports!Defer
    <3>2. [ep |-> e, owner |-> Ports!Self].ep = e
      OBVIOUS
    <3>3. Known(e)' /\ \A ep \in Ports!Endpoint : Known(ep) => Known(ep)'
      BY <2>3, <3>2 DEF Ports!Defer, Ports!Recorded, Known
    <3> QED BY <2>1, <2>3, <3>1, <3>3 DEF PairsInv, InHand
  <2>4. CASE /\ Ports!Installed(e) /\ driver' = [driver EXCEPT ![e.bus] = NoName]
             /\ job' = [job EXCEPT !.op = "forget", !.ep = e] /\ UNCHANGED <<ledger, lost>>
    <3>1. PortTypes' /\ job'.op = "forget" /\ job'.auth = job.auth /\ job'.todo = job.todo /\ job'.ep = e
      BY <1>1, <2>4 DEF PortTypes
    <3>2. ~Ports!Installed(e)' /\ \A ep \in Ports!Endpoint : Ports!Installed(ep)' => Ports!Installed(ep)
      BY <1>1, <2>4 DEF PortTypes
    <3> QED BY <2>1, <2>4, <3>1, <3>2 DEF PairsInv, Known, InHand
  <2>5. CASE Ports!Forget(e) /\ ~Ports!Installed(e) /\ UNCHANGED <<driver, lost>>
    <3>1. PortTypes' /\ job'.op = "remove" /\ job'.auth = job.auth /\ job'.todo = job.todo \ {e}
      BY <1>1, <2>5 DEF PortTypes, Ports!Done, Ports!Forget
    <3>2. \A ep \in Ports!Endpoint : Known(ep) /\ ep # e => Known(ep)'
      BY <2>5 DEF Ports!Forget, Known
    <3> QED BY <2>1, <2>5, <3>1, <3>2 DEF PairsInv, InHand
  <2> QED BY <1>16, <2>2, <2>3, <2>4, <2>5 DEF Ports!Remove, Ports!Authorized
<1>17. CASE Ports!Removed
  <2>1. PortTypes'
    BY <1>1, <1>17 DEF PortTypes, Ports!Removed, Ports!Forget, Ports!Done
  <2>2. \A ep \in Ports!Endpoint : Ports!Installed(ep)' => Known(ep)' \/ InHand(ep)'
    BY <1>1, <1>2, <1>3, <1>17 DEF PairsInv, PortTypes, Known, InHand, Ports!Removed, Ports!Forget, Ports!Done
  <2> QED BY <1>1, <1>2, <1>3, <1>17, <2>1, <2>2 DEF PairsInv, PortTypes, Known, InHand, Ports!Removed,
             Ports!Forget, Ports!Done
<1>18. CASE Ports!RemovalsDone
  <2>1. PortTypes'
    BY <1>1, <1>18 DEF PortTypes, Ports!RemovalsDone, Ports!Idle
  <2>2. \A ep \in Ports!Endpoint : Ports!Installed(ep)' => Known(ep)' \/ InHand(ep)'
    BY <1>1, <1>2, <1>3, <1>18 DEF PairsInv, PortTypes, Known, InHand, Ports!RemovalsDone, Ports!Idle
  <2> QED BY <1>1, <1>2, <1>3, <1>18, <2>1, <2>2 DEF PairsInv, PortTypes, Known, InHand, Ports!RemovalsDone,
             Ports!Idle
<1>19. ASSUME NEW w \in watch, Ports!WatcherFires(w) PROVE PairsInv'
  <2>1. PortTypes'
    BY <1>1, <1>19 DEF PortTypes, Ports!WatcherFires, Ports!Idle
  <2>2. \A ep \in Ports!Endpoint : Ports!Installed(ep)' => Known(ep)' \/ InHand(ep)'
    BY <1>1, <1>2, <1>3, <1>19 DEF PairsInv, PortTypes, Known, InHand, Ports!WatcherFires, Ports!Idle
  <2> QED BY <1>1, <1>2, <1>3, <1>19, <2>1, <2>2 DEF PairsInv, PortTypes, Known, InHand, Ports!WatcherFires,
             Ports!Idle
<1>20. CASE Ports!Crash
  <2>1. PortTypes'
    BY <1>1, <1>20 DEF PortTypes, Ports!Crash, Ports!Idle, Ports!Down, Ports!Fault
  <2>2. \A ep \in Ports!Endpoint : Ports!Installed(ep)' => Known(ep)' \/ InHand(ep)'
    BY <1>1, <1>2, <1>3, <1>20 DEF PairsInv, PortTypes, Known, InHand, Ports!Crash, Ports!Idle, Ports!Down,
       Ports!Fault
  <2> QED BY <1>1, <1>2, <1>3, <1>20, <2>1, <2>2 DEF PairsInv, PortTypes, Known, InHand, Ports!Crash, Ports!Idle,
             Ports!Down, Ports!Fault
<1>21. CASE Ports!Restart
  <2>1. PortTypes'
    BY <1>1, <1>21 DEF PortTypes, Ports!Restart, Ports!Idle, Ports!Reconciled, Ports!StillActive, Ports!Orphans,
       Ports!Reclaimable
  <2>2. \A ep \in Ports!Endpoint : Ports!Installed(ep)' => Known(ep)' \/ InHand(ep)'
    BY <1>1, <1>2, <1>3, <1>21 DEF PairsInv, PortTypes, Known, InHand, Ports!Restart, Ports!Idle, Ports!Reconciled,
       Ports!StillActive, Ports!Orphans, Ports!Reclaimable
  <2> QED BY <1>1, <1>2, <1>3, <1>21, <2>1, <2>2 DEF PairsInv, PortTypes, Known, InHand, Ports!Restart, Ports!Idle,
             Ports!Reconciled, Ports!StillActive, Ports!Orphans, Ports!Reclaimable
<1>22. ASSUME NEW b \in Ports!Bus, Ports!ForeignChange(b) PROVE PairsInv'
  <2>1. UNCHANGED <<job, ledger, lost>>
    BY <1>22 DEF Ports!ForeignChange
  <2>2. PICK x \in {NoName, Foreign} : driver' = [driver EXCEPT ![b] = x]
    BY <1>22 DEF Ports!ForeignChange
  <2>3. PortTypes' /\ \A c \in Ports!Bus : driver'[c] \in {driver[c], NoName, Foreign}
    BY <1>1, <2>1, <2>2 DEF PortTypes
  <2>4. \A ep \in Ports!Endpoint : Ports!Installed(ep)' => Ports!Installed(ep)
    BY <2>3
  <2> QED BY <1>1, <2>1, <2>2, <2>3, <2>4 DEF PairsInv, PortTypes, Known, InHand
<1>23. CASE UNCHANGED Ports!vpvars
  BY <1>23 DEF Ports!vpvars, PairsInv, PortTypes, Known, InHand
<1> QED BY <1>4, <1>5, <1>6, <1>7, <1>8, <1>9, <1>10, <1>11, <1>12, <1>13, <1>14, <1>15, <1>16, <1>17, <1>18,
           <1>19, <1>20, <1>21, <1>22, <1>23
     DEF Ports!Next, Ports!Works, Ports!Wakeups

(* A pair with TauTerm's names is a pair of its own.                       *)
LEMMA PairsAccountedBy ==
  ASSUME PairsInv
  PROVE  Ports!PairsAccounted
<1> SUFFICES ASSUME NEW b \in Ports!Bus, driver[b] \in Names
             PROVE  LET ep == [bus |-> b, names |-> driver[b]]
                    IN \/ \E r \in ledger : r.ep = ep
                       \/ ep \in lost \cup job.todo
                       \/ ep = job.ep /\ job.op \in {"record", "partial"}
  BY DEF Ports!PairsAccounted
<1> DEFINE ep == [bus |-> b, names |-> driver[b]]
<1>1. ep \in Ports!Endpoint /\ Ports!Installed(ep)
  BY DEF Ports!Endpoint, Ports!Installed
<1>2. Known(ep) \/ InHand(ep)
  BY <1>1 DEF PairsInv
<1> QED BY <1>2 DEF Known, InHand

(* No pair TauTerm made is forgotten, for any number of GUI processes,     *)
(* pairs, crashes, failures and changes of other programs                  *)
(* (create_endpoints_privileged, remove_endpoint_privileged_locked,        *)
(* reconcile_owned_state).                                                 *)
THEOREM PairsStayAccounted ==
  ASSUME OwnNames
  PROVE  Ports!Spec => []Ports!PairsAccounted
<1>1. Ports!Init => PairsInv
  BY PairsInit
<1>2. PairsInv /\ [Ports!Next]_(Ports!vpvars) => PairsInv'
  BY PairsStep
<1>3. PairsInv => Ports!PairsAccounted
  BY PairsAccountedBy
<1> QED BY <1>1, <1>2, <1>3, PTL DEF Ports!Spec

-----------------------------------------------------------------------------
(* The peers of a network session *)

(* Peers are finitely many, and none of them is NoPeer.                    *)
PeerLimits == IsFiniteSet(Peer) /\ MaxClients \in Nat /\ NoPeer \notin Peer

PeerTypes ==
  /\ root \in [at : {"starting", "started", "open", "ended"}, published : BOOLEAN]
  /\ reg \in [peer : Peer \cup {NoPeer}, at : {"idle", "child", "list", "announce", "activate"}]
  /\ handles \subseteq Peer
  /\ child \in [Peer -> {"none", "connected", "disconnected"}]
  /\ listed \in [Peer -> {"none", "connected", "disconnected"}]
  /\ leaving \in [Peer -> {"none", "handle", "list", "target", "store", "event", "over"}]
  /\ closing \in [Peer -> {"none", "join", "remove", "done"}]
  /\ joined \in [Peer -> {0, 1}]
  /\ left \in [Peer -> {0, 1}]
  /\ reg.peer = NoPeer <=> reg.at = "idle"

(* What a peer's past allows: its callback runs only after its             *)
(* registration, it joins before it leaves or is closed, and leaves once.  *)
HistoryOf(p) ==
  /\ left[p] = 1 => leaving[p] = "over" /\ joined[p] = 1
  /\ p \in opened => joined[p] = 1 /\ reg.peer # p
  /\ leaving[p] \notin {"none", "over"} => p \in opened
  /\ reg.peer = p => leaving[p] = "none" /\ (joined[p] = 1 <=> reg.at = "activate")
  /\ closing[p] # "none" => joined[p] = 1

(* Where a peer that has not joined is: as far as its registration is.     *)
Coming(p) ==
  IF reg.peer = p
    THEN /\ p \in handles
         /\ child[p] = (IF reg.at = "child" THEN "none" ELSE "connected")
         /\ listed[p] = (IF reg.at = "announce" THEN "connected" ELSE "none")
    ELSE p \notin handles /\ child[p] = "none" /\ listed[p] = "none"

(* Where one that has joined is: as far as its callback and its closing    *)
(* are.                                                                    *)
Going(p) ==
  /\ closing[p] # "done" => /\ p \in handles <=> leaving[p] \in {"none", "handle"}
                            /\ listed[p] = "connected" <=> leaving[p] \in {"none", "handle", "list"}
  /\ closing[p] = "none" =>
       child[p] = (IF leaving[p] \in {"event", "over"} THEN "disconnected" ELSE "connected")
  /\ closing[p] # "none" => child[p] = "none"
  /\ closing[p] = "done" => p \notin handles /\ listed[p] = "none"
  /\ closing[p] \in {"remove", "done"} => leaving[p] \in {"none", "over"}

(* While the parent session is there, the three places follow each peer.   *)
WhereInv ==
  /\ PeerTypes
  /\ \A p \in Peer : HistoryOf(p)
  /\ Peers!Current => \A p \in Peer : (joined[p] = 0 => Coming(p)) /\ (joined[p] = 1 => Going(p))

(* No peer has come yet.                                                   *)
LEMMA WhereInit ==
  ASSUME PeerLimits, Peers!Init
  PROVE  WhereInv
<1>1. PeerTypes
  BY DEF Peers!Init, PeerTypes, Peers!NoOne, PeerLimits
<1>2. \A p \in Peer : HistoryOf(p) /\ Coming(p)
  BY DEF Peers!Init, HistoryOf, Coming, Peers!NoOne, PeerLimits
<1>3. \A p \in Peer : joined[p] = 0
  BY DEF Peers!Init
<1> QED BY <1>1, <1>2, <1>3 DEF WhereInv

(* Every step of the listener, of a callback, of a command or of the       *)
(* network keeps it.                                                       *)
LEMMA WhereStep ==
  ASSUME PeerLimits, WhereInv, [Peers!Next]_(Peers!npvars)
  PROVE  WhereInv'
<1> USE DEF PeerTypes, HistoryOf, PeerLimits, Peers!Current, Peers!NoOne
<1>1. PeerTypes /\ \A p \in Peer : HistoryOf(p)
  BY DEF WhereInv
<1>2. Peers!Current => \A p \in Peer : (joined[p] = 0 => Coming(p)) /\ (joined[p] = 1 => Going(p))
  BY DEF WhereInv
<1> HIDE DEF PeerTypes, HistoryOf
<1>3. ASSUME NEW q \in Peer, Peers!Dial(q) PROVE WhereInv'
  <2>1. PeerTypes'
    BY <1>1, <1>3 DEF PeerTypes, HistoryOf, Peers!Dial
  <2>2. ASSUME NEW p \in Peer PROVE HistoryOf(p)'
    BY <1>1, <1>3, <2>1 DEF PeerTypes, HistoryOf, Peers!Dial
  <2>3. ASSUME Peers!Current', NEW p \in Peer PROVE (joined[p] = 0 => Coming(p))' /\ (joined[p] = 1 => Going(p))'
    <3>1. HistoryOf(p) /\ (joined[p] = 0 => Coming(p)) /\ (joined[p] = 1 => Going(p))
      BY <1>1, <1>2, <1>3, <2>3 DEF PeerTypes, Peers!Dial
    <3> QED BY <1>1, <1>3, <2>1, <2>3, <3>1 DEF PeerTypes, HistoryOf, Coming, Going, Peers!Dial
  <2> QED BY <2>1, <2>2, <2>3 DEF WhereInv
<1>4. ASSUME NEW q \in Peer, Peers!HangUp(q) PROVE WhereInv'
  <2>1. PeerTypes'
    BY <1>1, <1>4 DEF PeerTypes, HistoryOf, Peers!HangUp
  <2>2. ASSUME NEW p \in Peer PROVE HistoryOf(p)'
    BY <1>1, <1>4, <2>1 DEF PeerTypes, HistoryOf, Peers!HangUp
  <2>3. ASSUME Peers!Current', NEW p \in Peer PROVE (joined[p] = 0 => Coming(p))' /\ (joined[p] = 1 => Going(p))'
    <3>1. HistoryOf(p) /\ (joined[p] = 0 => Coming(p)) /\ (joined[p] = 1 => Going(p))
      BY <1>1, <1>2, <1>4, <2>3 DEF PeerTypes, Peers!HangUp
    <3> QED BY <1>1, <1>4, <2>1, <2>3, <3>1 DEF PeerTypes, HistoryOf, Coming, Going, Peers!HangUp
  <2> QED BY <2>1, <2>2, <2>3 DEF WhereInv
<1>5. ASSUME NEW q \in Peer, Peers!Accept(q) PROVE WhereInv'
  <2>1. PeerTypes'
    BY <1>1, <1>5 DEF PeerTypes, HistoryOf, Peers!Accept, Peers!Waiting
  <2>2. ASSUME NEW p \in Peer PROVE HistoryOf(p)'
    BY <1>1, <1>5, <2>1 DEF PeerTypes, HistoryOf, Peers!Accept, Peers!Waiting
  <2>3. ASSUME Peers!Current', NEW p \in Peer PROVE (joined[p] = 0 => Coming(p))' /\ (joined[p] = 1 => Going(p))'
    <3>1. HistoryOf(p) /\ (joined[p] = 0 => Coming(p)) /\ (joined[p] = 1 => Going(p))
      BY <1>1, <1>2, <1>5, <2>3 DEF PeerTypes, Peers!Accept
    <3> QED BY <1>1, <1>5, <2>1, <2>3, <3>1 DEF PeerTypes, HistoryOf, Coming, Going, Peers!Accept, Peers!Waiting
  <2> QED BY <2>1, <2>2, <2>3 DEF WhereInv
<1>6. CASE Peers!AddChild
  <2>1. PeerTypes'
    BY <1>1, <1>6 DEF PeerTypes, HistoryOf, Peers!AddChild
  <2>2. ASSUME NEW p \in Peer PROVE HistoryOf(p)'
    BY <1>1, <1>6, <2>1 DEF PeerTypes, HistoryOf, Peers!AddChild
  <2>3. ASSUME Peers!Current', NEW p \in Peer PROVE (joined[p] = 0 => Coming(p))' /\ (joined[p] = 1 => Going(p))'
    <3>1. HistoryOf(p) /\ (joined[p] = 0 => Coming(p)) /\ (joined[p] = 1 => Going(p))
      BY <1>1, <1>2, <1>6, <2>3 DEF PeerTypes, Peers!AddChild
    <3> QED BY <1>1, <1>6, <2>1, <2>3, <3>1 DEF PeerTypes, HistoryOf, Coming, Going, Peers!AddChild
  <2> QED BY <2>1, <2>2, <2>3 DEF WhereInv
<1>7. CASE Peers!ListPeer
  <2>1. PeerTypes'
    BY <1>1, <1>7 DEF PeerTypes, HistoryOf, Peers!ListPeer
  <2>2. ASSUME NEW p \in Peer PROVE HistoryOf(p)'
    BY <1>1, <1>7, <2>1 DEF PeerTypes, HistoryOf, Peers!ListPeer
  <2>3. ASSUME Peers!Current', NEW p \in Peer PROVE (joined[p] = 0 => Coming(p))' /\ (joined[p] = 1 => Going(p))'
    <3>1. HistoryOf(p) /\ (joined[p] = 0 => Coming(p)) /\ (joined[p] = 1 => Going(p))
      BY <1>1, <1>2, <1>7, <2>3 DEF PeerTypes, Peers!ListPeer
    <3> QED BY <1>1, <1>7, <2>1, <2>3, <3>1 DEF PeerTypes, HistoryOf, Coming, Going, Peers!ListPeer
  <2> QED BY <2>1, <2>2, <2>3 DEF WhereInv
<1>8. CASE Peers!Announce
  <2>1. PeerTypes'
    BY <1>1, <1>8 DEF PeerTypes, HistoryOf, Peers!Announce
  <2>2. ASSUME NEW p \in Peer PROVE HistoryOf(p)'
    BY <1>1, <1>8, <2>1 DEF PeerTypes, HistoryOf, Peers!Announce
  <2>3. ASSUME Peers!Current', NEW p \in Peer PROVE (joined[p] = 0 => Coming(p))' /\ (joined[p] = 1 => Going(p))'
    <3>1. HistoryOf(p) /\ (joined[p] = 0 => Coming(p)) /\ (joined[p] = 1 => Going(p))
      BY <1>1, <1>2, <1>8, <2>3 DEF PeerTypes, Peers!Announce
    <3> QED BY <1>1, <1>8, <2>1, <2>3, <3>1 DEF PeerTypes, HistoryOf, Coming, Going, Peers!Announce
  <2> QED BY <2>1, <2>2, <2>3 DEF WhereInv
<1>9. CASE Peers!Activate
  <2>1. PeerTypes'
    BY <1>1, <1>9 DEF PeerTypes, HistoryOf, Peers!Activate
  <2>2. ASSUME NEW p \in Peer PROVE HistoryOf(p)'
    BY <1>1, <1>9, <2>1 DEF PeerTypes, HistoryOf, Peers!Activate
  <2>3. ASSUME Peers!Current', NEW p \in Peer PROVE (joined[p] = 0 => Coming(p))' /\ (joined[p] = 1 => Going(p))'
    <3>1. HistoryOf(p) /\ (joined[p] = 0 => Coming(p)) /\ (joined[p] = 1 => Going(p))
      BY <1>1, <1>2, <1>9, <2>3 DEF PeerTypes, Peers!Activate
    <3> QED BY <1>1, <1>9, <2>1, <2>3, <3>1 DEF PeerTypes, HistoryOf, Coming, Going, Peers!Activate
  <2> QED BY <2>1, <2>2, <2>3 DEF WhereInv
<1>10. ASSUME NEW q \in Peer, Peers!Notice(q) PROVE WhereInv'
  <2>1. PeerTypes'
    BY <1>1, <1>10 DEF PeerTypes, HistoryOf, Peers!Notice, Peers!Released
  <2>2. ASSUME NEW p \in Peer PROVE HistoryOf(p)'
    BY <1>1, <1>10, <2>1 DEF PeerTypes, HistoryOf, Peers!Notice, Peers!Released
  <2>3. ASSUME Peers!Current', NEW p \in Peer PROVE (joined[p] = 0 => Coming(p))' /\ (joined[p] = 1 => Going(p))'
    <3>1. HistoryOf(p) /\ (joined[p] = 0 => Coming(p)) /\ (joined[p] = 1 => Going(p))
      BY <1>1, <1>2, <1>10, <2>3 DEF PeerTypes, Peers!Notice
    <3> QED BY <1>1, <1>10, <2>1, <2>3, <3>1 DEF PeerTypes, HistoryOf, Coming, Going, Peers!Notice, Peers!Released
  <2> QED BY <2>1, <2>2, <2>3 DEF WhereInv
<1>11. ASSUME NEW q \in Peer, Peers!Unhandle(q) PROVE WhereInv'
  <2>1. PeerTypes'
    BY <1>1, <1>11 DEF PeerTypes, HistoryOf, Peers!Unhandle
  <2>2. ASSUME NEW p \in Peer PROVE HistoryOf(p)'
    BY <1>1, <1>11, <2>1 DEF PeerTypes, HistoryOf, Peers!Unhandle
  <2>3. ASSUME Peers!Current', NEW p \in Peer PROVE (joined[p] = 0 => Coming(p))' /\ (joined[p] = 1 => Going(p))'
    <3>1. HistoryOf(p) /\ (joined[p] = 0 => Coming(p)) /\ (joined[p] = 1 => Going(p))
      BY <1>1, <1>2, <1>11, <2>3 DEF PeerTypes, Peers!Unhandle
    <3> QED BY <1>1, <1>11, <2>1, <2>3, <3>1 DEF PeerTypes, HistoryOf, Coming, Going, Peers!Unhandle
  <2> QED BY <2>1, <2>2, <2>3 DEF WhereInv
<1>12. ASSUME NEW q \in Peer, Peers!Unlist(q) PROVE WhereInv'
  <2>1. PeerTypes'
    BY <1>1, <1>12 DEF PeerTypes, HistoryOf, Peers!Unlist
  <2>2. ASSUME NEW p \in Peer PROVE HistoryOf(p)'
    BY <1>1, <1>12, <2>1 DEF PeerTypes, HistoryOf, Peers!Unlist
  <2>3. ASSUME Peers!Current', NEW p \in Peer PROVE (joined[p] = 0 => Coming(p))' /\ (joined[p] = 1 => Going(p))'
    <3>1. HistoryOf(p) /\ (joined[p] = 0 => Coming(p)) /\ (joined[p] = 1 => Going(p))
      BY <1>1, <1>2, <1>12, <2>3 DEF PeerTypes, Peers!Unlist
    <3> QED BY <1>1, <1>12, <2>1, <2>3, <3>1 DEF PeerTypes, HistoryOf, Coming, Going, Peers!Unlist
  <2> QED BY <2>1, <2>2, <2>3 DEF WhereInv
<1>13. ASSUME NEW q \in Peer, Peers!Untarget(q) PROVE WhereInv'
  <2>1. PeerTypes'
    BY <1>1, <1>13 DEF PeerTypes, HistoryOf, Peers!Untarget
  <2>2. ASSUME NEW p \in Peer PROVE HistoryOf(p)'
    BY <1>1, <1>13, <2>1 DEF PeerTypes, HistoryOf, Peers!Untarget
  <2>3. ASSUME Peers!Current', NEW p \in Peer PROVE (joined[p] = 0 => Coming(p))' /\ (joined[p] = 1 => Going(p))'
    <3>1. HistoryOf(p) /\ (joined[p] = 0 => Coming(p)) /\ (joined[p] = 1 => Going(p))
      BY <1>1, <1>2, <1>13, <2>3 DEF PeerTypes, Peers!Untarget
    <3> QED BY <1>1, <1>13, <2>1, <2>3, <3>1 DEF PeerTypes, HistoryOf, Coming, Going, Peers!Untarget
  <2> QED BY <2>1, <2>2, <2>3 DEF WhereInv
<1>14. ASSUME NEW q \in Peer, Peers!MarkChild(q) PROVE WhereInv'
  <2>1. PeerTypes'
    BY <1>1, <1>14 DEF PeerTypes, HistoryOf, Peers!MarkChild
  <2>2. ASSUME NEW p \in Peer PROVE HistoryOf(p)'
    BY <1>1, <1>14, <2>1 DEF PeerTypes, HistoryOf, Peers!MarkChild
  <2>3. ASSUME Peers!Current', NEW p \in Peer PROVE (joined[p] = 0 => Coming(p))' /\ (joined[p] = 1 => Going(p))'
    <3>1. HistoryOf(p) /\ (joined[p] = 0 => Coming(p)) /\ (joined[p] = 1 => Going(p))
      BY <1>1, <1>2, <1>14, <2>3 DEF PeerTypes, Peers!MarkChild
    <3> QED BY <1>1, <1>14, <2>1, <2>3, <3>1 DEF PeerTypes, HistoryOf, Coming, Going, Peers!MarkChild
  <2> QED BY <2>1, <2>2, <2>3 DEF WhereInv
<1>15. ASSUME NEW q \in Peer, Peers!TellLeft(q) PROVE WhereInv'
  <2>1. PeerTypes'
    BY <1>1, <1>15 DEF PeerTypes, HistoryOf, Peers!TellLeft
  <2>2. ASSUME NEW p \in Peer PROVE HistoryOf(p)'
    BY <1>1, <1>15, <2>1 DEF PeerTypes, HistoryOf, Peers!TellLeft
  <2>3. ASSUME Peers!Current', NEW p \in Peer PROVE (joined[p] = 0 => Coming(p))' /\ (joined[p] = 1 => Going(p))'
    <3>1. HistoryOf(p) /\ (joined[p] = 0 => Coming(p)) /\ (joined[p] = 1 => Going(p))
      BY <1>1, <1>2, <1>15, <2>3 DEF PeerTypes, Peers!TellLeft
    <3> QED BY <1>1, <1>15, <2>1, <2>3, <3>1 DEF PeerTypes, HistoryOf, Coming, Going, Peers!TellLeft
  <2> QED BY <2>1, <2>2, <2>3 DEF WhereInv
<1>16. ASSUME NEW q \in Peer, Peers!ClosePeer(q) PROVE WhereInv'
  <2>1. PeerTypes'
    BY <1>1, <1>16 DEF PeerTypes, HistoryOf, Peers!ClosePeer
  <2>2. ASSUME NEW p \in Peer PROVE HistoryOf(p)'
    BY <1>1, <1>16, <2>1 DEF PeerTypes, HistoryOf, Peers!ClosePeer
  <2>3. ASSUME Peers!Current', NEW p \in Peer PROVE (joined[p] = 0 => Coming(p))' /\ (joined[p] = 1 => Going(p))'
    <3>1. HistoryOf(p) /\ (joined[p] = 0 => Coming(p)) /\ (joined[p] = 1 => Going(p))
      BY <1>1, <1>2, <1>16, <2>3 DEF PeerTypes, Peers!ClosePeer
    <3> QED BY <1>1, <1>16, <2>1, <2>3, <3>1 DEF PeerTypes, HistoryOf, Coming, Going, Peers!ClosePeer
  <2> QED BY <2>1, <2>2, <2>3 DEF WhereInv
<1>17. ASSUME NEW q \in Peer, Peers!CloseJoined(q) PROVE WhereInv'
  <2>1. PeerTypes'
    BY <1>1, <1>17 DEF PeerTypes, HistoryOf, Peers!CloseJoined
  <2>2. ASSUME NEW p \in Peer PROVE HistoryOf(p)'
    BY <1>1, <1>17, <2>1 DEF PeerTypes, HistoryOf, Peers!CloseJoined
  <2>3. ASSUME Peers!Current', NEW p \in Peer PROVE (joined[p] = 0 => Coming(p))' /\ (joined[p] = 1 => Going(p))'
    <3>1. HistoryOf(p) /\ (joined[p] = 0 => Coming(p)) /\ (joined[p] = 1 => Going(p))
      BY <1>1, <1>2, <1>17, <2>3 DEF PeerTypes, Peers!CloseJoined
    <3> QED BY <1>1, <1>17, <2>1, <2>3, <3>1 DEF PeerTypes, HistoryOf, Coming, Going, Peers!CloseJoined
  <2> QED BY <2>1, <2>2, <2>3 DEF WhereInv
<1>18. ASSUME NEW q \in Peer, Peers!CloseRemoves(q) PROVE WhereInv'
  <2>1. PeerTypes'
    BY <1>1, <1>18 DEF PeerTypes, HistoryOf, Peers!CloseRemoves
  <2>2. ASSUME NEW p \in Peer PROVE HistoryOf(p)'
    BY <1>1, <1>18, <2>1 DEF PeerTypes, HistoryOf, Peers!CloseRemoves
  <2>3. ASSUME Peers!Current', NEW p \in Peer PROVE (joined[p] = 0 => Coming(p))' /\ (joined[p] = 1 => Going(p))'
    <3>1. HistoryOf(p) /\ (joined[p] = 0 => Coming(p)) /\ (joined[p] = 1 => Going(p))
      BY <1>1, <1>2, <1>18, <2>3 DEF PeerTypes, Peers!CloseRemoves
    <3> QED BY <1>1, <1>18, <2>1, <2>3, <3>1 DEF PeerTypes, HistoryOf, Coming, Going, Peers!CloseRemoves
  <2> QED BY <2>1, <2>2, <2>3 DEF WhereInv
<1>19. ASSUME NEW t \in Peer \cup {AllPeers}, Peers!SetTarget(t) PROVE WhereInv'
  <2>1. PeerTypes'
    BY <1>1, <1>19 DEF PeerTypes, HistoryOf, Peers!SetTarget
  <2>2. ASSUME NEW p \in Peer PROVE HistoryOf(p)'
    BY <1>1, <1>19, <2>1 DEF PeerTypes, HistoryOf, Peers!SetTarget
  <2>3. ASSUME Peers!Current', NEW p \in Peer PROVE (joined[p] = 0 => Coming(p))' /\ (joined[p] = 1 => Going(p))'
    <3>1. HistoryOf(p) /\ (joined[p] = 0 => Coming(p)) /\ (joined[p] = 1 => Going(p))
      BY <1>1, <1>2, <1>19, <2>3 DEF PeerTypes, Peers!SetTarget
    <3> QED BY <1>1, <1>19, <2>1, <2>3, <3>1 DEF PeerTypes, HistoryOf, Coming, Going, Peers!SetTarget
  <2> QED BY <2>1, <2>2, <2>3 DEF WhereInv
<1>20. CASE Peers!StartReturns
  <2>1. PeerTypes'
    BY <1>1, <1>20 DEF PeerTypes, HistoryOf, Peers!StartReturns
  <2>2. ASSUME NEW p \in Peer PROVE HistoryOf(p)'
    BY <1>1, <1>20, <2>1 DEF PeerTypes, HistoryOf, Peers!StartReturns
  <2>3. ASSUME Peers!Current', NEW p \in Peer PROVE (joined[p] = 0 => Coming(p))' /\ (joined[p] = 1 => Going(p))'
    <3>1. HistoryOf(p) /\ (joined[p] = 0 => Coming(p)) /\ (joined[p] = 1 => Going(p))
      BY <1>1, <1>2, <1>20, <2>3 DEF PeerTypes, Peers!StartReturns
    <3> QED BY <1>1, <1>20, <2>1, <2>3, <3>1 DEF PeerTypes, HistoryOf, Coming, Going, Peers!StartReturns
  <2> QED BY <2>1, <2>2, <2>3 DEF WhereInv
<1>21. CASE Peers!Publish
  <2>1. PeerTypes'
    BY <1>1, <1>21 DEF PeerTypes, HistoryOf, Peers!Publish
  <2>2. ASSUME NEW p \in Peer PROVE HistoryOf(p)'
    BY <1>1, <1>21, <2>1 DEF PeerTypes, HistoryOf, Peers!Publish
  <2>3. ASSUME Peers!Current', NEW p \in Peer PROVE (joined[p] = 0 => Coming(p))' /\ (joined[p] = 1 => Going(p))'
    <3>1. HistoryOf(p) /\ (joined[p] = 0 => Coming(p)) /\ (joined[p] = 1 => Going(p))
      BY <1>1, <1>2, <1>21, <2>3 DEF PeerTypes, Peers!Publish
    <3> QED BY <1>1, <1>21, <2>1, <2>3, <3>1 DEF PeerTypes, HistoryOf, Coming, Going, Peers!Publish
  <2> QED BY <2>1, <2>2, <2>3 DEF WhereInv
<1>22. CASE Peers!CloseSession
  <2>1. PeerTypes'
    BY <1>1, <1>22 DEF PeerTypes, HistoryOf, Peers!CloseSession
  <2>2. ASSUME NEW p \in Peer PROVE HistoryOf(p)'
    BY <1>1, <1>22, <2>1 DEF PeerTypes, HistoryOf, Peers!CloseSession
  <2>3. ~Peers!Current'
    BY <1>1, <1>22 DEF PeerTypes, Peers!CloseSession
  <2> QED BY <2>1, <2>2, <2>3 DEF WhereInv
<1>23. CASE UNCHANGED Peers!npvars
  BY <1>1, <1>2, <1>23 DEF Peers!npvars, WhereInv, PeerTypes, HistoryOf, Coming, Going
<1> QED BY <1>3, <1>4, <1>5, <1>6, <1>7, <1>8, <1>9, <1>10, <1>11, <1>12, <1>13, <1>14, <1>15, <1>16, <1>17, <1>18,
           <1>19, <1>20, <1>21, <1>22, <1>23
     DEF Peers!Next, Peers!Progress, Peers!Registers, Peers!Leaves, Peers!Closes, Peers!Connects

(* The limit is looked at before a peer is taken, and only one thread      *)
(* takes them.                                                             *)
WithinLimit == MaxClients > 0 /\ role = "server" => Cardinality(handles) <= MaxClients

(* It holds of no peers.                                                   *)
LEMMA LimitInit ==
  ASSUME PeerLimits, Peers!Init
  PROVE  WithinLimit
<1>1. Cardinality({}) = 0
  BY FS_EmptySet
<1> QED BY <1>1 DEF Peers!Init, WithinLimit, PeerLimits

(* A registration looks at the limit; all other steps only take peers out.*)
LEMMA LimitStep ==
  ASSUME PeerLimits, WhereInv, WithinLimit, [Peers!Next]_(Peers!npvars)
  PROVE  WithinLimit'
<1>1. handles \subseteq Peer /\ IsFiniteSet(handles) /\ Cardinality(handles) \in Nat
  BY FS_Subset, FS_CardinalityType DEF WhereInv, PeerTypes, PeerLimits
<1>2. role' = role
  BY DEF Peers!Next, Peers!Progress, Peers!Registers, Peers!Leaves, Peers!Closes, Peers!Connects, Peers!npvars,
    Peers!Dial, Peers!HangUp, Peers!Accept, Peers!AddChild, Peers!ListPeer, Peers!Announce, Peers!Activate,
    Peers!Notice, Peers!Unhandle, Peers!Unlist, Peers!Untarget, Peers!MarkChild, Peers!TellLeft, Peers!ClosePeer,
    Peers!CloseJoined, Peers!CloseRemoves, Peers!SetTarget, Peers!StartReturns, Peers!Publish, Peers!CloseSession
<1>3. CASE handles' \subseteq handles
  <2>1. Cardinality(handles') <= Cardinality(handles) /\ Cardinality(handles') \in Nat
    BY <1>1, <1>3, FS_Subset, FS_CardinalityType
  <2> QED BY <1>1, <1>2, <2>1 DEF WithinLimit, PeerLimits
<1>4. ASSUME NEW p \in Peer, Peers!Accept(p), handles' # handles PROVE WithinLimit'
  <2>1. /\ handles' = handles \cup {p} /\ p \notin handles
        /\ ~(role = "server" /\ Peers!client_limit_reached(Peers!Cardinality(handles)))
    BY <1>4 DEF Peers!Accept, Peers!Waiting
  <2>2. Peers!Cardinality(handles) = Cardinality(handles)
    BY DEF Peers!Cardinality, Cardinality
  <2>3. Cardinality(handles') = Cardinality(handles) + 1
    BY <1>1, <2>1, FS_AddElement
  <2> QED BY <1>1, <1>2, <2>1, <2>2, <2>3 DEF WithinLimit, PeerLimits, Peers!client_limit_reached
<1>5. (\E p \in Peer : Peers!Accept(p)) \/ handles' \subseteq handles
  BY DEF Peers!Next, Peers!Progress, Peers!Registers, Peers!Leaves, Peers!Closes, Peers!Connects, Peers!npvars,
    Peers!Dial, Peers!HangUp, Peers!AddChild, Peers!ListPeer, Peers!Announce, Peers!Activate,
    Peers!Notice, Peers!Unhandle, Peers!Unlist, Peers!Untarget, Peers!MarkChild, Peers!TellLeft, Peers!ClosePeer,
    Peers!CloseJoined, Peers!CloseRemoves, Peers!SetTarget, Peers!StartReturns, Peers!Publish, Peers!CloseSession
<1> QED BY <1>3, <1>4, <1>5

(* Both together.                                                          *)
PeersInv == WhereInv /\ WithinLimit

(* When nothing is under way for a peer, the places say the same of it.    *)
LEMMA PeersAgreeBy ==
  ASSUME PeerLimits, PeersInv
  PROVE  Peers!PeersAgree
<1>1. MaxClients > 0 /\ role = "server" => Peers!Cardinality(handles) <= MaxClients
  <2>1. Peers!Cardinality(handles) = Cardinality(handles)
    BY DEF Peers!Cardinality, Cardinality
  <2> QED BY <2>1 DEF PeersInv, WithinLimit
<1>2. ASSUME NEW p \in Peer PROVE left[p] <= joined[p] /\ joined[p] <= 1
  BY DEF PeersInv, WhereInv, PeerTypes, HistoryOf
<1>3. ASSUME NEW p \in Peer, Peers!Current, Peers!Settled(p)
      PROVE  /\ (p \in handles) <=> (child[p] = "connected")
             /\ (p \in handles) <=> (listed[p] = "connected")
  BY <1>3 DEF PeersInv, WhereInv, PeerTypes, HistoryOf, Coming, Going, Peers!Settled
<1> QED BY <1>1, <1>2, <1>3 DEF Peers!PeersAgree

(* The places that know the peers of a session agree once nothing is under *)
(* way, for any number of peers and any limit (register_tcp_peer,          *)
(* mark_peer_disconnected, close_network_peer).                            *)
THEOREM PeersKeepAgreeing ==
  ASSUME PeerLimits
  PROVE  Peers!Spec => []Peers!PeersAgree
<1>1. Peers!Init => PeersInv
  BY WhereInit, LimitInit DEF PeersInv
<1>2. PeersInv /\ [Peers!Next]_(Peers!npvars) => PeersInv'
  BY WhereStep, LimitStep DEF PeersInv
<1>3. PeersInv => Peers!PeersAgree
  BY PeersAgreeBy
<1> QED BY <1>1, <1>2, <1>3, PTL DEF Peers!Spec

-----------------------------------------------------------------------------
(* The script engine *)

(* The constants: the budget and the interval of the hook are positive.    *)
Budgeted == Limit \in Nat \ {0} /\ Every \in Nat \ {0}

Frames == {"entry", "pcall", "xpcall", "co"}

ScriptTypes ==
  /\ worker \in [at : {"loop", "recv", "lua", "ended"}, why : {"none", "load", "data", "timer"},
                 handlers : Nat, timers : Nat]
  /\ stack \in Seq(Frames)
  /\ frame \in {"none", "run", "sleep", "raise"}
  /\ slice \in [remaining : Nat, interruption : {"none", "cancelled", "budget"}]
  /\ hook \in [on : Nat, count : Nat]
  /\ spent \in Nat /\ shutdown \in BOOLEAN /\ commands \in Nat
  /\ source \in [chunks : Nat, open : BOOLEAN]
  /\ given \in [loads : Nat, chunks : Nat]

(* Coroutines that are open, one inside the other.                         *)
Open == Script!Thread(stack) - 1

(* What an entry may have cost so far.  A charge of the hook stands for    *)
(* Every operations.  A resume is charged as one, but the count it and the *)
(* later return of the coroutine throw away may have been Every - 1 each:  *)
(* a coroutine that is still open has the second part ahead of it.         *)
Accounted ==
  spent + Open * (Every - 1) <= 2 * (Every * (Limit - slice.remaining)) + hook.count

InLua == frame # "none"

(* An entry that runs has a frame, its hook is on the innermost thread,    *)
(* and an interrupted one does nothing but unwind.                         *)
EntryInv ==
  /\ ScriptTypes
  /\ worker.at = "lua" <=> InLua
  /\ InLua <=> stack # <<>>
  /\ InLua => /\ hook.on = Script!Thread(stack) /\ hook.count < Every
              /\ slice.remaining \in 1..Limit
              /\ Script!Interrupted(slice) => frame = "raise"
              /\ ~Script!Interrupted(slice) => Accounted
              /\ spent <= 2 * Limit * Every

-----------------------------------------------------------------------------
(* Arithmetic of the budget *)

(* An account that is within its charges leaves room for one operation     *)
(* more within twice the budget.                                           *)
LEMMA RoomForOne ==
  ASSUME NEW E \in Nat \ {0}, NEW L \in Nat \ {0}, NEW r \in 1..L, NEW o \in Nat,
         NEW s \in Nat, NEW h \in Nat, h < E,
         s + o * (E - 1) <= 2 * (E * (L - r)) + h
  PROVE  s + 1 <= 2 * L * E
<1>1. o * (E - 1) >= 0
  BY SMTT(30)
<1>2. E * (L - r) = E * L - E * r /\ E * r >= E
  BY SMTT(30)
<1>3. 2 * L * E = 2 * (E * L)
  BY SMTT(30)
<1>4. DEFINE p == o * (E - 1)  q == E * L  w == E * r
<1>5. p \in Int /\ q \in Int /\ w \in Int /\ p >= 0 /\ w >= E /\ s + p <= 2 * (q - w) + h
  BY <1>1, <1>2
<1> HIDE DEF p, q, w
<1>6. s + 1 <= 2 * q
  BY <1>5
<1> QED BY <1>3, <1>6 DEF q

(* A charge of the hook pays for the operations it counted.                *)
LEMMA ChargePays ==
  ASSUME NEW E \in Nat \ {0}, NEW L \in Nat \ {0}, NEW r \in 2..L, NEW o \in Nat,
         NEW s \in Nat, NEW h \in Nat, h < E,
         s + o * (E - 1) <= 2 * (E * (L - r)) + h
  PROVE  s + 1 + o * (E - 1) <= 2 * (E * (L - (r - 1)))
<1>1. E * (L - (r - 1)) = E * (L - r) + E
  BY SMTT(30)
<1> DEFINE p == o * (E - 1)  q == E * (L - r)
<1>2. p \in Int /\ q \in Int /\ s + p <= 2 * q + h
  OBVIOUS
<1> HIDE DEF p, q
<1>3. s + 1 + p <= 2 * (q + E)
  BY <1>2
<1> QED BY <1>1, <1>3 DEF p, q

(* A charge for a resume pays for the count it throws away, and for the    *)
(* one that the return of the coroutine will.                              *)
LEMMA ResumePays ==
  ASSUME NEW E \in Nat \ {0}, NEW L \in Nat \ {0}, NEW r \in 2..L, NEW o \in Nat,
         NEW s \in Nat, NEW h \in Nat, h < E,
         s + o * (E - 1) <= 2 * (E * (L - r)) + h
  PROVE  s + 1 + (o + 1) * (E - 1) <= 2 * (E * (L - (r - 1)))
<1>1. E * (L - (r - 1)) = E * (L - r) + E /\ (o + 1) * (E - 1) = o * (E - 1) + (E - 1)
  BY SMTT(30)
<1> DEFINE p == o * (E - 1)  q == E * (L - r)
<1>2. p \in Int /\ q \in Int /\ s + p <= 2 * q + h
  OBVIOUS
<1> HIDE DEF p, q
<1>3. s + 1 + (p + (E - 1)) <= 2 * (q + E)
  BY <1>2
<1> QED BY <1>1, <1>3 DEF p, q

(* The return of a coroutine throws away what was set aside for it.        *)
LEMMA ReturnPaid ==
  ASSUME NEW E \in Nat \ {0}, NEW L \in Nat \ {0}, NEW r \in 1..L, NEW o \in Nat \ {0},
         NEW s \in Nat, NEW h \in Nat, h < E,
         s + o * (E - 1) <= 2 * (E * (L - r)) + h
  PROVE  s + (o - 1) * (E - 1) <= 2 * (E * (L - r))
<1>1. (o - 1) * (E - 1) = o * (E - 1) - (E - 1)
  BY SMTT(30)
<1> DEFINE p == o * (E - 1)  q == E * (L - r)
<1>2. p \in Int /\ q \in Int /\ s + p <= 2 * q + h
  OBVIOUS
<1> HIDE DEF p, q
<1>3. s + (p - (E - 1)) <= 2 * q
  BY <1>2
<1> QED BY <1>1, <1>3 DEF p, q

-----------------------------------------------------------------------------
(* The thread a frame runs on *)

(* The engine counts with the Cardinality of FiniteSets.                   *)
LEMMA ScriptCounts == \A S : Script!Cardinality(S) = Cardinality(S)
  BY DEF Script!Cardinality, Cardinality

(* A stack of frames has finitely many coroutines.                         *)
LEMMA ThreadType ==
  ASSUME NEW s \in Seq(Frames)
  PROVE  Script!Thread(s) \in Nat /\ Script!Thread(s) >= 1 /\ IsFiniteSet({i \in DOMAIN s : s[i] = "co"})
<1>1. DOMAIN s = 1..Len(s) /\ Len(s) \in Nat
  BY LenProperties
<1>2. IsFiniteSet(1..Len(s))
  BY <1>1, FS_Interval
<1>3. IsFiniteSet({i \in DOMAIN s : s[i] = "co"})
  BY <1>1, <1>2, FS_Subset
<1> QED BY <1>3, ScriptCounts, FS_CardinalityType DEF Script!Thread

(* A coroutine that is resumed runs on a thread of its own; a protected    *)
(* call runs on the thread of its caller.                                  *)
LEMMA ThreadAppend ==
  ASSUME NEW s \in Seq(Frames), NEW f \in Frames
  PROVE  /\ Append(s, f) \in Seq(Frames) /\ Append(s, f) # <<>>
         /\ Script!Thread(Append(s, f)) = IF f = "co" THEN Script!Thread(s) + 1 ELSE Script!Thread(s)
<1> DEFINE n == Len(s)
           C == {i \in DOMAIN s : s[i] = "co"}
           D == {i \in DOMAIN Append(s, f) : Append(s, f)[i] = "co"}
<1>1. n \in Nat /\ DOMAIN s = 1..n
  BY LenProperties
<1>2. /\ Append(s, f) \in Seq(Frames) /\ Len(Append(s, f)) = n + 1
      /\ Append(s, f)[n + 1] = f /\ \A i \in 1..n : Append(s, f)[i] = s[i]
  BY AppendProperties
<1>3. DOMAIN Append(s, f) = 1..(n + 1)
  BY <1>2, LenProperties
<1>4. D = IF f = "co" THEN C \cup {n + 1} ELSE C
  <2>1. \A i : i \in 1..(n + 1) <=> i \in 1..n \/ i = n + 1
    BY <1>1
  <2>2. n + 1 \notin 1..n
    BY <1>1
  <2>3. \A i : i \in D <=> i \in C \/ (i = n + 1 /\ f = "co")
    BY <1>1, <1>2, <1>3, <2>1, <2>2
  <2> HIDE DEF C, D
  <2>4. CASE f = "co"
    BY <2>3, <2>4
  <2>5. CASE f # "co"
    BY <2>3, <2>5
  <2> QED BY <2>4, <2>5
<1>5. n + 1 \notin C /\ IsFiniteSet(C)
  <2>1. n + 1 \notin DOMAIN s
    BY <1>1
  <2>2. IsFiniteSet(C)
    BY ThreadType
  <2> QED BY <2>1, <2>2
<1>6. Cardinality(C \cup {n + 1}) = Cardinality(C) + 1
  BY <1>5, FS_AddElement
<1>7. Append(s, f) # <<>>
  BY <1>2, <1>1
<1> QED BY <1>2, <1>4, <1>6, <1>7, ScriptCounts DEF Script!Thread

(* Leaving a frame leaves its thread if it was a coroutine's.              *)
LEMMA ThreadBelow ==
  ASSUME NEW s \in Seq(Frames), Len(s) > 1
  PROVE  LET below == SubSeq(s, 1, Len(s) - 1)
             top == s[Len(s)]
         IN  /\ below \in Seq(Frames) /\ below # <<>> /\ top \in Frames
             /\ Script!Thread(s) = IF top = "co" THEN Script!Thread(below) + 1 ELSE Script!Thread(below)
<1> DEFINE below == SubSeq(s, 1, Len(s) - 1)
           top == s[Len(s)]
<1>1. Len(s) \in Nat /\ top \in Frames
  BY LenProperties, ElementOfSeq
<1>2. /\ below \in Seq(Frames) /\ Len(below) = Len(s) - 1
      /\ \A i \in 1..(Len(s) - 1) : below[i] = s[i]
  <2>1. \A i \in 1..(Len(s) - 1) : s[i] \in Frames
    BY <1>1, ElementOfSeq
  <2>2. 1 \in Int /\ Len(s) - 1 \in Int /\ 1 <= Len(s) - 1
    BY <1>1
  <2>3. /\ below \in Seq(Frames)
        /\ Len(below) = IF 1 <= Len(s) - 1 THEN Len(s) - 1 - 1 + 1 ELSE 0
        /\ \A i \in 1..(Len(s) - 1 - 1 + 1) : below[i] = s[1 + i - 1]
    BY <2>1, <2>2, SubSeqProperties
  <2>4. Len(s) - 1 - 1 + 1 = Len(s) - 1 /\ \A i \in 1..(Len(s) - 1) : 1 + i - 1 = i
    BY <1>1
  <2> HIDE DEF below
  <2> QED BY <2>2, <2>3, <2>4
<1>3. below # <<>>
  <2> HIDE DEF below
  <2> QED BY <1>1, <1>2, EmptySeq
<1>4. /\ Len(Append(below, top)) = Len(s) /\ Append(below, top) \in Seq(Frames)
      /\ \A i \in 1..Len(s) : Append(below, top)[i] = s[i]
  <2>1. /\ Append(below, top) \in Seq(Frames) /\ Len(Append(below, top)) = Len(below) + 1
        /\ Append(below, top)[Len(below) + 1] = top
        /\ \A i \in 1..Len(below) : Append(below, top)[i] = below[i]
    BY <1>1, <1>2, AppendProperties
  <2> QED BY <1>1, <1>2, <2>1
<1>5. Append(below, top) = s
  BY <1>4, SeqEqual
<1> QED BY <1>1, <1>2, <1>3, <1>5, ThreadAppend

-----------------------------------------------------------------------------
(* The operations of an entry *)

Kinds == {"none", "cancelled", "budget"}

(* What is true once an operation is counted and perhaps charged, before   *)
(* the frames change: it is paid for.                                      *)
Paid ==
  /\ slice' \in [remaining : Nat, interruption : Kinds]
  /\ hook' \in [on : Nat, count : Nat] /\ spent' \in Nat
  /\ hook'.on = Script!Thread(stack) /\ hook'.count < Every
  /\ slice'.remaining \in 1..Limit
  /\ spent' <= 2 * Limit * Every
  /\ ~Script!Interrupted(slice') =>
       spent' + Open * (Every - 1) <= 2 * (Every * (Limit - slice'.remaining)) + hook'.count

(* The parts of the invariant that the arithmetic needs.                   *)
LEMMA Running ==
  ASSUME Budgeted, EntryInv, frame = "run"
  PROVE  /\ hook \in [on : Nat, count : Nat] /\ hook.on = Script!Thread(stack) /\ hook.count < Every
         /\ slice \in [remaining : Nat, interruption : Kinds] /\ ~Script!Interrupted(slice)
         /\ slice.remaining \in 1..Limit /\ spent \in Nat /\ Open \in Nat /\ Accounted
         /\ stack \in Seq(Frames) /\ stack # <<>> /\ worker.at = "lua" /\ shutdown \in BOOLEAN
<1>1. stack \in Seq(Frames)
  BY DEF EntryInv, ScriptTypes
<1>2. Script!Thread(stack) \in Nat /\ Script!Thread(stack) >= 1
  BY <1>1, ThreadType
<1>3. Open \in Nat
  BY <1>2 DEF Open
<1> QED BY <1>1, <1>3 DEF EntryInv, ScriptTypes, InLua, Kinds

(* charge takes one of the budget, or interrupts.                          *)
LEMMA Charges ==
  ASSUME slice \in [remaining : Nat, interruption : Kinds], ~Script!Interrupted(slice),
         Limit \in Nat, slice.remaining \in 1..Limit
  PROVE  /\ Script!Charged \in [remaining : Nat, interruption : Kinds]
         /\ Script!Charged.remaining \in 1..Limit
         /\ ~Script!Interrupted(Script!Charged) => /\ slice.remaining \in 2..Limit
                                     /\ Script!Charged.remaining = slice.remaining - 1
<1>1. CASE shutdown
  BY <1>1 DEF Script!Charged, Script!Interrupted, Kinds
<1>2. CASE ~shutdown /\ slice.remaining <= 1
  BY <1>2 DEF Script!Charged, Script!Interrupted, Kinds
<1>3. CASE ~shutdown /\ ~(slice.remaining <= 1)
  <2>1. Script!Charged = [slice EXCEPT !.remaining = @ - 1]
    BY <1>3 DEF Script!Charged
  <2> QED BY <1>3, <2>1
<1> QED BY <1>1, <1>2, <1>3

(* An operation that the hook counts, and charges if it is the last.       *)
LEMMA Operation ==
  ASSUME Budgeted, EntryInv, frame = "run", spent' = spent + 1,
         IF hook.on = Script!Thread(stack) /\ hook.count + 1 = Every
           THEN slice' = Script!Charged /\ hook' = [hook EXCEPT !.count = 0]
           ELSE /\ hook' = [hook EXCEPT !.count = IF hook.on = Script!Thread(stack) THEN @ + 1 ELSE @]
                /\ slice' = slice
  PROVE  Paid
<1>1. /\ hook \in [on : Nat, count : Nat] /\ hook.on = Script!Thread(stack) /\ hook.count < Every
      /\ slice \in [remaining : Nat, interruption : Kinds] /\ ~Script!Interrupted(slice)
      /\ slice.remaining \in 1..Limit /\ spent \in Nat /\ Open \in Nat /\ Accounted
      /\ Every \in Nat \ {0} /\ Limit \in Nat \ {0}
  BY Running DEF Budgeted
<1>2. spent' <= 2 * Limit * Every /\ spent' \in Nat
  BY <1>1, RoomForOne DEF Accounted
<1>3. CASE hook.count + 1 = Every
  <2>1. slice' = Script!Charged /\ hook' = [hook EXCEPT !.count = 0]
    BY <1>1, <1>3
  <2>2. hook' \in [on : Nat, count : Nat] /\ hook'.on = hook.on /\ hook'.count = 0
    BY <1>1, <2>1
  <2>3. /\ slice' \in [remaining : Nat, interruption : Kinds] /\ slice'.remaining \in 1..Limit
        /\ ~Script!Interrupted(slice') => /\ slice.remaining \in 2..Limit
                                   /\ slice'.remaining = slice.remaining - 1
    BY <1>1, <2>1, Charges
  <2>4. ASSUME ~Script!Interrupted(slice')
        PROVE  spent' + Open * (Every - 1) <= 2 * (Every * (Limit - slice'.remaining)) + hook'.count
    <3>1. spent + 1 + Open * (Every - 1) <= 2 * (Every * (Limit - (slice.remaining - 1)))
      BY <1>1, <2>3, <2>4, ChargePays DEF Accounted
    <3>2. 2 * (Every * (Limit - (slice.remaining - 1))) \in Int
      BY <1>1
    <3> QED BY <2>2, <2>3, <2>4, <3>1, <3>2
  <2> QED BY <1>1, <1>2, <2>2, <2>3, <2>4 DEF Paid
<1>4. CASE hook.count + 1 # Every
  <2>1. slice' = slice /\ hook' = [hook EXCEPT !.count = @ + 1]
    BY <1>1, <1>4
  <2>2. /\ hook' \in [on : Nat, count : Nat] /\ hook'.on = hook.on
        /\ hook'.count = hook.count + 1 /\ hook'.count < Every
    BY <1>1, <1>4, <2>1
  <2>3. spent' + Open * (Every - 1) <= 2 * (Every * (Limit - slice'.remaining)) + hook'.count
    <3> DEFINE p == Open * (Every - 1)  q == 2 * (Every * (Limit - slice.remaining))
    <3>1. p \in Int /\ q \in Int /\ spent + p <= q + hook.count
      BY <1>1 DEF Accounted
    <3> HIDE DEF p, q
    <3>2. spent + 1 + p <= q + (hook.count + 1)
      BY <1>1, <3>1
    <3> QED BY <2>1, <2>2, <3>2 DEF p, q
  <2> QED BY <1>1, <1>2, <2>1, <2>2, <2>3 DEF Paid
<1> QED BY <1>3, <1>4

(* An operation that is paid for keeps the invariant if what it does to    *)
(* the frames leaves the thread alone and an interrupted entry raises.     *)
LEMMA PaidFor ==
  ASSUME Budgeted, EntryInv, Paid, ScriptTypes',
         stack' # <<>>, Script!Thread(stack') = Script!Thread(stack), worker'.at = "lua",
         frame' \in {"run", "sleep", "raise"}, Script!Interrupted(slice') => frame' = "raise"
  PROVE  EntryInv'
<1>1. Open' = Open
  BY DEF Open
<1> QED BY <1>1 DEF EntryInv, InLua, Accounted, Paid

(* An action of the script that is an operation: it is interrupted, or it  *)
(* does what it is for.                                                    *)
LEMMA OperatedOn ==
  ASSUME Budgeted, EntryInv, frame = "run", Paid,
         UNCHANGED <<stack, worker, shutdown, commands, source, given>>,
         frame' \in {"run", "sleep", "raise"}, Script!Interrupted(slice') => frame' = "raise"
  PROVE  EntryInv'
<1>1. stack # <<>> /\ worker.at = "lua"
  BY Running
<1>2. ScriptTypes'
  BY DEF EntryInv, ScriptTypes, Paid, Kinds
<1>3. Script!Thread(stack') = Script!Thread(stack)
  OBVIOUS
<1> QED BY <1>1, <1>2, <1>3, PaidFor

(* Computing, sending, raising and falling asleep leave the frames alone.  *)
LEMMA PlainOperations ==
  ASSUME Budgeted, EntryInv, Script!Compute \/ Script!Sends \/ Script!Raises \/ Script!Sleeps
  PROVE  EntryInv'
<1>1. /\ frame = "run" /\ spent' = spent + 1
      /\ UNCHANGED <<stack, worker, shutdown, commands, source, given>>
  BY DEF Script!Compute, Script!Sends, Script!Raises, Script!Sleeps, Script!Operates
<1>2. IF hook.on = Script!Thread(stack) /\ hook.count + 1 = Every
        THEN slice' = Script!Charged /\ hook' = [hook EXCEPT !.count = 0]
        ELSE /\ hook' = [hook EXCEPT !.count = IF hook.on = Script!Thread(stack) THEN @ + 1 ELSE @]
             /\ slice' = slice
  BY DEF Script!Compute, Script!Sends, Script!Raises, Script!Sleeps, Script!Operates
<1>3. frame' \in {"run", "sleep", "raise"}
  BY <1>1 DEF Script!Compute, Script!Sends, Script!Raises, Script!Sleeps, Script!Operates
<1>4. Script!Interrupted(slice') => frame' = "raise"
  <2>1. ~Script!Interrupted(slice)
    BY <1>1, Running
  <2> QED BY <1>1, <2>1 DEF Script!Compute, Script!Sends, Script!Raises, Script!Sleeps, Script!Operates
<1>5. Paid
  BY <1>1, <1>2, Operation
<1> QED BY <1>1, <1>3, <1>4, <1>5, OperatedOn

(* Registering a handler or a timer changes what the worker holds.         *)
LEMMA RegistersStep ==
  ASSUME Budgeted, EntryInv, Script!Registers
  PROVE  EntryInv'
<1>1. /\ frame = "run" /\ spent' = spent + 1 /\ UNCHANGED <<stack, shutdown, commands, source, given>>
      /\ worker' \in {worker, [worker EXCEPT !.handlers = 1, !.timers = 1]}
  BY DEF Script!Registers, Script!Operates
<1>2. IF hook.on = Script!Thread(stack) /\ hook.count + 1 = Every
        THEN slice' = Script!Charged /\ hook' = [hook EXCEPT !.count = 0]
        ELSE /\ hook' = [hook EXCEPT !.count = IF hook.on = Script!Thread(stack) THEN @ + 1 ELSE @]
             /\ slice' = slice
  BY DEF Script!Registers, Script!Operates
<1>3. frame' \in {"run", "raise"} /\ (Script!Interrupted(slice') => frame' = "raise")
  <2>1. ~Script!Interrupted(slice)
    BY <1>1, Running
  <2> QED BY <1>1, <2>1 DEF Script!Registers, Script!Operates
<1>4. Paid
  BY <1>1, <1>2, Operation
<1>5. stack # <<>> /\ worker.at = "lua"
  BY <1>1, Running
<1>6. ScriptTypes' /\ worker'.at = "lua"
  <2>1. worker \in [at : {"loop", "recv", "lua", "ended"}, why : {"none", "load", "data", "timer"},
                    handlers : Nat, timers : Nat]
    BY DEF EntryInv, ScriptTypes
  <2>2. /\ worker' \in [at : {"loop", "recv", "lua", "ended"}, why : {"none", "load", "data", "timer"},
                        handlers : Nat, timers : Nat]
        /\ worker'.at = "lua"
    <3>1. CASE worker' = worker
      BY <1>5, <2>1, <3>1
    <3>2. CASE worker' = [worker EXCEPT !.handlers = 1, !.timers = 1]
      BY <1>5, <2>1, <3>2
    <3> QED BY <1>1, <3>1, <3>2
  <2> QED BY <1>1, <1>3, <1>4, <2>2 DEF EntryInv, ScriptTypes, Paid, Kinds
<1>7. Script!Thread(stack') = Script!Thread(stack)
  BY <1>1
<1> QED BY <1>1, <1>3, <1>4, <1>5, <1>6, <1>7, PaidFor

(* A protected call is one more frame on the same thread.                  *)
LEMMA ProtectsStep ==
  ASSUME Budgeted, EntryInv, NEW k \in {"pcall", "xpcall"}, Script!Protects(k)
  PROVE  EntryInv'
<1>1. /\ frame = "run" /\ spent' = spent + 1 /\ UNCHANGED <<worker, shutdown, commands, source, given>>
      /\ stack' \in {stack, Append(stack, k)}
  BY DEF Script!Protects, Script!Operates
<1>2. IF hook.on = Script!Thread(stack) /\ hook.count + 1 = Every
        THEN slice' = Script!Charged /\ hook' = [hook EXCEPT !.count = 0]
        ELSE /\ hook' = [hook EXCEPT !.count = IF hook.on = Script!Thread(stack) THEN @ + 1 ELSE @]
             /\ slice' = slice
  BY DEF Script!Protects, Script!Operates
<1>3. frame' \in {"run", "raise"} /\ (Script!Interrupted(slice') => frame' = "raise")
  <2>1. ~Script!Interrupted(slice)
    BY <1>1, Running
  <2> QED BY <1>1, <2>1 DEF Script!Protects, Script!Operates
<1>4. Paid
  BY <1>1, <1>2, Operation
<1>5. stack # <<>> /\ worker.at = "lua" /\ stack \in Seq(Frames)
  BY <1>1, Running
<1>6. stack' \in Seq(Frames) /\ stack' # <<>> /\ Script!Thread(stack') = Script!Thread(stack)
  <2>1. k \in Frames /\ k # "co"
    BY DEF Frames
  <2> QED BY <1>1, <1>5, <2>1, ThreadAppend
<1>7. ScriptTypes' /\ worker'.at = "lua"
  BY <1>1, <1>3, <1>4, <1>5, <1>6 DEF EntryInv, ScriptTypes, Paid, Kinds
<1> QED BY <1>1, <1>3, <1>4, <1>5, <1>6, <1>7, PaidFor

(* A resume is charged, and the hook follows to the coroutine.             *)
LEMMA ResumesStep ==
  ASSUME Budgeted, EntryInv, Script!Resumes
  PROVE  EntryInv'
<1>0. /\ frame = "run" /\ spent' = spent + 1 /\ UNCHANGED <<worker, shutdown, commands, source, given>>
      /\ slice' = Script!Charged
  BY DEF Script!Resumes
<1>1. /\ hook \in [on : Nat, count : Nat] /\ hook.on = Script!Thread(stack) /\ hook.count < Every
      /\ slice \in [remaining : Nat, interruption : Kinds] /\ ~Script!Interrupted(slice)
      /\ slice.remaining \in 1..Limit /\ spent \in Nat /\ Open \in Nat /\ Accounted
      /\ stack \in Seq(Frames) /\ stack # <<>> /\ worker.at = "lua"
      /\ Every \in Nat \ {0} /\ Limit \in Nat \ {0}
  BY <1>0, Running DEF Budgeted
<1>2. spent' <= 2 * Limit * Every /\ spent' \in Nat
  <2>1. spent + 1 <= 2 * Limit * Every
    BY <1>1, RoomForOne DEF Accounted
  <2> QED BY <1>0, <1>1, <2>1
<1>3. /\ slice' \in [remaining : Nat, interruption : Kinds] /\ slice'.remaining \in 1..Limit
      /\ ~Script!Interrupted(slice') => /\ slice.remaining \in 2..Limit
                                 /\ slice'.remaining = slice.remaining - 1
  BY <1>0, <1>1, Charges
<1>4. CASE Script!Interrupted(slice')
  <2>1. frame' = "raise" /\ UNCHANGED <<stack, hook>>
    BY <1>4 DEF Script!Resumes
  <2>2. Paid
    BY <1>1, <1>2, <1>3, <1>4, <2>1 DEF Paid
  <2> QED BY <1>0, <2>1, <2>2, OperatedOn
<1>5. CASE ~Script!Interrupted(slice')
  <2>1. /\ stack' = Append(stack, "co") /\ hook' = [on |-> Script!Thread(stack'), count |-> 0]
        /\ frame' = frame
    BY <1>5 DEF Script!Resumes
  <2>2. stack' \in Seq(Frames) /\ stack' # <<>> /\ Script!Thread(stack') = Script!Thread(stack) + 1
    BY <1>1, <2>1, ThreadAppend DEF Frames
  <2>3. Script!Thread(stack) \in Nat
    BY <1>1, ThreadType
  <2>4. Open' = Open + 1
    BY <2>2, <2>3 DEF Open
  <2>5. hook' \in [on : Nat, count : Nat] /\ hook'.on = Script!Thread(stack') /\ hook'.count = 0
    BY <2>1, <2>2, <2>3
  <2>6. Accounted'
    <3>1. spent + 1 + (Open + 1) * (Every - 1) <= 2 * (Every * (Limit - (slice.remaining - 1)))
      BY <1>1, <1>3, <1>5, ResumePays DEF Accounted
    <3>2. 2 * (Every * (Limit - (slice.remaining - 1))) \in Int
      BY <1>1
    <3> QED BY <1>0, <1>3, <1>5, <2>4, <2>5, <3>1, <3>2 DEF Accounted
  <2>7. ScriptTypes'
    BY <1>0, <1>2, <1>3, <2>1, <2>2, <2>5 DEF EntryInv, ScriptTypes, Kinds
  <2> QED BY <1>0, <1>1, <1>2, <1>3, <1>5, <2>1, <2>2, <2>5, <2>6, <2>7 DEF EntryInv, InLua
<1> QED BY <1>4, <1>5

(* Falling asleep is an operation; waking up, in time or because of the    *)
(* flag, is none.                                                          *)
LEMMA Awakes ==
  ASSUME Budgeted, EntryInv, Script!SleepStops \/ Script!SleepEnds
  PROVE  EntryInv'
<1>1. /\ frame = "sleep" /\ frame' \in {"run", "raise"}
      /\ UNCHANGED <<worker, stack, slice, hook, spent, shutdown, commands, source, given>>
  BY DEF Script!SleepStops, Script!SleepEnds
<1> QED BY <1>1 DEF EntryInv, ScriptTypes, InLua, Accounted, Open

(* Leaving a frame: the hook goes back to the thread below, and what was   *)
(* set aside for the coroutine is used.                                    *)
LEMMA FrameLeft ==
  ASSUME Budgeted, EntryInv, Len(stack) > 1, frame \in {"run", "raise"},
         stack' \in {Script!Below, Append(Script!Below, "pcall")},
         hook' = Script!Rebound(Script!Below, Script!Top), frame' = Script!Uncaught,
         UNCHANGED <<worker, slice, spent, shutdown, commands, source, given>>
  PROVE  EntryInv'
<1>1. /\ hook \in [on : Nat, count : Nat] /\ hook.on = Script!Thread(stack) /\ hook.count < Every
      /\ slice.remaining \in 1..Limit /\ spent \in Nat /\ stack \in Seq(Frames)
      /\ worker.at = "lua" /\ Every \in Nat \ {0} /\ Limit \in Nat \ {0}
      /\ ~Script!Interrupted(slice) => Accounted
  BY DEF EntryInv, ScriptTypes, InLua, Budgeted
<1>2. /\ Script!Below \in Seq(Frames) /\ Script!Below # <<>> /\ Script!Top \in Frames
      /\ Script!Thread(stack) = IF Script!Top = "co" THEN Script!Thread(Script!Below) + 1 ELSE Script!Thread(Script!Below)
  BY <1>1, ThreadBelow DEF Script!Below, Script!Top
<1>3. stack' \in Seq(Frames) /\ stack' # <<>> /\ Script!Thread(stack') = Script!Thread(Script!Below)
  BY <1>2, ThreadAppend DEF Frames
<1>4. Script!Thread(Script!Below) \in Nat \ {0}
  <2>1. Script!Thread(Script!Below) \in Nat /\ Script!Thread(Script!Below) >= 1
    BY <1>2, ThreadType
  <2> QED BY <2>1
<1>5. /\ hook' \in [on : Nat, count : Nat] /\ hook'.on = Script!Thread(stack') /\ hook'.count < Every
      /\ hook'.count = IF Script!Top = "co" THEN 0 ELSE hook.count
  BY <1>1, <1>2, <1>3, <1>4 DEF Script!Rebound
<1>6. frame' \in {"run", "raise"} /\ (Script!Interrupted(slice) => frame' = "raise")
  BY DEF Script!Uncaught
<1>7. ASSUME ~Script!Interrupted(slice) PROVE Accounted'
  <2>1. CASE Script!Top = "co"
    <3>1. Open = Script!Thread(Script!Below) /\ Open \in Nat \ {0} /\ Open' = Open - 1
      BY <1>2, <1>3, <1>4, <2>1 DEF Open
    <3>2. spent + (Open - 1) * (Every - 1) <= 2 * (Every * (Limit - slice.remaining))
      BY <1>1, <1>7, <3>1, ReturnPaid DEF Accounted
    <3>3. 2 * (Every * (Limit - slice.remaining)) \in Int
      BY <1>1
    <3> QED BY <1>5, <2>1, <3>1, <3>2, <3>3 DEF Accounted
  <2>2. CASE Script!Top # "co"
    <3>1. Open' = Open /\ hook'.count = hook.count
      BY <1>2, <1>3, <1>5, <2>2 DEF Open
    <3> QED BY <1>1, <1>7, <3>1 DEF Accounted
  <2> QED BY <2>1, <2>2
<1>8. ScriptTypes'
  BY <1>3, <1>5, <1>6 DEF EntryInv, ScriptTypes
<1>9. spent <= 2 * Limit * Every
  BY DEF EntryInv, InLua
<1> QED BY <1>1, <1>3, <1>5, <1>6, <1>7, <1>8, <1>9 DEF EntryInv, InLua

(* A frame is left by returning or by an error.                            *)
LEMMA ReturnsOrUnwinds ==
  ASSUME Budgeted, EntryInv, Script!Returns \/ Script!Unwinds
  PROVE  EntryInv'
<1>1. /\ Len(stack) > 1 /\ frame \in {"run", "raise"}
      /\ stack' \in {Script!Below, Append(Script!Below, "pcall")}
      /\ hook' = Script!Rebound(Script!Below, Script!Top) /\ frame' = Script!Uncaught
      /\ UNCHANGED <<worker, slice, spent, shutdown, commands, source, given>>
  BY DEF Script!Returns, Script!Unwinds
<1> QED BY <1>1, FrameLeft

(* The entry is over.                                                      *)
LEMMA LeavesStep ==
  ASSUME Budgeted, EntryInv, Script!Leaves
  PROVE  EntryInv'
<1>1. /\ stack' = <<>> /\ frame' = "none" /\ hook' = [on |-> 0, count |-> 0] /\ spent' = 0
      /\ slice' = [remaining |-> 0, interruption |-> "none"]
      /\ UNCHANGED <<shutdown, commands, source, given>>
  BY DEF Script!Leaves
<1>2. PICK a \in {"recv", "loop"}, h \in {0, worker.handlers}, t \in {0, worker.timers} :
        worker' = [worker EXCEPT !.at = a, !.handlers = h, !.timers = t]
  BY DEF Script!Leaves
<1>3. <<>> \in Seq(Frames)
  OBVIOUS
<1>4. /\ worker \in [at : {"loop", "recv", "lua", "ended"}, why : {"none", "load", "data", "timer"},
                     handlers : Nat, timers : Nat]
      /\ h \in Nat /\ t \in Nat
  BY <1>2 DEF EntryInv, ScriptTypes
<1>5. /\ worker' \in [at : {"loop", "recv", "lua", "ended"}, why : {"none", "load", "data", "timer"},
                      handlers : Nat, timers : Nat]
      /\ worker'.at # "lua"
  BY <1>2, <1>4
<1>6. ScriptTypes'
  BY <1>1, <1>3, <1>5 DEF EntryInv, ScriptTypes
<1> QED BY <1>1, <1>5, <1>6 DEF EntryInv, InLua

-----------------------------------------------------------------------------
(* The loop and the others *)

Workers == [at : {"loop", "recv", "lua", "ended"}, why : {"none", "load", "data", "timer"},
            handlers : Nat, timers : Nat]

(* What is idle for the entry keeps the invariant.                         *)
LEMMA IdleStep ==
  ASSUME EntryInv, Script!Idle, worker' \in Workers, worker'.at = "lua" <=> worker.at = "lua",
         shutdown' \in BOOLEAN, commands' \in Nat, source' \in [chunks : Nat, open : BOOLEAN],
         given' \in [loads : Nat, chunks : Nat]
  PROVE  EntryInv'
<1>1. UNCHANGED <<stack, frame, slice, hook, spent>>
  BY DEF Script!Idle
<1>2. ScriptTypes'
  BY <1>1 DEF EntryInv, ScriptTypes, Workers
<1> QED BY <1>1, <1>2 DEF EntryInv, InLua, Accounted, Open

(* A new entry has its whole budget and the hook on its first thread.      *)
LEMMA EntersStep ==
  ASSUME Budgeted, EntryInv, NEW why \in {"load", "data", "timer"}, Script!Enters(why),
         shutdown' \in BOOLEAN, commands' \in Nat, source' \in [chunks : Nat, open : BOOLEAN],
         given' \in [loads : Nat, chunks : Nat]
  PROVE  EntryInv'
<1>1. /\ stack' = <<"entry">> /\ frame' = "run" /\ hook' = [on |-> 1, count |-> 0] /\ spent' = 0
      /\ slice' = [remaining |-> Limit, interruption |-> "none"]
  BY DEF Script!Enters
<1>2. PICK h \in {0, worker.handlers}, t \in {0, worker.timers} :
        worker' = [worker EXCEPT !.at = "lua", !.why = why, !.handlers = h, !.timers = t]
  BY DEF Script!Enters
<1>3. worker \in Workers /\ h \in Nat /\ t \in Nat
  BY <1>2 DEF EntryInv, ScriptTypes, Workers
<1>4. worker' \in Workers /\ worker'.at = "lua"
  BY <1>2, <1>3 DEF Workers
<1>5. <<"entry">> \in Seq(Frames) /\ <<"entry">> # <<>>
  BY DEF Frames
<1>6. Script!Thread(<<"entry">>) = 1
  <2>1. {i \in DOMAIN <<"entry">> : <<"entry">>[i] = "co"} = {}
    OBVIOUS
  <2> QED BY <2>1, ScriptCounts, FS_EmptySet DEF Script!Thread
<1>7. Every \in Nat \ {0} /\ Limit \in Nat \ {0}
  BY DEF Budgeted
<1>8. ScriptTypes'
  BY <1>1, <1>4, <1>5, <1>7 DEF EntryInv, ScriptTypes, Workers
<1>9. Accounted' /\ 0 <= 2 * Limit * Every
  <2>1. Open' = 0
    BY <1>1, <1>6 DEF Open
  <2>2. Limit - Limit = 0 /\ Every * 0 = 0 /\ 0 * (Every - 1) = 0
    BY <1>7
  <2>3. Accounted'
    BY <1>1, <1>7, <2>1, <2>2 DEF Accounted
  <2>4. 0 <= 2 * Limit * Every
    BY <1>7, SMTT(30)
  <2> QED BY <2>3, <2>4
<1>10. hook'.on = Script!Thread(stack') /\ hook'.count < Every /\ slice'.remaining \in 1..Limit
  BY <1>1, <1>6, <1>7
<1>11. ~Script!Interrupted(slice')
  BY <1>1 DEF Script!Interrupted
<1> QED BY <1>1, <1>4, <1>5, <1>8, <1>9, <1>10, <1>11 DEF EntryInv, InLua

(* The worker's own turns.                                                 *)
LEMMA LoopStep ==
  ASSUME Budgeted, EntryInv, Script!Ends \/ Script!Drain \/ Script!Drained \/ Script!Loads \/ Script!Ticks
  PROVE  EntryInv'
<1>1. /\ worker \in Workers /\ shutdown \in BOOLEAN /\ commands \in Nat
      /\ source \in [chunks : Nat, open : BOOLEAN] /\ given \in [loads : Nat, chunks : Nat]
  BY DEF EntryInv, ScriptTypes, Workers
<1>2. CASE Script!Ends
  <2>1. Script!Idle /\ UNCHANGED <<shutdown, commands, source, given>> /\ worker.at = "loop"
        /\ worker' = [worker EXCEPT !.at = "ended", !.handlers = 0, !.timers = 0]
    BY <1>2 DEF Script!Ends
  <2>2. worker' \in Workers /\ worker'.at = "ended"
    BY <1>1, <2>1 DEF Workers
  <2> QED BY <1>1, <2>1, <2>2, IdleStep
<1>3. CASE Script!Drain
  <2>1. /\ worker.at = "loop" /\ UNCHANGED <<shutdown, commands, given>>
        /\ source.chunks > 0 /\ source' = [source EXCEPT !.chunks = @ - 1]
        /\ Script!Enters("data") \/ (Script!Idle /\ worker' = [worker EXCEPT !.at = "recv"])
    BY <1>3 DEF Script!Drain
  <2>2. source' \in [chunks : Nat, open : BOOLEAN]
    BY <1>1, <2>1
  <2>3. CASE Script!Enters("data")
    BY <1>1, <2>1, <2>2, <2>3, EntersStep
  <2>4. CASE Script!Idle /\ worker' = [worker EXCEPT !.at = "recv"]
    <3>1. worker' \in Workers /\ worker'.at = "recv"
      BY <1>1, <2>4 DEF Workers
    <3> QED BY <1>1, <2>1, <2>2, <2>4, <3>1, IdleStep
  <2> QED BY <2>1, <2>3, <2>4
<1>4. CASE Script!Drained
  <2>1. Script!Idle /\ UNCHANGED <<shutdown, commands, source, given>> /\ worker.at = "loop"
        /\ worker' = [worker EXCEPT !.at = "recv"]
    BY <1>4 DEF Script!Drained
  <2>2. worker' \in Workers /\ worker'.at = "recv"
    BY <1>1, <2>1 DEF Workers
  <2> QED BY <1>1, <2>1, <2>2, IdleStep
<1>5. CASE Script!Loads
  <2>1. /\ worker.at = "recv" /\ commands > 0 /\ commands' = commands - 1
        /\ UNCHANGED <<shutdown, source, given>>
        /\ \/ Script!Enters("load")
           \/ Script!Idle /\ worker' = [worker EXCEPT !.at = "loop", !.handlers = 0, !.timers = 0]
    BY <1>5 DEF Script!Loads
  <2>2. commands' \in Nat
    BY <1>1, <2>1
  <2>3. CASE Script!Enters("load")
    BY <1>1, <2>1, <2>2, <2>3, EntersStep
  <2>4. CASE Script!Idle /\ worker' = [worker EXCEPT !.at = "loop", !.handlers = 0, !.timers = 0]
    <3>1. worker' \in Workers /\ worker'.at = "loop"
      BY <1>1, <2>4 DEF Workers
    <3> QED BY <1>1, <2>1, <2>2, <2>4, <3>1, IdleStep
  <2> QED BY <2>1, <2>3, <2>4
<1>6. CASE Script!Ticks
  <2>1. /\ worker.at = "recv" /\ UNCHANGED <<shutdown, commands, source, given>>
        /\ Script!Enters("timer") \/ (Script!Idle /\ worker' = [worker EXCEPT !.at = "loop"])
    BY <1>6 DEF Script!Ticks
  <2>2. CASE Script!Enters("timer")
    BY <1>1, <2>1, <2>2, EntersStep
  <2>3. CASE Script!Idle /\ worker' = [worker EXCEPT !.at = "loop"]
    <3>1. worker' \in Workers /\ worker'.at = "loop"
      BY <1>1, <2>3 DEF Workers
    <3> QED BY <1>1, <2>1, <2>3, <3>1, IdleStep
  <2> QED BY <2>1, <2>2, <2>3
<1> QED BY <1>2, <1>3, <1>4, <1>5, <1>6

(* The user and the data source.                                           *)
LEMMA OthersStep ==
  ASSUME EntryInv, Script!Load \/ Script!Cancel \/ Script!Arrives \/ Script!SourceCloses
  PROVE  EntryInv'
<1>1. /\ worker \in Workers /\ shutdown \in BOOLEAN /\ commands \in Nat
      /\ source \in [chunks : Nat, open : BOOLEAN] /\ given \in [loads : Nat, chunks : Nat]
  BY DEF EntryInv, ScriptTypes, Workers
<1>2. CASE Script!Load
  <2>1. /\ Script!Idle /\ UNCHANGED <<worker, shutdown, source>>
        /\ given' = [given EXCEPT !.loads = @ + 1] /\ commands' \in {commands, commands + 1}
    BY <1>2 DEF Script!Load
  <2>2. given' \in [loads : Nat, chunks : Nat] /\ commands' \in Nat
    BY <1>1, <2>1
  <2> QED BY <1>1, <2>1, <2>2, IdleStep
<1>3. CASE Script!Cancel
  <2>1. Script!Idle /\ UNCHANGED <<worker, commands, source, given>> /\ shutdown' = TRUE
    BY <1>3 DEF Script!Cancel
  <2> QED BY <1>1, <2>1, IdleStep
<1>4. CASE Script!Arrives
  <2>1. /\ Script!Idle /\ UNCHANGED <<worker, shutdown, commands>>
        /\ given' = [given EXCEPT !.chunks = @ + 1] /\ source' = [source EXCEPT !.chunks = @ + 1]
    BY <1>4 DEF Script!Arrives
  <2>2. given' \in [loads : Nat, chunks : Nat] /\ source' \in [chunks : Nat, open : BOOLEAN]
    BY <1>1, <2>1
  <2> QED BY <1>1, <2>1, <2>2, IdleStep
<1>5. CASE Script!SourceCloses
  <2>1. /\ Script!Idle /\ UNCHANGED <<worker, shutdown, commands, given>>
        /\ source' = [source EXCEPT !.open = FALSE]
    BY <1>5 DEF Script!SourceCloses
  <2>2. source' \in [chunks : Nat, open : BOOLEAN]
    BY <1>1, <2>1
  <2> QED BY <1>1, <2>1, <2>2, IdleStep
<1> QED BY <1>2, <1>3, <1>4, <1>5

(* An engine starts with nothing entered.                                  *)
LEMMA EntryInit ==
  ASSUME Script!Init
  PROVE  EntryInv
<1>1. <<>> \in Seq(Frames)
  OBVIOUS
<1>2. ScriptTypes
  BY <1>1 DEF Script!Init, ScriptTypes
<1> QED BY <1>2 DEF Script!Init, EntryInv, InLua

(* Every step of the worker, of the user and of the source keeps it.       *)
LEMMA EntryStep ==
  ASSUME Budgeted, EntryInv, [Script!Next]_(Script!sevars)
  PROVE  EntryInv'
<1>1. CASE Script!Lua
  BY <1>1, PlainOperations, RegistersStep, ProtectsStep, ResumesStep, Awakes, ReturnsOrUnwinds,
     LeavesStep DEF Script!Lua
<1>2. CASE Script!Ends \/ Script!Drain \/ Script!Drained \/ Script!Loads \/ Script!Ticks
  BY <1>2, LoopStep
<1>3. CASE Script!SleepEnds
  BY <1>3, Awakes
<1>4. CASE Script!Load \/ Script!Cancel \/ Script!Arrives \/ Script!SourceCloses
  BY <1>4, OthersStep
<1>5. CASE UNCHANGED Script!sevars
  BY <1>5 DEF Script!sevars, EntryInv, ScriptTypes, InLua, Accounted, Open
<1> QED BY <1>1, <1>2, <1>3, <1>4, <1>5 DEF Script!Next, Script!Runs

(* The invariant implies what the engine promises.                         *)
LEMMA EntryBoundedBy ==
  ASSUME EntryInv
  PROVE  Script!EntryBounded
BY DEF EntryInv, Script!EntryBounded, InLua

(* For every budget and interval of the hook: no script runs more than     *)
(* twice its budget in one entry, however it nests protected calls and     *)
(* coroutines and however it catches errors; its hook is on the thread     *)
(* that runs; and an interrupted entry only unwinds (the hook, charge and  *)
(* check_interruption of ScriptExecution).                                 *)
THEOREM EntriesBounded ==
  ASSUME Budgeted
  PROVE  Script!Spec => []Script!EntryBounded
<1>1. Script!Init => EntryInv
  BY EntryInit
<1>2. EntryInv /\ [Script!Next]_(Script!sevars) => EntryInv'
  BY EntryStep
<1>3. EntryInv => Script!EntryBounded
  BY EntryBoundedBy
<1> QED BY <1>1, <1>2, <1>3, PTL DEF Script!Spec

-----------------------------------------------------------------------------
(* The session library and its credentials *)

(* That an answer is true is not inductive: the invariant says, for every  *)
(* step of a command, what it has already done to the entry and the secret *)
(* and what it remembers of them.                                          *)

(* An entry or none, and the secrets there can be.                         *)
Saved == Library!Entry \cup {None}
Secrets == {"none", "password", "key"}
(* From the library's write to the answer a save and a delete hold the     *)
(* mutex.                                                                  *)
Committing == {"commit", "secret", "vault", "index", "restore", "reindex", "rollback"}
Progresses == [op : {"none", "save", "connect", "delete", "load"},
               pc : {"idle", "ended", "write", "replace", "ok", "err"} \cup Committing,
               s : Stored \cup {None}, auth : Secrets, fresh : BOOLEAN,
               old : [Stored -> Saved] \cup {None}, was : Secrets,
               map : [Stored -> Secrets] \cup {None}, ix : SUBSET Stored,
               from : Saved, had : Secrets, raced : BOOLEAN, broken : BOOLEAN]

(* What a command may be doing.                                            *)
Shape(k) ==
  /\ k \in Progresses
  /\ k.op = "none" <=> k.pc \in {"idle", "ended"}
  /\ k.op # "none" => k.s \in Stored
  /\ k.op \in {"save", "connect"} => k.auth \in Library!Auth
  /\ k.pc = "write" => k.op \in {"save", "delete"}
  /\ k.pc = "replace" => k.op = "load"
  /\ k.pc = "rollback" => k.op \in {"save", "delete"}
  /\ k.pc \in Committing => k.op # "load"
  /\ k.pc = "replace" \/ (k.pc \in Committing /\ k.op \in {"save", "delete"}) => k.old \in [Stored -> Saved]
  /\ k.pc = "vault" => k.map \in [Stored -> Secrets]

(* The entry and the secret a command leads to.                            *)
EntryTo(k) == IF k.op = "delete" THEN None ELSE [auth |-> k.auth, name |-> 1, plain |-> FALSE]
SecretTo(k) == IF k.op = "delete" THEN "none" ELSE k.auth

(* While the credential is written, the library has changed and what it    *)
(* held is remembered; a connection does not touch it.                     *)
Applied(k, x) == IF k.op \in {"save", "delete"} THEN k.old[k.s] = k.from /\ x = EntryTo(k) ELSE x = k.from

(* Entry x and secret z of the session of a command, step by step.         *)
Claim(k, x, z) ==
  k.op \in {"save", "delete", "connect"} /\ ~k.raced /\ ~k.broken =>
    /\ k.pc = "write" => x = k.from /\ z = k.had /\ (k.op = "save" /\ ~k.fresh => k.had = k.auth)
    /\ k.pc \in {"commit", "vault", "secret", "reindex"} => Applied(k, x) /\ z = k.had
    /\ k.pc \in {"index", "restore"} => Applied(k, x) /\ z = SecretTo(k)
    /\ k.pc \in {"secret", "index", "restore"} => k.was = k.had
    /\ k.pc = "rollback" => k.old[k.s] = k.from /\ z = k.had
    /\ k.pc = "err" => x = k.from /\ z = k.had
    /\ k.pc = "ok" /\ k.op = "save" => x # None /\ x.auth = k.auth /\ z = k.auth
    /\ k.pc = "ok" /\ k.op = "delete" => x = None /\ (k.from # None => z = "none")

Holds(k) == k.op \in {"save", "delete"} /\ k.pc \in Committing
Sane(c) ==
  /\ Shape(cmd[c])
  /\ lock = c <=> Holds(cmd[c])
  /\ Claim(cmd[c], file[cmd[c].s], secret[cmd[c].s])

LibTypes ==
  /\ file \in [Stored -> Saved] /\ secret \in [Stored -> Secrets] /\ index \in SUBSET Stored
  /\ DOMAIN cmd = Command /\ cmd = [c \in Command |-> cmd[c]]
LibInv == LibTypes /\ \A c \in Command : Sane(c)


(* No command is none, and no entry.                                       *)
NoneApart == None \notin Command /\ None \notin Library!Entry

(* A command that does not move keeps what is claimed of it: if its session*)
(* was changed, nothing is claimed any more.                               *)
LEMMA OthersKeep ==
  ASSUME LibInv, NEW c \in Command, NEW k, Library!Becomes(c, k), NEW e \in Command, e # c, lock' = e <=> lock = e
  PROVE  Sane(e)'
<1> DEFINE r == cmd[e]
           changed == file'[r.s] # file[r.s] \/ secret'[r.s] # secret[r.s]
<1>1. cmd'[e] = IF Library!Busy(e) /\ changed THEN [r EXCEPT !.raced = TRUE] ELSE r
  BY DEF Library!Becomes
<1>2. Shape(r) /\ (lock = e <=> Holds(r)) /\ Claim(r, file[r.s], secret[r.s]) /\ r \in Progresses
  BY DEF LibInv, Sane, Shape
<1>3. Library!Busy(e) <=> r.op # "none"
  BY <1>2 DEF Library!Busy, Shape
<1> HIDE DEF r
<1>4. CASE Library!Busy(e) /\ changed
  <2> DEFINE q == [r EXCEPT !.raced = TRUE]
  <2>1. q \in Progresses /\ q.raced = TRUE
        /\ q.op = r.op /\ q.pc = r.pc /\ q.s = r.s /\ q.auth = r.auth /\ q.old = r.old /\ q.map = r.map
    BY <1>2 DEF Progresses
  <2>2. cmd'[e] = q
    BY <1>1, <1>4
  <2> HIDE DEF q
  <2>3. Shape(q) /\ (Holds(q) <=> Holds(r))
    BY <1>2, <2>1 DEF Shape, Holds
  <2>4. Claim(q, file'[q.s], secret'[q.s])
    BY <2>1 DEF Claim
  <2> QED BY <1>2, <2>2, <2>3, <2>4 DEF Sane
<1>5. CASE ~(Library!Busy(e) /\ changed)
  <2>1. cmd'[e] = r
    BY <1>1, <1>5
  <2>2. Claim(r, file'[r.s], secret'[r.s])
    <3>1. CASE r.op = "none"
      BY <3>1 DEF Claim
    <3>2. CASE r.op # "none"
      BY <1>2, <1>3, <1>5, <3>2
    <3> QED BY <3>1, <3>2
  <2> QED BY <1>2, <2>1, <2>2 DEF Sane
<1> QED BY <1>4, <1>5

(* So only the command that moves is to be looked at.                      *)
LEMMA OneMoves ==
  ASSUME LibInv, NEW c \in Command, NEW k, Library!Becomes(c, k), Shape(k), Claim(k, file'[k.s], secret'[k.s]),
         lock' = c <=> Holds(k), \A e \in Command \ {c} : lock' = e <=> lock = e,
         file' \in [Stored -> Saved], secret' \in [Stored -> Secrets], index' \in SUBSET Stored
  PROVE  LibInv'
<1>1. DOMAIN cmd' = Command /\ cmd' = [e \in Command |-> cmd'[e]] /\ cmd'[c] = k
  BY DEF Library!Becomes
<1>2. Sane(c)'
  BY <1>1 DEF Sane
<1>3. \A e \in Command \ {c} : Sane(e)'
  BY OthersKeep
<1> QED BY <1>1, <1>2, <1>3 DEF LibInv, LibTypes

(* What is known of a command before it moves.                             *)
LEMMA Progressing ==
  ASSUME LibInv, NEW c \in Command
  PROVE  /\ file \in [Stored -> Saved] /\ secret \in [Stored -> Secrets] /\ index \in SUBSET Stored
         /\ Shape(cmd[c]) /\ cmd[c] \in Progresses /\ (lock = c <=> Holds(cmd[c]))
         /\ Claim(cmd[c], file[cmd[c].s], secret[cmd[c].s])
         /\ cmd[c].op # "none" => cmd[c].s \in Stored
BY DEF LibInv, LibTypes, Sane, Shape

(* An answer forgets what was read.                                        *)
LEMMA Answers ==
  ASSUME NEW c \in Command, cmd[c] \in Progresses, NEW pc \in {"ok", "err"}, NEW b \in BOOLEAN, Shape(cmd[c]),
         cmd[c].op # "none", cmd[c].op # "load"
  PROVE  /\ Shape(Library!Answer(c, pc, b))
         /\ Library!Answer(c, pc, b).pc = pc /\ ~Holds(Library!Answer(c, pc, b))
         /\ Library!Answer(c, pc, b).op = cmd[c].op /\ Library!Answer(c, pc, b).s = cmd[c].s /\ Library!Answer(c, pc, b).auth = cmd[c].auth
         /\ Library!Answer(c, pc, b).from = cmd[c].from /\ Library!Answer(c, pc, b).had = cmd[c].had
         /\ Library!Answer(c, pc, b).raced = cmd[c].raced /\ Library!Answer(c, pc, b).broken = (cmd[c].broken \/ b)
<1> DEFINE k == cmd[c]
           q == Library!Answer(c, pc, b)
<1>1. /\ q \in Progresses /\ q.op = k.op /\ q.pc = pc /\ q.s = k.s /\ q.auth = k.auth /\ q.from = k.from /\ q.had = k.had
      /\ q.raced = k.raced /\ q.broken = (k.broken \/ b)
  BY ZenonT(60) DEF Progresses, Library!Answer, Secrets
<1>2. pc \notin Committing /\ pc \notin {"idle", "ended", "write", "replace", "vault"}
  BY DEF Committing
<1> HIDE DEF q
<1>3. Shape(q) /\ ~Holds(q)
  BY <1>1, <1>2 DEF Shape, Holds
<1> QED BY <1>1, <1>3 DEF q

(* The write of the credential failed: the entry and the secret are as     *)
(* they were before it, and the library is put back if it was changed.     *)
LEMMA FailsBack ==
  ASSUME LibInv, NEW c \in Command, NEW b \in BOOLEAN, Library!CommitFailed(c, b), UNCHANGED <<file, secret>>,
         index' \in SUBSET Stored, cmd[c].op # "none",
         cmd[c].pc \in {"commit", "vault", "secret", "reindex"}
  PROVE  LibInv'
<1> DEFINE k == cmd[c]
           x == file[k.s]
           z == secret[k.s]
<1>1. /\ file \in [Stored -> Saved] /\ secret \in [Stored -> Secrets]
      /\ Shape(k) /\ k \in Progresses /\ (lock = c <=> Holds(k)) /\ Claim(k, x, z)
  BY Progressing
<1>2. k.pc \in Committing /\ k.op # "load"
  BY <1>1 DEF Committing, Shape
<1>3. lock' = lock /\ Library!Becomes(c, IF lock = c THEN [k EXCEPT !.broken = @ \/ b, !.pc = "rollback"] ELSE Library!Answer(c, "err", b))
  BY DEF Library!CommitFailed
<1> HIDE DEF k, x, z
<1>4. CASE lock = c
  <2>0. PICK q : q = [k EXCEPT !.broken = @ \/ b, !.pc = "rollback"]
    OBVIOUS
  <2>1. "rollback" \in Committing
    BY DEF Committing
  <2>2. /\ q \in Progresses /\ q.pc = "rollback" /\ q.broken = (k.broken \/ b)
        /\ q.op = k.op /\ q.s = k.s /\ q.auth = k.auth /\ q.fresh = k.fresh /\ q.old = k.old /\ q.was = k.was
        /\ q.map = k.map /\ q.ix = k.ix /\ q.from = k.from /\ q.had = k.had /\ q.raced = k.raced
    BY ZenonT(60), <1>1, <2>0, <2>1 DEF Progresses
  <2>3. Library!Becomes(c, q)
    BY <1>3, <1>4, <2>0
  <2>4. Holds(k) /\ Holds(q) /\ Shape(q)
    BY <1>1, <1>2, <1>4, <2>1, <2>2 DEF Shape, Holds
  <2>5. Claim(q, x, z)
    BY <1>1, <2>2, <2>4 DEF Claim, Applied, Holds, k
  <2>6. file'[q.s] = x /\ secret'[q.s] = z
    BY <2>2 DEF x, z
  <2> QED BY <1>1, <1>3, <1>4, <2>3, <2>4, <2>5, <2>6, OneMoves
<1>5. CASE lock # c
  <2> DEFINE q == Library!Answer(c, "err", b)
  <2>1. /\ Shape(q) /\ q.pc = "err" /\ ~Holds(q) /\ q.op = k.op /\ q.s = k.s
        /\ q.from = k.from /\ q.had = k.had /\ q.raced = k.raced /\ q.broken = (k.broken \/ b)
    BY <1>1, <1>2, Answers DEF k
  <2>2. Library!Becomes(c, q)
    BY <1>3, <1>5
  <2> HIDE DEF q
  <2>3. k.op \notin {"save", "delete"}
    BY <1>1, <1>2, <1>5 DEF Holds
  <2>4. Claim(q, x, z)
    BY <1>1, <2>1, <2>3 DEF Claim, Applied, k
  <2>5. file'[q.s] = x /\ secret'[q.s] = z
    BY <2>1 DEF x, z
  <2> QED BY <1>1, <1>3, <1>5, <2>1, <2>2, <2>4, <2>5, OneMoves
<1> QED BY <1>4, <1>5

(* The credential has been written, and with it the command succeeds.      *)
LEMMA Succeeds ==
  ASSUME NoneApart, LibInv, NEW c \in Command, Library!Committed(c), UNCHANGED file,
         secret' \in [Stored -> Secrets], index' \in SUBSET Stored,
         secret'[cmd[c].s] = SecretTo(cmd[c]),
         cmd[c].pc \in {"vault", "secret", "index"}
  PROVE  LibInv'
<1> DEFINE k == cmd[c]
           x == file[k.s]
           q == Library!Answer(c, "ok", FALSE)
<1>1. /\ file \in [Stored -> Saved]
      /\ Shape(k) /\ k \in Progresses /\ (lock = c <=> Holds(k)) /\ Claim(k, x, secret[k.s])
  BY Progressing
<1>2. k.pc \in Committing /\ k.op # "load" /\ k.op # "none"
  BY <1>1 DEF Committing, Shape
<1>3. Library!Becomes(c, q) /\ lock' = (IF lock = c THEN None ELSE lock)
  BY DEF Library!Committed
<1>4. /\ Shape(q) /\ q.pc = "ok" /\ ~Holds(q) /\ q.op = k.op /\ q.s = k.s /\ q.auth = k.auth
      /\ q.from = k.from /\ q.had = k.had /\ q.raced = k.raced /\ q.broken = k.broken
  <2>1. k.broken \in BOOLEAN
    BY <1>1 DEF Progresses
  <2> QED BY <1>1, <1>2, <2>1, Answers
<1> HIDE DEF q, k, x
<1>5. Claim(q, x, secret'[k.s])
  <2> SUFFICES ASSUME q.op \in {"save", "delete", "connect"}, ~q.raced, ~q.broken, q.op \in {"save", "delete"}
               PROVE  /\ q.op = "save" => x # None /\ x.auth = q.auth /\ secret'[k.s] = q.auth
                      /\ q.op = "delete" => x = None /\ secret'[k.s] = "none"
    BY <1>4 DEF Claim
  <2>1. x = EntryTo(k)
    BY <1>1, <1>4 DEF Claim, Applied, k
  <2>2. secret'[k.s] = SecretTo(k)
    BY DEF k
  <2>3. CASE q.op = "save"
    <3>1. k.auth \in Library!Auth
      BY <1>1, <1>4, <2>3 DEF Shape
    <3>2. x = [auth |-> k.auth, name |-> 1, plain |-> FALSE] /\ x \in Library!Entry
      BY <1>4, <2>1, <2>3, <3>1 DEF EntryTo, Library!Entry
    <3> QED BY <1>4, <2>2, <2>3, <3>2 DEF NoneApart, SecretTo
  <2>4. CASE q.op = "delete"
    BY <1>4, <2>1, <2>2, <2>4 DEF EntryTo, SecretTo
  <2> QED BY <2>3, <2>4
<1>6. file'[q.s] = x /\ secret'[q.s] = secret'[k.s]
  BY <1>4 DEF x
<1>7. lock' # c /\ \A e \in Command \ {c} : lock' = e <=> lock = e
  BY <1>3 DEF NoneApart
<1> QED BY <1>1, <1>3, <1>4, <1>5, <1>6, <1>7, OneMoves
(* A command begins with what it finds.                                    *)
LEMMA Begins ==
  ASSUME LibInv, NoneApart, NEW c \in Command, NEW s \in Stored, NEW op \in {"save", "connect", "delete"},
         NEW auth \in Secrets, NEW fresh \in BOOLEAN, NEW pc \in {"write", "commit"},
         Library!Begin(c, s, op, auth, fresh, pc), UNCHANGED <<file, secret, index, lock>>,
         op # "delete" => auth \in Library!Auth, pc = "write" <=> op # "connect",
         op = "save" /\ ~fresh => secret[s] = auth
  PROVE  LibInv'
<1> DEFINE q == [Library!Quiet EXCEPT !.op = op, !.pc = pc, !.s = s, !.auth = auth, !.fresh = fresh,
                              !.from = file[s], !.had = secret[s]]
<1>1. /\ file \in [Stored -> Saved] /\ secret \in [Stored -> Secrets] /\ index \in SUBSET Stored
      /\ (lock = c <=> Holds(cmd[c]))
  BY Progressing
<1>2. /\ q \in Progresses /\ q.op = op /\ q.pc = pc /\ q.s = s /\ q.auth = auth /\ q.fresh = fresh
      /\ q.from = file[s] /\ q.had = secret[s]
  BY <1>1 DEF Library!Quiet, Progresses, Secrets, Saved, Committing
<1>3. cmd[c].pc = "idle" /\ cmd' = [cmd EXCEPT ![c] = q]
  BY DEF Library!Begin
<1>4. lock # c
  BY <1>1, <1>3 DEF Holds, Committing
<1> HIDE DEF q
<1>5. Shape(q) /\ ~Holds(q)
  BY <1>2 DEF Shape, Holds, Committing
<1>6. Claim(q, file[s], secret[s])
  BY <1>2 DEF Claim, Applied
<1>7. DOMAIN cmd' = Command /\ cmd' = [e \in Command |-> cmd'[e]] /\ cmd'[c] = q
      /\ \A e \in Command \ {c} : cmd'[e] = cmd[e]
  BY <1>3 DEF LibInv, LibTypes
<1>8. Sane(c)'
  BY <1>2, <1>4, <1>5, <1>6, <1>7 DEF Sane
<1>9. \A e \in Command \ {c} : Sane(e)'
  BY <1>7 DEF LibInv, Sane
<1> QED BY <1>1, <1>7, <1>8, <1>9 DEF LibInv, LibTypes

(* A command that is over claims nothing and holds nothing.                *)
LEMMA Over ==
  /\ Shape(Library!Ended) /\ ~Holds(Library!Ended) /\ \A x, z : Claim(Library!Ended, x, z)
  /\ Shape(Library!Quiet) /\ ~Holds(Library!Quiet) /\ \A x, z : Claim(Library!Quiet, x, z)
<1>1. Library!Ended \in Progresses /\ Library!Ended.op = "none" /\ Library!Ended.pc = "ended"
  BY DEF Library!Ended, Library!Quiet, Progresses, Secrets, Saved, Committing
<1>2. Library!Quiet \in Progresses /\ Library!Quiet.op = "none" /\ Library!Quiet.pc = "idle"
  BY DEF Library!Quiet, Progresses, Secrets, Saved, Committing
<1>3. Shape(Library!Ended) /\ ~Holds(Library!Ended) /\ \A x, z : Claim(Library!Ended, x, z)
  BY <1>1 DEF Shape, Holds, Claim, Committing
<1>4. Shape(Library!Quiet) /\ ~Holds(Library!Quiet) /\ \A x, z : Claim(Library!Quiet, x, z)
  BY <1>2 DEF Shape, Holds, Claim, Committing
<1> QED BY <1>3, <1>4

(* The steps of a command on its own session.                              *)
LEMMA WriteLibraryStep ==
  ASSUME LibInv, NoneApart, NEW c \in Command, Library!WriteLibrary(c)
  PROVE  LibInv'
<1> DEFINE k == cmd[c]
           x == file[k.s]
           z == secret[k.s]
<1>1. /\ file \in [Stored -> Saved] /\ secret \in [Stored -> Secrets] /\ index \in SUBSET Stored
      /\ Shape(k) /\ k \in Progresses /\ (lock = c <=> Holds(k)) /\ Claim(k, x, z)
  BY Progressing
<1>2. k.pc = "write" /\ lock = None /\ UNCHANGED <<secret, index>>
  BY DEF Library!WriteLibrary
<1>3. k.op \in {"save", "delete"} /\ k.s \in Stored
  BY <1>1, <1>2 DEF Shape
<1>4. \A e \in Command : lock # e
  BY <1>2 DEF NoneApart
<1>5. CASE /\ file' = Library!Changed(c)
           /\ Library!Becomes(c, IF Library!NeedsCommit(c) THEN [k EXCEPT !.old = file, !.pc = "commit"]
                                 ELSE Library!Answer(c, "ok", FALSE))
           /\ lock' = IF Library!NeedsCommit(c) THEN c ELSE None
  <2>1. EntryTo(k) \in Saved
    <3>1. CASE k.op = "delete"
      BY <3>1 DEF EntryTo, Saved
    <3>2. CASE k.op = "save"
      BY <1>1, <3>2 DEF EntryTo, Saved, Library!Entry, Shape
    <3> QED BY <1>3, <3>1, <3>2
  <2>2. file' = [file EXCEPT ![k.s] = EntryTo(k)]
    BY <1>5 DEF Library!Changed, EntryTo
  <2>3. file' \in [Stored -> Saved] /\ file'[k.s] = EntryTo(k)
    BY <1>1, <1>3, <2>1, <2>2
  <2>4. CASE Library!NeedsCommit(c)
    <3> DEFINE q == [k EXCEPT !.old = file, !.pc = "commit"]
    <3>1. /\ q \in Progresses /\ q.pc = "commit" /\ q.old = file /\ q.op = k.op /\ q.s = k.s /\ q.auth = k.auth
          /\ q.from = k.from /\ q.had = k.had /\ q.raced = k.raced /\ q.broken = k.broken
      BY <1>1 DEF Progresses, Committing
    <3>2. Library!Becomes(c, q) /\ lock' = c
      BY <1>5, <2>4
    <3> HIDE DEF q, k
    <3>3. Shape(q) /\ Holds(q)
      BY <1>1, <1>3, <3>1 DEF Shape, Holds, Committing
    <3>4. Claim(q, EntryTo(k), z)
      <4>1. EntryTo(q) = EntryTo(k)
        BY <3>1 DEF EntryTo
      <4> QED BY <1>1, <1>2, <1>3, <3>1, <4>1 DEF Claim, Applied, k
    <3>5. file'[q.s] = EntryTo(k) /\ secret'[q.s] = z
      BY <1>2, <2>3, <3>1
    <3> QED BY <1>1, <1>2, <1>4, <2>3, <3>2, <3>3, <3>4, <3>5, OneMoves
  <2>5. CASE ~Library!NeedsCommit(c)
    <3> DEFINE q == Library!Answer(c, "ok", FALSE)
    <3>0. k.broken \in BOOLEAN
      BY <1>1 DEF Progresses
    <3>1. /\ Shape(q) /\ q.pc = "ok" /\ ~Holds(q) /\ q.op = k.op /\ q.s = k.s /\ q.auth = k.auth
          /\ q.from = k.from /\ q.had = k.had /\ q.raced = k.raced /\ q.broken = k.broken
      BY <1>1, <1>3, <3>0, Answers
    <3>2. Library!Becomes(c, q) /\ lock' = None
      BY <1>5, <2>5
    <3>3. /\ k.op = "delete" => x = None
          /\ k.op = "save" => ~k.fresh
      <4>1. CASE k.op = "delete"
        BY <2>5, <4>1 DEF Library!NeedsCommit
      <4>2. CASE k.op = "save"
        BY <2>5, <4>2 DEF Library!NeedsCommit
      <4> QED BY <1>3, <4>1, <4>2
    <3> HIDE DEF q, k
    <3>4. Claim(q, EntryTo(k), z)
      <4>1. CASE k.op = "delete"
        BY <1>1, <1>2, <3>1, <3>3, <4>1 DEF Claim, EntryTo, k
      <4>2. CASE k.op = "save"
        <5>1. EntryTo(k) # None /\ EntryTo(k).auth = k.auth
          <6>1. k.auth \in Library!Auth
            BY <1>1, <4>2 DEF Shape
          <6>2. EntryTo(k) = [auth |-> k.auth, name |-> 1, plain |-> FALSE]
            BY <4>2 DEF EntryTo
          <6>3. EntryTo(k) \in Library!Entry
            BY <6>1, <6>2 DEF Library!Entry
          <6>4. EntryTo(k).auth = k.auth
            BY <6>2
          <6>5. EntryTo(k) # None
            BY <6>3 DEF NoneApart
          <6> QED BY <6>4, <6>5
        <5> QED BY <1>1, <1>2, <3>1, <3>3, <4>2, <5>1 DEF Claim, k
      <4> QED BY <1>3, <4>1, <4>2
    <3>5. file'[q.s] = EntryTo(k) /\ secret'[q.s] = z
      BY <1>2, <2>3, <3>1
    <3>6. lock' # c /\ \A e \in Command : lock' # e
      BY <3>2 DEF NoneApart
    <3> QED BY <1>1, <1>2, <1>4, <2>3, <3>1, <3>2, <3>4, <3>5, <3>6, OneMoves
  <2> QED BY <2>4, <2>5
<1>6. CASE UNCHANGED <<file, lock>> /\ Library!Becomes(c, Library!Answer(c, "err", FALSE))
  <2> DEFINE q == Library!Answer(c, "err", FALSE)
  <2>0. k.broken \in BOOLEAN
    BY <1>1 DEF Progresses
  <2>1. /\ Shape(q) /\ q.pc = "err" /\ ~Holds(q) /\ q.op = k.op /\ q.s = k.s /\ q.auth = k.auth
        /\ q.from = k.from /\ q.had = k.had /\ q.raced = k.raced /\ q.broken = k.broken
    BY <1>1, <1>3, <2>0, Answers
  <2>2. Library!Becomes(c, q)
    BY <1>6
  <2> HIDE DEF q, k
  <2>3. Claim(q, x, z)
    BY <1>1, <1>2, <2>1 DEF Claim, k
  <2>4. file'[q.s] = x /\ secret'[q.s] = z
    BY <1>2, <1>6, <2>1
  <2> QED BY <1>1, <1>2, <1>4, <1>6, <2>1, <2>2, <2>3, <2>4, OneMoves
<1> QED BY <1>5, <1>6 DEF Library!WriteLibrary

(* The library returns to what was read before it was changed.             *)
LEMMA RollBackStep ==
  ASSUME LibInv, NoneApart, NEW c \in Command, Library!RollBack(c)
  PROVE  LibInv'
<1> DEFINE k == cmd[c]
           x == file[k.s]
           z == secret[k.s]
<1>1. /\ file \in [Stored -> Saved] /\ secret \in [Stored -> Secrets] /\ index \in SUBSET Stored
      /\ Shape(k) /\ k \in Progresses /\ (lock = c <=> Holds(k)) /\ Claim(k, x, z)
  BY Progressing
<1>2. k.pc = "rollback" /\ lock' = None /\ UNCHANGED <<secret, index>>
  BY DEF Library!RollBack
<1>3. k.op \in {"save", "delete"} /\ k.s \in Stored /\ k.broken \in BOOLEAN /\ k.old \in [Stored -> Saved]
  BY <1>1, <1>2 DEF Shape, Committing, Progresses
<1>4. lock = c /\ \A e \in Command : lock' # e
  BY <1>1, <1>2, <1>3 DEF Holds, Committing, NoneApart
<1>5. PICK b \in BOOLEAN : Library!Becomes(c, Library!Answer(c, "err", b)) /\ (IF b THEN file' = file ELSE file' = k.old)
  BY DEF Library!RollBack
<1> DEFINE q == Library!Answer(c, "err", b)
<1>6. /\ Shape(q) /\ q.pc = "err" /\ ~Holds(q) /\ q.op = k.op /\ q.s = k.s /\ q.auth = k.auth
      /\ q.from = k.from /\ q.had = k.had /\ q.raced = k.raced /\ q.broken = (k.broken \/ b)
  BY <1>1, <1>3, Answers
<1> HIDE DEF q, k
<1>7. Claim(q, file'[q.s], secret'[q.s])
  BY <1>1, <1>2, <1>5, <1>6 DEF Claim, k
<1>8. file' \in [Stored -> Saved] /\ secret' \in [Stored -> Secrets] /\ index' \in SUBSET Stored
  BY <1>1, <1>2, <1>3, <1>5
<1>9. Library!Becomes(c, q)
  BY <1>5 DEF q
<1>10. lock' # c /\ \A e \in Command \ {c} : lock' = e <=> lock = e
  BY <1>4
<1> QED BY <1>6, <1>7, <1>8, <1>9, <1>10, OneMoves

(* What is stored is read before it is changed.                            *)
LEMMA ReadCredentialsStep ==
  ASSUME LibInv, NoneApart, NEW c \in Command, Library!ReadCredentials(c)
  PROVE  LibInv'
<1> DEFINE k == cmd[c]
           x == file[k.s]
           z == secret[k.s]
<1>1. /\ file \in [Stored -> Saved] /\ secret \in [Stored -> Secrets] /\ index \in SUBSET Stored
      /\ Shape(k) /\ k \in Progresses /\ (lock = c <=> Holds(k)) /\ Claim(k, x, z)
  BY Progressing
<1>2. k.pc = "commit" /\ UNCHANGED <<file, secret, index>>
  BY DEF Library!ReadCredentials
<1>3. k.op \in {"save", "delete", "connect"} /\ k.s \in Stored
  BY <1>1, <1>2 DEF Shape, Committing, Progresses
<1>4. CASE Library!Becomes(c, [k EXCEPT !.pc = "secret", !.was = secret[k.s], !.ix = index]) /\ UNCHANGED lock
  <2> DEFINE q == [k EXCEPT !.pc = "secret", !.was = secret[k.s], !.ix = index]
  <2>0. z \in Secrets
    BY <1>1, <1>3
  <2>1. /\ q \in Progresses /\ q.pc = "secret" /\ q.was = z /\ q.op = k.op /\ q.s = k.s /\ q.auth = k.auth
        /\ q.from = k.from /\ q.had = k.had /\ q.raced = k.raced /\ q.broken = k.broken /\ q.old = k.old
    BY <1>1, <2>0 DEF Progresses, Committing
  <2> HIDE DEF q, k
  <2>2. Shape(q) /\ (Holds(q) <=> Holds(k))
    BY <1>1, <1>2, <1>3, <2>1 DEF Shape, Holds, Committing
  <2>3. Claim(q, x, z)
    BY <1>1, <1>2, <2>1 DEF Claim, Applied, EntryTo, k
  <2>4. file'[q.s] = x /\ secret'[q.s] = z
    BY <1>2, <2>1
  <2>5. Library!Becomes(c, q)
    BY <1>4 DEF q, k
  <2> QED BY <1>1, <1>2, <1>4, <2>2, <2>3, <2>4, <2>5, OneMoves
<1>5. CASE Library!Becomes(c, [k EXCEPT !.pc = "vault", !.map = secret]) /\ UNCHANGED lock
  <2> DEFINE q == [k EXCEPT !.pc = "vault", !.map = secret]
  <2>1. /\ q \in Progresses /\ q.pc = "vault" /\ q.map = secret /\ q.op = k.op /\ q.s = k.s /\ q.auth = k.auth
        /\ q.from = k.from /\ q.had = k.had /\ q.raced = k.raced /\ q.broken = k.broken /\ q.old = k.old
    BY <1>1 DEF Progresses, Committing
  <2> HIDE DEF q, k
  <2>2. Shape(q) /\ (Holds(q) <=> Holds(k))
    BY <1>1, <1>2, <1>3, <2>1 DEF Shape, Holds, Committing
  <2>3. Claim(q, x, z)
    BY <1>1, <1>2, <2>1 DEF Claim, Applied, EntryTo, k
  <2>4. file'[q.s] = x /\ secret'[q.s] = z
    BY <1>2, <2>1
  <2>5. Library!Becomes(c, q)
    BY <1>5 DEF q, k
  <2> QED BY <1>1, <1>2, <1>5, <2>2, <2>3, <2>4, <2>5, OneMoves
<1>6. CASE Library!CommitFailed(c, FALSE)
  BY <1>1, <1>2, <1>3, <1>6, FailsBack
<1> QED BY <1>4, <1>5, <1>6 DEF Library!ReadCredentials

(* What a command makes of the secret is one.                              *)
LEMMA SecretsTo ==
  ASSUME NEW k, Shape(k), k.op # "none", k.op # "load"
  PROVE  SecretTo(k) \in Secrets /\ k.s \in Stored
BY DEF Shape, SecretTo, Secrets, Progresses, Library!Auth

(* The vault is written whole, from what was read.                         *)
LEMMA WriteVaultStep ==
  ASSUME LibInv, NoneApart, NEW c \in Command, Library!WriteVault(c)
  PROVE  LibInv'
<1> DEFINE k == cmd[c]
<1>1. /\ file \in [Stored -> Saved] /\ secret \in [Stored -> Secrets] /\ index \in SUBSET Stored /\ Shape(k)
  BY Progressing
<1>2. k.pc = "vault" /\ UNCHANGED <<file, index>>
  BY DEF Library!WriteVault
<1>3. k.op # "none" /\ k.op # "load" /\ k.map \in [Stored -> Secrets]
  BY <1>1, <1>2 DEF Shape, Committing
<1>4. SecretTo(k) \in Secrets /\ k.s \in Stored
  BY <1>1, <1>3, SecretsTo
<1>5. CASE secret' = [cmd[c].map EXCEPT ![cmd[c].s] = Library!NewSecret(c)] /\ Library!Committed(c)
  <2>1. secret' = [k.map EXCEPT ![k.s] = SecretTo(k)]
    BY <1>5 DEF Library!NewSecret, SecretTo
  <2> HIDE DEF k
  <2>2. secret' \in [Stored -> Secrets] /\ secret'[k.s] = SecretTo(k)
    BY <1>3, <1>4, <2>1
  <2> QED BY <1>1, <1>2, <1>5, <2>2, Succeeds DEF k
<1>6. CASE UNCHANGED secret /\ Library!CommitFailed(c, FALSE)
  BY <1>1, <1>2, <1>3, <1>6, FailsBack
<1> QED BY <1>5, <1>6 DEF Library!WriteVault

(* The secret of the native keyring, before its index.                     *)
LEMMA WriteSecretStep ==
  ASSUME LibInv, NoneApart, NEW c \in Command, Library!WriteSecret(c)
  PROVE  LibInv'
<1> DEFINE k == cmd[c]
           x == file[k.s]
<1>1. /\ file \in [Stored -> Saved] /\ secret \in [Stored -> Secrets] /\ index \in SUBSET Stored
      /\ Shape(k) /\ k \in Progresses /\ (lock = c <=> Holds(k)) /\ Claim(k, x, secret[k.s])
  BY Progressing
<1>2. k.pc = "secret" /\ UNCHANGED <<file, index>>
  BY DEF Library!WriteSecret
<1>3. k.op # "none" /\ k.op # "load"
  BY <1>1, <1>2 DEF Shape, Committing
<1>4. SecretTo(k) \in Secrets /\ k.s \in Stored
  BY <1>1, <1>3, SecretsTo
<1>5. CASE secret' = [secret EXCEPT ![k.s] = Library!NewSecret(c)] /\ (Library!Committed(c) \/ (Library!Goes(c, "index") /\ UNCHANGED lock))
  <2>1. secret' = [secret EXCEPT ![k.s] = SecretTo(k)]
    BY <1>5 DEF Library!NewSecret, SecretTo
  <2> HIDE DEF k
  <2>2. secret' \in [Stored -> Secrets] /\ secret'[k.s] = SecretTo(k)
    BY <1>1, <1>4, <2>1
  <2>3. CASE Library!Committed(c)
    BY <1>1, <1>2, <2>2, <2>3, Succeeds DEF k
  <2>4. CASE Library!Goes(c, "index") /\ UNCHANGED lock
    <3>0. PICK q : q = [k EXCEPT !.pc = "index"]
      OBVIOUS
    <3>1. /\ q \in Progresses /\ q.pc = "index" /\ q.was = k.was /\ q.op = k.op /\ q.s = k.s /\ q.auth = k.auth
          /\ q.from = k.from /\ q.had = k.had /\ q.raced = k.raced /\ q.broken = k.broken /\ q.old = k.old
      BY <1>1, <3>0 DEF Progresses, Committing
    <3>2. Shape(q) /\ (Holds(q) <=> Holds(k))
      BY <1>1, <1>2, <1>3, <3>1 DEF Shape, Holds, Committing
    <3>3. Claim(q, x, SecretTo(k))
      BY <1>1, <1>2, <3>1 DEF Claim, Applied, EntryTo, SecretTo
    <3>4. file'[q.s] = x /\ secret'[q.s] = SecretTo(k)
      BY <1>2, <2>2, <3>1
    <3>5. Library!Becomes(c, q)
      BY <2>4, <3>0 DEF Library!Goes, k
    <3> QED BY <1>1, <1>2, <2>2, <2>4, <3>2, <3>3, <3>4, <3>5, OneMoves DEF k
  <2> QED BY <1>5, <2>3, <2>4
<1>6. CASE UNCHANGED secret /\ Library!CommitFailed(c, FALSE)
  BY <1>1, <1>2, <1>3, <1>6, FailsBack
<1> QED BY <1>5, <1>6 DEF Library!WriteSecret

(* The index; if it cannot be written, the secret is to be restored.       *)
LEMMA WriteIndexStep ==
  ASSUME LibInv, NoneApart, NEW c \in Command, Library!WriteIndex(c)
  PROVE  LibInv'
<1> DEFINE k == cmd[c]
           x == file[k.s]
           z == secret[k.s]
<1>1. /\ file \in [Stored -> Saved] /\ secret \in [Stored -> Secrets] /\ index \in SUBSET Stored
      /\ Shape(k) /\ k \in Progresses /\ (lock = c <=> Holds(k)) /\ Claim(k, x, z)
  BY Progressing
<1>2. k.pc = "index" /\ UNCHANGED <<file, secret>>
  BY DEF Library!WriteIndex
<1>3. k.op \in {"save", "delete", "connect"} /\ k.s \in Stored /\ k.ix \in SUBSET Stored
  BY <1>1, <1>2 DEF Shape, Committing, Progresses
<1>4. CASE index' = Library!NewIndex(c) /\ Library!Committed(c)
  <2>1. index' \in SUBSET Stored
    BY <1>3, <1>4 DEF Library!NewIndex
  <2>2. CASE secret[k.s] = SecretTo(k)
    BY <1>1, <1>2, <1>4, <2>1, <2>2, Succeeds
  <2>3. CASE secret[k.s] # SecretTo(k)
    <3> DEFINE q == Library!Answer(c, "ok", FALSE)
    <3>1. k.broken \in BOOLEAN /\ k.raced \in BOOLEAN
      BY <1>1 DEF Progresses
    <3>2. k.raced \/ k.broken
      BY <1>1, <1>2, <1>3, <2>3 DEF Claim
    <3>3. /\ Shape(q) /\ ~Holds(q) /\ q.raced = k.raced /\ q.broken = k.broken
      BY <1>1, <1>3, <3>1, Answers
    <3>4. Library!Becomes(c, q) /\ lock' = (IF lock = c THEN None ELSE lock)
      BY <1>4 DEF Library!Committed
    <3> HIDE DEF q
    <3>5. Claim(q, file'[q.s], secret'[q.s])
      BY <3>2, <3>3 DEF Claim
    <3>6. lock' # c /\ \A e \in Command \ {c} : lock' = e <=> lock = e
      BY <3>4 DEF NoneApart
    <3> QED BY <1>1, <1>2, <2>1, <3>3, <3>4, <3>5, <3>6, OneMoves
  <2> QED BY <2>2, <2>3
<1>5. CASE UNCHANGED <<index, lock>> /\ Library!Goes(c, "restore")
  <2>0. PICK q : q = [k EXCEPT !.pc = "restore"]
    OBVIOUS
  <2>1. /\ q \in Progresses /\ q.pc = "restore" /\ q.was = k.was /\ q.op = k.op /\ q.s = k.s /\ q.auth = k.auth
        /\ q.from = k.from /\ q.had = k.had /\ q.raced = k.raced /\ q.broken = k.broken /\ q.old = k.old
    BY <1>1, <2>0 DEF Progresses, Committing
  <2>5. Library!Becomes(c, q)
    BY <1>5, <2>0 DEF Library!Goes
  <2> HIDE DEF k
  <2>2. Shape(q) /\ (Holds(q) <=> Holds(k))
    BY <1>1, <1>2, <1>3, <2>1 DEF Shape, Holds, Committing
  <2>3. Claim(q, x, z)
    BY <1>1, <1>2, <2>1 DEF Claim, Applied, EntryTo, SecretTo
  <2>4. file'[q.s] = x /\ secret'[q.s] = z
    BY <1>2, <2>1
  <2> QED BY <1>1, <1>2, <1>5, <2>2, <2>3, <2>4, <2>5, OneMoves DEF k
<1> QED BY <1>4, <1>5 DEF Library!WriteIndex

(* The secret returns, or the command knows that it did not.               *)
LEMMA RestoreSecretStep ==
  ASSUME LibInv, NoneApart, NEW c \in Command, Library!RestoreSecret(c)
  PROVE  LibInv'
<1> DEFINE k == cmd[c]
           x == file[k.s]
           z == secret[k.s]
<1>1. /\ file \in [Stored -> Saved] /\ secret \in [Stored -> Secrets] /\ index \in SUBSET Stored
      /\ Shape(k) /\ k \in Progresses /\ (lock = c <=> Holds(k)) /\ Claim(k, x, z)
  BY Progressing
<1>2. k.pc = "restore" /\ UNCHANGED <<file, index, lock>>
  BY DEF Library!RestoreSecret
<1>3. k.op \in {"save", "delete", "connect"} /\ k.s \in Stored /\ k.was \in Secrets
  BY <1>1, <1>2 DEF Shape, Committing, Progresses
<1>4. PICK b \in BOOLEAN : /\ secret' = IF b THEN secret ELSE [secret EXCEPT ![k.s] = k.was]
                           /\ Library!Becomes(c, IF b THEN [k EXCEPT !.pc = "reindex", !.broken = TRUE] ELSE [k EXCEPT !.pc = "reindex"])
  BY DEF Library!RestoreSecret, Library!Goes
<1>5. PICK q : q = IF b THEN [k EXCEPT !.pc = "reindex", !.broken = TRUE] ELSE [k EXCEPT !.pc = "reindex"]
  OBVIOUS
<1>6. Library!Becomes(c, q)
  BY <1>4, <1>5
<1> HIDE DEF k
<1>7. /\ q \in Progresses /\ q.pc = "reindex" /\ q.was = k.was /\ q.op = k.op /\ q.s = k.s /\ q.auth = k.auth
      /\ q.from = k.from /\ q.had = k.had /\ q.raced = k.raced /\ q.old = k.old
      /\ q.broken = IF b THEN TRUE ELSE k.broken
  <2>1. CASE b
    BY <1>1, <1>5, <2>1 DEF Progresses, Committing
  <2>2. CASE ~b
    BY <1>1, <1>5, <2>2 DEF Progresses, Committing
  <2> QED BY <2>1, <2>2
<1>8. Shape(q) /\ (Holds(q) <=> Holds(k))
  BY <1>1, <1>2, <1>3, <1>7 DEF Shape, Holds, Committing
<1>9. secret' \in [Stored -> Secrets] /\ (~b => secret'[k.s] = k.was)
  BY <1>1, <1>3, <1>4
<1>10. Claim(q, file'[q.s], secret'[q.s])
  <2>1. CASE b
    BY <1>7, <2>1 DEF Claim
  <2>2. CASE ~b
    <3>1. file'[q.s] = x /\ secret'[q.s] = k.was
      BY <1>2, <1>7, <1>9, <2>2
    <3> QED BY <1>1, <1>2, <1>7, <2>2, <3>1 DEF Claim, Applied, EntryTo
  <2> QED BY <2>1, <2>2
<1> QED BY <1>1, <1>2, <1>6, <1>8, <1>9, <1>10, OneMoves DEF k

(* The index after it; then the write has failed.                          *)
LEMMA RestoreIndexStep ==
  ASSUME LibInv, NoneApart, NEW c \in Command, Library!RestoreIndex(c)
  PROVE  LibInv'
<1>1. index \in SUBSET Stored /\ Shape(cmd[c])
  BY Progressing
<1>2. cmd[c].pc = "reindex" /\ UNCHANGED <<file, secret>>
  BY DEF Library!RestoreIndex
<1>3. cmd[c].op # "none" /\ cmd[c].ix \in SUBSET Stored
  BY <1>1, <1>2 DEF Shape, Committing, Progresses
<1>4. index' \in SUBSET Stored
  BY <1>1, <1>3 DEF Library!RestoreIndex
<1>5. \E b \in BOOLEAN : Library!CommitFailed(c, b)
  BY DEF Library!RestoreIndex
<1> QED BY <1>2, <1>3, <1>4, <1>5, FailsBack

(* A command that ends: of a rename and a clean-up of the library nothing  *)
(* is claimed.                                                             *)
LEMMA EndsNow ==
  ASSUME LibInv, NoneApart, NEW c \in Command, Library!Becomes(c, Library!Ended), ~Holds(cmd[c]), UNCHANGED <<secret, index, lock>>,
         file' \in [Stored -> Saved]
  PROVE  LibInv'
BY Progressing, Over, OneMoves DEF Holds

(* The commands that change nothing yet, or only the library.              *)
LEMMA OthersOfLibrary ==
  ASSUME LibInv, NoneApart, NEW c \in Command, NEW s \in Stored,
         \/ Library!ReplaceSaved(c) \/ Library!Return(c) \/ Library!RenameSession(c, s) \/ Library!LoadSessions(c, s)
         \/ Library!DeleteSession(c, s)
         \/ \E a \in Library!Auth : Library!ConnectSession(c, s, a) \/ \E fresh \in BOOLEAN : Library!SaveSession(c, s, a, fresh)
  PROVE  LibInv'
<1> DEFINE k == cmd[c]
<1>1. /\ file \in [Stored -> Saved] /\ secret \in [Stored -> Secrets] /\ index \in SUBSET Stored
      /\ Shape(k) /\ k \in Progresses /\ (lock = c <=> Holds(k))
  BY Progressing
<1>2. CASE Library!ReplaceSaved(c)
  <2>1. k.pc = "replace" /\ UNCHANGED <<secret, index, lock>> /\ Library!Becomes(c, Library!Ended) /\ file' \in {file, k.old}
    BY <1>2 DEF Library!ReplaceSaved
  <2>2. ~Holds(k) /\ k.old \in [Stored -> Saved]
    BY <1>1, <2>1 DEF Shape, Holds, Committing
  <2> QED BY <1>1, <2>1, <2>2, EndsNow
<1>3. CASE Library!RenameSession(c, s)
  <2>1. file[s] # None /\ file' = [file EXCEPT ![s].name = 3 - @] /\ UNCHANGED <<secret, index, lock>> /\ Library!Becomes(c, Library!Ended)
        /\ k.pc = "idle"
    BY <1>3 DEF Library!RenameSession
  <2>2. ~Holds(k)
    BY <2>1 DEF Holds, Committing
  <2>3. file[s] \in Library!Entry
    BY <1>1, <2>1 DEF Saved
  <2>4. [file[s] EXCEPT !.name = 3 - @] \in Library!Entry
    BY <2>3 DEF Library!Entry
  <2>5. file' \in [Stored -> Saved]
    BY <1>1, <2>1, <2>4 DEF Saved
  <2> QED BY <2>1, <2>2, <2>5, EndsNow
<1>4. CASE Library!LoadSessions(c, s)
  <2> DEFINE clean == [e \in Stored |-> IF file[e] = None THEN None ELSE [file[e] EXCEPT !.plain = FALSE]]
             q == [Library!Quiet EXCEPT !.op = "load", !.pc = "replace", !.s = s, !.from = file[s], !.had = secret[s], !.old = clean]
  <2>1. cmd' = [cmd EXCEPT ![c] = q] /\ k.pc = "idle" /\ UNCHANGED <<file, secret, index, lock>>
    BY <1>4 DEF Library!LoadSessions
  <2>2. clean \in [Stored -> Saved]
    <3> SUFFICES ASSUME NEW e \in Stored, file[e] # None PROVE [file[e] EXCEPT !.plain = FALSE] \in Library!Entry
      BY DEF Saved
    <3>1. file[e] \in Library!Entry
      BY <1>1 DEF Saved
    <3> QED BY <3>1 DEF Library!Entry
  <2> HIDE DEF clean
  <2>3. q \in Progresses /\ q.op = "load" /\ q.pc = "replace" /\ q.s = s /\ q.old = clean
    <3>1. file[s] \in Saved /\ secret[s] \in Secrets /\ None \in Saved /\ {"none", "password", "key"} = Secrets
      BY <1>1 DEF Saved, Secrets
    <3>2. Library!Quiet \in Progresses
      BY Over DEF Shape
    <3> QED BY ZenonT(60), <2>2, <3>1, <3>2 DEF Progresses
  <2> HIDE DEF q
  <2>4. Shape(q) /\ ~Holds(q) /\ Claim(q, file[s], secret[s])
    BY <2>2, <2>3 DEF Shape, Holds, Claim, Committing
  <2>5. lock # c
    BY <1>1, <2>1 DEF Holds, Committing
  <2>6. DOMAIN cmd' = Command /\ cmd' = [e \in Command |-> cmd'[e]] /\ cmd'[c] = q
        /\ \A e \in Command \ {c} : cmd'[e] = cmd[e]
    BY <2>1 DEF LibInv, LibTypes
  <2>7. Sane(c)'
    BY <2>1, <2>3, <2>4, <2>5, <2>6 DEF Sane
  <2>8. \A e \in Command \ {c} : Sane(e)'
    BY <2>1, <2>6 DEF LibInv, Sane
  <2> QED BY <1>1, <2>1, <2>6, <2>7, <2>8 DEF LibInv, LibTypes
<1>5. CASE Library!Return(c)
  <2>1. cmd' = [cmd EXCEPT ![c] = Library!Ended] /\ k.pc \in {"ok", "err"} /\ UNCHANGED <<file, secret, index, lock>>
    BY <1>5 DEF Library!Return
  <2>2. lock # c
    BY <1>1, <2>1 DEF Holds, Committing
  <2>3. DOMAIN cmd' = Command /\ cmd' = [e \in Command |-> cmd'[e]] /\ cmd'[c] = Library!Ended
        /\ \A e \in Command \ {c} : cmd'[e] = cmd[e]
    BY <2>1 DEF LibInv, LibTypes
  <2>4. Sane(c)'
    BY <2>1, <2>2, <2>3, Over DEF Sane
  <2>5. \A e \in Command \ {c} : Sane(e)'
    BY <2>1, <2>3 DEF LibInv, Sane
  <2> QED BY <1>1, <2>1, <2>3, <2>4, <2>5 DEF LibInv, LibTypes
<1>6. CASE Library!DeleteSession(c, s)
  BY <1>6, Begins DEF Library!DeleteSession, Secrets
<1>7. ASSUME NEW a \in Library!Auth, Library!ConnectSession(c, s, a) PROVE LibInv'
  BY <1>7, Begins DEF Library!ConnectSession, Secrets, Library!Auth
<1>8. ASSUME NEW a \in Library!Auth, NEW fresh \in BOOLEAN, Library!SaveSession(c, s, a, fresh) PROVE LibInv'
  BY <1>8, Begins DEF Library!SaveSession, Secrets, Library!Auth, Library!Fits
<1> QED BY <1>2, <1>3, <1>4, <1>5, <1>6, <1>7, <1>8

(* All commands end with the program.                                      *)
LEMMA CrashStep ==
  ASSUME LibInv, NoneApart, Library!Crash
  PROVE  LibInv'
<1>1. /\ lock' = None /\ UNCHANGED <<file, secret, index>>
      /\ cmd' = [c \in Command |-> IF Library!Busy(c) THEN Library!Ended ELSE cmd[c]]
  BY DEF Library!Crash
<1>2. ASSUME NEW c \in Command PROVE Sane(c)'
  <2>1. Shape(cmd[c])
    BY Progressing
  <2>2. lock' # c
    BY <1>1 DEF NoneApart
  <2>3. CASE Library!Busy(c)
    BY <1>1, <2>2, <2>3, Over DEF Sane
  <2>4. CASE ~Library!Busy(c)
    <3>1. cmd'[c] = cmd[c] /\ cmd[c].pc \in {"idle", "ended"}
      BY <1>1, <2>4 DEF Library!Busy
    <3>2. cmd[c].op = "none" /\ ~Holds(cmd[c])
      BY <2>1, <3>1 DEF Shape, Holds
    <3>3. Claim(cmd[c], file[cmd[c].s], secret[cmd[c].s])
      BY <3>2 DEF Claim
    <3> QED BY <1>1, <2>1, <2>2, <3>1, <3>2, <3>3 DEF Sane
  <2> QED BY <2>3, <2>4
<1> QED BY <1>1, <1>2 DEF LibInv, LibTypes

(* At the start no command runs.                                           *)
LEMMA LibraryStarts ==
  ASSUME NoneApart, Library!Init
  PROVE  LibInv
<1>1. PICK plain \in BOOLEAN, s \in Stored :
          /\ file = [x \in Stored |-> IF x = s THEN [auth |-> "password", name |-> 1, plain |-> plain] ELSE None]
          /\ secret = [x \in Stored |-> IF x = s THEN "password" ELSE "none"]
          /\ index = {s}
  BY DEF Library!Init
<1>2. file \in [Stored -> Saved] /\ secret \in [Stored -> Secrets] /\ index \in SUBSET Stored
  BY <1>1 DEF Saved, Library!Entry, Library!Auth, Secrets
<1>3. lock = None /\ cmd = [c \in Command |-> Library!Quiet]
  BY DEF Library!Init
<1>4. \A c \in Command : lock # c /\ cmd[c] = Library!Quiet
  BY <1>3 DEF NoneApart
<1> QED BY <1>2, <1>3, <1>4, Over DEF LibInv, LibTypes, Sane

(* Commands, the vault and the end of the program, in any order.           *)
LEMMA LibrarySteps ==
  ASSUME NoneApart, LibInv, [Library!Next]_(Library!slvars)
  PROVE  LibInv'
<1>1. CASE Library!UnlockVault \/ Library!LockVault \/ UNCHANGED Library!slvars
  <2>1. UNCHANGED <<file, secret, index, lock, cmd>>
    BY <1>1 DEF Library!UnlockVault, Library!LockVault, Library!slvars
  <2> QED BY <2>1 DEF LibInv, LibTypes, Sane
<1>2. CASE Library!Crash
  BY <1>2, CrashStep
<1>3. ASSUME NEW c \in Command, Library!Runs(c) PROVE LibInv'
  <2>1. PICK s : s \in Stored
    BY <1>3, Progressing DEF Library!Runs, Library!WriteLibrary, Library!RollBack, Library!ReadCredentials,
       Library!WriteVault, Library!WriteSecret, Library!WriteIndex, Library!RestoreSecret,
       Library!RestoreIndex, Library!Return, Library!ReplaceSaved, Shape
  <2> QED BY <1>3, <2>1, WriteLibraryStep, RollBackStep, ReadCredentialsStep, WriteVaultStep, WriteSecretStep,
             WriteIndexStep, RestoreSecretStep, RestoreIndexStep, OthersOfLibrary DEF Library!Runs
<1>4. ASSUME NEW c \in Command, NEW s \in Stored,
             \/ Library!DeleteSession(c, s) \/ Library!RenameSession(c, s) \/ Library!LoadSessions(c, s)
             \/ \E a \in Library!Auth : Library!ConnectSession(c, s, a) \/ \E fresh \in BOOLEAN : Library!SaveSession(c, s, a, fresh)
      PROVE  LibInv'
  BY <1>4, OthersOfLibrary
<1> QED BY <1>1, <1>2, <1>3, <1>4 DEF Library!Next

(* The claims at the answers are the promise.                              *)
LEMMA LibraryPromises ==
  ASSUME NoneApart, LibInv
  PROVE  Library!AllOrNothing
<1> SUFFICES ASSUME NEW c \in Command, cmd[c].op \in {"save", "delete", "connect"}, ~cmd[c].raced, ~cmd[c].broken
             PROVE  LET k == cmd[c] IN
                      /\ k.op = "save" /\ secret[k.s] # k.had => file[k.s] # None /\ file[k.s].auth = secret[k.s]
                      /\ k.pc = "err" => file[k.s] = k.from /\ secret[k.s] = k.had
                      /\ k.pc = "ok" /\ k.op = "save" => file[k.s] # None /\ file[k.s].auth = k.auth /\ secret[k.s] = k.auth
                      /\ k.pc = "ok" /\ k.op = "delete" => file[k.s] = None /\ (k.from # None => secret[k.s] = "none")
  BY DEF Library!AllOrNothing
<1> DEFINE k == cmd[c]
           x == file[k.s]
           z == secret[k.s]
<1>1. Shape(k) /\ k \in Progresses /\ Claim(k, x, z)
  BY Progressing
<1>2. k.op \in {"save", "delete", "connect"} /\ ~k.raced /\ ~k.broken
  OBVIOUS
<1> HIDE DEF k, x, z
<1>3. /\ k.pc = "err" => x = k.from /\ z = k.had
      /\ k.pc = "ok" /\ k.op = "save" => x # None /\ x.auth = k.auth /\ z = k.auth
      /\ k.pc = "ok" /\ k.op = "delete" => x = None /\ (k.from # None => z = "none")
  BY <1>1, <1>2 DEF Claim
<1>4. ASSUME k.op = "save", z # k.had PROVE x # None /\ x.auth = z
  <2>1. k.pc \notin {"idle", "ended", "replace", "write", "err", "commit", "vault", "secret", "reindex", "rollback"}
    BY <1>1, <1>2, <1>4 DEF Shape, Claim
  <2>2. k.pc \in {"ok", "index", "restore"}
    BY <1>1, <2>1 DEF Progresses, Committing
  <2>3. CASE k.pc = "ok"
    BY <1>3, <1>4, <2>3
  <2>4. CASE k.pc \in {"index", "restore"}
    <3>1. x = EntryTo(k) /\ z = SecretTo(k)
      BY <1>1, <1>2, <1>4, <2>4 DEF Claim, Applied
    <3>2. k.auth \in Library!Auth
      BY <1>1, <1>4 DEF Shape
    <3>3. x = [auth |-> k.auth, name |-> 1, plain |-> FALSE] /\ x \in Library!Entry /\ z = k.auth
      BY <1>4, <3>1, <3>2 DEF EntryTo, SecretTo, Library!Entry
    <3> QED BY <3>3 DEF NoneApart
  <2> QED BY <2>2, <2>3, <2>4
<1> QED BY <1>3, <1>4 DEF k, x, z

(* A saved session and its secret change together or not at all, for any   *)
(* number of sessions, commands and failures (save_config_to_disk_-        *)
(* transactional, delete_config_from_disk_transactional, store_credential).*)
THEOREM LibraryAllOrNothing ==
  ASSUME NoneApart
  PROVE  Library!Init /\ [][Library!Next]_(Library!slvars) => []Library!AllOrNothing
<1>1. Library!Init => LibInv
  BY LibraryStarts
<1>2. LibInv /\ [Library!Next]_(Library!slvars) => LibInv'
  BY LibrarySteps
<1>3. LibInv => Library!AllOrNothing
  BY LibraryPromises
<1> QED BY <1>1, <1>2, <1>3, PTL

-----------------------------------------------------------------------------
(* SSH host keys *)

(* What is trusted is not inductive by itself. A restart takes its trust   *)
(* from the file, so the file must hold one key per algorithm as well, and *)
(* a missing file none; a start that is cut short leaves the marker or the *)
(* damaged file behind; and between the three writes of a reset memory and *)
(* file differ, so the invariant says what each of them has done.          *)

(* The inductive invariant *)

Reasons == {"none", "first_seen", "additional_key", "changed"}
Question == [at : {"none", "pending", "taken", "yes", "no", "over"}, reason : Reasons,
             seen : SUBSET (Trust!Key \cup [alg : Alg])]

TrustTypes ==
    /\ known \in [file : {"none", "good", "bad"}, keys : SUBSET Trust!Key, blocked : BOOLEAN]
    /\ store \in [at : {"down", "loading", "quarantine", "up"}, available : BOOLEAN,
                  hosts : SUBSET Trust!Key]
    /\ reset \in {"idle", "write", "unblock", "memory"}
    /\ client \in [Conn -> [at : {"idle", "waiting", "through", "refused"}, key : Trust!Key]]
    /\ ask \in [Conn -> Question]
    /\ granted \in [Trust!Key -> {"never", "once", "now"}]
    /\ damaged \in BOOLEAN

OneKeyEach(keys) == \A k \in keys : Trust!SameAlg(keys, k) = {k}
AllGranted(keys) == \A k \in keys : granted[k] = "now"

(* What memory and file hold, each by itself.                              *)
MemoryInv == OneKeyEach(store.hosts) /\ AllGranted(store.hosts)
FileInv ==
    /\ OneKeyEach(known.keys)
    /\ known.file = "none" => known.keys = {}
    /\ known.file = "good" => AllGranted(known.keys)

(* Memory and file together; only a reset that has written lets them       *)
(* differ.                                                                 *)
AgreeInv ==
    /\ store.available => ~known.blocked
    /\ store.at # "up" => ~store.available /\ store.hosts = {}
    /\ store.available /\ reset \in {"idle", "write"} => store.hosts = known.keys

(* Damaged trust is behind the marker, or still seen to be damaged.        *)
DamageInv == damaged => ~store.available /\ (known.blocked \/ known.file = "bad")

(* The steps of a reset.                                                   *)
ResetInv ==
    /\ reset # "idle" => store.at = "up"
    /\ reset \in {"unblock", "memory"} => ~damaged /\ known.file = "good" /\ known.keys = {}
    /\ reset = "memory" => ~known.blocked

(* A connection that got through, or is told to, has a key once granted.   *)
ThroughInv ==
    \A c \in Conn : client[c].at = "through" \/ ask[c].at = "yes" => granted[client[c].key] # "never"

TrustInv == TrustTypes /\ MemoryInv /\ FileInv /\ AgreeInv /\ DamageInv /\ ResetInv /\ ThroughInv

(* The sets of keys *)

(* A key of an algorithm that has none can be added.                       *)
LEMMA AddsKey ==
  ASSUME NEW keys, OneKeyEach(keys), NEW k, Trust!SameAlg(keys, k) = {}
  PROVE  OneKeyEach(keys \cup {k})
BY DEF OneKeyEach, Trust!SameAlg

(* A key can take the place of those of its algorithm.                     *)
LEMMA ReplacesKeys ==
  ASSUME NEW keys, OneKeyEach(keys), NEW k
  PROVE  OneKeyEach((keys \ Trust!SameAlg(keys, k)) \cup {k})
BY DEF OneKeyEach, Trust!SameAlg

(* What the decision says of memory.                                       *)
LEMMA Decided ==
  ASSUME NEW k
  PROVE  /\ Trust!Evaluate(k) = "trusted" => store.available /\ k \in store.hosts
         /\ Trust!Evaluate(k) = "first_seen" => store.available /\ store.hosts = {}
         /\ Trust!Evaluate(k) = "additional_key" => store.available /\ Trust!SameAlg(store.hosts, k) = {}
         /\ Trust!Evaluate(k) \in {"trusted", "first_seen", "additional_key", "changed", "unavailable"}
BY DEF Trust!Evaluate

(* Types *)

(* A question keeps its shape when its state changes.                      *)
LEMMA QuestionAsked ==
  ASSUME ask \in [Conn -> Question], NEW c \in Conn,
         NEW a \in {"none", "pending", "taken", "yes", "no", "over"}, ask' = [ask EXCEPT ![c].at = a]
  PROVE  /\ ask' \in [Conn -> Question] /\ ask'[c].at = a
         /\ \A d \in Conn : d # c => ask'[d] = ask[d]
<1>1. [ask[c] EXCEPT !.at = a] \in Question /\ [ask[c] EXCEPT !.at = a].at = a
  BY DEF Question
<1> QED BY <1>1

(* A connection keeps its key when its state changes.                      *)
LEMMA Connected ==
  ASSUME client \in [Conn -> [at : {"idle", "waiting", "through", "refused"}, key : Trust!Key]],
         NEW c \in Conn, NEW a \in {"idle", "waiting", "through", "refused"},
         client' = [client EXCEPT ![c].at = a]
  PROVE  /\ client' \in [Conn -> [at : {"idle", "waiting", "through", "refused"}, key : Trust!Key]]
         /\ client'[c].at = a
         /\ \A d \in Conn : client'[d].key = client[d].key /\ (d # c => client'[d] = client[d])
<1>1. /\ [client[c] EXCEPT !.at = a] \in [at : {"idle", "waiting", "through", "refused"}, key : Trust!Key]
      /\ [client[c] EXCEPT !.at = a].at = a /\ [client[c] EXCEPT !.at = a].key = client[c].key
  OBVIOUS
<1> QED BY <1>1


(* The steps *)

(* A commit, by a store that is available, of keys that are granted: memory*)
(* and file hold the same, and the invariant's parts about them hold again.*)
LEMMA CommitKeeps ==
  ASSUME TrustInv, NEW keys \in SUBSET Trust!Key, Trust!Commit(keys), OneKeyEach(keys),
         \A k \in keys : granted'[k] = "now", store.available, reset = "idle",
         UNCHANGED <<reset, damaged>>
  PROVE  /\ known' \in [file : {"none", "good", "bad"}, keys : SUBSET Trust!Key, blocked : BOOLEAN]
         /\ store' \in [at : {"down", "loading", "quarantine", "up"}, available : BOOLEAN,
                        hosts : SUBSET Trust!Key]
         /\ MemoryInv' /\ FileInv' /\ AgreeInv' /\ DamageInv' /\ ResetInv'
<1>1. /\ known'.file = "good" /\ known'.keys = keys /\ known'.blocked = known.blocked
      /\ known' \in [file : {"none", "good", "bad"}, keys : SUBSET Trust!Key, blocked : BOOLEAN]
  BY DEF Trust!Commit, TrustInv, TrustTypes
<1>2. /\ store'.at = store.at /\ store'.available = store.available /\ store'.hosts = keys
      /\ store' \in [at : {"down", "loading", "quarantine", "up"}, available : BOOLEAN,
                     hosts : SUBSET Trust!Key]
  BY DEF Trust!Commit, TrustInv, TrustTypes
<1>3. MemoryInv' /\ FileInv'
  BY <1>1, <1>2 DEF MemoryInv, FileInv, OneKeyEach, AllGranted, Trust!SameAlg
<1>4. AgreeInv' /\ DamageInv' /\ ResetInv'
  BY <1>1, <1>2 DEF TrustInv, AgreeInv, DamageInv, ResetInv
<1> QED BY <1>1, <1>2, <1>3, <1>4

(* A step that changes only questions and connections keeps the rest.      *)
LEMMA TalkKeeps ==
  ASSUME TrustInv, UNCHANGED <<known, store, reset, granted, damaged>>
  PROVE  /\ MemoryInv' /\ FileInv' /\ AgreeInv' /\ DamageInv' /\ ResetInv'
         /\ (ask \in [Conn -> Question])' /\
            (client \in [Conn -> [at : {"idle", "waiting", "through", "refused"}, key : Trust!Key]])'
            => TrustTypes'
<1>1. MemoryInv' /\ FileInv'
  BY DEF TrustInv, MemoryInv, FileInv, OneKeyEach, AllGranted, Trust!SameAlg
<1>2. AgreeInv' /\ DamageInv' /\ ResetInv'
  BY DEF TrustInv, AgreeInv, DamageInv, ResetInv
<1> QED BY <1>1, <1>2 DEF TrustInv, TrustTypes

(* Once a key was granted, it stays one that was.                          *)
LEMMA ThroughKeeps ==
  ASSUME TrustInv,
         \A k \in Trust!Key : granted[k] # "never" => granted'[k] # "never",
         \A c \in Conn : client'[c].key = client[c].key,
         \A c \in Conn : client'[c].at = "through" \/ ask'[c].at = "yes" =>
                         \/ client[c].at = "through" \/ ask[c].at = "yes"
                         \/ granted'[client[c].key] # "never"
  PROVE  ThroughInv'
<1>1. \A c \in Conn : client[c].key \in Trust!Key
  BY DEF TrustInv, TrustTypes
<1>2. ThroughInv
  BY DEF TrustInv
<1> QED BY <1>1, <1>2 DEF ThroughInv

(* The start, with its failures and with damage done before it.            *)
LEMMA StartStep ==
  ASSUME TrustInv, Trust!Boot \/ Trust!Load \/ Trust!MarkBlocked \/ Trust!Quarantine \/ Trust!StartFails \/ Trust!Damage
  PROVE  TrustInv'
<1>0. UNCHANGED <<reset, client, ask, granted>>
  BY DEF Trust!Boot, Trust!Load, Trust!MarkBlocked, Trust!Quarantine, Trust!StartFails, Trust!Damage
<1>1. ThroughInv'
  BY <1>0 DEF TrustInv, ThroughInv
<1>2. CASE Trust!Boot
  <2>1. /\ store' = [at |-> "loading", available |-> FALSE, hosts |-> {}]
        /\ UNCHANGED <<known, damaged>> /\ store.at = "down"
    BY <1>2 DEF Trust!Boot
  <2>2. TrustTypes'
    BY <1>0, <2>1 DEF TrustInv, TrustTypes
  <2>3. MemoryInv' /\ FileInv'
    BY <1>0, <2>1 DEF TrustInv, MemoryInv, FileInv, OneKeyEach, AllGranted, Trust!SameAlg
  <2>4. AgreeInv' /\ DamageInv' /\ ResetInv'
    BY <1>0, <2>1 DEF TrustInv, AgreeInv, DamageInv, ResetInv
  <2> QED BY <1>1, <2>2, <2>3, <2>4 DEF TrustInv
<1>3. CASE Trust!Load
  <2>1. /\ store' = [at |-> "up", available |-> Trust!Loadable,
                     hosts |-> IF Trust!Loadable THEN known.keys ELSE {}]
        /\ UNCHANGED <<known, damaged>> /\ store.at = "loading"
        /\ Trust!Loadable \in BOOLEAN /\ (Trust!Loadable <=> ~known.blocked /\ known.file # "bad")
    BY <1>3 DEF Trust!Load, Trust!Loadable
  <2>2. /\ store'.at = "up" /\ store'.available = Trust!Loadable /\ store'.hosts \in {known.keys, {}}
        /\ Trust!Loadable => store'.hosts = known.keys
        /\ ~Trust!Loadable => store'.hosts = {}
    BY <2>1
  <2>3. TrustTypes'
    BY <1>0, <2>1 DEF TrustInv, TrustTypes
  <2>4. Trust!Loadable => known.file = "good" \/ known.keys = {}
    BY <2>1 DEF TrustInv, TrustTypes, FileInv
  <2>5. MemoryInv'
    <3>1. CASE Trust!Loadable /\ known.file = "good"
      BY <1>0, <2>2, <3>1 DEF TrustInv, FileInv, MemoryInv, OneKeyEach, AllGranted, Trust!SameAlg
    <3>2. CASE store'.hosts = {}
      BY <3>2 DEF MemoryInv, OneKeyEach, AllGranted
    <3> QED BY <2>2, <2>4, <3>1, <3>2
  <2>6. FileInv'
    BY <1>0, <2>1 DEF TrustInv, FileInv, OneKeyEach, AllGranted, Trust!SameAlg
  <2>7. AgreeInv' /\ DamageInv' /\ ResetInv'
    BY <1>0, <2>1, <2>2 DEF TrustInv, AgreeInv, DamageInv, ResetInv
  <2> QED BY <1>1, <2>3, <2>5, <2>6, <2>7 DEF TrustInv
<1>4. CASE Trust!MarkBlocked
  <2>1. /\ known' = [known EXCEPT !.blocked = TRUE] /\ store' = [store EXCEPT !.at = "quarantine"]
        /\ UNCHANGED damaged /\ store.at = "loading" /\ known.file = "bad"
    BY <1>4 DEF Trust!MarkBlocked
  <2>2. /\ known'.file = known.file /\ known'.keys = known.keys /\ known'.blocked = TRUE
        /\ store'.at = "quarantine" /\ store'.available = store.available
        /\ store'.hosts = store.hosts /\ TrustTypes'
    BY <1>0, <2>1 DEF TrustInv, TrustTypes
  <2>3. MemoryInv' /\ FileInv'
    BY <1>0, <2>2 DEF TrustInv, MemoryInv, FileInv, OneKeyEach, AllGranted, Trust!SameAlg
  <2>4. AgreeInv' /\ DamageInv' /\ ResetInv'
    BY <1>0, <2>1, <2>2 DEF TrustInv, AgreeInv, DamageInv, ResetInv
  <2> QED BY <1>1, <2>2, <2>3, <2>4 DEF TrustInv
<1>5. CASE Trust!Quarantine
  <2>1. /\ known' = [known EXCEPT !.file = "none", !.keys = {}, !.blocked = TRUE]
        /\ store' = [store EXCEPT !.at = "up"]
        /\ UNCHANGED damaged /\ store.at = "quarantine"
    BY <1>5 DEF Trust!Quarantine
  <2>2. /\ known'.file = "none" /\ known'.keys = {} /\ known'.blocked = TRUE
        /\ store'.at = "up" /\ store'.available = store.available
        /\ store'.hosts = store.hosts /\ TrustTypes'
    BY <1>0, <2>1 DEF TrustInv, TrustTypes
  <2>3. MemoryInv' /\ FileInv'
    BY <1>0, <2>2 DEF TrustInv, MemoryInv, FileInv, OneKeyEach, AllGranted, Trust!SameAlg
  <2>4. AgreeInv' /\ DamageInv' /\ ResetInv'
    BY <1>0, <2>1, <2>2 DEF TrustInv, AgreeInv, DamageInv, ResetInv
  <2> QED BY <1>1, <2>2, <2>3, <2>4 DEF TrustInv
<1>6. CASE Trust!StartFails
  <2>1. /\ store' = [store EXCEPT !.at = "up"] /\ UNCHANGED <<known, damaged>>
        /\ store.at \in {"quarantine", "loading"}
    BY <1>6 DEF Trust!StartFails
  <2>2. /\ store'.at = "up" /\ store'.available = store.available
        /\ store'.hosts = store.hosts /\ TrustTypes'
    BY <1>0, <2>1 DEF TrustInv, TrustTypes
  <2>3. MemoryInv' /\ FileInv'
    BY <1>0, <2>1, <2>2 DEF TrustInv, MemoryInv, FileInv, OneKeyEach, AllGranted, Trust!SameAlg
  <2>4. AgreeInv' /\ DamageInv' /\ ResetInv'
    BY <1>0, <2>1, <2>2 DEF TrustInv, AgreeInv, DamageInv, ResetInv
  <2> QED BY <1>1, <2>2, <2>3, <2>4 DEF TrustInv
<1>7. CASE Trust!Damage
  <2>1. /\ known' = [known EXCEPT !.file = "bad"] /\ damaged' = TRUE
        /\ UNCHANGED store /\ store.at = "down"
    BY <1>7 DEF Trust!Damage
  <2>2. /\ known'.file = "bad" /\ known'.keys = known.keys /\ known'.blocked = known.blocked /\ TrustTypes'
    BY <1>0, <2>1 DEF TrustInv, TrustTypes
  <2>3. MemoryInv' /\ FileInv'
    BY <1>0, <2>1, <2>2 DEF TrustInv, MemoryInv, FileInv, OneKeyEach, AllGranted, Trust!SameAlg
  <2>4. AgreeInv' /\ DamageInv' /\ ResetInv'
    BY <1>0, <2>1, <2>2 DEF TrustInv, AgreeInv, DamageInv, ResetInv
  <2> QED BY <1>1, <2>2, <2>3, <2>4 DEF TrustInv
<1> QED BY <1>2, <1>3, <1>4, <1>5, <1>6, <1>7

(* Withdrawing trust makes no key one that was never granted.              *)
LEMMA WithdrawnTypes ==
  ASSUME granted \in [Trust!Key -> {"never", "once", "now"}]
  PROVE  /\ Trust!Withdrawn \in [Trust!Key -> {"never", "once", "now"}]
         /\ \A k \in Trust!Key : granted[k] # "never" => Trust!Withdrawn[k] # "never"
BY DEF Trust!Withdrawn

(* The three writes of a reset, its failure between them, and its end.     *)
LEMMA ResetStep ==
  ASSUME TrustInv, Trust!ResetWrites \/ Trust!ResetUnblocks \/ Trust!ResetEnds \/ Trust!ResetFails
  PROVE  TrustInv'
<1>0. UNCHANGED <<client, ask>>
  BY DEF Trust!ResetWrites, Trust!ResetUnblocks, Trust!ResetEnds, Trust!ResetFails
<1>1. CASE Trust!ResetWrites
  <2>1. /\ known' = [known EXCEPT !.file = "good", !.keys = {}] /\ damaged' = FALSE
        /\ reset' = "unblock" /\ reset = "write" /\ UNCHANGED <<store, granted>>
    BY <1>1 DEF Trust!ResetWrites
  <2>2. /\ known'.file = "good" /\ known'.keys = {} /\ known'.blocked = known.blocked /\ TrustTypes'
    BY <1>0, <2>1 DEF TrustInv, TrustTypes
  <2>3. MemoryInv' /\ FileInv' /\ ThroughInv'
    BY <1>0, <2>1, <2>2 DEF TrustInv, MemoryInv, FileInv, ThroughInv, OneKeyEach, AllGranted, Trust!SameAlg
  <2>4. AgreeInv' /\ DamageInv' /\ ResetInv'
    BY <1>0, <2>1, <2>2 DEF TrustInv, AgreeInv, DamageInv, ResetInv
  <2> QED BY <2>2, <2>3, <2>4 DEF TrustInv
<1>2. CASE Trust!ResetUnblocks
  <2>1. /\ known' = [known EXCEPT !.blocked = FALSE]
        /\ reset' = "memory" /\ reset = "unblock" /\ UNCHANGED <<store, granted, damaged>>
    BY <1>2 DEF Trust!ResetUnblocks
  <2>2. /\ known'.file = known.file /\ known'.keys = known.keys /\ known'.blocked = FALSE /\ TrustTypes'
    BY <1>0, <2>1 DEF TrustInv, TrustTypes
  <2>3. MemoryInv' /\ FileInv' /\ ThroughInv'
    BY <1>0, <2>1, <2>2 DEF TrustInv, MemoryInv, FileInv, ThroughInv, OneKeyEach, AllGranted, Trust!SameAlg
  <2>4. AgreeInv' /\ DamageInv' /\ ResetInv'
    BY <1>0, <2>1, <2>2 DEF TrustInv, AgreeInv, DamageInv, ResetInv
  <2> QED BY <2>2, <2>3, <2>4 DEF TrustInv
<1>3. CASE Trust!ResetEnds
  <2>1. /\ store' = [store EXCEPT !.hosts = {}, !.available = TRUE] /\ granted' = Trust!Withdrawn
        /\ reset' = "idle" /\ reset = "memory" /\ UNCHANGED <<known, damaged>>
    BY <1>3 DEF Trust!ResetEnds
  <2>2. /\ store'.at = store.at /\ store'.available = TRUE /\ store'.hosts = {} /\ TrustTypes'
    BY <1>0, <2>1, WithdrawnTypes DEF TrustInv, TrustTypes
  <2>3. known.keys = {} /\ store.at = "up" /\ ~damaged /\ ~known.blocked
    BY <2>1 DEF TrustInv, ResetInv
  <2>4. MemoryInv' /\ FileInv'
    BY <2>1, <2>2, <2>3 DEF TrustInv, MemoryInv, FileInv, OneKeyEach, AllGranted
  <2>5. ThroughInv'
    BY <1>0, <2>1, WithdrawnTypes DEF TrustInv, TrustTypes, ThroughInv
  <2>6. AgreeInv' /\ DamageInv' /\ ResetInv'
    BY <1>0, <2>1, <2>2, <2>3 DEF TrustInv, AgreeInv, DamageInv, ResetInv
  <2> QED BY <2>2, <2>4, <2>5, <2>6 DEF TrustInv
<1>4. CASE Trust!ResetFails
  <2>1. /\ reset' = "idle" /\ UNCHANGED <<known, store, granted, damaged>>
        /\ reset = "write" \/ (reset = "unblock" /\ known.blocked)
    BY <1>4 DEF Trust!ResetFails
  <2>2. TrustTypes'
    BY <1>0, <2>1 DEF TrustInv, TrustTypes
  <2>3. MemoryInv' /\ FileInv' /\ ThroughInv'
    BY <1>0, <2>1 DEF TrustInv, MemoryInv, FileInv, ThroughInv, OneKeyEach, AllGranted, Trust!SameAlg
  <2>4. AgreeInv' /\ DamageInv' /\ ResetInv'
    BY <1>0, <2>1 DEF TrustInv, AgreeInv, DamageInv, ResetInv
  <2> QED BY <2>2, <2>3, <2>4 DEF TrustInv
<1> QED BY <1>1, <1>2, <1>3, <1>4

(* Forgetting an endpoint commits no keys and withdraws those it had.      *)
LEMMA ForgetStep ==
  ASSUME TrustInv, Trust!Forget
  PROVE  TrustInv'
<1>1. /\ Trust!Commit({}) /\ store.available /\ reset = "idle"
      /\ granted' = Trust!Withdrawn /\ UNCHANGED <<reset, client, ask, damaged>>
  BY DEF Trust!Forget
<1>2. OneKeyEach({}) /\ \A k \in {} : granted'[k] = "now"
  BY DEF OneKeyEach
<1>3. /\ known' \in [file : {"none", "good", "bad"}, keys : SUBSET Trust!Key, blocked : BOOLEAN]
      /\ store' \in [at : {"down", "loading", "quarantine", "up"}, available : BOOLEAN,
                     hosts : SUBSET Trust!Key]
      /\ MemoryInv' /\ FileInv' /\ AgreeInv' /\ DamageInv' /\ ResetInv'
  BY <1>1, <1>2, CommitKeeps
<1>4. TrustTypes'
  BY <1>1, <1>3, WithdrawnTypes DEF TrustInv, TrustTypes
<1>5. ThroughInv'
  BY <1>1, WithdrawnTypes DEF TrustInv, TrustTypes, ThroughInv
<1> QED BY <1>3, <1>4, <1>5 DEF TrustInv

(* A crash leaves the file, and loses memory, questions and a reset.       *)
LEMMA TrustCrashStep ==
  ASSUME TrustInv, Trust!Crash
  PROVE  TrustInv'
<1>1. /\ store' = [at |-> "down", available |-> FALSE, hosts |-> {}]
      /\ reset' = "idle" /\ UNCHANGED <<known, damaged>>
  BY DEF Trust!Crash
<1>2. /\ client' = [c \in Conn |-> IF client[c].at = "waiting" THEN [client[c] EXCEPT !.at = "refused"]
                                                            ELSE client[c]]
      /\ ask' = [c \in Conn |-> IF ask[c].at = "none" THEN ask[c] ELSE [ask[c] EXCEPT !.at = "over"]]
  BY DEF Trust!Crash
<1>3. granted' = [k \in Trust!Key |-> IF k \in known.keys \/ granted[k] = "never" THEN granted[k]
                                                                           ELSE "once"]
  BY DEF Trust!Crash
<1>4. /\ granted' \in [Trust!Key -> {"never", "once", "now"}]
      /\ \A k \in Trust!Key : granted[k] # "never" => granted'[k] # "never"
      /\ \A k \in known.keys : k \in Trust!Key /\ granted'[k] = granted[k]
  BY <1>3 DEF TrustInv, TrustTypes
<1>5. /\ client' \in [Conn -> [at : {"idle", "waiting", "through", "refused"}, key : Trust!Key]]
      /\ \A c \in Conn : client'[c].key = client[c].key
      /\ \A c \in Conn : client'[c].at = "through" => client[c].at = "through"
  BY <1>2 DEF TrustInv, TrustTypes
<1>6. ask' \in [Conn -> Question] /\ \A c \in Conn : ask'[c].at \in {"none", "over"}
  <2>1. \A q \in Question : [q EXCEPT !.at = "over"] \in Question /\ [q EXCEPT !.at = "over"].at = "over"
    BY DEF Question
  <2>2. \A c \in Conn : ask[c] \in Question
    BY DEF TrustInv, TrustTypes
  <2> QED BY <1>2, <2>1, <2>2
<1>7. TrustTypes'
  BY <1>1, <1>4, <1>5, <1>6 DEF TrustInv, TrustTypes
<1>8. MemoryInv' /\ FileInv'
  BY <1>1, <1>4 DEF TrustInv, MemoryInv, FileInv, OneKeyEach, AllGranted, Trust!SameAlg
<1>9. AgreeInv' /\ DamageInv' /\ ResetInv'
  BY <1>1 DEF TrustInv, AgreeInv, DamageInv, ResetInv
<1>10. ThroughInv'
  BY <1>4, <1>5, <1>6, ThroughKeeps
<1> QED BY <1>7, <1>8, <1>9, <1>10 DEF TrustInv

(* A connection that meets the server's key gets through only with a key   *)
(* that memory holds, which is granted; else it is refused or asks.        *)
LEMMA MeetStep ==
  ASSUME TrustInv, NEW c \in Conn, Trust!Meet(c)
  PROVE  TrustInv'
<1> DEFINE d  == Trust!Evaluate(client[c].key)
           a  == IF d = "trusted" THEN "through"
                 ELSE IF d \in {"first_seen", "additional_key"} THEN "waiting" ELSE "refused"
           q1 == [at |-> "pending", reason |-> d, seen |-> {[alg |-> b] : b \in Trust!Algs(store.hosts)}]
           q2 == [at |-> "pending", reason |-> d, seen |-> Trust!SameAlg(store.hosts, client[c].key)]
<1>1. /\ UNCHANGED <<known, store, reset, granted, damaged>>
      /\ client' = [client EXCEPT ![c].at = a]
      /\ ask' = [ask EXCEPT ![c] = IF d \in {"first_seen", "additional_key"} THEN q1
                                   ELSE IF d = "changed" THEN q2 ELSE @]
  BY DEF Trust!Meet
<1>2. store.hosts \in SUBSET Trust!Key /\ client[c].key \in Trust!Key /\ ask \in [Conn -> Question]
      /\ client \in [Conn -> [at : {"idle", "waiting", "through", "refused"}, key : Trust!Key]]
  BY DEF TrustInv, TrustTypes
<1>3. d \in {"first_seen", "additional_key"} => q1 \in Question /\ q1.at = "pending"
  <2>1. {[alg |-> b] : b \in Trust!Algs(store.hosts)} \in SUBSET (Trust!Key \cup [alg : Alg])
    BY <1>2 DEF Trust!Algs, Trust!Key
  <2> QED BY <2>1 DEF Question, Reasons
<1>4. d = "changed" => q2 \in Question /\ q2.at = "pending"
  <2>1. Trust!SameAlg(store.hosts, client[c].key) \in SUBSET (Trust!Key \cup [alg : Alg])
    BY <1>2 DEF Trust!SameAlg
  <2> QED BY <2>1 DEF Question, Reasons
<1>5. /\ a \in {"idle", "waiting", "through", "refused"}
      /\ a = "through" => client[c].key \in store.hosts
  BY Decided
<1> HIDE DEF d, a, q1, q2
<1>6. PICK x \in {"waiting", "through", "refused"} :
        /\ client' = [client EXCEPT ![c].at = x]
        /\ x = "through" => client[c].key \in store.hosts
  <2>1. a \in {"waiting", "through", "refused"}
    BY DEF a
  <2> QED BY <1>1, <1>5, <2>1
<1>6a. /\ client' \in [Conn -> [at : {"idle", "waiting", "through", "refused"}, key : Trust!Key]]
       /\ client'[c].at = x
       /\ \A b \in Conn : client'[b].key = client[b].key /\ (b # c => client'[b] = client[b])
  <2>1. x \in {"idle", "waiting", "through", "refused"} /\ client' = [client EXCEPT ![c].at = x]
    BY <1>6
  <2> QED BY <1>2, <2>1, Connected
<1>7. /\ ask' \in [Conn -> Question]
      /\ \A b \in Conn : b # c => ask'[b] = ask[b]
      /\ ask'[c] = ask[c] \/ ask'[c].at = "pending"
  <2>1. ask[c] \in Question
    BY <1>2
  <2> QED BY <1>1, <1>2, <1>3, <1>4, <2>1
<1>8. client[c].key \in store.hosts => granted[client[c].key] = "now"
  BY DEF TrustInv, MemoryInv, AllGranted
<1>9. ThroughInv'
  <2>1. \A b \in Conn : client'[b].at = "through" \/ ask'[b].at = "yes" =>
                        \/ client[b].at = "through" \/ ask[b].at = "yes"
                        \/ granted'[client[b].key] # "never"
    BY <1>1, <1>6, <1>6a, <1>7, <1>8
  <2> QED BY <1>1, <1>6a, <2>1, ThroughKeeps
<1> QED BY <1>1, <1>6a, <1>7, <1>9, TalkKeeps DEF TrustInv

(* The end of a wait: given up, or told what the user answered.            *)
LEMMA WaitStep ==
  ASSUME TrustInv, NEW c \in Conn, Trust!GiveUp(c) \/ Trust!Told(c)
  PROVE  TrustInv'
<1>0. /\ UNCHANGED <<known, store, reset, granted, damaged>>
      /\ client \in [Conn -> [at : {"idle", "waiting", "through", "refused"}, key : Trust!Key]]
      /\ ask \in [Conn -> Question]
  BY DEF TrustInv, TrustTypes, Trust!GiveUp, Trust!Told
<1>1. CASE Trust!GiveUp(c)
  <2>1. /\ client' = [client EXCEPT ![c].at = "refused"]
        /\ ask' = ask \/ ask' = [ask EXCEPT ![c].at = "over"]
    <3>1. CASE ask[c].at = "pending"
      BY <1>0, <1>1, <3>1 DEF Trust!GiveUp
    <3>2. CASE ask[c].at # "pending"
      <4>1. ask' = [ask EXCEPT ![c].at = ask[c].at]
        BY <1>0, <1>1, <3>2 DEF Trust!GiveUp
      <4>2. [ask[c] EXCEPT !.at = ask[c].at] = ask[c]
        BY <1>0 DEF Question
      <4>3. ask' = ask
        BY <1>0, <4>1, <4>2
      <4> QED BY <1>1, <4>3 DEF Trust!GiveUp
    <3> QED BY <3>1, <3>2
  <2>2. /\ client' \in [Conn -> [at : {"idle", "waiting", "through", "refused"}, key : Trust!Key]]
        /\ client'[c].at = "refused"
        /\ \A b \in Conn : client'[b].key = client[b].key /\ (b # c => client'[b] = client[b])
    BY <1>0, <2>1, Connected
  <2>3. ask' \in [Conn -> Question] /\ \A b \in Conn : ask'[b].at = "yes" => ask[b].at = "yes"
    <3>1. CASE ask' = ask
      BY <1>0, <3>1
    <3>2. CASE ask' = [ask EXCEPT ![c].at = "over"]
      BY <1>0, <3>2, QuestionAsked
    <3> QED BY <2>1, <3>1, <3>2
  <2>4. ThroughInv'
    BY <1>0, <2>2, <2>3, ThroughKeeps
  <2> QED BY <1>0, <2>2, <2>3, <2>4, TalkKeeps DEF TrustInv
<1>2. CASE Trust!Told(c)
  <2>1. PICK a \in {"through", "refused"} :
          /\ client' = [client EXCEPT ![c].at = a] /\ UNCHANGED ask
          /\ a = "through" => ask[c].at = "yes"
    BY <1>2 DEF Trust!Told
  <2>2. /\ client' \in [Conn -> [at : {"idle", "waiting", "through", "refused"}, key : Trust!Key]]
        /\ client'[c].at = a
        /\ \A b \in Conn : client'[b].key = client[b].key /\ (b # c => client'[b] = client[b])
    <3>1. a \in {"idle", "waiting", "through", "refused"} /\ client' = [client EXCEPT ![c].at = a]
      BY <2>1
    <3> QED BY <1>0, <3>1, Connected
  <2>3. ThroughInv'
    BY <1>0, <2>1, <2>2, ThroughKeeps
  <2> QED BY <1>0, <2>1, <2>2, <2>3, TalkKeeps DEF TrustInv
<1> QED BY <1>1, <1>2

(* A question that is taken, refused or expired changes no trust.          *)
LEMMA AnswerStep ==
  ASSUME TrustInv, NEW c \in Conn, Trust!Respond(c) \/ Trust!Refuse(c) \/ Trust!ChangeExpires(c)
  PROVE  TrustInv'
<1>1. PICK a \in {"taken", "no", "over"} :
        ask' = [ask EXCEPT ![c].at = a] /\ UNCHANGED <<known, store, reset, client, granted, damaged>>
  BY DEF Trust!Respond, Trust!Refuse, Trust!ChangeExpires
<1>2. /\ ask' \in [Conn -> Question]
      /\ \A b \in Conn : ask'[b].at = "yes" => ask[b].at = "yes"
  <2>1. ask \in [Conn -> Question] /\ a \in {"none", "pending", "taken", "yes", "no", "over"} /\ a # "yes"
    BY DEF TrustInv, TrustTypes
  <2>2. ask' = [ask EXCEPT ![c].at = a]
    BY <1>1
  <2> QED BY <2>1, <2>2, QuestionAsked
<1>3. ThroughInv'
  BY <1>1, <1>2, ThroughKeeps
<1> QED BY <1>1, <1>2, <1>3, TalkKeeps DEF TrustInv, TrustTypes

(* A reset answers the open questions with no before it writes.            *)
LEMMA ResetBeginsStep ==
  ASSUME TrustInv, Trust!ResetBegins
  PROVE  TrustInv'
<1>1. /\ reset = "idle" /\ store.at = "up" /\ reset' = "write"
      /\ UNCHANGED <<known, store, client, granted, damaged>>
      /\ ask' = [c \in Conn |-> IF ask[c].at # "pending" THEN ask[c]
                                ELSE [ask[c] EXCEPT !.at =
                                        IF ask[c].reason = "changed" THEN "over" ELSE "no"]]
  BY DEF Trust!ResetBegins
<1>2. /\ ask' \in [Conn -> Question]
      /\ \A c \in Conn : ask'[c].at = "yes" => ask[c].at = "yes"
  <2>1. \A q \in Question, a \in {"over", "no"} :
          [q EXCEPT !.at = a] \in Question /\ [q EXCEPT !.at = a].at = a
    BY DEF Question
  <2>2. \A c \in Conn : ask[c] \in Question
    BY DEF TrustInv, TrustTypes
  <2> QED BY <1>1, <2>1, <2>2
<1>3. TrustTypes'
  BY <1>1, <1>2 DEF TrustInv, TrustTypes
<1>4. MemoryInv' /\ FileInv'
  BY <1>1 DEF TrustInv, MemoryInv, FileInv, OneKeyEach, AllGranted, Trust!SameAlg
<1>5. AgreeInv' /\ DamageInv' /\ ResetInv'
  BY <1>1 DEF TrustInv, AgreeInv, DamageInv, ResetInv
<1>6. ThroughInv'
  BY <1>1, <1>2, ThroughKeeps
<1> QED BY <1>3, <1>4, <1>5, <1>6 DEF TrustInv

(* An accepted key is written before its connection may go through, and    *)
(* only if what the question assumed is still so; then it is the key of an *)
(* algorithm that had none.                                                *)
LEMMA AcceptStep ==
  ASSUME TrustInv, NEW c \in Conn, Trust!Accept(c)
  PROVE  TrustInv'
<1> DEFINE k == client[c].key
<1>0. /\ client[c].key \in Trust!Key /\ ask \in [Conn -> Question] /\ UNCHANGED <<reset, client, damaged>>
      /\ granted \in [Trust!Key -> {"never", "once", "now"}] /\ reset = "idle"
      /\ client \in [Conn -> [at : {"idle", "waiting", "through", "refused"}, key : Trust!Key]]
  BY DEF TrustInv, TrustTypes, Trust!Accept
<1>1. CASE UNCHANGED <<known, store, granted>> /\ ask' = [ask EXCEPT ![c].at = "no"]
  <2>1. ask' \in [Conn -> Question] /\ \A b \in Conn : ask'[b].at = "yes" => ask[b].at = "yes"
    BY <1>0, <1>1, QuestionAsked
  <2>2. ThroughInv'
    BY <1>0, <1>1, <2>1, ThroughKeeps
  <2> QED BY <1>0, <1>1, <2>1, <2>2, TalkKeeps DEF TrustInv
<1>2. CASE /\ Trust!StillValid(c) /\ Trust!Evaluate(client[c].key) = "trusted"
           /\ UNCHANGED <<known, store, granted>> /\ ask' = [ask EXCEPT ![c].at = "yes"]
  <2>1. ask' \in [Conn -> Question] /\ \A b \in Conn : b # c => ask'[b] = ask[b]
    BY <1>0, <1>2, QuestionAsked
  <2>2. granted[client[c].key] = "now"
    BY <1>2, Decided DEF TrustInv, MemoryInv, AllGranted
  <2>3. ThroughInv'
    BY <1>0, <1>2, <2>1, <2>2, ThroughKeeps
  <2> QED BY <1>0, <1>2, <2>1, <2>3, TalkKeeps DEF TrustInv
<1>3. CASE /\ Trust!StillValid(c) /\ Trust!Evaluate(client[c].key) # "trusted"
           /\ Trust!Commit(store.hosts \union {client[c].key}) /\ Trust!Grant(client[c].key)
           /\ ask' = [ask EXCEPT ![c].at = "yes"]
  <2>1. store.available /\ Trust!SameAlg(store.hosts, k) = {}
    <3>1. Trust!Evaluate(client[c].key) \in {"first_seen", "additional_key"}
      BY <1>3 DEF Trust!StillValid
    <3> QED BY <3>1, Decided DEF Trust!SameAlg
  <2>2. OneKeyEach(store.hosts \cup {k})
    BY <2>1, AddsKey DEF TrustInv, MemoryInv
  <2>3. /\ granted' \in [Trust!Key -> {"never", "once", "now"}] /\ granted'[k] = "now"
        /\ \A j \in Trust!Key : j # k => granted'[j] = granted[j]
    BY <1>0, <1>3 DEF Trust!Grant
  <2>4. store.hosts \cup {k} \in SUBSET Trust!Key /\ \A j \in store.hosts \cup {k} : granted'[j] = "now"
    <3>1. store.hosts \in SUBSET Trust!Key /\ \A j \in store.hosts : granted[j] = "now"
      BY DEF TrustInv, TrustTypes, MemoryInv, AllGranted
    <3> QED BY <1>0, <2>3, <3>1
  <2>5. /\ known' \in [file : {"none", "good", "bad"}, keys : SUBSET Trust!Key, blocked : BOOLEAN]
        /\ store' \in [at : {"down", "loading", "quarantine", "up"}, available : BOOLEAN,
                       hosts : SUBSET Trust!Key]
        /\ MemoryInv' /\ FileInv' /\ AgreeInv' /\ DamageInv' /\ ResetInv'
    BY <1>0, <1>3, <2>1, <2>2, <2>4, CommitKeeps
  <2>6. ask' \in [Conn -> Question] /\ \A b \in Conn : b # c => ask'[b] = ask[b]
    BY <1>0, <1>3, QuestionAsked
  <2>7. TrustTypes'
    BY <1>0, <2>3, <2>5, <2>6 DEF TrustInv, TrustTypes
  <2>8. ThroughInv'
    <3>1. \A j \in Trust!Key : granted[j] # "never" => granted'[j] # "never"
      BY <2>3
    <3>2. \A b \in Conn : client'[b].at = "through" \/ ask'[b].at = "yes" =>
                          \/ client[b].at = "through" \/ ask[b].at = "yes"
                          \/ granted'[client[b].key] # "never"
      BY <1>0, <2>3, <2>6
    <3> QED BY <1>0, <3>1, <3>2, ThroughKeeps
  <2> QED BY <2>5, <2>7, <2>8 DEF TrustInv
<1> QED BY <1>1, <1>2, <1>3 DEF Trust!Accept

(* A change that is accepted puts the new key in the place of those that   *)
(* were shown, if these are still the ones of its algorithm.               *)
LEMMA AcceptChangeStep ==
  ASSUME TrustInv, NEW c \in Conn, Trust!AcceptChange(c)
  PROVE  TrustInv'
<1> DEFINE k == client[c].key
<1>0. /\ client[c].key \in Trust!Key /\ ask \in [Conn -> Question] /\ UNCHANGED <<reset, client, damaged>>
      /\ granted \in [Trust!Key -> {"never", "once", "now"}] /\ reset = "idle"
      /\ client \in [Conn -> [at : {"idle", "waiting", "through", "refused"}, key : Trust!Key]]
      /\ ask' = [ask EXCEPT ![c].at = "over"]
  BY DEF TrustInv, TrustTypes, Trust!AcceptChange
<1>1. ask' \in [Conn -> Question] /\ \A b \in Conn : ask'[b].at = "yes" => ask[b].at = "yes"
  BY <1>0, QuestionAsked
<1>2. CASE UNCHANGED <<known, store, granted>>
  <2>1. ThroughInv'
    BY <1>0, <1>1, <1>2, ThroughKeeps
  <2> QED BY <1>0, <1>1, <1>2, <2>1, TalkKeeps DEF TrustInv
<1>3. CASE /\ Trust!Matches(c) /\ Trust!Commit((store.hosts \ ask[c].seen) \union {client[c].key})
           /\ granted' = [j \in Trust!Key |-> IF j = client[c].key THEN "now"
                                        ELSE IF j \in ask[c].seen THEN "once" ELSE granted[j]]
  <2>1. store.available /\ ask[c].seen = Trust!SameAlg(store.hosts, k)
    BY <1>3 DEF Trust!Matches
  <2>2. OneKeyEach((store.hosts \ ask[c].seen) \cup {k})
    BY <2>1, ReplacesKeys DEF TrustInv, MemoryInv
  <2>3. /\ granted' \in [Trust!Key -> {"never", "once", "now"}] /\ granted'[k] = "now"
        /\ \A j \in Trust!Key : j # k /\ j \notin ask[c].seen => granted'[j] = granted[j]
        /\ \A j \in Trust!Key : granted[j] # "never" => granted'[j] # "never"
    BY <1>0, <1>3
  <2>4. /\ (store.hosts \ ask[c].seen) \cup {k} \in SUBSET Trust!Key
        /\ \A j \in (store.hosts \ ask[c].seen) \cup {k} : granted'[j] = "now"
    <3>1. store.hosts \in SUBSET Trust!Key /\ \A j \in store.hosts : granted[j] = "now"
      BY DEF TrustInv, TrustTypes, MemoryInv, AllGranted
    <3> QED BY <1>0, <2>3, <3>1
  <2>5. /\ known' \in [file : {"none", "good", "bad"}, keys : SUBSET Trust!Key, blocked : BOOLEAN]
        /\ store' \in [at : {"down", "loading", "quarantine", "up"}, available : BOOLEAN,
                       hosts : SUBSET Trust!Key]
        /\ MemoryInv' /\ FileInv' /\ AgreeInv' /\ DamageInv' /\ ResetInv'
    BY <1>0, <1>3, <2>1, <2>2, <2>4, CommitKeeps
  <2>6. TrustTypes'
    BY <1>0, <1>1, <2>3, <2>5 DEF TrustInv, TrustTypes
  <2>7. ThroughInv'
    BY <1>0, <1>1, <2>3, ThroughKeeps
  <2> QED BY <2>5, <2>6, <2>7 DEF TrustInv
<1> QED BY <1>2, <1>3 DEF Trust!AcceptChange

(* The theorems *)

(* The start state has no trust and no file.                               *)
LEMMA TrustInit == Trust!Init => TrustInv
<1> SUFFICES ASSUME Trust!Init PROVE TrustInv
  OBVIOUS
<1>1. TrustTypes
  <2>1. Trust!NoQuestion \in Question
    BY DEF Trust!NoQuestion, Question, Reasons
  <2>2. client \in [Conn -> [at : {"idle", "waiting", "through", "refused"}, key : Trust!Key]]
    BY DEF Trust!Init
  <2> QED BY <2>1, <2>2 DEF Trust!Init, TrustTypes
<1>2. MemoryInv /\ FileInv /\ AgreeInv /\ DamageInv /\ ResetInv
  BY DEF Trust!Init, MemoryInv, FileInv, AgreeInv, DamageInv, ResetInv, OneKeyEach, AllGranted
<1>3. ThroughInv
  BY DEF Trust!Init, ThroughInv, Trust!NoQuestion
<1> QED BY <1>1, <1>2, <1>3 DEF TrustInv

(* Every step keeps the invariant: the start, the user's answers,          *)
(* forgetting, the steps of a reset, the waits, crashes and damage.        *)
LEMMA TrustStep == TrustInv /\ [Trust!Next]_(Trust!htvars) => TrustInv'
<1> SUFFICES ASSUME TrustInv, [Trust!Next]_(Trust!htvars) PROVE TrustInv'
  OBVIOUS
<1>1. CASE UNCHANGED Trust!htvars
  <2>1. UNCHANGED <<known, store, reset, client, ask, granted, damaged>>
    BY <1>1 DEF Trust!htvars
  <2>2. ThroughInv' /\ TrustTypes'
    BY <2>1 DEF TrustInv, TrustTypes, ThroughInv
  <2> QED BY <2>1, <2>2, TalkKeeps DEF TrustInv
<1>2. CASE Trust!Works
  BY <1>2, StartStep, ResetStep, MeetStep, AcceptStep, AcceptChangeStep DEF Trust!Works
<1>3. CASE Trust!Waits
  BY <1>3, WaitStep DEF Trust!Waits
<1>4. CASE Trust!StartFails \/ Trust!ResetFails \/ Trust!Crash \/ Trust!Damage
  BY <1>4, StartStep, ResetStep, TrustCrashStep
<1>5. CASE Trust!Forget \/ Trust!ResetBegins
  BY <1>5, ForgetStep, ResetBeginsStep
<1>6. CASE \E c \in Conn : Trust!Respond(c) \/ Trust!Refuse(c) \/ Trust!ChangeExpires(c)
  BY <1>6, AnswerStep
<1> QED BY <1>1, <1>2, <1>3, <1>4, <1>5, <1>6 DEF Trust!Next

(* The invariant holds throughout, whatever fails in between.              *)
THEOREM TrustInvHolds == Trust!Spec => []TrustInv
BY TrustInit, TrustStep, PTL DEF Trust!Spec

(* What the invariant says of memory and file includes what is promised.   *)
LEMMA TrustGrants == TrustInv => Trust!TrustIsGranted
BY DEF TrustInv, MemoryInv, FileInv, AgreeInv, DamageInv, ThroughInv, OneKeyEach, AllGranted,
       Trust!TrustIsGranted

(* Trust in a host key is what the user granted and has not withdrawn, in  *)
(* memory and in the file, for any connections, keys and failures; a       *)
(* damaged file is never taken for an empty one before the user resets it. *)
THEOREM TrustIsGrantedHolds == Trust!Spec => []Trust!TrustIsGranted
BY TrustGrants, TrustInvHolds, PTL

=============================================================================
