---------------------------- MODULE XModemProofs ----------------------------
(***************************************************************************)
(* Proof that XModem implements OrderedDelivery: for a file of any length, *)
(* any number of retries and any faults of the line, as long as the faults *)
(* of one transfer are fewer than the block numbers but one.               *)
(***************************************************************************)
EXTENDS XModem, FiniteSetTheorems, SequenceTheorems, TLAPS

(* What the proofs need of the constants.  A block number that has come    *)
(* round once more cannot be told from the one the receiver expects; only  *)
(* answers that arrive too late let the sender get that far ahead.         *)
Bounded ==
  /\ Blocks \in Nat /\ MaxFaults \in Nat
  /\ SeqMod \in Nat /\ 1 < SeqMod /\ MaxFaults < SeqMod - 1

------------------------------------------------------------------------------
(* The messages of the two directions and how many are of one kind *)

Checks == {"none", "crc16", "checksum"}
Frames == [k : {"frame"}, num : Nat, data : 1..Blocks, mode : Checks, ok : {"good", "bad", "cut"}]
FwdMsgs == [k : {"CAN", "EOT", "noise"}, ok : {"good"}] \cup Frames
BwdMsgs == [k : {"C", "NAK", "ACK", "CAN", "noise"}, ok : {"good"}]

Acks == {m \in BwdMsgs : m.k = "ACK"}
Below(b) == {m \in Frames : m.data < b}

Hits(q, S) == {i \in 1..Len(q) : q[i] \in S}
Count(q, S) == Cardinality(Hits(q, S))

(* A count is a number of places of the sequence.                          *)
LEMMA CountType ==
  ASSUME NEW T, NEW q \in Seq(T), NEW S
  PROVE  IsFiniteSet(Hits(q, S)) /\ Count(q, S) \in Nat /\ Count(q, S) <= Len(q)
<1>1. Len(q) \in Nat
  OBVIOUS
<1>2. IsFiniteSet(1..Len(q)) /\ Cardinality(1..Len(q)) = Len(q)
  BY SMTT(30), <1>1, FS_Interval
<1>3. Hits(q, S) \in SUBSET (1..Len(q))
  BY DEF Hits
<1>4. IsFiniteSet(Hits(q, S)) /\ Cardinality(Hits(q, S)) <= Len(q)
  BY <1>2, <1>3, FS_Subset
<1> QED BY <1>4, FS_CardinalityType DEF Count

(* A message that is written counts once if it is of the kind.             *)
LEMMA CountAppend ==
  ASSUME NEW T, NEW q \in Seq(T), NEW e \in T, NEW S
  PROVE  Count(Append(q, e), S) = Count(q, S) + (IF e \in S THEN 1 ELSE 0)
<1> DEFINE r == Append(q, e)
<1>1. Len(r) = Len(q) + 1 /\ r[Len(q) + 1] = e /\ \A i \in 1..Len(q) : r[i] = q[i]
  OBVIOUS
<1>2. Len(q) \in Nat
  OBVIOUS
<1>3. IsFiniteSet(Hits(q, S)) /\ Count(q, S) \in Nat
  BY CountType
<1> HIDE DEF r
<1>4. CASE e \in S
  <2>1. Hits(r, S) = Hits(q, S) \cup {Len(q) + 1}
    BY <1>1, <1>2, <1>4 DEF Hits
  <2>2. Len(q) + 1 \notin Hits(q, S)
    BY <1>2 DEF Hits
  <2>3. Cardinality(Hits(r, S)) = Cardinality(Hits(q, S)) + 1
    BY <1>3, <2>1, <2>2, FS_AddElement
  <2> QED BY <1>4, <2>3 DEF Count, r
<1>5. CASE e \notin S
  <2>1. Hits(r, S) = Hits(q, S)
    BY <1>1, <1>2, <1>5 DEF Hits
  <2> QED BY <1>3, <1>5, <2>1 DEF Count, r
<1> QED BY <1>4, <1>5

(* A message that is read no longer counts.                                *)
LEMMA CountTail ==
  ASSUME NEW T, NEW q \in Seq(T), q # <<>>, NEW S
  PROVE  Count(q, S) = Count(Tail(q), S) + (IF Head(q) \in S THEN 1 ELSE 0)
<1> DEFINE r == Tail(q)
           Later == {i \in 2..Len(q) : q[i] \in S}
           f == [i \in Hits(r, S) |-> i + 1]
<1>1. /\ r \in Seq(T) /\ Len(q) \in Nat /\ Len(q) >= 1 /\ Len(r) = Len(q) - 1
      /\ Head(q) = q[1] /\ \A i \in 1..Len(r) : r[i] = q[i + 1]
  OBVIOUS
<1>2. IsFiniteSet(Hits(r, S)) /\ Count(r, S) \in Nat
  BY <1>1, CountType
<1> HIDE DEF r
<1>3. f \in Bijection(Hits(r, S), Later)
  <2>1. \A i \in Hits(r, S) : i \in Nat /\ i + 1 \in Later
    BY <1>1 DEF Hits
  <2>2. f \in Injection(Hits(r, S), Later)
    BY <2>1 DEF Injection, IsInjective
  <2>3. \A j \in Later : j - 1 \in Hits(r, S) /\ f[j - 1] = j
    BY <1>1 DEF Hits
  <2>4. f \in Surjection(Hits(r, S), Later)
    BY <2>1, <2>3 DEF Surjection
  <2> QED BY <2>2, <2>4 DEF Bijection
<1>4. IsFiniteSet(Later) /\ Cardinality(Later) = Count(r, S)
  BY <1>2, <1>3, FS_Bijection DEF ExistsBijection, Count
<1>5. CASE Head(q) \in S
  <2>1. Hits(q, S) = Later \cup {1} /\ 1 \notin Later
    BY <1>1, <1>5 DEF Hits
  <2> QED BY <1>2, <1>4, <1>5, <2>1, FS_AddElement DEF Count, r
<1>6. CASE Head(q) \notin S
  <2>1. Hits(q, S) = Later
    BY <1>1, <1>6 DEF Hits
  <2> QED BY <1>2, <1>4, <1>6, <2>1 DEF Count, r
<1> QED BY <1>5, <1>6

(* A multiple of m that is nearer to zero than m is zero.                  *)
LEMMA SmallMultiple ==
  ASSUME NEW m \in Nat, m > 0, NEW d \in Int, m * d < m, m * d > -m
  PROVE  d = 0
<1>1. CASE d >= 1
  <2>1. m * d >= m
    BY <1>1
  <2> QED BY <2>1
<1>2. CASE d <= -1
  <2>1. m * d <= -m
    BY <1>2
  <2> QED BY <2>1
<1> QED BY <1>1, <1>2

(* The remainder is the only one.                                          *)
LEMMA Remainder ==
  ASSUME NEW m \in Nat, m > 0, NEW a \in Nat, NEW p \in Int, NEW r \in 0..(m - 1), a = m * p + r
  PROVE  a % m = r
<1> DEFINE s == a \div m
           t == a % m
<1>1. s \in Int /\ t \in 0..(m - 1) /\ a = m * s + t
  OBVIOUS
<1> HIDE DEF s, t
<1>2. m * (s - p) = r - t
  <2>1. m * s - m * p = r - t
    BY <1>1
  <2> QED BY <1>1, <2>1
<1>3. s - p = 0
  <2>1. r - t < m /\ r - t > -m
    BY <1>1
  <2> QED BY <1>1, <1>2, <2>1, SmallMultiple
<1>4. t = r
  BY <1>1, <1>2, <1>3
<1> QED BY <1>4 DEF t

(* Block numbers tell apart blocks that are less than a round apart.       *)
LEMMA SameNumber ==
  ASSUME NEW m \in Nat, m > 0, NEW a \in Nat, NEW b \in Nat, a <= b, b < a + m,
         a % m = b % m
  PROVE  a = b
<1> DEFINE p == a \div m
           s == b \div m
           r == a % m
<1>1. p \in Int /\ s \in Int /\ r \in Int /\ a = m * p + r /\ b = m * s + r
  OBVIOUS
<1> HIDE DEF p, s, r
<1>2. m * (s - p) = b - a
  <2>1. m * s - m * p = b - a
    BY <1>1
  <2> QED BY <1>1, <2>1
<1>3. s - p = 0
  BY <1>1, <1>2, SmallMultiple
<1> QED BY <1>1, <1>3

(* The number after the one of block n is that of block n + 1.             *)
LEMMA NextNumber ==
  ASSUME NEW m \in Nat, m > 1, NEW n \in Nat
  PROVE  ((n % m) + 1) % m = (n + 1) % m
<1> DEFINE q == n \div m
           r == n % m
<1>1. q \in Int /\ r \in 0..(m - 1) /\ n = m * q + r
  OBVIOUS
<1> HIDE DEF q, r
<1>2. CASE r + 1 < m
  <2>1. n + 1 = m * q + (r + 1) /\ r + 1 \in 0..(m - 1)
    BY <1>1, <1>2
  <2>2. (n + 1) % m = r + 1
    BY <1>1, <2>1, Remainder
  <2>3. (r + 1) % m = r + 1
    <3>1. r + 1 = m * 0 + (r + 1)
      BY <1>1
    <3> QED BY <2>1, <3>1, Remainder
  <2> QED BY <2>2, <2>3 DEF r
<1>3. CASE r + 1 = m
  <2>1. m * (q + 1) = m * q + m
    BY <1>1
  <2>2. n + 1 = m * (q + 1) + 0 /\ q + 1 \in Int /\ 0 \in 0..(m - 1)
    BY <1>1, <1>3, <2>1
  <2>3. (n + 1) % m = 0
    BY SMTT(30), <2>2, Remainder
  <2>4. (r + 1) % m = 0
    <3>1. r + 1 = m * 1 + 0 /\ r + 1 \in Nat /\ 0 \in 0..(m - 1)
      BY <1>1, <1>3
    <3> QED BY <3>1, Remainder
  <2> QED BY <2>3, <2>4 DEF r
<1> QED BY <1>1, <1>2, <1>3

------------------------------------------------------------------------------
(* The invariant *)

SndPcs == {"getnak", "send", "await", "eot", "awaitEot", "completed", "failed", "error"}
RcvPcs == {"request", "first", "top", "header", "completed", "failed", "error"}

SndStates == [pc : SndPcs, blk : 1..(Blocks + 1), try : Nat, mode : Checks]
RcvStates ==
  [pc : RcvPcs, mode : Nat, try : Nat, started : BOOLEAN, data : Seq(Nat), last : Nat]

Types ==
  /\ snd \in SndStates /\ rcv \in RcvStates
  /\ fwd \in Seq(FwdMsgs) /\ bwd \in Seq(BwdMsgs)
  /\ faults \in 0..MaxFaults /\ stale \in BOOLEAN

Kept == Len(rcv.data)

(* How far the two ends are, by where their threads stand.                 *)
Phases ==
  /\ snd.pc = "await" => snd.blk <= Blocks
  /\ snd.pc \in {"eot", "awaitEot", "completed"} => snd.blk = Blocks + 1
  /\ \A i \in 1..Len(fwd) : fwd[i].k = "EOT" => snd.blk = Blocks + 1
  /\ rcv.pc \in {"request", "first"} => rcv.data = <<>> /\ rcv.last = 0
  /\ rcv.pc \in {"top", "header"} => Kept > 0

(* What is kept is the beginning of the file.                              *)
InOrder ==
  /\ \A i \in 1..Kept : rcv.data[i] = i
  /\ rcv.last = Kept % SeqMod
  /\ Kept <= snd.blk /\ Kept <= Blocks

(* The blocks on their way are in the order of the file, none older than   *)
(* the last one kept, none newer than the one the sender is at.            *)
InFlight ==
  /\ \A i \in 1..Len(fwd) : fwd[i] \in Frames =>
       /\ fwd[i].num = fwd[i].data % SeqMod
       /\ Kept <= fwd[i].data /\ fwd[i].data <= snd.blk
  /\ \A i, j \in 1..Len(fwd) :
       (fwd[i] \in Frames /\ fwd[j] \in Frames /\ i < j) => fwd[i].data <= fwd[j].data

(* Only a timeout that crosses an answer adds a turn to the one that is    *)
(* about: a message of either direction, or the one an end will write.     *)
Slack == IF stale THEN faults ELSE 0
Turn(b) == IF b THEN 1 ELSE 0

Turns ==
  (~SndDone /\ ~RcvDone) =>
    Len(fwd) + Len(bwd) + Turn(snd.pc \in {"send", "eot"}) + Turn(rcv.pc = "request") <= 1 + Slack

(* The sender goes ahead by answers to blocks it had sent twice, of which  *)
(* there are no more than turns too many: those it has, and those the      *)
(* blocks before any block b that is not kept can still bring it.          *)
Lead ==
  ~RcvDone =>
    \A b \in (Kept + 1)..(snd.blk + 1) : snd.blk + Count(bwd, Acks) + Count(fwd, Below(b)) <= Slack + b

(* Without such a timeout the receiver only ends with the whole file.      *)
EndsWhole == (rcv.pc = "completed" /\ ~stale) => Kept = Blocks

DeliveryInv ==
  Types /\ Phases /\ InOrder /\ InFlight /\ Turns /\ Lead /\ EndsWhole

------------------------------------------------------------------------------
(* What the steps of the two ends come to *)

(* A read of the sender: only an ACK for a block moves it on.              *)
Onward ==
  /\ snd'.pc # "await"
  /\ snd'.pc \in {"eot", "awaitEot", "completed"} => snd.pc = "awaitEot" /\ snd'.blk = snd.blk

SndReads ==
  /\ Onward
  /\ bwd # <<>> /\ bwd' = Tail(bwd) /\ UNCHANGED <<rcv, faults, stale>>
  /\ snd.pc \in {"getnak", "await", "awaitEot"}
  /\ fwd' = fwd \/ (SndDone' /\ fwd' = Append(fwd, Byte("CAN")))
  /\ snd'.blk = snd.blk \/ (Head(bwd) \in Acks /\ snd'.blk = snd.blk + 1)

SndExpires ==
  /\ SndTimesOut /\ bwd' = bwd /\ rcv' = rcv /\ Onward
  /\ snd.pc \in {"getnak", "await", "awaitEot"}
  /\ fwd' = fwd \/ (SndDone' /\ fwd' = Append(fwd, Byte("CAN")))
  /\ snd'.blk = snd.blk

SndWrites ==
  /\ snd.pc \in {"getnak", "send", "eot"} /\ snd'.blk = snd.blk
  /\ UNCHANGED <<rcv, bwd, faults, stale>>
  /\ \/ snd'.pc \in {"error", "failed"} /\ fwd' \in {fwd, Append(fwd, Byte("CAN"))}
     \/ snd.pc = "send" /\ snd'.pc = "eot" /\ snd.blk = Blocks + 1 /\ fwd' = fwd
     \/ snd.pc = "eot" /\ snd'.pc = "awaitEot" /\ fwd' = Append(fwd, Byte("EOT"))
     \/ /\ snd.pc = "send" /\ snd'.pc = "await" /\ snd.blk <= Blocks
        /\ fwd' = Append(fwd, Frame(snd.blk, snd.mode))

(* A read of the receiver: what it keeps, and what it acknowledges.        *)
RcvSame == rcv'.data = rcv.data /\ rcv'.last = rcv.last

RcvReads ==
  /\ fwd # <<>> /\ fwd' = Tail(fwd) /\ UNCHANGED <<snd, faults, stale>>
  /\ rcv.pc \in {"first", "header"}
  /\ \/ /\ RcvSame /\ RcvDone'
        /\ rcv'.pc = "completed" => Head(fwd).k = "EOT" /\ rcv.pc = "header"
        /\ \E m \in BwdMsgs : bwd' \in {bwd, Append(bwd, m)}
     \/ RcvSame /\ rcv.pc = "first" /\ rcv'.pc = "request" /\ bwd' = bwd
     \/ /\ RcvSame /\ rcv.pc = "header" /\ rcv'.pc \in {"top", "header"}
        /\ bwd' \in {bwd, Append(bwd, Byte("NAK"))}
     \/ /\ RcvSame /\ rcv'.pc = "top" /\ bwd' = Append(bwd, Byte("ACK"))
        /\ rcv.pc = "header" /\ Head(fwd) \in Frames /\ Head(fwd).num = rcv.last
     \/ /\ rcv'.data = Append(rcv.data, Head(fwd).data) /\ rcv'.last = Head(fwd).num
        /\ rcv'.pc = "top" /\ bwd' = Append(bwd, Byte("ACK"))
        /\ Head(fwd) \in Frames /\ Head(fwd).num = (rcv.last + 1) % SeqMod

RcvExpires ==
  /\ RcvTimesOut /\ fwd' = fwd /\ snd' = snd
  /\ rcv.pc \in {"first", "header"} /\ RcvSame /\ rcv'.pc # "completed"
  /\ \/ RcvDone' /\ bwd' \in {bwd, Append(bwd, Byte("CAN"))}
     \/ rcv.pc = "first" /\ rcv'.pc = "request" /\ bwd' = bwd
     \/ rcv.pc = "header" /\ rcv'.pc = "header" /\ bwd' = Append(bwd, Byte("NAK"))

RcvWrites ==
  /\ rcv.pc \in {"request", "top"} /\ RcvSame /\ UNCHANGED <<snd, fwd, faults, stale>>
  /\ \/ rcv'.pc = "error" /\ bwd' = Append(bwd, Byte("CAN"))
     \/ rcv.pc = "request" /\ rcv'.pc = "first" /\ \E m \in BwdMsgs \ Acks : bwd' = Append(bwd, m)
     \/ rcv.pc = "top" /\ rcv'.pc = "header" /\ bwd' = bwd

(* The messages the ends write.                                            *)
LEMMA Messages ==
  ASSUME Bounded
  PROVE  /\ \A b \in {"CAN", "EOT", "noise"} : Byte(b) \in FwdMsgs /\ Byte(b) \notin Frames /\ Byte(b).k = b
         /\ \A b \in {"C", "NAK", "ACK", "CAN", "noise"} : Byte(b) \in BwdMsgs /\ Byte(b).k = b
         /\ \A b \in {"C", "NAK", "CAN", "noise"} : Byte(b) \notin Acks
         /\ Byte("ACK") \in Acks /\ Acks \subseteq BwdMsgs
         /\ \A i \in 1..Blocks, m \in Checks :
              Frame(i, m) \in Frames /\ Frame(i, m).data = i /\ Frame(i, m).num = i % SeqMod
         /\ \A m \in Frames : m \in FwdMsgs /\ m.k = "frame"
         /\ \A m \in FwdMsgs : m \in Frames <=> m.k \notin {"CAN", "EOT", "noise"}
<1>1. \A i \in 1..Blocks : i % SeqMod \in Nat
  BY DEF Bounded
<1> QED BY <1>1 DEF Byte, FwdMsgs, BwdMsgs, Frames, Frame, Acks

(* Reading and writing a channel.                                          *)
LEMMA Channels ==
  ASSUME NEW T, NEW q \in Seq(T)
  PROVE  /\ Len(q) \in Nat
         /\ \A m \in T : /\ Append(q, m) \in Seq(T) /\ Len(Append(q, m)) = Len(q) + 1
                         /\ Append(q, m)[Len(q) + 1] = m
                         /\ \A i \in 1..Len(q) : Append(q, m)[i] = q[i]
         /\ q # <<>> => /\ Tail(q) \in Seq(T) /\ Len(Tail(q)) = Len(q) - 1 /\ Len(q) >= 1
                        /\ Head(q) \in T /\ Head(q) = q[1]
                        /\ \A i \in 1..(Len(q) - 1) : Tail(q)[i] = q[i + 1]
OBVIOUS

(* What the updates of the sender's state leave of it.                     *)
LEMMA SndUpdates ==
  ASSUME snd \in SndStates
  PROVE  /\ snd.blk \in 1..(Blocks + 1) /\ snd.mode \in Checks /\ snd.pc \in SndPcs /\ snd.try + 1 \in Nat
         /\ \A p \in SndPcs : /\ [snd EXCEPT !.pc = p] \in SndStates
                              /\ [snd EXCEPT !.pc = p].pc = p /\ [snd EXCEPT !.pc = p].blk = snd.blk
         /\ \A p \in SndPcs, t \in Nat :
              /\ [snd EXCEPT !.pc = p, !.try = t] \in SndStates
              /\ [snd EXCEPT !.pc = p, !.try = t].pc = p /\ [snd EXCEPT !.pc = p, !.try = t].blk = snd.blk
         /\ \A p \in SndPcs, c \in Checks :
              /\ [snd EXCEPT !.pc = p, !.try = 0, !.mode = c] \in SndStates
              /\ [snd EXCEPT !.pc = p, !.try = 0, !.mode = c].pc = p
              /\ [snd EXCEPT !.pc = p, !.try = 0, !.mode = c].blk = snd.blk
         /\ NoRequest \in SndStates /\ NoRequest.blk = snd.blk /\ NoRequest.pc \in {snd.pc, "error"}
<1>1. snd.pc \in SndPcs /\ snd.blk \in 1..(Blocks + 1) /\ snd.try \in Nat /\ snd.mode \in Checks
  BY DEF SndStates
<1>2. snd.try + 1 \in Nat /\ "error" \in SndPcs
  BY <1>1 DEF SndPcs
<1>3. ASSUME NEW p \in SndPcs
      PROVE  /\ [snd EXCEPT !.pc = p] \in SndStates
             /\ [snd EXCEPT !.pc = p].pc = p /\ [snd EXCEPT !.pc = p].blk = snd.blk
  BY DEF SndStates
<1>4. ASSUME NEW p \in SndPcs, NEW t \in Nat
      PROVE  /\ [snd EXCEPT !.pc = p, !.try = t] \in SndStates
             /\ [snd EXCEPT !.pc = p, !.try = t].pc = p /\ [snd EXCEPT !.pc = p, !.try = t].blk = snd.blk
  BY DEF SndStates
<1>5. ASSUME NEW p \in SndPcs, NEW c \in Checks
      PROVE  /\ [snd EXCEPT !.pc = p, !.try = 0, !.mode = c] \in SndStates
             /\ [snd EXCEPT !.pc = p, !.try = 0, !.mode = c].pc = p
             /\ [snd EXCEPT !.pc = p, !.try = 0, !.mode = c].blk = snd.blk
  BY DEF SndStates
<1>6. ASSUME NEW t \in Nat
      PROVE  /\ [snd EXCEPT !.try = t] \in SndStates
             /\ [snd EXCEPT !.try = t].blk = snd.blk /\ [snd EXCEPT !.try = t].pc = snd.pc
  BY DEF SndStates
<1>7. NoRequest \in SndStates /\ NoRequest.blk = snd.blk /\ NoRequest.pc \in {snd.pc, "error"}
  BY <1>2, <1>3, <1>6 DEF NoRequest
<1> QED BY <1>1, <1>2, <1>3, <1>4, <1>5, <1>7

(* A timeout is a fault, and spoils the turns, only if it crosses an answer*)
(* of an end that is alive.                                                *)
LEMMA Expired ==
  ASSUME Bounded, faults \in 0..MaxFaults, stale \in BOOLEAN, SndTimesOut \/ RcvTimesOut
  PROVE  /\ faults' \in 0..MaxFaults /\ stale' \in BOOLEAN
         /\ UNCHANGED <<faults, stale>> \/ (stale' = TRUE /\ faults' = faults + 1)
<1>1. \/ UNCHANGED <<faults, stale>>
      \/ faults < MaxFaults /\ faults' = faults + 1 /\ stale' = TRUE
  BY DEF SndTimesOut, RcvTimesOut, TimesOut
<1>2. CASE UNCHANGED <<faults, stale>>
  BY <1>2
<1>3. CASE faults < MaxFaults /\ faults' = faults + 1 /\ stale' = TRUE
  BY <1>3 DEF Bounded
<1> QED BY <1>1, <1>2, <1>3

(* What each action of the sender comes to.                                *)
LEMMA GetNakDoes ==
  ASSUME Bounded, Types, Phases, SndGetNak
  PROVE  Types' /\ (SndReads \/ SndExpires \/ SndWrites)
<1>0. snd.pc = "getnak" /\ UNCHANGED <<rcv, cancelled>>
  BY DEF SndGetNak, SndKeeps
<1>1. CASE snd' = [snd EXCEPT !.pc = "error"] /\ fwd' = Append(fwd, Byte("CAN")) /\ UNCHANGED <<bwd, faults, stale>>
  <2>1. snd' \in SndStates /\ snd'.pc = "error" /\ snd'.blk = snd.blk
    BY <1>1, SndUpdates DEF Types, SndPcs
  <2>2. Types'
    BY <1>0, <1>1, <2>1, Messages, Channels DEF Types
  <2> QED BY <1>0, <1>1, <2>1, <2>2 DEF SndWrites, SndDone
<1>2. CASE /\ bwd # <<>>
           /\ snd' = CASE Kind(bwd) = "NAK" -> [snd EXCEPT !.pc = "send", !.try = 0, !.mode = "checksum"]
                       [] Kind(bwd) = "C"   -> [snd EXCEPT !.pc = "send", !.try = 0, !.mode = "crc16"]
                       [] Kind(bwd) = "CAN" -> [snd EXCEPT !.pc = "error"]
                       [] OTHER             -> NoRequest
           /\ bwd' = Tail(bwd) /\ UNCHANGED <<fwd, faults, stale>>
  <2>1. /\ snd' \in SndStates
        /\ snd'.blk = snd.blk /\ snd'.pc \in {"send", "getnak", "error"}
    BY ZenonT(60), <1>0, <1>2, SndUpdates DEF Types, SndPcs, Checks
  <2>2. Types'
    BY <1>0, <1>2, <2>1, Messages, Channels DEF Types
  <2> QED BY <1>0, <1>2, <2>1, <2>2 DEF SndReads, Onward
<1>3. CASE SndTimesOut /\ snd' = NoRequest /\ UNCHANGED <<fwd, bwd>>
  <2>1. /\ snd' \in SndStates
        /\ snd'.blk = snd.blk /\ snd'.pc \in {"getnak", "error"}
    BY <1>0, <1>3, SndUpdates DEF Types
  <2>2. faults' \in 0..MaxFaults /\ stale' \in BOOLEAN
    BY <1>3, Expired DEF Types
  <2>3. Types'
    BY <1>0, <1>3, <2>1, <2>2, Messages, Channels DEF Types
  <2> QED BY <1>0, <1>3, <2>1, <2>3 DEF SndExpires, Onward
<1> QED BY <1>1, <1>2, <1>3 DEF SndGetNak

(* The top of the block loop writes, or ends the transfer.                 *)
LEMMA NextBlockDoes ==
  ASSUME Bounded, Types, Phases, SndNextBlock
  PROVE  Types' /\ SndWrites
<1>0. snd.pc = "send" /\ UNCHANGED <<rcv, cancelled, bwd, faults, stale>>
  BY DEF SndNextBlock, SndKeeps
<1>1. CASE /\ \E pc \in {"error", "failed"} : snd' = [snd EXCEPT !.pc = pc]
           /\ fwd' \in {fwd, Append(fwd, Byte("CAN"))}
  <2>1. PICK pc \in {"error", "failed"} : snd' = [snd EXCEPT !.pc = pc]
    BY <1>1
  <2>2. pc \in SndPcs /\ snd \in SndStates
    BY DEF Types, SndPcs
  <2>3. snd' \in SndStates /\ snd'.blk = snd.blk /\ snd'.pc \in {"error", "failed"}
    BY <2>1, <2>2, SndUpdates
  <2>4. fwd' \in Seq(FwdMsgs)
    <3>1. fwd \in Seq(FwdMsgs) /\ Byte("CAN") \in FwdMsgs
      BY Messages DEF Types
    <3> QED BY <1>1, <3>1, Channels
  <2>5. Types'
    BY <1>0, <2>3, <2>4 DEF Types
  <2> QED BY <1>0, <1>1, <2>3, <2>5 DEF SndWrites, SndDone
<1>2. CASE snd.blk <= Blocks /\ snd' = [snd EXCEPT !.pc = "await"] /\ fwd' = Append(fwd, Frame(snd.blk, snd.mode))
  <2>0. "await" \in SndPcs /\ snd \in SndStates
    BY DEF Types, SndPcs
  <2>1. snd' \in SndStates /\ snd'.blk = snd.blk /\ snd'.pc = "await"
    BY <1>2, <2>0, SndUpdates
  <2>2. snd.blk \in 1..Blocks /\ snd.mode \in Checks
    <3>1. snd.blk \in 1..(Blocks + 1) /\ snd.mode \in Checks
      BY <2>0, SndUpdates
    <3> QED BY <1>2, <3>1 DEF Bounded
  <2>3. Types'
    BY <1>0, <1>2, <2>1, <2>2, Messages, Channels DEF Types
  <2> QED BY <1>0, <1>2, <2>1, <2>3 DEF SndWrites
<1>3. CASE snd.blk > Blocks /\ snd' = [snd EXCEPT !.pc = "eot"] /\ UNCHANGED fwd
  <2>1. snd' \in SndStates
    BY <1>3, SndUpdates DEF Types, SndPcs
  <2>2. snd'.blk = snd.blk /\ snd'.pc = "eot" /\ snd.blk = Blocks + 1
    <3>1. snd'.blk = snd.blk /\ snd'.pc = "eot" /\ snd.blk \in 1..(Blocks + 1)
      BY <1>3, SndUpdates DEF Types, SndPcs
    <3> QED BY <1>3, <3>1 DEF Bounded
  <2>3. Types'
    BY <1>0, <1>3, <2>1, Messages, Channels DEF Types
  <2> QED BY <1>0, <1>3, <2>2, <2>3 DEF SndWrites
<1> QED BY <1>1, <1>2, <1>3 DEF SndNextBlock

(* The wait for an answer to a block reads or expires.                     *)
LEMMA AwaitAckDoes ==
  ASSUME Bounded, Types, Phases, SndAwaitAck
  PROVE  Types' /\ (SndReads \/ SndExpires)
<1>0. snd.pc = "await" /\ UNCHANGED <<rcv, cancelled>> /\ snd.blk <= Blocks
  BY DEF SndAwaitAck, SndKeeps, Phases
<1> DEFINE GivesUp == snd' = [snd EXCEPT !.pc = "failed"] /\ fwd' = Append(fwd, Byte("CAN"))
           Again   == snd' = [snd EXCEPT !.pc = "send", !.try = @ + 1] /\ UNCHANGED fwd
           Answers == bwd # <<>> /\ bwd' = Tail(bwd) /\ UNCHANGED <<faults, stale>>
           Moves   == snd' = [snd EXCEPT !.pc = "send", !.blk = @ + 1, !.try = 0] /\ UNCHANGED fwd
<1>1. \/ Answers /\ (GivesUp \/ Again)
      \/ Answers /\ Kind(bwd) = "ACK" /\ Moves
      \/ SndTimesOut /\ UNCHANGED bwd /\ (GivesUp \/ Again)
  BY DEF SndAwaitAck
<1>2. ASSUME GivesUp \/ Again
      PROVE  /\ snd' \in SndStates
             /\ snd'.blk = snd.blk /\ fwd' \in Seq(FwdMsgs)
             /\ snd'.pc \in {"failed", "send"}
             /\ fwd' = fwd \/ (snd'.pc = "failed" /\ fwd' = Append(fwd, Byte("CAN")))
  <2>0. "failed" \in SndPcs /\ "send" \in SndPcs /\ snd \in SndStates /\ fwd \in Seq(FwdMsgs)
    BY DEF Types, SndPcs
  <2>1. CASE GivesUp
    <3>1. snd' \in SndStates /\ snd'.blk = snd.blk /\ snd'.pc = "failed"
      BY <2>0, <2>1, SndUpdates
    <3> QED BY <2>0, <2>1, <3>1, Messages, Channels
  <2>2. CASE Again
    <3>1. /\ snd = [pc |-> snd.pc, blk |-> snd.blk, try |-> snd.try, mode |-> snd.mode]
          /\ snd.blk \in 1..(Blocks + 1) /\ snd.try \in Nat /\ snd.mode \in Checks
      BY <2>0 DEF SndStates
    <3>2. snd' = [pc |-> "send", blk |-> snd.blk, try |-> snd.try + 1, mode |-> snd.mode]
      BY <2>2, <3>1
    <3>3. snd.try + 1 \in Nat
      BY <3>1
    <3>4. snd' \in SndStates /\ snd'.blk = snd.blk /\ snd'.pc = "send"
      BY <2>0, <3>1, <3>2, <3>3 DEF SndStates
    <3> QED BY <2>0, <2>2, <3>4
  <2> QED BY <1>2, <2>1, <2>2
<1>3. CASE Answers /\ (GivesUp \/ Again)
  <2>1. Types'
    BY <1>0, <1>2, <1>3, Messages, Channels DEF Types
  <2> QED BY <1>0, <1>2, <1>3, <2>1 DEF SndReads, SndDone, Onward
<1>4. CASE Answers /\ Kind(bwd) = "ACK" /\ Moves
  <2>1. /\ snd' \in SndStates
        /\ snd'.blk = snd.blk + 1 /\ snd'.pc = "send"
    <3>1. /\ snd = [pc |-> snd.pc, blk |-> snd.blk, try |-> snd.try, mode |-> snd.mode]
          /\ snd.blk \in 1..(Blocks + 1) /\ snd.mode \in Checks
      BY DEF Types, SndStates
    <3>2. snd' = [pc |-> "send", blk |-> snd.blk + 1, try |-> 0, mode |-> snd.mode]
      BY <1>4, <3>1
    <3>3. snd.blk + 1 \in 1..(Blocks + 1)
      BY <1>0, <3>1 DEF Bounded
    <3> QED BY <3>1, <3>2, <3>3 DEF SndStates, SndPcs
  <2>2. Types'
    BY <1>0, <1>4, <2>1, Messages, Channels DEF Types
  <2>3. Head(bwd) \in Acks
    BY <1>4 DEF Kind, Acks, Types
  <2> QED BY <1>0, <1>4, <2>1, <2>2, <2>3 DEF SndReads, Onward
<1>5. CASE SndTimesOut /\ UNCHANGED bwd /\ (GivesUp \/ Again)
  <2>1. faults' \in 0..MaxFaults /\ stale' \in BOOLEAN
    BY <1>5, Expired DEF Types
  <2>2. Types'
    BY <1>0, <1>2, <1>5, <2>1, Messages, Channels DEF Types
  <2> QED BY <1>0, <1>2, <1>5, <2>2 DEF SndExpires, SndDone, Onward
<1> HIDE DEF GivesUp, Again, Answers, Moves
<1> QED BY <1>1, <1>3, <1>4, <1>5

(* The end of the file is written, or the transfer ends.                   *)
LEMMA EotDoes ==
  ASSUME Bounded, Types, Phases, SndEot
  PROVE  Types' /\ SndWrites
<1>0. snd.pc = "eot" /\ UNCHANGED <<rcv, cancelled, bwd, faults, stale>>
  BY DEF SndEot, SndKeeps
<1>1. \/ snd' = [snd EXCEPT !.pc = "failed"] /\ UNCHANGED fwd
      \/ snd' = [snd EXCEPT !.pc = "awaitEot"] /\ fwd' = Append(fwd, Byte("EOT"))
  BY DEF SndEot
<1>a. "failed" \in SndPcs /\ "awaitEot" \in SndPcs /\ snd \in SndStates
  BY DEF Types, SndPcs
<1>b. CASE snd' = [snd EXCEPT !.pc = "failed"] /\ UNCHANGED fwd
  <2>1. snd' \in SndStates /\ snd'.blk = snd.blk /\ snd'.pc = "failed"
    BY <1>a, <1>b, SndUpdates
  <2>2. Types'
    BY <1>0, <1>b, <2>1 DEF Types
  <2> QED BY <1>0, <1>b, <2>1, <2>2 DEF SndWrites, SndDone
<1>c. CASE snd' = [snd EXCEPT !.pc = "awaitEot"] /\ fwd' = Append(fwd, Byte("EOT"))
  <2>1. snd' \in SndStates /\ snd'.blk = snd.blk /\ snd'.pc = "awaitEot"
    BY <1>a, <1>c, SndUpdates
  <2>2. Types'
    BY <1>0, <1>c, <2>1, Messages, Channels DEF Types
  <2> QED BY <1>0, <1>c, <2>1, <2>2 DEF SndWrites
<1> QED BY <1>1, <1>b, <1>c

(* The wait for the last answer reads or expires.                          *)
LEMMA AwaitEotDoes ==
  ASSUME Bounded, Types, Phases, SndAwaitEotAck
  PROVE  Types' /\ (SndReads \/ SndExpires)
<1>0. snd.pc = "awaitEot" /\ UNCHANGED <<rcv, cancelled, fwd>>
  BY DEF SndAwaitEotAck, SndKeeps
<1>a. "failed" \in SndPcs /\ "eot" \in SndPcs /\ "completed" \in SndPcs /\ snd \in SndStates
  BY DEF Types, SndPcs
<1>b. \/ snd' = [snd EXCEPT !.pc = "completed"] \/ snd' = [snd EXCEPT !.pc = "failed"]
      \/ snd' = [snd EXCEPT !.pc = "eot", !.try = @ + 1]
  BY DEF SndAwaitEotAck
<1>1. snd' \in SndStates /\ snd'.blk = snd.blk /\ snd'.pc \in {"completed", "failed", "eot"}
  <2>1. CASE snd' = [snd EXCEPT !.pc = "completed"]
    BY <1>a, <2>1, SndUpdates
  <2>2. CASE snd' = [snd EXCEPT !.pc = "failed"]
    BY <1>a, <2>2, SndUpdates
  <2>3. CASE snd' = [snd EXCEPT !.pc = "eot", !.try = @ + 1]
    <3>1. snd.try + 1 \in Nat
      BY <1>a, SndUpdates
    <3>2. \A n \in Nat : /\ [snd EXCEPT !.pc = "eot", !.try = n] \in SndStates
                         /\ [snd EXCEPT !.pc = "eot", !.try = n].blk = snd.blk
                         /\ [snd EXCEPT !.pc = "eot", !.try = n].pc = "eot"
      BY <1>a DEF SndStates
    <3> QED BY <2>3, <3>1, <3>2
  <2> QED BY <1>b, <2>1, <2>2, <2>3
<1>2. CASE bwd # <<>> /\ bwd' = Tail(bwd) /\ UNCHANGED <<faults, stale>>
  <2>1. Types'
    BY <1>0, <1>1, <1>2, Messages, Channels DEF Types
  <2> QED BY <1>0, <1>1, <1>2, <2>1 DEF SndReads, Onward
<1>3. CASE SndTimesOut /\ UNCHANGED bwd
  <2>1. faults' \in 0..MaxFaults /\ stale' \in BOOLEAN
    BY <1>3, Expired DEF Types
  <2>2. Types'
    BY <1>0, <1>1, <1>3, <2>1, Messages, Channels DEF Types
  <2> QED BY <1>0, <1>1, <1>3, <2>2 DEF SndExpires, Onward
<1> QED BY <1>2, <1>3 DEF SndAwaitEotAck

(* Another attempt of the handshake keeps what was received.               *)
LEMMA NextAttempt ==
  ASSUME NEW r \in RcvStates
  PROVE  LET s == RcvNextAttempt(r)
         IN s \in RcvStates /\ s.pc \in {"request", "error"} /\ s.data = r.data /\ s.last = r.last
<1>0. r.try \in Nat /\ r.mode \in Nat
  BY DEF RcvStates
<1>1. r.try + 1 \in Nat /\ r.mode + 1 \in Nat /\ "request" \in RcvPcs /\ "error" \in RcvPcs
  BY <1>0 DEF RcvPcs
<1>2. /\ \A t \in Nat : LET s == [r EXCEPT !.pc = "request", !.try = t]
                       IN s \in RcvStates /\ s.pc = "request" /\ s.data = r.data /\ s.last = r.last
      /\ \A m \in Nat : LET s == [r EXCEPT !.pc = "request", !.mode = m, !.try = 0]
                       IN s \in RcvStates /\ s.pc = "request" /\ s.data = r.data /\ s.last = r.last
      /\ LET s == [r EXCEPT !.pc = "error"]
         IN s \in RcvStates /\ s.pc = "error" /\ s.data = r.data /\ s.last = r.last
  BY <1>1 DEF RcvStates
<1>3. \/ RcvNextAttempt(r) = [r EXCEPT !.pc = "request", !.try = @ + 1]
      \/ RcvNextAttempt(r) = [r EXCEPT !.pc = "request", !.mode = @ + 1, !.try = 0]
      \/ RcvNextAttempt(r) = [r EXCEPT !.pc = "error"]
  BY DEF RcvNextAttempt
<1>4. CASE RcvNextAttempt(r) = [r EXCEPT !.pc = "request", !.try = @ + 1]
  BY <1>1, <1>2, <1>4
<1>5. CASE RcvNextAttempt(r) = [r EXCEPT !.pc = "request", !.mode = @ + 1, !.try = 0]
  BY ZenonT(60), <1>1, <1>2, <1>5
<1>6. CASE RcvNextAttempt(r) = [r EXCEPT !.pc = "error"]
  BY <1>2, <1>6
<1> QED BY <1>3, <1>4, <1>5, <1>6

(* What each action of the receiver comes to.                              *)
LEMMA RequestDoes ==
  ASSUME Bounded, Types, Phases, RcvRequest
  PROVE  Types' /\ RcvWrites
<1>0. /\ rcv.pc = "request" /\ UNCHANGED <<snd, cancelled, fwd, faults, stale>>
      /\ rcv \in RcvStates /\ "error" \in RcvPcs /\ "first" \in RcvPcs
  BY DEF RcvRequest, RcvKeeps, Types, RcvPcs
<1>1. CASE rcv' = [rcv EXCEPT !.pc = "error"] /\ bwd' = Append(bwd, Byte("CAN"))
  <2>1. rcv' \in RcvStates /\ rcv'.pc = "error" /\ RcvSame
    BY <1>0, <1>1 DEF RcvStates, RcvSame
  <2>2. Types'
    BY <1>0, <1>1, <2>1, Messages, Channels DEF Types
  <2> QED BY <1>0, <1>1, <2>1, <2>2 DEF RcvWrites
<1>2. CASE /\ rcv' = [rcv EXCEPT !.pc = "first"]
           /\ \E b \in {"C", "NAK"} : bwd' = Append(bwd, Byte(b))
  <2>1. rcv' \in RcvStates /\ rcv'.pc = "first" /\ RcvSame
    BY <1>0, <1>2 DEF RcvStates, RcvSame
  <2>2. PICK b \in {"C", "NAK"} : bwd' = Append(bwd, Byte(b))
    BY <1>2
  <2>3. Byte(b) \in BwdMsgs \ Acks
    BY <2>2, Messages
  <2>4. Types'
    BY <1>0, <2>1, <2>2, <2>3, Channels DEF Types
  <2> QED BY <1>0, <2>1, <2>2, <2>3, <2>4 DEF RcvWrites
<1> QED BY <1>1, <1>2 DEF RcvRequest, InitByte

(* The top of the receive loop ends the transfer or waits for a header.    *)
LEMMA TopDoes ==
  ASSUME Bounded, Types, Phases, RcvTop
  PROVE  Types' /\ RcvWrites
<1>0. /\ rcv.pc = "top" /\ UNCHANGED <<snd, cancelled, fwd, faults, stale>>
      /\ rcv \in RcvStates /\ "error" \in RcvPcs /\ "header" \in RcvPcs /\ 0 \in Nat
  BY DEF RcvTop, RcvKeeps, Types, RcvPcs
<1>1. CASE rcv' = [rcv EXCEPT !.pc = "error"] /\ bwd' = Append(bwd, Byte("CAN"))
  <2>1. rcv' \in RcvStates /\ rcv'.pc = "error" /\ RcvSame
    BY <1>0, <1>1 DEF RcvStates, RcvSame
  <2>2. Types'
    BY <1>0, <1>1, <2>1, Messages, Channels DEF Types
  <2> QED BY <1>0, <1>1, <2>1, <2>2 DEF RcvWrites
<1>2. CASE rcv' = [rcv EXCEPT !.pc = "header", !.try = 0] /\ UNCHANGED bwd
  <2>1. rcv' \in RcvStates /\ rcv'.pc = "header" /\ RcvSame
    BY <1>0, <1>2 DEF RcvStates, RcvSame
  <2>2. Types'
    BY <1>0, <1>2, <2>1 DEF Types
  <2> QED BY <1>0, <1>2, <2>1, <2>2 DEF RcvWrites
<1> QED BY <1>1, <1>2 DEF RcvTop

(* The wait for the first block reads or expires; only block 1 is kept.    *)
LEMMA FirstDoes ==
  ASSUME Bounded, Types, Phases, RcvFirst
  PROVE  Types' /\ (RcvReads \/ RcvExpires)
<1>0. /\ rcv.pc = "first" /\ UNCHANGED <<snd, cancelled>> /\ rcv.data = <<>> /\ rcv.last = 0
      /\ rcv \in RcvStates /\ fwd \in Seq(FwdMsgs) /\ bwd \in Seq(BwdMsgs) /\ Byte("CAN") \in BwdMsgs
      /\ "error" \in RcvPcs /\ "top" \in RcvPcs
  BY Messages DEF RcvFirst, RcvKeeps, Phases, Types, RcvPcs
<1> DEFINE f == Head(fwd)
           Read == fwd # <<>> /\ fwd' = Tail(fwd) /\ UNCHANGED <<faults, stale>>
           Again(r) == /\ rcv' = RcvNextAttempt(r)
                       /\ bwd' = IF rcv'.pc = "error" /\ r.started THEN Append(bwd, Byte("CAN")) ELSE bwd
           Retries == /\ rcv' \in RcvStates /\ RcvSame /\ bwd' \in Seq(BwdMsgs)
                      /\ \/ rcv'.pc = "error" /\ bwd' \in {bwd, Append(bwd, Byte("CAN"))}
                         \/ rcv'.pc = "request" /\ bwd' = bwd
<1>1. ASSUME NEW r \in RcvStates, r.data = rcv.data, r.last = rcv.last, Again(r)
      PROVE  Retries
  <2>1. rcv' \in RcvStates /\ rcv'.pc \in {"request", "error"} /\ RcvSame
    BY <1>1, NextAttempt DEF RcvSame
  <2>2. bwd' = bwd \/ (bwd' = Append(bwd, Byte("CAN")) /\ rcv'.pc = "error")
    BY <1>1
  <2>3. bwd' \in Seq(BwdMsgs)
    BY <1>0, <2>2, Channels
  <2> QED BY <2>1, <2>2, <2>3
<1>2. CASE RcvTimesOut /\ Again(rcv) /\ UNCHANGED fwd
  <2>1. Retries
    BY <1>0, <1>1, <1>2
  <2>2. faults' \in 0..MaxFaults /\ stale' \in BOOLEAN
    BY <1>2, Expired DEF Types
  <2>3. Types'
    BY <1>0, <1>2, <2>1, <2>2 DEF Types
  <2> QED BY <1>0, <1>2, <2>1, <2>3 DEF RcvExpires, RcvDone
<1>3. CASE Read
  <2>0. f \in FwdMsgs /\ fwd' \in Seq(FwdMsgs)
    BY <1>0, <1>3, Channels
  <2>1. \/ rcv' = [rcv EXCEPT !.pc = "error"] /\ UNCHANGED bwd
        \/ Again(rcv)
        \/ Again([rcv EXCEPT !.started = TRUE])
        \/ /\ f.k \notin {"CAN", "EOT", "noise"} /\ f.num = 1
           /\ rcv' = [rcv EXCEPT !.pc = "top", !.try = 0, !.started = TRUE,
                                 !.data = <<f.data>>, !.last = f.num]
           /\ bwd' = Append(bwd, Byte("ACK"))
    BY <1>0, <1>3 DEF RcvFirst
  <2>2. CASE rcv' = [rcv EXCEPT !.pc = "error"] /\ UNCHANGED bwd
    <3>1. rcv' \in RcvStates /\ rcv'.pc = "error" /\ RcvSame
      BY <1>0, <2>2 DEF RcvStates, RcvSame
    <3>2. Types'
      BY <1>0, <1>3, <2>0, <2>2, <3>1 DEF Types
    <3> QED BY <1>0, <1>3, <2>2, <3>1, <3>2 DEF RcvReads, RcvDone
  <2>3. CASE Retries
    <3>1. Types'
      BY <1>0, <1>3, <2>0, <2>3 DEF Types
    <3> QED BY <1>0, <1>3, <2>3, <3>1 DEF RcvReads, RcvDone
  <2>4. CASE Again(rcv)
    BY <1>0, <1>1, <2>3, <2>4
  <2>5. CASE Again([rcv EXCEPT !.started = TRUE])
    <3>1. /\ [rcv EXCEPT !.started = TRUE] \in RcvStates
          /\ [rcv EXCEPT !.started = TRUE].data = rcv.data /\ [rcv EXCEPT !.started = TRUE].last = rcv.last
      BY <1>0 DEF RcvStates
    <3> QED BY <1>1, <2>3, <2>5, <3>1
  <2>6. CASE /\ f.k \notin {"CAN", "EOT", "noise"} /\ f.num = 1
             /\ rcv' = [rcv EXCEPT !.pc = "top", !.try = 0, !.started = TRUE,
                                   !.data = <<f.data>>, !.last = f.num]
             /\ bwd' = Append(bwd, Byte("ACK"))
    <3>1. f \in Frames
      BY <2>0, <2>6, Messages
    <3>2. f.num \in Nat /\ f.data \in Nat
      BY <3>1 DEF Frames
    <3>3. <<f.data>> \in Seq(Nat) /\ <<f.data>> = Append(rcv.data, f.data)
      BY <1>0, <3>2
    <3>4. /\ rcv' \in RcvStates /\ rcv'.pc = "top" /\ rcv'.data = <<f.data>> /\ rcv'.last = f.num
      BY <1>0, <2>6, <3>2, <3>3 DEF RcvStates
    <3>5. (rcv.last + 1) % SeqMod = 1
      <4>1. 1 = SeqMod * 0 + 1 /\ 1 \in 0..(SeqMod - 1) /\ SeqMod \in Nat /\ SeqMod > 0
        BY DEF Bounded
      <4>2. 1 % SeqMod = 1
        BY <4>1, Remainder
      <4> QED BY <1>0, <4>2
    <3>6. bwd' \in Seq(BwdMsgs)
      BY <1>0, <2>6, Messages, Channels
    <3>7. Types'
      BY <1>0, <1>3, <2>0, <3>4, <3>6 DEF Types
    <3> QED BY <1>0, <1>3, <2>6, <3>1, <3>3, <3>4, <3>5, <3>7 DEF RcvReads
  <2> HIDE DEF f, Again, Retries
  <2> QED BY <2>1, <2>2, <2>4, <2>5, <2>6
<1> QED BY <1>2, <1>3 DEF RcvFirst

(* The wait for a header reads or expires; only the next block is kept.    *)
LEMMA HeaderDoes ==
  ASSUME Bounded, Types, Phases, RcvHeader
  PROVE  Types' /\ (RcvReads \/ RcvExpires)
<1>0. /\ rcv.pc = "header" /\ UNCHANGED <<snd, cancelled>>
      /\ rcv \in RcvStates /\ fwd \in Seq(FwdMsgs) /\ bwd \in Seq(BwdMsgs) /\ Byte("NAK") \in BwdMsgs
      /\ Byte("ACK") \in BwdMsgs /\ {"error", "top", "completed", "failed"} \subseteq RcvPcs
  BY Messages DEF RcvHeader, RcvKeeps, Types, RcvPcs
<1> DEFINE f == Head(fwd)
           Read == fwd # <<>> /\ fwd' = Tail(fwd) /\ UNCHANGED <<faults, stale>>
<1>1. CASE RcvTimesOut /\ UNCHANGED fwd /\ rcv' = [rcv EXCEPT !.pc = "error"] /\ UNCHANGED bwd
  <2>1. rcv' \in RcvStates /\ rcv'.pc = "error" /\ RcvSame
    BY <1>0, <1>1 DEF RcvStates, RcvSame
  <2>2. faults' \in 0..MaxFaults /\ stale' \in BOOLEAN
    BY <1>1, Expired DEF Types
  <2>3. Types'
    BY <1>0, <1>1, <2>1, <2>2 DEF Types
  <2> QED BY <1>0, <1>1, <2>1, <2>3 DEF RcvExpires, RcvDone
<1>2. CASE RcvTimesOut /\ UNCHANGED fwd /\ rcv' = [rcv EXCEPT !.try = @ + 1] /\ bwd' = Append(bwd, Byte("NAK"))
  <2>1. rcv.try + 1 \in Nat
    <3>1. rcv.try \in Nat
      BY <1>0 DEF RcvStates
    <3> QED BY <3>1
  <2>2. \A t \in Nat : LET s == [rcv EXCEPT !.try = t]
                      IN s \in RcvStates /\ s.pc = "header" /\ s.data = rcv.data /\ s.last = rcv.last
    BY <1>0 DEF RcvStates
  <2>3. rcv' \in RcvStates /\ rcv'.pc = "header" /\ RcvSame
    BY <1>2, <2>1, <2>2 DEF RcvSame
  <2>4. faults' \in 0..MaxFaults /\ stale' \in BOOLEAN
    BY <1>2, Expired DEF Types
  <2>5. Types'
    BY <1>0, <1>2, <2>3, <2>4, Channels DEF Types
  <2> QED BY <1>0, <1>2, <2>3, <2>5 DEF RcvExpires
<1>3. CASE Read
  <2>0. f \in FwdMsgs /\ fwd' \in Seq(FwdMsgs)
    BY <1>0, <1>3, Channels
  <2>1. \/ rcv' = [rcv EXCEPT !.pc = "error"] /\ UNCHANGED bwd
        \/ UNCHANGED <<rcv, bwd>>
        \/ f.k = "EOT" /\ RcvEot
        \/ f.k \notin {"CAN", "EOT", "noise"} /\ RcvBlock(f)
    BY <1>0, <1>3 DEF RcvHeader, Kind
  <2>2. CASE rcv' = [rcv EXCEPT !.pc = "error"] /\ UNCHANGED bwd
    <3>1. rcv' \in RcvStates /\ rcv'.pc = "error" /\ RcvSame
      BY <1>0, <2>2 DEF RcvStates, RcvSame
    <3>2. Types'
      BY <1>0, <1>3, <2>0, <2>2, <3>1 DEF Types
    <3> QED BY <1>0, <1>3, <2>2, <3>1, <3>2 DEF RcvReads, RcvDone
  <2>3. CASE UNCHANGED <<rcv, bwd>>
    <3>1. Types'
      BY <1>0, <1>3, <2>0, <2>3 DEF Types
    <3> QED BY <1>0, <1>3, <2>3, <3>1 DEF RcvReads, RcvSame
  <2>4. CASE f.k = "EOT" /\ RcvEot
    <3>0. PICK result \in {"completed", "failed"} : rcv' = [rcv EXCEPT !.pc = result]
      BY <2>4 DEF RcvEot
    <3>1. rcv' \in RcvStates /\ rcv'.pc \in {"completed", "failed"} /\ RcvSame
      BY <1>0, <3>0 DEF RcvStates, RcvSame
    <3>2. bwd' = Append(bwd, Byte("ACK"))
      BY <2>4 DEF RcvEot
    <3>3. Types'
      BY <1>0, <1>3, <2>0, <3>1, <3>2, Channels DEF Types
    <3> QED BY <1>0, <1>3, <2>4, <3>1, <3>2, <3>3 DEF RcvReads, RcvDone
  <2>5. CASE f.k \notin {"CAN", "EOT", "noise"} /\ RcvBlock(f)
    <3>0. f \in Frames /\ f.num \in Nat /\ f.data \in Nat
      <4>1. f \in Frames
        BY <2>0, <2>5, Messages
      <4> QED BY <4>1 DEF Frames
    <3>1. \/ rcv' = [rcv EXCEPT !.pc = "error"] /\ UNCHANGED bwd
          \/ /\ rcv' = [rcv EXCEPT !.pc = "top"]
             /\ bwd' = Append(bwd, Byte("NAK")) \/ (bwd' = Append(bwd, Byte("ACK")) /\ f.num = rcv.last)
          \/ /\ rcv' = [rcv EXCEPT !.pc = "top", !.data = Append(@, f.data), !.last = f.num]
             /\ bwd' = Append(bwd, Byte("ACK")) /\ InSequence(f)
      BY <2>5 DEF RcvBlock
    <3>2. CASE rcv' = [rcv EXCEPT !.pc = "top"]
      <4>1. rcv' \in RcvStates /\ rcv'.pc = "top" /\ RcvSame /\ rcv'.pc # "error"
        BY <1>0, <3>2 DEF RcvStates, RcvSame
      <4>2. bwd' = Append(bwd, Byte("NAK")) \/ (bwd' = Append(bwd, Byte("ACK")) /\ f.num = rcv.last)
        <5>1. CASE rcv' = [rcv EXCEPT !.pc = "error"]
          BY <1>0, <4>1, <5>1 DEF RcvStates
        <5>2. CASE rcv' = [rcv EXCEPT !.pc = "top", !.data = Append(@, f.data), !.last = f.num]
          <6>1. rcv.data \in Seq(Nat) /\ rcv'.data = Append(rcv.data, f.data)
            BY <1>0, <5>2 DEF RcvStates
          <6>2. Append(rcv.data, f.data) # rcv.data
            <7>1. Len(Append(rcv.data, f.data)) = Len(rcv.data) + 1 /\ Len(rcv.data) \in Nat
              BY <3>0, <6>1, Channels
            <7> QED BY <7>1
          <6> QED BY <4>1, <6>1, <6>2 DEF RcvSame
        <5> QED BY <3>1, <5>1, <5>2
      <4>3. bwd' \in Seq(BwdMsgs)
        BY SMTT(30), <1>0, <4>2, Channels
      <4>4. Types'
        BY <1>0, <1>3, <2>0, <4>1, <4>3 DEF Types
      <4> QED BY <1>0, <1>3, <3>0, <4>1, <4>2, <4>4 DEF RcvReads
    <3>3. CASE /\ rcv' = [rcv EXCEPT !.pc = "top", !.data = Append(@, f.data), !.last = f.num]
               /\ bwd' = Append(bwd, Byte("ACK")) /\ InSequence(f)
      <4>0. rcv.data \in Seq(Nat) /\ Append(rcv.data, f.data) \in Seq(Nat)
        <5>1. rcv.data \in Seq(Nat)
          BY <1>0 DEF RcvStates
        <5> QED BY <3>0, <5>1
      <4>1. \A s \in Seq(Nat), n \in Nat : LET r == [rcv EXCEPT !.pc = "top", !.data = s, !.last = n]
                                          IN r \in RcvStates /\ r.pc = "top" /\ r.data = s /\ r.last = n
        BY <1>0 DEF RcvStates
      <4>2. /\ rcv' \in RcvStates /\ rcv'.pc = "top" /\ rcv'.last = f.num
            /\ rcv'.data = Append(rcv.data, f.data)
        BY ZenonT(60), <3>0, <3>3, <4>0, <4>1
      <4>3. bwd' \in Seq(BwdMsgs)
        BY <1>0, <3>3, Channels
      <4>4. Types'
        BY <1>0, <1>3, <2>0, <4>2, <4>3 DEF Types
      <4> QED BY <1>0, <1>3, <3>0, <3>3, <4>2, <4>4 DEF RcvReads, InSequence
    <3> QED BY <2>2, <3>1, <3>2, <3>3
  <2> HIDE DEF f
  <2> QED BY <2>1, <2>2, <2>3, <2>4, <2>5
<1> QED BY <1>1, <1>2, <1>3 DEF RcvHeader

(* A fault takes the next message of one direction or damages it: what was *)
(* a block stays one, with its number, and nothing turns into an ACK.      *)
Spoils(q) ==
  \/ q' = Tail(q)
  \/ /\ Len(q') = Len(q) /\ Tail(q') = Tail(q) /\ q'[1].k # "EOT"
     /\ q'[1] \notin Acks /\ (Head(q) \notin Frames => q'[1] \notin Frames)
     /\ Head(q) \in Frames => /\ q'[1] \in Frames
                              /\ q'[1].num = Head(q).num /\ q'[1].data = Head(q).data

FaultOn(q, S) == q # <<>> /\ q' \in Seq(S) /\ Spoils(q)

(* A fault of the line spoils one direction and is counted.                *)
LEMMA FaultDoes ==
  ASSUME Bounded, Types, LineFault
  PROVE  /\ Types' /\ UNCHANGED <<snd, rcv, stale>> /\ faults' = faults + 1
         /\ \/ FaultOn(fwd, FwdMsgs) /\ bwd' = bwd
            \/ FaultOn(bwd, BwdMsgs) /\ fwd' = fwd
<1>0. /\ UNCHANGED <<snd, rcv, cancelled, stale>> /\ fwd \in Seq(FwdMsgs) /\ bwd \in Seq(BwdMsgs)
      /\ faults < MaxFaults /\ faults' = faults + 1 /\ faults' \in 0..MaxFaults
  BY DEF LineFault, Lose, Damage, Types, Bounded
<1>1. ASSUME (FaultOn(fwd, FwdMsgs) /\ bwd' = bwd) \/ (FaultOn(bwd, BwdMsgs) /\ fwd' = fwd)
      PROVE  Types'
  BY <1>0, <1>1 DEF Types, FaultOn
<1>2. CASE Lose
  <2>1. \/ fwd # <<>> /\ fwd' = Tail(fwd) /\ UNCHANGED bwd
        \/ bwd # <<>> /\ bwd' = Tail(bwd) /\ UNCHANGED fwd
    BY <1>2 DEF Lose
  <2>2. CASE fwd # <<>> /\ fwd' = Tail(fwd) /\ UNCHANGED bwd
    <3>1. FaultOn(fwd, FwdMsgs)
      BY <1>0, <2>2, Channels DEF FaultOn, Spoils
    <3> QED BY <1>0, <1>1, <2>2, <3>1
  <2>3. CASE bwd # <<>> /\ bwd' = Tail(bwd) /\ UNCHANGED fwd
    <3>1. FaultOn(bwd, BwdMsgs)
      BY <1>0, <2>3, Channels DEF FaultOn, Spoils
    <3> QED BY <1>0, <1>1, <2>3, <3>1
  <2> QED BY <2>1, <2>2, <2>3
<1>3. CASE Damage
  <2>1. CASE fwd # <<>> /\ UNCHANGED bwd /\ \E m \in Damaged(Head(fwd)) : fwd' = <<m>> \o Tail(fwd)
    <3>1. PICK m \in Damaged(Head(fwd)) : fwd' = <<m>> \o Tail(fwd)
      BY <2>1
    <3>2. Head(fwd) \in FwdMsgs
      BY <1>0, <2>1, Channels
    <3>3. CASE Head(fwd) \in Frames
      <4>1. "data" \in DOMAIN Head(fwd)
        BY <3>3 DEF Frames
      <4>2. m = [Head(fwd) EXCEPT !.ok = "bad"] \/ m = [Head(fwd) EXCEPT !.ok = "cut"]
        BY <3>1, <4>1 DEF Damaged
      <4>3. m \in Frames /\ m.num = Head(fwd).num /\ m.data = Head(fwd).data /\ m.k = "frame"
        BY <3>3, <4>2 DEF Frames
      <4>4. m \in FwdMsgs /\ m \notin Acks
        BY <4>3 DEF FwdMsgs, Acks
      <4>5. /\ fwd' \in Seq(FwdMsgs) /\ Len(fwd') = Len(fwd) /\ Tail(fwd') = Tail(fwd) /\ fwd'[1] = m
        BY <1>0, <2>1, <3>1, <4>4
      <4>6. FaultOn(fwd, FwdMsgs)
        BY <2>1, <3>3, <4>3, <4>4, <4>5 DEF FaultOn, Spoils
      <4> QED BY <1>0, <1>1, <2>1, <4>6
    <3>4. CASE Head(fwd) \notin Frames
      <4>1. "data" \notin DOMAIN Head(fwd)
        BY <3>2, <3>4 DEF FwdMsgs
      <4>2. m = Byte("noise")
        BY <3>1, <4>1 DEF Damaged
      <4>3. m \in FwdMsgs /\ m \notin Frames /\ m \notin Acks /\ m.k # "EOT"
        BY <4>2, Messages
      <4>4. /\ fwd' \in Seq(FwdMsgs) /\ Len(fwd') = Len(fwd) /\ Tail(fwd') = Tail(fwd) /\ fwd'[1] = m
        BY <1>0, <2>1, <3>1, <4>3
      <4>5. FaultOn(fwd, FwdMsgs)
        BY <2>1, <3>4, <4>3, <4>4 DEF FaultOn, Spoils
      <4> QED BY <1>0, <1>1, <2>1, <4>5
    <3> QED BY <3>3, <3>4
  <2>2. CASE bwd # <<>> /\ UNCHANGED fwd /\ \E m \in Damaged(Head(bwd)) : bwd' = <<m>> \o Tail(bwd)
    <3>1. PICK m \in Damaged(Head(bwd)) : bwd' = <<m>> \o Tail(bwd)
      BY <2>2
    <3>2. Head(bwd) \in BwdMsgs
      BY <1>0, <2>2, Channels
    <3>3. "data" \notin DOMAIN Head(bwd) /\ Head(bwd) \notin Frames
      BY <3>2 DEF BwdMsgs, Frames
    <3>4. m = Byte("noise")
      BY <3>1, <3>3 DEF Damaged
    <3>5. m \in BwdMsgs /\ m \notin Frames /\ m \notin Acks /\ m.k # "EOT"
      BY <3>4, Messages
    <3>6. /\ bwd' \in Seq(BwdMsgs) /\ Len(bwd') = Len(bwd) /\ Tail(bwd') = Tail(bwd) /\ bwd'[1] = m
      BY <1>0, <2>2, <3>1, <3>5
    <3>7. FaultOn(bwd, BwdMsgs)
      BY <2>2, <3>3, <3>5, <3>6 DEF FaultOn, Spoils
    <3> QED BY <1>0, <1>1, <2>2, <3>7
  <2> QED BY <1>3, <2>1, <2>2 DEF Damage
<1> QED BY <1>2, <1>3 DEF LineFault

(* Which of them a step is.                                                *)
LEMMA StepDoes ==
  ASSUME Bounded, Types, Phases, [Next]_xvars
  PROVE  /\ Types'
         /\ \/ SndReads \/ SndExpires \/ SndWrites \/ RcvReads \/ RcvExpires \/ RcvWrites
            \/ LineFault \/ UNCHANGED <<snd, rcv, fwd, bwd, faults, stale>>
<1>1. CASE SndStep
  BY <1>1, GetNakDoes, NextBlockDoes, AwaitAckDoes, EotDoes, AwaitEotDoes DEF SndStep
<1>2. CASE RcvStep
  BY <1>2, RequestDoes, FirstDoes, TopDoes, HeaderDoes DEF RcvStep
<1>3. CASE LineFault
  BY <1>3, FaultDoes
<1>4. CASE UNCHANGED <<snd, rcv, fwd, bwd, faults, stale>>
  BY <1>4 DEF Types
<1>5. CASE \E side \in {"snd", "rcv"} : Cancel(side)
  BY <1>4, <1>5 DEF Cancel
<1>6. CASE UNCHANGED xvars
  BY <1>4, <1>6 DEF xvars
<1> QED BY <1>1, <1>2, <1>3, <1>5, <1>6 DEF Next

------------------------------------------------------------------------------
(* The steps keep the invariant *)

(* The fields of the state that the steps below speak of.                  *)
LEMMA Fields ==
  ASSUME Bounded, Types
  PROVE  /\ snd.pc \in SndPcs /\ snd.blk \in Nat /\ 1 <= snd.blk /\ snd.blk <= Blocks + 1
         /\ snd.mode \in Checks /\ rcv.pc \in RcvPcs /\ rcv.data \in Seq(Nat) /\ Kept \in Nat
         /\ rcv.last \in Nat /\ fwd \in Seq(FwdMsgs) /\ bwd \in Seq(BwdMsgs)
         /\ Len(fwd) \in Nat /\ Len(bwd) \in Nat /\ Slack \in Nat /\ Slack <= MaxFaults
         /\ faults \in Nat /\ faults <= MaxFaults /\ stale \in BOOLEAN
         /\ Blocks \in Nat /\ MaxFaults \in Nat /\ SeqMod \in Nat /\ SeqMod > MaxFaults + 1
<1>1. snd.pc \in SndPcs /\ snd.blk \in 1..(Blocks + 1) /\ snd.mode \in Checks
  BY DEF Types, SndStates
<1>2. rcv.pc \in RcvPcs /\ rcv.data \in Seq(Nat) /\ rcv.last \in Nat
  BY DEF Types, RcvStates
<1>3. Kept \in Nat
  BY <1>2 DEF Kept
<1>4. /\ fwd \in Seq(FwdMsgs) /\ bwd \in Seq(BwdMsgs) /\ faults \in 0..MaxFaults /\ stale \in BOOLEAN
      /\ Len(fwd) \in Nat /\ Len(bwd) \in Nat
  BY Channels DEF Types
<1>5. faults \in Nat /\ faults <= MaxFaults
  BY <1>4 DEF Bounded
<1> QED BY <1>1, <1>2, <1>3, <1>4, <1>5 DEF Bounded, Slack

(* What a fault leaves in its direction: one message less, or the same     *)
(* number, none of it new but what the fault made.                         *)
LEMMA Spoilt ==
  ASSUME Bounded, NEW S, NEW q \in Seq(S), q # <<>>, NEW r \in Seq(S),
         \/ r = Tail(q)
         \/ /\ Len(r) = Len(q) /\ Tail(r) = Tail(q) /\ r[1].k # "EOT"
            /\ r[1] \notin Acks /\ (Head(q) \notin Frames => r[1] \notin Frames)
            /\ Head(q) \in Frames => /\ r[1] \in Frames
                                     /\ r[1].num = Head(q).num /\ r[1].data = Head(q).data
  PROVE  /\ Len(r) \in Nat /\ Len(r) <= Len(q)
         /\ Count(r, Acks) <= Count(q, Acks) /\ \A b \in Nat : Count(r, Below(b)) <= Count(q, Below(b))
         /\ \E k \in {0, 1} : \A i \in 1..Len(r) :
              /\ i + k \in 1..Len(q)
              /\ r[i].k = "EOT" => q[i + k].k = "EOT"
              /\ r[i] \in Frames => /\ q[i + k] \in Frames
                                    /\ r[i].num = q[i + k].num /\ r[i].data = q[i + k].data
<1>0. /\ Len(q) \in Nat /\ Len(q) >= 1 /\ Head(q) = q[1] /\ Tail(q) \in Seq(S) /\ Len(Tail(q)) = Len(q) - 1
      /\ \A i \in 1..(Len(q) - 1) : Tail(q)[i] = q[i + 1]
  BY Channels
<1>1. /\ Count(q, Acks) = Count(Tail(q), Acks) + (IF Head(q) \in Acks THEN 1 ELSE 0)
      /\ \A b \in Nat : Count(q, Below(b)) = Count(Tail(q), Below(b)) + (IF Head(q) \in Below(b) THEN 1 ELSE 0)
      /\ Count(Tail(q), Acks) \in Nat /\ \A b \in Nat : Count(Tail(q), Below(b)) \in Nat
  BY <1>0, CountTail, CountType
<1>2. CASE r = Tail(q)
  <2>1. Len(r) \in Nat /\ Len(r) <= Len(q)
    BY <1>0, <1>2
  <2>2. Count(r, Acks) <= Count(q, Acks)
    <3>1. /\ Count(q, Acks) = Count(r, Acks) + (IF Head(q) \in Acks THEN 1 ELSE 0)
          /\ Count(r, Acks) \in Nat
      BY <1>1, <1>2
    <3> QED BY <3>1
  <2>4. ASSUME NEW b \in Nat PROVE Count(r, Below(b)) <= Count(q, Below(b))
    <3>1. /\ Count(q, Below(b)) = Count(r, Below(b)) + (IF Head(q) \in Below(b) THEN 1 ELSE 0)
          /\ Count(r, Below(b)) \in Nat
      BY <1>1, <1>2
    <3> QED BY <3>1
  <2>3. \A i \in 1..Len(r) : i + 1 \in 1..Len(q) /\ r[i] = q[i + 1]
    BY <1>0, <1>2
  <2> QED BY <2>1, <2>2, <2>3, <2>4
<1>3. CASE /\ Len(r) = Len(q) /\ Tail(r) = Tail(q) /\ r[1].k # "EOT"
           /\ r[1] \notin Acks /\ (Head(q) \notin Frames => r[1] \notin Frames)
           /\ Head(q) \in Frames => /\ r[1] \in Frames
                                    /\ r[1].num = Head(q).num /\ r[1].data = Head(q).data
  <2>0. /\ r # <<>> /\ Head(r) = r[1] /\ \A i \in 1..(Len(r) - 1) : Tail(r)[i] = r[i + 1]
    <3>1. r # <<>>
      BY <1>0, <1>3
    <3> QED BY <3>1, Channels
  <2>1. /\ Count(r, Acks) = Count(Tail(r), Acks) + (IF r[1] \in Acks THEN 1 ELSE 0)
        /\ \A b \in Nat : Count(r, Below(b)) = Count(Tail(r), Below(b)) + (IF r[1] \in Below(b) THEN 1 ELSE 0)
    BY <2>0, CountTail
  <2>2. Count(r, Acks) <= Count(q, Acks)
    <3>1. /\ Count(r, Acks) = Count(Tail(q), Acks)
          /\ Count(q, Acks) = Count(Tail(q), Acks) + (IF Head(q) \in Acks THEN 1 ELSE 0)
          /\ Count(Tail(q), Acks) \in Nat
      <4>1. Count(r, Acks) = Count(Tail(q), Acks) + 0 /\ Count(Tail(q), Acks) \in Nat
        BY <1>1, <1>3, <2>1
      <4> QED BY <1>1, <4>1
    <3> QED BY <3>1
  <2>3. ASSUME NEW b \in Nat PROVE Count(r, Below(b)) <= Count(q, Below(b))
    <3>1. r[1] \in Below(b) => Head(q) \in Below(b)
      BY <1>3 DEF Below
    <3>2. /\ Count(r, Below(b)) = Count(Tail(q), Below(b)) + (IF r[1] \in Below(b) THEN 1 ELSE 0)
          /\ Count(q, Below(b)) = Count(Tail(q), Below(b)) + (IF Head(q) \in Below(b) THEN 1 ELSE 0)
          /\ Count(Tail(q), Below(b)) \in Nat
      BY <1>1, <1>3, <2>1
    <3> QED BY <3>1, <3>2
  <2>4. \A i \in 1..Len(r) : i # 1 => r[i] = q[i]
    <3>1. SUFFICES ASSUME NEW i \in 1..Len(r), i # 1 PROVE r[i] = q[i]
      OBVIOUS
    <3>2. i - 1 \in 1..(Len(r) - 1) /\ (i - 1) + 1 = i
      BY <1>0, <1>3, <3>1
    <3>3. Tail(r)[i - 1] = r[i] /\ Tail(q)[i - 1] = q[i]
      BY <1>0, <1>3, <2>0, <3>2
    <3> QED BY <1>3, <3>3
  <2>5. \A i \in 1..Len(r) :
          /\ i + 0 \in 1..Len(q) /\ i + 0 = i
          /\ r[i].k = "EOT" => q[i + 0].k = "EOT"
          /\ r[i] \in Frames => /\ q[i + 0] \in Frames
                                /\ r[i].num = q[i + 0].num /\ r[i].data = q[i + 0].data
    BY <1>0, <1>3, <2>4
  <2> QED BY <1>0, <1>3, <2>2, <2>3, <2>5
<1> QED BY <1>2, <1>3

(* A block that bears the number of the last one kept is that one, and one *)
(* that bears the next number is the next one.                             *)
LEMMA HeadNumber ==
  ASSUME Bounded, Types, InOrder, InFlight, Lead, ~RcvDone, fwd # <<>>, Head(fwd) \in Frames
  PROVE  /\ Kept <= Head(fwd).data /\ Head(fwd).data <= snd.blk /\ Head(fwd).data \in 1..Blocks
         /\ Head(fwd).num = Head(fwd).data % SeqMod
         /\ Head(fwd).num = rcv.last => Head(fwd).data = Kept
         /\ Head(fwd).num = (rcv.last + 1) % SeqMod => Head(fwd).data = Kept + 1
<1> DEFINE d == Head(fwd).data
<1>1. /\ Kept \in Nat /\ snd.blk \in Nat /\ Slack \in Nat /\ Slack <= MaxFaults /\ MaxFaults \in Nat
      /\ SeqMod \in Nat /\ SeqMod > MaxFaults + 1 /\ fwd \in Seq(FwdMsgs) /\ bwd \in Seq(BwdMsgs)
  BY Fields
<1>2. d \in 1..Blocks
  BY DEF Frames
<1>3. Head(fwd) = fwd[1] /\ Len(fwd) \in Nat /\ Len(fwd) >= 1
  BY <1>1, Channels
<1>4. Head(fwd).num = d % SeqMod /\ Kept <= d /\ d <= snd.blk
  BY <1>3 DEF InFlight
<1>5. snd.blk + Count(bwd, Acks) + Count(fwd, Below(Kept + 1)) <= Slack + (Kept + 1)
  <2>1. Kept + 1 \in (Kept + 1)..(snd.blk + 1)
    BY <1>1 DEF InOrder
  <2> QED BY <2>1 DEF Lead
<1>6. Count(bwd, Acks) \in Nat /\ Count(fwd, Below(Kept + 1)) \in Nat
  BY <1>1, CountType
<1>7. d < Kept + SeqMod /\ d \in Nat
  BY SMTT(30), <1>1, <1>2, <1>4, <1>5, <1>6 DEF Bounded
<1>8. rcv.last = Kept % SeqMod
  BY DEF InOrder
<1>0. SeqMod > 0 /\ SeqMod > 1 /\ Kept \in Nat /\ Kept + 1 \in Nat
  BY <1>1
<1> DEFINE n == Kept
<1>m. n \in Nat /\ n + 1 \in Nat /\ SeqMod \in Nat /\ SeqMod > 0 /\ SeqMod > 1 /\ d \in Nat
  BY <1>0, <1>1, <1>7
<1>s. /\ (n <= d /\ d < n + SeqMod /\ n % SeqMod = d % SeqMod) => n = d
      /\ (n + 1 <= d /\ d < (n + 1) + SeqMod /\ (n + 1) % SeqMod = d % SeqMod) => n + 1 = d
      /\ (n <= n + 1 /\ n + 1 < n + SeqMod /\ n % SeqMod = (n + 1) % SeqMod) => n = n + 1
      /\ ((n % SeqMod) + 1) % SeqMod = (n + 1) % SeqMod
  <2> HIDE DEF d, n
  <2>1. (n <= d /\ d < n + SeqMod /\ n % SeqMod = d % SeqMod) => n = d
    BY <1>m, SameNumber
  <2>2. (n + 1 <= d /\ d < (n + 1) + SeqMod /\ (n + 1) % SeqMod = d % SeqMod) => n + 1 = d
    BY <1>m, SameNumber
  <2>3. (n <= n + 1 /\ n + 1 < n + SeqMod /\ n % SeqMod = (n + 1) % SeqMod) => n = n + 1
    BY <1>m, SameNumber
  <2>4. ((n % SeqMod) + 1) % SeqMod = (n + 1) % SeqMod
    BY <1>m, NextNumber
  <2> QED BY <2>1, <2>2, <2>3, <2>4
<1>n. n = Kept
  OBVIOUS
<1> HIDE DEF d, n
<1>p. /\ n \in Nat /\ n <= d /\ d < n + SeqMod /\ rcv.last = n % SeqMod
      /\ Head(fwd).num = d % SeqMod
  BY <1>4, <1>7, <1>8, <1>m, <1>n DEF d
<1>9. Head(fwd).num = rcv.last => d = n
  BY <1>p, <1>s
<1>10. ASSUME Head(fwd).num = (rcv.last + 1) % SeqMod PROVE d = n + 1
  <2>1. d % SeqMod = (n + 1) % SeqMod
    BY <1>p, <1>s, <1>10
  <2>2. CASE d = n
    <3>1. n <= n + 1 /\ n + 1 < n + SeqMod
      BY <1>m
    <3>2. n = n + 1
      BY <1>s, <2>1, <2>2, <3>1
    <3> QED BY <1>m, <3>2
  <2>3. CASE d # n
    <3>1. n + 1 <= d /\ d < (n + 1) + SeqMod
      BY <1>m, <1>p, <2>3
    <3> QED BY <1>s, <2>1, <3>1
  <2> QED BY <2>2, <2>3
<1> QED BY <1>2, <1>4, <1>9, <1>10, <1>n DEF d

(* The same fields after a step.                                           *)
LEMMA FieldsNext ==
  ASSUME Bounded, Types'
  PROVE  /\ snd'.blk \in Nat /\ 1 <= snd'.blk /\ snd'.blk <= Blocks + 1 /\ snd'.pc \in SndPcs
         /\ rcv'.pc \in RcvPcs /\ rcv'.data \in Seq(Nat) /\ rcv'.last \in Nat /\ Kept' \in Nat
         /\ fwd' \in Seq(FwdMsgs) /\ bwd' \in Seq(BwdMsgs) /\ Len(fwd') \in Nat /\ Len(bwd') \in Nat
         /\ faults' \in Nat /\ stale' \in BOOLEAN
<1>1. snd'.pc \in SndPcs /\ snd'.blk \in 1..(Blocks + 1)
  BY DEF Types, SndStates
<1>2. rcv'.pc \in RcvPcs /\ rcv'.data \in Seq(Nat) /\ rcv'.last \in Nat
  BY DEF Types, RcvStates
<1>3. Kept' \in Nat
  BY <1>2 DEF Kept
<1>4. /\ fwd' \in Seq(FwdMsgs) /\ bwd' \in Seq(BwdMsgs) /\ faults' \in 0..MaxFaults /\ stale' \in BOOLEAN
      /\ Len(fwd') \in Nat /\ Len(bwd') \in Nat
  BY Channels DEF Types
<1> QED BY <1>1, <1>2, <1>3, <1>4 DEF Bounded

(* What comes towards the receiver: no more than before, each message from *)
(* one that was there, or one message more.                                *)
From(q, r, k) ==
  \A i \in 1..Len(r) :
    /\ i + k \in 1..Len(q)
    /\ r[i].k = "EOT" => q[i + k].k = "EOT"
    /\ r[i] \in Frames => /\ q[i + k] \in Frames
                          /\ r[i].num = q[i + k].num /\ r[i].data = q[i + k].data

NewMsg(m) ==
  /\ m \in FwdMsgs /\ fwd' = Append(fwd, m)
  /\ m.k = "EOT" => snd.blk = Blocks + 1
  /\ m \in Frames => /\ m.data = snd.blk /\ m.num = snd.blk % SeqMod
                     /\ snd.pc = "send" /\ rcv' = rcv

(* What a step does to the direction that carries the blocks; the sender   *)
(* never goes back.                                                        *)
LEMMA ForwardDoes ==
  ASSUME Bounded, Types, Phases, [Next]_xvars
  PROVE  /\ snd'.blk \in Nat /\ snd.blk <= snd'.blk
         /\ (\E k \in {0, 1} : From(fwd, fwd', k)) \/ (\E m \in FwdMsgs : NewMsg(m))
<1>a. /\ fwd \in Seq(FwdMsgs) /\ Len(fwd) \in Nat /\ snd.blk \in Nat /\ Blocks \in Nat
      /\ snd.pc \in SndPcs /\ snd.mode \in Checks /\ 1 <= snd.blk
  BY Fields
<1>1. ASSUME fwd' = fwd PROVE \E k \in {0, 1} : From(fwd, fwd', k)
  <2>1. From(fwd, fwd', 0)
    BY <1>a, <1>1 DEF From
  <2> QED BY <2>1
<1>k. CASE fwd' = fwd /\ snd'.blk = snd.blk
  BY <1>a, <1>1, <1>k
<1>2. ASSUME fwd' = Append(fwd, Byte("CAN")) PROVE \E m \in FwdMsgs : NewMsg(m)
  <2>1. NewMsg(Byte("CAN")) /\ Byte("CAN") \in FwdMsgs
    BY <1>2, Messages DEF NewMsg
  <2> QED BY <2>1
<1>3. CASE SndReads
  <2>1. fwd' = fwd \/ fwd' = Append(fwd, Byte("CAN"))
    BY <1>3 DEF SndReads
  <2>2. snd'.blk = snd.blk \/ snd'.blk = snd.blk + 1
    BY <1>3 DEF SndReads
  <2> QED BY <1>a, <1>1, <1>2, <2>1, <2>2
<1>4. CASE SndExpires
  <2>1. fwd' = fwd \/ fwd' = Append(fwd, Byte("CAN"))
    BY <1>4 DEF SndExpires
  <2>2. snd'.blk = snd.blk
    BY <1>4 DEF SndExpires
  <2> QED BY <1>a, <1>1, <1>2, <2>1, <2>2
<1>5. CASE SndWrites
  <2>1. snd'.blk = snd.blk /\ rcv' = rcv
    BY <1>5 DEF SndWrites
  <2>2. CASE snd.pc = "eot" /\ fwd' = Append(fwd, Byte("EOT"))
    <3>1. NewMsg(Byte("EOT")) /\ Byte("EOT") \in FwdMsgs
      BY <2>2, Messages DEF NewMsg, Phases
    <3> QED BY <1>a, <2>1, <3>1
  <2>3. CASE snd.pc = "send" /\ snd.blk <= Blocks /\ fwd' = Append(fwd, Frame(snd.blk, snd.mode))
    <3>1. snd.blk \in 1..Blocks
      BY <1>a, <2>3
    <3>2. NewMsg(Frame(snd.blk, snd.mode)) /\ Frame(snd.blk, snd.mode) \in FwdMsgs
      BY <1>a, <2>1, <2>3, <3>1, Messages DEF NewMsg
    <3> QED BY <1>a, <2>1, <3>2
  <2> QED BY <1>a, <1>1, <1>2, <1>5, <2>1, <2>2, <2>3 DEF SndWrites
<1>6. CASE RcvReads
  <2>0. fwd # <<>> /\ fwd' = Tail(fwd) /\ snd' = snd
    BY <1>6 DEF RcvReads
  <2>1. From(fwd, fwd', 1)
    BY <1>a, <2>0, Channels DEF From
  <2> QED BY <1>a, <2>0, <2>1
<1>7. CASE RcvExpires
  BY <1>7, <1>k DEF RcvExpires
<1>8. CASE RcvWrites
  BY <1>8, <1>k DEF RcvWrites
<1>9. CASE LineFault
  <2>1. UNCHANGED <<snd, rcv, stale>> /\ ((FaultOn(fwd, FwdMsgs) /\ bwd' = bwd) \/ fwd' = fwd)
    BY <1>9, FaultDoes
  <2>2. CASE FaultOn(fwd, FwdMsgs)
    <3>1. \E k \in {0, 1} : From(fwd, fwd', k)
      <4>1. fwd # <<>> /\ fwd' \in Seq(FwdMsgs) /\ Spoils(fwd)
        BY <2>2 DEF FaultOn
      <4>2. \E k \in {0, 1} : \A i \in 1..Len(fwd') :
              /\ i + k \in 1..Len(fwd)
              /\ fwd'[i].k = "EOT" => fwd[i + k].k = "EOT"
              /\ fwd'[i] \in Frames => /\ fwd[i + k] \in Frames
                                       /\ fwd'[i].num = fwd[i + k].num /\ fwd'[i].data = fwd[i + k].data
        BY <1>a, <4>1, Spoilt DEF Spoils
      <4> QED BY <4>2 DEF From
    <3> QED BY <1>a, <2>1, <3>1
  <2> QED BY <1>k, <2>1, <2>2
<1>10. CASE UNCHANGED <<snd, rcv, fwd, bwd, faults, stale>>
  BY <1>10, <1>k
<1> QED BY <1>3, <1>4, <1>5, <1>6, <1>7, <1>8, <1>9, <1>10, StepDoes

(* Every step keeps the ends where their threads stand.                    *)
LEMMA PhasesStep ==
  ASSUME Bounded, Types, Phases, [Next]_xvars
  PROVE  Phases'
<1>a. /\ snd.pc \in SndPcs /\ snd.blk \in Nat /\ snd.blk <= Blocks + 1 /\ Blocks \in Nat
      /\ fwd \in Seq(FwdMsgs) /\ Len(fwd) \in Nat /\ rcv.data \in Seq(Nat) /\ Kept \in Nat
  BY Fields
<1>b. /\ snd'.blk \in Nat /\ snd'.blk <= Blocks + 1 /\ rcv'.data \in Seq(Nat) /\ Kept' \in Nat
      /\ fwd' \in Seq(FwdMsgs) /\ Len(fwd') \in Nat
  BY StepDoes, FieldsNext
<1>c. /\ snd.blk <= snd'.blk
      /\ (\E k \in {0, 1} : From(fwd, fwd', k)) \/ (\E m \in FwdMsgs : NewMsg(m))
  BY ForwardDoes
<1>d. \/ SndReads \/ SndExpires \/ SndWrites \/ RcvReads \/ RcvExpires \/ RcvWrites
      \/ UNCHANGED <<snd, rcv>>
  BY StepDoes, FaultDoes
<1>1. snd'.pc = "await" => snd'.blk <= Blocks
  <2>1. CASE snd' = snd
    BY <2>1 DEF Phases
  <2>2. CASE SndReads \/ SndExpires
    BY <2>2 DEF SndReads, SndExpires, Onward
  <2>3. CASE SndWrites
    BY <2>3 DEF SndWrites
  <2> QED BY <1>d, <2>1, <2>2, <2>3 DEF RcvReads, RcvExpires, RcvWrites
<1>2. snd'.pc \in {"eot", "awaitEot", "completed"} => snd'.blk = Blocks + 1
  <2>1. CASE snd' = snd
    BY <2>1 DEF Phases
  <2>2. CASE SndReads \/ SndExpires
    BY <2>2 DEF SndReads, SndExpires, Onward, Phases
  <2>3. CASE SndWrites
    BY <2>3 DEF SndWrites, Phases
  <2> QED BY <1>d, <2>1, <2>2, <2>3 DEF RcvReads, RcvExpires, RcvWrites
<1>3. \A i \in 1..Len(fwd') : fwd'[i].k = "EOT" => snd'.blk = Blocks + 1
  <2>1. SUFFICES ASSUME NEW i \in 1..Len(fwd'), fwd'[i].k = "EOT" PROVE snd.blk = Blocks + 1
    BY <1>a, <1>b, <1>c
  <2>2. ASSUME NEW k \in {0, 1}, From(fwd, fwd', k) PROVE snd.blk = Blocks + 1
    <3>1. i + k \in 1..Len(fwd) /\ fwd[i + k].k = "EOT"
      BY <2>1, <2>2 DEF From
    <3> QED BY <3>1 DEF Phases
  <2>3. ASSUME NEW m \in FwdMsgs, NewMsg(m) PROVE snd.blk = Blocks + 1
    <3>1. CASE i \in 1..Len(fwd)
      <4>1. fwd'[i] = fwd[i]
        BY <1>a, <2>3, <3>1, Channels DEF NewMsg
      <4> QED BY <2>1, <3>1, <4>1 DEF Phases
    <3>2. CASE i = Len(fwd) + 1
      BY <1>a, <2>1, <2>3, <3>2, Channels DEF NewMsg
    <3> QED BY <1>a, <2>3, <3>1, <3>2, Channels DEF NewMsg
  <2> QED BY <1>c, <2>2, <2>3
<1>4. /\ rcv'.pc \in {"request", "first"} => rcv'.data = <<>> /\ rcv'.last = 0
      /\ rcv'.pc \in {"top", "header"} => Kept' > 0
  <2>1. CASE rcv' = rcv
    <3>1. Kept' = Kept
      BY <2>1 DEF Kept
    <3> QED BY <2>1, <3>1 DEF Phases
  <2>2. CASE RcvSame /\ (rcv.pc \in {"request", "first"} \/ rcv'.pc \notin {"request", "first"})
                     /\ (rcv.pc \in {"top", "header"} \/ rcv'.pc \notin {"top", "header"})
    <3>1. Kept' = Kept
      BY <2>2 DEF Kept, RcvSame
    <3> QED BY <2>2, <3>1 DEF Phases, RcvSame
  <2>3. CASE RcvReads
    <3>1. CASE /\ rcv'.data = Append(rcv.data, Head(fwd).data) /\ rcv'.pc = "top" /\ Head(fwd) \in Frames
      <4>1. Head(fwd).data \in Nat
        BY <3>1 DEF Frames
      <4>2. Kept' > 0
        BY <1>a, <3>1, <4>1, Channels DEF Kept
      <4> QED BY <3>1, <4>2
    <3>2. CASE RcvSame /\ RcvDone'
      BY <2>2, <3>2 DEF RcvDone
    <3> QED BY <2>2, <2>3, <3>1, <3>2 DEF RcvReads
  <2>4. CASE RcvExpires
    <3>1. CASE RcvSame /\ RcvDone'
      BY <2>2, <3>1 DEF RcvDone
    <3> QED BY <2>2, <2>4, <3>1 DEF RcvExpires
  <2>5. CASE RcvWrites
    BY <2>2, <2>5 DEF RcvWrites
  <2> QED BY <1>d, <2>1, <2>3, <2>4, <2>5 DEF SndReads, SndExpires, SndWrites
<1> QED BY <1>1, <1>2, <1>3, <1>4 DEF Phases

(* A block is kept only when it is the next one.                           *)
Keeps ==
  /\ ~RcvDone /\ snd' = snd /\ fwd # <<>> /\ fwd' = Tail(fwd) /\ bwd' = Append(bwd, Byte("ACK"))
  /\ Head(fwd) \in Frames /\ Head(fwd).data = Kept + 1
  /\ Head(fwd).num = (Kept + 1) % SeqMod /\ Kept + 1 <= snd.blk /\ Kept + 1 <= Blocks
  /\ rcv'.data = Append(rcv.data, Kept + 1) /\ rcv'.last = (Kept + 1) % SeqMod /\ Kept' = Kept + 1
  /\ UNCHANGED <<faults, stale>>

(* A step keeps the next block of the file, or keeps nothing.              *)
LEMMA KeepsNext ==
  ASSUME Bounded, Types, Phases, InOrder, InFlight, Lead, [Next]_xvars
  PROVE  (RcvSame /\ Kept' = Kept) \/ Keeps
<1>a. RcvSame => Kept' = Kept
  BY DEF RcvSame, Kept
<1>b. /\ rcv.data \in Seq(Nat) /\ Kept \in Nat /\ Blocks \in Nat /\ SeqMod \in Nat /\ snd.blk \in Nat
  BY Fields
<1>1. CASE RcvReads
  <2>1. CASE /\ rcv'.data = Append(rcv.data, Head(fwd).data) /\ rcv'.last = Head(fwd).num
             /\ rcv'.pc = "top" /\ bwd' = Append(bwd, Byte("ACK"))
             /\ Head(fwd) \in Frames /\ Head(fwd).num = (rcv.last + 1) % SeqMod
    <3>1. fwd # <<>> /\ fwd' = Tail(fwd) /\ UNCHANGED <<snd, faults, stale>> /\ ~RcvDone
      BY <1>1 DEF RcvReads, RcvDone
    <3>2. /\ Head(fwd).data = Kept + 1 /\ Head(fwd).num = (Kept + 1) % SeqMod
          /\ Kept + 1 <= snd.blk /\ Kept + 1 <= Blocks
      BY <1>b, <2>1, <3>1, HeadNumber
    <3>3. Kept' = Kept + 1
      BY <1>b, <2>1, <3>2, Channels DEF Kept
    <3> QED BY <2>1, <3>1, <3>2, <3>3 DEF Keeps
  <2> QED BY <1>1, <1>a, <2>1 DEF RcvReads
<1>2. CASE RcvExpires \/ RcvWrites
  BY <1>2, <1>a DEF RcvExpires, RcvWrites
<1>3. CASE rcv' = rcv
  BY <1>3, <1>a DEF RcvSame
<1> QED BY <1>1, <1>2, <1>3, StepDoes, FaultDoes DEF SndReads, SndExpires, SndWrites

(* Every step keeps the beginning of the file.                             *)
LEMMA InOrderStep ==
  ASSUME Bounded, Types, Phases, InOrder, InFlight, Lead, [Next]_xvars
  PROVE  InOrder'
<1>a. /\ snd.blk \in Nat /\ rcv.data \in Seq(Nat) /\ Kept \in Nat /\ Blocks \in Nat
      /\ snd'.blk \in Nat /\ snd.blk <= snd'.blk
  BY Fields, ForwardDoes
<1>1. CASE RcvSame /\ Kept' = Kept
  BY <1>1, <1>a DEF InOrder, RcvSame
<1>2. CASE Keeps
  <2>1. \A i \in 1..Kept' : rcv'.data[i] = i
    <3>1. /\ Len(rcv.data) = Kept /\ Kept + 1 \in Nat
          /\ Append(rcv.data, Kept + 1)[Len(rcv.data) + 1] = Kept + 1
          /\ \A i \in 1..Len(rcv.data) : Append(rcv.data, Kept + 1)[i] = rcv.data[i]
      <4>1. Len(rcv.data) = Kept /\ Kept + 1 \in Nat
        BY <1>a DEF Kept
      <4> QED BY <1>a, <4>1, Channels
    <3>2. Kept' = Kept + 1 /\ rcv'.data = Append(rcv.data, Kept + 1)
      BY <1>2 DEF Keeps
    <3>3. \A i \in 1..Kept : rcv.data[i] = i
      BY DEF InOrder
    <3> QED BY <1>a, <3>1, <3>2, <3>3
  <2> QED BY <1>2, <1>a, <2>1 DEF InOrder, Keeps
<1> QED BY <1>1, <1>2, KeepsNext

(* Every step keeps the blocks on their way in order.                      *)
LEMMA InFlightStep ==
  ASSUME Bounded, Types, Phases, InOrder, InFlight, Lead, [Next]_xvars
  PROVE  InFlight'
<1>a. /\ snd.blk \in Nat /\ Kept \in Nat /\ fwd \in Seq(FwdMsgs) /\ Len(fwd) \in Nat
      /\ snd'.blk \in Nat /\ snd.blk <= snd'.blk /\ fwd' \in Seq(FwdMsgs) /\ Len(fwd') \in Nat
  BY Fields, FieldsNext, StepDoes, ForwardDoes
<1>b. \A m \in Frames : m.data \in Nat
  BY DEF Frames
<1>1. ASSUME RcvSame, Kept' = Kept, NEW k \in {0, 1}, From(fwd, fwd', k)
      PROVE  InFlight'
  <2>1. \A i \in 1..Len(fwd') : fwd'[i] \in Frames =>
          /\ fwd'[i].num = fwd'[i].data % SeqMod
          /\ Kept' <= fwd'[i].data /\ fwd'[i].data <= snd'.blk
    <3>1. SUFFICES ASSUME NEW i \in 1..Len(fwd'), fwd'[i] \in Frames
                   PROVE  /\ fwd'[i].num = fwd'[i].data % SeqMod
                          /\ Kept' <= fwd'[i].data /\ fwd'[i].data <= snd'.blk
      OBVIOUS
    <3>2. /\ i + k \in 1..Len(fwd) /\ fwd[i + k] \in Frames
          /\ fwd'[i].num = fwd[i + k].num /\ fwd'[i].data = fwd[i + k].data
      BY <1>1, <3>1 DEF From
    <3>3. /\ fwd[i + k].num = fwd[i + k].data % SeqMod
          /\ Kept <= fwd[i + k].data /\ fwd[i + k].data <= snd.blk /\ fwd[i + k].data \in Nat
      BY <1>b, <3>2 DEF InFlight
    <3> QED BY <1>1, <1>a, <3>2, <3>3
  <2>2. \A i, j \in 1..Len(fwd') :
          (fwd'[i] \in Frames /\ fwd'[j] \in Frames /\ i < j) => fwd'[i].data <= fwd'[j].data
    <3>1. SUFFICES ASSUME NEW i \in 1..Len(fwd'), NEW j \in 1..Len(fwd'),
                          fwd'[i] \in Frames, fwd'[j] \in Frames, i < j
                   PROVE  fwd'[i].data <= fwd'[j].data
      OBVIOUS
    <3>2. /\ i + k \in 1..Len(fwd) /\ fwd[i + k] \in Frames /\ fwd'[i].data = fwd[i + k].data
          /\ j + k \in 1..Len(fwd) /\ fwd[j + k] \in Frames /\ fwd'[j].data = fwd[j + k].data
      BY <1>1, <3>1 DEF From
    <3>3. i + k < j + k
      BY <1>a, <3>1
    <3> QED BY <3>2, <3>3 DEF InFlight
  <2> QED BY <2>1, <2>2 DEF InFlight
<1>2. ASSUME RcvSame, Kept' = Kept, NEW m \in FwdMsgs, NewMsg(m)
      PROVE  InFlight'
  <2>0. /\ fwd' = Append(fwd, m) /\ Len(fwd') = Len(fwd) + 1 /\ fwd'[Len(fwd) + 1] = m
        /\ \A i \in 1..Len(fwd) : fwd'[i] = fwd[i]
    BY <1>2, <1>a, Channels DEF NewMsg
  <2>1. m \in Frames => m.data = snd.blk /\ m.num = snd.blk % SeqMod
    BY <1>2 DEF NewMsg
  <2>2. Kept <= snd.blk
    BY DEF InOrder
  <2>3. \A i \in 1..Len(fwd') : fwd'[i] \in Frames =>
          /\ fwd'[i].num = fwd'[i].data % SeqMod
          /\ Kept' <= fwd'[i].data /\ fwd'[i].data <= snd'.blk
    <3>1. SUFFICES ASSUME NEW i \in 1..Len(fwd'), fwd'[i] \in Frames
                   PROVE  /\ fwd'[i].num = fwd'[i].data % SeqMod
                          /\ Kept' <= fwd'[i].data /\ fwd'[i].data <= snd'.blk
      OBVIOUS
    <3>2. CASE i \in 1..Len(fwd)
      <4>1. /\ fwd'[i] = fwd[i] /\ fwd[i].data \in Nat /\ fwd[i].num = fwd[i].data % SeqMod
            /\ Kept <= fwd[i].data /\ fwd[i].data <= snd.blk
        BY <1>b, <2>0, <3>1, <3>2 DEF InFlight
      <4> QED BY <1>2, <1>a, <4>1
    <3>3. CASE i = Len(fwd) + 1
      BY <1>2, <1>a, <2>0, <2>1, <2>2, <3>1, <3>3
    <3> QED BY <1>a, <2>0, <3>2, <3>3
  <2>4. \A i, j \in 1..Len(fwd') :
          (fwd'[i] \in Frames /\ fwd'[j] \in Frames /\ i < j) => fwd'[i].data <= fwd'[j].data
    <3>1. SUFFICES ASSUME NEW i \in 1..Len(fwd'), NEW j \in 1..Len(fwd'),
                          fwd'[i] \in Frames, fwd'[j] \in Frames, i < j
                   PROVE  fwd'[i].data <= fwd'[j].data
      OBVIOUS
    <3>2. i \in 1..Len(fwd) /\ fwd'[i] = fwd[i]
      BY <1>a, <2>0, <3>1
    <3>3. CASE j \in 1..Len(fwd)
      <4>1. fwd'[j] = fwd[j]
        BY <2>0, <3>3
      <4> QED BY <3>1, <3>2, <3>3, <4>1 DEF InFlight
    <3>4. CASE j = Len(fwd) + 1
      <4>1. fwd[i].data <= snd.blk
        BY <3>1, <3>2 DEF InFlight
      <4> QED BY <2>0, <2>1, <3>1, <3>2, <3>4, <4>1
    <3> QED BY <1>a, <2>0, <3>3, <3>4
  <2> QED BY <2>3, <2>4 DEF InFlight
<1>3. CASE Keeps
  <2>0. /\ fwd # <<>> /\ Len(fwd') = Len(fwd) - 1 /\ Head(fwd) = fwd[1] /\ Len(fwd) >= 1
        /\ \A i \in 1..(Len(fwd) - 1) : fwd'[i] = fwd[i + 1]
    BY <1>3, <1>a, Channels DEF Keeps
  <2>1. fwd[1] \in Frames /\ fwd[1].data = Kept + 1 /\ Kept' = Kept + 1 /\ snd' = snd
    BY <1>3, <2>0 DEF Keeps
  <2>2. \A i \in 1..Len(fwd') : fwd'[i] \in Frames =>
          /\ fwd'[i].num = fwd'[i].data % SeqMod
          /\ Kept' <= fwd'[i].data /\ fwd'[i].data <= snd'.blk
    <3>1. SUFFICES ASSUME NEW i \in 1..Len(fwd'), fwd'[i] \in Frames
                   PROVE  /\ fwd'[i].num = fwd'[i].data % SeqMod
                          /\ Kept' <= fwd'[i].data /\ fwd'[i].data <= snd'.blk
      OBVIOUS
    <3>2. i + 1 \in 1..Len(fwd) /\ 1 \in 1..Len(fwd) /\ 1 < i + 1 /\ fwd'[i] = fwd[i + 1]
      BY <1>a, <2>0, <3>1
    <3>3. fwd[1].data <= fwd[i + 1].data
      BY <2>1, <3>1, <3>2 DEF InFlight
    <3> QED BY <2>1, <3>1, <3>2, <3>3 DEF InFlight
  <2>3. \A i, j \in 1..Len(fwd') :
          (fwd'[i] \in Frames /\ fwd'[j] \in Frames /\ i < j) => fwd'[i].data <= fwd'[j].data
    <3>1. SUFFICES ASSUME NEW i \in 1..Len(fwd'), NEW j \in 1..Len(fwd'),
                          fwd'[i] \in Frames, fwd'[j] \in Frames, i < j
                   PROVE  fwd'[i].data <= fwd'[j].data
      OBVIOUS
    <3>2. /\ i + 1 \in 1..Len(fwd) /\ j + 1 \in 1..Len(fwd) /\ i + 1 < j + 1
          /\ fwd'[i] = fwd[i + 1] /\ fwd'[j] = fwd[j + 1]
      BY <1>a, <2>0, <3>1
    <3> QED BY <3>1, <3>2 DEF InFlight
  <2> QED BY <2>2, <2>3 DEF InFlight
<1>4. CASE RcvSame /\ Kept' = Kept
  BY <1>1, <1>2, <1>4, ForwardDoes
<1> QED BY <1>3, <1>4, KeepsNext

(* Late answers are never forgotten.                                       *)
LEMMA SlackGrows ==
  ASSUME Bounded, Types, Phases, [Next]_xvars
  PROVE  /\ Slack \in Nat /\ Slack' \in Nat /\ Slack <= Slack'
         /\ stale => stale'
         /\ SndExpires => \/ Slack' >= Slack + 1
                          \/ RcvDone \/ (fwd = <<>> /\ rcv.pc # "request")
         /\ RcvExpires => \/ Slack' >= Slack + 1
                          \/ SndDone \/ (bwd = <<>> /\ snd.pc \notin {"send", "eot"})
<1>a. faults \in Nat /\ stale \in BOOLEAN
  BY Fields
<1>b. faults' \in Nat /\ stale' \in BOOLEAN
  BY FieldsNext, StepDoes
<1>1. CASE UNCHANGED <<faults, stale>> /\ ~SndExpires /\ ~RcvExpires
  BY <1>1, <1>a DEF Slack
<1>2. CASE LineFault /\ ~SndExpires /\ ~RcvExpires
  <2>1. faults' = faults + 1 /\ stale' = stale
    BY <1>2, FaultDoes
  <2> QED BY <1>2, <1>a, <2>1 DEF Slack
<1>3. CASE SndExpires
  <2>1. SndTimesOut /\ rcv' = rcv /\ bwd' = bwd /\ snd.pc \in {"getnak", "await", "awaitEot"}
    BY <1>3 DEF SndExpires
  <2>2. CASE ~RcvDone /\ (fwd # <<>> \/ rcv.pc = "request")
    <3>1. faults' = faults + 1 /\ stale' = TRUE
      BY <2>1, <2>2 DEF SndTimesOut, TimesOut
    <3>2. Slack' = faults + 1 /\ Slack \in Nat /\ Slack <= faults /\ Slack' \in Nat
      BY <1>a, <3>1 DEF Slack
    <3>3. Slack' >= Slack + 1
      BY <1>a, <3>2
    <3> QED BY <1>a, <3>1, <3>2, <3>3
  <2>3. CASE ~(~RcvDone /\ (fwd # <<>> \/ rcv.pc = "request"))
    <3>1. UNCHANGED <<faults, stale>>
      BY <2>1, <2>3 DEF SndTimesOut, TimesOut
    <3>2. Slack' = Slack /\ Slack \in Nat
      BY <1>a, <3>1 DEF Slack
    <3>3. bwd = <<>> /\ snd.pc \notin {"send", "eot"}
      BY <2>1 DEF SndTimesOut, TimesOut
    <3> QED BY <2>3, <3>1, <3>2, <3>3
  <2> QED BY <2>2, <2>3
<1>4. CASE RcvExpires /\ ~SndExpires
  <2>1. RcvTimesOut
    BY <1>4 DEF RcvExpires
  <2>2. CASE ~SndDone /\ (bwd # <<>> \/ snd.pc \in {"send", "eot"})
    <3>1. faults' = faults + 1 /\ stale' = TRUE
      BY <2>1, <2>2 DEF RcvTimesOut, TimesOut
    <3>2. Slack' = faults + 1 /\ Slack \in Nat /\ Slack <= faults /\ Slack' \in Nat
      BY <1>a, <3>1 DEF Slack
    <3> QED BY <1>4, <1>a, <3>1, <3>2
  <2>3. CASE ~(~SndDone /\ (bwd # <<>> \/ snd.pc \in {"send", "eot"}))
    <3>1. UNCHANGED <<faults, stale>>
      BY <2>1, <2>3 DEF RcvTimesOut, TimesOut
    <3>2. Slack' = Slack /\ Slack \in Nat
      BY <1>a, <3>1 DEF Slack
    <3> QED BY <1>4, <2>3, <3>1, <3>2
  <2> QED BY <2>2, <2>3
<1> QED BY <1>1, <1>2, <1>3, <1>4, StepDoes DEF SndReads, SndWrites, RcvReads, RcvWrites

(* Every step keeps the turns: what one end reads it answers once, and a   *)
(* timeout adds one only when it crosses an answer.                        *)
LEMMA TurnsStep ==
  ASSUME Bounded, Types, Phases, Turns, [Next]_xvars
  PROVE  Turns'
<1>a. /\ fwd \in Seq(FwdMsgs) /\ bwd \in Seq(BwdMsgs) /\ Len(fwd) \in Nat /\ Len(bwd) \in Nat
      /\ fwd' \in Seq(FwdMsgs) /\ bwd' \in Seq(BwdMsgs) /\ Len(fwd') \in Nat /\ Len(bwd') \in Nat
  BY Fields, FieldsNext, StepDoes
<1>b. Slack \in Nat /\ Slack' \in Nat /\ Slack <= Slack'
  BY SlackGrows
<1> SUFFICES ASSUME ~SndDone', ~RcvDone'
             PROVE  Len(fwd') + Len(bwd') + Turn(snd'.pc \in {"send", "eot"}) + Turn(rcv'.pc = "request")
                      <= 1 + Slack'
  BY DEF Turns
<1> DEFINE t == Turn(snd.pc \in {"send", "eot"})
           u == Turn(rcv.pc = "request")
           v == Turn(snd'.pc \in {"send", "eot"})
           w == Turn(rcv'.pc = "request")
<1>c. t \in {0, 1} /\ u \in {0, 1} /\ v \in {0, 1} /\ w \in {0, 1}
  BY DEF Turn
<1>d. (~SndDone /\ ~RcvDone) => Len(fwd) + Len(bwd) + t + u <= 1 + Slack
  BY DEF Turns
<1>e. /\ snd' = snd => v = t /\ ~SndDone
      /\ rcv' = rcv => w = u /\ ~RcvDone
  BY DEF SndDone, RcvDone
<1>f. \A m : /\ m \in FwdMsgs /\ fwd' = Append(fwd, m) => Len(fwd') = Len(fwd) + 1
             /\ m \in BwdMsgs /\ bwd' = Append(bwd, m) => Len(bwd') = Len(bwd) + 1
  BY <1>a, Channels
<1>1. CASE SndReads
  <2>1. Len(fwd') = Len(fwd) /\ Len(bwd') = Len(bwd) - 1 /\ rcv' = rcv /\ ~SndDone
    BY <1>1, <1>a, Channels DEF SndReads, SndDone
  <2>2. t = 0
    BY <1>1 DEF SndReads, Turn
  <2> HIDE DEF t, u, v, w
  <2> QED BY <1>a, <1>b, <1>c, <1>d, <1>e, <2>1, <2>2 DEF v, w
<1>2. CASE SndExpires
  <2>1. fwd' = fwd /\ bwd' = bwd /\ rcv' = rcv /\ ~SndDone
    BY <1>2 DEF SndExpires, SndDone
  <2>2. t = 0
    BY <1>2 DEF SndExpires, Turn
  <2>3. bwd = <<>> /\ Len(bwd) = 0
    BY <1>2 DEF SndExpires, SndTimesOut, TimesOut
  <2>4. CASE Slack' >= Slack + 1
    <3> HIDE DEF t, u, v, w
    <3> QED BY <1>a, <1>b, <1>c, <1>d, <1>e, <2>1, <2>2, <2>4 DEF v, w
  <2>5. CASE fwd = <<>> /\ rcv.pc # "request"
    <3>1. u = 0 /\ Len(fwd) = 0
      BY <2>5 DEF Turn
    <3> HIDE DEF t, u, v, w
    <3> QED BY <1>a, <1>b, <1>c, <1>e, <2>1, <2>3, <3>1 DEF v, w
  <2> QED BY <1>2, <1>e, <2>1, <2>4, <2>5, SlackGrows
<1>3. CASE SndWrites
  <2>1. bwd' = bwd /\ rcv' = rcv /\ ~SndDone
    BY <1>3 DEF SndWrites, SndDone
  <2>2. Len(fwd') + v <= Len(fwd) + t
    <3>1. CASE snd.pc = "send" /\ snd'.pc = "eot" /\ fwd' = fwd
      BY <1>a, <3>1 DEF Turn
    <3>2. CASE snd.pc = "eot" /\ snd'.pc = "awaitEot" /\ fwd' = Append(fwd, Byte("EOT"))
      <4>1. Len(fwd') = Len(fwd) + 1
        BY <1>f, <3>2, Messages
      <4> QED BY <1>a, <3>2, <4>1 DEF Turn
    <3>3. CASE /\ snd.pc = "send" /\ snd'.pc = "await" /\ snd.blk <= Blocks
               /\ fwd' = Append(fwd, Frame(snd.blk, snd.mode))
      <4>1. snd.blk \in 1..Blocks /\ snd.mode \in Checks
        BY <3>3, Fields
      <4>2. Len(fwd') = Len(fwd) + 1
        BY <1>f, <3>3, <4>1, Messages
      <4> QED BY <1>a, <3>3, <4>2 DEF Turn
    <3>4. snd'.pc \notin {"error", "failed"}
      BY DEF SndDone
    <3> QED BY <1>3, <3>1, <3>2, <3>3, <3>4 DEF SndWrites
  <2> HIDE DEF t, u, v, w
  <2> QED BY <1>a, <1>b, <1>c, <1>d, <1>e, <2>1, <2>2 DEF v, w
<1>4. CASE RcvReads
  <2>1. Len(fwd') = Len(fwd) - 1 /\ snd' = snd /\ ~RcvDone
    BY <1>4, <1>a, Channels DEF RcvReads, RcvDone
  <2>2. Len(bwd') + w <= Len(bwd) + 1
    <3>1. CASE bwd' = bwd
      BY <1>a, <1>c, <3>1
    <3>2. CASE /\ rcv'.pc \in {"top", "header"}
               /\ bwd' \in {Append(bwd, Byte("NAK")), Append(bwd, Byte("ACK"))}
      <4>1. Len(bwd') = Len(bwd) + 1
        BY <1>f, <3>2, Messages
      <4> QED BY <1>a, <3>2, <4>1 DEF Turn
    <3> QED BY <1>4, <3>1, <3>2 DEF RcvReads
  <2> HIDE DEF t, u, v, w
  <2> QED BY SMTT(30), <1>a, <1>b, <1>c, <1>d, <1>e, <2>1, <2>2 DEF v, w
<1>5. CASE RcvExpires
  <2>1. fwd' = fwd /\ snd' = snd /\ ~RcvDone /\ fwd = <<>> /\ Len(fwd) = 0
    BY <1>5 DEF RcvExpires, RcvDone, RcvTimesOut, TimesOut
  <2>2. Len(bwd') + w <= Len(bwd) + 1
    <3>1. CASE bwd' = bwd
      BY <1>a, <1>c, <3>1
    <3>2. CASE rcv'.pc = "header" /\ bwd' = Append(bwd, Byte("NAK"))
      <4>1. Len(bwd') = Len(bwd) + 1
        BY <1>f, <3>2, Messages
      <4> QED BY <1>a, <3>2, <4>1 DEF Turn
    <3> QED BY <1>5, <3>1, <3>2 DEF RcvExpires
  <2>3. u = 0
    BY <1>5 DEF RcvExpires, Turn
  <2>4. CASE Slack' >= Slack + 1
    <3> HIDE DEF t, u, v, w
    <3> QED BY <1>a, <1>b, <1>c, <1>d, <1>e, <2>1, <2>2, <2>3, <2>4 DEF v, w
  <2>5. CASE bwd = <<>> /\ snd.pc \notin {"send", "eot"}
    <3>1. t = 0 /\ Len(bwd) = 0
      BY <2>5 DEF Turn
    <3> HIDE DEF t, u, v, w
    <3> QED BY <1>a, <1>b, <1>c, <1>e, <2>1, <2>2, <3>1 DEF v, w
  <2> QED BY <1>5, <1>e, <2>1, <2>4, <2>5, SlackGrows
<1>6. CASE RcvWrites
  <2>1. fwd' = fwd /\ snd' = snd /\ ~RcvDone
    BY <1>6 DEF RcvWrites, RcvDone
  <2>2. Len(bwd') + w <= Len(bwd) + u
    <3>1. CASE rcv.pc = "request" /\ rcv'.pc = "first" /\ \E m \in BwdMsgs \ Acks : bwd' = Append(bwd, m)
      <4>1. Len(bwd') = Len(bwd) + 1
        BY <1>f, <3>1
      <4> QED BY <1>a, <3>1, <4>1 DEF Turn
    <3>2. CASE rcv.pc = "top" /\ rcv'.pc = "header" /\ bwd' = bwd
      BY <1>a, <3>2 DEF Turn
    <3> QED BY <1>6, <3>1, <3>2 DEF RcvWrites, RcvDone
  <2> HIDE DEF t, u, v, w
  <2> QED BY <1>a, <1>b, <1>c, <1>d, <1>e, <2>1, <2>2 DEF v, w
<1>7. CASE LineFault
  <2>1. UNCHANGED <<snd, rcv>>
    BY <1>7, FaultDoes
  <2>2. Len(fwd') <= Len(fwd) /\ Len(bwd') <= Len(bwd)
    <3>1. CASE FaultOn(fwd, FwdMsgs) /\ bwd' = bwd
      BY <1>a, <3>1, Spoilt DEF FaultOn, Spoils
    <3>2. CASE FaultOn(bwd, BwdMsgs) /\ fwd' = fwd
      BY <1>a, <3>2, Spoilt DEF FaultOn, Spoils
    <3> QED BY <1>7, <3>1, <3>2, FaultDoes
  <2> HIDE DEF t, u, v, w
  <2> QED BY <1>a, <1>b, <1>c, <1>d, <1>e, <2>1, <2>2 DEF v, w
<1>8. CASE UNCHANGED <<snd, rcv, fwd, bwd, faults, stale>>
  <2> HIDE DEF t, u, v, w
  <2> QED BY <1>8, <1>a, <1>b, <1>c, <1>d, <1>e DEF v, w
<1> QED BY <1>1, <1>2, <1>3, <1>4, <1>5, <1>6, <1>7, <1>8, StepDoes

(* What a step adds to the lead: nothing, but for the block it writes.     *)
LEMMA LeadKept ==
  ASSUME Bounded, Types, Types', Phases, [Next]_xvars, Lead, ~RcvDone,
         snd'.blk = snd.blk, Kept' = Kept,
         Count(bwd', Acks) <= Count(bwd, Acks),
         \A b \in Nat : Count(fwd', Below(b)) <= Count(fwd, Below(b))
  PROVE  Lead'
<1>a. /\ snd.blk \in Nat /\ Kept \in Nat /\ Slack \in Nat /\ Slack' \in Nat /\ Slack <= Slack'
      /\ fwd \in Seq(FwdMsgs) /\ bwd \in Seq(BwdMsgs) /\ fwd' \in Seq(FwdMsgs) /\ bwd' \in Seq(BwdMsgs)
  BY Fields, FieldsNext, SlackGrows
<1>b. /\ Count(bwd, Acks) \in Nat /\ Count(bwd', Acks) \in Nat
      /\ \A b : Count(fwd, Below(b)) \in Nat /\ Count(fwd', Below(b)) \in Nat
  BY <1>a, CountType
<1>1. SUFFICES ASSUME NEW b \in (Kept + 1)..(snd.blk + 1)
               PROVE  snd.blk + Count(bwd', Acks) + Count(fwd', Below(b)) <= Slack' + b
  <2>1. \A b \in (Kept' + 1)..(snd'.blk + 1) :
          snd.blk + Count(bwd', Acks) + Count(fwd', Below(b)) <= Slack' + b
    BY <1>1
  <2> QED BY <2>1 DEF Lead
<1>2. snd.blk + Count(bwd, Acks) + Count(fwd, Below(b)) <= Slack + b
  BY DEF Lead
<1>3. b \in Nat
  BY <1>a
<1>4. Count(fwd', Below(b)) <= Count(fwd, Below(b))
  BY <1>3
<1>5. Count(fwd, Below(b)) \in Nat /\ Count(fwd', Below(b)) \in Nat
  BY <1>b
<1> DEFINE a0 == Count(bwd, Acks)
           a1 == Count(bwd', Acks)
           f0 == Count(fwd, Below(b))
           f1 == Count(fwd', Below(b))
           s0 == Slack
           s1 == Slack'
<1>6. /\ snd.blk \in Nat /\ a0 \in Nat /\ a1 \in Nat /\ a1 <= a0 /\ f0 \in Nat /\ f1 \in Nat /\ f1 <= f0
      /\ s0 \in Nat /\ s1 \in Nat /\ s0 <= s1 /\ b \in Nat /\ snd.blk + a0 + f0 <= s0 + b
  BY <1>a, <1>b, <1>2, <1>3, <1>4, <1>5
<1>7. snd.blk + a1 + f1 <= s1 + b
  <2> HIDE DEF a0, a1, f0, f1, s0, s1
  <2> QED BY <1>6
<1> QED BY <1>7

(* Counts that a message leaves alone or that it is taken from.            *)
LEMMA Counts ==
  ASSUME Bounded, Types
  PROVE  /\ Count(fwd, Acks) \in Nat /\ Count(bwd, Acks) \in Nat /\ \A b : Count(fwd, Below(b)) \in Nat
         /\ \A m \in FwdMsgs : m \notin Frames =>
              \A b : Count(Append(fwd, m), Below(b)) = Count(fwd, Below(b))
         /\ \A m \in Frames : \A b : Count(Append(fwd, m), Below(b)) =
                                   Count(fwd, Below(b)) + (IF m \in Below(b) THEN 1 ELSE 0)
         /\ \A m \in BwdMsgs \ Acks : Count(Append(bwd, m), Acks) = Count(bwd, Acks)
         /\ Count(Append(bwd, Byte("ACK")), Acks) = Count(bwd, Acks) + 1
         /\ bwd # <<>> => /\ Count(Tail(bwd), Acks) \in Nat
                          /\ Count(bwd, Acks) = Count(Tail(bwd), Acks) + (IF Head(bwd) \in Acks THEN 1 ELSE 0)
         /\ fwd # <<>> => \A b : /\ Count(Tail(fwd), Below(b)) \in Nat
                                 /\ Count(fwd, Below(b)) = Count(Tail(fwd), Below(b))
                                      + (IF Head(fwd) \in Below(b) THEN 1 ELSE 0)
<1>1. fwd \in Seq(FwdMsgs) /\ bwd \in Seq(BwdMsgs)
  BY Fields
<1>2. Count(fwd, Acks) \in Nat /\ Count(bwd, Acks) \in Nat /\ \A b : Count(fwd, Below(b)) \in Nat
  BY <1>1, CountType
<1>3. ASSUME NEW m \in FwdMsgs, m \notin Frames, NEW b
      PROVE  Count(Append(fwd, m), Below(b)) = Count(fwd, Below(b))
  <2>1. m \notin Below(b)
    BY <1>3 DEF Below
  <2>2. Count(Append(fwd, m), Below(b)) = Count(fwd, Below(b)) + (IF m \in Below(b) THEN 1 ELSE 0)
    BY <1>1, CountAppend
  <2> QED BY <1>2, <2>1, <2>2
<1>4. ASSUME NEW m \in Frames, NEW b
      PROVE  Count(Append(fwd, m), Below(b)) = Count(fwd, Below(b)) + (IF m \in Below(b) THEN 1 ELSE 0)
  <2>1. m \in FwdMsgs
    BY DEF FwdMsgs
  <2> QED BY <1>1, <2>1, CountAppend
<1>5. ASSUME NEW m \in BwdMsgs \ Acks PROVE Count(Append(bwd, m), Acks) = Count(bwd, Acks)
  <2>1. Count(Append(bwd, m), Acks) = Count(bwd, Acks) + (IF m \in Acks THEN 1 ELSE 0)
    BY <1>1, CountAppend
  <2> QED BY <1>2, <2>1
<1>6. Count(Append(bwd, Byte("ACK")), Acks) = Count(bwd, Acks) + 1
  <2>1. Byte("ACK") \in BwdMsgs /\ Byte("ACK") \in Acks
    BY Messages
  <2>2. Count(Append(bwd, Byte("ACK")), Acks) = Count(bwd, Acks) + (IF Byte("ACK") \in Acks THEN 1 ELSE 0)
    BY <1>1, <2>1, CountAppend
  <2> QED BY <2>1, <2>2
<1>7. ASSUME bwd # <<>>
      PROVE  /\ Count(Tail(bwd), Acks) \in Nat
             /\ Count(bwd, Acks) = Count(Tail(bwd), Acks) + (IF Head(bwd) \in Acks THEN 1 ELSE 0)
  <2>1. Tail(bwd) \in Seq(BwdMsgs)
    BY <1>1, <1>7, Channels
  <2> QED BY <1>1, <1>7, <2>1, CountTail, CountType
<1>8. ASSUME fwd # <<>>, NEW b
      PROVE  /\ Count(Tail(fwd), Below(b)) \in Nat
             /\ Count(fwd, Below(b)) = Count(Tail(fwd), Below(b)) + (IF Head(fwd) \in Below(b) THEN 1 ELSE 0)
  <2>1. Tail(fwd) \in Seq(FwdMsgs)
    BY <1>1, <1>8, Channels
  <2> QED BY <1>1, <1>8, <2>1, CountTail, CountType
<1> QED BY <1>2, <1>3, <1>4, <1>5, <1>6, <1>7, <1>8

(* An ACK that moves the sender on: the block it is at may be left behind. *)
LEMMA LeadOnward ==
  ASSUME Bounded, Types, Types', InFlight, Lead, ~RcvDone, Slack <= Slack',
         bwd # <<>>, bwd' = Tail(bwd), Head(bwd) \in Acks, snd'.blk = snd.blk + 1, Kept' = Kept,
         \A b \in Nat : Count(fwd', Below(b)) <= Count(fwd, Below(b)),
         Kept <= snd.blk
  PROVE  Lead'
<1>a. /\ snd.blk \in Nat /\ Kept \in Nat /\ Slack \in Nat /\ fwd \in Seq(FwdMsgs) /\ fwd' \in Seq(FwdMsgs)
      /\ faults' \in Nat /\ stale' \in BOOLEAN /\ Len(fwd) \in Nat
  BY Fields, FieldsNext
<1>b. Slack' \in Nat
  BY <1>a DEF Slack
<1>c. \A b : Count(fwd, Below(b)) \in Nat /\ Count(fwd', Below(b)) \in Nat
  BY <1>a, CountType
<1> DEFINE s == snd.blk
           a == Count(bwd', Acks)
           f == [b \in Nat |-> Count(fwd, Below(b))]
           g == [b \in Nat |-> Count(fwd', Below(b))]
           x == Slack
           y == Slack'
           n == Kept
<1>1. a \in Nat /\ Count(bwd, Acks) = a + 1
  BY Counts
<1>2. \A b \in (n + 1)..(s + 1) : s + (a + 1) + f[b] <= x + b
  <2>1. \A b \in (n + 1)..(s + 1) : b \in Nat
    BY <1>a
  <2> QED BY <1>1, <2>1 DEF Lead
<1>3. f[s + 2] = f[s + 1]
  <2>1. \A i \in 1..Len(fwd) : fwd[i] \in Below(s + 2) <=> fwd[i] \in Below(s + 1)
    <3>1. SUFFICES ASSUME NEW i \in 1..Len(fwd), fwd[i] \in Frames
                   PROVE  fwd[i].data < s + 2 /\ fwd[i].data < s + 1
      BY DEF Below
    <3>2. fwd[i].data \in Nat /\ fwd[i].data <= s
      BY <3>1 DEF InFlight, Frames
    <3> QED BY SMTT(30), <1>a, <3>2
  <2>2. Hits(fwd, Below(s + 2)) = Hits(fwd, Below(s + 1))
    BY <2>1 DEF Hits
  <2>3. s + 1 \in Nat /\ s + 2 \in Nat
    BY <1>a
  <2> QED BY <2>2, <2>3 DEF Count
<1>4. /\ s \in Nat /\ n \in Nat /\ n <= s /\ x \in Nat /\ y \in Nat /\ x <= y
      /\ \A b \in Nat : f[b] \in Nat /\ g[b] \in Nat /\ g[b] <= f[b]
  BY <1>a, <1>b, <1>c
<1>5. \A b \in (n + 1)..(s + 2) : (s + 1) + a + g[b] <= y + b
  <2> HIDE DEF s, a, f, g, x, y, n
  <2> SUFFICES ASSUME NEW b \in (n + 1)..(s + 2) PROVE (s + 1) + a + g[b] <= y + b
    OBVIOUS
  <2>1. b \in Nat /\ f[b] \in Nat /\ g[b] \in Nat /\ g[b] <= f[b]
    BY <1>4
  <2>2. CASE b <= s + 1
    <3>1. s + (a + 1) + f[b] <= x + b
      BY <1>2, <1>4, <2>2
    <3> QED BY <1>1, <1>4, <2>1, <3>1
  <2>3. CASE b = s + 2
    <3>1. s + 1 \in (n + 1)..(s + 1)
      BY <1>4
    <3>2. s + (a + 1) + f[s + 1] <= x + (s + 1)
      BY <1>2, <3>1
    <3>3. f[b] = f[s + 1]
      BY <1>3, <2>3
    <3> QED BY <1>1, <1>4, <2>1, <2>3, <3>2, <3>3
  <2> QED BY <1>4, <2>1, <2>2, <2>3
<1>7. \A b \in (n + 1)..((s + 1) + 1) : b \in Nat /\ b \in (n + 1)..(s + 2)
  <2> HIDE DEF s, a, f, g, x, y, n
  <2> QED BY <1>4
<1> QED BY <1>5, <1>7 DEF Lead

(* A block that is written needs the turn the sender has.                  *)
LEMMA LeadWrites ==
  ASSUME Bounded, Types, Types', Turns, Lead, ~RcvDone, Slack <= Slack', snd.pc = "send",
         snd'.blk = snd.blk, Kept' = Kept, bwd' = bwd, snd.blk \in 1..Blocks,
         fwd' = Append(fwd, Frame(snd.blk, snd.mode))
  PROVE  Lead'
<1>a. /\ snd.blk \in Nat /\ Kept \in Nat /\ Slack \in Nat /\ fwd \in Seq(FwdMsgs) /\ bwd \in Seq(BwdMsgs)
      /\ faults' \in Nat /\ stale' \in BOOLEAN /\ Len(fwd) \in Nat /\ Len(bwd) \in Nat /\ snd.mode \in Checks
  BY Fields, FieldsNext
<1>b. Slack' \in Nat
  BY <1>a DEF Slack
<1> DEFINE s == snd.blk
           a == Count(bwd, Acks)
           f == [b \in Nat |-> Count(fwd, Below(b))]
           g == [b \in Nat |-> Count(fwd', Below(b))]
           x == Slack
           y == Slack'
           n == Kept
<1>1. Frame(s, snd.mode) \in Frames /\ Frame(s, snd.mode).data = s
  BY <1>a, Messages
<1>2. \A b \in Nat : /\ f[b] \in Nat
                     /\ g[b] = f[b] + (IF Frame(s, snd.mode) \in Below(b) THEN 1 ELSE 0)
                     /\ Frame(s, snd.mode) \in Below(b) <=> s < b
  BY <1>1, Counts DEF Below
<1>3. \A b \in Nat : f[b] \in Nat /\ g[b] \in Nat /\ (b <= s => g[b] = f[b]) /\ g[b] <= f[b] + 1
  <2> DEFINE h(b) == Frame(s, snd.mode) \in Below(b)
  <2>1. s \in Nat /\ \A b \in Nat : f[b] \in Nat /\ g[b] = f[b] + (IF h(b) THEN 1 ELSE 0) /\ (h(b) <=> s < b)
    BY <1>2, <1>a
  <2> HIDE DEF s, f, g, h
  <2> SUFFICES ASSUME NEW b \in Nat
               PROVE  f[b] \in Nat /\ g[b] \in Nat /\ (b <= s => g[b] = f[b]) /\ g[b] <= f[b] + 1
    OBVIOUS
  <2>2. s \in Nat /\ f[b] \in Nat /\ g[b] = f[b] + (IF s < b THEN 1 ELSE 0)
    BY <2>1
  <2> QED BY <2>2
<1>4. a \in Nat /\ a <= Len(bwd) /\ \A b \in Nat : f[b] <= Len(fwd)
  BY <1>a, CountType
<1>5. Len(fwd) + Len(bwd) <= x
  <2>1. ~SndDone /\ Turn(snd.pc \in {"send", "eot"}) = 1 /\ Turn(rcv.pc = "request") \in {0, 1}
    BY DEF SndDone, Turn
  <2> DEFINE v == Turn(snd.pc \in {"send", "eot"})
             w == Turn(rcv.pc = "request")
  <2>2. Len(fwd) + Len(bwd) + v + w <= 1 + x
    BY <2>1 DEF Turns
  <2>3. v = 1 /\ w \in {0, 1}
    BY <2>1
  <2> HIDE DEF v, w, x
  <2> QED BY <1>a, <2>2, <2>3 DEF x
<1>6. \A b \in (n + 1)..(s + 1) : s + a + f[b] <= x + b
  <2>1. \A b \in (n + 1)..(s + 1) : b \in Nat
    BY <1>a
  <2> QED BY <2>1 DEF Lead
<1>7. s \in Nat /\ n \in Nat /\ x \in Nat /\ y \in Nat /\ x <= y
  BY <1>a, <1>b
<1>8. \A b \in (n + 1)..(s + 1) : s + a + g[b] <= y + b
  <2> DEFINE p == Len(fwd)
             q == Len(bwd)
  <2>0. p \in Nat /\ q \in Nat /\ p + q <= x /\ a <= q /\ \A b \in Nat : f[b] <= p
    BY <1>a, <1>4, <1>5
  <2> HIDE DEF s, a, f, g, x, y, n, p, q
  <2> SUFFICES ASSUME NEW b \in (n + 1)..(s + 1) PROVE s + a + g[b] <= y + b
    OBVIOUS
  <2>1. b \in Nat /\ f[b] \in Nat /\ g[b] \in Nat /\ g[b] <= f[b] + 1
    BY <1>3, <1>7
  <2>2. CASE b <= s
    <3>1. g[b] = f[b] /\ s + a + f[b] <= x + b
      BY <1>3, <1>6, <2>1, <2>2
    <3> QED BY <1>4, <1>7, <2>1, <3>1
  <2>3. CASE b = s + 1
    <3>1. f[b] <= p
      BY <2>0, <2>1
    <3> QED BY <1>4, <1>7, <2>0, <2>1, <2>3, <3>1
  <2> QED BY <1>7, <2>1, <2>2, <2>3
<1>9. \A b \in (n + 1)..(s + 1) : b \in Nat
  <2> HIDE DEF s, n, x, y
  <2> QED BY <1>7
<1> QED BY <1>8, <1>9 DEF Lead

(* A block that is read and acknowledged no longer counts for those ahead. *)
LEMMA LeadReads ==
  ASSUME Bounded, Types, Types', Lead, ~RcvDone, Slack <= Slack', snd' = snd, Kept' \in {Kept, Kept + 1},
         fwd # <<>>, fwd' = Tail(fwd), Head(fwd) \in Frames, Head(fwd).data = Kept',
         bwd' = Append(bwd, Byte("ACK"))
  PROVE  Lead'
<1>a. /\ snd.blk \in Nat /\ Kept \in Nat /\ Slack \in Nat /\ faults' \in Nat /\ stale' \in BOOLEAN
      /\ Kept' \in Nat
  BY Fields, FieldsNext
<1>b. Slack' \in Nat
  BY <1>a DEF Slack
<1> DEFINE s == snd.blk
           a == Count(bwd, Acks)
           c == Count(bwd', Acks)
           f == [b \in Nat |-> Count(fwd, Below(b))]
           g == [b \in Nat |-> Count(fwd', Below(b))]
           x == Slack
           y == Slack'
           n == Kept
           k == Kept'
<1>1. \A b \in Nat : k < b => Head(fwd) \in Below(b)
  BY DEF Below
<1>2. \A b \in Nat : g[b] \in Nat /\ f[b] = g[b] + (IF Head(fwd) \in Below(b) THEN 1 ELSE 0)
  BY Counts
<1>3. \A b \in Nat : g[b] \in Nat /\ (k < b => f[b] = g[b] + 1)
  BY <1>1, <1>2
<1>4. a \in Nat /\ c = a + 1
  BY Counts
<1>5. \A b \in (n + 1)..(s + 1) : s + a + f[b] <= x + b
  <2>1. \A b \in (n + 1)..(s + 1) : b \in Nat
    BY <1>a
  <2> QED BY <2>1 DEF Lead
<1>6. s \in Nat /\ n \in Nat /\ x \in Nat /\ y \in Nat /\ x <= y /\ k \in {n, n + 1}
  BY <1>a, <1>b
<1>7. \A b \in (k + 1)..(s + 1) : s + c + g[b] <= y + b
  <2> HIDE DEF s, a, c, f, g, x, y, n, k
  <2> SUFFICES ASSUME NEW b \in (k + 1)..(s + 1) PROVE s + c + g[b] <= y + b
    OBVIOUS
  <2>1. b \in Nat /\ b \in (n + 1)..(s + 1) /\ k < b
    BY <1>6
  <2>2. g[b] \in Nat /\ f[b] = g[b] + 1 /\ s + a + f[b] <= x + b
    BY <1>3, <1>5, <2>1
  <2> QED BY <1>4, <1>6, <2>1, <2>2
<1>8. \A b \in (k + 1)..(s + 1) : b \in Nat
  <2> HIDE DEF s, a, c, f, g, x, y, n, k
  <2> QED BY <1>6
<1> QED BY <1>7, <1>8 DEF Lead

(* Every step keeps the bound on how far the sender is ahead.              *)
LEMMA LeadStep ==
  ASSUME Bounded, Types, Phases, InOrder, InFlight, Turns, Lead, [Next]_xvars
  PROVE  Lead'
<1>a. /\ Types' /\ snd.blk \in Nat /\ Kept \in Nat /\ Blocks \in Nat /\ 1 <= snd.blk
      /\ fwd \in Seq(FwdMsgs) /\ bwd \in Seq(BwdMsgs) /\ fwd' \in Seq(FwdMsgs) /\ bwd' \in Seq(BwdMsgs)
      /\ Slack <= Slack'
  BY Fields, FieldsNext, StepDoes, SlackGrows
<1> SUFFICES ASSUME ~RcvDone' PROVE Lead'
  BY DEF Lead
<1>b. rcv' = rcv => ~RcvDone /\ Kept' = Kept
  BY DEF RcvDone, Kept
<1>c. RcvSame => Kept' = Kept
  BY DEF RcvSame, Kept
<1>d. /\ Count(bwd, Acks) \in Nat /\ \A b : Count(fwd, Below(b)) \in Nat
  BY Counts
<1>e. fwd' = fwd \/ fwd' = Append(fwd, Byte("CAN")) \/ fwd' = Append(fwd, Byte("EOT"))
        => \A b \in Nat : Count(fwd', Below(b)) <= Count(fwd, Below(b))
  <2>1. \A b \in Nat : /\ Count(fwd, Below(b)) \in Nat
                       /\ Count(Append(fwd, Byte("CAN")), Below(b)) = Count(fwd, Below(b))
                       /\ Count(Append(fwd, Byte("EOT")), Below(b)) = Count(fwd, Below(b))
    BY Counts, Messages
  <2>2. \A b \in Nat : /\ Count(fwd, Below(b)) <= Count(fwd, Below(b))
                       /\ Count(Append(fwd, Byte("CAN")), Below(b)) <= Count(fwd, Below(b))
                       /\ Count(Append(fwd, Byte("EOT")), Below(b)) <= Count(fwd, Below(b))
    BY <2>1
  <2> QED BY <2>2
<1>f. bwd' = bwd \/ (\E m \in BwdMsgs \ Acks : bwd' = Append(bwd, m)) \/ (bwd # <<>> /\ bwd' = Tail(bwd))
        => Count(bwd', Acks) <= Count(bwd, Acks)
  <2>1. bwd' = bwd => Count(bwd', Acks) <= Count(bwd, Acks)
    BY <1>d
  <2>2. ASSUME NEW m \in BwdMsgs \ Acks, bwd' = Append(bwd, m) PROVE Count(bwd', Acks) <= Count(bwd, Acks)
    <3>1. Count(bwd', Acks) = Count(bwd, Acks)
      BY <2>2, Counts
    <3> QED BY <1>d, <3>1
  <2>3. ASSUME bwd # <<>>, bwd' = Tail(bwd) PROVE Count(bwd', Acks) <= Count(bwd, Acks)
    <3>1. /\ Count(bwd', Acks) \in Nat
          /\ Count(bwd, Acks) = Count(bwd', Acks) + (IF Head(bwd) \in Acks THEN 1 ELSE 0)
      BY <2>3, Counts
    <3> QED BY <3>1
  <2> QED BY <2>1, <2>2, <2>3
<1>g. fwd # <<>> /\ fwd' = Tail(fwd) => \A b \in Nat : Count(fwd', Below(b)) <= Count(fwd, Below(b))
  <2>1. SUFFICES ASSUME fwd # <<>>, fwd' = Tail(fwd), NEW b \in Nat
                 PROVE  Count(fwd', Below(b)) <= Count(fwd, Below(b))
    OBVIOUS
  <2>2. /\ Count(fwd', Below(b)) \in Nat
        /\ Count(fwd, Below(b)) = Count(fwd', Below(b)) + (IF Head(fwd) \in Below(b) THEN 1 ELSE 0)
    BY <2>1, Counts
  <2> QED BY <2>2
<1>1. CASE SndReads
  <2>1. /\ bwd # <<>> /\ bwd' = Tail(bwd) /\ rcv' = rcv
        /\ fwd' = fwd \/ fwd' = Append(fwd, Byte("CAN"))
        /\ snd'.blk = snd.blk \/ (Head(bwd) \in Acks /\ snd'.blk = snd.blk + 1)
    BY <1>1 DEF SndReads
  <2>2. Kept <= snd.blk
    BY DEF InOrder
  <2>3. CASE snd'.blk = snd.blk
    BY <1>a, <1>b, <1>e, <1>f, <2>1, <2>3, LeadKept
  <2>4. CASE Head(bwd) \in Acks /\ snd'.blk = snd.blk + 1
    BY <1>a, <1>b, <1>e, <2>1, <2>2, <2>4, LeadOnward
  <2> QED BY <2>1, <2>3, <2>4
<1>2. CASE SndExpires
  <2>1. /\ bwd' = bwd /\ rcv' = rcv /\ snd'.blk = snd.blk
        /\ fwd' = fwd \/ fwd' = Append(fwd, Byte("CAN"))
    BY <1>2 DEF SndExpires
  <2> QED BY <1>a, <1>b, <1>e, <1>f, <2>1, LeadKept
<1>3. CASE SndWrites
  <2>1. bwd' = bwd /\ rcv' = rcv /\ snd'.blk = snd.blk
    BY <1>3 DEF SndWrites
  <2>2. CASE fwd' = fwd \/ fwd' = Append(fwd, Byte("CAN")) \/ fwd' = Append(fwd, Byte("EOT"))
    BY <1>a, <1>b, <1>e, <1>f, <2>1, <2>2, LeadKept
  <2>3. CASE /\ snd.pc = "send" /\ snd.blk <= Blocks /\ fwd' = Append(fwd, Frame(snd.blk, snd.mode))
    <3>1. snd.blk \in 1..Blocks
      BY <1>a, <2>3
    <3> QED BY <1>a, <1>b, <2>1, <2>3, <3>1, LeadWrites
  <2> QED BY <1>3, <2>2, <2>3 DEF SndWrites
<1>4. CASE RcvReads
  <2>0. ~RcvDone /\ snd' = snd /\ fwd # <<>> /\ fwd' = Tail(fwd)
    BY <1>4 DEF RcvReads, RcvDone
  <2>n. Byte("NAK") \in BwdMsgs \ Acks
    BY Messages
  <2>1. CASE RcvSame /\ bwd' \in {bwd, Append(bwd, Byte("NAK"))}
    BY <1>a, <1>c, <1>f, <1>g, <2>0, <2>n, <2>1, LeadKept
  <2>2. CASE RcvSame /\ bwd' = Append(bwd, Byte("ACK")) /\ Head(fwd) \in Frames /\ Head(fwd).num = rcv.last
    <3>1. Head(fwd).data = Kept
      BY <2>0, <2>2, HeadNumber
    <3> QED BY <1>a, <1>c, <2>0, <2>2, <3>1, LeadReads
  <2>3. CASE Keeps
    <3>1. /\ Head(fwd) \in Frames /\ Head(fwd).data = Kept' /\ Kept' = Kept + 1
          /\ bwd' = Append(bwd, Byte("ACK"))
      BY <2>3 DEF Keeps
    <3> QED BY <1>a, <2>0, <3>1, LeadReads
  <2>4. CASE RcvSame /\ Kept' = Kept
    <3>1. rcv'.data # Append(rcv.data, Head(fwd).data) \/ ~(Head(fwd) \in Frames)
      <4>1. CASE Head(fwd) \in Frames
        <5>1. Head(fwd).data \in Nat /\ rcv.data \in Seq(Nat)
          BY <4>1, Fields DEF Frames
        <5>2. Len(Append(rcv.data, Head(fwd).data)) # Len(rcv.data)
          BY <5>1
        <5> QED BY <2>4, <5>2 DEF RcvSame
      <4> QED BY <4>1
    <3> QED BY <1>4, <2>1, <2>2, <2>4, <3>1 DEF RcvReads
  <2> QED BY <2>3, <2>4, KeepsNext
<1>5. CASE RcvExpires
  <2>1. /\ ~RcvDone /\ fwd' = fwd /\ snd' = snd /\ RcvSame
        /\ bwd' = bwd \/ bwd' = Append(bwd, Byte("NAK"))
    BY <1>5 DEF RcvExpires, RcvDone
  <2>2. Byte("NAK") \in BwdMsgs \ Acks
    BY Messages
  <2> QED BY <1>a, <1>c, <1>e, <1>f, <2>1, <2>2, LeadKept
<1>6. CASE RcvWrites
  <2>1. /\ ~RcvDone /\ fwd' = fwd /\ snd' = snd /\ RcvSame
        /\ bwd' = bwd \/ (\E m \in BwdMsgs \ Acks : bwd' = Append(bwd, m))
    BY <1>6 DEF RcvWrites, RcvDone
  <2> QED BY <1>a, <1>c, <1>e, <1>f, <2>1, LeadKept
<1>7. CASE LineFault
  <2>1. UNCHANGED <<snd, rcv>>
    BY <1>7, FaultDoes
  <2>2. CASE FaultOn(fwd, FwdMsgs) /\ bwd' = bwd
    <3>1. \A b \in Nat : Count(fwd', Below(b)) <= Count(fwd, Below(b))
      BY <1>a, <2>2, Spoilt DEF FaultOn, Spoils
    <3> QED BY <1>a, <1>b, <1>f, <2>1, <2>2, <3>1, LeadKept
  <2>3. CASE FaultOn(bwd, BwdMsgs) /\ fwd' = fwd
    <3>1. Count(bwd', Acks) <= Count(bwd, Acks)
      BY <1>a, <2>3, Spoilt DEF FaultOn, Spoils
    <3> QED BY <1>a, <1>b, <1>e, <2>1, <2>3, <3>1, LeadKept
  <2> QED BY <1>7, <2>2, <2>3, FaultDoes
<1>8. CASE UNCHANGED <<snd, rcv, fwd, bwd, faults, stale>>
  BY <1>8, <1>a, <1>b, <1>e, <1>f, LeadKept
<1> QED BY <1>1, <1>2, <1>3, <1>4, <1>5, <1>6, <1>7, <1>8, StepDoes

(* Every step keeps a completed receiver with the whole file.              *)
LEMMA EndsWholeStep ==
  ASSUME Bounded, Types, Phases, InOrder, InFlight, Lead, EndsWhole, [Next]_xvars
  PROVE  EndsWhole'
<1>a. /\ Kept \in Nat /\ Blocks \in Nat /\ snd.blk \in Nat /\ stale \in BOOLEAN /\ stale' \in BOOLEAN
      /\ fwd \in Seq(FwdMsgs) /\ Len(fwd) \in Nat /\ Slack \in Nat /\ (stale => stale')
  BY Fields, FieldsNext, StepDoes, SlackGrows
<1>1. SUFFICES ASSUME rcv'.pc = "completed", ~stale' PROVE Kept' = Blocks
  BY DEF EndsWhole
<1>2. ~stale /\ Slack = 0
  BY <1>a, <1>1 DEF Slack
<1>3. CASE rcv' = rcv
  BY <1>1, <1>2, <1>3 DEF EndsWhole, Kept
<1>4. CASE RcvReads
  <2>1. RcvSame /\ Head(fwd).k = "EOT" /\ rcv.pc = "header" /\ fwd # <<>>
    BY <1>1, <1>4 DEF RcvReads
  <2>2. 1 \in 1..Len(fwd) /\ fwd[1].k = "EOT" /\ ~RcvDone
    BY <1>a, <2>1, Channels DEF RcvDone
  <2>3. snd.blk = Blocks + 1 /\ Kept <= Blocks
    BY <2>2 DEF Phases, InOrder
  <2>4. Kept + 1 \in (Kept + 1)..(snd.blk + 1)
    BY <1>a, <2>3
  <2>5. snd.blk + Count(bwd, Acks) + Count(fwd, Below(Kept + 1)) <= 0 + (Kept + 1)
    BY <1>2, <2>2, <2>4 DEF Lead
  <2>6. Count(bwd, Acks) \in Nat /\ Count(fwd, Below(Kept + 1)) \in Nat
    BY Counts
  <2>7. Kept = Blocks
    BY <1>a, <2>3, <2>5, <2>6
  <2> QED BY <2>1, <2>7 DEF RcvSame, Kept
<1> QED BY <1>1, <1>3, <1>4, StepDoes, FaultDoes DEF SndReads, SndExpires, SndWrites, RcvExpires, RcvWrites

(* The invariant holds before the first request.                           *)
LEMMA DeliveryStart ==
  ASSUME Bounded, Init
  PROVE  DeliveryInv
<1>1. /\ snd = [pc |-> "getnak", blk |-> 1, try |-> 0, mode |-> "none"]
      /\ rcv = [pc |-> "request", mode |-> 1, try |-> 0, started |-> FALSE, data |-> <<>>, last |-> 0]
      /\ fwd = <<>> /\ bwd = <<>> /\ faults = 0 /\ stale = FALSE
  BY DEF Init, LineInit
<1>2. snd \in SndStates /\ snd.pc = "getnak" /\ snd.blk = 1
  BY <1>1 DEF SndStates, SndPcs, Checks, Bounded
<1>3. rcv \in RcvStates /\ rcv.pc = "request" /\ rcv.data = <<>> /\ rcv.last = 0 /\ Kept = 0
  BY <1>1 DEF RcvStates, RcvPcs, Kept
<1>4. Types
  <2>1. fwd \in Seq(FwdMsgs) /\ bwd \in Seq(BwdMsgs)
    <3>1. \A S : <<>> \in Seq(S)
      OBVIOUS
    <3>2. fwd = <<>> /\ bwd = <<>>
      BY <1>1
    <3> QED BY <3>1, <3>2
  <2>2. faults \in 0..MaxFaults
    BY <1>1 DEF Bounded
  <2>3. stale \in BOOLEAN
    BY <1>1, Zenon
  <2> QED BY <1>2, <1>3, <2>1, <2>2, <2>3 DEF Types
<1>5. fwd = <<>> /\ bwd = <<>> /\ Len(fwd) = 0 /\ Len(bwd) = 0 /\ Slack = 0 /\ Blocks \in Nat
  BY <1>1 DEF Slack, Bounded
<1>6. Phases
  BY <1>2, <1>3, <1>5 DEF Phases
<1>7. InOrder
  <2>1. 0 % SeqMod = 0
    <3>1. 0 = SeqMod * 0 + 0 /\ SeqMod \in Nat /\ SeqMod > 0 /\ 0 \in 0..(SeqMod - 1)
      BY DEF Bounded
    <3> QED BY <3>1, Remainder
  <2> QED BY <1>2, <1>3, <1>5, <2>1 DEF InOrder
<1>8. InFlight
  BY <1>5 DEF InFlight
<1>9. Turns
  BY <1>2, <1>3, <1>5 DEF Turns, Turn
<1>10. Lead
  <2>1. Hits(bwd, Acks) = {} /\ \A b : Hits(fwd, Below(b)) = {}
    BY <1>5 DEF Hits
  <2>2. Count(bwd, Acks) = 0 /\ \A b : Count(fwd, Below(b)) = 0
    BY <2>1, FS_EmptySet DEF Count
  <2> QED BY <1>2, <1>3, <1>5, <2>2 DEF Lead
<1>11. EndsWhole
  BY <1>3 DEF EndsWhole
<1> QED BY <1>4, <1>6, <1>7, <1>8, <1>9, <1>10, <1>11 DEF DeliveryInv

(* Every step keeps the invariant.                                         *)
LEMMA DeliveryStep ==
  ASSUME Bounded, DeliveryInv, [Next]_xvars
  PROVE  DeliveryInv'
<1>1. Types /\ Phases /\ InOrder /\ InFlight /\ Turns /\ Lead /\ EndsWhole
  BY DEF DeliveryInv
<1> QED BY <1>1, StepDoes, PhasesStep, InOrderStep, InFlightStep, TurnsStep, LeadStep, EndsWholeStep
        DEF DeliveryInv

------------------------------------------------------------------------------
(* The theorems *)

(* Every state of a transfer keeps the beginning of the file in order and  *)
(* tells the blocks it reads apart: the retries of send_block, the answers *)
(* of xmodem_receive and what the line does to both taken together.        *)
THEOREM DeliveryInvHolds ==
  ASSUME Bounded
  PROVE  Spec => []DeliveryInv
<1>1. Init => DeliveryInv
  BY DeliveryStart
<1>2. DeliveryInv /\ [Next]_xvars => DeliveryInv'
  BY DeliveryStep
<1> QED BY <1>1, <1>2, PTL DEF Spec

(* A transfer starts with nothing kept.                                    *)
LEMMA DeliveryStarts == Init => Delivery!Init
<1>1. SUFFICES ASSUME Init PROVE rcv.data = <<>> /\ Verdict = "running"
  BY DEF Delivery!Init
<1>2. rcv.data = <<>> /\ rcv.pc = "request"
  BY <1>1 DEF Init
<1> QED BY <1>2 DEF Verdict

(* Every step of a transfer keeps the next block, ends the transfer or     *)
(* changes nothing that ordered delivery speaks of.                        *)
LEMMA DeliveryRefines ==
  ASSUME Bounded
  PROVE  DeliveryInv /\ [Next]_xvars => [Delivery!Next]_<<rcv.data, Verdict>>
<1>1. SUFFICES ASSUME DeliveryInv, [Next]_xvars PROVE [Delivery!Next]_<<rcv.data, Verdict>>
  OBVIOUS
<1>2. Types /\ Phases /\ InOrder /\ InFlight /\ Lead
  BY <1>1 DEF DeliveryInv
<1>3. Blocks \in Nat /\ Kept \in Nat /\ rcv.pc \in RcvPcs /\ rcv'.pc \in RcvPcs
  BY <1>1, <1>2, Fields, FieldsNext, StepDoes
<1>4. Verdict' = Verdict \/ (Verdict = "running" /\ Verdict' \in {"completed", "failed"})
  <2>1. rcv'.pc = rcv.pc \/ rcv.pc \notin {"completed", "failed", "error"}
    BY <1>1, <1>2, StepDoes, FaultDoes
       DEF SndReads, SndExpires, SndWrites, RcvReads, RcvExpires, RcvWrites
  <2> QED BY <2>1 DEF Verdict
<1>5. CASE RcvSame
  <2>1. rcv'.data = rcv.data
    BY <1>5 DEF RcvSame
  <2> QED BY <1>4, <2>1 DEF Delivery!Next, Delivery!End
<1>6. CASE Keeps
  <2>1. Payload \in [1..Blocks -> Nat] /\ Len(Payload) = Blocks
    BY <1>3 DEF Payload
  <2>2. /\ rcv'.data = Append(rcv.data, Kept + 1) /\ Kept + 1 <= Blocks /\ ~RcvDone
    BY <1>6 DEF Keeps
  <2>3. Payload[Kept + 1] = Kept + 1
    BY <1>3, <2>2 DEF Payload
  <2>4. Kept < Blocks
    BY <1>3, <2>2
  <2>5. rcv'.pc = "top" /\ Verdict = "running" /\ Verdict' = "running"
    <3>1. rcv' # rcv /\ ~RcvSame
      <4>1. Kept' = Kept + 1
        BY <1>6 DEF Keeps
      <4> QED BY <1>3, <4>1 DEF Kept, RcvSame
    <3>2. rcv'.pc = "top"
      BY <1>1, <1>2, <3>1, StepDoes, FaultDoes
         DEF SndReads, SndExpires, SndWrites, RcvReads, RcvExpires, RcvWrites
    <3> QED BY <2>2, <3>2 DEF Verdict, RcvDone
  <2>6. Delivery!Store
    BY <2>1, <2>2, <2>3, <2>4, <2>5 DEF Delivery!Store, Kept
  <2> QED BY <2>6 DEF Delivery!Next
<1> QED BY <1>1, <1>2, <1>5, <1>6, KeepsNext

(* XMODEM implements ordered delivery: what xmodem_receive keeps grows by  *)
(* the next block of the file and nothing else, never one twice or out of  *)
(* turn, and nothing after the end.                                        *)
THEOREM ImplementsDelivery ==
  ASSUME Bounded
  PROVE  Spec => Delivery!Spec
BY DeliveryStarts, DeliveryRefines, DeliveryInvHolds, PTL DEF Spec, Delivery!Spec

(* A file both ends report as completed is whole unless an answer came too *)
(* late: losses and damage alone never cost a block.                       *)
THEOREM WholeFileHolds ==
  ASSUME Bounded
  PROVE  Spec => []WholeFile
<1>1. DeliveryInv => WholeFile
  <2>1. SUFFICES ASSUME DeliveryInv, rcv.pc = "completed", ~stale PROVE rcv.data = Payload
    BY DEF WholeFile
  <2>2. rcv.data \in Seq(Nat) /\ Blocks \in Nat /\ Kept = Blocks
    BY <2>1, Fields DEF DeliveryInv, EndsWhole
  <2>3. \A i \in 1..Blocks : rcv.data[i] = i
    BY <2>1, <2>2 DEF DeliveryInv, InOrder
  <2>4. rcv.data = [i \in 1..Blocks |-> rcv.data[i]]
    BY <2>2 DEF Kept
  <2> QED BY <2>3, <2>4 DEF Payload
<1> QED BY <1>1, DeliveryInvHolds, PTL
==============================================================================
