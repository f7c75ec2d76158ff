------------------------------- MODULE YModem -------------------------------
(***************************************************************************)
(* YMODEM, src-tauri/src/transfer/ymodem.rs: a batch of files between two  *)
(* instances of this program.  Block 0 names a file, its data blocks       *)
(* follow, EOT ends it and an empty block 0 ends the batch.                *)
(*                                                                         *)
(* The receiver keeps every undamaged data block that does not repeat the  *)
(* number of the last one; it compares no block with an expected number.   *)
(* Block number 0 is metadata unless the frame is a 1024-byte one (STX).   *)
(* Not modelled: the 'G' (streaming) request and the double EOT of foreign *)
(* receivers, and the repair of metadata without a NUL.                    *)
(***************************************************************************)
EXTENDS SerialLine

CONSTANTS Files,        \* number of files
          BlocksOf,     \* data blocks of a file: [1..Files -> Nat]
          BigBlocks,    \* TRUE: 1024-byte data blocks (STX), FALSE: 128 (SOH)
          SeqMod,       \* block numbers are taken modulo this (256 in the code)
          MaxRetries,   \* MAX_RETRIES
          InitTries     \* INIT_C_RETRIES

VARIABLES snd,          \* the sender: [pc, f, blk, try, res]
          rcv,          \* the receiver: [pc, try, cur, data, last, res]
          cancelled     \* sides whose user asked to stop

yvars == <<snd, rcv, cancelled, fwd, bwd, faults, stale>>

NoFile == 0
Payload(f) == [i \in 1..BlocksOf[f] |-> i]

MetaFrame(f) == [k |-> "frame", num |-> 0, stx |-> FALSE, meta |-> f, data |-> 0, ok |-> "good"]
DataFrame(f, i) == [k |-> "frame", num |-> i % SeqMod, stx |-> BigBlocks,
                    meta |-> NoFile, data |-> i, ok |-> "good"]

Done(p) == p.pc \in {"ok", "error"}

Init ==
    /\ LineInit
    /\ snd = [pc |-> "ready", f |-> 1, blk |-> 0, try |-> 0, res |-> <<>>]
    /\ rcv = [pc |-> "probe", try |-> 0, cur |-> NoFile, data |-> <<>>, last |-> 0, res |-> <<>>]
    /\ cancelled = {}

SndKeeps == UNCHANGED <<rcv, cancelled>>
RcvKeeps == UNCHANGED <<snd, cancelled>>

SndTimesOut == TimesOut(bwd, fwd, ~Done(rcv), rcv.pc = "probe")
RcvTimesOut == TimesOut(fwd, bwd, ~Done(snd), snd.pc \in {"send", "eot", "end", "file"})

------------------------------------------------------------------------------
(* The sender *)

(* Phase 1: wait for C, through 3 * MAX_RETRIES windows.                   *)
SndReady ==
    /\ snd.pc = "ready"
    /\ SndKeeps
    /\ \/ /\ "snd" \in cancelled
          /\ snd' = [snd EXCEPT !.pc = "error"] /\ fwd' = Append(fwd, Byte("CAN"))
          /\ UNCHANGED <<bwd, faults, stale>>
       \/ /\ "snd" \notin cancelled /\ bwd # <<>> /\ bwd' = Tail(bwd)
          /\ snd' = CASE Kind(bwd) \in {"C", "NAK"} -> [snd EXCEPT !.pc = "file", !.try = 0]
                      [] Kind(bwd) = "CAN" -> [snd EXCEPT !.pc = "error"]
                      [] OTHER -> snd
          /\ UNCHANGED <<fwd, faults, stale>>
       \/ /\ "snd" \notin cancelled /\ SndTimesOut
          /\ snd' = IF snd.try + 1 = InitTries THEN [snd EXCEPT !.pc = "error"]
                    ELSE [snd EXCEPT !.try = @ + 1]
          /\ UNCHANGED <<fwd, bwd>>

(* Records the result of the current file and turns to the next.           *)
NextFile(status) ==
    [snd EXCEPT !.res = Append(@, status), !.f = @ + 1, !.blk = 0, !.try = 0,
                !.pc = IF snd.f = Files THEN "end" ELSE "between"]

(* wait_for_nak_or_c before every file but the first, and before the data  *)
(* of a file: a timeout ends the batch.                                    *)
SndWaitC(at, goal) ==
    /\ snd.pc = at
    /\ SndKeeps
    /\ \/ /\ bwd # <<>> /\ bwd' = Tail(bwd)
          /\ UNCHANGED <<faults, stale>>
          /\ snd' = CASE Kind(bwd) \in {"C", "NAK"} -> goal
                      [] Kind(bwd) = "CAN" -> [snd EXCEPT !.pc = "error"]
                      [] OTHER -> snd
          /\ fwd' = IF Kind(bwd) = "CAN" /\ at = "wantC" THEN Append(fwd, Byte("CAN")) ELSE fwd
       \/ /\ SndTimesOut
          /\ snd' = [snd EXCEPT !.pc = "error"]
          /\ UNCHANGED <<fwd, bwd>>

SndBetween ==
    \/ /\ snd.pc = "between" /\ "snd" \in cancelled
       /\ snd' = [snd EXCEPT !.pc = "error"] /\ fwd' = Append(fwd, Byte("CAN"))
       /\ SndKeeps /\ UNCHANGED <<bwd, faults, stale>>
    \/ "snd" \notin cancelled /\ SndWaitC("between", [snd EXCEPT !.pc = "file"])

SndWantData == SndWaitC("wantC", [snd EXCEPT !.pc = "send", !.blk = 1])

(* Opens the file; one that cannot be opened is recorded and skipped.      *)
SndOpen ==
    /\ snd.pc = "file"
    /\ SndKeeps
    /\ UNCHANGED <<bwd, faults, stale>>
    /\ \/ /\ "snd" \in cancelled /\ snd.f = 1
          /\ snd' = [snd EXCEPT !.pc = "error"] /\ fwd' = Append(fwd, Byte("CAN"))
       \/ /\ ~("snd" \in cancelled /\ snd.f = 1)
          /\ snd' \in {[snd EXCEPT !.pc = "send"], NextFile("failed")}
          /\ UNCHANGED fwd

(* A failed block: metadata just fails the file; data also sends the       *)
(* cancel sequence and drains what has arrived.                            *)
SndFailBlock ==
    /\ snd' = NextFile("failed")
    /\ IF snd.blk = 0 THEN UNCHANGED fwd ELSE fwd' = Append(fwd, Byte("CAN"))

(* send_block, the write: or a read error, the end of the file, a cancel.  *)
SndBlock ==
    /\ snd.pc = "send"
    /\ SndKeeps
    /\ UNCHANGED <<bwd, faults, stale>>
    /\ \/ /\ "snd" \in cancelled /\ snd.blk > 0 /\ snd.try = 0
          /\ snd' = [snd EXCEPT !.pc = "error"] /\ fwd' = Append(fwd, Byte("CAN"))
       \/ "snd" \in cancelled /\ (snd.blk = 0 \/ snd.try > 0) /\ SndFailBlock
       \/ "snd" \notin cancelled /\ snd.blk \in 1..BlocksOf[snd.f] /\ snd.try = 0 /\ SndFailBlock
       \/ /\ "snd" \notin cancelled /\ snd.blk <= BlocksOf[snd.f]
          /\ snd' = [snd EXCEPT !.pc = "await"]
          /\ fwd' = Append(fwd, IF snd.blk = 0 THEN MetaFrame(snd.f) ELSE DataFrame(snd.f, snd.blk))
       \/ /\ "snd" \notin cancelled /\ snd.blk > BlocksOf[snd.f]
          /\ snd' = [snd EXCEPT !.pc = "eot", !.try = 0] /\ UNCHANGED fwd

(* send_block, the response window: C, NAK and silence repeat the block,   *)
(* other bytes are skipped.                                                *)
SndAwait ==
    /\ snd.pc = "await"
    /\ SndKeeps
    /\ LET retry == IF snd.try = MaxRetries - 1 THEN SndFailBlock
                    ELSE snd' = [snd EXCEPT !.pc = "send", !.try = @ + 1] /\ UNCHANGED fwd
       IN \/ /\ bwd # <<>>
             /\ UNCHANGED <<faults, stale>>
             /\ CASE Kind(bwd) = "ACK" ->
                       /\ snd' = IF snd.blk = 0 THEN [snd EXCEPT !.pc = "wantC", !.try = 0]
                                 ELSE [snd EXCEPT !.pc = "send", !.blk = @ + 1, !.try = 0]
                       /\ UNCHANGED fwd
                  [] Kind(bwd) = "CAN" -> SndFailBlock
                  [] Kind(bwd) \in {"C", "NAK"} -> retry
                  [] OTHER -> UNCHANGED <<snd, fwd>>
             /\ bwd' \in {Tail(bwd)} \cup (IF snd'.f # snd.f /\ snd.blk > 0 THEN {<<>>} ELSE {})
          \/ SndTimesOut /\ retry /\ UNCHANGED bwd

SndEot ==
    /\ snd.pc = "eot"
    /\ SndKeeps
    /\ UNCHANGED <<bwd, faults, stale>>
    /\ IF "snd" \in cancelled THEN snd' = NextFile("failed") /\ UNCHANGED fwd
       ELSE snd' = [snd EXCEPT !.pc = "awaitEot"] /\ fwd' = Append(fwd, Byte("EOT"))

(* send_eot: ACK, or C straight away, completes the file.                  *)
SndAwaitEot ==
    /\ snd.pc = "awaitEot"
    /\ SndKeeps
    /\ UNCHANGED fwd
    /\ LET retry == IF snd.try = MaxRetries - 1 THEN NextFile("failed")
                    ELSE [snd EXCEPT !.pc = "eot", !.try = @ + 1]
       IN \/ /\ bwd # <<>> /\ bwd' = Tail(bwd)
             /\ UNCHANGED <<faults, stale>>
             /\ snd' = CASE Kind(bwd) \in {"ACK", "C"} -> NextFile("completed")
                         [] Kind(bwd) = "CAN" -> NextFile("failed")
                         [] OTHER -> retry
          \/ SndTimesOut /\ snd' = retry /\ UNCHANGED bwd

(* Phase 3: the empty block 0, whose answer nobody waits for.              *)
SndEnd ==
    /\ snd.pc = "end"
    /\ SndKeeps
    /\ UNCHANGED <<bwd, faults, stale>>
    /\ snd' = [snd EXCEPT !.pc = "ok"]
    /\ fwd' = Append(fwd, MetaFrame(NoFile))

------------------------------------------------------------------------------
(* The receiver *)

Result(f, status, data) == [f |-> f, status |-> status, data |-> data]

(* The current file, if any, is closed as completed.                       *)
CloseCurrent ==
    IF rcv.cur = NoFile THEN rcv.res
    ELSE Append(rcv.res, Result(rcv.cur, "completed", rcv.data))

(* Phase 1: one C per window.                                              *)
RcvProbe ==
    /\ rcv.pc = "probe"
    /\ RcvKeeps
    /\ UNCHANGED <<fwd, faults, stale>>
    /\ IF "rcv" \in cancelled
       THEN rcv' = [rcv EXCEPT !.pc = "error"] /\ bwd' = Append(bwd, Byte("CAN"))
       ELSE rcv' = [rcv EXCEPT !.pc = "probing"] /\ bwd' = Append(bwd, Byte("C"))

NextProbe == IF rcv.try + 1 = InitTries THEN [rcv EXCEPT !.pc = "error"]
             ELSE [rcv EXCEPT !.pc = "probe", !.try = @ + 1]

(* Block 0 in the receive loop: the empty one ends the batch; any other    *)
(* opens the file it names, or ends the session if that fails.  A file     *)
(* still open is closed as completed first.                                *)
RcvMeta(f) ==
    \/ /\ rcv' = IF f = NoFile
                 THEN [rcv EXCEPT !.pc = "ok", !.cur = NoFile, !.res = CloseCurrent]
                 ELSE [rcv EXCEPT !.pc = "top", !.cur = f, !.data = <<>>, !.last = SeqMod,
                                  !.res = CloseCurrent]
       /\ bwd' = bwd \o IF f = NoFile THEN <<Byte("ACK")>> ELSE <<Byte("ACK"), Byte("C")>>
    \/ f # NoFile /\ rcv' = [rcv EXCEPT !.pc = "error"] /\ UNCHANGED bwd

(* The undamaged first frame, acknowledged before it is looked at.         *)
RcvFirst(m) ==
    \/ /\ m.num = 0 /\ m.meta = NoFile
       /\ rcv' = [rcv EXCEPT !.pc = "ok"]
       /\ bwd' = bwd \o <<Byte("ACK"), Byte("ACK")>>
    \/ /\ m.num = 0 /\ m.meta # NoFile
       /\ rcv' = [rcv EXCEPT !.pc = "top", !.cur = m.meta, !.last = SeqMod]
       /\ bwd' = bwd \o <<Byte("ACK"), Byte("C")>>
    \/ /\ m.num # 0 \/ m.meta # NoFile
       /\ rcv' = [rcv EXCEPT !.pc = "error"]
       /\ bwd' = Append(bwd, Byte("ACK"))

(* The handshake window.  A damaged first frame is answered by NAK, and    *)
(* the next window adds a C: the line then carries one answer more than    *)
(* there are frames.                                                       *)
RcvProbing ==
    /\ rcv.pc = "probing"
    /\ RcvKeeps
    /\ \/ /\ fwd # <<>> /\ fwd' = Tail(fwd)
          /\ UNCHANGED faults
          /\ LET m == Head(fwd)
             IN CASE m.k = "CAN" -> rcv' = [rcv EXCEPT !.pc = "error"] /\ UNCHANGED <<bwd, stale>>
                  [] m.k \in {"noise", "EOT"} -> UNCHANGED <<rcv, bwd, stale>>
                  [] OTHER ->
                       IF m.ok = "good" THEN RcvFirst(m) /\ UNCHANGED stale
                       ELSE rcv' = NextProbe /\ bwd' = Append(bwd, Byte("NAK")) /\ stale' = TRUE
       \/ RcvTimesOut /\ rcv' = NextProbe /\ UNCHANGED <<fwd, bwd>>

RcvTop ==
    /\ rcv.pc = "top"
    /\ RcvKeeps
    /\ UNCHANGED <<fwd, faults, stale>>
    /\ IF "rcv" \in cancelled
       THEN rcv' = [rcv EXCEPT !.pc = "error"] /\ bwd' = Append(bwd, Byte("CAN"))
       ELSE rcv' = [rcv EXCEPT !.pc = "header"] /\ UNCHANGED bwd

Repeats_Never(m) == FALSE
Repeats(m) == m.num = rcv.last

(* A data block: one that repeats the last number is only acknowledged;    *)
(* any other is written as far as the announced size goes (a size nobody   *)
(* knows is no limit), or dropped when no file is open.                    *)
RcvDataBlock(m) ==
    LET room == rcv.cur # NoFile /\ (rcv.cur \in 1..Files => Len(rcv.data) < BlocksOf[rcv.cur])
    IN /\ bwd' = Append(bwd, Byte("ACK"))
       /\ rcv' = IF Repeats(m) THEN [rcv EXCEPT !.pc = "top"]
                 ELSE [rcv EXCEPT !.pc = "top", !.last = m.num,
                                  !.data = IF room THEN Append(@, m.data) ELSE @]

(* A whole frame of the receive loop.  Number 0 in a 128-byte frame is     *)
(* metadata, whatever it carries; what a data block mistaken for metadata  *)
(* names is some other file.                                               *)
RcvFrame(m) ==
    LET isMeta == m.ok = "good" /\ m.num = 0 /\ ~m.stx
        f      == IF m.data = 0 THEN m.meta ELSE Files + 1
    IN /\ stale' = (stale \/ (isMeta /\ f = rcv.cur))
       /\ CASE m.ok = "cut" -> rcv' = [rcv EXCEPT !.pc = "error"] /\ UNCHANGED bwd
            [] m.ok = "bad" -> rcv' = [rcv EXCEPT !.pc = "top"] /\ bwd' = Append(bwd, Byte("NAK"))
            [] isMeta       -> RcvMeta(f)
            [] OTHER        -> RcvDataBlock(m)

(* EOT completes the open file; with none open a lost file is recorded.    *)
(* What has already arrived is flushed before ACK and C go out.            *)
RcvEot ==
    /\ rcv' = [rcv EXCEPT !.pc = "top", !.cur = NoFile,
                          !.res = IF rcv.cur # NoFile THEN CloseCurrent
                                  ELSE Append(@, Result(NoFile, "failed", <<>>))]
    /\ bwd' = bwd \o <<Byte("ACK"), Byte("C")>>
    /\ stale' = (stale \/ rcv.cur = NoFile)

RcvHeader ==
    /\ rcv.pc = "header"
    /\ RcvKeeps
    /\ \/ /\ fwd # <<>>
          /\ fwd' \in {Tail(fwd)} \cup (IF Kind(fwd) = "EOT" THEN {<<>>} ELSE {})
          /\ UNCHANGED faults
          /\ CASE Kind(fwd) = "CAN"   -> rcv' = [rcv EXCEPT !.pc = "error"] /\ UNCHANGED <<bwd, stale>>
               [] Kind(fwd) = "noise" -> UNCHANGED <<rcv, bwd, stale>>
               [] Kind(fwd) = "EOT"   -> RcvEot
               [] OTHER               -> RcvFrame(Head(fwd))
       \/ /\ RcvTimesOut
          /\ rcv' = [rcv EXCEPT !.pc = "error"] /\ UNCHANGED <<fwd, bwd>>

------------------------------------------------------------------------------
Cancel(side) ==
    /\ side \notin cancelled
    /\ ~Done(IF side = "snd" THEN snd ELSE rcv)
    /\ cancelled' = cancelled \cup {side}
    /\ UNCHANGED <<snd, rcv, fwd, bwd, faults, stale>>

LineFault == (Lose \/ Damage) /\ UNCHANGED <<snd, rcv, cancelled, stale>>

SndStep == SndReady \/ SndBetween \/ SndWantData \/ SndOpen \/ SndBlock \/ SndAwait
           \/ SndEot \/ SndAwaitEot \/ SndEnd
RcvStep == RcvProbe \/ RcvProbing \/ RcvTop \/ RcvHeader

Next == SndStep \/ RcvStep \/ LineFault \/ \E side \in {"snd", "rcv"} : Cancel(side)

Spec == Init /\ [][Next]_yvars

------------------------------------------------------------------------------
(* Properties *)

(* A file the sender reports as completed is, when no answer was           *)
(* superfluous, held whole by the receiver: the open file, or the last     *)
(* record of that file, has exactly its blocks.                            *)
WholeFile ==
    \A f \in 1..Len(snd.res) :
        snd.res[f] = "completed" /\ ~stale =>
            \E r \in 1..Len(rcv.res) : rcv.res[r] = Result(f, "completed", Payload(f))
=============================================================================
