------------------------------- MODULE ZModem -------------------------------
(***************************************************************************)
(* ZMODEM, src-tauri/src/transfer/zmodem.rs: a batch of files between two  *)
(* instances of this program.  ZRQINIT/ZRINIT open the session; a file is  *)
(* ZFILE, answered by ZRPOS or ZSKIP, its ZDATA frames, of which only the  *)
(* last (ZCRCW) is answered, and ZEOF, answered by ZRINIT; ZFIN and "OO"   *)
(* end the session.                                                        *)
(*                                                                         *)
(* No offset is compared: ZDATA carries position 0, ZRPOS and the position *)
(* in ZEOF are ignored.  A data frame whose CRC does not fit is logged and *)
(* used like any other (receive_binary_frame).  One data block is a unit;  *)
(* the adaptive block size only regroups bytes.                            *)
(***************************************************************************)
EXTENDS SerialLine

CONSTANTS Files,        \* number of files
          BlocksOf,     \* data blocks of a file: [1..Files -> Nat]
          MaxRetries    \* MAX_RETRIES

VARIABLES snd,          \* the sender: [pc, f, blk, try, res]
          rcv,          \* the receiver: [pc, cur, size, data, res]
          cancelled     \* sides whose user asked to stop

zvars == <<snd, rcv, cancelled, fwd, bwd, faults, stale>>

NoFile == 0
Payload(f) == [i \in 1..BlocksOf[f] |-> i]
Garbage == 0            \* the contents of a damaged block

FileFrame(f) == [k |-> "ZFILE", data |-> f, ok |-> "good"]
DataFrame(f, i) == [k |-> "ZDATA", data |-> i, last |-> i = BlocksOf[f], ok |-> "good"]

Done(p) == p.pc \in {"ok", "error"}

Init ==
    /\ LineInit
    /\ snd = [pc |-> "init", f |-> 1, blk |-> 1, try |-> 0, res |-> <<>>]
    /\ rcv = [pc |-> "wait", cur |-> NoFile, size |-> 0, data |-> <<>>, res |-> <<>>]
    /\ cancelled = {}

SndKeeps == UNCHANGED <<rcv, cancelled>>
RcvKeeps == UNCHANGED <<snd, cancelled>>

SndTimesOut == TimesOut(bwd, fwd, ~Done(rcv), FALSE)
RcvTimesOut == TimesOut(fwd, bwd, ~Done(snd), snd.pc \in {"init", "file", "data", "fin"})

------------------------------------------------------------------------------
(* The sender *)

(* Every loop head: a cancel sends the cancel sequence and gives up.       *)
SndCancelled ==
    /\ "snd" \in cancelled
    /\ snd.pc \in {"init", "file", "data", "fin"}
    /\ snd' = [snd EXCEPT !.pc = "error"]
    /\ fwd' = Append(fwd, Byte("CAN"))
    /\ SndKeeps /\ UNCHANGED <<bwd, faults, stale>>

(* Writes m and goes to pc, unless cancelled.                              *)
SndWrite(at, m, pc) ==
    /\ snd.pc = at /\ "snd" \notin cancelled
    /\ snd' = [snd EXCEPT !.pc = pc]
    /\ fwd' = Append(fwd, m)
    /\ SndKeeps /\ UNCHANGED <<bwd, faults, stale>>

(* receive_frame of the sender: on[kind] is the next state for a frame, or *)
(* the state for "other" frames and for an error (silence or a damaged     *)
(* header).  A CAN always ends the batch.                                  *)
SndReceive(at, on) ==
    /\ snd.pc = at
    /\ SndKeeps
    /\ UNCHANGED fwd
    /\ \/ /\ bwd # <<>> /\ bwd' = Tail(bwd)
          /\ UNCHANGED <<faults, stale>>
          /\ snd' \in CASE Kind(bwd) = "CAN" -> {[snd EXCEPT !.pc = "error"]}
                        [] Kind(bwd) = "noise" -> {on["other"], on["error"]}
                        [] Kind(bwd) \in DOMAIN on -> {on[Kind(bwd)]}
                        [] OTHER -> {on["other"]}
       \/ SndTimesOut /\ snd' = on["error"] /\ UNCHANGED bwd

(* Records the result of the current file and turns to the next.           *)
NextFile(status) ==
    [snd EXCEPT !.res = Append(@, status), !.f = @ + 1, !.blk = 1, !.try = 0,
                !.pc = IF snd.f = Files THEN "fin" ELSE "file"]

(* Phase 1: ZRQINIT until ZRINIT.                                          *)
SndInit == SndWrite("init", Byte("ZRQINIT"), "awaitInit")

SndAwaitInit ==
    LET again == IF snd.try = MaxRetries - 1 THEN [snd EXCEPT !.pc = "error"]
                 ELSE [snd EXCEPT !.pc = "init", !.try = @ + 1]
    IN SndReceive("awaitInit", [ZRINIT |-> [snd EXCEPT !.pc = "file", !.try = 0],
                                other |-> again, error |-> again])

(* ZFILE, or a file that cannot be opened.                                 *)
SndFile ==
    \/ SndWrite("file", FileFrame(snd.f), "awaitPos")
    \/ /\ snd.pc = "file" /\ "snd" \notin cancelled
       /\ snd' = NextFile("failed")
       /\ SndKeeps /\ UNCHANGED <<fwd, bwd, faults, stale>>

(* Only ZSKIP and silence stop the file; any other frame starts the data.  *)
SndAwaitPos ==
    LET begin == [snd EXCEPT !.pc = "data"]
    IN SndReceive("awaitPos", [ZSKIP |-> NextFile("skipped"), other |-> begin,
                               error |-> NextFile("failed")])

(* The next data block, ZEOF after the last one, or a read error, which    *)
(* cancels the receiver and goes on with the next file.                    *)
SndData ==
    \/ /\ snd.pc = "data" /\ "snd" \notin cancelled /\ snd.blk < BlocksOf[snd.f]
       /\ snd' = [snd EXCEPT !.blk = @ + 1]
       /\ fwd' = Append(fwd, DataFrame(snd.f, snd.blk))
       /\ SndKeeps /\ UNCHANGED <<bwd, faults, stale>>
    \/ snd.pc = "data" /\ snd.blk = BlocksOf[snd.f] /\ SndWrite("data", DataFrame(snd.f, snd.blk), "awaitAck")
    \/ snd.pc = "data" /\ snd.blk > BlocksOf[snd.f] /\ SndWrite("data", Byte("ZEOF"), "awaitEof")
    \/ /\ snd.pc = "data" /\ "snd" \notin cancelled
       /\ snd.blk <= BlocksOf[snd.f] /\ snd.try = 0
       /\ snd' = NextFile("failed")
       /\ fwd' = Append(fwd, Byte("CAN"))
       /\ SndKeeps /\ UNCHANGED <<bwd, faults, stale>>

(* ZACK of the last block; anything else sends that block again.           *)
SndAwaitAck ==
    LET again == IF snd.try = MaxRetries - 1 THEN NextFile("failed")
                 ELSE [snd EXCEPT !.pc = "data", !.try = @ + 1]
    IN SndReceive("awaitAck", [ZACK |-> [snd EXCEPT !.pc = "data", !.blk = @ + 1, !.try = 0],
                               other |-> again, error |-> again])

(* ZRINIT after ZEOF.  Any other frame, and silence, also complete the     *)
(* file; ZFIN ends the batch early, the files left are skipped.            *)
SndAwaitEof ==
    LET done == NextFile("completed")
    IN SndReceive("awaitEof",
           [ZFIN |-> [done EXCEPT !.pc = "fin", !.try = MaxRetries - 1,
                         !.res = @ \o [i \in 1..(Files - snd.f) |-> "skipped"]],
            other |-> done, error |-> done])

(* Phase 3: ZFIN until ZFIN; then "OO" whatever came.                      *)
SndFin == SndWrite("fin", Byte("ZFIN"), "awaitFin")

SndAwaitFin ==
    LET again == IF snd.try = MaxRetries - 1 THEN [snd EXCEPT !.pc = "ok"]
                 ELSE [snd EXCEPT !.pc = "fin", !.try = @ + 1]
    IN SndReceive("awaitFin", [ZFIN |-> [snd EXCEPT !.pc = "ok"], other |-> again, error |-> again])

------------------------------------------------------------------------------
(* The receiver *)

Result(f, status, data) == [f |-> f, status |-> status, data |-> data]

(* The open file, if any, recorded with this status and closed.            *)
Closed(status) ==
    [rcv EXCEPT !.cur = NoFile,
                !.res = IF rcv.cur = NoFile THEN @ ELSE Append(@, Result(rcv.cur, status, rcv.data))]

RcvCancelled ==
    /\ "rcv" \in cancelled /\ ~Done(rcv)
    /\ rcv' = [rcv EXCEPT !.pc = "error"]
    /\ bwd' = Append(bwd, Byte("CAN"))
    /\ RcvKeeps /\ UNCHANGED <<fwd, faults, stale>>

(* Phase 1: ZRQINIT is awaited for ever; errors and other frames are       *)
(* skipped.                                                                *)
RcvWait ==
    /\ rcv.pc = "wait" /\ "rcv" \notin cancelled
    /\ fwd # <<>> /\ fwd' = Tail(fwd)
    /\ rcv' = CASE Kind(fwd) = "ZRQINIT" -> [rcv EXCEPT !.pc = "frame"]
                [] Kind(fwd) = "CAN" -> [rcv EXCEPT !.pc = "error"]
                [] OTHER -> rcv
    /\ bwd' = IF Kind(fwd) = "ZRQINIT" THEN Append(bwd, Byte("ZRINIT")) ELSE bwd
    /\ RcvKeeps /\ UNCHANGED <<faults, stale>>

(* ZFILE closes an open file as completed and creates the next; damaged    *)
(* metadata name some other file of unknown size (0).                      *)
RcvFile(m) ==
    LET f == IF m.ok = "good" THEN m.data ELSE Files + 1
    IN \/ /\ rcv' = [Closed("completed") EXCEPT !.cur = f, !.data = <<>>,
                           !.size = IF f \in 1..Files THEN BlocksOf[f] ELSE 0]
          /\ bwd' = Append(bwd, Byte("ZRPOS"))
       \/ rcv' = Closed("completed") /\ bwd' = Append(bwd, Byte("ZSKIP"))

(* The block as far as it fits the announced size, or a write error.       *)
RcvData(m) ==
    \/ rcv.cur = NoFile /\ UNCHANGED <<rcv, bwd>>
    \/ /\ rcv.cur # NoFile
       /\ rcv' = IF rcv.size > 0 /\ Len(rcv.data) = rcv.size THEN rcv
                 ELSE [rcv EXCEPT !.data = Append(@, IF m.ok = "good" THEN m.data ELSE Garbage)]
       /\ bwd' = IF m.last THEN Append(bwd, Byte("ZACK")) ELSE bwd
    \/ /\ rcv.cur # NoFile
       /\ rcv' = Closed("failed") /\ bwd' = Append(bwd, Byte("ZFERR"))

(* Header frames: ZEOF closes the file, ZFIN the session; ZRQINIT and      *)
(* other headers are ignored.                                              *)
RcvHeader(k) ==
    CASE k = "ZEOF" -> rcv' = Closed("completed") /\ bwd' = Append(bwd, Byte("ZRINIT"))
      [] k = "ZFIN" -> rcv' = [Closed("completed") EXCEPT !.pc = "ok"] /\ bwd' = Append(bwd, Byte("ZFIN"))
      [] OTHER      -> UNCHANGED <<rcv, bwd>>

(* Phase 3, one frame: an unreadable one ends the session with an error,   *)
(* a CAN ends it and fails the open file.                                  *)
RcvFrame ==
    /\ rcv.pc = "frame" /\ "rcv" \notin cancelled
    /\ RcvKeeps
    /\ \/ /\ fwd # <<>> /\ fwd' = Tail(fwd)
          /\ UNCHANGED <<faults, stale>>
          /\ LET m == Head(fwd)
                 fails == rcv' = [rcv EXCEPT !.pc = "error"] /\ UNCHANGED bwd
             IN CASE m.k = "CAN"   -> rcv' = [Closed("failed") EXCEPT !.pc = "ok"] /\ UNCHANGED bwd
                  [] m.k = "noise" -> fails \/ UNCHANGED <<rcv, bwd>>
                  [] m.ok = "cut"  -> fails
                  [] m.k = "ZFILE" -> RcvFile(m)
                  [] m.k = "ZDATA" -> RcvData(m)
                  [] OTHER         -> RcvHeader(m.k)
       \/ RcvTimesOut /\ rcv' = [rcv EXCEPT !.pc = "error"] /\ UNCHANGED <<fwd, bwd>>

------------------------------------------------------------------------------
Cancel(side) ==
    /\ side \notin cancelled
    /\ ~Done(IF side = "snd" THEN snd ELSE rcv)
    /\ cancelled' = cancelled \cup {side}
    /\ UNCHANGED <<snd, rcv, fwd, bwd, faults, stale>>

(* Nothing notices a lost or damaged frame of the stream: stale records    *)
(* that one was hit on its way to the receiver.                            *)
LineFault ==
    /\ Lose \/ Damage
    /\ stale' = (stale \/ fwd' # fwd)
    /\ UNCHANGED <<snd, rcv, cancelled>>

SndStep == SndCancelled \/ SndInit \/ SndAwaitInit \/ SndFile \/ SndAwaitPos \/ SndData
           \/ SndAwaitAck \/ SndAwaitEof \/ SndFin \/ SndAwaitFin
RcvStep == RcvCancelled \/ RcvWait \/ RcvFrame

Next == SndStep \/ RcvStep \/ LineFault \/ \E side \in {"snd", "rcv"} : Cancel(side)

Spec == Init /\ [][Next]_zvars

------------------------------------------------------------------------------
(* Properties *)

(* As long as no frame was lost or damaged on its way to the receiver and  *)
(* no timeout crossed an answer, a file both sides report as completed is  *)
(* held whole, whatever happens to the answers: a last block sent again    *)
(* after a lost ZACK is not written twice (write_len of zmodem_receive).   *)
WholeFile ==
    \A r \in 1..Len(rcv.res) :
        LET res == rcv.res[r]
        IN /\ ~stale /\ res.status = "completed"
           /\ res.f \in 1..Len(snd.res) /\ snd.res[res.f] = "completed"
           => res.data = Payload(res.f)
=============================================================================
