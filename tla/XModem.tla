------------------------------- MODULE XModem -------------------------------
(***************************************************************************)
(* XMODEM, src-tauri/src/transfer/xmodem.rs: one sender and one receiver,  *)
(* both this program, on a serial line that loses and damages messages.    *)
(*                                                                         *)
(* The receiver asks for the first block with C (CRC16) or NAK (checksum), *)
(* answers each block with ACK or NAK and ends at EOT.  The sender waits   *)
(* for one answer per block and sends the block again after a NAK, an      *)
(* unknown byte or a timeout.  Nothing in an answer says which block it    *)
(* answers.                                                                *)
(***************************************************************************)
EXTENDS SerialLine

CONSTANTS Blocks,       \* blocks of the file
          SeqMod,       \* block numbers are taken modulo this (256 in the code)
          MaxRetries,   \* MAX_RETRIES
          InitTries,    \* requests per check mode (attempts_per_mode)
          Modes         \* check modes the receiver offers, in order

VARIABLES snd,          \* the sender: [pc, blk, try, mode]
          rcv,          \* the receiver: [pc, mode, try, started, data, last]
          cancelled     \* sides whose user asked to stop

xvars == <<snd, rcv, cancelled, fwd, bwd, faults, stale>>

Payload == [i \in 1..Blocks |-> i]

InitByte(mode) == IF mode = "crc16" THEN "C" ELSE "NAK"

Frame(i, mode) == [k |-> "frame", num |-> i % SeqMod, data |-> i, mode |-> mode, ok |-> "good"]

SndDone == snd.pc \in {"completed", "failed", "error"}
RcvDone == rcv.pc \in {"completed", "failed", "error"}

Init ==
    /\ LineInit
    /\ snd = [pc |-> "getnak", blk |-> 1, try |-> 0, mode |-> "none"]
    /\ rcv = [pc |-> "request", mode |-> 1, try |-> 0, started |-> FALSE,
              data |-> <<>>, last |-> 0]
    /\ cancelled = {}

------------------------------------------------------------------------------
(* The sender *)

SndTimesOut == TimesOut(bwd, fwd, ~RcvDone, rcv.pc = "request")
RcvTimesOut == TimesOut(fwd, bwd, ~SndDone, snd.pc \in {"send", "eot"})

SndKeeps == UNCHANGED <<rcv, cancelled>>

(* A window of getnak without a request.                                   *)
NoRequest_Uncounted == snd
NoRequest == IF snd.try + 1 = InitTries THEN [snd EXCEPT !.pc = "error"] ELSE [snd EXCEPT !.try = @ + 1]

(* getnak: the first C or NAK chooses the check mode.                      *)
SndGetNak ==
    /\ snd.pc = "getnak"
    /\ SndKeeps
    /\ \/ /\ "snd" \in cancelled
          /\ snd' = [snd EXCEPT !.pc = "error"]
          /\ fwd' = Append(fwd, Byte("CAN"))
          /\ UNCHANGED <<bwd, faults, stale>>
       \/ /\ "snd" \notin cancelled /\ bwd # <<>>
          /\ snd' = CASE Kind(bwd) = "NAK" -> [snd EXCEPT !.pc = "send", !.try = 0, !.mode = "checksum"]
                      [] Kind(bwd) = "C"   -> [snd EXCEPT !.pc = "send", !.try = 0, !.mode = "crc16"]
                      [] Kind(bwd) = "CAN" -> [snd EXCEPT !.pc = "error"]
                      [] OTHER             -> NoRequest
          /\ bwd' = Tail(bwd)
          /\ UNCHANGED <<fwd, faults, stale>>
       \/ /\ "snd" \notin cancelled /\ SndTimesOut
          /\ snd' = NoRequest
          /\ UNCHANGED <<fwd, bwd>>

(* Top of the block loop: stop on a cancel, else read the next block of    *)
(* the file and write it, or go on to EOT at the end of the file.  A file  *)
(* that cannot be read ends the transfer, one that cannot be opened does   *)
(* so without a word to the receiver.                                      *)
SndNextBlock ==
    /\ snd.pc = "send"
    /\ SndKeeps
    /\ UNCHANGED <<bwd, faults, stale>>
    /\ \/ /\ "snd" \in cancelled
          /\ \E pc \in IF snd.try = 0 THEN {"error", "failed"} ELSE {"failed"} :
                snd' = [snd EXCEPT !.pc = pc]
          /\ fwd' = Append(fwd, Byte("CAN"))
       \/ /\ "snd" \notin cancelled /\ snd.blk <= Blocks
          /\ snd' = [snd EXCEPT !.pc = "await"]
          /\ fwd' = Append(fwd, Frame(snd.blk, snd.mode))
       \/ /\ "snd" \notin cancelled /\ snd.blk > Blocks
          /\ snd' = [snd EXCEPT !.pc = "eot"]
          /\ UNCHANGED fwd
       \/ /\ "snd" \notin cancelled /\ snd.try = 0
          /\ snd' = [snd EXCEPT !.pc = "failed"]
          /\ fwd' \in {Append(fwd, Byte("CAN"))} \cup (IF snd.blk = 1 THEN {fwd} ELSE {})

(* send_block, one answer: ACK moves on, CAN gives up, anything else and   *)
(* silence send the block again until the retries are used up.  Giving up  *)
(* sends the cancel sequence.                                              *)
SndAwaitAck ==
    /\ snd.pc = "await"
    /\ SndKeeps
    /\ LET lastTry == snd.try = MaxRetries - 1
           giveUp  == snd' = [snd EXCEPT !.pc = "failed"] /\ fwd' = Append(fwd, Byte("CAN"))
           again   == snd' = [snd EXCEPT !.pc = "send", !.try = @ + 1] /\ UNCHANGED fwd
           retry   == IF lastTry THEN giveUp ELSE again
       IN \/ /\ bwd # <<>> /\ bwd' = Tail(bwd)
             /\ UNCHANGED <<faults, stale>>
             /\ CASE Kind(bwd) = "ACK" ->
                       /\ snd' = [snd EXCEPT !.pc = "send", !.blk = @ + 1, !.try = 0]
                       /\ UNCHANGED fwd
                  [] Kind(bwd) = "CAN" -> giveUp
                  [] OTHER             -> retry
          \/ SndTimesOut /\ retry /\ UNCHANGED bwd

(* send_eot: EOT until it is acknowledged; a failure is only reported.     *)
SndEot ==
    /\ snd.pc = "eot"
    /\ SndKeeps
    /\ UNCHANGED <<bwd, faults, stale>>
    /\ IF "snd" \in cancelled
       THEN snd' = [snd EXCEPT !.pc = "failed"] /\ UNCHANGED fwd
       ELSE snd' = [snd EXCEPT !.pc = "awaitEot"] /\ fwd' = Append(fwd, Byte("EOT"))

SndAwaitEotAck ==
    /\ snd.pc = "awaitEot"
    /\ SndKeeps
    /\ UNCHANGED fwd
    /\ LET retry == IF snd.try = MaxRetries - 1
                    THEN [snd EXCEPT !.pc = "failed"]
                    ELSE [snd EXCEPT !.pc = "eot", !.try = @ + 1]
       IN \/ /\ bwd # <<>> /\ bwd' = Tail(bwd)
             /\ UNCHANGED <<faults, stale>>
             /\ snd' = CASE Kind(bwd) = "ACK" -> [snd EXCEPT !.pc = "completed"]
                         [] Kind(bwd) = "CAN" -> [snd EXCEPT !.pc = "failed"]
                         [] OTHER             -> retry
          \/ SndTimesOut /\ snd' = retry /\ UNCHANGED bwd

------------------------------------------------------------------------------
(* The receiver *)

RcvKeeps == UNCHANGED <<snd, cancelled>>

(* The outcome of one attempt of the handshake that brought no first       *)
(* block: another attempt, the next check mode, or the end.  Once a frame  *)
(* was seen the mode may no longer change and the sender is cancelled.     *)
RcvNextAttempt(r) ==
    IF r.try + 1 < InitTries THEN [r EXCEPT !.pc = "request", !.try = @ + 1]
    ELSE IF ~r.started /\ r.mode < Len(Modes)
         THEN [r EXCEPT !.pc = "request", !.mode = @ + 1, !.try = 0]
         ELSE [r EXCEPT !.pc = "error"]

(* Handshake: write C or NAK; NAK only, once the sender has begun.         *)
RcvRequest ==
    /\ rcv.pc = "request"
    /\ RcvKeeps
    /\ UNCHANGED <<fwd, faults, stale>>
    /\ IF "rcv" \in cancelled
       THEN rcv' = [rcv EXCEPT !.pc = "error"] /\ bwd' = Append(bwd, Byte("CAN"))
       ELSE /\ rcv' = [rcv EXCEPT !.pc = "first"]
            /\ bwd' = Append(bwd, Byte(IF rcv.started THEN "NAK" ELSE InitByte(Modes[rcv.mode])))

(* A frame passes when its trailer fits the check mode the receiver uses.  *)
Valid(f) == f.ok = "good" /\ f.mode = Modes[rcv.mode]

(* Handshake: wait for the first block.  Only block 1 is taken; a frame    *)
(* that stops in the middle aborts.                                        *)
RcvFirst ==
    /\ rcv.pc = "first"
    /\ RcvKeeps
    /\ LET retry(r) == /\ rcv' = RcvNextAttempt(r)
                       /\ bwd' = IF rcv'.pc = "error" /\ r.started THEN Append(bwd, Byte("CAN")) ELSE bwd
       IN \/ /\ fwd # <<>> /\ fwd' = Tail(fwd)
             /\ UNCHANGED <<faults, stale>>
             /\ LET f == Head(fwd)
                IN CASE f.k = "CAN" -> rcv' = [rcv EXCEPT !.pc = "error"] /\ UNCHANGED bwd
                     [] f.k \in {"EOT", "noise"} -> retry(rcv)
                     [] OTHER ->
                          IF f.ok = "cut" THEN rcv' = [rcv EXCEPT !.pc = "error"] /\ UNCHANGED bwd
                          ELSE IF f.num = 1 /\ Valid(f)
                               THEN /\ rcv' = [rcv EXCEPT !.pc = "top", !.try = 0, !.started = TRUE,
                                                          !.data = <<f.data>>, !.last = f.num]
                                    /\ bwd' = Append(bwd, Byte("ACK"))
                               ELSE retry([rcv EXCEPT !.started = TRUE])
          \/ RcvTimesOut /\ retry(rcv) /\ UNCHANGED fwd

(* Top of the receive loop: the only place a cancel is noticed.            *)
RcvTop ==
    /\ rcv.pc = "top"
    /\ RcvKeeps
    /\ UNCHANGED <<fwd, faults, stale>>
    /\ IF "rcv" \in cancelled
       THEN rcv' = [rcv EXCEPT !.pc = "error"] /\ bwd' = Append(bwd, Byte("CAN"))
       ELSE rcv' = [rcv EXCEPT !.pc = "header", !.try = 0] /\ UNCHANGED bwd

(* The number that follows the last block kept.                            *)
InSequence_AnyOther(f) == f.num # rcv.last
InSequence(f) == f.num = (rcv.last + 1) % SeqMod

(* A whole data frame: NAK a damaged one and one out of sequence, ACK a    *)
(* repeated one without keeping it, keep and ACK the expected one.         *)
RcvBlock(f) ==
    /\ rcv' = IF f.ok = "cut" THEN [rcv EXCEPT !.pc = "error"]
              ELSE IF Valid(f) /\ f.num # rcv.last /\ InSequence(f)
                   THEN [rcv EXCEPT !.pc = "top", !.data = Append(@, f.data), !.last = f.num]
                   ELSE [rcv EXCEPT !.pc = "top"]
    /\ bwd' = IF f.ok = "cut" THEN bwd
              ELSE Append(bwd, Byte(IF Valid(f) /\ (f.num = rcv.last \/ InSequence(f))
                                    THEN "ACK" ELSE "NAK"))

(* EOT: acknowledge, then write the file.                                  *)
RcvEot ==
    /\ bwd' = Append(bwd, Byte("ACK"))
    /\ \E result \in {"completed", "failed"} : rcv' = [rcv EXCEPT !.pc = result]

(* Wait for a header byte; noise is skipped, silence is answered by NAK.   *)
RcvHeader ==
    /\ rcv.pc = "header"
    /\ RcvKeeps
    /\ \/ /\ fwd # <<>> /\ fwd' = Tail(fwd)
          /\ UNCHANGED <<faults, stale>>
          /\ CASE Kind(fwd) = "CAN"   -> rcv' = [rcv EXCEPT !.pc = "error"] /\ UNCHANGED bwd
               [] Kind(fwd) = "noise" -> UNCHANGED <<rcv, bwd>>
               [] Kind(fwd) = "EOT"   -> RcvEot
               [] OTHER               -> RcvBlock(Head(fwd))
       \/ /\ RcvTimesOut /\ UNCHANGED fwd
          /\ IF rcv.try = MaxRetries
             THEN rcv' = [rcv EXCEPT !.pc = "error"] /\ UNCHANGED bwd
             ELSE rcv' = [rcv EXCEPT !.try = @ + 1] /\ bwd' = Append(bwd, Byte("NAK"))

------------------------------------------------------------------------------
(* A user stops one side; the flag is only looked at at the loop heads.    *)
Cancel(side) ==
    /\ side \notin cancelled
    /\ IF side = "snd" THEN ~SndDone ELSE ~RcvDone
    /\ cancelled' = cancelled \cup {side}
    /\ UNCHANGED <<snd, rcv, fwd, bwd, faults, stale>>

LineFault == (Lose \/ Damage) /\ UNCHANGED <<snd, rcv, cancelled, stale>>

SndStep == SndGetNak \/ SndNextBlock \/ SndAwaitAck \/ SndEot \/ SndAwaitEotAck
RcvStep == RcvRequest \/ RcvFirst \/ RcvTop \/ RcvHeader

Next == SndStep \/ RcvStep \/ LineFault \/ \E side \in {"snd", "rcv"} : Cancel(side)

Spec == Init /\ [][Next]_xvars

------------------------------------------------------------------------------
(* Properties *)

(* The state of the abstract delivery this implements (OrderedDelivery).   *)
Verdict == CASE rcv.pc = "completed" -> "completed"
             [] rcv.pc \in {"failed", "error"} -> "failed"
             [] OTHER -> "running"

Delivery == INSTANCE OrderedDelivery
    WITH File <- Payload, stored <- rcv.data, verdict <- Verdict

(* If both sides report the file as completed and no timeout crossed an    *)
(* answer, the receiver holds the whole file: losses and damage alone      *)
(* never cost a block (send_block, read_data_block and the duplicate       *)
(* check of xmodem_receive).                                               *)
WholeFile ==
    snd.pc = "completed" /\ rcv.pc = "completed" /\ ~stale => rcv.data = Payload
=============================================================================
