-------------------------------- MODULE Tftp --------------------------------
(***************************************************************************)
(* One TFTP transfer between this program's client and its server,         *)
(* src-tauri/src/plugins/tftp: the request and option exchange (client.rs, *)
(* server.rs) and the sliding-window engine of RFC 7440 (transfer.rs), on  *)
(* UDP: datagrams are lost, duplicated and swapped.                        *)
(*                                                                         *)
(* A GET moves the file from server to client, a PUT the other way; fwd    *)
(* always runs from the side that sends the file.  The last block of a     *)
(* file is the short one.  Both sides use the same options: the client     *)
(* adopts what OACK says.                                                  *)
(***************************************************************************)
EXTENDS SerialLine, Integers

CONSTANTS FileSizes,    \* numbers of blocks a file may have; 0 is an empty file
          Rollovers,    \* rollover policies: "none", "enforce0", "enforce1"
          SeqMod,       \* block numbers are taken modulo this (65536 in the code)
          WindowSize,   \* windowsize, in blocks
          MaxRetries    \* max_retries

VARIABLES setup,        \* [dir, n, roll]: direction, blocks of the file, policy
          snd,          \* the side that sends: [pc, low, base, idx, ack, try]
          rcv,          \* the side that receives: [pc, num, win, data, last, try]
          cancelled     \* TRUE once the server was told to stop (abort_flag)

tvars == <<setup, snd, rcv, cancelled, fwd, bwd, faults, stale>>

None == -1
Payload == [i \in 1..setup.n |-> i]

Data(i, num) == [k |-> "DATA", num |-> num, data |-> i, last |-> i = setup.n, ok |-> "good"]
Ack(num) == [k |-> "ACK", num |-> num, ok |-> "good"]

SndDone == snd.pc \in {"completed", "error"}
RcvDone == rcv.pc \in {"completed", "error", "removed", "unwritten"}
Client == IF setup.dir = "get" THEN "rcv" ELSE "snd"
Aborted(side) == cancelled /\ side # Client

Init ==
    /\ LineInit
    /\ setup \in [dir : {"get", "put"}, n : FileSizes, roll : Rollovers]
    /\ snd = [pc |-> IF setup.dir = "get" THEN "listen" ELSE "request",
              low |-> 0, base |-> 0, idx |-> 0, ack |-> None, try |-> 0]
    /\ rcv = [pc |-> IF setup.dir = "get" THEN "request" ELSE "listen",
              num |-> 0, win |-> <<>>, data |-> <<>>, last |-> FALSE, try |-> 0]
    /\ cancelled = FALSE

SndKeeps == UNCHANGED <<setup, rcv, cancelled>>
RcvKeeps == UNCHANGED <<setup, snd, cancelled>>

SndTimesOut == TimesOut(bwd, fwd, ~RcvDone, rcv.pc \in {"request", "ack"})
RcvTimesOut == TimesOut(fwd, bwd, ~SndDone, snd.pc \in {"request", "send"})

------------------------------------------------------------------------------
(* Opening a GET *)

(* The client sends RRQ, then waits once for OACK.                         *)
GetRequest ==
    /\ setup.dir = "get" /\ rcv.pc = "request"
    /\ rcv' = [rcv EXCEPT !.pc = "awaitOack"]
    /\ bwd' = Append(bwd, Byte("RRQ"))
    /\ RcvKeeps /\ UNCHANGED <<fwd, faults, stale>>

(* handle_rrq: an unusable path, or a server at its limit, is refused;     *)
(* otherwise OACK goes out and one ACK(0) is awaited.                      *)
HandleRrq ==
    /\ snd.pc = "listen" /\ Kind(bwd) = "RRQ"
    /\ bwd' = Tail(bwd)
    /\ \/ snd' = [snd EXCEPT !.pc = "error"] /\ fwd' = Append(fwd, Byte("ERROR"))
       \/ /\ snd' = [snd EXCEPT !.pc = IF cancelled THEN "error" ELSE "awaitAck0"]
          /\ fwd' = Append(fwd, Byte("OACK"))
    /\ SndKeeps /\ UNCHANGED <<faults, stale>>

SndStart == IF setup.n = 0 THEN [snd EXCEPT !.pc = "completed"] ELSE [snd EXCEPT !.pc = "send"]

RrqAck0 ==
    /\ snd.pc = "awaitAck0"
    /\ \/ /\ bwd # <<>> /\ bwd' = Tail(bwd)
          /\ snd' = IF Kind(bwd) = "ACK" /\ Head(bwd).num = 0 THEN SndStart
                    ELSE [snd EXCEPT !.pc = "error"]
          /\ UNCHANGED <<faults, stale>>
       \/ SndTimesOut /\ snd' = [snd EXCEPT !.pc = "error"] /\ UNCHANGED bwd
    /\ SndKeeps /\ UNCHANGED fwd

(* tftp_client_get: OACK is answered by ACK(0); then exactly DATA(1) must  *)
(* come.  It is written, acknowledged and the engine goes on with block 2, *)
(* whether or not block 1 was the last.                                    *)
GetAnswer ==
    /\ rcv.pc \in {"awaitOack", "awaitData1"}
    /\ RcvKeeps
    /\ LET fails == rcv' = [rcv EXCEPT !.pc = "error"] /\ UNCHANGED bwd
       IN \/ /\ fwd # <<>> /\ fwd' = Tail(fwd)
             /\ UNCHANGED <<faults, stale>>
             /\ LET m == Head(fwd)
                IN CASE rcv.pc = "awaitOack" /\ m.k = "OACK" ->
                          rcv' = [rcv EXCEPT !.pc = "awaitData1"] /\ bwd' = Append(bwd, Ack(0))
                     [] m.k = "DATA" /\ m.num = 1 ->
                          /\ rcv' = [rcv EXCEPT !.pc = "recv", !.num = 1, !.data = <<m.data>>]
                          /\ bwd' = Append(bwd, Ack(1))
                     [] OTHER -> fails
          \/ RcvTimesOut /\ fails /\ UNCHANGED fwd

------------------------------------------------------------------------------
(* Opening a PUT *)

PutRequest ==
    /\ setup.dir = "put" /\ snd.pc = "request"
    /\ snd' = [snd EXCEPT !.pc = "awaitOack"]
    /\ fwd' = Append(fwd, Byte("WRQ"))
    /\ SndKeeps /\ UNCHANGED <<bwd, faults, stale>>

(* handle_wrq: read-only, busy, a bad path or an existing file is refused; *)
(* otherwise OACK goes out and the engine starts.                          *)
HandleWrq ==
    /\ rcv.pc = "listen" /\ Kind(fwd) = "WRQ"
    /\ fwd' = Tail(fwd)
    /\ \/ rcv' = [rcv EXCEPT !.pc = "error"] /\ bwd' = Append(bwd, Byte("ERROR"))
       \/ rcv' = [rcv EXCEPT !.pc = "recv"] /\ bwd' = Append(bwd, Byte("OACK"))
    /\ RcvKeeps /\ UNCHANGED <<faults, stale>>

PutAnswer ==
    /\ snd.pc = "awaitOack"
    /\ \/ /\ bwd # <<>> /\ bwd' = Tail(bwd)
          /\ snd' = IF Kind(bwd) = "OACK" THEN SndStart ELSE [snd EXCEPT !.pc = "error"]
          /\ UNCHANGED <<faults, stale>>
       \/ SndTimesOut /\ snd' = [snd EXCEPT !.pc = "error"] /\ UNCHANGED bwd
    /\ SndKeeps /\ UNCHANGED fwd

------------------------------------------------------------------------------
(* send_file *)

WindowLen == IF setup.n - snd.low < WindowSize THEN setup.n - snd.low ELSE WindowSize

(* The number of the block to send, after the window base: it wraps to 0,  *)
(* or to 1 under "enforce1".                                               *)
TxNumber ==
    LET seq == (snd.base + snd.idx + 1) % SeqMod
    IN IF seq < snd.base /\ setup.roll = "enforce1" THEN (seq + 1) % SeqMod ELSE seq

(* One block of the window.                                                *)
SndBlock ==
    /\ snd.pc = "send"
    /\ SndKeeps
    /\ UNCHANGED <<bwd, faults, stale>>
    /\ LET wraps == (snd.base + snd.idx + 1) % SeqMod < snd.base
           sends == ~Aborted("snd") /\ snd.idx < WindowLen
       IN \/ Aborted("snd") /\ snd' = [snd EXCEPT !.pc = "error"] /\ UNCHANGED fwd
          \/ /\ sends /\ wraps /\ setup.roll = "none"
             /\ snd' = [snd EXCEPT !.pc = "error"] /\ fwd' = Append(fwd, Byte("ERROR"))
          \/ /\ sends /\ ~(wraps /\ setup.roll = "none")
             /\ snd' = [snd EXCEPT !.pc = "collect", !.idx = @ + 1]
             /\ fwd' = Append(fwd, Data(snd.low + snd.idx + 1, TxNumber))
          \/ /\ ~Aborted("snd") /\ snd.idx >= WindowLen
             /\ snd' = [snd EXCEPT !.pc = "collect"] /\ UNCHANGED fwd

(* How far an acknowledgement moves the window.                            *)
AckDiff ==
    LET diff == (snd.ack - snd.base) % SeqMod
    IN IF snd.ack < snd.base /\ setup.roll = "enforce1" THEN (diff - 1) % SeqMod ELSE diff

(* Every acknowledgement that has arrived is read; the last one counts.    *)
SndReadAck ==
    /\ snd.pc = "collect" /\ bwd # <<>>
    /\ bwd' = Tail(bwd)
    /\ snd' = IF Aborted("snd") \/ Kind(bwd) = "ERROR" THEN [snd EXCEPT !.pc = "error"]
              ELSE IF Kind(bwd) = "ACK" THEN [snd EXCEPT !.ack = Head(bwd).num]
              ELSE snd
    /\ SndKeeps /\ UNCHANGED <<fwd, faults, stale>>

(* The socket is drained: the window slides by AckDiff, and the file is    *)
(* done when nothing is left of it.  An acknowledgement of the base only   *)
(* goes back to sending, one beyond the window is ignored.                 *)
SndSlide ==
    /\ snd.pc = "collect" /\ bwd = <<>> /\ snd.ack # None
    /\ AckDiff <= WindowSize
    /\ snd' = IF AckDiff = 0 THEN [snd EXCEPT !.pc = "send", !.ack = None]
              ELSE IF AckDiff > WindowLen THEN [snd EXCEPT !.pc = "error"]
              ELSE IF snd.low + AckDiff = setup.n
                   THEN [snd EXCEPT !.pc = "completed", !.low = setup.n]
                   ELSE [snd EXCEPT !.pc = "send", !.low = @ + AckDiff, !.base = snd.ack,
                                    !.idx = 0, !.ack = None]
    /\ SndKeeps /\ UNCHANGED <<fwd, bwd, faults, stale>>

(* No usable acknowledgement: go on sending while the window has blocks    *)
(* left; else wait, and after the timeout send the window again.  The      *)
(* retries are counted over the whole transfer.                            *)
SndNoAck ==
    /\ snd.pc = "collect" /\ bwd = <<>>
    /\ snd.ack = None \/ AckDiff > WindowSize
    /\ SndKeeps /\ UNCHANGED <<fwd, bwd>>
    /\ \/ /\ snd.idx < WindowLen
          /\ snd' = [snd EXCEPT !.pc = "send", !.ack = None]
          /\ UNCHANGED <<faults, stale>>
       \/ /\ snd.idx >= WindowLen /\ SndTimesOut
          /\ snd' = IF snd.try >= MaxRetries \/ Aborted("snd") THEN [snd EXCEPT !.pc = "error"]
                    ELSE [snd EXCEPT !.pc = "send", !.try = @ + 1, !.idx = 0, !.ack = None]

------------------------------------------------------------------------------
(* receive_file *)

(* A failed transfer: the server removes the file (clean_on_error).        *)
RcvFailed == [rcv EXCEPT !.pc = IF Client = "rcv" THEN "error" ELSE "removed"]

(* The expected block joins the window; a full window and the last block   *)
(* are acknowledged, and so is, again, anything unexpected.                *)
RcvBlock(m) ==
    LET next     == (rcv.num + 1) % SeqMod
        expected == IF next = 0 /\ setup.roll = "enforce1" THEN 1 ELSE next
    IN \/ /\ next = 0 /\ setup.roll = "none"
          /\ rcv' = RcvFailed /\ bwd' = Append(bwd, Byte("ERROR"))
       \/ /\ next = 0 /\ setup.roll = "enforce1" /\ m.num = 0
          /\ rcv' = RcvFailed /\ UNCHANGED bwd
       \/ /\ ~(next = 0 /\ (setup.roll = "none" \/ (setup.roll = "enforce1" /\ m.num = 0)))
          /\ rcv' = IF m.num # expected THEN [rcv EXCEPT !.pc = "ack"]
                    ELSE [rcv EXCEPT !.num = m.num, !.last = m.last, !.win = Append(@, m.data),
                              !.pc = IF Len(rcv.win) + 1 = WindowSize \/ m.last THEN "ack" ELSE "recv"]
          /\ UNCHANGED bwd

RcvPacket ==
    /\ rcv.pc = "recv"
    /\ RcvKeeps
    /\ \/ Aborted("rcv") /\ rcv' = RcvFailed /\ UNCHANGED lineVars
       \/ /\ ~Aborted("rcv") /\ fwd # <<>> /\ fwd' = Tail(fwd)
          /\ UNCHANGED <<faults, stale>>
          /\ CASE Kind(fwd) = "DATA"  -> RcvBlock(Head(fwd))
               [] Kind(fwd) = "ERROR" -> rcv' = RcvFailed /\ UNCHANGED bwd
               [] OTHER               -> UNCHANGED <<rcv, bwd>>
       \/ /\ ~Aborted("rcv") /\ RcvTimesOut
          /\ rcv' = IF rcv.try >= MaxRetries THEN RcvFailed
                    ELSE [rcv EXCEPT !.pc = "ack", !.try = @ + 1]
          /\ UNCHANGED <<fwd, bwd>>

(* The acknowledgement goes out first, then the window is written; a       *)
(* failing disk is noticed after the sender was told.                      *)
RcvAck ==
    /\ rcv.pc = "ack"
    /\ bwd' = Append(bwd, Ack(rcv.num))
    /\ \/ rcv' = [rcv EXCEPT !.pc = IF rcv.last THEN "completed" ELSE "recv",
                             !.data = @ \o rcv.win, !.win = <<>>]
       \/ rcv.win # <<>> /\ rcv' = [rcv EXCEPT !.pc = "unwritten"]
    /\ RcvKeeps /\ UNCHANGED <<fwd, faults, stale>>

------------------------------------------------------------------------------
(* shutdown or tftp_server_stop: the server's side is told to stop.        *)
Abort ==
    /\ ~cancelled /\ ~(IF Client = "rcv" THEN SndDone ELSE RcvDone)
    /\ cancelled' = TRUE
    /\ UNCHANGED <<setup, snd, rcv, fwd, bwd, faults, stale>>

(* The network duplicates the next datagram, or lets the one after it      *)
(* overtake.  A second request reaches a second transfer socket, which the *)
(* client is not connected to.                                             *)
Twice(ch) == IF Kind(ch) \in {"DATA", "ACK"} THEN <<Head(ch)>> \o ch ELSE ch
Swapped(ch) == IF Len(ch) < 2 THEN ch ELSE <<ch[2], ch[1]>> \o SubSeq(ch, 3, Len(ch))

Reorder ==
    /\ faults < MaxFaults
    /\ faults' = faults + 1
    /\ \/ fwd' \in {Twice(fwd), Swapped(fwd)} \ {fwd} /\ UNCHANGED bwd
       \/ bwd' \in {Twice(bwd), Swapped(bwd)} \ {bwd} /\ UNCHANGED fwd

LineFault == (Lose \/ Reorder) /\ UNCHANGED <<setup, snd, rcv, cancelled, stale>>

SndStep == HandleRrq \/ RrqAck0 \/ PutRequest \/ PutAnswer \/ SndBlock \/ SndReadAck
           \/ SndSlide \/ SndNoAck
RcvStep == GetRequest \/ GetAnswer \/ HandleWrq \/ RcvPacket \/ RcvAck

Next == SndStep \/ RcvStep \/ LineFault \/ Abort

Spec == Init /\ [][Next]_tvars

------------------------------------------------------------------------------
(* Properties *)

(* A side that reports a completed transfer is right: a receiver that      *)
(* completed holds the whole file, and when a sender completed every block *)
(* of its window arithmetic was acknowledged, so the receiver holds the    *)
(* file or failed to write what it had.  At any time what was written is a *)
(* prefix of the file (send_file, receive_file; lost, doubled and          *)
(* overtaking datagrams, wrapping block numbers).                          *)
WholeFile ==
    /\ rcv.data = SubSeq(Payload, 1, Len(rcv.data))
    /\ rcv.pc = "completed" => rcv.data = Payload
    /\ snd.pc = "completed" => rcv.data = Payload \/ rcv.pc \in {"unwritten", "removed"}
=============================================================================
