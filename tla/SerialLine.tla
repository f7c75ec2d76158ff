----------------------------- MODULE SerialLine -----------------------------
(***************************************************************************)
(* The serial line the X/Y/ZMODEM engines of src-tauri/src/transfer talk   *)
(* over.  The line itself is outside the repository; it is modelled from   *)
(* how transfer/io.rs uses it: two first-in-first-out byte directions that *)
(* may lose or damage what they carry but never reorder or duplicate it.   *)
(*                                                                         *)
(* A message is a record: its kind k, whether it arrives intact, and for a *)
(* frame (header, number, complement, payload, trailer) its fields.  The   *)
(* cancel sequence of io.rs (ten CAN, eight backspaces) is one "CAN".      *)
(***************************************************************************)
EXTENDS Naturals, Sequences

CONSTANTS MaxFaults     \* faults one transfer meets (bound of the model)

VARIABLES fwd,          \* sender -> receiver
          bwd,          \* receiver -> sender
          faults,       \* faults so far
          stale         \* a message is on its way that nobody waits for any more

lineVars == <<fwd, bwd, faults, stale>>

LineInit == fwd = <<>> /\ bwd = <<>> /\ faults = 0 /\ stale = FALSE

(* A single byte, and the kind of the message that comes next.             *)
Byte(b) == [k |-> b, ok |-> "good"]
Kind(ch) == IF ch = <<>> THEN "none" ELSE Head(ch).k

(* What a byte error leaves of a message: a frame with data whose trailer  *)
(* no longer fits ("bad") or that lost a byte and never ends ("cut"); of   *)
(* anything else bytes the protocols do not know ("noise").                *)
Damaged(m) ==
    IF "data" \in DOMAIN m THEN {[m EXCEPT !.ok = "bad"], [m EXCEPT !.ok = "cut"]}
    ELSE {Byte("noise")}

(* A fault hits the next message of one direction.  Each protocol says     *)
(* what this means for stale.                                              *)
Lose ==
    /\ faults < MaxFaults
    /\ faults' = faults + 1
    /\ \/ fwd # <<>> /\ fwd' = Tail(fwd) /\ UNCHANGED bwd
       \/ bwd # <<>> /\ bwd' = Tail(bwd) /\ UNCHANGED fwd

Damage ==
    /\ faults < MaxFaults
    /\ faults' = faults + 1
    /\ \/ /\ fwd # <<>>
          /\ \E m \in Damaged(Head(fwd)) : fwd' = <<m>> \o Tail(fwd)
          /\ UNCHANGED bwd
       \/ /\ bwd # <<>>
          /\ \E m \in Damaged(Head(bwd)) : bwd' = <<m>> \o Tail(bwd)
          /\ UNCHANGED fwd

(***************************************************************************)
(* A read timeout of a side whose input in is empty; out is what it has    *)
(* written.  If the peer has ended, or has read everything and has nothing *)
(* to write (owes is FALSE), the awaited message was lost or never sent.   *)
(* Otherwise the timeout crosses an answer that is on its way: one more    *)
(* fault, a late answer.                                                   *)
(***************************************************************************)
TimesOut(in, out, alive, owes) ==
    /\ in = <<>>
    /\ IF alive /\ (out # <<>> \/ owes)
       THEN faults < MaxFaults /\ faults' = faults + 1 /\ stale' = TRUE
       ELSE UNCHANGED <<faults, stale>>
=============================================================================
