------------------------------- MODULE RttRing -------------------------------
(***************************************************************************)
(* One RTT ring buffer in the memory of the target, read or written by the *)
(* host while the target runs: DirectRttChannel::read_offsets, read_up and *)
(* write_down of plugins/rtt/backend/probe_rs.rs, used after a degraded    *)
(* attach.  Each access to the memory of the target is one step.  The      *)
(* target's side is SEGGER's code, modelled from what the host relies on.  *)
(***************************************************************************)
EXTENDS Naturals, Sequences, FiniteSetsExt

CONSTANTS Sizes,      \* sizes of the buffer, as the descriptor gives them
          Length,     \* bytes sent through it (bound of the model)
          HostBuffer, \* bytes the host takes or brings at a time
          MaxUpsets   \* times something else writes the offsets (bound of the model)

VARIABLES up,      \* TRUE: target to host
          size,    \* buffer_size
          ring,    \* the bytes; 0 before the first
          wr, rd,  \* the offsets in the descriptor
          sent,    \* bytes the producer has put
          got,     \* bytes the consumer has taken
          target,  \* TRUE between the target's access to the buffer and to its offset
          host,    \* the host's local variables
          upsets,  \* offsets overwritten by something else
          wild     \* the host touched memory outside the buffer

rgvars == <<up, size, ring, wr, rd, sent, got, target, host, upsets, wild>>

Idle(last) == [pc |-> "idle", w |-> 0, r |-> 0, part |-> <<>>, last |-> last]
Unknown == 99

(* validate_descriptor_shape: a smaller buffer or an offset outside it is  *)
(* quarantined and never touched.                                          *)
Usable(s, w, r) == s >= 2 /\ w < s /\ r < s

Init ==
    /\ up \in BOOLEAN /\ size \in Sizes /\ wr \in 0..Max(Sizes) /\ rd = wr /\ Usable(size, wr, rd)
    /\ ring = [i \in 0..(Max(Sizes) - 1) |-> 0]
    /\ sent = 0 /\ got = <<>> /\ target = FALSE /\ host = Idle(Unknown) /\ upsets = 0 /\ wild = FALSE

After(o, n) == IF o + n >= size THEN 0 ELSE o + n

------------------------------------------------------------------------------
(* The target *)

TargetPut ==
    /\ up /\ ~target /\ sent < Length /\ wr < size /\ rd < size /\ After(wr, 1) # rd
    /\ ring' = [ring EXCEPT ![wr] = sent + 1] /\ target' = TRUE
    /\ UNCHANGED <<up, size, wr, rd, sent, got, host, upsets, wild>>
TargetPublish ==
    /\ up /\ target /\ target' = FALSE
    /\ wr' = After(wr, 1) /\ sent' = sent + 1
    /\ UNCHANGED <<up, size, ring, rd, got, host, upsets, wild>>
TargetTake ==
    /\ ~up /\ rd # wr /\ rd < size /\ wr < size
    /\ got' = Append(got, ring[rd]) /\ rd' = After(rd, 1)
    /\ UNCHANGED <<up, size, ring, wr, sent, target, host, upsets, wild>>

(* A reset of the target, or another debugger, writes the offsets.         *)
Upset ==
    /\ upsets < MaxUpsets /\ upsets' = upsets + 1 /\ ~target
    /\ \E o \in 0..size : wr' = o
    /\ \E o \in 0..size : rd' = o
    /\ UNCHANGED <<up, size, ring, sent, got, target, host, wild>>

------------------------------------------------------------------------------
(* The host *)

(* read_offsets, and the check of read_up that nobody else reads           *)
ReadOffsets ==
    /\ host.pc = "idle" /\ (up \/ sent < Length)
    /\ IF wr >= size \/ rd >= size \/ (up /\ host.last # Unknown /\ rd # host.last)
       THEN host' = [host EXCEPT !.pc = "failed"]
       ELSE host' = [host EXCEPT !.pc = "copy", !.w = wr, !.r = rd, !.part = <<>>]
    /\ UNCHANGED <<up, size, ring, wr, rd, sent, got, target, upsets, wild>>

Least(a, b) == IF a < b THEN a ELSE b
Inside(o, n) == o + n <= size

(* one turn of the loop of read_up                                         *)
CopyUp ==
    /\ up /\ host.pc = "copy"
    /\ LET available == IF host.r < host.w THEN host.w - host.r ELSE size - host.r
           count == Least(available, HostBuffer - Len(host.part))
       IN IF Len(host.part) >= HostBuffer \/ host.r = host.w
          THEN host' = [host EXCEPT !.pc = "commit"] /\ UNCHANGED wild
          ELSE /\ host' = [host EXCEPT !.part = @ \o [i \in 1..count |-> ring[host.r + i - 1]],
                                       !.r = After(@, count)]
               /\ wild' = (wild \/ ~Inside(host.r, count))
    /\ UNCHANGED <<up, size, ring, wr, rd, sent, got, target, upsets>>
CommitUp ==
    /\ up /\ host.pc = "commit"
    /\ rd' = IF host.part # <<>> THEN host.r ELSE rd
    /\ got' = got \o host.part /\ host' = Idle(host.r)
    /\ UNCHANGED <<up, size, ring, wr, sent, target, upsets, wild>>

(* write_down keeps one byte free, or full would look like empty.          *)
Room_Full(w, r) == IF r > w THEN r - w - 1 ELSE size - w
Room(w, r) == IF r > w THEN r - w - 1 ELSE IF r = 0 THEN size - w - 1 ELSE size - w
CopyDown ==
    /\ ~up /\ host.pc = "copy"
    /\ LET count == Least(Room(host.w, host.r), Least(HostBuffer, Length - sent) - Len(host.part))
       IN IF count = 0
          THEN host' = [host EXCEPT !.pc = "commit"] /\ UNCHANGED <<ring, wild>>
          ELSE /\ ring' = [i \in DOMAIN ring |-> IF i >= host.w /\ i < host.w + count
                                                 THEN sent + Len(host.part) + (i - host.w) + 1 ELSE ring[i]]
               /\ host' = [host EXCEPT !.part = @ \o [i \in 1..count |-> sent + Len(@) + i], !.w = After(@, count)]
               /\ wild' = (wild \/ ~Inside(host.w, count))
    /\ UNCHANGED <<up, size, wr, rd, sent, got, target, upsets>>
CommitDown ==
    /\ ~up /\ host.pc = "commit"
    /\ wr' = host.w /\ sent' = sent + Len(host.part) /\ host' = Idle(Unknown)
    /\ UNCHANGED <<up, size, ring, rd, got, target, upsets, wild>>

Next == TargetPut \/ TargetPublish \/ TargetTake \/ Upset \/ ReadOffsets \/ CopyUp \/ CommitUp \/ CopyDown \/ CommitDown
Spec == Init /\ [][Next]_rgvars

------------------------------------------------------------------------------
(* The ring is a queue although the target runs on: what is taken is what  *)
(* was put, in order, nothing twice and nothing old; and whatever stands   *)
(* in the descriptor, the host stays inside the buffer (read_up,           *)
(* write_down).                                                            *)
RingIsQueue ==
    /\ upsets = 0 => \A i \in 1..Len(got) : got[i] = i
    /\ upsets = 0 => Len(got) <= sent /\ sent - Len(got) < size
    /\ ~wild
=============================================================================
