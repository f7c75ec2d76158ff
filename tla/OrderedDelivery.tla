--------------------------- MODULE OrderedDelivery ---------------------------
(***************************************************************************)
(* What a file transfer promises whatever the line does to it: the stored  *)
(* blocks are those of the file, in order, none missing, none twice; what  *)
(* is stored only grows; and a receiver that has ended stores nothing      *)
(* more and keeps its verdict.                                             *)
(***************************************************************************)
EXTENDS Naturals, Sequences

CONSTANTS File          \* the blocks of the file, a sequence

VARIABLES stored,       \* the blocks the receiver has kept
          verdict       \* "running", "completed" or "failed"

Init == stored = <<>> /\ verdict = "running"

(* The receiver keeps the block of the file that comes next.               *)
Store ==
    /\ verdict = "running"
    /\ Len(stored) < Len(File)
    /\ stored' = Append(stored, File[Len(stored) + 1])
    /\ UNCHANGED verdict

End ==
    /\ verdict = "running"
    /\ verdict' \in {"completed", "failed"}
    /\ UNCHANGED stored

Next == Store \/ End

Spec == Init /\ [][Next]_<<stored, verdict>>
=============================================================================
