----------------------------- MODULE MCTransferTask -----------------------------
(* Instances of TransferTask for TLC.                                        *)
EXTENDS TransferTask, TLC

(* Transfer ids are fresh uuids: they are interchangeable.                   *)
Symmetry == Permutations(Transfers)
=============================================================================
