-------------------------- MODULE MCSessionLifecycle --------------------------
(* Instances of SessionLifecycle for TLC.                                   *)
EXTENDS SessionLifecycle, TLC

(* Channels and commands are interchangeable.                               *)
Symmetry == Permutations(Chans) \cup Permutations(Users)
=============================================================================
