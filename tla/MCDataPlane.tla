---------------------------- MODULE MCDataPlane ----------------------------
(* Model-checking instances of DataPlane.  Owners are interchangeable, and *)
(* so are subscriptions and synchronous callers.                           *)
EXTENDS DataPlane, TLC

Symmetry == Permutations(Owners) \cup Permutations(Subs)

=============================================================================
