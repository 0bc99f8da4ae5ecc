-------------------------- MODULE MCResourceWatch --------------------------
(* Instances of ResourceWatch for TLC. *)
EXTENDS ResourceWatch, TLC

\* Objects are interchangeable, and so are client objects.
Symmetry == Permutations(Keys) \cup Permutations(Conns) \cup Permutations(Watchers)
=============================================================================
