------------------------------ MODULE MCWindows ------------------------------
(* Windows on a small instance: see README.md for the bounds.               *)
EXTENDS Windows

Symmetry == {f @@ g : f \in Permutations(Ptr), g \in Permutations(Id)}
==============================================================================
