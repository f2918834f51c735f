------------------------------- MODULE MCStack -------------------------------
(* Stack on a small instance: see README.md for the bounds.                 *)
EXTENDS Stack

Symmetry == Permutations(Id \ {Overlay})
==============================================================================
