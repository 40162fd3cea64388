---------------------------- MODULE MCCartStore ----------------------------
(* Instances of CartStore for TLC.                                          *)
EXTENDS CartStore, TLC

\* Calls and products are interchangeable.
Symmetry == Permutations(Calls) \cup Permutations(Products)
=============================================================================
