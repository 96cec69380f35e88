---------------------------- MODULE MCCartTotals ----------------------------
(* Values of CartTotals' constants for TLC. *)
EXTENDS CartTotals, TLC

Symmetry == Permutations(Statements) \union Permutations(Products)
=============================================================================
