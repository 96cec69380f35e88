----------------------------- MODULE MCSession -----------------------------
(* Values of Session's constants for TLC. *)
EXTENDS Session, TLC

Symmetry == Permutations(SessionIds) \union Permutations(Tokens)
              \union Permutations(Users) \union Permutations(Requests)
=============================================================================
