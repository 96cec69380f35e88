----------------------------- MODULE MCPayment -----------------------------
(* Values of Payment's constants for TLC. *)
EXTENDS Payment, TLC

\* Amounts of 1.50, which M-Pesa collects as 2 shillings, and of 2.50, which
\* it collects as 2 too.
MCDues == {3, 5}

Symmetry == Permutations(Orders) \union Permutations(Rows)
              \union Permutations(Checkouts) \union Permutations(Requests)
=============================================================================
