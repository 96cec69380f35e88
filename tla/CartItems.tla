----------------------------- MODULE CartItems -----------------------------
(***************************************************************************)
(* What a cart may hold: the quantities of its rows in cart_items.         *)
(***************************************************************************)
EXTENDS Naturals

CONSTANTS
    Products,
    MaxQuantity   \* the largest value of the INT column quantity

ASSUME ItemsAssumption == MaxQuantity \in Nat \ {0}

Contents == [Products -> 0..MaxQuantity]   \* 0 for no row
EmptyCart == [p \in Products |-> 0]
=============================================================================
