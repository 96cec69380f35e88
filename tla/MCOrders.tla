------------------------------ MODULE MCOrders ------------------------------
(* Values of Orders' constants for TLC. *)
EXTENDS Orders, TLC

\* At both rates "whole" and "cut" cost whole cents and "odd" a fraction; at
\* 135.10 the discount of "cut" ends in half a cent.
MCPrice == [whole |-> 100, odd |-> 61, cut |-> 100]
MCDiscount == [whole |-> 0, odd |-> 0, cut |-> 5]
MCRates == {13507, 13510}

Item(p, q) == [product |-> p, quantity |-> q]

\* One of an item with a fraction, two of it, a discounted item after a whole
\* one, a quantity below zero, and a product that does not exist.
MCBaskets ==
    {<<Item("odd", 1)>>, <<Item("odd", 2)>>,
     <<Item("whole", 3), Item("cut", 1)>>,
     <<Item("whole", -1)>>, <<Item("deleted", 1)>>}

Symmetry == Permutations(Requests) \union Permutations(Guests)
=============================================================================
