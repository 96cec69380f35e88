------------------------------- MODULE MCCart -------------------------------
(* Values of Cart's constants for TLC. *)
EXTENDS Cart, TLC

CONSTANTS p1, p2

MCOneProduct == {p1}
MCTwoProducts == {p1, p2}

\* Lists sent to PUT /api/cart/replace: one that names a product twice, so
\* that the second upsert adds to the first, and one of two products.
MCReplacements ==
    {<<[product |-> p1, quantity |-> MaxQuantity],
       [product |-> p1, quantity |-> 1]>>}
    \union (IF p2 \in Products
            THEN {<<[product |-> p1, quantity |-> 1],
                    [product |-> p2, quantity |-> 1]>>}
            ELSE {})

\* Requests and owners are interchangeable; products are not.
Symmetry == Permutations(Requests) \union Permutations(Owners)
=============================================================================
