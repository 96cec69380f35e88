---------------------------- MODULE MCPromotions ----------------------------
(***************************************************************************)
(* A promotion that is stored, two requests, and two products of which one *)
(* has two discounts.                                                      *)
(***************************************************************************)
EXTENDS Promotions

CONSTANTS r1, r2, p1, x, y, photo

MCRequests == {r1, r2}
MCStored0 == {p1}
MCProducts == {x, y}
MCDiscounts == [p \in MCProducts |-> IF p = x THEN 2 ELSE 0]
MCTitles == {"sale"}
MCFiles == {photo}
MCForm(start, batches) ==
    [title |-> "sale", file |-> photo, start |-> start, end |-> 1,
     batches |-> batches]
MCFirstRows ==
    [p \in MCStored0 |-> [title |-> "sale", slug |-> <<"sale", 0>>,
                          status |-> "active", start |-> 0, end |-> 0,
                          image |-> <<0, photo>>]]
MCFirstPairs == MCStored0 \X {y}
MCForms == {MCForm(0, <<{x}, {y}>>), MCForm(1, <<{x, y}>>), MCForm(0, <<>>)}
=============================================================================
