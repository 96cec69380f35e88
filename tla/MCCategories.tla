---------------------------- MODULE MCCategories ----------------------------
(***************************************************************************)
(* A root, a child and a grandchild, products in the root and the child,   *)
(* and two more ids for new categories.                                    *)
(***************************************************************************)
EXTENDS Categories

CONSTANTS r1, r2, first, name, p1, p2

MCRequests == {r1, r2}
MCImages == MCRequests \union {first}
MCCategories == 1..5
MCNames == {name}
MCProducts == {p1, p2}
MCActive == {p1}
MCLimits == {1, 20}

MCRow(parent, path, image) ==
    [parent |-> parent, name |-> name, path |-> path,
     slug |-> [base |-> SubSeq(path, 1, Len(path) - 1) \o <<name>>, n |-> 0],
     active |-> TRUE, position |-> 1, described |-> TRUE, image |-> image]

\* The root has the greater id, so that the order of the paths is not that of
\* the tree.
MCFirstTables ==
    {[rows |-> (3 :> MCRow(None, <<3>>, first) @@
                1 :> MCRow(3, <<3, 1>>, None) @@
                2 :> MCRow(1, <<3, 1, 2>>, None) @@
                4 :> None @@ 5 :> None),
      of |-> (p1 :> 1 @@ p2 :> 3)]}

Symmetry == Permutations(MCRequests)
=============================================================================
