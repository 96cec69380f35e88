----------------------------- MODULE MCProducts -----------------------------
(***************************************************************************)
(* A root, a child and a grandchild; a product in the grandchild, with an  *)
(* image; and two requests.                                                *)
(***************************************************************************)
EXTENDS Products

CONSTANTS r1, r2, p1, root, child, leaf, photo, other, spec

MCRequests == {r1, r2}
MCProducts == MCRequests \union {p1}
MCCategories == 1..3
MCNames == {root, child, leaf}
MCTitles == {1, 2}
MCSpecs == {spec}
MCPaths == {<<s, f>> : s \in 0..1, f \in {photo, other}}
MCPrices == {4, 8}
MCRates == {1, 4}
MCPages == {1}
MCSold == [p \in MCProducts |-> 1]
MCDiscounted == {p1}

MCCategory(name, parent, path) ==
    [parent |-> parent, name |-> name, path |-> path,
     slug |-> [base |-> <<name>>, n |-> 0], active |-> TRUE, position |-> 1,
     described |-> TRUE, image |-> None]

MCFirstTables ==
    {[rows |-> (1 :> MCCategory(root, None, <<1>>) @@
                2 :> MCCategory(child, 1, <<1, 2>>) @@
                3 :> MCCategory(leaf, 2, <<1, 2, 3>>)),
      of |-> (p1 :> 3 @@ r1 :> None @@ r2 :> None),
      items |-> (p1 :> [name |-> 1, slug |-> <<1, 0>>, usd |-> 2,
                        status |-> "active", at |-> 0] @@
                 r1 :> None @@ r2 :> None),
      images |-> (p1 :> <<[path |-> <<0, photo>>, position |-> 1]>> @@
                  r1 :> <<>> @@ r2 :> <<>>),
      specs |-> (p1 :> {spec} @@ r1 :> {} @@ r2 :> {}),
      attrs |-> FALSE,
      rate |-> rate] : rate \in {2, None}}

MCForm(name, category, files, specs, order) ==
    [name |-> name, category |-> category, price |-> 8, status |-> "active",
     files |-> files, specs |-> specs, order |-> order]

MCForms ==
    {MCForm(2, 2, {}, {}, <<>>),
     MCForm(1, 3, {photo}, {}, <<>>),
     MCForm(1, 1, {photo}, {spec}, <<<<0, photo>>>>),
     MCForm(2, 3, {photo, other}, {spec}, <<>>)}

MCFilled ==
    {[lo |-> 0, hi |-> hi, given |-> given, names |-> names] :
        <<hi, given, names>> \in
            {<<1000, FALSE, {}>>, <<4, FALSE, {}>>, <<1000, TRUE, {}>>,
             <<1000, TRUE, {root}>>, <<8, TRUE, {child, leaf}>>}}

Symmetry == Permutations(MCRequests)
=============================================================================
