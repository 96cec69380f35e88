---------------------------- MODULE CategoryTree ----------------------------
(***************************************************************************)
(* The table categories, its triggers and the queries on it, as operators  *)
(* on a state t of the tables:                                             *)
(*   t.rows[c]  the row of category c, or None                             *)
(*   t.of[p]    the category_id of product p, or None                      *)
(*                                                                         *)
(* The tree is stored twice: parent_id, which a request sets, and the      *)
(* ltree path, which the triggers compute for the row being written and    *)
(* for no other.                                                           *)
(*                                                                         *)
(* A list of rows is the set of its ids, or a function from ids where the  *)
(* query computes a column; an order is kept where the code depends on it. *)
(***************************************************************************)
EXTENDS Integers, Sequences, FiniteSets, SequencesExt, TLC

CONSTANTS
    Categories, \* the ids, integers so that paths have an order
    Names,
    Images,
    Products,
    Active,     \* the products whose is_active is set
    None

ASSUME CategoryTreeAssumption ==
    /\ Categories \subseteq Int
    /\ IsFiniteSet(Categories)
    /\ Active \subseteq Products
    /\ None \notin Categories \union Images \union Names

Slugs == [base : Seq(Categories \union Names), n : Nat]

Row == [parent : Categories \union {None}, name : Names,
        path : Seq(Categories), slug : Slugs, active : BOOLEAN,
        position : Int, described : BOOLEAN, image : Images \union {None}]

Tables == [rows : [Categories -> Row \union {None}],
           of : [Products -> Categories \union {None}]]

Stored(t) == {c \in Categories : t.rows[c] # None}

\* The rows a query with the parameter active_only keeps.
Kept(t, activeOnly) == {c \in Stored(t) : activeOnly => t.rows[c].active}

-----------------------------------------------------------------------------
(* The triggers, which run for every row that is inserted or updated.      *)

\* A mutant: a path is computed when the row is inserted, and kept.
PathOfInsert(t, c, parent) ==
    IF t.rows[c] # None THEN t.rows[c].path
    ELSE IF parent = None THEN <<c>> ELSE Append(t.rows[parent].path, c)

\* The last definition of update_category_path: the path of the parent as it
\* is stored, and the id of the row.
update_category_path(t, c, parent) ==
    IF parent = None THEN <<c>> ELSE Append(t.rows[parent].path, c)

\* update_category_slug: the parent's path and the name, with a counter while
\* another row has that slug.
update_category_slug(t, c, parent, name) ==
    LET base == (IF parent = None THEN <<>> ELSE t.rows[parent].path)
                \o <<name>>
        taken == {t.rows[d].slug.n : d \in
                     {e \in Stored(t) \ {c} : t.rows[e].slug.base = base}}
        free == 0..Cardinality(taken) \ taken
    IN  [base |-> base, n |-> CHOOSE n \in free : \A m \in free : n <= m]

\* set_category_position: the next position below the same parent. A root has
\* no siblings here, NULL being equal to nothing.
set_category_position(t, parent) ==
    LET taken == {t.rows[d].position : d \in
                     {e \in Stored(t) : /\ parent # None
                                        /\ t.rows[e].parent = parent}}
    IN  IF taken = {} THEN 1
        ELSE 1 + CHOOSE m \in taken : \A n \in taken : n <= m

\* Row c becomes row, once the triggers have run.
Write(t, c, row) ==
    [t EXCEPT !.rows[c] =
        [row EXCEPT !.path = update_category_path(t, c, row.parent),
                    !.slug = update_category_slug(t, c, row.parent,
                                                  row.name)]]

\* f with what g gives to its own keys.
Updated(f, g) ==
    [k \in DOMAIN f \union DOMAIN g |-> IF k \in DOMAIN g THEN g[k] ELSE f[k]]

\* The rows of s are given the columns one after the other: the triggers of each
\* see those written before it.
WriteInOrder(t, s, columns) ==
    LET u[n \in {0} \union DOMAIN s] ==
            IF n = 0 THEN t
            ELSE LET before == u[n - 1]
                 IN  Write(before, s[n], Updated(before.rows[s[n]], columns))
    IN  u[Cardinality(DOMAIN s)]

\* A statement that updates several rows, in an order left to PostgreSQL.
WriteAll(t, cs, columns) ==
    {WriteInOrder(t, s, columns) : s \in SetToSeqs(cs)}

-----------------------------------------------------------------------------
(* The statements that write. Each is the set of states it may leave.      *)

CreateCategory(t, c, p) ==
    {Write(t, c, [parent |-> p.parent, name |-> p.name, path |-> <<>>,
                  slug |-> [base |-> <<>>, n |-> 0], active |-> TRUE,
                  position |-> set_category_position(t, p.parent),
                  described |-> p.described, image |-> p.image])}

\* The service fills in neither position nor description: both are reset.
UpdateCategory(t, c, p) ==
    {Write(t, c, [t.rows[c] EXCEPT !.name = p.name, !.parent = p.parent,
                                   !.image = p.image, !.position = 0,
                                   !.described = FALSE])}

UpdateCategoryImage(t, c, image) ==
    {Write(t, c, [t.rows[c] EXCEPT !.image = image])}

SoftDeleteCategory(t, c) ==
    WriteAll(t, Stored(t) \intersect {c}, [active |-> FALSE])

\* The foreign keys of children and products are set to NULL, which is an
\* update of the children.
HardDeleteCategory(t, c) ==
    {[u EXCEPT !.rows[c] = None,
               !.of = [p \in Products |-> IF @[p] = c THEN None ELSE @[p]]] :
        u \in WriteAll(t, {d \in Stored(t) \ {c} : t.rows[d].parent = c},
                       [parent |-> None])}

\* Every category of cs gets the same new position here, the positions being
\* otherwise of no consequence.
BulkUpdateCategoryPositions(t, cs, position) ==
    WriteAll(t, Stored(t) \intersect cs, [position |-> position])

-----------------------------------------------------------------------------
(* The queries.                                                            *)

\* a.path @> b.path, and its converse <@
Above(t, a, b) == IsPrefix(t.rows[a].path, t.rows[b].path)

Under(t, c) == {d \in Stored(t) : Above(t, c, d)}

Counted(t, cs) == Cardinality({p \in Products : t.of[p] \in cs})
ActiveIn(t, cs) == Cardinality({p \in Active : t.of[p] \in cs})

CheckCategoryExistence(t, c) == c \in Stored(t)

GetCategoryByID(t, c) == c \in Kept(t, TRUE)

GetCategoryBySlug(t, slug) == {c \in Stored(t) : t.rows[c].slug = slug}

GetCategoryDetailsBySlug(t, slug) ==
    {[c |-> c, row |-> t.rows[c]] : c \in GetCategoryBySlug(t, slug)}

GetCategoryByName(t, name) == {c \in Stored(t) : t.rows[c].name = name}

ListCategories(t, activeOnly) == Kept(t, activeOnly)

GetCategoryTree(t) ==
    [c \in Stored(t) |-> [parent |-> t.rows[c].parent,
                          level |-> Len(t.rows[c].path)]]

GetParentCategories(t) == {c \in Stored(t) : t.rows[c].parent = None}

GetCategoriesByParentID(t, c) ==
    {d \in Stored(t) : c # None /\ t.rows[d].parent = c}

GetDirectChildrenCategories(t, c, activeOnly) ==
    Kept(t, activeOnly) \intersect GetCategoriesByParentID(t, c)

GetAllChildrenCategories(t, c, activeOnly) ==
    {d \in Kept(t, activeOnly) \ {c} : c \in Stored(t) /\ Above(t, c, d)}

GetAllChildrenCategoriesWithProductCount(t, c, activeOnly) ==
    [d \in GetAllChildrenCategories(t, c, activeOnly) |-> ActiveIn(t, {d})]

GetCategoryAncestors(t, c, activeOnly) ==
    {a \in Kept(t, activeOnly) \ {c} : c \in Stored(t) /\ Above(t, a, c)}

GetCategoriesWithProductsCount(t) ==
    [c \in Stored(t) |-> Counted(t, {c})]

GetCategoriesWithSubcategoryCount(t) ==
    [c \in Stored(t) |-> Cardinality(GetCategoriesByParentID(t, c))]

GetCategoryStats(t, c) ==
    [direct |-> Cardinality(GetCategoriesByParentID(t, c)),
     descendants |-> Cardinality(GetAllChildrenCategories(t, c, FALSE)),
     products |-> Counted(t, {c}),
     total |-> Counted(t, IF c \in Stored(t) THEN Under(t, c) ELSE {}),
     level |-> IF c \in Stored(t) THEN Len(t.rows[c].path) ELSE 0]

\* The categories with most products, at most limit of them, ties in any order.
GetPopularCategories(t, limit) ==
    LET cs == {c \in Kept(t, TRUE) : Counted(t, {c}) > 0}
        most(s) == \A i \in DOMAIN s : \A d \in cs \ Range(SubSeq(s, 1, i)) :
                       Counted(t, {d}) <= Counted(t, {s[i]})
        n == IF Cardinality(cs) < limit THEN Cardinality(cs) ELSE limit
    IN  {s \in [1..n -> cs] : IsInjective(s) /\ most(s)}

SearchCategories(t, name, activeOnly) ==
    {c \in Kept(t, activeOnly) : name = None \/ t.rows[c].name = name}

\* ORDER BY path: label by label, a path before its extensions.
Before(t, c, d) ==
    LET p == t.rows[c].path
        q == t.rows[d].path
    IN  \/ IsStrictPrefix(p, q)
        \/ \E i \in DOMAIN p \intersect DOMAIN q :
               /\ SubSeq(p, 1, i - 1) = SubSeq(q, 1, i - 1)
               /\ p[i] < q[i]

\* A mutant: the rows in the order of their ids.
RowsById(t, activeOnly) ==
    SetToSortSeq(Kept(t, activeOnly), LAMBDA c, d : c < d)

GetV2CategoryHierarchyRows(t, activeOnly) ==
    SetToSortSeq(Kept(t, activeOnly), LAMBDA c, d : Before(t, c, d))

\* The total_products of a row: its own and those of the paths under its own.
TotalProducts(t, c) == ActiveIn(t, Under(t, c))

-----------------------------------------------------------------------------
(* What the repository builds from them.                                   *)

\* GetV2CategoryHierarchy: a row hangs below its parent if the parent came
\* before it, and is left out otherwise.
GetV2CategoryHierarchy(t, activeOnly) ==
    FoldLeft(LAMBDA shown, c :
                 IF t.rows[c].parent \in shown \union {None}
                 THEN shown \union {c} ELSE shown,
             {}, GetV2CategoryHierarchyRows(t, activeOnly))

\* SearchCategoriesWithAncestors: a breadcrumb for each of the matches.
SearchCategoriesWithAncestors(t, name, activeOnly) ==
    [c \in SearchCategories(t, name, activeOnly) |->
        GetCategoryAncestors(t, c, activeOnly)]

\* GetCollectionCategoriesService: the roots, and the children of one of them
\* in its place.
GetCollectionCategories(t, computing) ==
    UNION {IF t.rows[c].name = computing
           THEN GetCategoriesByParentID(t, c) ELSE {c} :
               c \in GetParentCategories(t)}

\* A tree whose every path is the path of the parent and the id.
Coherent(t) ==
    \A c \in Stored(t) :
        t.rows[c].path = IF t.rows[c].parent = None THEN <<c>>
                         ELSE Append(t.rows[t.rows[c].parent].path, c)

=============================================================================
