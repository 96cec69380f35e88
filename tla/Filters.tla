------------------------------- MODULE Filters -------------------------------
(***************************************************************************)
(* The filters of the product lists: fourteen statements that repeat one   *)
(* another, a count and six orders for the whole shop and the same for one *)
(* category, and the options that a filter is chosen from.                 *)
(*                                                                         *)
(* A filter f holds f.lo and f.hi, the prices; f.given, whether it holds   *)
(* attributes; and f.names, what they name: of the attributes' keys those  *)
(* that are names of categories in a filter of the shop, and the values of *)
(* the attribute Brand in a filter of a category.                          *)
(***************************************************************************)
EXTENDS Catalogue

IsFilter(f) ==
    /\ f.lo \in Nat /\ f.hi \in Nat
    /\ f.given \in BOOLEAN
    /\ f.names \subseteq Names
    /\ ~f.given => f.names = {}

Affordable(t, f, p) == Price(t, p) \in f.lo .. f.hi

-----------------------------------------------------------------------------
(* The whole shop.                                                         *)

Named(t, f) == {c \in Stored(t) : ~f.given \/ t.rows[c].name \in f.names}

\* category_ids of the count and of PriceAsc: the paths under those named.
NamedByPath(t, f) == UNION {Under(t, c) : c \in Named(t, f)}

\* A mutant: the children of those named, and no further.
NamedAndChildren(t, f) ==
    Named(t, f) \union {c \in Stored(t) : t.rows[c].parent \in Named(t, f)}

\* category_ids of the others: the children of those named, and so on.
NamedByParent(t, f) == Below(t, Named(t, f))

\* Once product_attributes has a row, a filter with attributes compares the
\* text of a JSON array with a single value, and finds nothing.
PassesAttributes(t, f) == ~f.given \/ ~t.attrs

FilteredProducts(t, f, cs) ==
    {p \in SellingIn(t, cs) : Affordable(t, f, p) /\ PassesAttributes(t, f)}

CountAllProductsByFilters(t, f) ==
    Cardinality(FilteredProducts(t, f, NamedByPath(t, f)))

GetAllProductsByFiltersPriceAsc(t, f) ==
    Orders(FilteredProducts(t, f, NamedByPath(t, f)),
           LAMBDA p, q : ByPrice(t, p, q))

GetAllProductsByFiltersPriceDesc(t, f) ==
    Orders(FilteredProducts(t, f, NamedByParent(t, f)),
           LAMBDA p, q : ByPrice(t, q, p))

GetAllProductsByFiltersNameAsc(t, f) ==
    Orders(FilteredProducts(t, f, NamedByParent(t, f)),
           LAMBDA p, q : ByTitle(t, p, q))

GetAllProductsByFiltersNameDesc(t, f) ==
    Orders(FilteredProducts(t, f, NamedByParent(t, f)),
           LAMBDA p, q : ByTitle(t, q, p))

GetAllProductsByFiltersNewest(t, f) ==
    Orders(FilteredProducts(t, f, NamedByParent(t, f)),
           LAMBDA p, q : ByAge(t, q, p))

GetAllProductsByFiltersOldest(t, f) ==
    Orders(FilteredProducts(t, f, NamedByParent(t, f)),
           LAMBDA p, q : ByAge(t, p, q))

\* GetProductsByFilters: an order it does not know is price_asc.
GetProductsByFilters(t, f, sort) ==
    CASE sort = "price_desc" -> GetAllProductsByFiltersPriceDesc(t, f)
      [] sort = "name_asc" -> GetAllProductsByFiltersNameAsc(t, f)
      [] sort = "name_desc" -> GetAllProductsByFiltersNameDesc(t, f)
      [] sort = "newest" -> GetAllProductsByFiltersNewest(t, f)
      [] sort = "oldest" -> GetAllProductsByFiltersOldest(t, f)
      [] OTHER -> GetAllProductsByFiltersPriceAsc(t, f)

-----------------------------------------------------------------------------
(* One category.                                                           *)

\* category_hierarchy: active categories, and what hangs from them.
ActiveBelow(t, c) ==
    LET active == Kept(t, TRUE)
        up[n \in 0..Cardinality(Categories)] ==
            IF n = 0 THEN {c} \intersect active
            ELSE LET last == up[n - 1]
                 IN  last \union {d \in active : t.rows[d].parent \in last}
    IN  up[Cardinality(Categories)]

\* filtered_categories: those whose name is one of the brands.
FilteredCategories(t, c, f) ==
    {d \in ActiveBelow(t, c) : ~f.given \/ t.rows[d].name \in f.names}

CategoryProducts(t, c, f) ==
    {p \in SellingIn(t, FilteredCategories(t, c, f)) : Affordable(t, f, p)}

GetTotalCategoryProductsByFilters(t, c, f) ==
    Cardinality(CategoryProducts(t, c, f))

GetCategoryProductsByFiltersPriceAsc(t, c, f) ==
    Orders(CategoryProducts(t, c, f), LAMBDA p, q : ByPrice(t, p, q))

GetCategoryProductsByFiltersPriceDesc(t, c, f) ==
    Orders(CategoryProducts(t, c, f), LAMBDA p, q : ByPrice(t, q, p))

GetCategoryProductsByFiltersNameAsc(t, c, f) ==
    Orders(CategoryProducts(t, c, f), LAMBDA p, q : ByTitle(t, p, q))

GetCategoryProductsByFiltersNameDesc(t, c, f) ==
    Orders(CategoryProducts(t, c, f), LAMBDA p, q : ByTitle(t, q, p))

GetCategoryProductsByFiltersNewest(t, c, f) ==
    Orders(CategoryProducts(t, c, f), LAMBDA p, q : ByAge(t, q, p))

\* By price, from the highest, as the statement has it.
GetCategoryProductsByFiltersOldest(t, c, f) ==
    Orders(CategoryProducts(t, c, f), LAMBDA p, q : ByPrice(t, q, p))

\* GetCategoryProductsByFilters
GetCategoryProductsByFilters(t, c, f, sort) ==
    CASE sort = "price_desc" -> GetCategoryProductsByFiltersPriceDesc(t, c, f)
      [] sort = "name_asc" -> GetCategoryProductsByFiltersNameAsc(t, c, f)
      [] sort = "name_desc" -> GetCategoryProductsByFiltersNameDesc(t, c, f)
      [] sort = "newest" -> GetCategoryProductsByFiltersNewest(t, c, f)
      [] sort = "oldest" -> GetCategoryProductsByFiltersOldest(t, c, f)
      [] OTHER -> GetCategoryProductsByFiltersPriceAsc(t, c, f)

-----------------------------------------------------------------------------
(* The options.                                                            *)

\* What hangs from the category or below it, and the products of all that,
\* active or not.
GetProductAttributesByCategoryID(t, c) ==
    LET tree == Below(t, {c} \intersect Stored(t))
    IN  [brands |-> {t.rows[d].name :
                        d \in {e \in Stored(t) : t.rows[e].parent \in tree}},
         total |-> Cardinality(SellingIn(t, tree))]

\* For each root the names of its children.
GetProductAttributes(t) ==
    [options |-> {[root |-> t.rows[t.rows[d].parent].name,
                   child |-> t.rows[d].name] :
                     d \in {e \in Stored(t) :
                               t.rows[e].parent \in GetParentCategories(t)}},
     total |-> Cardinality(Selling(t))]

-----------------------------------------------------------------------------
(* What statements that were written apart must agree on.                  *)

Sorts == {"price_asc", "price_desc", "name_asc", "name_desc", "newest",
          "oldest"}

\* Every list of the shop has as many rows as the count says: the paths and
\* the parents lead to the same products.
ShopAgrees(t, f) ==
    \A sort \in Sorts : \A s \in GetProductsByFilters(t, f, sort) :
        Len(s) = CountAllProductsByFilters(t, f)

\* The options of a category promise as many products as its list has when
\* nothing is chosen, if every category below it is active.
CategoryAgrees(t, c, f) ==
    (/\ ~f.given
     /\ Below(t, {c}) \subseteq Kept(t, TRUE)
     /\ \A p \in Selling(t) : Affordable(t, f, p)) =>
        /\ GetTotalCategoryProductsByFilters(t, c, f)
               = GetProductAttributesByCategoryID(t, c).total
        /\ CountProductsByParentCategoryID(t, c)
               = GetProductAttributesByCategoryID(t, c).total

=============================================================================
