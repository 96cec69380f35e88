------------------------------ MODULE Catalogue ------------------------------
(***************************************************************************)
(* The tables of the catalogue and the statements on them, as operators on *)
(* a state t of the tables. CategoryTree has t.rows, the categories, and   *)
(* t.of, the category of each product; here                                *)
(*   t.items[p]   the row of product p, or None                            *)
(*   t.images[p]  its rows of product_images, as they were inserted        *)
(*   t.specs[p]   its rows of product_specifications                       *)
(*   t.attrs      product_attributes has rows                              *)
(*   t.rate       rate_to_kes of the rate of the dollar, or None           *)
(*                                                                         *)
(* A query that ends in ORDER BY is the set of the lists it may return:    *)
(* rows that the order does not tell apart come in any order. No statement *)
(* of the program sets valid_from or valid_to: every product is valid.     *)
(***************************************************************************)
EXTENDS CategoryTree

CONSTANTS
    Titles,      \* the names of products, integers so that they have an order
    Prices,      \* in shillings, multiples of the rates
    Paths,       \* of objects in S3
    Specs,       \* the specifications a form can hold
    Featured,    \* the products whose row is featured
    Discounted,  \* the products with a discount that runs
    Sold,        \* Sold[p]: the quantity of p in order_items
    DefaultRate  \* what the statements take where no rate is stored: 135

ASSUME CatalogueAssumption ==
    /\ Titles \subseteq Int
    /\ Prices \subseteq Nat
    /\ Featured \subseteq Products
    /\ Discounted \subseteq Products
    /\ Sold \in [Products -> Nat]
    /\ DefaultRate \in Nat \ {0}
    /\ IsFiniteSet(Products)

Statuses == {"draft", "archived", "active"}

Item == [name : Titles, slug : Titles \X Nat, usd : Nat, status : Statuses,
         at : Nat]
Image == [path : Paths, position : Nat]

Live(t) == {p \in Products : t.items[p] # None}
Selling(t) == {p \in Live(t) : t.items[p].status = "active"}

\* What the constraints of the tables allow: slugs are UNIQUE, and begin with
\* the name; so is a name in a category, which is stored; and what refers to a
\* product goes with it.
IsCatalogue(t) ==
    /\ t \in [rows : [Categories -> Row \union {None}],
              of : [Products -> Categories \union {None}],
              items : [Products -> Item \union {None}],
              images : [Products -> Seq(Image)],
              specs : [Products -> SUBSET Specs],
              attrs : BOOLEAN,
              rate : (Nat \ {0}) \union {None}]
    /\ \A p \in Live(t) : /\ t.items[p].slug[1] = t.items[p].name
                         /\ t.of[p] \in Stored(t) \union {None}
    /\ \A p, q \in Live(t) :
          \/ p = q
          \/ /\ t.items[p].slug # t.items[q].slug
             /\ \/ t.items[p].name # t.items[q].name
                \/ t.of[p] # t.of[q]
                \/ t.of[p] = None
    /\ \A p \in Products \ Live(t) :
          t.of[p] = None /\ t.images[p] = <<>> /\ t.specs[p] = {}

\* The common table expression rate, which every price is computed with.
Rate(t) == IF t.rate = None THEN DefaultRate ELSE t.rate

Price(t, p) == t.items[p].usd * Rate(t)

-----------------------------------------------------------------------------
(* Orders and pages.                                                       *)

\* The lists of the members of ps in which none comes Before an earlier one.
Orders(ps, Precedes(_, _)) ==
    {s \in SetToSeqs(ps) :
        \A i, j \in DOMAIN s : i < j => ~Precedes(s[j], s[i])}

Take(limit, s) == SubSeq(s, 1, IF Len(s) < limit THEN Len(s) ELSE limit)

\* LIMIT and OFFSET, as Paginate computes them from the page.
Page(s, page, size) ==
    LET from == (page - 1) * size + 1
        to == page * size
    IN  SubSeq(s, from, IF Len(s) < to THEN Len(s) ELSE to)

ByTitle(t, p, q) == t.items[p].name < t.items[q].name
ByPrice(t, p, q) == Price(t, p) < Price(t, q)
ByAge(t, p, q) == t.items[p].at < t.items[q].at

\* The paths of p's images by position.
ListProductImages(t, p) ==
    LET im == t.images[p]
    IN  {[i \in DOMAIN s |-> im[s[i]].path] :
            s \in Orders(DOMAIN im,
                         LAMBDA i, j : im[i].position < im[j].position)}

\* What a row shows as its image: the first of a list, or none.
First(paths) == IF paths = <<>> THEN None ELSE paths[1]

FirstImage(t, p) == {First(s) : s \in ListProductImages(t, p)}

\* In no order.
GetImageKeysByProductID(t, p) ==
    {[i \in DOMAIN s |-> t.images[p][s[i]].path] :
        s \in SetToSeqs(DOMAIN t.images[p])}

\* SEO and the daily deals take the image that was inserted first.
OldestImage(t, p) ==
    IF t.images[p] = <<>> THEN None ELSE t.images[p][1].path

-----------------------------------------------------------------------------
(* The statements that write.                                              *)

\* A mutant: the name, which another product may have.
SlugOfName(t, name) == <<name, 0>>

\* generate_slug: the name, and a counter while the slug is taken.
generate_slug(t, name) ==
    LET taken == {t.items[p].slug[2] : p \in
                     {q \in Live(t) : t.items[q].slug[1] = name}}
        free == 0..Cardinality(taken) \ taken
    IN  <<name, CHOOSE n \in free : \A m \in free : n <= m>>

\* UNIQUE (name, category_id), and the foreign key of the category.
MayCreate(t, f) ==
    /\ f.category \in Stored(t)
    /\ \A p \in Live(t) :
          ~(t.items[p].name = f.name /\ t.of[p] = f.category)

CreateProduct(t, p, f, now) ==
    [t EXCEPT !.items[p] = [name |-> f.name, slug |-> generate_slug(t, f.name),
                            usd |-> f.price \div Rate(t),
                            status |-> f.status, at |-> now],
              !.of[p] = f.category]

\* set_default_position: after the last one.
set_default_position(t, p) ==
    LET im == t.images[p]
        used == {im[i].position : i \in DOMAIN im}
    IN  IF used = {} THEN 1
        ELSE 1 + CHOOSE m \in used : \A n \in used : n <= m

CreateProductImage(t, p, path) ==
    [t EXCEPT !.images[p] =
        Append(@, [path |-> path, position |-> set_default_position(t, p)])]

\* The rows of the paths listed get their places in the list.
UpdateProductImages(t, p, listed) ==
    [t EXCEPT !.images[p] =
        [i \in DOMAIN @ |->
            IF @[i].path \in Range(listed)
            THEN [@[i] EXCEPT !.position =
                     CHOOSE n \in DOMAIN listed :
                         listed[n] = t.images[p][i].path]
            ELSE @[i]]]

UpsertProductSpecification(t, p, spec) ==
    [t EXCEPT !.specs[p] = @ \union {spec}]

\* The rows of images and specifications go with their product.
DeleteProducts(t, ps) ==
    [t EXCEPT
        !.items = [p \in Products |-> IF p \in ps THEN None ELSE @[p]],
        !.of = [p \in Products |-> IF p \in ps THEN None ELSE @[p]],
        !.images = [p \in Products |-> IF p \in ps THEN <<>> ELSE @[p]],
        !.specs = [p \in Products |-> IF p \in ps THEN {} ELSE @[p]]]

SetStatus(t, ps, status) ==
    [t EXCEPT !.items = [p \in Products |->
        IF p \in ps \intersect Live(t)
        THEN [@[p] EXCEPT !.status = status] ELSE @[p]]]

GetProductIDsBySlugs(t, slugs) == {p \in Live(t) : t.items[p].slug \in slugs}

DeleteProductByID(t, p) == DeleteProducts(t, {p})
DeleteProductsBySlugs(t, slugs) ==
    DeleteProducts(t, GetProductIDsBySlugs(t, slugs))
ArchiveProductByID(t, p) == SetStatus(t, {p}, "archived")
ArchiveProductsBySlugs(t, slugs) ==
    SetStatus(t, GetProductIDsBySlugs(t, slugs), "archived")
ActivateProductsBySlugs(t, slugs) ==
    SetStatus(t, GetProductIDsBySlugs(t, slugs), "active")
DraftProductsBySlugs(t, slugs) ==
    SetStatus(t, GetProductIDsBySlugs(t, slugs), "draft")

\* A currency without a row is not inserted.
UpdateExchangeRate(t, rate) ==
    [t EXCEPT !.rate = IF @ = None THEN None ELSE rate]

-----------------------------------------------------------------------------
(* The queries of one product. Each is the set of its possible answers,    *)
(* which is empty where there is no row.                                   *)

GetProductBySlug(t, slug) == {p \in Live(t) : t.items[p].slug = slug}

\* ProductDetail has the name and the slug, and no more.
GetProductNames(t, slug) ==
    {[name |-> t.items[p].name, slug |-> slug] :
        p \in GetProductBySlug(t, slug)}

GetV2ProductDetailBySlug(t, slug) ==
    UNION {{[name |-> t.items[p].name, slug |-> slug, price |-> Price(t, p),
             status |-> t.items[p].status, category |-> t.of[p],
             parent |-> t.rows[t.of[p]].parent, specs |-> t.specs[p],
             images |-> s] : s \in ListProductImages(t, p)} :
               p \in {q \in GetProductBySlug(t, slug) : t.of[q] # None}}

GetProductPricingByProductID(t, p) ==
    {[id |-> p, price |-> Price(t, p), image |-> i] : i \in FirstImage(t, p)}

GetProductCartByProductSlug(t, slug) ==
    {[id |-> p, price |-> Price(t, p), category |-> t.of[p]] :
        p \in GetProductBySlug(t, slug)}

\* A JOIN: no specification, no row.
GetProductSpecsByID(t, p) == {t.specs[p]} \ {{}}

GetProductSEO(t, slug) ==
    {[id |-> p, price |-> Price(t, p), image |-> OldestImage(t, p),
      brand |-> t.rows[t.of[p]].name] :
        p \in {q \in GetProductBySlug(t, slug) : t.of[q] # None}}

-----------------------------------------------------------------------------
(* The lists.                                                              *)

CountProducts(t) == Cardinality(Selling(t))

\* A row of the list for the administrators.
V2Product(t, p, image) ==
    [slug |-> t.items[p].slug, price |-> Price(t, p), image |-> image,
     status |-> t.items[p].status]

\* All the products, whatever their status.
GetV2Products(t, page, size) ==
    UNION {LET s == Page(o, page, size)
               shown == UNION {FirstImage(t, p) : p \in Range(s)}
           IN  {[i \in DOMAIN s |-> V2Product(t, s[i], im[i])] :
                   im \in {f \in [DOMAIN s -> shown] :
                       \A i \in DOMAIN s : f[i] \in FirstImage(t, s[i])}} :
               o \in Orders(Live(t), LAMBDA p, q : ByAge(t, q, p))}

ListProducts(t) == Orders(Live(t), LAMBDA p, q : ByTitle(t, p, q))

\* The categories below those of cs, by parent_id, as often as it takes: the
\* recursive queries of a table without a cycle.
Below(t, cs) ==
    LET up[n \in 0..Cardinality(Categories)] ==
            IF n = 0 THEN cs
            ELSE LET last == up[n - 1]
                 IN  last \union {d \in Stored(t) : t.rows[d].parent \in last}
    IN  up[Cardinality(Categories)]

SellingIn(t, cs) == {p \in Selling(t) : t.of[p] \in cs}

CountProductsByParentCategoryID(t, c) ==
    Cardinality(SellingIn(t, Below(t, {c} \intersect Stored(t))))

GetProductsByParentCategoryID(t, c, page, size) ==
    {Page(s, page, size) :
        s \in SetToSeqs(SellingIn(t, Below(t, {c} \intersect Stored(t))))}

GetBestSellerProducts(t, limit) ==
    {Take(limit, s) : s \in
        Orders({p \in Selling(t) : Sold[p] > 0},
               LAMBDA p, q : Sold[p] > Sold[q])}

\* Drafts and archived products among them.
GetFeaturedProducts(t, limit) ==
    {Take(limit, s) : s \in
        Orders(Live(t) \intersect Featured, LAMBDA p, q : ByAge(t, q, p))}

\* All that is sold was created within the last 135 days here.
GetNewArrivalProducts(t, limit) ==
    {Take(limit, s) : s \in
        Orders(Selling(t), LAMBDA p, q : ByAge(t, q, p))}

GetDailyDeals(t) ==
    {[i \in DOMAIN s |-> [id |-> s[i], price |-> Price(t, s[i]),
                          image |-> OldestImage(t, s[i])]] :
        s \in Orders(Selling(t) \intersect Discounted,
                     LAMBDA p, q : ByAge(t, q, p))}

\* The search terms are the names of categories. No name of a product has a
\* word of a category's name.
SearchProducts(t, term) ==
    SellingIn(t, Below(t, GetCategoryByName(t, term)))

\* Without a stored rate there is nothing to join with.
V2SearchProducts(t, term, limit) ==
    {Take(limit, s) : s \in
        SetToSeqs(IF t.rate = None THEN {}
                  ELSE SellingIn(t, GetCategoryByName(t, term)))}

\* The count does not look at the categories' names.
V2SearchProductsCount == 0

AutocompleteSuggestions(t, term) == {term : c \in GetCategoryByName(t, term)}

=============================================================================
