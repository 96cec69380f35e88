------------------------------ MODULE Products ------------------------------
(***************************************************************************)
(* The requests for products: the handlers of products, analytics, search  *)
(* and filters, their services, Redis in front of the tables, the images   *)
(* in S3, and the update of the exchange rate.                             *)
(*                                                                         *)
(* Every request is a process; a step is one statement, one transaction or *)
(* one call to Redis or S3. A row of products is known by the request that *)
(* inserted it, and what a key of Redis holds is a possible answer of its  *)
(* query.                                                                  *)
(***************************************************************************)
EXTENDS Filters

CONSTANTS
    Requests,
    FirstTables,  \* the tables that a run may start from
    Forms,        \* what a form may hold
    Filled,       \* the filters asked for
    Pages,        \* the pages asked for
    PageSize,     \* rows of a page, and the limit of a list
    Rates,        \* the rates an administrator may set
    LastSecond    \* the bound of the clock

ASSUME ProductsAssumption ==
    /\ Requests \subseteq Products
    /\ \A u \in FirstTables : /\ IsCatalogue(u)
                             /\ \A r \in Requests : u.items[r] = None
    /\ \A f \in Forms :
          /\ f.name \in Titles /\ f.price \in Prices /\ f.status \in Statuses
          /\ (0..LastSecond) \X f.files \subseteq Paths
          /\ f.specs \subseteq Specs
          /\ f.order \in Seq(Paths)
    /\ \A f \in Filled : IsFilter(f)
    /\ Pages \subseteq Nat \ {0} /\ PageSize \in Nat \ {0}
    /\ Rates \subseteq Nat \ {0}
    /\ LastSecond \in Nat
    /\ None \notin Products \union Item \union Nat

VARIABLES
    t,         \* the tables
    s3,        \* the objects stored
    redis,     \* key |-> [value, by], the entries that have not expired
    second,    \* the clock, in the seconds of a path
    pc,        \* pc[r]: the step that request r takes next
    body,      \* body[r]: what it asks for
    got,       \* got[r]: what it has read so far
    sent,      \* the paths that were ever uploaded to
    shared,    \* the paths that two uploads had in common
    removed,   \* the products that were deleted
    overtaken, \* the requests that a write came after what they had read
    outdated   \* the keys that a failure left behind a write

vars == <<t, s3, redis, second, pc, body, got, sent, shared, removed,
          overtaken, outdated>>

\* The steps after a write, up to the flush.
Unflushed == {"upload", "image", "order", "spec", "purge", "keep", "flush"}
Writing == Unflushed \union
           {"verify", "known", "insert", "update", "slug", "keys", "delete",
            "archive", "bulk", "rate"}
Reading == {"find", "lookup", "count", "page", "row", "fetch", "fill",
            "named", "options"}
Done == {"idle", "ok", "failed"}

\* Keys that the pattern product:* matches, and the others.
ProductKinds == {"details", "images", "pricing", "specs", "cart", "seo",
                 "sitemap", "all", "category", "best-sellers", "featured",
                 "new-arrivals", "daily-deals"}
Kinds == ProductKinds \union {"rate", "search", "autocomplete"}

\* The rows and keys have their types, and the tables keep their constraints.
TypeOK ==
    /\ IsCatalogue(t)
    /\ s3 \subseteq Paths
    /\ \A k \in DOMAIN redis : k[1] \in Kinds /\ redis[k].by \in Requests
    /\ second \in 0..LastSecond
    /\ pc \in [Requests -> Writing \union Reading \union Done]
    /\ shared \subseteq sent /\ sent \subseteq Paths
    /\ removed \subseteq Products
    /\ overtaken \subseteq Requests
    /\ outdated \subseteq DOMAIN redis

\* What a request holds before it has read anything. direct is set once it
\* goes on without the cache.
Nothing == [about |-> None, value |-> None, todo |-> <<>>, paths |-> <<>>,
            hit |-> FALSE, direct |-> FALSE]

PathsOf(p) == {t.images[p][i].path : i \in DOMAIN t.images[p]}

Init ==
    /\ t \in FirstTables
    /\ s3 = UNION {PathsOf(p) : p \in Products}
    /\ redis = <<>>
    /\ second = 0
    /\ pc = [r \in Requests |-> "idle"]
    /\ body = [r \in Requests |-> None]
    /\ got = [r \in Requests |-> Nothing]
    /\ sent = s3
    /\ shared = {x \in s3 : \E p, q \in Products :
                               p # q /\ x \in PathsOf(p) \intersect PathsOf(q)}
    /\ removed = {}
    /\ overtaken = {} /\ outdated = {}

Go(r, step) == pc' = [pc EXCEPT ![r] = step]

Begin(r, b, step) ==
    /\ pc[r] = "idle"
    /\ body' = [body EXCEPT ![r] = b]
    /\ Go(r, step)
    /\ UNCHANGED <<t, s3, redis, second, got, sent, shared, removed,
                   overtaken, outdated>>

\* What r holds is forgotten once it is done; of a form that was saved, what
\* it asked for is not.
Held(r, to, holds) ==
    /\ got' = [got EXCEPT ![r] =
                  IF to \in Done THEN [Nothing EXCEPT !.hit = holds.hit]
                  ELSE holds]
    /\ body' = IF to \in {"ok", "failed"} /\ body[r].op # "save"
               THEN [body EXCEPT ![r] = None] ELSE body

\* A step of r that touches nothing but its own progress.
Step(r, from, to, holds) ==
    /\ pc[r] = from
    /\ Go(r, to)
    /\ Held(r, to, holds)
    /\ UNCHANGED <<t, s3, redis, second, sent, shared, removed, overtaken,
                   outdated>>

Tick ==
    /\ second < LastSecond
    /\ second' = second + 1
    /\ UNCHANGED <<t, s3, redis, pc, body, got, sent, shared, removed,
                   overtaken, outdated>>

\* The requests that hold what they have read, to show or to store it.
Holding == {q \in Requests :
               \/ pc[q] \in {"page", "row", "fill", "keep"}
               \/ pc[q] = "fetch" /\ got[q].about # None}

\* A statement of r, or a transaction of several.
Wrote(r, new, to, holds) ==
    /\ t' = new
    /\ Go(r, to)
    /\ Held(r, to, holds)
    /\ overtaken' = IF new = t THEN overtaken
                    ELSE overtaken \union (Holding \ {r})
    /\ removed' = removed \union (Live(t) \ Live(new))
    /\ UNCHANGED <<s3, redis, second, sent, shared, outdated>>

\* r gives up. What it wrote stays, and no key is dropped for it.
GiveUp(r, from) ==
    /\ pc[r] = from
    /\ Go(r, "failed")
    /\ Held(r, "failed", got[r])
    /\ outdated' = IF from \in Unflushed THEN DOMAIN redis ELSE outdated
    /\ UNCHANGED <<t, s3, redis, second, sent, shared, removed, overtaken>>

-----------------------------------------------------------------------------
(* The requests.                                                           *)

Slugs_(tables) == {tables.items[p].slug : p \in Live(tables)}

Reads(r, op, key) == Begin(r, [op |-> op, key |-> key], "find")

GetProductBySlugHandler(r) ==
    \E s \in Slugs_(t) : Reads(r, "name", <<"details", s>>)
GetProductDetailHandler(r) ==
    \E s \in Slugs_(t) : Reads(r, "details", <<"details", s>>)
GetProductImagesBySlugHandler(r) ==
    \E s \in Slugs_(t) : Reads(r, "images", <<"images", s>>)
GetProductPricingBySlugHandler(r) ==
    \E s \in Slugs_(t) : Reads(r, "pricing", <<"pricing", s>>)
GetProductSpecsBySlugHandler(r) ==
    \E s \in Slugs_(t) : Reads(r, "specs", <<"specs", s>>)
GetProductCartHandler(r) ==
    \E s \in Slugs_(t) : Reads(r, "cart", <<"cart", s>>)
GetProductSEOHandler(r) ==
    \E s \in Slugs_(t) : Reads(r, "seo", <<"seo", s>>)
GetAllProductSitemapHandler(r) == Reads(r, "sitemap", <<"sitemap">>)
GetProductsHandler(r) ==
    \E n \in Pages : Reads(r, "all", <<"all", n>>)
GetProductsByCategoryIDHandler(r) ==
    \E c \in Stored(t), n \in Pages : Reads(r, "category", <<"category", c, n>>)
GetBestSellerProductsHandler(r) == Reads(r, "best", <<"best-sellers">>)
GetFeaturedProductsHandler(r) == Reads(r, "featured", <<"featured">>)
GetNewArrivalProductsHandler(r) == Reads(r, "new", <<"new-arrivals">>)
GetDailyDealsProductsHandler(r) == Reads(r, "deals", <<"daily-deals">>)
GetExchangeRateHandler(r) == Reads(r, "rate", <<"rate">>)
SearchProductsHandler(r) ==
    \E n \in Names : Reads(r, "search", <<"search", n>>)
SearchProductsPaginatedHandler(r) ==
    \E n \in Names : Reads(r, "searchpage", <<"search", n>>)
AutocompleteSuggestionsHandler(r) ==
    \E n \in Names : Reads(r, "autocomplete", <<"autocomplete", n>>)

\* The lists with a filter, which are not cached.
GetAllProductsHandler(r) ==
    \E f \in Filled : Begin(r, [op |-> "filter", filter |-> f], "count")
GetFilteredCategoryProducts(r) ==
    \E f \in Filled, c \in Stored(t) :
        Begin(r, [op |-> "filtered", of |-> c, filter |-> f], "count")

\* The options that a filter is chosen from: of everything, or of the category
\* of a name.
GetAllProductFilterOptionsHandler(r) ==
    Begin(r, [op |-> "options"], "options")
GetFilterOptionsByCategoryNameHandler(r) ==
    \E n \in Names : Begin(r, [op |-> "options", name |-> n], "named")

CreateV2ProductHandler(r) ==
    \E f \in Forms, s \in Slugs_(t) \union {None} :
        Begin(r, [op |-> "save", form |-> f, key |-> <<"details", s>>],
              "verify")
DeleteProductHandler(r) ==
    \E s \in Slugs_(t) : Begin(r, [op |-> "delete", slug |-> s], "slug")
ArchiveProductHandler(r) ==
    \E s \in Slugs_(t) : Begin(r, [op |-> "archive", slug |-> s], "slug")
UpdateExchangeRateHandler(r) ==
    \E rate \in Rates : Begin(r, [op |-> "rate", rate |-> rate], "rate")

\* The handlers of several products, with the statement each ends in.
Bulk(r, op) ==
    \E ss \in SUBSET Slugs_(t) \ {{}} :
        Begin(r, [op |-> op, slugs |-> ss], "verify")
DeleteProductsHandler(r) == Bulk(r, "deletemany")
ArchiveProductsHandler(r) == Bulk(r, "archivemany")
DraftProductsHandler(r) == Bulk(r, "draftmany")
ActivateProductsHandler(r) == Bulk(r, "activatemany")

-----------------------------------------------------------------------------
(* Reading through Redis.                                                  *)

\* How the service of a request uses the cache: GetOrSet, with its limiter;
\* GetOrSet and the query once more where it fails; Get and Set; or
\* GetOrSetWithTTL.
Policy(op) ==
    CASE op \in {"images", "pricing", "specs", "cart"} -> "fallback"
      [] op \in {"name", "all", "category"} -> "get"
      [] op \in {"search", "searchpage", "autocomplete"} -> "ttl"
      [] OTHER -> "getorset"

\* A list that is empty is not taken from the cache.
Usable(op, value) ==
    CASE op \in {"all", "category"} -> value.rows # <<>>
      [] op \in {"images", "sitemap", "best", "featured", "new", "deals"} ->
             value # <<>>
      [] OTHER -> TRUE

\* The two searches share a key, and neither can decode what the other stored.
Decodes(op, value) ==
    op \in {"search", "searchpage"} => value.paged = (op = "searchpage")

\* The first query of a service.
FirstQuery(op) ==
    CASE op \in {"images", "pricing", "specs"} -> "lookup"
      [] op \in {"all", "category"} -> "count"
      [] OTHER -> "fetch"

\* r reads the tables; directly, if its answer will not be stored.
Query(r, from, direct) ==
    Step(r, from, FirstQuery(body[r].op), [Nothing EXCEPT !.direct = direct])

\* Redis, the limiter or a query failed.
Fall(r, from) ==
    IF Policy(body[r].op) \in {"fallback", "ttl"} /\ ~got[r].direct
    THEN Query(r, from, TRUE)
    ELSE GiveUp(r, from)

\* Get, in the four ways it is used. GetOrSetWithTTL takes a miss for a hit.
Find(r) ==
    /\ pc[r] = "find"
    /\ LET k == body[r].key
           op == body[r].op
           hit == k \in DOMAIN redis /\ Decodes(op, redis[k].value)
       IN  \/ IF Policy(op) \in {"get", "ttl"}
              THEN Query(r, "find", FALSE) ELSE Fall(r, "find")
           \/ /\ k \in DOMAIN redis => hit
              /\ IF Policy(op) = "ttl" \/ (hit /\ Usable(op, redis[k].value))
                 THEN Step(r, "find", "ok", Nothing)
                 ELSE Query(r, "find", FALSE)

\* Set. Where GetOrSet fails at it, so does the request, unless it asks the
\* tables once more.
Fill(r) ==
    /\ pc[r] = "fill"
    /\ \/ /\ redis' = Updated(redis, [k \in {body[r].key} |->
                                        [value |-> got[r].value, by |-> r]])
          /\ outdated' = outdated \ {body[r].key}
          /\ Go(r, "ok")
          /\ Held(r, "ok", Nothing)
          /\ UNCHANGED <<t, s3, second, sent, shared, removed, overtaken>>
       \/ IF Policy(body[r].op) \in {"get", "ttl"}
          THEN Step(r, "fill", "ok", Nothing) ELSE Fall(r, "fill")

\* The time to live of an entry is over.
Expire ==
    \E k \in DOMAIN redis :
        /\ redis' = [j \in DOMAIN redis \ {k} |-> redis[j]]
        /\ outdated' = outdated \ {k}
        /\ UNCHANGED <<t, s3, second, pc, body, got, sent, shared, removed,
                       overtaken>>

ProductKeys == {k \in DOMAIN redis : k[1] \in ProductKinds}

\* A mutant: the keys of the details where all of the products are meant.
ForgetDetails(r) ==
    /\ pc[r] = "flush"
    /\ Go(r, "ok")
    /\ Held(r, "ok", got[r])
    /\ redis' = [k \in {j \in DOMAIN redis : j[1] # "details"} |-> redis[k]]
    /\ outdated' = outdated \intersect DOMAIN redis'
    /\ UNCHANGED <<t, s3, second, sent, shared, removed, overtaken>>

\* invalidateProductCache: DeleteKeysByPattern drops the keys in batches, and
\* goes on where a batch fails; what it returns is not looked at.
InvalidateProductCache(r) ==
    /\ pc[r] = "flush"
    /\ Go(r, "ok")
    /\ Held(r, "ok", got[r])
    /\ \E kept \in SUBSET ProductKeys :
          /\ redis' = [k \in DOMAIN redis \ (ProductKeys \ kept) |-> redis[k]]
          /\ outdated' = (outdated \ ProductKeys) \union kept
    /\ UNCHANGED <<t, s3, second, sent, shared, removed, overtaken>>

-----------------------------------------------------------------------------
(* The queries of the readers.                                             *)

\* GetProductBySlug first, where the next query goes by the id.
LookupProduct(r) ==
    /\ pc[r] = "lookup"
    /\ \/ \E p \in GetProductBySlug(t, body[r].key[2]) :
              Step(r, "lookup", "fetch", [got[r] EXCEPT !.about = p])
       \/ Fall(r, "lookup")

\* The last query of op, whose answer is one of values.
Fetch(r, op, values) ==
    /\ pc[r] = "fetch"
    /\ body[r].op = op
    /\ \/ \E v \in values :
              Step(r, "fetch", IF got[r].direct THEN "ok" ELSE "fill",
                   [got[r] EXCEPT !.value = v])
       \/ Fall(r, "fetch")

Slug(r) == body[r].key[2]

FetchName(r) == Fetch(r, "name", GetProductNames(t, Slug(r)))
FetchDetail(r) == Fetch(r, "details", GetV2ProductDetailBySlug(t, Slug(r)))
FetchImages(r) == Fetch(r, "images", GetImageKeysByProductID(t, got[r].about))
FetchPricing(r) ==
    Fetch(r, "pricing", IF t.items[got[r].about] = None THEN {}
                        ELSE GetProductPricingByProductID(t, got[r].about))
FetchSpecs(r) == Fetch(r, "specs", GetProductSpecsByID(t, got[r].about))
FetchCart(r) == Fetch(r, "cart", GetProductCartByProductSlug(t, Slug(r)))
FetchSEO(r) == Fetch(r, "seo", GetProductSEO(t, Slug(r)))
FetchSitemap(r) == Fetch(r, "sitemap", ListProducts(t))
FetchBestSellers(r) == Fetch(r, "best", GetBestSellerProducts(t, PageSize))
FetchFeatured(r) == Fetch(r, "featured", GetFeaturedProducts(t, PageSize))
FetchNewArrivals(r) == Fetch(r, "new", GetNewArrivalProducts(t, PageSize))
FetchDailyDeals(r) == Fetch(r, "deals", GetDailyDeals(t))
GetLatestExchangeRate(r) == Fetch(r, "rate", {Rate(t)})
Autocomplete(r) ==
    Fetch(r, "autocomplete", {AutocompleteSuggestions(t, Slug(r))})
Search(r) ==
    Fetch(r, "search", {[paged |-> FALSE, rows |-> s] :
                           s \in V2SearchProducts(t, Slug(r), PageSize)})
SearchPaginated(r) ==
    Fetch(r, "searchpage", {[paged |-> TRUE, rows |-> s] :
                               s \in V2SearchProducts(t, Slug(r), PageSize)})

\* GetProducts: the number of products sold, and a page of all of them.
CountAll(r) ==
    /\ pc[r] = "count" /\ body[r].op = "all"
    /\ \/ Step(r, "count", "page",
               [got[r] EXCEPT !.value = [total |-> CountProducts(t),
                                         rows |-> <<>>]])
       \/ Fall(r, "count")

PageOfAll(r) ==
    /\ pc[r] = "page" /\ body[r].op = "all"
    /\ \/ \E s \in GetV2Products(t, Slug(r), PageSize) :
              Step(r, "page", "fill", [got[r] EXCEPT !.value.rows = s])
       \/ Fall(r, "page")

\* GetProductsByCategoryID: nothing is stored where nothing is counted.
CountInCategory(r) ==
    /\ pc[r] = "count" /\ body[r].op = "category"
    /\ LET n == CountProductsByParentCategoryID(t, Slug(r)) IN
       \/ Step(r, "count", IF n = 0 THEN "ok" ELSE "page",
               [got[r] EXCEPT !.value = [total |-> n, rows |-> <<>>]])
       \/ Fall(r, "count")

PageOfCategory(r) ==
    /\ pc[r] = "page" /\ body[r].op = "category"
    /\ \/ \E s \in GetProductsByParentCategoryID(t, Slug(r), body[r].key[3],
                                                 PageSize) :
              Step(r, "page", IF s = <<>> THEN "fill" ELSE "row",
                   [got[r] EXCEPT !.todo =
                       [i \in DOMAIN s |-> [id |-> s[i],
                                            usd |-> t.items[s[i]].usd]]])
       \/ Fall(r, "page")

\* mapProductsToModel: the images and the rate, for one product after another.
MapProduct(r) ==
    /\ pc[r] = "row"
    /\ LET p == Head(got[r].todo) IN
       \/ \E i \in FirstImage(t, p.id) :
              Step(r, "row", IF Len(got[r].todo) = 1 THEN "fill" ELSE "row",
                   [got[r] EXCEPT
                       !.todo = Tail(@),
                       !.value.rows = Append(@, [id |-> p.id,
                                                 price |-> p.usd * Rate(t),
                                                 image |-> i])])
       \/ Fall(r, "row")

\* GetProductsByFilters and GetCategoryProductsByFilters of FilterService: the
\* count and the page are transactions of their own.
CountFiltered(r) ==
    /\ pc[r] = "count" /\ body[r].op \in {"filter", "filtered"}
    /\ LET f == body[r].filter
           n == IF body[r].op = "filter" THEN CountAllProductsByFilters(t, f)
                ELSE GetTotalCategoryProductsByFilters(t, body[r].of, f)
       IN  \/ Step(r, "count", "page", [got[r] EXCEPT !.value = n])
           \/ GiveUp(r, "count")

PageOfFiltered(r) ==
    /\ pc[r] = "page" /\ body[r].op \in {"filter", "filtered"}
    /\ \/ \E sort \in Sorts, n \in Pages :
              LET lists == IF body[r].op = "filter"
                           THEN GetProductsByFilters(t, body[r].filter, sort)
                           ELSE GetCategoryProductsByFilters(
                                    t, body[r].of, body[r].filter, sort)
              IN  \E s \in lists :
                      Step(r, "page", "ok",
                           [got[r] EXCEPT !.value = Page(s, n, PageSize)])
       \/ GiveUp(r, "page")

\* GetCategoryProductFilterOptions: the category first, and then its options.
FindCategory(r) ==
    /\ pc[r] = "named"
    /\ \/ \E c \in GetCategoryByName(t, body[r].name) :
              Step(r, "named", "options", [got[r] EXCEPT !.about = c])
       \/ GiveUp(r, "named")

FetchFilterOptions(r) ==
    /\ pc[r] = "options"
    /\ LET options == IF got[r].about = None THEN GetProductAttributes(t)
                      ELSE GetProductAttributesByCategoryID(t, got[r].about)
       IN  \/ Step(r, "options", "ok", [got[r] EXCEPT !.value = options])
           \/ GiveUp(r, "options")

-----------------------------------------------------------------------------
(* The writers.                                                            *)

\* getUserIDFromContext and verifyAdminStatus
VerifyAdminStatus(r) ==
    /\ pc[r] = "verify"
    /\ \/ Step(r, "verify", IF body[r].op = "save" THEN "known" ELSE "bulk",
               Nothing)
       \/ GiveUp(r, "verify")

\* CreateV2Product asks GetOrSet for a **ProductSchema, which isEmpty does not
\* know and takes for full: what is not in Redis is not looked up, and what is
\* there has no id.
GetOrSetExisting(r) ==
    /\ pc[r] = "known"
    /\ \/ IF body[r].key \in DOMAIN redis
          THEN Step(r, "known", "update", [Nothing EXCEPT !.hit = TRUE])
          ELSE Step(r, "known", "insert", Nothing)
       \/ GiveUp(r, "known")

\* The step after the last file or the last row of an image.
AfterImages(r) ==
    IF body[r].form.order # <<>> THEN "order"
    ELSE IF body[r].form.specs # {} THEN "spec" ELSE "flush"

AfterRow(r) == IF body[r].form.files = {} THEN AfterImages(r) ELSE "upload"

\* updateExistingProduct: UPDATE ... WHERE id = uuid.Nil
UpdateExistingProduct(r) ==
    /\ pc[r] = "update"
    /\ \/ Wrote(r, t, AfterRow(r), got[r])
       \/ GiveUp(r, "update")

\* createNewProduct
CreateNewProduct(r) ==
    /\ pc[r] = "insert"
    /\ \/ /\ MayCreate(t, body[r].form)
          /\ Wrote(r, CreateProduct(t, r, body[r].form, second), AfterRow(r),
                   [got[r] EXCEPT !.about = r])
       \/ GiveUp(r, "insert")

\* generateFilePath
generateFilePath(file) == <<second, file>>

Uploaded(r) == {got[r].paths[i][2] : i \in DOMAIN got[r].paths}

\* UploadMultipleFilesToS3: a goroutine for each file. The first failure is
\* returned, and the others go on.
UploadMultipleFilesToS3(r) ==
    /\ pc[r] = "upload"
    /\ LET left == body[r].form.files \ Uploaded(r) IN
       \E file \in left, failed \in BOOLEAN :
       \E on \in IF failed THEN SUBSET (left \ {file}) ELSE {{file}} :
           LET stored == {generateFilePath(x) : x \in on} IN
           /\ s3' = s3 \union stored
           /\ sent' = sent \union stored
           /\ shared' = shared \union (sent \intersect stored)
           /\ Go(r, CASE failed -> "failed"
                      [] ~failed /\ left = {file} -> "image"
                      [] OTHER -> "upload")
           /\ got' = [got EXCEPT ![r] =
                         IF failed THEN [Nothing EXCEPT !.hit = got[r].hit]
                         ELSE [got[r] EXCEPT
                                  !.paths = Append(@, generateFilePath(file)),
                                  !.todo = Append(@, generateFilePath(file))]]
           /\ outdated' = IF failed THEN DOMAIN redis ELSE outdated
           /\ UNCHANGED <<t, redis, second, body, removed, overtaken>>

\* The foreign key of a row of r's: none for the id of a hit, and none once the
\* product is deleted.
HasProduct(r) == got[r].about # None /\ t.items[r] # None

\* A mutant: a row whose insert fails is passed over.
CreateImageOrPass(r) ==
    /\ pc[r] = "image"
    /\ LET todo == got[r].todo
           next == IF Len(todo) = 1 THEN AfterImages(r) ELSE "image"
           holds == [got[r] EXCEPT !.todo = Tail(@)]
       IN  \/ /\ HasProduct(r)
              /\ Wrote(r, CreateProductImage(t, r, Head(todo)), next, holds)
           \/ Wrote(r, t, next, holds)

\* uploadAndCreateProductImages, once all is uploaded
CreateProductImages(r) ==
    /\ pc[r] = "image"
    /\ LET todo == got[r].todo IN
       \/ /\ HasProduct(r)
          /\ Wrote(r, CreateProductImage(t, r, Head(todo)),
                   IF Len(todo) = 1 THEN AfterImages(r) ELSE "image",
                   [got[r] EXCEPT !.todo = Tail(@)])
       \/ GiveUp(r, "image")

\* updateProductImages: the order the form lists. It touches the rows of the
\* product, and there are none for the id of a hit.
UpdateProductImageUrls(r) ==
    /\ pc[r] = "order"
    /\ \/ Wrote(r, IF HasProduct(r)
                   THEN UpdateProductImages(t, r, body[r].form.order) ELSE t,
                IF body[r].form.specs # {} THEN "spec" ELSE "flush", got[r])
       \/ GiveUp(r, "order")

\* upsertProductSpecifications: one statement for each.
UpsertSpecifications(r) ==
    /\ pc[r] = "spec"
    /\ \/ /\ HasProduct(r)
          /\ \E spec \in body[r].form.specs \ t.specs[r] :
                LET new == UpsertProductSpecification(t, r, spec)
                IN  Wrote(r, new,
                          IF body[r].form.specs \subseteq new.specs[r]
                          THEN "flush" ELSE "spec", got[r])
       \/ GiveUp(r, "spec")

\* DeleteProduct and ArchiveProduct, up to the statement that writes
FindProduct(r) ==
    /\ pc[r] = "slug"
    /\ \/ \E p \in GetProductBySlug(t, body[r].slug) :
              Step(r, "slug",
                   IF body[r].op = "delete" THEN "keys" ELSE "archive",
                   [Nothing EXCEPT !.about = p])
       \/ GiveUp(r, "slug")

\* A mutant: the objects go with the keys that were read, before the rows.
PurgeFirst(r) ==
    /\ pc[r] = "keys"
    /\ Go(r, "delete")
    /\ \E s \in GetImageKeysByProductID(t, got[r].about) :
          /\ got' = [got EXCEPT ![r].paths = s]
          /\ s3' = s3 \ Range(s)
    /\ UNCHANGED <<t, redis, second, body, sent, shared, removed, overtaken,
                   outdated>>

ReadImageKeys(r) ==
    /\ pc[r] = "keys"
    /\ \/ \E s \in GetImageKeysByProductID(t, got[r].about) :
              Step(r, "keys", "delete", [got[r] EXCEPT !.paths = s])
       \/ GiveUp(r, "keys")

DeleteProduct(r) ==
    /\ pc[r] = "delete"
    /\ \/ Wrote(r, DeleteProductByID(t, got[r].about), "purge", got[r])
       \/ GiveUp(r, "delete")

\* DeleteMultipleFilesFromS3: S3 refuses an empty list. Where it fails, no key
\* is dropped.
DeleteMultipleFilesFromS3(r) ==
    /\ pc[r] = "purge"
    /\ \/ /\ got[r].paths # <<>>
          /\ s3' = s3 \ Range(got[r].paths)
          /\ Go(r, "flush")
          /\ got' = [got EXCEPT ![r] = Nothing]
          /\ UNCHANGED <<t, redis, second, body, sent, shared, removed,
                         overtaken, outdated>>
       \/ GiveUp(r, "purge")

ArchiveProduct(r) ==
    /\ pc[r] = "archive"
    /\ \/ Wrote(r, ArchiveProductByID(t, got[r].about), "flush", Nothing)
       \/ GiveUp(r, "archive")

\* DeleteProducts, ArchiveProducts, DraftProducts and ActivateProducts: one
\* statement. No object of S3 is deleted.
BulkStatement(r) ==
    /\ pc[r] = "bulk"
    /\ LET slugs == body[r].slugs IN
       \/ Wrote(r, CASE body[r].op = "deletemany" ->
                            DeleteProductsBySlugs(t, slugs)
                     [] body[r].op = "archivemany" ->
                            ArchiveProductsBySlugs(t, slugs)
                     [] body[r].op = "draftmany" ->
                            DraftProductsBySlugs(t, slugs)
                     [] OTHER -> ActivateProductsBySlugs(t, slugs),
                "flush", Nothing)
       \/ GiveUp(r, "bulk")

\* UpdateExchangeRate of OrderService
StoreExchangeRate(r) ==
    /\ pc[r] = "rate"
    /\ \/ Wrote(r, UpdateExchangeRate(t, body[r].rate), "keep",
                [Nothing EXCEPT !.value = body[r].rate])
       \/ GiveUp(r, "rate")

\* What is stored may be another rate, when there is no row to update, and the
\* old one stays where Redis fails.
KeepExchangeRate(r) ==
    /\ pc[r] = "keep"
    /\ Go(r, "flush")
    /\ got' = [got EXCEPT ![r] = Nothing]
    /\ \/ /\ redis' = Updated(redis, [k \in {<<"rate">>} |->
                                        [value |-> got[r].value, by |-> r]])
          /\ outdated' = IF t.rate = None THEN outdated \union {<<"rate">>}
                         ELSE outdated \ {<<"rate">>}
       \/ /\ redis' = redis
          /\ outdated' = outdated \union (DOMAIN redis \intersect {<<"rate">>})
    /\ UNCHANGED <<t, s3, second, body, sent, shared, removed, overtaken>>

-----------------------------------------------------------------------------
Requested(r) ==
    \/ GetProductBySlugHandler(r) \/ GetProductDetailHandler(r)
    \/ GetProductImagesBySlugHandler(r) \/ GetProductPricingBySlugHandler(r)
    \/ GetProductSpecsBySlugHandler(r) \/ GetProductCartHandler(r)
    \/ GetProductSEOHandler(r) \/ GetAllProductSitemapHandler(r)
    \/ GetProductsHandler(r) \/ GetProductsByCategoryIDHandler(r)
    \/ GetBestSellerProductsHandler(r) \/ GetFeaturedProductsHandler(r)
    \/ GetNewArrivalProductsHandler(r) \/ GetDailyDealsProductsHandler(r)
    \/ GetExchangeRateHandler(r) \/ SearchProductsHandler(r)
    \/ SearchProductsPaginatedHandler(r) \/ AutocompleteSuggestionsHandler(r)
    \/ GetAllProductsHandler(r) \/ GetFilteredCategoryProducts(r)
    \/ GetAllProductFilterOptionsHandler(r)
    \/ GetFilterOptionsByCategoryNameHandler(r)
    \/ CreateV2ProductHandler(r) \/ DeleteProductHandler(r)
    \/ ArchiveProductHandler(r) \/ DeleteProductsHandler(r)
    \/ ArchiveProductsHandler(r) \/ DraftProductsHandler(r)
    \/ ActivateProductsHandler(r) \/ UpdateExchangeRateHandler(r)

Read(r) ==
    \/ Find(r) \/ LookupProduct(r) \/ Fill(r)
    \/ FetchName(r) \/ FetchDetail(r) \/ FetchImages(r) \/ FetchPricing(r)
    \/ FetchSpecs(r) \/ FetchCart(r) \/ FetchSEO(r) \/ FetchSitemap(r)
    \/ FetchBestSellers(r) \/ FetchFeatured(r) \/ FetchNewArrivals(r)
    \/ FetchDailyDeals(r) \/ GetLatestExchangeRate(r)
    \/ Search(r) \/ SearchPaginated(r) \/ Autocomplete(r)
    \/ CountAll(r) \/ PageOfAll(r) \/ CountInCategory(r) \/ PageOfCategory(r)
    \/ MapProduct(r) \/ CountFiltered(r) \/ PageOfFiltered(r)
    \/ FindCategory(r) \/ FetchFilterOptions(r)

Changed(r) ==
    \/ VerifyAdminStatus(r) \/ GetOrSetExisting(r) \/ UpdateExistingProduct(r)
    \/ CreateNewProduct(r) \/ UploadMultipleFilesToS3(r)
    \/ CreateProductImages(r) \/ UpdateProductImageUrls(r)
    \/ UpsertSpecifications(r) \/ FindProduct(r) \/ ReadImageKeys(r)
    \/ DeleteProduct(r) \/ DeleteMultipleFilesFromS3(r) \/ ArchiveProduct(r)
    \/ BulkStatement(r) \/ StoreExchangeRate(r) \/ KeepExchangeRate(r)
    \/ InvalidateProductCache(r)

Next ==
    \/ \E r \in Requests : Requested(r) \/ Read(r) \/ Changed(r)
    \/ Expire
    \/ Tick

Spec == Init /\ [][Next]_vars

-----------------------------------------------------------------------------
(* Properties.                                                             *)

\* v is an answer that the queries behind key k may give now.
IsAnswer(k, v) ==
    CASE k[1] = "details" -> v \in GetV2ProductDetailBySlug(t, k[2])
                                   \union GetProductNames(t, k[2])
      [] k[1] = "images" -> \E p \in GetProductBySlug(t, k[2]) :
                                v \in GetImageKeysByProductID(t, p)
      [] k[1] = "pricing" -> \E p \in GetProductBySlug(t, k[2]) :
                                 v \in GetProductPricingByProductID(t, p)
      [] k[1] = "specs" -> \E p \in GetProductBySlug(t, k[2]) :
                               v \in GetProductSpecsByID(t, p)
      [] k[1] = "cart" -> v \in GetProductCartByProductSlug(t, k[2])
      [] k[1] = "seo" -> v \in GetProductSEO(t, k[2])
      [] k[1] = "sitemap" -> v \in ListProducts(t)
      [] k[1] = "best-sellers" -> v \in GetBestSellerProducts(t, PageSize)
      [] k[1] = "featured" -> v \in GetFeaturedProducts(t, PageSize)
      [] k[1] = "new-arrivals" -> v \in GetNewArrivalProducts(t, PageSize)
      [] k[1] = "daily-deals" -> v \in GetDailyDeals(t)
      [] k[1] = "rate" -> v = Rate(t)
      [] k[1] = "all" ->
             /\ v.total = CountProducts(t)
             /\ v.rows \in GetV2Products(t, k[2], PageSize)
      [] k[1] = "category" ->
             /\ v.total = CountProductsByParentCategoryID(t, k[2])
             /\ [i \in DOMAIN v.rows |-> v.rows[i].id] \in
                   GetProductsByParentCategoryID(t, k[2], k[3], PageSize)
             /\ \A i \in DOMAIN v.rows :
                    /\ v.rows[i].price = Price(t, v.rows[i].id)
                    /\ v.rows[i].image \in FirstImage(t, v.rows[i].id)

\* When no request is between its statement and its flush, a key of the
\* products or of the rate holds what its queries would answer, unless the
\* reader that stored it was overtaken by a write, or a request failed after it
\* had written, or Redis failed to drop the key. The keys of the search are not
\* dropped by anyone.
CachedIsCurrent ==
    (\A r \in Requests : pc[r] \notin Unflushed) =>
        \A k \in DOMAIN redis \ outdated :
            \/ k[1] \in {"search", "autocomplete"}
            \/ redis[k].by \in overtaken
            \/ IsAnswer(k, redis[k].value)

\* The images that the rows name are in S3, whichever step a save or a delete
\* stopped after, unless two products shared a path: their files had one name
\* and were uploaded in one second.
ImagesThere == \A p \in Products : PathsOf(p) \subseteq s3 \union shared

\* A product that was answered as created, the cache having held nothing of its
\* slug, is stored with every image and every specification of the form until a
\* request deletes it.
SavedWhole ==
    \A r \in Requests :
        (/\ pc[r] = "ok" /\ body[r] # None /\ ~got[r].hit
         /\ r \notin removed) =>
            /\ t.items[r] # None
            /\ body[r].form.files =
                  {t.images[r][i].path[2] : i \in DOMAIN t.images[r]}
            /\ body[r].form.specs \subseteq t.specs[r]

\* However the products change, the statements of the filters agree: the count
\* with the six lists, which find the categories by path or by parent, and the
\* options with what they lead to.
FiltersAgree ==
    [][t' # t => \A f \in Filled :
                     /\ ShopAgrees(t', f)
                     /\ \A c \in Stored(t') : CategoryAgrees(t', c, f)]_vars

=============================================================================
