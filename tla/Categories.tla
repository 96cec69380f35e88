----------------------------- MODULE Categories -----------------------------
(***************************************************************************)
(* Categories: CategoryHandler, CategoryService with its in-process cache, *)
(* CategoryRepository with its retried transactions, the category images   *)
(* in S3, on the table of CategoryTree.                                    *)
(*                                                                         *)
(* Every request is a process. A step is one query, one transaction, one   *)
(* call to S3 or one hold of the cache's lock; the steps of other requests *)
(* come in between. An image is known by the request that uploads it, and  *)
(* time is only what lets a cached entry expire.                           *)
(***************************************************************************)
EXTENDS CategoryTree

CONSTANTS
    Requests,
    FirstTables,    \* the tables that a run may start from
    maxRetries,     \* how often a transaction is tried again
    Limits          \* the limits asked of the popular categories

\* An image belongs to one category, and no request of the run uploaded it.
ShownOnce(u) ==
    \A c, d \in Stored(u) :
        /\ u.rows[c].image \notin Requests
        /\ c # d /\ u.rows[c].image # None => u.rows[c].image # u.rows[d].image

ASSUME CategoriesAssumption ==
    /\ Requests \subseteq Images
    /\ maxRetries \in Nat
    /\ Limits \subseteq Nat \ {0}
    /\ FirstTables \subseteq Tables
    /\ \A u \in FirstTables : ShownOnce(u)

VARIABLES
    t,          \* the tables
    s3,         \* the images stored
    deleting,   \* the images that a goroutine of handleCategoryImage deletes
    cache,      \* key |-> [value, by], the entries that have not expired
    pc,         \* pc[r]: the step that request r takes next
    body,       \* body[r]: what it asks for
    got,        \* got[r]: what it has read or uploaded so far
    tries,      \* tries[r]: how often its transaction was tried again
    made,       \* made[r]: the categories it inserted
    overtaken,  \* the readers that a write came after, before they were done
    outdated,   \* the keys of entries that a write came after
    overlapped, \* the categories two edits overlapped on, or an edit failed
    moved       \* a category with others below it got another parent

vars == <<t, s3, deleting, cache, pc, body, got, tries, made, overtaken,
          outdated, overlapped, moved>>
ghosts == <<made, overtaken, outdated, overlapped, moved>>

Writing == {"verify", "lookup", "existing", "image", "exists", "upload",
            "write", "flush", "forget"}
Reading == {"find", "fetch", "count", "fill"}
Done == {"idle", "ok", "failed"}

Init ==
    /\ t \in FirstTables
    /\ s3 = {t.rows[c].image : c \in Stored(t)} \ {None}
    /\ deleting = {}
    /\ cache = <<>>
    /\ pc = [r \in Requests |-> "idle"]
    /\ body = [r \in Requests |-> None]
    /\ got = [r \in Requests |-> None]
    /\ tries = [r \in Requests |-> 0]
    /\ made = [r \in Requests |-> {}]
    /\ overtaken = {} /\ outdated = {} /\ overlapped = {}
    /\ moved = FALSE

Go(r, step) == pc' = [pc EXCEPT ![r] = step]

Begin(r, b, step) ==
    /\ pc[r] = "idle"
    /\ body' = [body EXCEPT ![r] = b]
    /\ Go(r, step)
    /\ UNCHANGED <<t, s3, deleting, cache, got, tries, ghosts>>

\* The step of r that touches nothing but its own progress. What it has read is
\* forgotten once it is done.
Step(r, from, to, value) ==
    /\ pc[r] = from
    /\ Go(r, to)
    /\ got' = [got EXCEPT ![r] = IF to \in Done THEN None ELSE value]
    /\ UNCHANGED <<t, s3, deleting, cache, body, tries, ghosts>>

-----------------------------------------------------------------------------
(* The requests.                                                           *)

KnownSlugs == {t.rows[c].slug : c \in Stored(t)}

CreateCategoryHandler(r) ==
    \E slug \in KnownSlugs \union {None}, name \in Names,
       parent \in Stored(t) \union {None}, image \in BOOLEAN :
        Begin(r, [op |-> "save", slug |-> slug, name |-> name,
                  parent |-> parent, image |-> image], "verify")

UploadCategoryImageHandler(r) ==
    \E c \in Stored(t) : Begin(r, [op |-> "upload", about |-> c], "exists")

SoftDeleteCategoryHandler(r) ==
    \E c \in Stored(t) : Begin(r, [op |-> "soft", about |-> c], "write")

DeleteCategoryHandler(r) ==
    \E c \in Stored(t) : Begin(r, [op |-> "hard", about |-> c], "write")

BatchUpdateCategoryPositionsHandler(r) ==
    \E cs \in SUBSET Stored(t) \ {{}} :
        Begin(r, [op |-> "batch", about |-> cs], "verify")

\* A reader asks the cache first, and starts only if it has no answer there.
GetCategoryDetailsHandler(r) ==
    \E slug \in KnownSlugs :
        Begin(r, [op |-> "details", key |-> <<"details", slug>>], "find")

GetCategoryHierarchyStatsHandler(r) ==
    \E c \in Stored(t), a \in BOOLEAN :
        Begin(r, [op |-> "stats", key |-> <<"stats", c, a>>], "find")

GetDirectChildrenWithStatsHandler(r) ==
    \E slug \in KnownSlugs, a \in BOOLEAN :
        Begin(r, [op |-> "children", key |-> <<"direct_children", slug, a>>],
              "find")

\* A request with its limit, or the prefetch that follows the start.
GetPopularCategoriesHandler(r) ==
    \E limit \in Limits :
        Begin(r, [op |-> "popular", key |-> <<"popular">>, limit |-> limit],
              "find")

-----------------------------------------------------------------------------
(* The cache.                                                              *)

Drop(keys) ==
    /\ cache' = [k \in DOMAIN cache \ keys |-> cache[k]]
    /\ outdated' = outdated \ keys

\* categoryCache.get: an entry that has not expired. An empty list of children
\* is never served, and the popular categories only when there are enough.
Serves(k, b) ==
    /\ k \in DOMAIN cache
    /\ b.op = "children" => cache[k].value # <<>>
    /\ b.op = "popular" => Len(cache[k].value) >= b.limit

Get(r) ==
    /\ pc[r] = "find"
    /\ LET k == body[r].key IN
       IF Serves(k, body[r])
       THEN Step(r, "find", "ok", cache[k].value)
       ELSE Step(r, "find", "fetch", None)

\* categoryCache.set
Set(r) ==
    /\ pc[r] = "fill"
    /\ Go(r, "ok")
    /\ cache' = Updated(cache, [k \in {body[r].key} |->
                                   [value |-> got[r], by |-> r]])
    /\ outdated' = outdated \ {body[r].key}
    /\ got' = [got EXCEPT ![r] = None]
    /\ UNCHANGED <<t, s3, deleting, body, tries, made, overtaken,
                   overlapped, moved>>

\* The time to live of an entry is over; cleanupExpiredCacheEntries or the next
\* get drops it.
Expire ==
    \E k \in DOMAIN cache :
        /\ Drop({k})
        /\ UNCHANGED <<t, s3, deleting, pc, body, got, tries, made,
                       overtaken, overlapped, moved>>

\* A mutant: the prefix of one kind of key where all are meant.
InvalidateDetails(r) ==
    /\ pc[r] = "flush"
    /\ Go(r, "ok")
    /\ cache' = [k \in {j \in DOMAIN cache : j[1] # "details"} |-> cache[k]]
    /\ outdated' = {}
    /\ UNCHANGED <<t, s3, deleting, body, got, tries, made, overtaken,
                   overlapped, moved>>

\* categoryCache.invalidate("all")
InvalidateAll(r) ==
    /\ pc[r] = "flush"
    /\ Go(r, "ok")
    /\ Drop(DOMAIN cache)
    /\ UNCHANGED <<t, s3, deleting, body, got, tries, made, overtaken,
                   overlapped, moved>>

\* invalidateCategoryCaches: the keys that hold an id, and the popular ones.
\* The other keys hold slugs.
InvalidateCategories(r) ==
    /\ pc[r] = "forget"
    /\ Go(r, "ok")
    /\ Drop({k \in DOMAIN cache :
                \/ k[1] = "popular"
                \/ k[1] = "stats" /\ k[2] \in body[r].about})
    /\ UNCHANGED <<t, s3, deleting, body, got, tries, made, overtaken,
                   overlapped, moved>>

-----------------------------------------------------------------------------
(* The readers.                                                            *)

\* GetCategoryDetailsService
FetchDetails(r) ==
    /\ pc[r] = "fetch" /\ body[r].op = "details"
    /\ \/ \E row \in GetCategoryDetailsBySlug(t, body[r].key[2]) :
              Step(r, "fetch", "fill", row)
       \/ Step(r, "fetch", "failed", None)

\* GetPopularCategoriesService and prefetchPopularCategories
FetchPopular(r) ==
    /\ pc[r] = "fetch" /\ body[r].op = "popular"
    /\ \/ \E s \in GetPopularCategories(t, body[r].limit) :
              Step(r, "fetch", "fill", s)
       \/ Step(r, "fetch", "failed", None)

\* GetDirectChildrenWithStats: the children in one query, then the products
\* below each of them in a query of its own, 0 where that query fails.
FetchChildren(r) ==
    /\ pc[r] = "fetch" /\ body[r].op = "children"
    /\ \/ \E c \in GetCategoryBySlug(t, body[r].key[2]) :
              LET ds == GetDirectChildrenCategories(t, c, body[r].key[3])
              IN  Step(r, "fetch", IF ds = {} THEN "fill" ELSE "count",
                       [d \in ds |-> -1])
       \/ Step(r, "fetch", "failed", None)

CountChild(r) ==
    /\ pc[r] = "count" /\ body[r].op = "children"
    /\ \E d \in {e \in DOMAIN got[r] : got[r][e] = -1},
          n \in 0..Cardinality(Products) :
        LET counts == [got[r] EXCEPT ![d] = n]
        IN  /\ n \in {0, GetCategoryStats(t, d).total}
            /\ Step(r, "count",
                    IF \E e \in DOMAIN counts : counts[e] = -1
                    THEN "count" ELSE "fill", counts)

\* GetCategoryHierarchyStats: three goroutines with a query each, the first
\* failure failing the request.
FetchStats(r) ==
    /\ pc[r] = "fetch" /\ body[r].op = "stats"
    /\ IF GetCategoryByID(t, body[r].key[2])
       THEN Step(r, "fetch", "count", [stats |-> None, children |-> None])
       ELSE Step(r, "fetch", "failed", None)

CountStats(r) ==
    /\ pc[r] = "count" /\ body[r].op = "stats"
    /\ \/ /\ got[r].stats = None
          /\ Step(r, "count",
                  IF got[r].children = None THEN "count" ELSE "fill",
                  [got[r] EXCEPT !.stats =
                      GetCategoryStats(t, body[r].key[2])])
       \/ /\ got[r].children = None
          /\ Step(r, "count", IF got[r].stats = None THEN "count" ELSE "fill",
                  [got[r] EXCEPT !.children =
                      GetAllChildrenCategoriesWithProductCount(
                          t, body[r].key[2], body[r].key[3])])
       \/ Step(r, "count", "failed", None)

-----------------------------------------------------------------------------
(* The writers.                                                            *)

\* getUserIDFromContext and verifyAdminStatus
VerifyAdminStatus(r) ==
    /\ pc[r] = "verify"
    /\ \/ Step(r, "verify", IF body[r].op = "save" THEN "lookup" ELSE "write",
               None)
       \/ Step(r, "verify", "failed", None)

\* CreateCategoryService: the slug decides between a new category and an edit.
LookupSlug(r) ==
    /\ pc[r] = "lookup"
    /\ LET cs == GetCategoryBySlug(t, body[r].slug) IN
       \/ /\ cs = {}
          /\ Step(r, "lookup", "image", [about |-> None, image |-> None])
       \/ \E c \in cs :
             Step(r, "lookup", "existing", [about |-> c, image |-> None])
       \/ Step(r, "lookup", "failed", None)

\* updateExistingCategory: GetCategoryByID finds active categories only.
ReadExisting(r) ==
    /\ pc[r] = "existing"
    /\ IF GetCategoryByID(t, got[r].about)
       THEN Step(r, "existing", "image",
                 [got[r] EXCEPT !.image = t.rows[got[r].about].image])
       ELSE Step(r, "existing", "failed", None)

\* A mutant: the old image goes before the new one is uploaded.
DeleteThenUpload(r) ==
    /\ pc[r] = "image"
    /\ \/ ~body[r].image /\ Step(r, "image", "write", got[r])
       \/ \E sent \in BOOLEAN :
             /\ body[r].image
             /\ s3' = IF sent THEN s3 \union {r} ELSE s3
             /\ deleting' = deleting \union ({got[r].image} \ {None})
             /\ got' = [got EXCEPT ![r].image = r]
             /\ Go(r, IF sent THEN "write" ELSE "failed")
             /\ UNCHANGED <<t, cache, body, tries, ghosts>>

\* handleCategoryImage: the upload, and a goroutine to delete the old image,
\* before anything is written.
HandleCategoryImage(r) ==
    /\ pc[r] = "image"
    /\ \/ ~body[r].image /\ Step(r, "image", "write", got[r])
       \/ body[r].image /\ Step(r, "image", "failed", None)
       \/ /\ body[r].image
          /\ s3' = s3 \union {r}
          /\ deleting' = deleting \union ({got[r].image} \ {None})
          /\ got' = [got EXCEPT ![r].image = r]
          /\ Go(r, "write")
          /\ UNCHANGED <<t, cache, body, tries, ghosts>>

DeleteFileFromS3 ==
    \E i \in deleting :
        /\ deleting' = deleting \ {i}
        /\ s3' \in {s3, s3 \ {i}}
        /\ UNCHANGED <<t, cache, pc, body, got, tries, ghosts>>

\* UpdateCategoryImageService: the old image stays where it is.
CheckExistence(r) ==
    /\ pc[r] = "exists"
    /\ IF CheckCategoryExistence(t, body[r].about)
       THEN Step(r, "exists", "upload", None)
       ELSE Step(r, "exists", "failed", None)

UploadImage(r) ==
    \/ /\ pc[r] = "upload"
       /\ s3' = s3 \union {r}
       /\ got' = [got EXCEPT ![r] = [about |-> body[r].about, image |-> r]]
       /\ Go(r, "write")
       /\ UNCHANGED <<t, deleting, cache, body, tries, ghosts>>
    \/ Step(r, "upload", "failed", None)

\* The new row of an edit: from its request, and the image from what it read.
Saved(r) == [name |-> body[r].name, parent |-> body[r].parent,
             image |-> got[r].image, described |-> TRUE]

ParentStored(r) == body[r].parent \in Stored(t) \union {None}

\* The ids that a new row may get: none that was ever in use.
Fresh == Categories \ ((UNION {Stored(u) : u \in FirstTables})
                          \union (UNION {made[q] : q \in Requests}))

\* The write of r is done and leaves the tables u.
Wrote(r, u, next) ==
    /\ t' = u
    /\ Go(r, next)
    /\ overtaken' = overtaken \union {q \in Requests :
                                         pc[q] \in {"count", "fill"}}
    /\ outdated' = DOMAIN cache
    /\ got' = [got EXCEPT ![r] = IF next \in Done THEN None ELSE @]
    /\ UNCHANGED <<s3, deleting, cache, body, tries>>

InsertCategory(r, next) ==
    /\ body[r].op = "save" /\ got[r].about = None /\ ParentStored(r)
    /\ \E c \in Fresh : \E u \in CreateCategory(t, c, Saved(r)) :
          /\ Wrote(r, u, next)
          /\ made' = [made EXCEPT ![r] = @ \union {c}]
    /\ UNCHANGED <<overlapped, moved>>

\* The requests that have read the row of c to edit it and not written it yet.
Editing(c) == {q \in Requests : /\ pc[q] \in {"image", "write"}
                                /\ body[q].op = "save"
                                /\ got[q].about = c}

EditCategory(r, next) ==
    /\ body[r].op = "save" /\ got[r].about \in Stored(t) /\ ParentStored(r)
    /\ LET c == got[r].about IN
       /\ \E u \in UpdateCategory(t, c, Saved(r)) : Wrote(r, u, next)
       /\ overlapped' = overlapped \union
                        IF Editing(c) = {r} THEN {} ELSE {c}
       /\ moved' = \/ moved
                   \/ body[r].parent = c
                   \/ /\ body[r].parent # t.rows[c].parent
                      /\ GetCategoriesByParentID(t, c) # {}
    /\ UNCHANGED made

SetImage(r, next) ==
    /\ body[r].op = "upload" /\ body[r].about \in Stored(t)
    /\ \E u \in UpdateCategoryImage(t, body[r].about, got[r].image) :
          Wrote(r, u, next)
    /\ UNCHANGED <<made, overlapped, moved>>

RemoveCategory(r, next) ==
    /\ body[r].op = "hard"
    /\ \E u \in HardDeleteCategory(t, body[r].about) : Wrote(r, u, next)
    /\ moved' = \/ moved
                \/ \E d \in GetCategoriesByParentID(t, body[r].about) :
                      GetCategoriesByParentID(t, d) # {}
    /\ UNCHANGED <<made, overlapped>>

\* The body and the commit of a transaction.
Transaction(r, next) ==
    \/ InsertCategory(r, next)
    \/ EditCategory(r, next)
    \/ SetImage(r, next)
    \/ RemoveCategory(r, next)

InTransaction(r) ==
    pc[r] = "write" /\ body[r].op \in {"save", "upload", "hard"}

\* Only CreateCategoryService flushes the cache after its transaction.
Commit(r) ==
    /\ InTransaction(r)
    /\ Transaction(r, IF body[r].op = "save" THEN "flush" ELSE "ok")

\* execTx: a transaction that could not begin, or that PostgreSQL refused to
\* commit for a serialization failure, is tried again. An error of the body is
\* not: it arrives wrapped, and the test for a pq.Error fails.
Retry(r) ==
    /\ InTransaction(r)
    /\ tries[r] < maxRetries
    /\ tries' = [tries EXCEPT ![r] = @ + 1]
    /\ UNCHANGED <<t, s3, deleting, cache, pc, body, got, ghosts>>

\* The failed edit that uploaded an image has had the old one deleted.
Spoiled(r) ==
    overlapped' = overlapped \union
        IF body[r].op = "save" /\ got[r].image = r
        THEN {got[r].about} \ {None} ELSE {}

GiveUp(r) ==
    /\ InTransaction(r)
    /\ Go(r, "failed")
    /\ Spoiled(r)
    /\ UNCHANGED <<t, s3, deleting, cache, body, got, tries, made, overtaken,
                   outdated, moved>>

\* A mutant: a commit without an answer is tried again.
RetryUnanswered(r) ==
    /\ InTransaction(r)
    /\ Transaction(r, "write")

\* The commit took place and its answer was lost: the request fails.
CommitUnanswered(r) ==
    /\ InTransaction(r)
    /\ Transaction(r, "failed")

\* SoftDeleteCategoryService, whose statement may find no row
SoftDelete(r) ==
    /\ pc[r] = "write" /\ body[r].op = "soft"
    /\ \E u \in SoftDeleteCategory(t, body[r].about) : Wrote(r, u, "flush")
    /\ UNCHANGED <<made, overlapped, moved>>

\* BatchUpdateCategoryPositionsService
BatchUpdatePositions(r) ==
    /\ pc[r] = "write" /\ body[r].op = "batch"
    /\ \E u \in BulkUpdateCategoryPositions(t, body[r].about, 1) :
          Wrote(r, u, "forget")
    /\ UNCHANGED <<made, overlapped, moved>>

StatementFails(r) ==
    /\ ~InTransaction(r)
    /\ Step(r, "write", "failed", None)

-----------------------------------------------------------------------------
Request(r) ==
    \/ CreateCategoryHandler(r)
    \/ UploadCategoryImageHandler(r)
    \/ SoftDeleteCategoryHandler(r)
    \/ DeleteCategoryHandler(r)
    \/ BatchUpdateCategoryPositionsHandler(r)
    \/ GetCategoryDetailsHandler(r)
    \/ GetCategoryHierarchyStatsHandler(r)
    \/ GetDirectChildrenWithStatsHandler(r)
    \/ GetPopularCategoriesHandler(r)

Read(r) ==
    \/ Get(r)
    \/ FetchDetails(r)
    \/ FetchPopular(r)
    \/ FetchChildren(r)
    \/ CountChild(r)
    \/ FetchStats(r)
    \/ CountStats(r)
    \/ Set(r)

Save(r) ==
    \/ VerifyAdminStatus(r)
    \/ LookupSlug(r)
    \/ ReadExisting(r)
    \/ HandleCategoryImage(r)
    \/ CheckExistence(r)
    \/ UploadImage(r)
    \/ Commit(r)
    \/ Retry(r)
    \/ GiveUp(r)
    \/ CommitUnanswered(r)
    \/ SoftDelete(r)
    \/ BatchUpdatePositions(r)
    \/ StatementFails(r)
    \/ InvalidateAll(r)
    \/ InvalidateCategories(r)

Next ==
    \/ \E r \in Requests : Request(r) \/ Read(r) \/ Save(r)
    \/ Expire
    \/ DeleteFileFromS3

Spec == Init /\ [][Next]_vars

-----------------------------------------------------------------------------
(* Value v is what the database would answer now to the question of key k. *)
(* A child whose products could not be counted has 0 of them.              *)

Current(k, v) ==
    CASE k[1] = "details" -> v \in GetCategoryDetailsBySlug(t, k[2])
      [] k[1] = "stats" ->
             /\ v.stats = GetCategoryStats(t, k[2])
             /\ v.children =
                   GetAllChildrenCategoriesWithProductCount(t, k[2], k[3])
      [] k[1] = "direct_children" ->
             \E c \in GetCategoryBySlug(t, k[2]) :
                /\ DOMAIN v = GetDirectChildrenCategories(t, c, k[3])
                /\ \A d \in DOMAIN v :
                      v[d] \in {0, GetCategoryStats(t, d).total}
      [] OTHER -> \E n \in Limits : v \in GetPopularCategories(t, n)

\* A cached answer is what the database would answer now, unless its reader was
\* overtaken by a write before it filled the cache, or a write came later that
\* has not flushed the cache yet, never does, or lost its commit's answer.
\* CreateCategoryService 215 and SoftDeleteCategoryService 464 flush; the
\* upload of an image and a hard delete do not; the positions flush in part.
CachedIsCurrent ==
    \A k \in DOMAIN cache \ outdated :
        cache[k].by \notin overtaken => Current(k, cache[k].value)

\* As long as no category that has others below it was given another parent,
\* every write leaves each stored path its parent's path and its own id: a path
\* is computed for the row that is written, for no other (update_category_path).
PathsFollowParents == [][t' # t /\ ~moved' => Coherent(t')]_vars

Below(u, c) ==
    LET f[n \in 0..Cardinality(Categories)] ==
            IF n = 0 THEN {c}
            ELSE LET near == f[n - 1]
                 IN  near \union UNION {GetCategoriesByParentID(u, d) :
                                           d \in near}
    IN  f[Cardinality(Categories)]

Agree(u) ==
    LET below == [c \in Stored(u) |-> Below(u, c)]
        ancestors == [c \in Stored(u) |->
                         {a \in Stored(u) \ {c} : c \in below[a]}]
        level == [c \in Stored(u) |-> GetCategoryTree(u)[c].level]
        kept == Kept(u, TRUE)
    IN  /\ GetV2CategoryHierarchy(u, FALSE) = Stored(u)
        /\ GetV2CategoryHierarchy(u, TRUE) =
              {c \in kept : ancestors[c] \subseteq kept}
        /\ \A c \in Stored(u) :
              /\ GetCategoryAncestors(u, c, FALSE) = ancestors[c]
              /\ level[c] = 1 + Cardinality(ancestors[c])
              /\ GetCategoryStats(u, c).total = Counted(u, below[c])
              /\ TotalProducts(u, c) = ActiveIn(u, below[c])

\* Every write that leaves the tree coherent leaves the queries that go by path
\* and those that go by parent_id describing one tree: the hierarchy shows each
\* category, or those whose ancestors are all active; the breadcrumbs are the
\* ancestors; the totals are those of the branch.
ViewsAgree == [][t' # t /\ Coherent(t') => Agree(t')]_vars

\* A request inserts at most one category, however often its transaction is
\* tried again: what execTx tries again was rolled back.
InsertedOnce == \A r \in Requests : Cardinality(made[r]) <= 1

\* The image that a category shows is in S3, except while an edit is replacing
\* it, and after edits of one category overlapped or one failed halfway: the
\* old image is deleted before the row is written (handleCategoryImage).
ImagesThere ==
    \A c \in Stored(t) \ overlapped :
        \/ t.rows[c].image \in s3 \union {None}
        \/ \E r \in Editing(c) : pc[r] = "write" /\ got[r].image = r

=============================================================================
