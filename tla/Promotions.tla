----------------------------- MODULE Promotions -----------------------------
(***************************************************************************)
(* Promotions: PromotionService and its repository, the tables promotions  *)
(* and promotion_products, and the images in S3.                           *)
(*                                                                         *)
(* A request is a process; a step is one statement, one transaction or one *)
(* call to S3. A row of promotions is known by the request that inserted   *)
(* it. The products of a form are added in batches, each by a goroutine of *)
(* its own, with a semaphore for how many of them work at a time.          *)
(***************************************************************************)
EXTENDS Integers, Sequences, FiniteSetsExt

CONSTANTS
    Requests,
    Stored0,        \* the promotions that are stored at first,
    FirstRows,      \* their rows,
    FirstPairs,     \* and their products
    Products,       \* the products stored at first; their ids and slugs
    Discounts,      \* Discounts[p]: how many rows of discounts p has
    Titles,
    Files,
    Forms,          \* what a form may hold
    LastSecond,     \* the bound of the clock
    MaxConcurrency, \* of the semaphore: 10
    None

Ids == Requests \union Stored0
Paths == (0..LastSecond) \X Files
Statuses == {"active", "archived", "draft"}
Row == [title : Titles, slug : Titles \X Nat, status : Statuses,
        start : Nat, end : Nat, image : Paths]

ASSUME PromotionsAssumption ==
    /\ IsFiniteSet(Ids) /\ IsFiniteSet(Products)
    /\ Requests \intersect Stored0 = {}
    /\ \A p \in Stored0 : FirstRows[p] \in Row
    /\ \A p, q \in Stored0 : FirstRows[p].slug = FirstRows[q].slug => p = q
    /\ FirstPairs \subseteq Stored0 \X Products
    /\ Discounts \in [Products -> Nat]
    /\ LastSecond \in Nat /\ MaxConcurrency \in Nat \ {0}
    /\ None \notin Ids \union Products \union Row
    /\ \A f \in Forms :
          /\ f.title \in Titles /\ f.file \in Files
          /\ f.start \in Nat /\ f.end \in Nat
          /\ \A i \in DOMAIN f.batches : f.batches[i] \subseteq Products

VARIABLES
    promotions,         \* promotions[p]: the row of promotion p, or None
    promotion_products, \* the pairs <<promotion, product>>
    products,           \* the products that are stored
    s3,                 \* the objects stored
    second,             \* the clock, in the seconds of a path
    pc,                 \* pc[r]: the step that request r takes next
    got,                \* got[r]: what it asks for and what it holds
    work,               \* work[r]: the state of the goroutine of each batch
    removed,            \* the promotions that were deleted
    edited,             \* those whose image an edit has deleted
    uploads             \* the pairs of a path and of what it was uploaded for

tables == <<promotions, promotion_products, products>>
vars == <<promotions, promotion_products, products, s3, second, pc, got, work,
          removed, edited, uploads>>

Stored == {p \in Ids : promotions[p] # None}
Done == {"ok", "failed"}

\* The rows keep the constraints of the tables: a status of the CHECK, slugs
\* that differ, and no pair without its promotion and its product.
TypeOK ==
    /\ \A p \in Stored : promotions[p] \in Row
    /\ \A p, q \in Stored : promotions[p].slug = promotions[q].slug => p = q
    /\ promotion_products \subseteq Stored \X products
    /\ products \subseteq Products
    /\ s3 \subseteq Paths /\ uploads \subseteq Paths \X Ids
    /\ second \in 0..LastSecond
    /\ pc \in [Requests -> {"idle", "verify", "find", "upload", "unlink",
                            "insert", "update", "existing", "batches",
                            "statement"} \union Done]
    /\ removed \union edited \subseteq Ids

\* What a request is before it has started. fault is set when PostgreSQL, S3
\* or the client fails it.
Nothing == [op |-> None, slugs |-> {}, form |-> None, about |-> None,
            old |-> None, path |-> None, fault |-> FALSE]

Init ==
    /\ promotions = [p \in Ids |-> IF p \in Stored0 THEN FirstRows[p]
                                   ELSE None]
    /\ s3 = {FirstRows[p].image : p \in Stored0}
    /\ products = Products
    /\ promotion_products = FirstPairs
    /\ second = 0
    /\ pc = [r \in Requests |-> "idle"]
    /\ got = [r \in Requests |-> Nothing]
    /\ work = [r \in Requests |-> <<>>]
    /\ removed = {} /\ edited = {}
    /\ uploads = {<<FirstRows[p].image, p>> : p \in Stored0}

Go(r, from, to) ==
    /\ pc[r] = from
    /\ pc' = [pc EXCEPT ![r] = to]

\* What r holds is forgotten once it has failed or was no save.
Held(r, to, holds) ==
    /\ got' = [got EXCEPT ![r] =
                  IF to \notin Done \/ (to = "ok" /\ holds.op = "save")
                  THEN holds
                  ELSE [Nothing EXCEPT !.about = holds.about,
                                       !.fault = holds.fault]]
    /\ work' = IF to \in Done THEN [work EXCEPT ![r] = <<>>] ELSE work

\* A step of r that touches nothing but its own progress.
Step(r, from, to, holds) ==
    /\ Go(r, from, to)
    /\ Held(r, to, holds)
    /\ UNCHANGED <<tables, s3, second, removed, edited, uploads>>

GiveUp(r, from) == Step(r, from, "failed", [got[r] EXCEPT !.fault = TRUE])

Tick ==
    /\ second < LastSecond
    /\ second' = second + 1
    /\ UNCHANGED <<tables, s3, pc, got, work, removed, edited, uploads>>

-----------------------------------------------------------------------------
(* The queries.                                                            *)

Slugs == {promotions[p].slug : p \in Stored}

\* Only a promotion that is active and runs now is found.
GetPromotionBySlug(slug) ==
    {p \in Stored : /\ promotions[p].slug = slug
                    /\ promotions[p].status = "active"
                    /\ promotions[p].start <= second
                    /\ second <= promotions[p].end}

GetProductIDsByPromotionID(p) ==
    {x \in Products : <<p, x>> \in promotion_products}

\* The column productSlug of the list for the shop: a promotion of one product
\* leads to it.
ProductSlug(p) ==
    LET xs == GetProductIDsByPromotionID(p)
    IN  IF Cardinality(xs) = 1 THEN CHOOSE x \in xs : TRUE ELSE None

GetPromotions == [p \in Stored |-> ProductSlug(p)]

\* A mutant: a product without a discount is not counted.
CountDiscounted(p) ==
    MapThenSumSet(LAMBDA x : Discounts[x], GetProductIDsByPromotionID(p))

\* The list for the administrators joins the discounts: a product counts once
\* for each of them, and once if it has none.
NumberOfProducts(p) ==
    MapThenSumSet(LAMBDA x : IF Discounts[x] = 0 THEN 1 ELSE Discounts[x],
                  GetProductIDsByPromotionID(p))

GetV2Promotions ==
    [p \in Stored |->
        [type |-> IF NumberOfProducts(p) = 1 THEN "feature" ELSE "sale",
         numberOfProducts |-> NumberOfProducts(p)]]

\* The promotions of a slug whose details can be shown: without products there
\* is one row, whose price is NULL and cannot be scanned.
GetPromotionDetails(slug) ==
    {p \in Stored : /\ promotions[p].slug = slug
                    /\ GetProductIDsByPromotionID(p) # {}}

-----------------------------------------------------------------------------
(* The requests. The administrator is verified first.                      *)

Begin(r, asks) == Step(r, "idle", "verify", asks)

CreateOrEditV2Promotion(r) ==
    \E f \in Forms, slug \in Slugs \union {None} :
        Begin(r, [Nothing EXCEPT !.op = "save", !.form = f,
                                 !.slugs = {slug} \ {None}])

DeletePromotion(r) ==
    \E slug \in Slugs :
        Begin(r, [Nothing EXCEPT !.op = "delete", !.slugs = {slug}])

\* The handlers of several promotions.
Bulk(r, op) ==
    \E ss \in SUBSET Slugs \ {{}} :
        Begin(r, [Nothing EXCEPT !.op = op, !.slugs = ss])
DeletePromotions(r) == Bulk(r, "deletemany")
ArchivePromotions(r) == Bulk(r, "archived")
DraftPromotions(r) == Bulk(r, "draft")
ActivatePromotions(r) == Bulk(r, "active")

\* A form without a slug asks for a new promotion.
VerifyAdminStatus(r) ==
    \/ Step(r, "verify", IF got[r].op # "save" THEN "statement"
                         ELSE IF got[r].slugs = {} THEN "upload"
                         ELSE "find", got[r])
    \/ GiveUp(r, "verify")

Named(r) == {p \in Stored : promotions[p].slug \in got[r].slugs}

\* A deleted promotion takes its pairs with it.
DeleteStatement(r) ==
    /\ got[r].op \in {"delete", "deletemany"}
    /\ Go(r, "statement", "ok")
    /\ promotions' = [p \in Ids |-> IF p \in Named(r) THEN None
                                    ELSE promotions[p]]
    /\ promotion_products' =
           {x \in promotion_products : x[1] \notin Named(r)}
    /\ removed' = removed \union Named(r)
    /\ Held(r, "ok", got[r])
    /\ UNCHANGED <<products, s3, second, edited, uploads>>

StatusStatement(r) ==
    /\ got[r].op \in Statuses
    /\ Go(r, "statement", "ok")
    /\ promotions' = [p \in Ids |->
                         IF p \in Named(r)
                         THEN [promotions[p] EXCEPT !.status = got[r].op]
                         ELSE promotions[p]]
    /\ Held(r, "ok", got[r])
    /\ UNCHANGED <<promotion_products, products, s3, second, removed, edited,
                   uploads>>

StatementFails(r) == GiveUp(r, "statement")

-----------------------------------------------------------------------------
(* CreateOrEditV2Promotion.                                                *)

\* A slug that no running promotion has is as good as none.
FindPromotion(r) ==
    \/ /\ pc[r] = "find"
       /\ LET found == UNION {GetPromotionBySlug(s) : s \in got[r].slugs} IN
          IF found = {} THEN Step(r, "find", "upload", got[r])
          ELSE \E p \in found :
                   Step(r, "find", "upload",
                        [got[r] EXCEPT !.about = p,
                                       !.old = promotions[p].image])
    \/ GiveUp(r, "find")

\* A mutant: a failed upload is passed over.
UploadOrPass(r) ==
    /\ Go(r, "upload", IF got[r].about = None THEN "insert" ELSE "unlink")
    /\ LET path == <<second, got[r].form.file>> IN
       /\ got' = [got EXCEPT ![r].path = path]
       /\ s3' \in {s3, s3 \union {path}}
    /\ UNCHANGED <<tables, second, work, removed, edited, uploads>>

\* handlePromotionImage: the new image is uploaded, under the second and the
\* name of the file, and then the image of the row that was found is deleted.
UploadImage(r) ==
    \/ /\ Go(r, "upload", IF got[r].about = None THEN "insert" ELSE "unlink")
       /\ LET path == <<second, got[r].form.file>> IN
          /\ got' = [got EXCEPT ![r].path = path]
          /\ s3' = s3 \union {path}
          /\ uploads' = uploads \union {<<path, r>>}
       /\ UNCHANGED <<tables, second, work, removed, edited>>
    \/ GiveUp(r, "upload")

DeleteOldImage(r) ==
    \/ /\ Go(r, "unlink", "update")
       /\ s3' = s3 \ {got[r].old}
       /\ edited' = edited \union {got[r].about}
       /\ UNCHANGED <<tables, second, got, work, removed, uploads>>
    \/ GiveUp(r, "unlink")

\* updatePromotion leaves the status of the parameters empty, which the CHECK
\* refuses where there is a row to update. Where the promotion has been
\* deleted since it was found, the statement succeeds.
UpdatePromotion(r) ==
    \/ /\ pc[r] = "update"
       /\ Step(r, "update", IF got[r].about \in Stored THEN "failed"
                            ELSE "existing", got[r])
    \/ GiveUp(r, "update")

\* A mutant: the title, which another promotion may have.
SlugOfTitle(title) == <<title, 0>>

\* generate_promotion_slug: the title, and a counter while the slug is taken.
generate_promotion_slug(title) ==
    LET taken == {s[2] : s \in {x \in Slugs : x[1] = title}}
        free == 0..Cardinality(taken) \ taken
    IN  <<title, Min(free)>>

InsertPromotion(r) ==
    \/ /\ Go(r, "insert", "existing")
       /\ LET f == got[r].form IN
          promotions' = [promotions EXCEPT ![r] =
              [title |-> f.title, slug |-> generate_promotion_slug(f.title),
               status |-> "active", start |-> f.start, end |-> f.end,
               image |-> got[r].path]]
       /\ got' = [got EXCEPT ![r].about = r]
       /\ UNCHANGED <<promotion_products, products, s3, second, work,
                      removed, edited, uploads>>
    \/ GiveUp(r, "insert")

-----------------------------------------------------------------------------
(* addProductsToPromotion.                                                 *)

\* The products that the promotion has: none for one that was just inserted
\* or is no longer stored, so that nothing is left to remove at the end. Then
\* a goroutine starts for each batch.
ReadExisting(r) ==
    \/ /\ Go(r, "existing", "batches")
       /\ work' = [work EXCEPT ![r] =
              [i \in DOMAIN got[r].form.batches |->
                  [at |-> "queued", ids |-> {}]]]
       /\ UNCHANGED <<tables, s3, second, got, removed, edited, uploads>>
    \/ GiveUp(r, "existing")

\* The goroutines of r that hold a place of the semaphore.
Working(r) == {i \in DOMAIN work[r] : work[r][i].at \in {"reading", "adding"}}

\* The goroutine of batch i goes from one state to the next.
Batch(r, i, from, to) ==
    /\ pc[r] = "batches"
    /\ work[r][i].at = from
    /\ work' = [work EXCEPT ![r][i] = to]
    /\ UNCHANGED <<products, promotions, s3, second, pc, removed, edited,
                   uploads>>

Acquire(r, i) ==
    /\ Cardinality(Working(r)) < MaxConcurrency
    /\ Batch(r, i, "queued", [at |-> "reading", ids |-> {}])
    /\ UNCHANGED <<promotion_products, got>>

\* GetProductIDsBySlugs: a slug without a product is left out.
ReadProductIDs(r, i) ==
    /\ Batch(r, i, "reading",
             [at |-> "adding",
              ids |-> got[r].form.batches[i] \intersect products])
    /\ UNCHANGED <<promotion_products, got>>

\* The foreign keys of a batch.
Pairs(r, i) == {got[r].about} \X work[r][i].ids
MayAdd(r, i) == Pairs(r, i) \subseteq Stored \X products

AddProducts(r, i) ==
    /\ Batch(r, i, "adding", [at |-> "added", ids |-> {}])
    /\ MayAdd(r, i)
    /\ promotion_products' = promotion_products \union Pairs(r, i)
    /\ UNCHANGED got

\* A mutant: a goroutine whose query fails does not count itself as done.
FailUncounted(r, i) ==
    /\ Batch(r, i, "reading", [at |-> "lost", ids |-> {}])
    /\ got' = [got EXCEPT ![r].fault = TRUE]
    /\ UNCHANGED promotion_products

\* A query fails, or a foreign key. The place is given back.
FailBatch(r, i) ==
    /\ \/ Batch(r, i, "reading", [at |-> "failed", ids |-> {}])
       \/ Batch(r, i, "adding", [at |-> "failed", ids |-> {}])
    /\ got' = [got EXCEPT ![r].fault = TRUE]
    /\ UNCHANGED promotion_products

\* A mutant: the errors are looked at before the goroutines have ended.
AnswerEarly(r) ==
    /\ pc[r] = "batches"
    /\ Step(r, "batches",
            IF \E i \in DOMAIN work[r] : work[r][i].at = "failed"
            THEN "failed" ELSE "ok", got[r])

\* wg.Wait, and then the errors.
Wait(r) ==
    /\ pc[r] = "batches"
    /\ \A i \in DOMAIN work[r] : work[r][i].at \in {"added", "failed"}
    /\ Step(r, "batches",
            IF \E i \in DOMAIN work[r] : work[r][i].at = "failed"
            THEN "failed" ELSE "ok", got[r])

\* Products are deleted elsewhere, and their pairs with them.
ProductDeleted ==
    \E x \in products :
        /\ products' = products \ {x}
        /\ promotion_products' = {y \in promotion_products : y[2] # x}
        /\ UNCHANGED <<promotions, s3, second, pc, got, work, removed,
                       edited, uploads>>

-----------------------------------------------------------------------------
Requested(r) ==
    \/ CreateOrEditV2Promotion(r) \/ DeletePromotion(r) \/ DeletePromotions(r)
    \/ ArchivePromotions(r) \/ DraftPromotions(r) \/ ActivatePromotions(r)

\* What the program does for a request once it has come in.
Progress(r) ==
    \/ VerifyAdminStatus(r) \/ DeleteStatement(r) \/ StatusStatement(r)
    \/ StatementFails(r) \/ FindPromotion(r) \/ UploadImage(r)
    \/ DeleteOldImage(r) \/ UpdatePromotion(r) \/ InsertPromotion(r)
    \/ ReadExisting(r) \/ Wait(r)
    \/ \E i \in DOMAIN work[r] :
           \/ Acquire(r, i) \/ ReadProductIDs(r, i) \/ AddProducts(r, i)
           \/ FailBatch(r, i)

Next ==
    \/ \E r \in Requests : Requested(r) \/ Progress(r)
    \/ ProductDeleted
    \/ Tick

Spec == Init /\ [][Next]_vars

\* The goroutines of a request are scheduled, and its calls come back.
Fairness == \A r \in Requests : WF_vars(Progress(r))

FairSpec == Spec /\ Fairness

-----------------------------------------------------------------------------
(* Properties.                                                             *)

\* A promotion that was answered as created has every product of its form that
\* is still stored, however its batches went, until it is deleted.
CreatedWhole ==
    \A r \in Requests :
        pc[r] = "ok" /\ got[r].about = r /\ r \notin removed =>
            /\ r \in Stored
            /\ \A i \in DOMAIN got[r].form.batches :
                   {r} \X (got[r].form.batches[i] \intersect products)
                       \subseteq promotion_products

\* The paths that two uploads have had in common.
Shared ==
    {x \in Paths : \E i, j \in Ids :
                       i # j /\ {<<x, i>>, <<x, j>>} \subseteq uploads}

\* The image of a promotion is in S3, unless an edit found the promotion, or
\* two uploads of one second and one name had the path in common.
ImagesThere ==
    \A p \in Stored : promotions[p].image \in s3 \union Shared \/ p \in edited

\* A promotion that the shop shows as leading to a single product is a feature
\* to the administrators, and its details can be shown, unless the product has
\* several discounts.
ViewsAgree ==
    \A p \in Stored :
        GetPromotions[p] # None =>
            /\ GetV2Promotions[p].type = "feature"
                   \/ Discounts[GetPromotions[p]] > 1
            /\ p \in GetPromotionDetails(promotions[p].slug)

\* Every request is answered, the batches of a form waiting for a place among
\* themselves.
RequestsEnd ==
    \A r \in Requests : pc[r] # "idle" ~> pc[r] \in Done

\* An edit of a stored promotion is refused only where PostgreSQL, S3 or the
\* client fails.
EditsAreMade ==
    \A r \in Requests :
        pc[r] = "failed" /\ got[r].about \in Stored \ {r} => got[r].fault

=============================================================================
