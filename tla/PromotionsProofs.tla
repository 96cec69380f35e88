-------------------------- MODULE PromotionsProofs --------------------------
(***************************************************************************)
(* Proofs about Promotions, for any number of promotions, products,        *)
(* requests, batches and places of the semaphore: the rows keep the        *)
(* constraints of their tables, a promotion that was answered as created   *)
(* is whole, and images and lists are as they should be.                   *)
(*                                                                         *)
(* The second follows from what each goroutine of a form's batches has     *)
(* done so far.  The other requests and the deletion of products disturb   *)
(* it in one way only, described by Frame: they never take a pair of a     *)
(* stored promotion and a stored product away.                             *)
(***************************************************************************)
EXTENDS Promotions, FiniteSetTheorems, WellFoundedInduction, TLAPS

Ops == {None, "save", "delete", "deletemany"} \union Statuses
Asks == [op : Ops, slugs : SUBSET (Titles \X Nat), form : Forms \union {None},
         about : Ids \union {None}, old : Paths \union {None},
         path : Paths \union {None}, fault : BOOLEAN]
Jobs == [at : {"queued", "reading", "adding", "added", "failed"},
         ids : SUBSET Products]

\* The types, those of TypeOK among them.
Types ==
    /\ TypeOK
    /\ promotions = [p \in Ids |-> promotions[p]]
    /\ got \in [Requests -> Asks]
    /\ work = [r \in Requests |-> work[r]]
    /\ \A r \in Requests : work[r] \in [DOMAIN work[r] -> Jobs]

\* The steps before a promotion is inserted, and those of a save.
Early == {"idle", "verify", "statement", "find", "upload", "unlink",
          "update", "insert"}
Saving == {"find", "upload", "unlink", "update", "insert", "existing",
           "batches"}

\* r has inserted its promotion, which is stored until it is deleted.
Mine(r) == got[r].about = r /\ r \notin removed

Wanted(r, i) == got[r].form.batches[i] \intersect products

\* What the goroutine of batch i has done.
Batched(r, i) ==
    /\ i \in DOMAIN work[r]
    /\ work[r][i].at = "adding" => Wanted(r, i) \subseteq work[r][i].ids
    /\ work[r][i].at = "added" =>
          {r} \X Wanted(r, i) \subseteq promotion_products

\* What r has done when it is about to take a step.
Sound(r) ==
    /\ pc[r] \in Early => promotions[r] = None /\ got[r].about # r
    /\ pc[r] = "verify" /\ got[r].op = "save" => got[r].form \in Forms
    /\ pc[r] \in Saving => got[r].op = "save" /\ got[r].form \in Forms
    /\ pc[r] = "insert" => got[r].path \in Paths
    /\ pc[r] = "unlink" => got[r].about # None
    /\ Mine(r) /\ pc[r] = "existing" => r \in Stored
    /\ Mine(r) /\ pc[r] = "batches" =>
          r \in Stored /\ \A i \in DOMAIN got[r].form.batches : Batched(r, i)
    /\ Mine(r) /\ pc[r] = "ok" =>
          /\ r \in Stored
          /\ \A i \in DOMAIN got[r].form.batches :
                {r} \X Wanted(r, i) \subseteq promotion_products

AllSound == \A r \in Requests : Sound(r)

\* The inductive invariant.
PInv == Types /\ AllSound

LEMMA WholeFromSound == PInv => CreatedWhole
BY DEF PInv, AllSound, Sound, Mine, Wanted, CreatedWhole

-----------------------------------------------------------------------------
(* The slug of a new promotion.                                            *)

\* A set of numbers that is not empty has a least one.
LEMMA LeastExists ==
    ASSUME NEW S \in SUBSET Nat, S # {}
    PROVE  Min(S) \in S
<1>1. PICK m \in S : \A y \in S : ~(<<y, m>> \in OpToRel(<, Nat))
  BY WFMin, NatLessThanWellFounded
<1>2. \A y \in S : ~(y < m)
  BY <1>1, Zenon DEF OpToRel
<1>3. \A y \in S : m =< y
  BY <1>2
<1>4. QED
  BY <1>3 DEF Min

\* Finitely many counters leave one of the first free.
LEMMA OneIsFree ==
    ASSUME NEW S \in SUBSET Nat, IsFiniteSet(S)
    PROVE  0..Cardinality(S) \ S # {}
<1>1. Cardinality(S) \in Nat
  BY FS_CardinalityType
<1>2. Cardinality(0..Cardinality(S)) = Cardinality(S) + 1
  BY <1>1, FS_Interval
<1>3. QED
  BY <1>1, <1>2, FS_Subset

\* The slug is that of the title, and nobody has it.
LEMMA SlugIsNew ==
    ASSUME Types, NEW title \in Titles
    PROVE  generate_promotion_slug(title) \in (Titles \X Nat) \ Slugs
<1> DEFINE has == {p \in Stored : promotions[p].slug[1] = title}
           taken == {s[2] : s \in {x \in Slugs : x[1] = title}}
           free == 0..Cardinality(taken) \ taken
           number == [p \in has |-> promotions[p].slug[2]]
<1>1. \A p \in Stored : promotions[p].slug \in Titles \X Nat
  BY DEF Types, TypeOK, Row
<1>2. taken \subseteq Nat
  BY <1>1 DEF Slugs
<1>3. IsFiniteSet(has)
  BY FS_Subset, PromotionsAssumption DEF Stored
<1>4. number \in Surjection(has, taken)
  <2>1. \A p \in has : promotions[p].slug[2] \in taken
    BY DEF Slugs
  <2>2. \A n \in taken : \E p \in has : number[p] = n
    BY DEF Slugs
  <2>3. QED
    BY <2>1, <2>2 DEF Surjection
<1>5. IsFiniteSet(taken)
  BY <1>3, <1>4, FS_Surjection
<1>6. Min(free) \in free
  <2>1. free \in SUBSET Nat
    OBVIOUS
  <2>2. free # {}
    BY <1>2, <1>5, OneIsFree
  <2>3. QED
    BY <2>1, <2>2, LeastExists
<1>7. <<title, Min(free)>> \notin Slugs
  <2>1. SUFFICES ASSUME <<title, Min(free)>> \in Slugs
                 PROVE  FALSE
    OBVIOUS
  <2>2. <<title, Min(free)>>[2] \in taken
    BY <2>1
  <2>3. QED
    BY <1>6, <2>2
<1>8. generate_promotion_slug(title) = <<title, Min(free)>>
  BY DEF generate_promotion_slug
<1>9. Min(free) \in Nat
  BY <1>6
<1>10. QED
  BY <1>7, <1>8, <1>9

-----------------------------------------------------------------------------
(* One step.                                                               *)

\* What the steps of others leave of the promotion of q.
Frame(q) ==
    /\ pc'[q] = pc[q] /\ got'[q] = got[q] /\ work'[q] = work[q]
    /\ promotions[q] = None => promotions'[q] = None
    /\ removed \subseteq removed'
    /\ products' \subseteq products
    /\ q \notin removed' =>
          /\ q \in Stored => q \in Stored'
          /\ \A x \in products' :
                <<q, x>> \in promotion_products =>
                    <<q, x>> \in promotion_products'

LEMMA FrameKeepsSound ==
    ASSUME NEW q \in Requests, Sound(q), Frame(q)
    PROVE  Sound(q)'
<1> DEFINE batches == got[q].form.batches
<1>1. \A i : Wanted(q, i)' \subseteq Wanted(q, i)
  BY DEF Frame, Wanted
<1>2. Mine(q)' => Mine(q) /\ q \notin removed'
  BY DEF Frame, Mine
<1>3. ASSUME NEW i, q \notin removed',
             {q} \X Wanted(q, i) \subseteq promotion_products
      PROVE  {q} \X Wanted(q, i)' \subseteq promotion_products'
  BY <1>1, <1>3 DEF Frame, Wanted
<1>4. ASSUME NEW i, q \notin removed', Batched(q, i)
      PROVE  Batched(q, i)'
  BY <1>1, <1>3, <1>4 DEF Frame, Batched
<1>5. QED
  BY <1>2, <1>3, <1>4 DEF Frame, Sound

\* A request that has ended holds nothing but what it was about; a save that
\* succeeded, and a request that goes on, hold what they held.
LEMMA Holds ==
    ASSUME Types, NEW r \in Requests, NEW to, NEW holds \in Asks,
           Held(r, to, holds)
    PROVE  /\ got' \in [Requests -> Asks]
           /\ \A q \in Requests \ {r} : got'[q] = got[q] /\ work'[q] = work[q]
           /\ got'[r].about = holds.about
           /\ to \notin Done \/ (to = "ok" /\ holds.op = "save") =>
                 got'[r] = holds
           /\ to \notin Done => work' = work
           /\ work' = [q \in Requests |-> work'[q]]
           /\ \A q \in Requests : work'[q] \in [DOMAIN work'[q] -> Jobs]
<1> DEFINE rest == [Nothing EXCEPT !.about = holds.about,
                                   !.fault = holds.fault]
<1>1. rest \in Asks /\ rest.about = holds.about
  BY DEF Asks, Nothing, Ops
<1>2. got' = [got EXCEPT ![r] = IF to \notin Done
                                   \/ (to = "ok" /\ holds.op = "save")
                                THEN holds ELSE rest]
  BY DEF Held
<1>3. /\ got' \in [Requests -> Asks]
      /\ \A q \in Requests \ {r} : got'[q] = got[q]
      /\ got'[r].about = holds.about
      /\ to \notin Done \/ (to = "ok" /\ holds.op = "save") =>
            got'[r] = holds
  <2> HIDE DEF rest
  <2>1. QED
    BY <1>1, <1>2 DEF Types
<1>4. CASE to \in Done
  <2>1. work' = [work EXCEPT ![r] = <<>>]
    BY <1>4 DEF Held
  <2>2. work' = [q \in Requests |-> IF q = r THEN <<>> ELSE work[q]]
    BY <2>1 DEF Types
  <2>3. <<>> \in [DOMAIN <<>> -> Jobs]
    OBVIOUS
  <2>4. QED
    BY <1>3, <1>4, <2>2, <2>3 DEF Types
<1>5. CASE to \notin Done
  BY <1>3, <1>5 DEF Held, Types
<1>6. QED
  BY <1>4, <1>5

\* Types of a step that touches nothing but the progress of r.
LEMMA StepTypes ==
    ASSUME PInv, NEW r \in Requests, NEW from, NEW holds \in Asks,
           NEW to \in {"idle", "verify", "find", "upload", "unlink", "insert",
                       "update", "existing", "batches", "statement"}
                      \union Done,
           Step(r, from, to, holds)
    PROVE  Types'
BY Holds DEF Step, Go, PInv, Types, TypeOK, tables, Stored

Pcs == {"idle", "verify", "find", "upload", "unlink", "insert", "update",
        "existing", "batches", "statement"} \union Done

\* Types of a step that leaves the tables alone.
LEMMA RestOfTypes ==
    ASSUME PInv, UNCHANGED tables,
           s3' \subseteq Paths, uploads' \subseteq Paths \X Ids,
           second' \in 0..LastSecond, removed' \union edited' \subseteq Ids,
           NEW r \in Requests, NEW step \in Pcs,
           pc' = [pc EXCEPT ![r] = step],
           got' \in [Requests -> Asks],
           work' = [q \in Requests |-> work'[q]],
           \A q \in Requests : work'[q] \in [DOMAIN work'[q] -> Jobs]
    PROVE  Types'
<1>1. /\ Stored' = Stored /\ promotions' = promotions
      /\ promotion_products' = promotion_products /\ products' = products
  BY DEF tables, Stored
<1>2. pc' \in [Requests -> Pcs]
  BY DEF PInv, Types, TypeOK, Pcs
<1>3. QED
  BY <1>1, <1>2 DEF PInv, Types, TypeOK, Pcs

\* Types of a statement of r on the rows of promotions, after which those that
\* are left have the slugs that they had.
LEMMA RowsLeft ==
    ASSUME PInv, NEW r \in Requests, NEW gone,
           promotions' = [p \in Ids |-> promotions'[p]],
           Stored' = Stored \ gone,
           \A p \in Stored' : /\ promotions'[p] \in Row
                              /\ promotions'[p].slug = promotions[p].slug,
           promotion_products' \subseteq Stored' \X products,
           removed' \subseteq Ids \union removed,
           UNCHANGED <<products, s3, second, edited, uploads>>,
           Held(r, "ok", got[r]), Go(r, "statement", "ok")
    PROVE  Types'
<1>0. \A p, q \in Stored :
          promotions[p].slug = promotions[q].slug => p = q
  BY DEF PInv, Types, TypeOK
<1>1. /\ \A p, q \in Stored' :
            promotions'[p].slug = promotions'[q].slug => p = q
      /\ products' \subseteq Products
      /\ promotion_products' \subseteq Stored' \X products'
  <2>1. ASSUME NEW p \in Stored', NEW q \in Stored',
               promotions'[p].slug = promotions'[q].slug
        PROVE  p = q
    BY <1>0, <2>1
  <2>2. products' \subseteq Products
    BY DEF PInv, Types, TypeOK
  <2>3. promotion_products' \subseteq Stored' \X products'
    OBVIOUS
  <2>4. QED
    BY <2>1, <2>2, <2>3
<1>2. /\ s3' \subseteq Paths /\ uploads' \subseteq Paths \X Ids
      /\ second' \in 0..LastSecond
      /\ removed' \union edited' \subseteq Ids
  BY DEF PInv, Types, TypeOK
<1>3. pc' \in [Requests -> Pcs]
  BY DEF Go, PInv, Types, TypeOK, Pcs, Done
<1>4. /\ got' \in [Requests -> Asks]
      /\ work' = [q \in Requests |-> work'[q]]
      /\ \A q \in Requests : work'[q] \in [DOMAIN work'[q] -> Jobs]
  BY Holds DEF PInv, Types
<1>5. QED
  BY <1>1, <1>2, <1>3, <1>4 DEF Types, TypeOK, Pcs

\* The row that InsertPromotion writes is one, and its slug is new.
LEMMA InsertsRow ==
    ASSUME PInv, NEW r \in Requests,
           InsertPromotion(r), ~GiveUp(r, "insert")
    PROVE  /\ promotions' = [p \in Ids |-> promotions'[p]]
           /\ promotions'[r] \in Row
           /\ \A p \in Stored : promotions[p].slug # promotions'[r].slug
           /\ \A p \in Ids \ {r} : promotions'[p] = promotions[p]
           /\ Stored' = Stored \union {r}
<1> DEFINE f == got[r].form
           row == [title |-> f.title,
                   slug |-> generate_promotion_slug(f.title),
                   status |-> "active", start |-> f.start,
                   end |-> f.end, image |-> got[r].path]
<1>1. pc[r] = "insert" /\ promotions' = [promotions EXCEPT ![r] = row]
  BY DEF InsertPromotion, Go
<1>2. f \in Forms /\ got[r].path \in Paths
  BY <1>1 DEF PInv, AllSound, Sound, Saving
<1>3. f.title \in Titles /\ f.start \in Nat /\ f.end \in Nat
  BY <1>2, PromotionsAssumption
<1>4. generate_promotion_slug(f.title) \in (Titles \X Nat) \ Slugs
  BY <1>3, SlugIsNew DEF PInv
<1>5. row \in Row /\ row.slug \notin Slugs
  BY <1>2, <1>3, <1>4 DEF Row, Statuses
<1> HIDE DEF f, row
<1>6. /\ promotions' = [p \in Ids |-> promotions'[p]]
      /\ promotions'[r] = row
      /\ \A p \in Ids \ {r} : promotions'[p] = promotions[p]
  BY <1>1 DEF PInv, Types, Ids
<1>7. Stored' = Stored \union {r}
  BY <1>5, <1>6, PromotionsAssumption DEF Stored, Ids
<1>8. QED
  BY <1>5, <1>6, <1>7 DEF Slugs

\* Every step keeps the types.
LEMMA TypesStep ==
    ASSUME PInv, [Next]_vars
    PROVE  Types'
<1> USE DEF Go, tables
<1>1. ASSUME NEW r \in Requests, Requested(r)
      PROVE  Types'
  <2>1. ASSUME NEW asks \in Asks, Begin(r, asks)
        PROVE  Types'
    BY <2>1, StepTypes DEF Begin
  <2>2. Slugs \in SUBSET (Titles \X Nat)
    <3>1. \A p \in Stored : promotions[p].slug \in Titles \X Nat
      BY DEF PInv, Types, TypeOK, Row
    <3>2. QED
      BY <3>1 DEF Slugs
  <2>3. \A f \in Forms, slugs \in SUBSET (Titles \X Nat) :
            [Nothing EXCEPT !.op = "save", !.form = f, !.slugs = slugs]
                \in Asks
    BY DEF Nothing, Asks, Ops
  <2>4. \A op \in Ops, slugs \in SUBSET (Titles \X Nat) :
            [Nothing EXCEPT !.op = op, !.slugs = slugs] \in Asks
    BY DEF Nothing, Asks
  <2>5. QED
    BY <1>1, <2>1, <2>2, <2>3, <2>4
    DEF Requested, CreateOrEditV2Promotion, DeletePromotion, DeletePromotions,
        ArchivePromotions, DraftPromotions, ActivatePromotions, Bulk, Ops,
        Statuses
<1>2. ASSUME NEW r \in Requests, Progress(r)
      PROVE  Types'
  <2>0. /\ got[r] \in Asks
        /\ \A b \in BOOLEAN : [got[r] EXCEPT !.fault = b] \in Asks
        /\ \A p \in Stored :
              [got[r] EXCEPT !.about = p, !.old = promotions[p].image] \in Asks
    <3>1. got[r] \in Asks
      BY DEF PInv, Types
    <3>2. \A p \in Stored : p \in Ids /\ promotions[p].image \in Paths
      BY DEF PInv, Types, TypeOK, Row, Stored
    <3>3. QED
      BY <3>1, <3>2 DEF Asks
  <2> HIDE DEF Go
  <2>1. ASSUME NEW from, GiveUp(r, from)
        PROVE  Types'
    BY <2>0, <2>1, StepTypes DEF GiveUp, Done
  <2>2. CASE VerifyAdminStatus(r)
    BY <2>0, <2>1, <2>2, StepTypes DEF VerifyAdminStatus
  <2>3. CASE FindPromotion(r)
    BY <2>0, <2>1, <2>3, StepTypes DEF FindPromotion, GetPromotionBySlug
  <2>4. CASE UpdatePromotion(r)
    BY <2>0, <2>1, <2>4, StepTypes DEF UpdatePromotion, Done
  <2>5. CASE Wait(r)
    BY <2>0, <2>5, StepTypes DEF Wait, Done
  <2>6. CASE StatementFails(r)
    BY <2>1, <2>6 DEF StatementFails
  <2>7. CASE DeleteStatement(r)
    <3>1. /\ promotions' = [p \in Ids |-> promotions'[p]]
          /\ Stored' = Stored \ Named(r)
          /\ \A p \in Stored' : promotions'[p] = promotions[p]
      BY <2>7 DEF DeleteStatement, Named, Stored
    <3>2. promotion_products' \subseteq Stored' \X products
      BY <2>7, <3>1 DEF DeleteStatement, PInv, Types, TypeOK
    <3>3. /\ removed' \subseteq Ids \union removed
          /\ UNCHANGED <<products, s3, second, edited, uploads>>
      BY <2>7 DEF DeleteStatement, Named, Stored
    <3>4. Held(r, "ok", got[r]) /\ Go(r, "statement", "ok")
      BY <2>7 DEF DeleteStatement
    <3>5. \A p \in Stored' : /\ promotions'[p] \in Row
                             /\ promotions'[p].slug = promotions[p].slug
      BY <3>1 DEF PInv, Types, TypeOK
    <3>6. QED
      BY <3>1, <3>2, <3>3, <3>4, <3>5, RowsLeft
  <2>8. CASE StatusStatement(r)
    <3>1. /\ promotions' = [p \in Ids |-> promotions'[p]]
          /\ \A p \in Stored : /\ promotions'[p] \in Row
                               /\ promotions'[p].slug = promotions[p].slug
      BY <2>8 DEF StatusStatement, PInv, Types, TypeOK, Named, Stored, Row
    <3>2. Stored' = Stored
      BY <2>8, <3>1, PromotionsAssumption
      DEF StatusStatement, Stored, Named
    <3>3. UNCHANGED <<promotion_products, products, s3, second, removed,
                      edited, uploads>>
      BY <2>8 DEF StatusStatement
    <3>4. Held(r, "ok", got[r]) /\ Go(r, "statement", "ok")
      BY <2>8 DEF StatusStatement
    <3>5. /\ Stored' = Stored \ {}
          /\ \A p \in Stored' : /\ promotions'[p] \in Row
                               /\ promotions'[p].slug = promotions[p].slug
      BY <3>1, <3>2
    <3>6. /\ promotion_products' \subseteq Stored' \X products
          /\ removed' \subseteq Ids \union removed
      BY <3>2, <3>3 DEF PInv, Types, TypeOK
    <3>7. QED
      BY <3>1, <3>3, <3>4, <3>5, <3>6, RowsLeft
  <2>9. CASE UploadImage(r)
    <3>1. CASE GiveUp(r, "upload")
      BY <2>1, <3>1
    <3>2. CASE ~GiveUp(r, "upload")
      <4> DEFINE path == <<second, got[r].form.file>>
      <4>1. /\ pc[r] = "upload"
            /\ got' = [got EXCEPT ![r].path = path]
            /\ s3' = s3 \union {path}
            /\ uploads' = uploads \union {<<path, r>>}
            /\ UNCHANGED <<tables, second, work, removed, edited>>
            /\ pc' = [pc EXCEPT ![r] = IF got[r].about = None THEN "insert"
                                       ELSE "unlink"]
        BY <2>9, <3>2 DEF UploadImage, Go
      <4>2. got[r].form \in Forms
        BY <4>1 DEF PInv, AllSound, Sound, Saving
      <4>3. path \in Paths
        BY <4>2, PromotionsAssumption DEF Paths, PInv, Types, TypeOK
      <4> HIDE DEF path
      <4>4. got' \in [Requests -> Asks]
        BY <4>1, <4>3 DEF PInv, Types, Asks
      <4>5. /\ s3' \subseteq Paths /\ uploads' \subseteq Paths \X Ids
            /\ second' \in 0..LastSecond
            /\ removed' \union edited' \subseteq Ids
        <5>1. uploads' \subseteq Paths \X Ids
          BY <4>1, <4>3 DEF PInv, Types, TypeOK, Ids
        <5>2. QED
          BY <4>1, <4>3, <5>1 DEF PInv, Types, TypeOK
      <4>6. /\ work' = [q \in Requests |-> work'[q]]
            /\ \A q \in Requests : work'[q] \in [DOMAIN work'[q] -> Jobs]
        BY <4>1 DEF PInv, Types
      <4>7. UNCHANGED tables
        BY <4>1
      <4>8. {"insert", "unlink"} \subseteq Pcs
        BY DEF Pcs
      <4>9. QED
        BY <4>1, <4>4, <4>5, <4>6, <4>7, <4>8, RestOfTypes
    <3>3. QED
      BY <3>1, <3>2
  <2>10. CASE DeleteOldImage(r)
    <3>1. CASE GiveUp(r, "unlink")
      BY <2>1, <3>1
    <3>2. CASE ~GiveUp(r, "unlink")
      <4>1. /\ pc[r] = "unlink"
            /\ s3' = s3 \ {got[r].old}
            /\ edited' = edited \union {got[r].about}
            /\ UNCHANGED <<tables, second, got, work, removed, uploads>>
            /\ pc' = [pc EXCEPT ![r] = "update"]
        BY <2>10, <3>2 DEF DeleteOldImage, Go
      <4>2. got[r].about \in Ids
        BY <2>0, <4>1 DEF PInv, AllSound, Sound, Asks
      <4>3. /\ s3' \subseteq Paths /\ uploads' \subseteq Paths \X Ids
            /\ second' \in 0..LastSecond
            /\ removed' \union edited' \subseteq Ids
        BY <4>1, <4>2 DEF PInv, Types, TypeOK
      <4>4. /\ work' = [q \in Requests |-> work'[q]]
            /\ \A q \in Requests : work'[q] \in [DOMAIN work'[q] -> Jobs]
            /\ got' \in [Requests -> Asks]
        BY <4>1 DEF PInv, Types
      <4>5. UNCHANGED tables
        BY <4>1
      <4>6. "update" \in Pcs
        BY DEF Pcs
      <4>7. QED
        BY <4>1, <4>3, <4>4, <4>5, <4>6, RestOfTypes
    <3>3. QED
      BY <3>1, <3>2
  <2>11. CASE InsertPromotion(r)
    <3>1. CASE GiveUp(r, "insert")
      BY <2>1, <3>1
    <3>2. CASE ~GiveUp(r, "insert")
      <4>1. /\ pc' = [pc EXCEPT ![r] = "existing"]
            /\ got' = [got EXCEPT ![r].about = r]
            /\ UNCHANGED <<promotion_products, products, s3, second, work,
                           removed, edited, uploads>>
        BY <2>11, <3>2 DEF InsertPromotion, Go
      <4>2. /\ promotions' = [p \in Ids |-> promotions'[p]]
            /\ promotions'[r] \in Row
            /\ \A p \in Stored : promotions[p].slug # promotions'[r].slug
            /\ \A p \in Ids \ {r} : promotions'[p] = promotions[p]
            /\ Stored' = Stored \union {r}
        BY <2>11, <3>2, InsertsRow
      <4>3. \A p, q \in Stored' :
                promotions'[p].slug = promotions'[q].slug => p = q
        <5>1. \A p \in Stored : promotions[p].slug # promotions'[r].slug
          BY <4>2
        <5>2. Stored \subseteq Ids
          BY DEF Stored
        <5>3. \A p, q \in Stored :
                  promotions[p].slug = promotions[q].slug => p = q
          BY DEF PInv, Types, TypeOK
        <5>4. \A p \in Stored \ {r} :
                  promotions'[p] = promotions[p] /\ p \in Stored
          BY <4>2, <5>2
        <5>5. ASSUME NEW p \in Stored', NEW q \in Stored',
                     promotions'[p].slug = promotions'[q].slug
              PROVE  p = q
          <6>1. CASE p = r /\ q = r
            BY <6>1
          <6>2. CASE p # r /\ q = r
            BY <4>2, <5>1, <5>4, <5>5, <6>2
          <6>3. CASE p = r /\ q # r
            BY <4>2, <5>1, <5>4, <5>5, <6>3
          <6>4. CASE p # r /\ q # r
            BY <4>2, <5>3, <5>4, <5>5, <6>4
          <6>5. QED
            BY <6>1, <6>2, <6>3, <6>4
        <5>6. QED
          BY <5>5
      <4>4. got' \in [Requests -> Asks]
        <5>1. r \in Ids
          BY DEF Ids
        <5>2. [got[r] EXCEPT !.about = r] \in Asks
          BY <2>0, <5>1 DEF Asks
        <5>3. got' = [got EXCEPT ![r] = [got[r] EXCEPT !.about = r]]
          BY <4>1
        <5>4. QED
          BY <5>2, <5>3 DEF PInv, Types
      <4>5. \A p \in Stored' : promotions'[p] \in Row
        BY <4>2 DEF PInv, Types, TypeOK, Stored
      <4>6. promotion_products' \subseteq Stored' \X products'
        BY <4>1, <4>2 DEF PInv, Types, TypeOK
      <4>7. pc' \in [Requests -> Pcs]
        BY <4>1 DEF PInv, Types, TypeOK, Pcs
      <4>8. QED
        BY <4>1, <4>2, <4>3, <4>4, <4>5, <4>6, <4>7
        DEF PInv, Types, TypeOK, Pcs
    <3>3. QED
      BY <3>1, <3>2
  <2>12. CASE ReadExisting(r)
    <3>1. CASE GiveUp(r, "existing")
      BY <2>1, <3>1
    <3>2. CASE ~GiveUp(r, "existing")
      <4> DEFINE started == [i \in DOMAIN got[r].form.batches |->
                                [at |-> "queued", ids |-> {}]]
      <4>1. /\ pc' = [pc EXCEPT ![r] = "batches"]
            /\ work' = [work EXCEPT ![r] = started]
            /\ UNCHANGED <<tables, s3, second, got, removed, edited, uploads>>
        BY <2>12, <3>2 DEF ReadExisting, Go
      <4>2. started \in [DOMAIN started -> Jobs]
        BY DEF Jobs
      <4>3. work' = [q \in Requests |-> IF q = r THEN started ELSE work[q]]
        BY <4>1 DEF PInv, Types
      <4> HIDE DEF started
      <4>4. /\ s3' \subseteq Paths /\ uploads' \subseteq Paths \X Ids
            /\ second' \in 0..LastSecond
            /\ removed' \union edited' \subseteq Ids
        BY <4>1 DEF PInv, Types, TypeOK
      <4>5. /\ work' = [q \in Requests |-> work'[q]]
            /\ \A q \in Requests : work'[q] \in [DOMAIN work'[q] -> Jobs]
            /\ got' \in [Requests -> Asks]
        BY <4>1, <4>2, <4>3 DEF PInv, Types
      <4>6. UNCHANGED tables
        BY <4>1
      <4>7. "batches" \in Pcs
        BY DEF Pcs
      <4>8. QED
        BY <4>1, <4>4, <4>5, <4>6, <4>7, RestOfTypes
    <3>3. QED
      BY <3>1, <3>2
  <2>13. ASSUME NEW i \in DOMAIN work[r], NEW from, NEW to \in Jobs,
                Batch(r, i, from, to), got' \in [Requests -> Asks],
                promotion_products' \subseteq Stored \X products
         PROVE  Types'
    <3>1. work' = [q \in Requests |-> IF q = r THEN [work[r] EXCEPT ![i] = to]
                                      ELSE work[q]]
      BY <2>13 DEF Batch, PInv, Types
    <3>2. [work[r] EXCEPT ![i] = to] \in [DOMAIN work[r] -> Jobs]
      BY <2>13 DEF PInv, Types
    <3>3. QED
      BY <2>13, <3>1, <3>2 DEF Batch, PInv, Types, TypeOK, Stored
  <2>14. ASSUME NEW i \in DOMAIN work[r],
                \/ Acquire(r, i) \/ ReadProductIDs(r, i) \/ AddProducts(r, i)
                \/ FailBatch(r, i)
         PROVE  Types'
    <3>1. /\ got \in [Requests -> Asks]
          /\ [got EXCEPT ![r].fault = TRUE] \in [Requests -> Asks]
          /\ promotion_products \subseteq Stored \X products
      BY DEF PInv, Types, TypeOK, Asks
    <3>2. \A at \in {"reading", "added", "failed"} :
              [at |-> at, ids |-> {}] \in Jobs
      BY DEF Jobs
    <3>3. CASE Acquire(r, i)
      BY <2>13, <3>1, <3>2, <3>3 DEF Acquire
    <3>4. CASE ReadProductIDs(r, i)
      <4>1. [at |-> "adding",
             ids |-> got[r].form.batches[i] \intersect products] \in Jobs
        BY DEF Jobs, PInv, Types, TypeOK
      <4>2. QED
        BY <2>13, <3>1, <3>4, <4>1 DEF ReadProductIDs
    <3>5. CASE AddProducts(r, i)
      BY <2>13, <3>1, <3>2, <3>5 DEF AddProducts, MayAdd
    <3>6. CASE FailBatch(r, i)
      BY <2>13, <3>1, <3>2, <3>6 DEF FailBatch
    <3>7. QED
      BY <2>14, <3>3, <3>4, <3>5, <3>6
  <2>15. QED
    BY <1>2, <2>2, <2>3, <2>4, <2>5, <2>6, <2>7, <2>8, <2>9, <2>10, <2>11,
       <2>12, <2>14 DEF Progress
<1>3. CASE ProductDeleted
  <2>1. PICK x \in products :
            /\ products' = products \ {x}
            /\ promotion_products' = {y \in promotion_products : y[2] # x}
            /\ UNCHANGED <<promotions, s3, second, pc, got, work, removed,
                           edited, uploads>>
    BY <1>3 DEF ProductDeleted
  <2>2. promotion_products' \subseteq Stored \X products'
    BY <2>1 DEF PInv, Types, TypeOK
  <2>3. Stored' = Stored
    BY <2>1 DEF Stored
  <2>4. QED
    BY <2>1, <2>2, <2>3 DEF PInv, Types, TypeOK
<1>4. CASE Tick
  <2>1. second' \in 0..LastSecond
    <3>1. LastSecond \in Nat
      BY PromotionsAssumption
    <3>2. QED
      BY <1>4, <3>1 DEF Tick, PInv, Types, TypeOK
  <2>2. Stored' = Stored
    BY <1>4 DEF Tick, Stored
  <2>3. QED
    BY <1>4, <2>1, <2>2 DEF Tick, PInv, Types, TypeOK
<1>5. CASE UNCHANGED vars
  BY <1>5 DEF vars, PInv, Types, TypeOK, Stored
<1>6. QED
  BY <1>1, <1>2, <1>3, <1>4, <1>5 DEF Next

\* Where a step that touches nothing but the progress of r leads.
LEMMA StepSound ==
    ASSUME PInv, NEW r \in Requests, NEW from, NEW to, NEW holds \in Asks,
           Step(r, from, to, holds), to # "batches",
           to \in Early => promotions[r] = None /\ holds.about # r,
           to = "verify" /\ holds.op = "save" => holds.form \in Forms,
           to \in Saving => holds.op = "save" /\ holds.form \in Forms,
           to = "insert" => holds.path \in Paths,
           to = "unlink" => holds.about # None,
           to = "existing" /\ holds.about = r /\ r \notin removed =>
               r \in Stored,
           to = "ok" /\ holds.about = r /\ r \notin removed =>
               /\ holds.op = "save" /\ r \in Stored
               /\ \A i \in DOMAIN holds.form.batches :
                     {r} \X (holds.form.batches[i] \intersect products)
                         \subseteq promotion_products
    PROVE  AllSound'
<1>1. /\ pc'[r] = to
      /\ \A q \in Requests \ {r} : pc'[q] = pc[q]
      /\ UNCHANGED <<promotions, promotion_products, products, removed>>
      /\ Held(r, to, holds)
  BY DEF Step, Go, PInv, Types, TypeOK, tables
<1>2. Stored' = Stored
  BY <1>1 DEF Stored
<1>3. /\ \A q \in Requests \ {r} : got'[q] = got[q] /\ work'[q] = work[q]
      /\ got'[r].about = holds.about
      /\ to \notin Done \/ (to = "ok" /\ holds.op = "save") =>
            got'[r] = holds
  BY <1>1, Holds DEF PInv
<1>4. ASSUME NEW q \in Requests \ {r}
      PROVE  Sound(q)'
  <2>1. Frame(q)
    BY <1>1, <1>2, <1>3 DEF Frame
  <2>2. QED
    BY <2>1, FrameKeepsSound DEF PInv, AllSound
<1>5. Sound(r)'
  BY <1>1, <1>2, <1>3 DEF Sound, Mine, Wanted, Early, Saving, Done
<1>6. QED
  BY <1>4, <1>5 DEF AllSound

\* A step of r after which the others are framed keeps all sound if r is.
LEMMA OthersSound ==
    ASSUME PInv, NEW r \in Requests, Sound(r)',
           \A q \in Requests \ {r} : Frame(q)
    PROVE  AllSound'
BY FrameKeepsSound DEF PInv, AllSound

\* Every step keeps all requests sound.
LEMMA SoundStep ==
    ASSUME PInv, [Next]_vars
    PROVE  AllSound'
<1>1. ASSUME NEW r \in Requests, Requested(r)
      PROVE  AllSound'
  <2>1. ASSUME NEW asks \in Asks, Begin(r, asks), asks.about = None,
               asks.op = "save" => asks.form \in Forms
        PROVE  AllSound'
    <3>1. Step(r, "idle", "verify", asks) /\ pc[r] = "idle"
      BY <2>1 DEF Begin, Step, Go
    <3>2. promotions[r] = None
      BY <3>1 DEF PInv, AllSound, Sound, Early
    <3>3. asks.about # r
      BY <2>1, PromotionsAssumption DEF Ids
    <3>4. QED
      BY <2>1, <3>1, <3>2, <3>3, StepSound DEF Early, Saving
  <2>2. Slugs \in SUBSET (Titles \X Nat)
    <3>1. \A p \in Stored : promotions[p].slug \in Titles \X Nat
      BY DEF PInv, Types, TypeOK, Row
    <3>2. QED
      BY <3>1 DEF Slugs
  <2>3. ASSUME NEW f \in Forms, NEW slugs \in SUBSET (Titles \X Nat),
               Begin(r, [Nothing EXCEPT !.op = "save", !.form = f,
                                        !.slugs = slugs])
        PROVE  AllSound'
    <3> DEFINE asks == [Nothing EXCEPT !.op = "save", !.form = f,
                                       !.slugs = slugs]
    <3>1. asks \in Asks /\ asks.about = None /\ asks.form = f
      BY DEF Nothing, Asks, Ops
    <3> HIDE DEF asks
    <3>2. Begin(r, asks)
      BY <2>3 DEF asks
    <3>3. QED
      BY <2>1, <3>1, <3>2
  <2>4. ASSUME NEW op \in Ops \ {"save"}, NEW slugs \in SUBSET (Titles \X Nat),
               Begin(r, [Nothing EXCEPT !.op = op, !.slugs = slugs])
        PROVE  AllSound'
    <3> DEFINE asks == [Nothing EXCEPT !.op = op, !.slugs = slugs]
    <3>1. asks \in Asks /\ asks.about = None /\ asks.op # "save"
      BY DEF Nothing, Asks
    <3> HIDE DEF asks
    <3>2. Begin(r, asks)
      BY <2>4 DEF asks
    <3>3. QED
      BY <2>1, <3>1, <3>2
  <2>5. CASE CreateOrEditV2Promotion(r)
    <3>1. PICK f \in Forms, slug \in Slugs \union {None} :
              Begin(r, [Nothing EXCEPT !.op = "save", !.form = f,
                                       !.slugs = {slug} \ {None}])
      BY <2>5 DEF CreateOrEditV2Promotion
    <3>2. {slug} \ {None} \in SUBSET (Titles \X Nat)
      BY <2>2
    <3>3. QED
      BY <3>1, <3>2, <2>3
  <2>6. CASE DeletePromotion(r)
    <3>1. PICK slug \in Slugs :
              Begin(r, [Nothing EXCEPT !.op = "delete", !.slugs = {slug}])
      BY <2>6 DEF DeletePromotion
    <3>2. {slug} \in SUBSET (Titles \X Nat)
      BY <2>2
    <3>3. "delete" \in Ops \ {"save"}
      BY DEF Ops
    <3>4. QED
      BY <3>1, <3>2, <3>3, <2>4
  <2>7. ASSUME NEW op \in Ops \ {"save"}, Bulk(r, op)
        PROVE  AllSound'
    <3>1. PICK ss \in SUBSET Slugs \ {{}} :
              Begin(r, [Nothing EXCEPT !.op = op, !.slugs = ss])
      BY <2>7 DEF Bulk
    <3>2. ss \in SUBSET (Titles \X Nat)
      BY <2>2
    <3>3. QED
      BY <3>1, <3>2, <2>4
  <2>8. /\ "deletemany" \in Ops \ {"save"} /\ "archived" \in Ops \ {"save"}
        /\ "draft" \in Ops \ {"save"} /\ "active" \in Ops \ {"save"}
    BY DEF Ops, Statuses
  <2>9. QED
    BY <1>1, <2>5, <2>6, <2>7, <2>8
    DEF Requested, DeletePromotions, ArchivePromotions, DraftPromotions,
        ActivatePromotions
<1>2. ASSUME NEW r \in Requests, Progress(r)
      PROVE  AllSound'
  <2>0. got[r] \in Asks /\ Sound(r)
    BY DEF PInv, Types, AllSound
  <2>1. ASSUME NEW from, GiveUp(r, from)
        PROVE  AllSound'
    <3>1. [got[r] EXCEPT !.fault = TRUE] \in Asks
      BY <2>0 DEF Asks
    <3>2. Step(r, from, "failed", [got[r] EXCEPT !.fault = TRUE])
      BY <2>1 DEF GiveUp
    <3>3. QED
      BY <3>1, <3>2, StepSound DEF Early, Saving
  <2>2. CASE VerifyAdminStatus(r)
    <3>1. CASE GiveUp(r, "verify")
      BY <2>1, <3>1
    <3>2. CASE ~GiveUp(r, "verify")
      <4>1. PICK to \in {"statement", "upload", "find"} :
                /\ Step(r, "verify", to, got[r])
                /\ to # "statement" => got[r].op = "save"
        BY <2>2, <3>2 DEF VerifyAdminStatus
      <4>2. pc[r] = "verify"
        BY <4>1 DEF Step, Go
      <4>3. /\ promotions[r] = None /\ got[r].about # r
            /\ got[r].op = "save" => got[r].form \in Forms
        BY <2>0, <4>2 DEF Sound, Early
      <4>4. QED
        BY <2>0, <4>1, <4>3, StepSound DEF Saving
    <3>3. QED
      BY <3>1, <3>2
  <2>3. CASE FindPromotion(r)
    <3>1. CASE GiveUp(r, "find")
      BY <2>1, <3>1
    <3>2. CASE ~GiveUp(r, "find")
      <4>1. pc[r] = "find"
        BY <2>3, <3>2 DEF FindPromotion
      <4>2. /\ promotions[r] = None /\ got[r].about # r
            /\ got[r].op = "save" /\ got[r].form \in Forms
        BY <2>0, <4>1 DEF Sound, Early, Saving
      <4>3. PICK holds \in Asks :
                /\ Step(r, "find", "upload", holds)
                /\ holds.op = got[r].op /\ holds.form = got[r].form
                /\ holds.about # r
        <5>1. CASE Step(r, "find", "upload", got[r])
          BY <2>0, <4>2, <5>1
        <5>2. CASE \E p \in Stored :
                       Step(r, "find", "upload",
                            [got[r] EXCEPT !.about = p,
                                           !.old = promotions[p].image])
          <6>1. PICK p \in Stored :
                    Step(r, "find", "upload",
                         [got[r] EXCEPT !.about = p,
                                        !.old = promotions[p].image])
            BY <5>2
          <6>2. p # r /\ p \in Ids /\ promotions[p].image \in Paths
            BY <4>2 DEF Stored, PInv, Types, TypeOK, Row
          <6>3. [got[r] EXCEPT !.about = p, !.old = promotions[p].image]
                    \in Asks
            BY <2>0, <6>2 DEF Asks
          <6>4. QED
            BY <2>0, <6>1, <6>2, <6>3 DEF Asks
        <5>3. QED
          BY <2>3, <3>2, <5>1, <5>2 DEF FindPromotion, GetPromotionBySlug
      <4>4. QED
        BY <4>2, <4>3, StepSound DEF Saving
    <3>3. QED
      BY <3>1, <3>2
  <2>4. CASE UpdatePromotion(r)
    <3>1. CASE GiveUp(r, "update")
      BY <2>1, <3>1
    <3>2. CASE ~GiveUp(r, "update")
      <4>1. PICK to \in {"failed", "existing"} :
                Step(r, "update", to, got[r]) /\ pc[r] = "update"
        BY <2>4, <3>2 DEF UpdatePromotion
      <4>2. /\ got[r].about # r
            /\ got[r].op = "save" /\ got[r].form \in Forms
        BY <2>0, <4>1 DEF Sound, Early, Saving
      <4>3. QED
        BY <2>0, <4>1, <4>2, StepSound DEF Early
    <3>3. QED
      BY <3>1, <3>2
  <2>5. CASE Wait(r)
    <3>1. /\ pc[r] = "batches"
          /\ \A i \in DOMAIN work[r] : work[r][i].at \in {"added", "failed"}
      BY <2>5 DEF Wait
    <3>2. CASE \E i \in DOMAIN work[r] : work[r][i].at = "failed"
      <4>1. Step(r, "batches", "failed", got[r])
        BY <2>5, <3>2 DEF Wait
      <4>2. QED
        BY <2>0, <4>1, StepSound DEF Early, Saving
    <3>3. CASE \A i \in DOMAIN work[r] : work[r][i].at # "failed"
      <4>1. Step(r, "batches", "ok", got[r])
        BY <2>5, <3>3 DEF Wait
      <4>2. got[r].op = "save"
        BY <2>0, <3>1 DEF Sound, Saving
      <4>3. ASSUME Mine(r)
            PROVE  /\ r \in Stored
                   /\ \A i \in DOMAIN got[r].form.batches :
                         {r} \X Wanted(r, i) \subseteq promotion_products
        BY <2>0, <3>1, <3>3, <4>3 DEF Sound, Batched
      <4>4. QED
        BY <2>0, <4>1, <4>2, <4>3, StepSound
        DEF Early, Saving, Mine, Wanted
    <3>4. QED
      BY <3>2, <3>3
  <2>6. CASE StatementFails(r)
    BY <2>1, <2>6 DEF StatementFails
  <2>7. ASSUME Held(r, "ok", got[r]), Go(r, "statement", "ok"),
               UNCHANGED products, removed \subseteq removed',
               \A p \in Ids :
                  /\ promotions[p] = None => promotions'[p] = None
                  /\ p \notin removed' =>
                        /\ p \in Stored => p \in Stored'
                        /\ \A x : <<p, x>> \in promotion_products =>
                                      <<p, x>> \in promotion_products'
        PROVE  AllSound'
    <3>1. /\ pc[r] = "statement" /\ pc'[r] = "ok"
          /\ \A q \in Requests \ {r} : pc'[q] = pc[q]
      BY <2>7 DEF Go, PInv, Types, TypeOK
    <3>2. /\ \A q \in Requests \ {r} : got'[q] = got[q] /\ work'[q] = work[q]
          /\ got'[r].about = got[r].about
      BY <2>0, <2>7, Holds DEF PInv
    <3>3. got[r].about # r
      BY <2>0, <3>1 DEF Sound, Early
    <3>4. Sound(r)'
      BY <3>1, <3>2, <3>3 DEF Sound, Mine, Early, Saving
    <3>5. \A q \in Requests \ {r} : Frame(q)
      BY <2>7, <3>1, <3>2 DEF Frame, Ids
    <3>6. QED
      BY <3>4, <3>5, OthersSound
  <2>8. CASE DeleteStatement(r)
    <3>1. /\ Held(r, "ok", got[r]) /\ Go(r, "statement", "ok")
          /\ UNCHANGED products /\ removed \subseteq removed'
      BY <2>8 DEF DeleteStatement
    <3>2. ASSUME NEW p \in Ids
          PROVE  /\ promotions[p] = None => promotions'[p] = None
                 /\ p \notin removed' =>
                       /\ p \in Stored => p \in Stored'
                       /\ \A x : <<p, x>> \in promotion_products =>
                                     <<p, x>> \in promotion_products'
      BY <2>8 DEF DeleteStatement, Stored
    <3>3. QED
      BY <2>7, <3>1, <3>2
  <2>9. CASE StatusStatement(r)
    <3>1. /\ Held(r, "ok", got[r]) /\ Go(r, "statement", "ok")
          /\ UNCHANGED products /\ removed \subseteq removed'
      BY <2>9 DEF StatusStatement
    <3>2. Stored' = Stored
      <4>1. \A p \in Stored : [promotions[p] EXCEPT !.status = got[r].op]
                                  \in Row
        BY <2>9 DEF StatusStatement, PInv, Types, TypeOK, Row
      <4>2. QED
        BY <2>9, <4>1, PromotionsAssumption DEF StatusStatement, Stored, Named
    <3>3. ASSUME NEW p \in Ids
          PROVE  /\ promotions[p] = None => promotions'[p] = None
                 /\ p \notin removed' =>
                       /\ p \in Stored => p \in Stored'
                       /\ \A x : <<p, x>> \in promotion_products =>
                                     <<p, x>> \in promotion_products'
      BY <2>9, <3>2 DEF StatusStatement, Stored
    <3>4. QED
      BY <2>7, <3>1, <3>3
  <2>10. CASE UploadImage(r)
    <3>1. CASE GiveUp(r, "upload")
      BY <2>1, <3>1
    <3>2. CASE ~GiveUp(r, "upload")
      <4> DEFINE path == <<second, got[r].form.file>>
      <4>1. /\ pc[r] = "upload"
            /\ pc' = [pc EXCEPT ![r] = IF got[r].about = None THEN "insert"
                                       ELSE "unlink"]
            /\ got' = [got EXCEPT ![r].path = path]
            /\ UNCHANGED <<tables, work, removed>>
        BY <2>10, <3>2 DEF UploadImage, Go
      <4>2. /\ promotions[r] = None /\ got[r].about # r
            /\ got[r].op = "save" /\ got[r].form \in Forms
        BY <2>0, <4>1 DEF Sound, Early, Saving
      <4>3. path \in Paths
        BY <4>2, PromotionsAssumption DEF Paths, PInv, Types, TypeOK
      <4> HIDE DEF path
      <4>4. /\ got'[r].about = got[r].about /\ got'[r].op = "save"
            /\ got'[r].form \in Forms /\ got'[r].path \in Paths
            /\ \A q \in Requests \ {r} : got'[q] = got[q]
        BY <4>1, <4>2, <4>3 DEF PInv, Types, Asks
      <4>5. /\ pc'[r] = IF got[r].about = None THEN "insert" ELSE "unlink"
            /\ \A q \in Requests \ {r} : pc'[q] = pc[q]
        BY <4>1 DEF PInv, Types, TypeOK
      <4>6. Sound(r)'
        BY <4>1, <4>2, <4>4, <4>5 DEF Sound, Early, Saving, tables
      <4>7. Stored' = Stored
        BY <4>1 DEF Stored, tables
      <4>8. \A q \in Requests \ {r} : Frame(q)
        BY <4>1, <4>4, <4>5, <4>7 DEF Frame, tables
      <4>9. QED
        BY <4>6, <4>8, OthersSound
    <3>3. QED
      BY <3>1, <3>2
  <2>11. CASE DeleteOldImage(r)
    <3>1. CASE GiveUp(r, "unlink")
      BY <2>1, <3>1
    <3>2. CASE ~GiveUp(r, "unlink")
      <4>1. /\ pc[r] = "unlink" /\ pc' = [pc EXCEPT ![r] = "update"]
            /\ UNCHANGED <<tables, got, work, removed>>
        BY <2>11, <3>2 DEF DeleteOldImage, Go
      <4>2. /\ pc'[r] = "update"
            /\ \A q \in Requests \ {r} : pc'[q] = pc[q]
        BY <4>1 DEF PInv, Types, TypeOK
      <4>3. Sound(r)'
        BY <2>0, <4>1, <4>2 DEF Sound, Early, Saving, tables
      <4>4. Stored' = Stored
        BY <4>1 DEF Stored, tables
      <4>5. \A q \in Requests \ {r} : Frame(q)
        BY <4>1, <4>2, <4>4 DEF Frame, tables
      <4>6. QED
        BY <4>3, <4>5, OthersSound
    <3>3. QED
      BY <3>1, <3>2
  <2>12. CASE InsertPromotion(r)
    <3>1. CASE GiveUp(r, "insert")
      BY <2>1, <3>1
    <3>2. CASE ~GiveUp(r, "insert")
      <4>1. /\ pc[r] = "insert" /\ pc' = [pc EXCEPT ![r] = "existing"]
            /\ got' = [got EXCEPT ![r].about = r]
            /\ UNCHANGED <<promotion_products, products, work, removed>>
        BY <2>12, <3>2 DEF InsertPromotion, Go
      <4>2. /\ \A p \in Ids \ {r} : promotions'[p] = promotions[p]
            /\ Stored' = Stored \union {r}
        BY <2>12, <3>2, InsertsRow
      <4>3. /\ pc'[r] = "existing"
            /\ \A q \in Requests \ {r} : pc'[q] = pc[q]
        BY <4>1 DEF PInv, Types, TypeOK
      <4>4. /\ got'[r].op = got[r].op /\ got'[r].form = got[r].form
            /\ \A q \in Requests \ {r} : got'[q] = got[q]
        BY <2>0, <4>1 DEF PInv, Types, Asks
      <4>5. Sound(r)'
        BY <2>0, <4>1, <4>2, <4>3, <4>4 DEF Sound, Early, Saving
      <4>6. \A q \in Requests \ {r} : Frame(q)
        BY <4>1, <4>2, <4>3, <4>4 DEF Frame, Ids
      <4>7. QED
        BY <4>5, <4>6, OthersSound
    <3>3. QED
      BY <3>1, <3>2
  <2>13. CASE ReadExisting(r)
    <3>1. CASE GiveUp(r, "existing")
      BY <2>1, <3>1
    <3>2. CASE ~GiveUp(r, "existing")
      <4>1. /\ pc[r] = "existing" /\ pc' = [pc EXCEPT ![r] = "batches"]
            /\ work' = [work EXCEPT ![r] =
                  [i \in DOMAIN got[r].form.batches |->
                      [at |-> "queued", ids |-> {}]]]
            /\ UNCHANGED <<tables, got, removed>>
        BY <2>13, <3>2 DEF ReadExisting, Go
      <4>2. /\ pc'[r] = "batches"
            /\ \A q \in Requests \ {r} : pc'[q] = pc[q]
        BY <4>1 DEF PInv, Types, TypeOK
      <4>3. /\ DOMAIN work'[r] = DOMAIN got[r].form.batches
            /\ \A i \in DOMAIN work'[r] : work'[r][i].at = "queued"
            /\ \A q \in Requests \ {r} : work'[q] = work[q]
        BY <4>1 DEF PInv, Types
      <4>4. Stored' = Stored
        BY <4>1 DEF Stored, tables
      <4>5. Sound(r)'
        BY <2>0, <4>1, <4>2, <4>3, <4>4
        DEF Sound, Mine, Batched, Early, Saving, tables
      <4>6. \A q \in Requests \ {r} : Frame(q)
        BY <4>1, <4>2, <4>3, <4>4 DEF Frame, tables
      <4>7. QED
        BY <4>5, <4>6, OthersSound
    <3>3. QED
      BY <3>1, <3>2
  <2>14. ASSUME NEW i \in DOMAIN work[r], NEW from, NEW to,
                Batch(r, i, from, to),
                promotion_products \subseteq promotion_products',
                /\ got'[r].about = got[r].about /\ got'[r].op = got[r].op
                /\ got'[r].form = got[r].form
                /\ \A q \in Requests \ {r} : got'[q] = got[q],
                to.at = "adding" => Wanted(r, i) \subseteq to.ids,
                Mine(r) /\ to.at = "added" =>
                    (i \in DOMAIN got[r].form.batches =>
                        {r} \X Wanted(r, i) \subseteq promotion_products')
         PROVE  AllSound'
    <3>1. /\ pc[r] = "batches"
          /\ UNCHANGED <<products, promotions, pc, removed>>
          /\ work' = [work EXCEPT ![r][i] = to]
      BY <2>14 DEF Batch
    <3>2. /\ DOMAIN work'[r] = DOMAIN work[r] /\ work'[r][i] = to
          /\ \A j \in DOMAIN work[r] \ {i} : work'[r][j] = work[r][j]
          /\ \A q \in Requests \ {r} : work'[q] = work[q]
      BY <3>1, <2>14 DEF PInv, Types
    <3>3. Stored' = Stored
      BY <3>1 DEF Stored
    <3>4. ASSUME Mine(r), NEW j \in DOMAIN got[r].form.batches
          PROVE  Batched(r, j)'
      <4>1. Batched(r, j)
        BY <2>0, <3>1, <3>4 DEF Sound
      <4>2. Wanted(r, j)' = Wanted(r, j)
        BY <2>14, <3>1 DEF Wanted
      <4>3. CASE j = i
        BY <2>14, <3>2, <3>4, <4>1, <4>2, <4>3 DEF Batched
      <4>4. CASE j # i
        BY <2>14, <3>2, <4>1, <4>2, <4>4 DEF Batched
      <4>5. QED
        BY <4>3, <4>4
    <3>5. Sound(r)'
      BY <2>0, <2>14, <3>1, <3>3, <3>4 DEF Sound, Mine, Early, Saving
    <3>6. \A q \in Requests \ {r} : Frame(q)
      BY <2>14, <3>1, <3>2, <3>3 DEF Frame
    <3>7. QED
      BY <3>5, <3>6, OthersSound
  <2>15. ASSUME NEW i \in DOMAIN work[r],
                \/ Acquire(r, i) \/ ReadProductIDs(r, i) \/ AddProducts(r, i)
                \/ FailBatch(r, i)
         PROVE  AllSound'
    <3>1. CASE Acquire(r, i)
      BY <2>14, <3>1 DEF Acquire
    <3>2. CASE ReadProductIDs(r, i)
      BY <2>14, <3>2 DEF ReadProductIDs, Wanted
    <3>3. CASE AddProducts(r, i)
      <4>1. /\ pc[r] = "batches" /\ work[r][i].at = "adding"
            /\ promotion_products' = promotion_products \union Pairs(r, i)
        BY <3>3 DEF AddProducts, Batch
      <4>2. ASSUME Mine(r), i \in DOMAIN got[r].form.batches
            PROVE  {r} \X Wanted(r, i) \subseteq promotion_products'
        <5>1. Batched(r, i)
          BY <2>0, <4>1, <4>2 DEF Sound
        <5>2. QED
          BY <4>1, <4>2, <5>1 DEF Batched, Pairs, Mine
      <4>3. QED
        BY <2>14, <3>3, <4>1, <4>2 DEF AddProducts
    <3>4. CASE FailBatch(r, i)
      <4>1. /\ got'[r].about = got[r].about /\ got'[r].op = got[r].op
            /\ got'[r].form = got[r].form
            /\ \A q \in Requests \ {r} : got'[q] = got[q]
        BY <2>0, <3>4 DEF FailBatch, PInv, Types, Asks
      <4>2. QED
        BY <2>14, <3>4, <4>1 DEF FailBatch
    <3>5. QED
      BY <2>15, <3>1, <3>2, <3>3, <3>4
  <2>16. QED
    BY <1>2, <2>2, <2>3, <2>4, <2>5, <2>6, <2>8, <2>9, <2>10, <2>11, <2>12,
       <2>13, <2>15 DEF Progress
<1>3. ASSUME UNCHANGED <<promotions, pc, got, work, removed>>,
             products' \subseteq products,
             \A q \in Requests, x \in products' :
                 <<q, x>> \in promotion_products =>
                     <<q, x>> \in promotion_products'
      PROVE  AllSound'
  <2>1. Stored' = Stored
    BY <1>3 DEF Stored
  <2>2. \A q \in Requests : Frame(q)
    BY <1>3, <2>1 DEF Frame
  <2>3. QED
    BY <2>2, FrameKeepsSound DEF PInv, AllSound
<1>4. CASE ProductDeleted
  <2>1. PICK x \in products :
            /\ products' = products \ {x}
            /\ promotion_products' = {y \in promotion_products : y[2] # x}
            /\ UNCHANGED <<promotions, pc, got, work, removed>>
    BY <1>4 DEF ProductDeleted
  <2>2. QED
    BY <1>3, <2>1
<1>5. CASE Tick \/ UNCHANGED vars
  BY <1>3, <1>5 DEF Tick, vars, tables
<1>6. QED
  BY <1>1, <1>2, <1>4, <1>5 DEF Next

-----------------------------------------------------------------------------
(* The images.  An edit deletes the path that it read from the row of a     *)
(* promotion, at a time when the row may be gone and the path may be that   *)
(* of another one.  The pairs of uploads tell whose path it is: what an     *)
(* edit deletes was uploaded for the promotion that it is about, and every  *)
(* image that is stored or about to be for its own promotion, so that the   *)
(* two are of one promotion, or the path had two uploads.                   *)

\* What is known of the images when r is about to take a step.
Imaged(r) ==
    /\ pc[r] \in {"verify", "find"} => got[r].about = None
    /\ pc[r] = "insert" => /\ <<got[r].path, r>> \in uploads
                           /\ got[r].path \in s3 \union Shared
    /\ pc[r] \in {"upload", "unlink"} /\ got[r].about # None =>
           /\ <<got[r].old, got[r].about>> \in uploads
           /\ got[r].about \in Requests => pc[got[r].about] \notin Early

\* The inductive invariant of the images.
ImageInv ==
    /\ \A p \in Stored : <<promotions[p].image, p>> \in uploads
    /\ ImagesThere
    /\ \A r \in Requests : Imaged(r)

\* A path that was uploaded for two things is shared.
LEMMA TwoShare ==
    ASSUME PInv, NEW x, NEW i, NEW j, i # j,
           <<x, i>> \in uploads, <<x, j>> \in uploads
    PROVE  x \in Shared
<1>1. uploads \subseteq Paths \X Ids
  BY DEF PInv, Types, TypeOK
<1>2. x \in Paths /\ i \in Ids /\ j \in Ids
  BY <1>1
<1>3. {<<x, i>>, <<x, j>>} \subseteq uploads
  OBVIOUS
<1>4. QED
  BY <1>2, <1>3 DEF Shared

\* A step of r keeps what is known of the images where what it inserts is
\* there, and what it deletes is what it read.
LEMMA ImageFrame ==
    ASSUME PInv, ImageInv, NEW r \in Requests,
           \A q \in Requests \ {r} : pc'[q] = pc[q] /\ got'[q] = got[q],
           pc[r] \notin Early => pc'[r] \notin Early,
           uploads \subseteq uploads', edited \subseteq edited',
           \A p \in Stored' :
               \/ p \in Stored /\ promotions'[p].image = promotions[p].image
               \/ /\ p = r /\ <<promotions'[p].image, r>> \in uploads'
                  /\ promotions'[p].image \in (s3 \union Shared)',
           \A x \in s3 \ s3' : /\ pc[r] = "unlink" /\ x = got[r].old
                               /\ got[r].about \in edited',
           Imaged(r)'
    PROVE  ImageInv'
<1>1. Shared \subseteq Shared'
  BY DEF Shared
<1>2. ASSUME NEW x \in s3 \union Shared, NEW i, <<x, i>> \in uploads
      PROVE  x \in (s3 \union Shared)' \/ i \in edited'
  <2>1. CASE x \in s3 \ s3'
    <3>1. /\ pc[r] = "unlink" /\ x = got[r].old
          /\ got[r].about \in edited' /\ got[r].about # None
      BY <2>1 DEF PInv, AllSound, Sound
    <3>2. <<x, got[r].about>> \in uploads
      BY <3>1 DEF ImageInv, Imaged
    <3>3. QED
      BY <1>1, <1>2, <3>1, <3>2, TwoShare
  <2>2. QED
    BY <1>1, <2>1
<1>3. ASSUME NEW p \in Stored'
      PROVE  /\ <<promotions'[p].image, p>> \in uploads'
             /\ promotions'[p].image \in (s3 \union Shared)' \/ p \in edited'
  <2>1. CASE p \in Stored /\ promotions'[p].image = promotions[p].image
    <3>1. <<promotions[p].image, p>> \in uploads
      BY <2>1 DEF ImageInv
    <3>2. promotions[p].image \in s3 \union Shared \/ p \in edited
      BY <2>1 DEF ImageInv, ImagesThere
    <3>3. QED
      BY <1>2, <2>1, <3>1, <3>2
  <2>2. QED
    BY <1>3, <2>1
<1>4. ASSUME NEW q \in Requests \ {r}
      PROVE  Imaged(q)'
  <2>1. Imaged(q) /\ pc'[q] = pc[q] /\ got'[q] = got[q]
    BY DEF ImageInv
  <2>2. ASSUME pc[q] = "insert"
        PROVE  got[q].path \in (s3 \union Shared)'
    <3>1. CASE pc[r] = "unlink"
      <4>1. <<got[q].path, q>> \in uploads
        BY <2>1, <2>2 DEF Imaged
      <4>2. /\ got[r].about # None
            /\ <<got[r].old, got[r].about>> \in uploads
            /\ got[r].about # q
        BY <2>2, <3>1 DEF PInv, AllSound, Sound, ImageInv, Imaged, Early
      <4>3. got[q].path = got[r].old => got[q].path \in Shared
        BY <4>1, <4>2, TwoShare
      <4>4. QED
        BY <1>1, <2>1, <2>2, <4>3 DEF Imaged
    <3>2. CASE pc[r] # "unlink"
      BY <1>1, <2>1, <2>2, <3>2 DEF Imaged
    <3>3. QED
      BY <3>1, <3>2
  <2>3. \A a \in Requests : pc[a] \notin Early => pc'[a] \notin Early
    OBVIOUS
  <2>4. QED
    BY <2>1, <2>2, <2>3 DEF Imaged
<1>5. QED
  BY <1>3, <1>4 DEF ImageInv, ImagesThere

\* A step that touches nothing but the progress of r.
LEMMA ImageOfStep ==
    ASSUME PInv, ImageInv, NEW r \in Requests, NEW from,
           NEW holds \in Asks, NEW to \in Pcs, Step(r, from, to, holds),
           from \notin Early => to \notin Early,
           to \notin {"insert", "unlink"},
           to \in {"verify", "find"} => holds.about = None,
           to = "upload" /\ holds.about # None =>
               /\ <<holds.old, holds.about>> \in uploads
               /\ holds.about \in Requests => pc[holds.about] \notin Early
    PROVE  ImageInv'
<1>1. /\ pc[r] = from /\ pc'[r] = to
      /\ \A q \in Requests \ {r} : pc'[q] = pc[q]
      /\ UNCHANGED <<promotions, s3, uploads, edited>>
  BY DEF Step, Go, PInv, Types, TypeOK, tables
<1>2. /\ \A q \in Requests \ {r} : got'[q] = got[q]
      /\ to \notin Done => got'[r] = holds
  BY Holds DEF Step, PInv
<1>3. \A a \in Requests : pc[a] \notin Early => pc'[a] \notin Early
  BY <1>1
<1>4. Imaged(r)'
  BY <1>1, <1>2, <1>3 DEF Imaged, Done
<1>5. Stored' = Stored
  BY <1>1 DEF Stored
<1>6. QED
  BY <1>1, <1>2, <1>4, <1>5, ImageFrame

\* Every step keeps the images.
LEMMA ImageStep ==
    ASSUME PInv, ImageInv, [Next]_vars
    PROVE  ImageInv'
<1>0. /\ {"verify", "find", "upload", "statement", "existing", "failed", "ok"}
             \subseteq Pcs
      /\ {"idle", "verify", "find", "update"} \subseteq Early
      /\ "failed" \notin Early /\ "ok" \notin Early
  BY DEF Pcs, Done, Early
<1>1. ASSUME NEW r \in Requests, Requested(r)
      PROVE  ImageInv'
  <2>1. ASSUME NEW asks \in Asks, asks.about = None, Begin(r, asks)
        PROVE  ImageInv'
    BY <1>0, <2>1, ImageOfStep DEF Begin
  <2>2. Slugs \in SUBSET (Titles \X Nat)
    <3>1. \A p \in Stored : promotions[p].slug \in Titles \X Nat
      BY DEF PInv, Types, TypeOK, Row
    <3>2. QED
      BY <3>1 DEF Slugs
  <2>3. \A f \in Forms, slugs \in SUBSET (Titles \X Nat) :
            LET asks == [Nothing EXCEPT !.op = "save", !.form = f,
                                        !.slugs = slugs]
            IN  asks \in Asks /\ asks.about = None
    BY DEF Nothing, Asks, Ops
  <2>4. \A op \in Ops, slugs \in SUBSET (Titles \X Nat) :
            LET asks == [Nothing EXCEPT !.op = op, !.slugs = slugs]
            IN  asks \in Asks /\ asks.about = None
    BY DEF Nothing, Asks
  <2>5. QED
    BY <1>1, <2>1, <2>2, <2>3, <2>4
    DEF Requested, CreateOrEditV2Promotion, DeletePromotion, DeletePromotions,
        ArchivePromotions, DraftPromotions, ActivatePromotions, Bulk, Ops,
        Statuses
<1>2. ASSUME NEW r \in Requests, Progress(r)
      PROVE  ImageInv'
  <2>0. /\ got[r] \in Asks /\ Imaged(r) /\ Sound(r)
        /\ [got[r] EXCEPT !.fault = TRUE] \in Asks
        /\ \A p \in Stored :
              [got[r] EXCEPT !.about = p, !.old = promotions[p].image] \in Asks
    <3>1. got[r] \in Asks
      BY DEF PInv, Types
    <3>2. \A p \in Stored : p \in Ids /\ promotions[p].image \in Paths
      BY DEF PInv, Types, TypeOK, Row, Stored
    <3>3. QED
      BY <3>1, <3>2 DEF Asks, ImageInv, PInv, AllSound
  <2>1. ASSUME NEW from, GiveUp(r, from)
        PROVE  ImageInv'
    BY <1>0, <2>0, <2>1, ImageOfStep DEF GiveUp
  <2>2. CASE VerifyAdminStatus(r)
    <3>1. CASE GiveUp(r, "verify")
      BY <2>1, <3>1
    <3>2. CASE ~GiveUp(r, "verify")
      <4> DEFINE to == IF got[r].op # "save" THEN "statement"
                       ELSE IF got[r].slugs = {} THEN "upload" ELSE "find"
      <4>1. Step(r, "verify", to, got[r]) /\ pc[r] = "verify"
        BY <2>2, <3>2 DEF VerifyAdminStatus, Step, Go
      <4>2. got[r].about = None
        BY <2>0, <4>1 DEF Imaged
      <4>3. to \in {"statement", "upload", "find"}
        OBVIOUS
      <4> HIDE DEF to
      <4>4. QED
        BY <1>0, <2>0, <4>1, <4>2, <4>3, ImageOfStep
    <3>3. QED
      BY <3>1, <3>2
  <2>3. CASE FindPromotion(r)
    <3>1. CASE GiveUp(r, "find")
      BY <2>1, <3>1
    <3>2. CASE Step(r, "find", "upload", got[r])
      <4>1. got[r].about = None
        BY <2>0, <3>2 DEF Imaged, Step, Go
      <4>2. QED
        BY <1>0, <2>0, <3>2, <4>1, ImageOfStep
    <3>3. ASSUME NEW p \in Stored,
                 Step(r, "find", "upload",
                      [got[r] EXCEPT !.about = p,
                                     !.old = promotions[p].image])
          PROVE  ImageInv'
      <4> DEFINE holds == [got[r] EXCEPT !.about = p,
                                         !.old = promotions[p].image]
      <4>1. /\ holds \in Asks
            /\ holds.about = p /\ holds.old = promotions[p].image
        BY <2>0 DEF Asks
      <4>2. <<holds.old, holds.about>> \in uploads
        BY <4>1 DEF ImageInv
      <4>3. p \in Requests => pc[p] \notin Early
        BY DEF PInv, AllSound, Sound, Stored
      <4>4. Step(r, "find", "upload", holds)
        BY <3>3
      <4> HIDE DEF holds
      <4>5. QED
        BY <1>0, <4>1, <4>2, <4>3, <4>4, ImageOfStep
    <3>4. QED
      BY <2>3, <3>1, <3>2, <3>3 DEF FindPromotion, GetPromotionBySlug
  <2>4. CASE UpdatePromotion(r)
    <3>1. CASE GiveUp(r, "update")
      BY <2>1, <3>1
    <3>2. CASE ~GiveUp(r, "update")
      <4>1. \/ Step(r, "update", "failed", got[r])
            \/ Step(r, "update", "existing", got[r])
        BY <2>4, <3>2 DEF UpdatePromotion
      <4>2. QED
        BY <1>0, <2>0, <4>1, ImageOfStep
    <3>3. QED
      BY <3>1, <3>2
  <2>5. CASE Wait(r)
    <3>1. \/ Step(r, "batches", "failed", got[r])
          \/ Step(r, "batches", "ok", got[r])
      BY <2>5 DEF Wait
    <3>2. QED
      BY <1>0, <2>0, <3>1, ImageOfStep
  <2>6. CASE StatementFails(r)
    BY <2>1, <2>6 DEF StatementFails
  <2>7. ASSUME Held(r, "ok", got[r]), Go(r, "statement", "ok"),
               UNCHANGED <<s3, edited, uploads>>,
               \A p \in Stored' : p \in Stored /\ promotions'[p].image
                                                  = promotions[p].image
        PROVE  ImageInv'
    <3>1. /\ pc'[r] = "ok"
          /\ \A q \in Requests \ {r} : pc'[q] = pc[q]
      BY <2>7 DEF Go, PInv, Types, TypeOK
    <3>2. \A q \in Requests \ {r} : got'[q] = got[q]
      BY <2>0, <2>7, Holds DEF PInv
    <3>3. Imaged(r)' /\ pc'[r] \notin Early
      BY <3>1 DEF Imaged, Early
    <3>4. QED
      BY <2>7, <3>1, <3>2, <3>3, ImageFrame
  <2>8. CASE DeleteStatement(r)
    <3>1. \A p \in Stored' : p \in Stored /\ promotions'[p].image
                                              = promotions[p].image
      BY <2>8 DEF DeleteStatement, Stored
    <3>2. QED
      BY <2>7, <2>8, <3>1 DEF DeleteStatement
  <2>9. CASE StatusStatement(r)
    <3>1. \A p \in Stored' : p \in Stored /\ promotions'[p].image
                                              = promotions[p].image
      <4>1. \A p \in Stored :
                [promotions[p] EXCEPT !.status = got[r].op].image
                    = promotions[p].image
        BY DEF PInv, Types, TypeOK, Row
      <4>2. QED
        BY <2>9, <4>1 DEF StatusStatement, Stored, Named
    <3>2. QED
      BY <2>7, <2>9, <3>1 DEF StatusStatement
  <2>10. CASE UploadImage(r)
    <3>1. CASE GiveUp(r, "upload")
      BY <2>1, <3>1
    <3>2. CASE ~GiveUp(r, "upload")
      <4> DEFINE path == <<second, got[r].form.file>>
      <4>1. /\ pc[r] = "upload"
            /\ pc' = [pc EXCEPT ![r] = IF got[r].about = None THEN "insert"
                                       ELSE "unlink"]
            /\ got' = [got EXCEPT ![r].path = path]
            /\ s3' = s3 \union {path}
            /\ uploads' = uploads \union {<<path, r>>}
            /\ UNCHANGED <<promotions, edited>>
        BY <2>10, <3>2 DEF UploadImage, Go, tables
      <4> HIDE DEF path
      <4>2. /\ got'[r].path = path /\ got'[r].about = got[r].about
            /\ got'[r].old = got[r].old
            /\ \A q \in Requests \ {r} : got'[q] = got[q]
        BY <2>0, <4>1 DEF PInv, Types, Asks
      <4>3. /\ pc'[r] = IF got[r].about = None THEN "insert" ELSE "unlink"
            /\ \A q \in Requests \ {r} : pc'[q] = pc[q]
        BY <4>1 DEF PInv, Types, TypeOK
      <4>4. \A a \in Requests : pc[a] \notin Early => pc'[a] \notin Early
        BY <4>1, <4>3 DEF Early
      <4>5. Imaged(r)'
        <5>1. CASE got[r].about = None
          BY <4>1, <4>2, <4>3, <5>1 DEF Imaged
        <5>2. CASE got[r].about # None
          <6>1. /\ <<got[r].old, got[r].about>> \in uploads'
                /\ got[r].about \in Requests => pc'[got[r].about] \notin Early
            BY <2>0, <4>1, <4>4, <5>2 DEF Imaged
          <6>2. pc'[r] = "unlink"
            BY <4>3, <5>2
          <6>3. QED
            BY <4>2, <6>1, <6>2 DEF Imaged
        <5>3. QED
          BY <5>1, <5>2
      <4>6. Stored' = Stored
        BY <4>1 DEF Stored
      <4>7. QED
        BY <4>1, <4>2, <4>3, <4>4, <4>5, <4>6, ImageFrame
    <3>3. QED
      BY <3>1, <3>2
  <2>11. CASE DeleteOldImage(r)
    <3>1. CASE GiveUp(r, "unlink")
      BY <2>1, <3>1
    <3>2. CASE ~GiveUp(r, "unlink")
      <4>1. /\ pc[r] = "unlink" /\ pc' = [pc EXCEPT ![r] = "update"]
            /\ s3' = s3 \ {got[r].old}
            /\ edited' = edited \union {got[r].about}
            /\ UNCHANGED <<promotions, got, uploads>>
        BY <2>11, <3>2 DEF DeleteOldImage, Go, tables
      <4>2. /\ pc'[r] = "update"
            /\ \A q \in Requests \ {r} : pc'[q] = pc[q] /\ got'[q] = got[q]
        BY <4>1 DEF PInv, Types, TypeOK
      <4>3. Imaged(r)' /\ pc[r] \in Early
        BY <4>1, <4>2 DEF Imaged, Early
      <4>4. Stored' = Stored
        BY <4>1 DEF Stored
      <4>5. QED
        BY <4>1, <4>2, <4>3, <4>4, ImageFrame
    <3>3. QED
      BY <3>1, <3>2
  <2>12. CASE InsertPromotion(r)
    <3>1. CASE GiveUp(r, "insert")
      BY <2>1, <3>1
    <3>2. CASE ~GiveUp(r, "insert")
      <4>1. /\ pc[r] = "insert" /\ pc' = [pc EXCEPT ![r] = "existing"]
            /\ got' = [got EXCEPT ![r].about = r]
            /\ UNCHANGED <<s3, edited, uploads>>
        BY <2>12, <3>2 DEF InsertPromotion, Go
      <4>2. /\ \A p \in Ids \ {r} : promotions'[p] = promotions[p]
            /\ Stored' = Stored \union {r}
        BY <2>12, <3>2, InsertsRow
      <4>3. promotions'[r].image = got[r].path
        BY <2>12, <3>2 DEF InsertPromotion, PInv, Types, Ids
      <4>4. /\ pc'[r] = "existing"
            /\ \A q \in Requests \ {r} : pc'[q] = pc[q] /\ got'[q] = got[q]
        BY <4>1 DEF PInv, Types, TypeOK
      <4>5. Imaged(r)' /\ pc'[r] \notin Early
        BY <4>4 DEF Imaged, Early
      <4>6. Shared' = Shared
        BY <4>1 DEF Shared
      <4>7. ASSUME NEW p \in Stored'
            PROVE  \/ /\ p \in Stored
                      /\ promotions'[p].image = promotions[p].image
                   \/ /\ p = r /\ <<promotions'[p].image, r>> \in uploads'
                      /\ promotions'[p].image \in (s3 \union Shared)'
        <5>1. CASE p = r
          BY <2>0, <4>1, <4>3, <4>6, <5>1 DEF Imaged
        <5>2. CASE p # r
          BY <4>2, <5>2 DEF Stored
        <5>3. QED
          BY <5>1, <5>2
      <4>8. QED
        BY <4>1, <4>4, <4>5, <4>7, ImageFrame
    <3>3. QED
      BY <3>1, <3>2
  <2>13. ASSUME UNCHANGED <<promotions, s3, edited, uploads>>,
                pc[r] \in {"existing", "batches"},
                pc' = [pc EXCEPT ![r] = "batches"],
                \A q \in Requests \ {r} : got'[q] = got[q]
         PROVE  ImageInv'
    <3>1. /\ pc'[r] = "batches"
          /\ \A q \in Requests \ {r} : pc'[q] = pc[q]
      BY <2>13 DEF PInv, Types, TypeOK
    <3>2. Imaged(r)' /\ pc'[r] \notin Early
      BY <3>1 DEF Imaged, Early
    <3>3. Stored' = Stored
      BY <2>13 DEF Stored
    <3>4. QED
      BY <2>13, <3>1, <3>2, <3>3, ImageFrame
  <2>14. CASE ReadExisting(r)
    <3>1. CASE GiveUp(r, "existing")
      BY <2>1, <3>1
    <3>2. CASE ~GiveUp(r, "existing")
      BY <2>13, <2>14, <3>2 DEF ReadExisting, Go, tables
    <3>3. QED
      BY <3>1, <3>2
  <2>15. ASSUME NEW i \in DOMAIN work[r],
                \/ Acquire(r, i) \/ ReadProductIDs(r, i) \/ AddProducts(r, i)
                \/ FailBatch(r, i)
         PROVE  ImageInv'
    <3>1. /\ UNCHANGED <<promotions, s3, edited, uploads, pc>>
          /\ pc[r] = "batches"
          /\ got' = got \/ got' = [got EXCEPT ![r].fault = TRUE]
      BY <2>15 DEF Acquire, ReadProductIDs, AddProducts, FailBatch, Batch
    <3>2. pc' = [pc EXCEPT ![r] = "batches"]
      BY <3>1 DEF PInv, Types, TypeOK
    <3>3. \A q \in Requests \ {r} : got'[q] = got[q]
      BY <3>1 DEF PInv, Types
    <3>4. QED
      BY <2>13, <3>1, <3>2, <3>3
  <2>16. QED
    BY <1>2, <2>2, <2>3, <2>4, <2>5, <2>6, <2>8, <2>9, <2>10, <2>11, <2>12,
       <2>14, <2>15 DEF Progress
<1>3. CASE ProductDeleted \/ Tick \/ UNCHANGED vars
  <2>1. UNCHANGED <<promotions, s3, edited, uploads, pc, got>>
    BY <1>3 DEF ProductDeleted, Tick, vars, tables
  <2>2. Stored' = Stored /\ Shared' = Shared
    BY <2>1 DEF Stored, Shared
  <2>3. QED
    BY <2>1, <2>2 DEF ImageInv, ImagesThere, Imaged
<1>4. QED
  BY <1>1, <1>2, <1>3 DEF Next

\* At first every image is there, and is that of its promotion.
LEMMA InitImageInv == Init => ImageInv
<1> SUFFICES ASSUME Init
             PROVE  ImageInv
  OBVIOUS
<1>1. Stored = Stored0 /\ \A p \in Stored0 : promotions[p] = FirstRows[p]
  BY PromotionsAssumption DEF Init, Stored, Ids
<1>2. \A r \in Requests : Imaged(r)
  BY DEF Init, Imaged, Nothing
<1>3. QED
  BY <1>1, <1>2 DEF Init, ImageInv, ImagesThere

-----------------------------------------------------------------------------
(* The lists.                                                              *)

\* What a product counts for in the list of the administrators.
Counts(x) == IF Discounts[x] = 0 THEN 1 ELSE Discounts[x]

\* The number of products of a promotion with a single product is what that
\* product counts for.
LEMMA NumberOfOne ==
    ASSUME NEW p, NEW x \in Products, GetProductIDsByPromotionID(p) = {x}
    PROVE  NumberOfProducts(p) = Counts(x)
<1> DEFINE next(g) ==
              [s \in SUBSET {x} |->
                  IF s = {} THEN 0
                  ELSE LET y == CHOOSE z \in s : TRUE
                       IN  (IF Discounts[y] = 0 THEN 1 ELSE Discounts[y])
                               + g[s \ {y}]]
           sum == [s \in SUBSET {x} |-> IF s = {} THEN 0 ELSE Counts(x)]
           iter == CHOOSE g : g = next(g)
<1>1. NumberOfProducts(p) = iter[{x}]
  BY DEF NumberOfProducts, MapThenSumSet, MapThenFoldSet
<1>2. Counts(x) \in Nat
  BY PromotionsAssumption DEF Counts
<1>3. (CHOOSE z \in {x} : TRUE) = x
  OBVIOUS
<1>4. sum = next(sum)
  <2>1. ASSUME NEW s \in SUBSET {x}
        PROVE  sum[s] = next(sum)[s]
    <3>1. CASE s = {}
      BY <3>1
    <3>2. CASE s = {x}
      BY <1>2, <1>3, <3>2 DEF Counts
    <3>3. QED
      BY <3>1, <3>2
  <2>2. QED
    BY <2>1
<1>5. iter = next(iter)
  BY <1>4
<1>6. iter[{x}] = Counts(x) + iter[{}] /\ iter[{}] = 0
  <2> HIDE DEF iter
  <2>1. iter[{x}] = next(iter)[{x}] /\ iter[{}] = next(iter)[{}]
    BY <1>5
  <2>2. QED
    BY <1>3, <2>1 DEF Counts
<1>7. QED
  BY <1>1, <1>2, <1>6

-----------------------------------------------------------------------------
(* The theorems.                                                           *)

LEMMA InitPInv == Init => PInv
<1> SUFFICES ASSUME Init
             PROVE  PInv
  OBVIOUS
<1>1. /\ \A p \in Stored0 : promotions[p] = FirstRows[p] /\ p \in Ids
      /\ promotions = [p \in Ids |-> promotions[p]]
      /\ \A r \in Requests : promotions[r] = None
  BY PromotionsAssumption DEF Init, Ids
<1>2. Stored = Stored0
  BY <1>1, PromotionsAssumption DEF Stored, Ids
<1>3. \A p \in Stored0 : promotions[p] \in Row /\ promotions[p].image \in Paths
  BY <1>1, PromotionsAssumption DEF Row
<1>4. /\ promotion_products \subseteq Stored0 \X products
      /\ products \subseteq Products
  BY PromotionsAssumption DEF Init
<1>5. /\ s3 \subseteq Paths /\ second \in 0..LastSecond
      /\ uploads \subseteq Paths \X Ids
  <2>1. s3 = {FirstRows[p].image : p \in Stored0}
    BY DEF Init
  <2>2. \A p \in Stored0 : FirstRows[p].image \in Paths
    BY <1>1, <1>3
  <2>3. s3 \subseteq Paths
    BY <2>1, <2>2
  <2>4. second = 0 /\ LastSecond \in Nat
    BY PromotionsAssumption DEF Init
  <2>5. uploads \subseteq Paths \X Ids
    BY <1>1, <1>3 DEF Init
  <2>6. QED
    BY <2>3, <2>4, <2>5
<1>6. TypeOK
  <2>1. \A p, q \in Stored :
            promotions[p].slug = promotions[q].slug => p = q
    BY <1>1, <1>2, PromotionsAssumption
  <2>2. pc \in [Requests -> Pcs] /\ removed \union edited = {}
    BY DEF Init, Pcs
  <2>3. QED
    BY <1>2, <1>3, <1>4, <1>5, <2>1, <2>2 DEF TypeOK, Pcs
<1>7. Nothing \in Asks
  BY DEF Nothing, Asks, Ops
<1>8. /\ got \in [Requests -> Asks]
      /\ work = [r \in Requests |-> work[r]]
      /\ \A r \in Requests : work[r] \in [DOMAIN work[r] -> Jobs]
  BY <1>7 DEF Init
<1>9. AllSound
  <2>1. ASSUME NEW r \in Requests
        PROVE  Sound(r)
    <3>1. pc[r] = "idle" /\ got[r].about = None
      BY DEF Init, Nothing
    <3>2. None # r
      BY PromotionsAssumption DEF Ids
    <3>3. QED
      BY <1>1, <3>1, <3>2 DEF Sound, Early, Saving
  <2>2. QED
    BY <2>1 DEF AllSound
<1>10. QED
  BY <1>1, <1>6, <1>8, <1>9 DEF PInv, Types

LEMMA PInvInductive == PInv /\ [Next]_vars => PInv'
BY TypesStep, SoundStep DEF PInv

LEMMA PInvHolds == Spec => []PInv
BY InitPInv, PInvInductive, PTL DEF Spec

\* The rows keep their types and the constraints of the tables: every new slug
\* differs from those stored, whichever requests insert at the same time, and
\* no pair outlives its promotion or its product.
THEOREM PromotionsTyped == Spec => []TypeOK
<1>1. PInv => TypeOK
  BY DEF PInv, Types
<1>2. QED
  BY <1>1, PInvHolds, PTL

\* A promotion that was answered as created has the products of its form, for
\* any number of batches, places of the semaphore and requests.
THEOREM PromotionsWhole == Spec => []CreatedWhole
BY WholeFromSound, PInvHolds, PTL

\* The image of a promotion is in S3, for any number of requests that upload,
\* edit and delete at the same time, unless an edit found the promotion or the
\* path had two uploads.
THEOREM PromotionImagesThere == Spec => []ImagesThere
<1>1. PInv /\ ImageInv /\ [Next]_vars => PInv' /\ ImageInv'
  BY PInvInductive, ImageStep
<1>2. ImageInv => ImagesThere
  BY DEF ImageInv
<1>3. QED
  BY <1>1, <1>2, InitPInv, InitImageInv, PTL DEF Spec

\* The shop and the administrators see the same promotions of a single product,
\* whatever the tables hold: a promotion that leads to one is a feature, unless
\* the product has several discounts, and its details can be shown.
THEOREM PromotionViewsAgree == Spec => []ViewsAgree
<1>1. ViewsAgree
  <2> SUFFICES ASSUME NEW p \in Stored, GetPromotions[p] # None
               PROVE  /\ GetV2Promotions[p].type = "feature"
                             \/ Discounts[GetPromotions[p]] > 1
                      /\ p \in GetPromotionDetails(promotions[p].slug)
    BY DEF ViewsAgree
  <2> DEFINE xs == GetProductIDsByPromotionID(p)
  <2>1. /\ Cardinality(xs) = 1
        /\ GetPromotions[p] = CHOOSE x \in xs : TRUE
    BY DEF GetPromotions, ProductSlug
  <2>2. IsFiniteSet(xs)
    BY PromotionsAssumption, FS_Subset DEF GetProductIDsByPromotionID
  <2>3. PICK x : xs = {x}
    BY <2>1, <2>2, FS_Singleton
  <2>4. x \in Products /\ GetPromotions[p] = x
    BY <2>1, <2>3 DEF GetProductIDsByPromotionID
  <2>5. GetV2Promotions[p].type = IF Counts(x) = 1 THEN "feature" ELSE "sale"
    BY <2>3, <2>4, NumberOfOne DEF GetV2Promotions
  <2>6. Counts(x) = 1 \/ Discounts[x] > 1
    BY <2>4, PromotionsAssumption DEF Counts
  <2>7. p \in GetPromotionDetails(promotions[p].slug)
    BY <2>3 DEF GetPromotionDetails
  <2>8. QED
    BY <2>4, <2>5, <2>6, <2>7
<1>2. QED
  BY <1>1, PTL
=============================================================================
