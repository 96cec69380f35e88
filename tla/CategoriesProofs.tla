-------------------------- MODULE CategoriesProofs --------------------------
(***************************************************************************)
(* Proofs about Categories, for any categories, requests, limits and       *)
(* retries.                                                                *)
(***************************************************************************)
EXTENDS Categories, FiniteSetTheorems, NaturalsInduction,
        WellFoundedInduction, TLAPS

Act(r) == Request(r) \/ Read(r) \/ Save(r)

\* Every request has its progress.
Domains ==
    /\ DOMAIN pc = Requests /\ DOMAIN body = Requests
    /\ DOMAIN got = Requests /\ DOMAIN tries = Requests
    /\ DOMAIN made = Requests

USE DEF Go

\* What a request may do to what it keeps of its own.
Frame(r) ==
    /\ Domains'
    /\ \A q \in Requests \ {r} :
          /\ pc'[q] = pc[q] /\ body'[q] = body[q] /\ got'[q] = got[q]
          /\ made'[q] = made[q]

LEMMA StepFrame ==
    ASSUME Domains, NEW r \in Requests, NEW from, NEW to, NEW value,
           Step(r, from, to, value)
    PROVE  Frame(r)
  BY DEF Step, Domains, Frame, ghosts

LEMMA BeginFrame ==
    ASSUME Domains, NEW r \in Requests, NEW b, NEW step, Begin(r, b, step)
    PROVE  Frame(r)
  BY DEF Begin, Domains, Frame, ghosts

LEMMA RequestFrame ==
    ASSUME Domains, NEW r \in Requests, Request(r)
    PROVE  Frame(r)
  BY BeginFrame
     DEF Request, CreateCategoryHandler, UploadCategoryImageHandler,
         SoftDeleteCategoryHandler, DeleteCategoryHandler,
         BatchUpdateCategoryPositionsHandler, GetCategoryDetailsHandler,
         GetCategoryHierarchyStatsHandler, GetDirectChildrenWithStatsHandler,
         GetPopularCategoriesHandler

LEMMA ReadFrame ==
    ASSUME Domains, NEW r \in Requests, Read(r)
    PROVE  Frame(r)
  <1>1. CASE Set(r)
    BY <1>1 DEF Set, Domains, Frame
  <1> QED
    BY <1>1, StepFrame
       DEF Read, Get, FetchDetails, FetchPopular, FetchChildren, CountChild,
           FetchStats, CountStats

LEMMA TransactionFrame ==
    ASSUME Domains, NEW r \in Requests, NEW next, Transaction(r, next)
    PROVE  Frame(r) /\ s3' = s3 /\ deleting' = deleting /\ cache' = cache
  <1>1. CASE InsertCategory(r, next)
    BY <1>1 DEF InsertCategory, Wrote, Domains, Frame
  <1>2. CASE EditCategory(r, next)
    BY <1>2 DEF EditCategory, Wrote, Domains, Frame
  <1>3. CASE SetImage(r, next)
    BY <1>3 DEF SetImage, Wrote, Domains, Frame
  <1>4. CASE RemoveCategory(r, next)
    BY <1>4 DEF RemoveCategory, Wrote, Domains, Frame
  <1> QED BY <1>1, <1>2, <1>3, <1>4 DEF Transaction

LEMMA SaveFrame ==
    ASSUME Domains, NEW r \in Requests, Save(r)
    PROVE  Frame(r)
  <1>1. CASE HandleCategoryImage(r)
    BY <1>1, StepFrame DEF HandleCategoryImage, Domains, Frame, ghosts
  <1>2. CASE UploadImage(r)
    BY <1>2, StepFrame DEF UploadImage, Domains, Frame, ghosts
  <1>3. CASE Commit(r) \/ CommitUnanswered(r)
    BY <1>3, TransactionFrame DEF Commit, CommitUnanswered
  <1>4. CASE Retry(r) \/ GiveUp(r)
    BY <1>4 DEF Retry, GiveUp, Domains, Frame, ghosts
  <1>5. CASE SoftDelete(r) \/ BatchUpdatePositions(r)
    BY <1>5 DEF SoftDelete, BatchUpdatePositions, Wrote, Domains, Frame
  <1>6. CASE InvalidateAll(r) \/ InvalidateCategories(r)
    BY <1>6 DEF InvalidateAll, InvalidateCategories, Drop, Domains, Frame
  <1>7. CASE \/ VerifyAdminStatus(r) \/ LookupSlug(r) \/ ReadExisting(r)
             \/ CheckExistence(r) \/ StatementFails(r)
    BY <1>7, StepFrame
       DEF VerifyAdminStatus, LookupSlug, ReadExisting, CheckExistence,
           StatementFails
  <1> QED BY <1>1, <1>2, <1>3, <1>4, <1>5, <1>6, <1>7 DEF Save

\* A request keeps its hands off what the others keep.
LEMMA ActFrame ==
    ASSUME Domains, NEW r \in Requests, Act(r)
    PROVE  Frame(r)
  BY RequestFrame, ReadFrame, SaveFrame DEF Act

\* The time to live and the goroutines touch no request.
LEMMA OthersFrame ==
    ASSUME Expire \/ DeleteFileFromS3 \/ UNCHANGED vars
    PROVE  UNCHANGED <<t, pc, body, got, tries, made, overtaken, overlapped,
                       moved>>
  BY DEF Expire, DeleteFileFromS3, Drop, vars, ghosts

-----------------------------------------------------------------------------
(* At most one category for a request: what execTx tries again has not     *)
(* inserted anything, and no step goes back to a transaction.              *)

Inserted(r) ==
    \/ made[r] = {}
    \/ /\ pc[r] \in {"flush", "ok", "failed"}
       /\ \E c \in Categories : made[r] = {c}

OInv == Domains /\ \A r \in Requests : Inserted(r)

LEMMA InsertsOnce ==
    ASSUME Domains, NEW r \in Requests, Inserted(r), Act(r)
    PROVE  Inserted(r)'
  <1>1. CASE made' = made
    <2>1. pc[r] \in {"flush", "ok", "failed"} =>
              pc'[r] \in {"flush", "ok", "failed"}
      <3>1. ~Request(r) \/ pc[r] = "idle"
        BY DEF Request, CreateCategoryHandler, UploadCategoryImageHandler,
               SoftDeleteCategoryHandler, DeleteCategoryHandler,
               BatchUpdateCategoryPositionsHandler, GetCategoryDetailsHandler,
               GetCategoryHierarchyStatsHandler,
               GetDirectChildrenWithStatsHandler, GetPopularCategoriesHandler,
               Begin
      <3>2. ~Read(r) \/ pc[r] \in Reading
        BY DEF Read, Get, Set, FetchDetails, FetchPopular, FetchChildren,
               CountChild, FetchStats, CountStats, Reading
      <3>3. CASE Save(r)
        BY <3>3
           DEF Save, VerifyAdminStatus, LookupSlug, ReadExisting,
               HandleCategoryImage, CheckExistence, UploadImage, Commit,
               Retry, GiveUp, CommitUnanswered, SoftDelete,
               BatchUpdatePositions, StatementFails, InvalidateAll,
               InvalidateCategories, InTransaction, Step, Domains
      <3> QED BY <3>1, <3>2, <3>3 DEF Act, Reading
    <2> QED BY <1>1, <2>1 DEF Inserted
  <1>2. CASE made' # made
    <2>1. Commit(r) \/ CommitUnanswered(r)
      BY <1>2
         DEF Act, Request, CreateCategoryHandler, UploadCategoryImageHandler,
             SoftDeleteCategoryHandler, DeleteCategoryHandler,
             BatchUpdateCategoryPositionsHandler, GetCategoryDetailsHandler,
             GetCategoryHierarchyStatsHandler,
             GetDirectChildrenWithStatsHandler, GetPopularCategoriesHandler,
             Begin, Read, Get, Set, FetchDetails, FetchPopular, FetchChildren,
             CountChild, FetchStats, CountStats, Save, VerifyAdminStatus,
             LookupSlug, ReadExisting, HandleCategoryImage, CheckExistence,
             UploadImage, Retry, GiveUp, SoftDelete, BatchUpdatePositions,
             StatementFails, InvalidateAll, InvalidateCategories, Step, ghosts
    <2>2. pc[r] = "write"
      BY <2>1 DEF Commit, CommitUnanswered, InTransaction
    <2>3. PICK next \in {"flush", "ok", "failed"} : Transaction(r, next)
      BY <2>1 DEF Commit, CommitUnanswered
    <2>4. InsertCategory(r, next)
      BY <1>2, <2>3 DEF Transaction, EditCategory, SetImage, RemoveCategory
    <2>5. PICK c \in Fresh : made' = [made EXCEPT ![r] = @ \union {c}]
      BY <2>4 DEF InsertCategory
    <2>6. pc'[r] = next
      BY <2>4 DEF InsertCategory, Wrote, Domains
    <2>7. made[r] = {}
      BY <2>2 DEF Inserted
    <2> QED BY <2>5, <2>6, <2>7 DEF Inserted, Domains, Fresh
  <1> QED BY <1>1, <1>2

LEMMA InitOInv == Init => OInv
  BY DEF Init, OInv, Domains, Inserted

LEMMA NextOInv == OInv /\ [Next]_vars => OInv'
  <1> SUFFICES ASSUME OInv, [Next]_vars PROVE OInv'
    OBVIOUS
  <1>1. ASSUME NEW r \in Requests, Act(r) PROVE OInv'
    <2>1. Frame(r)
      BY <1>1, ActFrame DEF OInv
    <2>2. Inserted(r)'
      BY <1>1, InsertsOnce DEF OInv
    <2> QED BY <2>1, <2>2 DEF OInv, Frame, Inserted
  <1>2. CASE Expire \/ DeleteFileFromS3 \/ UNCHANGED vars
    BY <1>2, OthersFrame DEF OInv, Domains, Inserted
  <1> QED BY <1>1, <1>2 DEF Next, Act

\* A request inserts one category at most, however often its transaction is
\* tried again, for any number of retries.
THEOREM InsertsAtMostOnce == Spec => []InsertedOnce
  <1>1. OInv => InsertedOnce
    <2> SUFFICES ASSUME OInv, NEW r \in Requests
                 PROVE  Cardinality(made[r]) <= 1
      BY DEF InsertedOnce
    <2>1. CASE made[r] = {}
      BY <2>1, FS_EmptySet
    <2>2. ASSUME NEW c \in Categories, made[r] = {c}
          PROVE  Cardinality(made[r]) <= 1
      <3>1. Cardinality({c}) = 1
        BY FS_Singleton
      <3> QED BY <2>2, <3>1
    <2> QED BY <2>1, <2>2 DEF OInv, Inserted
  <1> QED BY <1>1, InitOInv, NextOInv, PTL DEF Spec

-----------------------------------------------------------------------------
(* The cache.  What a reader holds is current as long as no write overtook *)
(* it, and so is what it leaves in the cache as long as no write came      *)
(* after.                                                                  *)

\* A reader works on a key of its kind.
KeyOK(r) ==
    pc[r] \in Reading =>
        \/ body[r].op = "details" /\ body[r].key[1] = "details"
        \/ body[r].op = "stats" /\ body[r].key[1] = "stats"
        \/ body[r].op = "children" /\ body[r].key[1] = "direct_children"
        \/ /\ body[r].op = "popular" /\ body[r].key[1] = "popular"
           /\ body[r].limit \in Limits

\* What the readers that take several queries have gathered so far.
HalfRead(r) ==
    pc[r] = "count" =>
        /\ body[r].op \in {"children", "stats"}
        /\ body[r].op = "children" /\ r \notin overtaken =>
              \E c \in GetCategoryBySlug(t, body[r].key[2]) :
                 /\ DOMAIN got[r] =
                       GetDirectChildrenCategories(t, c, body[r].key[3])
                 /\ \A d \in DOMAIN got[r] :
                       got[r][d] \in {-1, 0, GetCategoryStats(t, d).total}
        /\ body[r].op = "stats" =>
              /\ got[r] = [stats |-> got[r].stats,
                           children |-> got[r].children]
              /\ r \notin overtaken =>
                    /\ got[r].stats \in
                          {None, GetCategoryStats(t, body[r].key[2])}
                    /\ got[r].children \in
                          {None, GetAllChildrenCategoriesWithProductCount(
                                     t, body[r].key[2], body[r].key[3])}

FullyRead(r) ==
    pc[r] = "fill" /\ r \notin overtaken => Current(body[r].key, got[r])

ReaderOK(r) == KeyOK(r) /\ HalfRead(r) /\ FullyRead(r)

CInv ==
    /\ Domains
    /\ CachedIsCurrent
    /\ \A r \in Requests : ReaderOK(r)

\* A reader is not disturbed by what leaves the tables as they are.
LEMMA ReaderStays ==
    ASSUME NEW r \in Requests, ReaderOK(r), t' = t, overtaken' = overtaken,
           pc'[r] = pc[r], body'[r] = body[r], got'[r] = got[r]
    PROVE  ReaderOK(r)'
  <1>1. KeyOK(r)'
    BY DEF ReaderOK, KeyOK
  <1>2. HalfRead(r)'
    BY DEF ReaderOK, HalfRead
  <1>3. FullyRead(r)'
    BY DEF ReaderOK, FullyRead, Current
  <1> QED BY <1>1, <1>2, <1>3 DEF ReaderOK

\* One that has read something is overtaken by a write.
LEMMA ReaderOvertaken ==
    ASSUME NEW r \in Requests, ReaderOK(r),
           overtaken' = overtaken \union {q \in Requests :
                                             pc[q] \in {"count", "fill"}},
           pc'[r] = pc[r], body'[r] = body[r], got'[r] = got[r]
    PROVE  ReaderOK(r)'
  BY DEF ReaderOK, KeyOK, HalfRead, FullyRead

\* The writers are no readers.
LEMMA WriterOK ==
    ASSUME NEW r \in Requests, pc'[r] \notin Reading
    PROVE  ReaderOK(r)'
  BY DEF ReaderOK, KeyOK, HalfRead, FullyRead, Reading

\* Entries may go, and may be marked as outdated.
LEMMA CacheShrinks ==
    ASSUME CachedIsCurrent, t' = t, overtaken' = overtaken,
           NEW K, cache' = [k \in DOMAIN cache \ K |-> cache[k]],
           outdated' = outdated \ K
    PROVE  CachedIsCurrent'
  BY DEF CachedIsCurrent, Current

LEMMA CacheStays ==
    ASSUME CachedIsCurrent, t' = t, overtaken' = overtaken, cache' = cache,
           outdated' = outdated
    PROVE  CachedIsCurrent'
  BY DEF CachedIsCurrent, Current

\* A write marks every entry.
LEMMA CacheOutdated ==
    ASSUME cache' = cache, outdated' = DOMAIN cache
    PROVE  CachedIsCurrent'
  BY DEF CachedIsCurrent

LEMMA StepCaches ==
    ASSUME CachedIsCurrent, NEW r \in Requests, NEW from, NEW to, NEW value,
           Step(r, from, to, value)
    PROVE  CachedIsCurrent' /\ t' = t /\ overtaken' = overtaken
  BY CacheStays DEF Step, ghosts


\* A request that starts to read has the key of its kind.
LEMMA RequestReads ==
    ASSUME Domains, CachedIsCurrent, NEW r \in Requests, Request(r)
    PROVE  CachedIsCurrent' /\ ReaderOK(r)'
  <1>1. CachedIsCurrent'
    BY CacheStays
       DEF Request, CreateCategoryHandler, UploadCategoryImageHandler,
           SoftDeleteCategoryHandler, DeleteCategoryHandler,
           BatchUpdateCategoryPositionsHandler, GetCategoryDetailsHandler,
           GetCategoryHierarchyStatsHandler, GetDirectChildrenWithStatsHandler,
           GetPopularCategoriesHandler, Begin, ghosts
  <1>2. pc'[r] \notin {"count", "fill"} /\ KeyOK(r)'
    <2>1. CASE \/ CreateCategoryHandler(r) \/ UploadCategoryImageHandler(r)
               \/ SoftDeleteCategoryHandler(r) \/ DeleteCategoryHandler(r)
               \/ BatchUpdateCategoryPositionsHandler(r)
      BY <2>1
         DEF CreateCategoryHandler, UploadCategoryImageHandler,
             SoftDeleteCategoryHandler, DeleteCategoryHandler,
             BatchUpdateCategoryPositionsHandler, Begin, Domains, KeyOK,
             Reading
    <2>2. CASE GetCategoryDetailsHandler(r)
      BY <2>2 DEF GetCategoryDetailsHandler, Begin, Domains, KeyOK
    <2>3. CASE GetCategoryHierarchyStatsHandler(r)
      BY <2>3 DEF GetCategoryHierarchyStatsHandler, Begin, Domains, KeyOK
    <2>4. CASE GetDirectChildrenWithStatsHandler(r)
      BY <2>4 DEF GetDirectChildrenWithStatsHandler, Begin, Domains, KeyOK
    <2>5. CASE GetPopularCategoriesHandler(r)
      BY <2>5 DEF GetPopularCategoriesHandler, Begin, Domains, KeyOK
    <2> QED BY <2>1, <2>2, <2>3, <2>4, <2>5 DEF Request
  <1> QED BY <1>1, <1>2 DEF ReaderOK, HalfRead, FullyRead

\* The cache's answer, or the first query.
LEMMA GetReads ==
    ASSUME Domains, CachedIsCurrent, NEW r \in Requests, ReaderOK(r), Get(r)
    PROVE  CachedIsCurrent' /\ ReaderOK(r)'
  <1>1. PICK to, value :
           to \in {"ok", "fetch"} /\ Step(r, "find", to, value)
    BY DEF Get
  <1>2. CachedIsCurrent'
    BY <1>1, StepCaches
  <1>3. pc[r] = "find" /\ pc'[r] \in {"ok", "fetch"} /\ body' = body
    BY <1>1 DEF Step, Domains
  <1> QED
    BY <1>2, <1>3 DEF ReaderOK, KeyOK, HalfRead, FullyRead, Reading

\* A question answered in one query.
LEMMA FetchDetailsReads ==
    ASSUME Domains, CachedIsCurrent, NEW r \in Requests, ReaderOK(r),
           FetchDetails(r)
    PROVE  CachedIsCurrent' /\ ReaderOK(r)'
  <1>1. CASE Step(r, "fetch", "failed", None)
    BY <1>1, StepCaches, WriterOK DEF Step, Domains, Reading
  <1>2. ASSUME NEW row \in GetCategoryDetailsBySlug(t, body[r].key[2]),
               Step(r, "fetch", "fill", row)
        PROVE  CachedIsCurrent' /\ ReaderOK(r)'
    <2>1. CachedIsCurrent' /\ t' = t /\ overtaken' = overtaken
      BY <1>2, StepCaches
    <2>2. pc[r] = "fetch" /\ pc'[r] = "fill" /\ body' = body /\ got'[r] = row
      BY <1>2 DEF Step, Domains, Done
    <2>3. KeyOK(r)' /\ body[r].key[1] = "details"
      BY <2>2 DEF ReaderOK, KeyOK, Reading, FetchDetails
    <2>4. FullyRead(r)'
      BY <2>1, <2>2, <2>3 DEF FullyRead, Current
    <2> QED BY <2>1, <2>2, <2>3, <2>4 DEF ReaderOK, HalfRead
  <1> QED BY <1>1, <1>2 DEF FetchDetails

LEMMA FetchPopularReads ==
    ASSUME Domains, CachedIsCurrent, NEW r \in Requests, ReaderOK(r),
           FetchPopular(r)
    PROVE  CachedIsCurrent' /\ ReaderOK(r)'
  <1>1. CASE Step(r, "fetch", "failed", None)
    BY <1>1, StepCaches, WriterOK DEF Step, Domains, Reading
  <1>2. ASSUME NEW s \in GetPopularCategories(t, body[r].limit),
               Step(r, "fetch", "fill", s)
        PROVE  CachedIsCurrent' /\ ReaderOK(r)'
    <2>1. CachedIsCurrent' /\ t' = t /\ overtaken' = overtaken
      BY <1>2, StepCaches
    <2>2. pc[r] = "fetch" /\ pc'[r] = "fill" /\ body' = body /\ got'[r] = s
      BY <1>2 DEF Step, Domains, Done
    <2>3. KeyOK(r)' /\ body[r].key[1] = "popular" /\ body[r].limit \in Limits
      BY <2>2 DEF ReaderOK, KeyOK, Reading, FetchPopular
    <2>4. FullyRead(r)'
      BY <2>1, <2>2, <2>3 DEF FullyRead, Current
    <2> QED BY <2>1, <2>2, <2>3, <2>4 DEF ReaderOK, HalfRead
  <1> QED BY <1>1, <1>2 DEF FetchPopular

\* The children of a category, none of them counted yet.
LEMMA FetchChildrenReads ==
    ASSUME Domains, CachedIsCurrent, NEW r \in Requests, ReaderOK(r),
           FetchChildren(r)
    PROVE  CachedIsCurrent' /\ ReaderOK(r)'
  <1>1. CASE Step(r, "fetch", "failed", None)
    BY <1>1, StepCaches, WriterOK DEF Step, Domains, Reading
  <1>2. ASSUME NEW c \in GetCategoryBySlug(t, body[r].key[2]), NEW ds,
               ds = GetDirectChildrenCategories(t, c, body[r].key[3]),
               Step(r, "fetch", IF ds = {} THEN "fill" ELSE "count",
                    [d \in ds |-> -1])
        PROVE  CachedIsCurrent' /\ ReaderOK(r)'
    <2>1. CachedIsCurrent' /\ t' = t /\ overtaken' = overtaken
      BY <1>2, StepCaches
    <2>2. /\ pc[r] = "fetch" /\ body' = body /\ got'[r] = [d \in ds |-> -1]
          /\ pc'[r] = IF ds = {} THEN "fill" ELSE "count"
      BY <1>2 DEF Step, Domains, Done
    <2>3. /\ KeyOK(r)' /\ body[r].key[1] = "direct_children"
          /\ body[r].op = "children"
      BY <2>2 DEF ReaderOK, KeyOK, Reading, FetchChildren
    <2>4. FullyRead(r)'
      BY <1>2, <2>1, <2>2, <2>3 DEF FullyRead, Current
    <2>5. HalfRead(r)'
      BY <1>2, <2>1, <2>2, <2>3 DEF HalfRead
    <2> QED BY <2>1, <2>2, <2>3, <2>4, <2>5 DEF ReaderOK
  <1> QED BY <1>1, <1>2 DEF FetchChildren

\* The products below one more child, or the 0 of a failed query.
LEMMA CountChildReads ==
    ASSUME Domains, CachedIsCurrent, NEW r \in Requests, ReaderOK(r),
           CountChild(r)
    PROVE  CachedIsCurrent' /\ ReaderOK(r)'
  <1>1. PICK d \in {e \in DOMAIN got[r] : got[r][e] = -1},
             n \in 0..Cardinality(Products) :
        /\ n \in {0, GetCategoryStats(t, d).total}
        /\ Step(r, "count",
                IF \E e \in DOMAIN [got[r] EXCEPT ![d] = n] :
                       [got[r] EXCEPT ![d] = n][e] = -1
                THEN "count" ELSE "fill", [got[r] EXCEPT ![d] = n])
    BY DEF CountChild
  <1> DEFINE counts == [got[r] EXCEPT ![d] = n]
             key == body[r].key
  <1>2. CachedIsCurrent' /\ t' = t /\ overtaken' = overtaken
    BY <1>1, StepCaches
  <1>3. /\ pc[r] = "count" /\ body' = body /\ got'[r] = counts
        /\ pc'[r] = IF \E e \in DOMAIN counts : counts[e] = -1
                    THEN "count" ELSE "fill"
    BY <1>1 DEF Step, Domains, Done
  <1>4. /\ KeyOK(r)' /\ key[1] = "direct_children"
        /\ body[r].op = "children"
    BY <1>3 DEF ReaderOK, KeyOK, Reading, CountChild
  <1>5. ASSUME r \notin overtaken
        PROVE  \E c \in GetCategoryBySlug(t, key[2]) :
                 /\ DOMAIN counts =
                       GetDirectChildrenCategories(t, c, key[3])
                 /\ \A e \in DOMAIN counts :
                       counts[e] \in {-1, 0, GetCategoryStats(t, e).total}
    <2>1. PICK c \in GetCategoryBySlug(t, key[2]) :
                 /\ DOMAIN got[r] =
                       GetDirectChildrenCategories(t, c, key[3])
                 /\ \A e \in DOMAIN got[r] :
                       got[r][e] \in {-1, 0, GetCategoryStats(t, e).total}
      BY <1>3, <1>4, <1>5 DEF ReaderOK, HalfRead
    <2>2. /\ DOMAIN counts = DOMAIN got[r]
          /\ \A e \in DOMAIN counts :
                counts[e] = IF e = d THEN n ELSE got[r][e]
      OBVIOUS
    <2>3. \A e \in DOMAIN counts :
              counts[e] \in {-1, 0, GetCategoryStats(t, e).total}
      BY <1>1, <2>1, <2>2
    <2> HIDE DEF counts
    <2> QED BY <2>1, <2>2, <2>3
  <1> HIDE DEF counts
  <1>6. HalfRead(r)'
    BY <1>2, <1>3, <1>4, <1>5 DEF HalfRead
  <1>7. FullyRead(r)'
    BY <1>2, <1>3, <1>4, <1>5 DEF FullyRead, Current
  <1> QED BY <1>2, <1>4, <1>6, <1>7 DEF ReaderOK


\* The three queries of the statistics start if the category is active.
LEMMA FetchStatsReads ==
    ASSUME Domains, CachedIsCurrent, NEW r \in Requests, ReaderOK(r),
           FetchStats(r)
    PROVE  CachedIsCurrent' /\ ReaderOK(r)'
  <1>1. CASE Step(r, "fetch", "failed", None)
    BY <1>1, StepCaches, WriterOK DEF Step, Domains, Reading
  <1>2. CASE Step(r, "fetch", "count", [stats |-> None, children |-> None])
    <2>1. CachedIsCurrent' /\ t' = t /\ overtaken' = overtaken
      BY <1>2, StepCaches
    <2>2. /\ pc[r] = "fetch" /\ pc'[r] = "count" /\ body' = body
          /\ got'[r] = [stats |-> None, children |-> None]
      BY <1>2 DEF Step, Domains, Done
    <2>3. KeyOK(r)' /\ body[r].op = "stats"
      BY <2>2 DEF ReaderOK, KeyOK, Reading, FetchStats
    <2>4. HalfRead(r)'
      BY <2>2, <2>3 DEF HalfRead
    <2> QED BY <2>1, <2>2, <2>3, <2>4 DEF ReaderOK, FullyRead
  <1> QED BY <1>1, <1>2 DEF FetchStats

\* One of them answers.
LEMMA CountStatsReads ==
    ASSUME Domains, CachedIsCurrent, NEW r \in Requests, ReaderOK(r),
           CountStats(r)
    PROVE  CachedIsCurrent' /\ ReaderOK(r)'
  <1> DEFINE S == GetCategoryStats(t, body[r].key[2])
             C == GetAllChildrenCategoriesWithProductCount(
                      t, body[r].key[2], body[r].key[3])
  <1>1. CASE Step(r, "count", "failed", None)
    BY <1>1, StepCaches, WriterOK DEF Step, Domains, Reading
  <1>2. ASSUME NEW to, NEW value, Step(r, "count", to, value),
               \/ /\ value = [got[r] EXCEPT !.stats = S]
                  /\ to = IF got[r].children = None THEN "count" ELSE "fill"
               \/ /\ value = [got[r] EXCEPT !.children = C]
                  /\ to = IF got[r].stats = None THEN "count" ELSE "fill"
        PROVE  CachedIsCurrent' /\ ReaderOK(r)'
    <2>1. CachedIsCurrent' /\ t' = t /\ overtaken' = overtaken
      BY <1>2, StepCaches
    <2>2. /\ pc[r] = "count" /\ pc'[r] = to /\ body' = body
          /\ got'[r] = value /\ to \in {"count", "fill"}
      BY <1>2 DEF Step, Domains, Done
    <2>3. KeyOK(r)' /\ body[r].op = "stats" /\ body[r].key[1] = "stats"
      BY <2>2 DEF ReaderOK, KeyOK, Reading, CountStats
    <2>4. got[r] = [stats |-> got[r].stats, children |-> got[r].children]
      BY <2>2, <2>3 DEF ReaderOK, HalfRead
    <2>5. /\ value = [stats |-> value.stats, children |-> value.children]
          /\ \/ /\ value.stats = S /\ value.children = got[r].children
                /\ to = IF got[r].children = None THEN "count" ELSE "fill"
             \/ /\ value.stats = got[r].stats /\ value.children = C
                /\ to = IF got[r].stats = None THEN "count" ELSE "fill"
      BY <1>2, <2>4
    <2>6. r \notin overtaken =>
              got[r].stats \in {None, S} /\ got[r].children \in {None, C}
      BY <2>2, <2>3 DEF ReaderOK, HalfRead
    <2> HIDE DEF S, C
    <2>7. r \notin overtaken =>
              /\ value.stats \in {None, S} /\ value.children \in {None, C}
              /\ to = "fill" => value.stats = S /\ value.children = C
      BY <2>5, <2>6
    <2>8. HalfRead(r)'
      BY <2>1, <2>2, <2>3, <2>5, <2>7 DEF HalfRead, S, C
    <2>9. FullyRead(r)'
      BY <2>1, <2>2, <2>3, <2>7 DEF FullyRead, Current, S, C
    <2> QED BY <2>1, <2>2, <2>3, <2>8, <2>9 DEF ReaderOK
  <1> QED BY <1>1, <1>2 DEF CountStats

\* What has been read goes into the cache.
LEMMA SetReads ==
    ASSUME Domains, CachedIsCurrent, NEW r \in Requests, ReaderOK(r), Set(r)
    PROVE  CachedIsCurrent' /\ ReaderOK(r)'
  <1> DEFINE key == body[r].key
             entry == [value |-> got[r], by |-> r]
  <1>1. /\ pc[r] = "fill" /\ pc'[r] = "ok" /\ t' = t
        /\ overtaken' = overtaken /\ outdated' = outdated \ {key}
        /\ cache' = Updated(cache, [k \in {key} |-> entry])
    BY DEF Set, Domains
  <1>2. r \notin overtaken => Current(key, entry.value)
    BY <1>1 DEF ReaderOK, FullyRead
  <1>3. /\ DOMAIN cache' = DOMAIN cache \union {key}
        /\ cache'[key] = entry
        /\ \A k \in DOMAIN cache : k # key => cache'[k] = cache[k]
    BY <1>1 DEF Updated
  <1>4. ASSUME NEW k \in DOMAIN cache' \ outdated',
               cache'[k].by \notin overtaken'
        PROVE  Current(k, cache'[k].value)
    <2>1. CASE k = key
      BY <1>1, <1>2, <1>3, <1>4, <2>1
    <2>2. CASE k # key
      BY <1>1, <1>3, <1>4, <2>2 DEF CachedIsCurrent
    <2> QED BY <2>1, <2>2
  <1>5. CachedIsCurrent'
    BY <1>1, <1>4 DEF CachedIsCurrent, Current
  <1> QED BY <1>1, <1>5, WriterOK DEF Reading

\* The writers outdate what is cached, or leave the tables alone.
LEMMA SaveReads ==
    ASSUME Domains, CachedIsCurrent, NEW r \in Requests, Save(r)
    PROVE  /\ CachedIsCurrent'
           /\ pc'[r] \notin Reading
           /\ \/ t' = t /\ overtaken' = overtaken
              \/ overtaken' = overtaken \union
                     {q \in Requests : pc[q] \in {"count", "fill"}}
  <1>1. CASE \/ VerifyAdminStatus(r) \/ LookupSlug(r) \/ ReadExisting(r)
             \/ CheckExistence(r) \/ StatementFails(r)
    BY <1>1, StepCaches
       DEF VerifyAdminStatus, LookupSlug, ReadExisting, CheckExistence,
           StatementFails, Step, Domains, Reading
  <1>2. CASE HandleCategoryImage(r) \/ UploadImage(r)
    BY <1>2, CacheStays
       DEF HandleCategoryImage, UploadImage, Step, Domains, Reading, ghosts
  <1>3. CASE Retry(r) \/ GiveUp(r)
    BY <1>3, CacheStays
       DEF Retry, GiveUp, InTransaction, Domains, Reading, ghosts
  <1>4. ASSUME NEW u, NEW next \in {"flush", "forget", "ok", "failed"},
               Wrote(r, u, next)
        PROVE  /\ CachedIsCurrent' /\ pc'[r] \notin Reading
               /\ overtaken' = overtaken \union
                     {q \in Requests : pc[q] \in {"count", "fill"}}
    BY <1>4, CacheOutdated DEF Wrote, Domains, Reading
  <1>5. CASE Commit(r) \/ CommitUnanswered(r)
    <2>1. PICK next \in {"flush", "ok", "failed"} : Transaction(r, next)
      BY <1>5 DEF Commit, CommitUnanswered
    <2>2. \E u : Wrote(r, u, next)
      BY <2>1 DEF Transaction, InsertCategory, EditCategory, SetImage,
                  RemoveCategory
    <2> QED BY <1>4, <2>2
  <1>6. CASE SoftDelete(r) \/ BatchUpdatePositions(r)
    <2>1. \E u : Wrote(r, u, "flush") \/ Wrote(r, u, "forget")
      BY <1>6 DEF SoftDelete, BatchUpdatePositions
    <2> QED BY <1>4, <2>1
  <1>7. CASE InvalidateAll(r) \/ InvalidateCategories(r)
    BY <1>7, CacheShrinks
       DEF InvalidateAll, InvalidateCategories, Drop, Domains, Reading
  <1> QED BY <1>1, <1>2, <1>3, <1>5, <1>6, <1>7 DEF Save

\* The readers write nothing.
LEMMA ReadersOnlyRead ==
    ASSUME NEW r \in Requests, Request(r) \/ Read(r)
    PROVE  t' = t /\ overtaken' = overtaken
  BY DEF Request, CreateCategoryHandler, UploadCategoryImageHandler,
         SoftDeleteCategoryHandler, DeleteCategoryHandler,
         BatchUpdateCategoryPositionsHandler, GetCategoryDetailsHandler,
         GetCategoryHierarchyStatsHandler, GetDirectChildrenWithStatsHandler,
         GetPopularCategoriesHandler, Begin, Read, Get, Set, FetchDetails,
         FetchPopular, FetchChildren, CountChild, FetchStats, CountStats,
         Step, ghosts

LEMMA InitCInv == Init => CInv
  BY DEF Init, CInv, Domains, CachedIsCurrent, ReaderOK, KeyOK, HalfRead,
         FullyRead, Reading

LEMMA NextCInv == CInv /\ [Next]_vars => CInv'
  <1> SUFFICES ASSUME CInv, [Next]_vars PROVE CInv'
    OBVIOUS
  <1> USE DEF CInv
  <1>1. ASSUME NEW r \in Requests, Act(r) PROVE CInv'
    <2>1. Frame(r)
      BY <1>1, ActFrame
    <2>2. CachedIsCurrent' /\ ReaderOK(r)'
      <3>1. CASE Read(r)
        BY <3>1, GetReads, FetchDetailsReads, FetchPopularReads,
           FetchChildrenReads, CountChildReads, FetchStatsReads,
           CountStatsReads, SetReads
           DEF Read
      <3> QED BY <1>1, <3>1, RequestReads, SaveReads, WriterOK DEF Act
    <2>3. \/ t' = t /\ overtaken' = overtaken
          \/ overtaken' = overtaken \union
                 {q \in Requests : pc[q] \in {"count", "fill"}}
      BY <1>1, ReadersOnlyRead, SaveReads DEF Act
    <2>4. ASSUME NEW q \in Requests, q # r PROVE ReaderOK(q)'
      BY <2>1, <2>3, <2>4, ReaderStays, ReaderOvertaken DEF Frame
    <2> QED BY <2>1, <2>2, <2>4 DEF Frame
  <1>2. CASE Expire \/ DeleteFileFromS3 \/ UNCHANGED vars
    <2>1. UNCHANGED <<t, pc, body, got, tries, made, overtaken>>
      BY <1>2, OthersFrame
    <2>2. CachedIsCurrent'
      BY <1>2, CacheShrinks, CacheStays
         DEF Expire, DeleteFileFromS3, Drop, vars, ghosts
    <2> QED BY <2>1, <2>2, ReaderStays DEF Domains
  <1> QED BY <1>1, <1>2 DEF Next, Act

\* A cached answer is what the database would answer now, unless a write
\* overtook its reader or came later without flushing the cache.
THEOREM CacheIsCurrent == Spec => []CachedIsCurrent
  BY InitCInv, NextCInv, PTL DEF Spec, CInv

-----------------------------------------------------------------------------
(* The tables: what the statements do to the images that the rows show.    *)

\* The rows have an image, if only None.
Shaped(u) ==
    /\ "rows" \in DOMAIN u
    /\ DOMAIN u.rows = Categories
    /\ \A c \in Stored(u) : "image" \in DOMAIN u.rows[c]

\* v has the rows of u with their images, and no others.
Keeps(u, v) ==
    /\ "rows" \in DOMAIN v
    /\ DOMAIN v.rows = Categories
    /\ \A c \in Stored(u) : /\ "image" \in DOMAIN v.rows[c]
                            /\ v.rows[c].image = u.rows[c].image
    /\ Stored(v) \subseteq Stored(u)

\* One row becomes another.
LEMMA WriteShapes ==
    ASSUME NEW u, "rows" \in DOMAIN u, DOMAIN u.rows = Categories,
           NEW c \in Categories, NEW row, "image" \in DOMAIN row
    PROVE  LET v == Write(u, c, row) IN
           /\ "rows" \in DOMAIN v /\ DOMAIN v.rows = Categories
           /\ "image" \in DOMAIN v.rows[c] /\ v.rows[c].image = row.image
           /\ \A d \in Categories \ {c} : v.rows[d] = u.rows[d]
  BY DEF Write

\* A row keeps its image when it is given other columns.
LEMMA WriteKeeps ==
    ASSUME NEW u, NEW v, Keeps(u, v), NEW c \in Stored(u), NEW columns,
           "image" \notin DOMAIN columns
    PROVE  Keeps(u, Write(v, c, Updated(v.rows[c], columns)))
  <1> DEFINE row == Updated(v.rows[c], columns)
  <1>1. "image" \in DOMAIN row /\ row.image = v.rows[c].image
    BY DEF Updated, Keeps
  <1>2. c \in Categories
    BY DEF Stored
  <1> HIDE DEF row
  <1> DEFINE w == Write(v, c, row)
  <1>3. /\ "rows" \in DOMAIN w /\ DOMAIN w.rows = Categories
        /\ "image" \in DOMAIN w.rows[c] /\ w.rows[c].image = row.image
        /\ \A d \in Categories \ {c} : w.rows[d] = v.rows[d]
    BY <1>1, <1>2, WriteShapes DEF Keeps
  <1>4. v.rows[c].image = u.rows[c].image
    BY DEF Keeps
  <1> HIDE DEF w
  <1>5. ASSUME NEW d \in Stored(u)
        PROVE  /\ "image" \in DOMAIN w.rows[d]
               /\ w.rows[d].image = u.rows[d].image
    <2>1. CASE d = c
      BY <1>1, <1>3, <1>4, <2>1
    <2>2. CASE d # c
      BY <1>3, <2>2 DEF Keeps, Stored
    <2> QED BY <2>1, <2>2
  <1>6. Stored(w) \subseteq Stored(u)
    BY <1>3 DEF Keeps, Stored
  <1>7. Keeps(u, w)
    BY <1>3, <1>5, <1>6 DEF Keeps
  <1> QED BY <1>7 DEF w, row

\* A set of numbers that is not empty has a least one.
LEMMA LeastNumber ==
    ASSUME NEW S \in SUBSET Nat, S # {}
    PROVE  \E m \in S : \A n \in S : m <= n
  <1>1. PICK m \in S : \A n \in S : ~(<<n, m>> \in OpToRel(<, Nat))
    BY WFMin, NatLessThanWellFounded
  <1>2. \A n \in S : ~(n < m)
    BY <1>1, Zenon DEF OpToRel
  <1> QED BY <1>2

\* The tables after the n-th row of s, from those before it.
OneMore(v, s, columns, n) ==
    Write(v, s[n], Updated(v.rows[s[n]], columns))

\* The tables that WriteInOrder goes through.
GoesThrough(u, s, columns, n, f) ==
    f = [k \in 0..n |-> IF k = 0 THEN u
                        ELSE OneMore(f[k - 1], s, columns, k)]

\* They exist: those after n rows give those after one more.
LEMMA GoesThroughExists ==
    ASSUME NEW u, NEW s, NEW columns, NEW n \in Nat
    PROVE  \E f : GoesThrough(u, s, columns, n, f)
  <1> DEFINE S == {m \in Nat : ~\E f : GoesThrough(u, s, columns, m, f)}
  <1> SUFFICES ASSUME S # {} PROVE FALSE
    OBVIOUS
  <1>1. PICK m \in S : \A k \in S : m <= k
    BY LeastNumber
  <1>2. CASE m = 0
    <2>1. GoesThrough(u, s, columns, 0, [k \in 0..0 |-> u])
      BY DEF GoesThrough
    <2> QED BY <1>2, <2>1
  <1>3. CASE m # 0
    <2>1. m - 1 \in Nat /\ m - 1 \notin S
      BY <1>1, <1>3
    <2>2. PICK f : GoesThrough(u, s, columns, m - 1, f)
      BY <2>1
    <2> DEFINE g == [k \in 0..m |-> IF k <= m - 1 THEN f[k]
                                   ELSE OneMore(f[m - 1], s, columns, m)]
    <2>3. ASSUME NEW k \in 0..m
          PROVE  g[k] = IF k = 0 THEN u ELSE OneMore(g[k - 1], s, columns, k)
      <3>1. CASE k = m
        <4>1. g[k] = OneMore(f[m - 1], s, columns, m)
          BY <2>1, <3>1
        <4>2. g[k - 1] = f[m - 1]
          BY <2>1, <3>1
        <4> QED BY <1>3, <3>1, <4>1, <4>2
      <3>2. CASE k # m
        <4>1. g[k] = f[k] /\ k \in 0..(m - 1)
          BY <2>1, <3>2
        <4>2. f[k] = IF k = 0 THEN u ELSE OneMore(f[k - 1], s, columns, k)
          BY <2>2, <4>1 DEF GoesThrough
        <4>3. k # 0 => g[k - 1] = f[k - 1]
          BY <2>1, <3>2
        <4> HIDE DEF g
        <4> QED BY <4>1, <4>2, <4>3
      <3> QED BY <3>1, <3>2
    <2>4. GoesThrough(u, s, columns, m, g)
      <3>1. g = [k \in 0..m |-> g[k]]
        OBVIOUS
      <3> HIDE DEF g
      <3> QED BY <2>3, <3>1 DEF GoesThrough
    <2> QED BY <1>1, <2>4
  <1> QED BY <1>2, <1>3

\* The rows of cs are written in the order s, and f goes through the tables.
Runs(u, cs, columns, v, n, s, f) ==
    /\ s \in [1..n -> cs] /\ \A c \in cs : \E k \in 1..n : s[k] = c
    /\ f[0] = u /\ f[n] = v
    /\ \A k \in 1..n : f[k] = OneMore(f[k - 1], s, columns, k)

LEMMA WriteAllRuns ==
    ASSUME NEW u, NEW cs \in SUBSET Categories, NEW columns,
           NEW v \in WriteAll(u, cs, columns)
    PROVE  \E n \in Nat : \E s : \E f : Runs(u, cs, columns, v, n, s, f)
  <1>1. PICK s \in SetToSeqs(cs) : v = WriteInOrder(u, s, columns)
    BY DEF WriteAll
  <1> DEFINE n == Cardinality(cs)
  <1>2. IsFiniteSet(cs) /\ n \in Nat
    <2>1. IsFiniteSet(Categories)
      BY CategoryTreeAssumption
    <2>2. IsFiniteSet(cs)
      BY <2>1, FS_Subset
    <2> QED BY <2>2, FS_CardinalityType
  <1>3. s \in [1..n -> cs] /\ \A i, j \in 1..n : i # j => s[i] # s[j]
    BY <1>1 DEF SetToSeqs
  <1>4. \A c \in cs : \E k \in 1..n : s[k] = c
    <2>1. s \in Injection(1..n, cs)
      BY <1>3 DEF Injection, IsInjective
    <2>2. Cardinality(1..n) = Cardinality(cs)
      BY <1>2, FS_Interval
    <2>3. s \in Surjection(1..n, cs)
      BY <1>2, <2>1, <2>2, FS_Injection
    <2> QED BY <2>3 DEF Surjection
  <1> HIDE DEF n
  <1>5. {0} \union DOMAIN s = 0..n /\ Cardinality(DOMAIN s) = n
    <2>1. DOMAIN s = 1..n
      BY <1>3
    <2>2. Cardinality(1..n) = n
      BY <1>2, FS_Interval
    <2> QED BY <1>2, <2>1, <2>2
  <1> DEFINE f == CHOOSE g : GoesThrough(u, s, columns, n, g)
  <1>6. GoesThrough(u, s, columns, n, f)
    BY <1>2, GoesThroughExists
  <1>7. v = f[n]
    BY <1>1, <1>5 DEF WriteInOrder, GoesThrough, OneMore
  <1> HIDE DEF f
  <1>8. f[0] = u /\ \A k \in 1..n : f[k] = OneMore(f[k - 1], s, columns, k)
    BY <1>2, <1>6 DEF GoesThrough
  <1>9. Runs(u, cs, columns, v, n, s, f)
    BY <1>3, <1>4, <1>7, <1>8 DEF Runs
  <1> QED BY <1>2, <1>9


\* Rows that are stored keep their images when they are given other columns.
LEMMA WriteAllKeeps ==
    ASSUME NEW u, Shaped(u), NEW cs \in SUBSET Stored(u), NEW columns,
           "image" \notin DOMAIN columns, NEW v \in WriteAll(u, cs, columns)
    PROVE  Keeps(u, v)
  <1>1. cs \in SUBSET Categories
    BY DEF Stored
  <1>2. PICK n \in Nat : \E s : \E f : Runs(u, cs, columns, v, n, s, f)
    BY <1>1, WriteAllRuns
  <1>3. PICK s : \E f : Runs(u, cs, columns, v, n, s, f)
    BY <1>2
  <1>4. PICK f : Runs(u, cs, columns, v, n, s, f)
    BY <1>3
  <1> DEFINE S == {k \in 0..n : ~Keeps(u, f[k])}
  <1>5. ASSUME S # {} PROVE FALSE
    <2>1. S \in SUBSET Nat
      OBVIOUS
    <2>2. PICK k \in S : \A j \in S : k <= j
      <3> HIDE DEF S
      <3> QED BY <1>5, <2>1, LeastNumber
    <2>3. CASE k = 0
      BY <1>4, <2>2, <2>3 DEF Runs, Keeps, Shaped
    <2>4. CASE k # 0
      <3>1. k \in 1..n /\ k - 1 \in 0..n /\ k - 1 \notin S
        BY <2>2, <2>4
      <3>2. f[k] = OneMore(f[k - 1], s, columns, k) /\ s[k] \in Stored(u)
        BY <1>4, <3>1 DEF Runs
      <3>3. Keeps(u, f[k])
        BY <3>1, <3>2, WriteKeeps DEF OneMore
      <3> QED BY <2>2, <3>3
    <2> QED BY <2>3, <2>4
  <1>6. Keeps(u, f[n])
    BY <1>5
  <1> QED BY <1>4, <1>6 DEF Runs

\* In v category c shows x, and every other one what it showed in u.
Becomes(u, v, c, x) ==
    /\ Shaped(v)
    /\ \A d \in Stored(v) :
          IF d = c THEN v.rows[d].image = x
          ELSE d \in Stored(u) /\ v.rows[d].image = u.rows[d].image

LEMMA WriteBecomes ==
    ASSUME NEW u, Shaped(u), NEW c \in Categories,
           NEW row, "image" \in DOMAIN row
    PROVE  Becomes(u, Write(u, c, row), c, row.image)
  <1> DEFINE v == Write(u, c, row)
  <1>1. /\ "rows" \in DOMAIN v /\ DOMAIN v.rows = Categories
        /\ "image" \in DOMAIN v.rows[c] /\ v.rows[c].image = row.image
        /\ \A d \in Categories \ {c} : v.rows[d] = u.rows[d]
    BY WriteShapes DEF Shaped
  <1> HIDE DEF v
  <1>2. Becomes(u, v, c, row.image)
    BY <1>1 DEF Becomes, Shaped, Stored
  <1> QED BY <1>2 DEF v

\* The columns that the statements on several rows set are no images.
LEMMA WriteAllBecomes ==
    ASSUME NEW u, Shaped(u), NEW cs \in SUBSET Stored(u), NEW columns,
           "image" \notin DOMAIN columns, NEW v \in WriteAll(u, cs, columns)
    PROVE  Becomes(u, v, None, None)
  <1>1. Keeps(u, v)
    BY WriteAllKeeps
  <1>2. None \notin Categories
    BY CategoryTreeAssumption
  <1> QED BY <1>1, <1>2 DEF Keeps, Becomes, Shaped, Stored

LEMMA InsertBecomes ==
    ASSUME NEW u, Shaped(u), NEW c \in Categories, NEW p,
           NEW v \in CreateCategory(u, c, p)
    PROVE  Becomes(u, v, c, p.image)
  <1> DEFINE row == [parent |-> p.parent, name |-> p.name, path |-> <<>>,
                     slug |-> [base |-> <<>>, n |-> 0], active |-> TRUE,
                     position |-> set_category_position(u, p.parent),
                     described |-> p.described, image |-> p.image]
  <1>1. "image" \in DOMAIN row /\ row.image = p.image
    OBVIOUS
  <1>2. v = Write(u, c, row)
    BY DEF CreateCategory
  <1> HIDE DEF row
  <1> QED BY <1>1, <1>2, WriteBecomes

LEMMA UpdateBecomes ==
    ASSUME NEW u, Shaped(u), NEW c \in Stored(u), NEW p,
           NEW v \in UpdateCategory(u, c, p)
    PROVE  Becomes(u, v, c, p.image)
  <1> DEFINE row == [u.rows[c] EXCEPT !.name = p.name, !.parent = p.parent,
                                      !.image = p.image, !.position = 0,
                                      !.described = FALSE]
  <1>1. "image" \in DOMAIN u.rows[c] /\ c \in Categories
    BY DEF Shaped, Stored
  <1>2. "image" \in DOMAIN row /\ row.image = p.image
    BY <1>1
  <1>3. v = Write(u, c, row)
    BY DEF UpdateCategory
  <1> HIDE DEF row
  <1> QED BY <1>1, <1>2, <1>3, WriteBecomes

LEMMA SetImageBecomes ==
    ASSUME NEW u, Shaped(u), NEW c \in Stored(u), NEW x,
           NEW v \in UpdateCategoryImage(u, c, x)
    PROVE  Becomes(u, v, c, x)
  <1> DEFINE row == [u.rows[c] EXCEPT !.image = x]
  <1>1. "image" \in DOMAIN u.rows[c] /\ c \in Categories
    BY DEF Shaped, Stored
  <1>2. "image" \in DOMAIN row /\ row.image = x
    BY <1>1
  <1>3. v = Write(u, c, row)
    BY DEF UpdateCategoryImage
  <1> HIDE DEF row
  <1> QED BY <1>1, <1>2, <1>3, WriteBecomes

LEMMA SoftDeleteBecomes ==
    ASSUME NEW u, Shaped(u), NEW c, NEW v \in SoftDeleteCategory(u, c)
    PROVE  Becomes(u, v, None, None)
  <1> DEFINE columns == [active |-> FALSE]
  <1>1. "image" \notin DOMAIN columns
    OBVIOUS
  <1>2. v \in WriteAll(u, Stored(u) \intersect {c}, columns)
    BY DEF SoftDeleteCategory
  <1> HIDE DEF columns
  <1> QED BY <1>1, <1>2, WriteAllBecomes

LEMMA BulkUpdateBecomes ==
    ASSUME NEW u, Shaped(u), NEW cs, NEW position,
           NEW v \in BulkUpdateCategoryPositions(u, cs, position)
    PROVE  Becomes(u, v, None, None)
  <1> DEFINE columns == [position |-> position]
  <1>1. "image" \notin DOMAIN columns
    OBVIOUS
  <1>2. v \in WriteAll(u, Stored(u) \intersect cs, columns)
    BY DEF BulkUpdateCategoryPositions
  <1> HIDE DEF columns
  <1> QED BY <1>1, <1>2, WriteAllBecomes

LEMMA HardDeleteBecomes ==
    ASSUME NEW u, Shaped(u), NEW c, NEW v \in HardDeleteCategory(u, c)
    PROVE  Becomes(u, v, None, None)
  <1> DEFINE columns == [parent |-> None]
             cs == {d \in Stored(u) \ {c} : u.rows[d].parent = c}
  <1>1. "image" \notin DOMAIN columns /\ cs \in SUBSET Stored(u)
    OBVIOUS
  <1>2. PICK w \in WriteAll(u, cs, columns) :
           v = [w EXCEPT !.rows[c] = None,
                         !.of = [p \in Products |->
                                    IF @[p] = c THEN None ELSE @[p]]]
    BY DEF HardDeleteCategory
  <1> HIDE DEF columns, cs
  <1>3. Becomes(u, w, None, None)
    BY <1>1, <1>2, WriteAllBecomes
  <1>4. "rows" \in DOMAIN w /\ DOMAIN w.rows = Categories
    BY <1>3 DEF Becomes, Shaped
  <1>5. /\ "rows" \in DOMAIN v
        /\ v.rows = [d \in Categories |-> IF d = c THEN None ELSE w.rows[d]]
    BY <1>2, <1>4
  <1>6. \A d \in Stored(v) : d \in Stored(w) /\ v.rows[d] = w.rows[d]
    BY <1>5 DEF Stored
  <1> QED BY <1>3, <1>5, <1>6 DEF Becomes, Shaped

-----------------------------------------------------------------------------
(* The images.  The invariant says of each image who refers to it: the row *)
(* of one category, those who edit that category, and the goroutines that  *)
(* delete it only when an edit at work has replaced it.                    *)

Image(c) == t.rows[c].image

\* Request q holds what it read of a row to edit it, or what a new row needs.
Editor(q) == pc[q] \in {"image", "write"} /\ body[q].op = "save"

\* What a writer asks for and holds, by the step that it takes next.
GotOK(q) ==
    /\ pc[q] = "verify" => body[q].op \in {"save", "batch"}
    /\ pc[q] \in {"lookup", "existing", "image"} => body[q].op = "save"
    /\ pc[q] \in {"exists", "upload"} => body[q].op = "upload"
    /\ pc[q] = "existing" \/ Editor(q) =>
          /\ got[q] = [about |-> got[q].about, image |-> got[q].image]
          /\ got[q].about \in Categories \union {None}
    /\ pc[q] = "existing" => got[q].about # None
    /\ Editor(q) /\ got[q].about = None => got[q].image \in {None, q}
    /\ pc[q] = "write" /\ body[q].op = "upload" => got[q].image = q

Past == {"flush", "forget", "ok", "failed"}

\* The image that q uploads is nobody else's before q has written it.
OwnOK(q) ==
    pc[q] \notin Past =>
        /\ q \notin deleting
        /\ \A c \in Stored(t) : Image(c) # q
        /\ \A p \in Requests : Editor(p) /\ got[p].image = q =>
                                   p = q /\ pc[q] = "write"
        /\ /\ pc[q] = "write" /\ body[q].op \in {"save", "upload"}
           /\ got[q].image = q
           => q \in s3

\* The images that c shows, or showed to those who edit it.
Showing(c) == {Image(d) : d \in Stored(t) \intersect {c}}
                  \union {got[q].image : q \in Editing(c)}

Apart == \A c, d \in Categories :
             c # d => Showing(c) \intersect Showing(d) \subseteq {None}

There(i) == i = None \/ i \in s3 \ deleting

\* The edits of c that have replaced its image and not written it yet.
Replacing(c) == {q \in Editing(c) : pc[q] = "write" /\ got[q].image = q}

RowOK(c) ==
    c \in Stored(t) \ overlapped => There(Image(c)) \/ Replacing(c) # {}

\* An edit that keeps the image it read writes one that is still there.
ReadOK(q) ==
    /\ Editor(q) /\ got[q].about \in Categories \ overlapped
    /\ got[q].image # q
    => There(got[q].image) \/ Replacing(got[q].about) # {}

IInv ==
    /\ Domains /\ Shaped(t)
    /\ \A q \in Requests : GotOK(q) /\ OwnOK(q) /\ ReadOK(q)
    /\ Apart
    /\ \A c \in Categories : RowOK(c)

LEMMA NoneApart == None \notin Categories /\ None \notin Requests
  BY CategoryTreeAssumption, CategoriesAssumption

\* The others are where they were.
LEMMA OthersKept ==
    ASSUME NEW r \in Requests, Frame(r), NEW q \in Requests, q # r
    PROVE  /\ Editor(q)' <=> Editor(q)
           /\ GotOK(q) => GotOK(q)'
           /\ \A c : (q \in Editing(c)' <=> q \in Editing(c))
                     /\ (q \in Replacing(c)' <=> q \in Replacing(c))
  <1>1. pc'[q] = pc[q] /\ body'[q] = body[q] /\ got'[q] = got[q]
    BY DEF Frame
  <1> QED BY <1>1 DEF Editor, GotOK, Editing, Replacing

\* Request r does not go on editing.  The tables stay, or one category c gets
\* the image that r held.
LEMMA Leaves ==
    ASSUME IInv, NEW r \in Requests, Frame(r),
           deleting' = deleting, s3 \subseteq s3',
           overlapped \subseteq overlapped',
           ~Editor(r)', GotOK(r)', OwnOK(r)',
           NEW c \in Categories \union {None},
           Becomes(t, t', c, got[r].image),
           c # None => \A q \in Requests \ {r} :
                           pc[q] \notin Past => got[r].image # q,
           \A a \in Categories \ overlapped' :
               r \in Replacing(a) => a = c /\ Editing(c) = {r},
           c \in Categories \ overlapped' => There(got[r].image),
           c # None => \A d \in Categories \ {c} :
                           got[r].image \in Showing(d) => got[r].image = None
    PROVE  IInv'
  <1> DEFINE x == got[r].image
  <1>1. /\ Domains'
        /\ \A q \in Requests \ {r} : /\ pc'[q] = pc[q] /\ body'[q] = body[q]
                                     /\ got'[q] = got[q]
    BY DEF Frame
  <1>2. \A q \in Requests \ {r} :
            /\ Editor(q)' <=> Editor(q)
            /\ GotOK(q) => GotOK(q)'
            /\ \A a : (q \in Editing(a)' <=> q \in Editing(a))
                      /\ (q \in Replacing(a)' <=> q \in Replacing(a))
    BY OthersKept
  <1>3. \A a : r \notin Editing(a)'
    BY DEF Editor, Editing
  <1>4. \A d \in Stored(t)' :
            IF d = c THEN Image(d)' = x
            ELSE d \in Stored(t) /\ Image(d)' = Image(d)
    BY DEF Becomes, Image
  <1>5. \A d \in Stored(t)' : d \in Categories
    BY DEF Stored
  <1>6. \A i : There(i) => There(i)'
    BY DEF There
  <1>7. ASSUME NEW q \in Requests PROVE OwnOK(q)'
    <2>1. CASE q = r
      BY <2>1
    <2>2. CASE q # r
      <3> SUFFICES ASSUME pc[q] \notin Past PROVE OwnOK(q)'
        BY <1>1, <2>2 DEF OwnOK
      <3>1. OwnOK(q)
        BY DEF IInv
      <3>2. \A d \in Stored(t)' : Image(d)' # q
        BY <1>4, <1>5, <2>2, <3>1, NoneApart DEF OwnOK
      <3>3. \A p \in Requests : Editor(p)' /\ got'[p].image = q =>
                                    p = q /\ pc'[q] = "write"
        BY <1>1, <1>2, <2>2, <3>1 DEF OwnOK
      <3> QED BY <1>1, <2>2, <3>1, <3>2, <3>3 DEF OwnOK
    <2> QED BY <2>1, <2>2
  <1>8. ASSUME NEW a \in Categories \ overlapped', Replacing(a) # {},
               Replacing(a)' = {}
        PROVE  a = c /\ Editing(c) = {r}
    BY <1>2, <1>8 DEF Replacing, Editing
  <1>9. ASSUME NEW q \in Requests PROVE ReadOK(q)'
    <2> DEFINE a == got[q].about
    <2> SUFFICES ASSUME Editor(q)', got'[q].about \in Categories \ overlapped',
                        got'[q].image # q
                 PROVE  \/ There(got[q].image)'
                        \/ Replacing(got[q].about)' # {}
      BY DEF ReadOK
    <2>1. q # r
      OBVIOUS
    <2>2. Editor(q) /\ got'[q] = got[q]
      BY <1>1, <1>2, <2>1
    <2>3. There(got[q].image) \/ Replacing(a) # {}
      BY <2>2 DEF IInv, ReadOK
    <2>4. q \in Editing(a)
      BY <2>2 DEF Editor, Editing
    <2>5. ASSUME NEW b, b = a, Replacing(b) # {}
          PROVE  Replacing(b)' # {}
      BY <1>8, <2>1, <2>2, <2>4, <2>5
    <2>6. CASE There(got[q].image)
      BY <1>6, <2>2, <2>6 DEF There
    <2>7. CASE Replacing(a) # {}
      <3>1. PICK b : b = a
        OBVIOUS
      <3>2. Replacing(b)' # {} /\ got'[q].about = b
        BY <2>2, <2>5, <2>7, <3>1
      <3> QED BY <3>2 DEF Replacing, Editing
    <2> QED BY <2>3, <2>6, <2>7
  <1>10. ASSUME NEW d \in Categories PROVE RowOK(d)'
    <2> SUFFICES ASSUME d \in Stored(t)' \ overlapped'
                 PROVE  There(Image(d))' \/ Replacing(d)' # {}
      BY DEF RowOK
    <2>1. CASE d = c
      <3>1. Image(d)' = x /\ There(x)
        BY <1>4, <2>1
      <3> QED BY <1>6, <3>1
    <2>2. CASE d # c
      <3>1. d \in Stored(t) \ overlapped /\ Image(d)' = Image(d)
        BY <1>4, <2>2
      <3>2. There(Image(d)) \/ Replacing(d) # {}
        BY <3>1 DEF IInv, RowOK
      <3> QED BY <1>6, <1>8, <2>2, <3>1, <3>2
    <2> QED BY <2>1, <2>2
  <1>11. \A d \in Categories :
             Showing(d)' \subseteq Showing(d) \union (IF d = c THEN {x} ELSE {})
    <2> SUFFICES ASSUME NEW d \in Categories, NEW i \in Showing(d)'
                 PROVE  i \in Showing(d) \/ (d = c /\ i = x)
      OBVIOUS
    <2>0. /\ d \in Stored(t) => Image(d) \in Showing(d)
          /\ \A q \in Editing(d) : got[q].image \in Showing(d)
      BY DEF Showing
    <2>1. CASE d \in Stored(t)' /\ i = Image(d)'
      BY <1>4, <2>0, <2>1
    <2>2. CASE \E q \in Editing(d)' : i = got'[q].image
      <3>1. PICK q \in Editing(d)' : i = got'[q].image
        BY <2>2
      <3>2. q \in Requests \ {r}
        BY <1>3, <3>1 DEF Editing
      <3>3. q \in Editing(d) /\ i = got[q].image
        BY <1>1, <1>2, <3>1, <3>2
      <3> QED BY <2>0, <3>3
    <2> QED BY <2>1, <2>2 DEF Showing
  <1>12. Apart'
    <2> SUFFICES ASSUME NEW a \in Categories, NEW d \in Categories, a # d,
                        NEW i \in Showing(a)' \intersect Showing(d)'
                 PROVE  i = None
      BY DEF Apart
    <2>1. i \in Showing(a) /\ i \in Showing(d) => i = None
      BY DEF IInv, Apart
    <2> QED BY <1>11, <2>1, NoneApart
  <1> QED
    BY <1>1, <1>2, <1>7, <1>9, <1>10, <1>12 DEF IInv, Becomes


\* Request r starts or goes on to edit, and uploads nothing.  It holds the image
\* of the row that it read, what it held, or none.
LEMMA Takes ==
    ASSUME IInv, NEW r \in Requests, Frame(r),
           UNCHANGED <<t, s3, deleting, overlapped>>,
           pc[r] \in {"lookup", "existing", "image"},
           Editor(r)', GotOK(r)', got'[r].about \in Categories \union {None},
           \/ Editor(r) /\ got'[r] = got[r]
           \/ got'[r].image = None
           \/ /\ got'[r].about \in Stored(t)
              /\ got'[r].image = Image(got'[r].about)
    PROVE  IInv'
  <1> DEFINE a == got'[r].about
             x == got'[r].image
  <1>1. /\ Domains'
        /\ \A q \in Requests \ {r} : /\ pc'[q] = pc[q] /\ body'[q] = body[q]
                                     /\ got'[q] = got[q]
    BY DEF Frame
  <1>2. \A q \in Requests \ {r} :
            /\ Editor(q)' <=> Editor(q)
            /\ GotOK(q) => GotOK(q)'
            /\ \A d : (q \in Editing(d)' <=> q \in Editing(d))
                      /\ (q \in Replacing(d)' <=> q \in Replacing(d))
    BY OthersKept
  <1>3. ASSUME NEW q \in Requests, pc[q] \notin Past PROVE x # q
    <2>1. OwnOK(q)
      BY DEF IInv
    <2>2. ASSUME Editor(r), got'[r] = got[r], x = q PROVE FALSE
      BY <1>3, <2>1, <2>2 DEF OwnOK
    <2> QED BY <1>3, <2>1, <2>2, NoneApart DEF OwnOK
  <1>4. pc[r] \notin Past
    BY DEF Past
  <1>5. x # r
    BY <1>3, <1>4
  <1>6. \A d : r \notin Replacing(d) /\ r \notin Replacing(d)'
    BY <1>5 DEF Replacing
  <1>7. \A d : Replacing(d)' = Replacing(d)
    <2> SUFFICES ASSUME NEW d PROVE Replacing(d)' = Replacing(d)
      OBVIOUS
    <2>1. \A q : q \in Replacing(d)' <=> q \in Replacing(d)
      BY <1>2, <1>6 DEF Replacing, Editing
    <2> QED BY <2>1
  <1>8. \A d : Image(d)' = Image(d) /\ Stored(t)' = Stored(t)
    BY DEF Image
  <1>9. \A i : There(i)' <=> There(i)
    BY DEF There
  <1>10. ASSUME NEW q \in Requests PROVE OwnOK(q)'
    <2> SUFFICES ASSUME pc'[q] \notin Past PROVE OwnOK(q)'
      BY DEF OwnOK
    <2>1. pc[q] \notin Past
      BY <1>1, <1>4
    <2>2. OwnOK(q) /\ x # q
      BY <1>3, <2>1 DEF IInv
    <2>3. \A p \in Requests : Editor(p)' /\ got'[p].image = q =>
                                  p = q /\ pc'[q] = "write"
      BY <1>1, <1>2, <1>5, <2>1, <2>2 DEF OwnOK
    <2>4. /\ q \notin deleting' /\ \A c \in Stored(t)' : Image(c)' # q
      BY <1>8, <2>1, <2>2 DEF OwnOK
    <2>5. /\ pc'[q] = "write" /\ body'[q].op \in {"save", "upload"}
          /\ got'[q].image = q
          => q \in s3'
      BY <1>1, <1>5, <2>1, <2>2 DEF OwnOK
    <2> QED BY <2>3, <2>4, <2>5 DEF OwnOK
  <1>11. ASSUME NEW d \in Categories PROVE RowOK(d)'
    <2>1. RowOK(d)
      BY DEF IInv
    <2>2. Image(d)' = Image(d)
      BY <1>8
    <2> QED BY <1>7, <2>1, <2>2 DEF RowOK, There
  <1>12. ASSUME NEW q \in Requests PROVE ReadOK(q)'
    <2> SUFFICES ASSUME Editor(q)', NEW b \in Categories \ overlapped,
                        got'[q].about = b, got'[q].image # q
                 PROVE  \/ got'[q].image = None
                        \/ got'[q].image \in s3 \ deleting
                        \/ Replacing(b) # {}
      BY <1>7 DEF ReadOK, There, Replacing, Editing
    <2>1. CASE Editor(q) /\ got'[q] = got[q]
      BY <2>1 DEF IInv, ReadOK, There
    <2>2. CASE q = r /\ x = None
      BY <2>2
    <2>3. CASE q = r /\ a \in Stored(t) /\ x = Image(a)
      <3>1. RowOK(b)
        BY DEF IInv
      <3> QED BY <2>3, <3>1 DEF RowOK, There
    <2> QED BY <1>1, <1>2, <2>1, <2>2, <2>3
  <1>13. \A d \in Categories : Showing(d)' \subseteq Showing(d) \union {None}
    <2> SUFFICES ASSUME NEW d \in Categories, NEW i \in Showing(d)'
                 PROVE  i \in Showing(d) \/ i = None
      OBVIOUS
    <2>0. /\ d \in Stored(t) => Image(d) \in Showing(d)
          /\ \A q \in Editing(d) : got[q].image \in Showing(d)
      BY DEF Showing
    <2>1. CASE d \in Stored(t)' /\ i = Image(d)'
      BY <1>8, <2>0, <2>1
    <2>2. ASSUME NEW q \in Requests \ {r}, q \in Editing(d)',
                 i = got'[q].image
          PROVE  i \in Showing(d)
      BY <1>1, <1>2, <2>0, <2>2
    <2>3. CASE r \in Editing(d)' /\ i = x
      <3>1. a = d
        BY <2>3 DEF Editing
      <3>2. CASE Editor(r) /\ got'[r] = got[r]
        <4>1. r \in Editing(d)
          BY <3>1, <3>2 DEF Editing, Editor
        <4> QED BY <2>0, <2>3, <3>2, <4>1
      <3> QED BY <2>0, <2>3, <3>1, <3>2
    <2> QED BY <2>1, <2>2, <2>3 DEF Showing, Editing
  <1>14. Apart'
    <2> SUFFICES ASSUME NEW c \in Categories, NEW d \in Categories, c # d,
                        NEW i \in Showing(c)' \intersect Showing(d)'
                 PROVE  i = None
      BY DEF Apart
    <2>1. i \in Showing(c) /\ i \in Showing(d) => i = None
      BY DEF IInv, Apart
    <2> QED BY <1>13, <2>1
  <1> QED BY <1>1, <1>2, <1>10, <1>11, <1>12, <1>14 DEF IInv, Shaped

\* Request r has uploaded its image, and the one it read is to be deleted.
LEMMA Replaces ==
    ASSUME IInv, NEW r \in Requests, Frame(r), UNCHANGED <<t, overlapped>>,
           pc[r] = "image", pc'[r] = "write", body'[r] = body[r],
           s3' = s3 \union {r},
           deleting' = deleting \union ({got[r].image} \ {None}),
           got'[r] = [got[r] EXCEPT !.image = r]
    PROVE  IInv'
  <1> DEFINE a == got[r].about
             x == got[r].image
  <1>1. /\ Domains'
        /\ \A q \in Requests \ {r} : /\ pc'[q] = pc[q] /\ body'[q] = body[q]
                                     /\ got'[q] = got[q]
    BY DEF Frame
  <1>2. \A q \in Requests \ {r} :
            /\ Editor(q)' <=> Editor(q)
            /\ GotOK(q) => GotOK(q)'
            /\ \A d : (q \in Editing(d)' <=> q \in Editing(d))
                      /\ (q \in Replacing(d)' <=> q \in Replacing(d))
    BY OthersKept
  <1>3. /\ body[r].op = "save" /\ Editor(r) /\ Editor(r)'
        /\ got[r] = [about |-> a, image |-> x]
        /\ a \in Categories \union {None}
        /\ a = None => x \in {None, r}
    BY DEF IInv, GotOK, Editor
  <1>4. got'[r] = [about |-> a, image |-> r]
    BY <1>3
  <1>5. GotOK(r)'
    BY <1>3, <1>4 DEF GotOK, Editor
  <1>6. \A q \in Requests : pc[q] \notin Past => q # x
    BY <1>3 DEF IInv, OwnOK
  <1>7. ASSUME NEW q \in Requests PROVE OwnOK(q)'
    <2> SUFFICES ASSUME pc'[q] \notin Past PROVE OwnOK(q)'
      BY DEF OwnOK
    <2>1. pc[q] \notin Past
      BY <1>1 DEF Past
    <2>2. OwnOK(q) /\ x # q
      BY <1>6, <2>1 DEF IInv
    <2>3. \A p \in Requests : Editor(p)' /\ got'[p].image = q =>
                                  p = q /\ pc'[q] = "write"
      <3>1. ASSUME NEW p \in Requests \ {r}, Editor(p)', got'[p].image = q
            PROVE  p = q /\ pc'[q] = "write"
        BY <1>1, <1>2, <2>1, <2>2, <3>1 DEF OwnOK
      <3> QED BY <1>4, <3>1
    <2>4. /\ q \notin deleting' /\ \A c \in Stored(t)' : Image(c)' # q
      BY <2>1, <2>2 DEF OwnOK, Image
    <2>5. /\ pc'[q] = "write" /\ body'[q].op \in {"save", "upload"}
          /\ got'[q].image = q
          => q \in s3'
      BY <1>1, <2>1, <2>2 DEF OwnOK
    <2> QED BY <2>3, <2>4, <2>5 DEF OwnOK
  <1>8. \A d : r \in Replacing(d)' <=> d = a
    BY <1>3, <1>4 DEF Replacing, Editing, Editor
  <1>9. ASSUME NEW d \in Categories, NEW i \in Showing(d),
               There(i) \/ Replacing(d) # {}
        PROVE  There(i)' \/ Replacing(d)' # {}
    <2>1. CASE Replacing(d) # {}
      <3>1. PICK q \in Replacing(d) : TRUE
        BY <2>1
      <3>2. q \in Requests \ {r}
        BY <3>1 DEF Replacing, Editing
      <3> QED BY <1>2, <3>1, <3>2
    <2>2. CASE There(i) /\ (i # x \/ i = None)
      BY <2>2 DEF There
    <2>3. CASE i = x /\ i # None
      <3>1. a \in Categories
        BY <1>3, <1>6, <2>3 DEF Past
      <3>2. x \in Showing(a)
        BY <1>3 DEF Showing, Editing, Editor
      <3>3. d = a
        BY <1>9, <2>3, <3>1, <3>2 DEF IInv, Apart
      <3> QED BY <1>8, <3>3
    <2> QED BY <1>9, <2>1, <2>2, <2>3
  <1>10. ASSUME NEW d \in Categories PROVE RowOK(d)'
    <2> SUFFICES ASSUME d \in Stored(t) \ overlapped
                 PROVE  There(Image(d))' \/ Replacing(d)' # {}
      BY DEF RowOK
    <2>1. There(Image(d)) \/ Replacing(d) # {}
      BY DEF IInv, RowOK
    <2>2. PICK i : i = Image(d) /\ i = Image(d)'
      BY DEF Image
    <2>3. i \in Showing(d)
      BY <2>2 DEF Showing
    <2>4. There(i)' \/ Replacing(d)' # {}
      BY <1>9, <2>1, <2>2, <2>3
    <2> QED BY <2>2, <2>4 DEF There
  <1>11. ASSUME NEW q \in Requests PROVE ReadOK(q)'
    <2> SUFFICES ASSUME NEW b \in Categories \ overlapped, NEW i,
                        Editor(q)', got'[q].about = b, got'[q].image = i,
                        i # q
                 PROVE  There(i)' \/ Replacing(b)' # {}
      BY DEF ReadOK, There, Replacing, Editing
    <2>1. q # r
      BY <1>4
    <2>2. Editor(q) /\ got[q].about = b /\ got[q].image = i
      BY <1>1, <1>2, <2>1
    <2>3. i \in Showing(b)
      BY <2>2 DEF Showing, Editing, Editor
    <2>4. There(i) \/ Replacing(b) # {}
      BY <2>2 DEF IInv, ReadOK
    <2> QED BY <1>9, <2>3, <2>4
  <1>12. \A d \in Categories : r \notin Showing(d)
    <2>1. OwnOK(r) /\ pc[r] \notin Past
      BY DEF IInv, Past
    <2> QED BY <2>1 DEF OwnOK, Showing, Editing, Editor
  <1>13. \A d \in Categories :
             Showing(d)' \subseteq Showing(d) \union (IF d = a THEN {r} ELSE {})
    <2> SUFFICES ASSUME NEW d \in Categories, NEW i \in Showing(d)'
                 PROVE  i \in Showing(d) \/ (d = a /\ i = r)
      OBVIOUS
    <2>0. /\ d \in Stored(t) => Image(d) \in Showing(d)
          /\ \A q \in Editing(d) : got[q].image \in Showing(d)
      BY DEF Showing
    <2>1. CASE d \in Stored(t)' /\ i = Image(d)'
      BY <2>0, <2>1 DEF Image
    <2>2. ASSUME NEW q \in Requests \ {r}, q \in Editing(d)',
                 i = got'[q].image
          PROVE  i \in Showing(d)
      BY <1>1, <1>2, <2>0, <2>2
    <2>3. CASE r \in Editing(d)' /\ i = got'[r].image
      BY <1>4, <2>3 DEF Editing
    <2> QED BY <2>1, <2>2, <2>3 DEF Showing, Editing
  <1>14. Apart'
    <2> SUFFICES ASSUME NEW c \in Categories, NEW d \in Categories, c # d,
                        NEW i \in Showing(c)' \intersect Showing(d)'
                 PROVE  i = None
      BY DEF Apart
    <2>1. i \in Showing(c) /\ i \in Showing(d) => i = None
      BY DEF IInv, Apart
    <2> QED BY <1>12, <1>13, <2>1
  <1> QED BY <1>1, <1>2, <1>5, <1>7, <1>10, <1>11, <1>14 DEF IInv, Shaped


\* Nothing changes but the images stored and those to delete.
LEMMA SameRows ==
    ASSUME IInv, Domains', UNCHANGED <<t, pc, body, got, overlapped>>,
           deleting' \subseteq deleting,
           \A i : i \in s3 /\ i \notin deleting => i \in s3' \ deleting'
    PROVE  IInv'
  <1>1. \A d : Editing(d)' = Editing(d) /\ Image(d)' = Image(d)
    BY DEF Editing, Image
  <1>2. \A d : Replacing(d)' = Replacing(d)
    BY <1>1 DEF Replacing
  <1>3. \A d : Showing(d)' = Showing(d)
    BY <1>1 DEF Showing
  <1>4. Apart'
    BY <1>3 DEF IInv, Apart
  <1>5. ASSUME NEW q \in Requests PROVE GotOK(q)' /\ OwnOK(q)'
    <2>1. GotOK(q) /\ OwnOK(q)
      BY DEF IInv
    <2>2. GotOK(q)'
      BY <2>1 DEF GotOK, Editor
    <2>3. OwnOK(q)'
      BY <2>1 DEF OwnOK, Editor, Image
    <2> QED BY <2>2, <2>3
  <1>6. ASSUME NEW q \in Requests PROVE ReadOK(q)'
    <2>1. ReadOK(q)
      BY DEF IInv
    <2> QED BY <1>2, <2>1 DEF ReadOK, Editor, There
  <1>7. ASSUME NEW d \in Categories PROVE RowOK(d)'
    <2>1. RowOK(d)
      BY DEF IInv
    <2> QED BY <1>1, <1>2, <2>1 DEF RowOK, There
  <1> QED BY <1>4, <1>5, <1>6, <1>7 DEF IInv, Shaped

\* A goroutine deletes an image, or fails to.
LEMMA Deletes == IInv /\ DeleteFileFromS3 => IInv'
  <1> SUFFICES ASSUME IInv, DeleteFileFromS3 PROVE IInv'
    OBVIOUS
  <1>1. PICK i \in deleting : /\ deleting' = deleting \ {i}
                              /\ s3' \in {s3, s3 \ {i}}
    BY DEF DeleteFileFromS3
  <1>2. \A j : j \in s3 /\ j \notin deleting => j \in s3' \ deleting'
    BY <1>1
  <1>3. UNCHANGED <<t, pc, body, got, tries, made, overlapped>>
    BY DEF DeleteFileFromS3, ghosts
  <1>4. Domains'
    BY <1>3 DEF IInv, Domains
  <1> QED BY <1>1, <1>2, <1>3, <1>4, SameRows

\* What the invariant does not speak of may change.
LEMMA ImagesUntouched ==
    ASSUME IInv, Domains',
           UNCHANGED <<t, s3, deleting, pc, body, got, overlapped>>
    PROVE  IInv'
  BY SameRows

\* Request r does not go on editing, and writes nothing.
LEMMA LeavesQuietly ==
    ASSUME IInv, NEW r \in Requests, Frame(r), t' = t,
           deleting' = deleting, s3 \subseteq s3',
           overlapped \subseteq overlapped',
           ~Editor(r)', GotOK(r)',
           pc[r] \notin Past \/ pc'[r] \in Past,
           pc'[r] = "write" /\ body'[r].op = "upload" => r \in s3',
           \A a \in Categories \ overlapped' : r \notin Replacing(a)
    PROVE  IInv'
  <1>1. Becomes(t, t', None, got[r].image)
    BY NoneApart DEF IInv, Becomes, Shaped, Stored
  <1>2. OwnOK(r)'
    <2>1. \A p \in Requests : Editor(p)' => Editor(p) /\ got'[p] = got[p]
      BY OthersKept DEF Frame
    <2>2. OwnOK(r)
      BY DEF IInv
    <2> SUFFICES ASSUME pc'[r] \notin Past PROVE OwnOK(r)'
      BY DEF OwnOK
    <2>3. \A p \in Requests : Editor(p)' /\ got'[p].image = r => FALSE
      <3>1. ASSUME NEW p \in Requests, Editor(p)', got'[p].image = r
            PROVE  p = r
        BY <2>1, <2>2, <3>1 DEF OwnOK
      <3> QED BY <3>1
    <2>4. pc'[r] = "write" /\ body'[r].op = "save" => FALSE
      BY DEF Editor
    <2> QED BY <2>2, <2>3, <2>4 DEF OwnOK, Image
  <1>3. \A a \in Categories \ overlapped' :
            r \in Replacing(a) => a = None /\ Editing(None) = {r}
    OBVIOUS
  <1>4. None \in Categories \ overlapped' => There(got[r].image)
    BY NoneApart
  <1> QED
    <2>1. None \in Categories \union {None}
      OBVIOUS
    <2> QED BY <1>1, <1>2, <1>3, <1>4, <2>1, Leaves

\* An editor of no category replaces no image.
LEMMA NotReplacing ==
    ASSUME NEW r \in Requests, pc[r] # "write" \/ body[r].op # "save"
    PROVE  \A a : r \notin Replacing(a)
  BY DEF Replacing, Editing

LEMMA RequestImages ==
    ASSUME IInv, NEW r \in Requests, Request(r)
    PROVE  IInv'
  <1>1. PICK b, step :
           /\ Begin(r, b, step)
           /\ \/ b.op = "save" /\ step = "verify"
              \/ b.op = "upload" /\ step = "exists"
              \/ b.op \in {"soft", "hard"} /\ step = "write"
              \/ b.op = "batch" /\ step = "verify"
              \/ step = "find"
    <2>1. CASE CreateCategoryHandler(r)
      BY <2>1 DEF CreateCategoryHandler
    <2>2. CASE UploadCategoryImageHandler(r)
      BY <2>2 DEF UploadCategoryImageHandler
    <2>3. CASE SoftDeleteCategoryHandler(r)
      BY <2>3 DEF SoftDeleteCategoryHandler
    <2>4. CASE DeleteCategoryHandler(r)
      BY <2>4 DEF DeleteCategoryHandler
    <2>5. CASE BatchUpdateCategoryPositionsHandler(r)
      BY <2>5 DEF BatchUpdateCategoryPositionsHandler
    <2>6. CASE GetCategoryDetailsHandler(r)
      BY <2>6 DEF GetCategoryDetailsHandler
    <2>7. CASE GetCategoryHierarchyStatsHandler(r)
      BY <2>7 DEF GetCategoryHierarchyStatsHandler
    <2>8. CASE GetDirectChildrenWithStatsHandler(r)
      BY <2>8 DEF GetDirectChildrenWithStatsHandler
    <2>9. CASE GetPopularCategoriesHandler(r)
      BY <2>9 DEF GetPopularCategoriesHandler
    <2> QED
      BY <2>1, <2>2, <2>3, <2>4, <2>5, <2>6, <2>7, <2>8, <2>9 DEF Request
  <1>2. Frame(r)
    BY <1>1, BeginFrame DEF IInv
  <1>3. /\ UNCHANGED <<t, s3, deleting, overlapped>> /\ pc[r] = "idle"
        /\ pc'[r] = step /\ body'[r] = b
    BY <1>1 DEF Begin, ghosts, IInv, Domains
  <1>4. ~Editor(r)' /\ GotOK(r)'
    BY <1>1, <1>3 DEF Editor, GotOK
  <1>5. pc[r] \notin Past
    BY <1>3 DEF Past
  <1>6. \A a : r \notin Replacing(a)
    BY <1>3, NotReplacing
  <1>7. ~(pc'[r] = "write" /\ body'[r].op = "upload")
    BY <1>1, <1>3
  <1> QED BY <1>2, <1>3, <1>4, <1>5, <1>6, <1>7, LeavesQuietly

\* A step that ends r's editing, if there was any, and uploads nothing.
LEMMA StepImages ==
    ASSUME IInv, NEW r \in Requests, NEW from, NEW to, NEW value,
           Step(r, from, to, value), GotOK(r)',
           to \notin {"image", "write"} \/ body[r].op \notin {"save", "upload"},
           from \notin Past \/ to \in Past,
           from # "write" \/ body[r].op # "save"
    PROVE  IInv'
  <1>1. Frame(r)
    BY StepFrame DEF IInv
  <1>2. /\ UNCHANGED <<t, s3, deleting, overlapped>> /\ pc[r] = from
        /\ pc'[r] = to /\ body' = body
    BY DEF Step, ghosts, IInv, Domains
  <1>3. ~Editor(r)' /\ ~(pc'[r] = "write" /\ body'[r].op = "upload")
    BY <1>2 DEF Editor
  <1>4. \A a : r \notin Replacing(a)
    BY <1>2, NotReplacing
  <1> QED BY <1>1, <1>2, <1>3, <1>4, LeavesQuietly

LEMMA ReadImages ==
    ASSUME IInv, NEW r \in Requests, Read(r)
    PROVE  IInv'
  <1>1. ASSUME NEW from \in Reading, NEW to \in Reading \union {"ok", "failed"},
               NEW value, Step(r, from, to, value)
        PROVE  IInv'
    <2>1. pc'[r] = to
      BY <1>1 DEF Step, IInv, Domains
    <2>2. GotOK(r)'
      BY <1>1, <2>1 DEF GotOK, Reading, Editor
    <2>3. /\ to \notin {"image", "write"} /\ from # "write"
          /\ from \notin Past
      BY <1>1 DEF Reading, Past
    <2> QED BY <1>1, <2>2, <2>3, StepImages
  <1>2. CASE Set(r)
    <2>1. Frame(r)
      BY <1>2, ReadFrame DEF IInv
    <2>2. /\ UNCHANGED <<t, s3, deleting, overlapped>> /\ pc[r] = "fill"
          /\ pc'[r] = "ok" /\ body' = body
      BY <1>2 DEF Set, IInv, Domains
    <2>3. ~Editor(r)' /\ GotOK(r)' /\ pc[r] \notin Past
      BY <2>2 DEF Editor, GotOK, Past
    <2>4. \A a : r \notin Replacing(a)
      BY <2>2, NotReplacing
    <2> QED BY <2>1, <2>2, <2>3, <2>4, LeavesQuietly
  <1>3. CASE Get(r)
    <2>1. \E to, value : /\ to \in {"ok", "fetch"}
                         /\ Step(r, "find", to, value)
      BY <1>3 DEF Get
    <2> QED BY <1>1, <2>1 DEF Reading
  <1>4. CASE FetchDetails(r) \/ FetchPopular(r)
    <2>1. \E to, value : /\ to \in {"fill", "failed"}
                         /\ Step(r, "fetch", to, value)
      BY <1>4 DEF FetchDetails, FetchPopular
    <2> QED BY <1>1, <2>1 DEF Reading
  <1>5. CASE FetchChildren(r)
    <2>1. \E to, value : /\ to \in {"fill", "count", "failed"}
                         /\ Step(r, "fetch", to, value)
      <3>1. CASE Step(r, "fetch", "failed", None)
        BY <3>1
      <3>2. ASSUME NEW ds,
                   Step(r, "fetch", IF ds = {} THEN "fill" ELSE "count",
                        [d \in ds |-> -1])
            PROVE  \E to, value : /\ to \in {"fill", "count", "failed"}
                                  /\ Step(r, "fetch", to, value)
        <4>1. (IF ds = {} THEN "fill" ELSE "count")
                  \in {"fill", "count", "failed"}
          OBVIOUS
        <4> QED BY <3>2, <4>1
      <3> QED BY <1>5, <3>1, <3>2 DEF FetchChildren
    <2> QED BY <1>1, <2>1 DEF Reading
  <1>6. CASE CountChild(r)
    <2>1. \E to, value : /\ to \in {"fill", "count"}
                         /\ Step(r, "count", to, value)
      BY <1>6 DEF CountChild
    <2> QED BY <1>1, <2>1 DEF Reading
  <1>7. CASE FetchStats(r)
    <2>1. \E to, value : /\ to \in {"count", "failed"}
                         /\ Step(r, "fetch", to, value)
      BY <1>7 DEF FetchStats
    <2> QED BY <1>1, <2>1 DEF Reading
  <1>8. CASE CountStats(r)
    <2>1. \E to, value : /\ to \in {"fill", "count", "failed"}
                         /\ Step(r, "count", to, value)
      BY <1>8 DEF CountStats
    <2> QED BY <1>1, <2>1 DEF Reading
  <1> QED BY <1>2, <1>3, <1>4, <1>5, <1>6, <1>7, <1>8 DEF Read


\* What is common to the writes of the tables.
LEMMA WroteFrame ==
    ASSUME Domains, NEW r \in Requests, NEW u, NEW next, Wrote(r, u, next)
    PROVE  /\ t' = u /\ pc'[r] = next
           /\ UNCHANGED <<s3, deleting, body>>
  BY DEF Wrote, Domains

\* The new row has the image that its request uploaded, or none.
LEMMA InsertImages ==
    ASSUME IInv, NEW r \in Requests, pc[r] = "write", NEW next \in Past,
           InsertCategory(r, next)
    PROVE  IInv'
  <1> DEFINE x == got[r].image
  <1>1. PICK c \in Fresh : \E u \in CreateCategory(t, c, Saved(r)) :
                               Wrote(r, u, next)
    BY DEF InsertCategory
  <1>2. PICK u \in CreateCategory(t, c, Saved(r)) : Wrote(r, u, next)
    BY <1>1
  <1>3. /\ t' = u /\ pc'[r] = next /\ UNCHANGED <<s3, deleting, body>>
    BY <1>2, WroteFrame DEF IInv
  <1>4. Frame(r)
    BY TransactionFrame DEF IInv, Transaction
  <1>5. c \in Categories /\ c # None
    BY NoneApart DEF Fresh
  <1>6. Becomes(t, t', c, x)
    BY <1>2, <1>3, <1>5, InsertBecomes DEF IInv, Saved
  <1>7. ~Editor(r)' /\ GotOK(r)' /\ OwnOK(r)'
    BY <1>3 DEF Past, Editor, GotOK, OwnOK
  <1>8. /\ body[r].op = "save" /\ got[r].about = None /\ Editor(r)
        /\ overlapped' = overlapped
    BY DEF InsertCategory, Editor
  <1>9. x \in {None, r} /\ OwnOK(r) /\ pc[r] \notin Past
    BY <1>8 DEF IInv, GotOK, Past
  <1>10. \A q \in Requests \ {r} : pc[q] \notin Past => x # q
    BY <1>9, NoneApart
  <1>11. \A a \in Categories : r \notin Replacing(a)
    BY <1>8, NoneApart DEF Replacing, Editing
  <1>12. There(x)
    BY <1>8, <1>9 DEF There, OwnOK, Editor
  <1>13. \A d \in Categories \ {c} : x \in Showing(d) => x = None
    <2> SUFFICES ASSUME NEW d \in Categories, r \in Showing(d) PROVE FALSE
      BY <1>9
    <2>1. \A e \in Stored(t) : Image(e) # r
      BY <1>9 DEF OwnOK
    <2>2. \A p \in Editing(d) : got[p].image # r
      BY <1>8, <1>9, NoneApart DEF OwnOK, Editing, Editor
    <2> QED BY <2>1, <2>2 DEF Showing
  <1> HIDE DEF x
  <1>14. \A a \in Categories \ overlapped' :
             r \in Replacing(a) => a = c /\ Editing(c) = {r}
    BY <1>11
  <1>15. c \in Categories \union {None} /\ overlapped \subseteq overlapped'
         /\ deleting' = deleting /\ s3 \subseteq s3'
    BY <1>3, <1>5, <1>8
  <1> QED
    BY <1>4, <1>6, <1>7, <1>10, <1>12, <1>13, <1>14, <1>15, Leaves DEF x

\* The row of an edit that nobody overlapped shows an image that is there.
LEMMA EditImages ==
    ASSUME IInv, NEW r \in Requests, pc[r] = "write", NEW next \in Past,
           EditCategory(r, next)
    PROVE  IInv'
  <1> DEFINE x == got[r].image
             c == got[r].about
  <1>1. PICK u \in UpdateCategory(t, c, Saved(r)) : Wrote(r, u, next)
    BY DEF EditCategory
  <1>2. /\ t' = u /\ pc'[r] = next /\ UNCHANGED <<s3, deleting, body>>
    BY <1>1, WroteFrame DEF IInv
  <1>3. Frame(r)
    BY TransactionFrame DEF IInv, Transaction
  <1>4. c \in Stored(t) /\ c \in Categories /\ c # None
    BY NoneApart DEF EditCategory, Stored
  <1>5. Becomes(t, t', c, x)
    BY <1>1, <1>2, <1>4, UpdateBecomes DEF IInv, Saved
  <1>6. ~Editor(r)' /\ GotOK(r)' /\ OwnOK(r)'
    BY <1>2 DEF Past, Editor, GotOK, OwnOK
  <1>7. /\ body[r].op = "save" /\ Editor(r) /\ r \in Editing(c)
        /\ overlapped' = overlapped \union
                         IF Editing(c) = {r} THEN {} ELSE {c}
    BY DEF EditCategory, Editor, Editing
  <1>8. \A q \in Requests \ {r} : pc[q] \notin Past => x # q
    BY <1>7 DEF IInv, OwnOK
  <1>9. \A a \in Categories \ overlapped' :
            r \in Replacing(a) => a = c /\ Editing(c) = {r}
    BY <1>7 DEF Replacing, Editing
  <1>10. c \in Categories \ overlapped' => There(x)
    <2> SUFFICES ASSUME c \notin overlapped' PROVE There(x)
      OBVIOUS
    <2>1. Editing(c) = {r} /\ c \notin overlapped
      BY <1>7
    <2>2. CASE x = r
      BY <1>7, <2>2 DEF IInv, OwnOK, There, Past
    <2>3. CASE x # r
      <3>1. Replacing(c) = {}
        BY <2>1, <2>3 DEF Replacing
      <3> QED BY <1>4, <1>7, <2>1, <2>3, <3>1 DEF IInv, ReadOK
    <2> QED BY <2>2, <2>3
  <1>11. \A d \in Categories \ {c} : x \in Showing(d) => x = None
    <2>1. x \in Showing(c)
      BY <1>7 DEF Showing
    <2> QED BY <1>4, <2>1 DEF IInv, Apart
  <1>12. c \in Categories \union {None} /\ overlapped \subseteq overlapped'
         /\ deleting' = deleting /\ s3 \subseteq s3'
    BY <1>2, <1>4, <1>7
  <1> QED
    BY <1>3, <1>5, <1>6, <1>8, <1>9, <1>10, <1>11, <1>12, Leaves

\* An uploaded image is shown once.
LEMMA SetImageImages ==
    ASSUME IInv, NEW r \in Requests, pc[r] = "write", NEW next \in Past,
           SetImage(r, next)
    PROVE  IInv'
  <1> DEFINE x == got[r].image
             c == body[r].about
  <1>1. PICK u \in UpdateCategoryImage(t, c, x) : Wrote(r, u, next)
    BY DEF SetImage
  <1>2. /\ t' = u /\ pc'[r] = next /\ UNCHANGED <<s3, deleting, body>>
    BY <1>1, WroteFrame DEF IInv
  <1>3. Frame(r)
    BY TransactionFrame DEF IInv, Transaction
  <1>4. c \in Stored(t) /\ c \in Categories /\ c # None
    BY NoneApart DEF SetImage, Stored
  <1>5. Becomes(t, t', c, x)
    BY <1>1, <1>2, <1>4, SetImageBecomes DEF IInv
  <1>6. ~Editor(r)' /\ GotOK(r)' /\ OwnOK(r)'
    BY <1>2 DEF Past, Editor, GotOK, OwnOK
  <1>7. /\ body[r].op = "upload" /\ ~Editor(r) /\ overlapped' = overlapped
    BY DEF SetImage, Editor
  <1>8. x = r /\ OwnOK(r) /\ pc[r] \notin Past
    BY <1>7 DEF IInv, GotOK, Past
  <1>9. \A a \in Categories \ overlapped' :
            r \in Replacing(a) => a = c /\ Editing(c) = {r}
    BY <1>7, NotReplacing
  <1>10. There(x)
    BY <1>7, <1>8 DEF OwnOK, There
  <1>11. \A d \in Categories \ {c} : x \in Showing(d) => x = None
    <2> SUFFICES ASSUME NEW d \in Categories, r \in Showing(d) PROVE FALSE
      BY <1>8
    <2>1. \A e \in Stored(t) : Image(e) # r
      BY <1>8 DEF OwnOK
    <2>2. \A p \in Editing(d) : got[p].image # r
      BY <1>7, <1>8 DEF OwnOK, Editing, Editor
    <2> QED BY <2>1, <2>2 DEF Showing
  <1>12. c \in Categories \union {None} /\ overlapped \subseteq overlapped'
         /\ deleting' = deleting /\ s3 \subseteq s3'
    BY <1>2, <1>4, <1>7
  <1>13. \A q \in Requests \ {r} : pc[q] \notin Past => x # q
    BY <1>8
  <1> QED
    BY <1>3, <1>5, <1>6, <1>9, <1>10, <1>11, <1>12, <1>13, Leaves

\* The other writes set no image.
LEMMA OtherImages ==
    ASSUME IInv, NEW r \in Requests, pc[r] = "write", body[r].op # "save",
           NEW u, Becomes(t, u, None, None), NEW next \in Past,
           Wrote(r, u, next), Frame(r), overlapped' = overlapped
    PROVE  IInv'
  <1>1. /\ t' = u /\ pc'[r] = next /\ UNCHANGED <<s3, deleting, body>>
    BY WroteFrame DEF IInv
  <1>2. Becomes(t, t', None, got[r].image)
    BY <1>1, NoneApart DEF Becomes, Stored
  <1>3. ~Editor(r)' /\ GotOK(r)' /\ OwnOK(r)'
    BY <1>1 DEF Past, Editor, GotOK, OwnOK
  <1>4. \A a \in Categories \ overlapped' :
            r \in Replacing(a) => a = None /\ Editing(None) = {r}
    BY NotReplacing
  <1>5. None \in Categories \union {None} /\ overlapped \subseteq overlapped'
        /\ deleting' = deleting /\ s3 \subseteq s3'
    BY <1>1
  <1>6. None \in Categories \ overlapped' => There(got[r].image)
    BY NoneApart
  <1> QED BY <1>2, <1>3, <1>4, <1>5, <1>6, Leaves


LEMMA TransactionImages ==
    ASSUME IInv, NEW r \in Requests, pc[r] = "write", NEW next \in Past,
           Transaction(r, next)
    PROVE  IInv'
  <1>1. CASE RemoveCategory(r, next)
    <2>1. PICK u \in HardDeleteCategory(t, body[r].about) : Wrote(r, u, next)
      BY <1>1 DEF RemoveCategory
    <2>2. Becomes(t, u, None, None)
      BY HardDeleteBecomes DEF IInv
    <2>3. body[r].op # "save" /\ overlapped' = overlapped
      BY <1>1 DEF RemoveCategory
    <2>4. Frame(r)
      BY TransactionFrame DEF IInv
    <2> QED BY <2>1, <2>2, <2>3, <2>4, OtherImages
  <1> QED
    BY <1>1, InsertImages, EditImages, SetImageImages DEF Transaction

\* The statements without a transaction.
LEMMA StatementImages ==
    ASSUME IInv, NEW r \in Requests, SoftDelete(r) \/ BatchUpdatePositions(r)
    PROVE  IInv'
  <1>1. Frame(r)
    BY SaveFrame DEF IInv, Save
  <1>2. CASE SoftDelete(r)
    <2>1. PICK u \in SoftDeleteCategory(t, body[r].about) :
             Wrote(r, u, "flush")
      BY <1>2 DEF SoftDelete
    <2>2. Becomes(t, u, None, None)
      BY SoftDeleteBecomes DEF IInv
    <2>3. /\ pc[r] = "write" /\ body[r].op # "save"
          /\ overlapped' = overlapped
      BY <1>2 DEF SoftDelete
    <2> QED BY <1>1, <2>1, <2>2, <2>3, OtherImages DEF Past
  <1>3. CASE BatchUpdatePositions(r)
    <2>1. PICK u \in BulkUpdateCategoryPositions(t, body[r].about, 1) :
             Wrote(r, u, "forget")
      BY <1>3 DEF BatchUpdatePositions
    <2>2. Becomes(t, u, None, None)
      BY BulkUpdateBecomes DEF IInv
    <2>3. /\ pc[r] = "write" /\ body[r].op # "save"
          /\ overlapped' = overlapped
      BY <1>3 DEF BatchUpdatePositions
    <2> QED BY <1>1, <2>1, <2>2, <2>3, OtherImages DEF Past
  <1> QED BY <1>2, <1>3

\* The steps before the write.
LEMMA PrepareImages ==
    ASSUME IInv, NEW r \in Requests,
           \/ VerifyAdminStatus(r) \/ LookupSlug(r) \/ ReadExisting(r)
           \/ HandleCategoryImage(r) \/ CheckExistence(r) \/ UploadImage(r)
    PROVE  IInv'
  <1>0. /\ Domains /\ GotOK(r) /\ Frame(r)
    BY SaveFrame DEF IInv, Save
  <1>1. ASSUME NEW from, from \notin Past, from # "write",
               NEW value, Step(r, from, "failed", value)
        PROVE  IInv'
    <2>1. pc'[r] = "failed"
      BY <1>0, <1>1 DEF Step, Domains
    <2>2. GotOK(r)'
      BY <2>1 DEF GotOK, Editor
    <2> QED BY <1>1, <2>2, StepImages DEF Past
  <1>2. CASE VerifyAdminStatus(r)
    <2>1. ASSUME Step(r, "verify",
                      IF body[r].op = "save" THEN "lookup" ELSE "write", None)
          PROVE  IInv'
      <3>1. /\ pc[r] = "verify" /\ body' = body
            /\ pc'[r] = IF body[r].op = "save" THEN "lookup" ELSE "write"
        BY <1>0, <2>1 DEF Step, Domains
      <3>2. body[r].op \in {"save", "batch"}
        BY <1>0, <3>1 DEF GotOK
      <3>3. GotOK(r)'
        BY <3>1, <3>2 DEF GotOK, Editor
      <3>4. CASE body[r].op = "save"
        BY <2>1, <3>3, <3>4, StepImages DEF Past
      <3>5. CASE body[r].op = "batch"
        BY <2>1, <3>3, <3>5, StepImages DEF Past
      <3> QED BY <3>2, <3>4, <3>5
    <2> QED BY <1>1, <1>2, <2>1 DEF VerifyAdminStatus, Past
  <1>3. CASE LookupSlug(r)
    <2>1. CASE Step(r, "lookup", "image", [about |-> None, image |-> None])
      <3>1. /\ pc[r] = "lookup" /\ pc'[r] = "image" /\ body' = body
            /\ got'[r] = [about |-> None, image |-> None]
            /\ UNCHANGED <<t, s3, deleting, overlapped>>
        BY <1>0, <2>1 DEF Step, Domains, Done, ghosts
      <3>2. body[r].op = "save"
        BY <1>0, <3>1 DEF GotOK
      <3>3. Editor(r)' /\ GotOK(r)' /\ got'[r].image = None
        BY <3>1, <3>2 DEF Editor, GotOK
      <3>4. got'[r].about \in Categories \union {None}
        BY <3>1
      <3> QED BY <1>0, <3>1, <3>3, <3>4, Takes
    <2>2. ASSUME NEW c \in GetCategoryBySlug(t, body[r].slug),
                 Step(r, "lookup", "existing", [about |-> c, image |-> None])
          PROVE  IInv'
      <3>1. /\ pc[r] = "lookup" /\ pc'[r] = "existing" /\ body' = body
            /\ got'[r] = [about |-> c, image |-> None]
        BY <1>0, <2>2 DEF Step, Domains, Done
      <3>2. body[r].op = "save" /\ c \in Categories /\ c # None
        BY <1>0, <3>1, NoneApart DEF GotOK, GetCategoryBySlug, Stored
      <3>3. GotOK(r)'
        BY <3>1, <3>2 DEF Editor, GotOK
      <3> QED BY <2>2, <3>3, StepImages DEF Past
    <2> QED BY <1>1, <1>3, <2>1, <2>2 DEF LookupSlug, Past
  <1>4. CASE ReadExisting(r)
    <2> DEFINE c == got[r].about
    <2>1. ASSUME GetCategoryByID(t, c),
                 Step(r, "existing", "image",
                      [got[r] EXCEPT !.image = t.rows[c].image])
          PROVE  IInv'
      <3>1. /\ pc[r] = "existing" /\ pc'[r] = "image" /\ body' = body
            /\ got'[r] = [got[r] EXCEPT !.image = t.rows[c].image]
            /\ UNCHANGED <<t, s3, deleting, overlapped>>
        BY <1>0, <2>1 DEF Step, Domains, Done, ghosts
      <3>2. /\ body[r].op = "save" /\ c \in Stored(t) /\ c \in Categories
            /\ c # None
            /\ got[r] = [about |-> c, image |-> got[r].image]
        BY <1>0, <2>1, <3>1, NoneApart
           DEF GotOK, GetCategoryByID, Kept, Stored
      <3>3. got'[r] = [about |-> c, image |-> Image(c)]
        BY <3>1, <3>2 DEF Image
      <3>4. Editor(r)' /\ GotOK(r)'
        BY <3>1, <3>2, <3>3 DEF Editor, GotOK
      <3>5. /\ got'[r].about \in Categories \union {None}
            /\ got'[r].about \in Stored(t)
            /\ got'[r].image = Image(got'[r].about)
        BY <3>2, <3>3
      <3> QED BY <1>0, <3>1, <3>4, <3>5, Takes
    <2> QED BY <1>1, <1>4, <2>1 DEF ReadExisting, Past
  <1>5. CASE HandleCategoryImage(r)
    <2>1. CASE Step(r, "image", "write", got[r])
      <3>1. /\ pc[r] = "image" /\ pc'[r] = "write" /\ body' = body
            /\ got'[r] = got[r] /\ UNCHANGED <<t, s3, deleting, overlapped>>
        BY <1>0, <2>1 DEF Step, Domains, Done, ghosts
      <3>2. /\ body[r].op = "save" /\ Editor(r)
            /\ got[r].about \in Categories \union {None}
        BY <1>0, <3>1 DEF GotOK, Editor
      <3>3. Editor(r)' /\ GotOK(r)'
        BY <1>0, <3>1, <3>2 DEF Editor, GotOK
      <3> QED BY <1>0, <3>1, <3>2, <3>3, Takes
    <2>2. CASE /\ pc[r] = "image"
               /\ s3' = s3 \union {r}
               /\ deleting' = deleting \union ({got[r].image} \ {None})
               /\ got' = [got EXCEPT ![r].image = r]
               /\ Go(r, "write")
               /\ UNCHANGED <<t, cache, body, tries, ghosts>>
      <3>1. /\ pc'[r] = "write" /\ body'[r] = body[r]
            /\ got'[r] = [got[r] EXCEPT !.image = r]
            /\ UNCHANGED <<t, overlapped>>
        BY <1>0, <2>2 DEF Domains, ghosts
      <3> QED BY <1>0, <2>2, <3>1, Replaces
    <2> QED BY <1>1, <1>5, <2>1, <2>2 DEF HandleCategoryImage, Past
  <1>6. CASE CheckExistence(r)
    <2>1. CASE Step(r, "exists", "upload", None)
      <3>1. /\ pc[r] = "exists" /\ pc'[r] = "upload" /\ body' = body
        BY <1>0, <2>1 DEF Step, Domains
      <3>2. GotOK(r)'
        BY <1>0, <3>1 DEF GotOK, Editor
      <3> QED BY <2>1, <3>2, StepImages DEF Past
    <2> QED BY <1>1, <1>6, <2>1 DEF CheckExistence, Past
  <1>7. CASE UploadImage(r)
    <2>1. CASE /\ pc[r] = "upload"
               /\ s3' = s3 \union {r}
               /\ got' = [got EXCEPT ![r] = [about |-> body[r].about,
                                             image |-> r]]
               /\ Go(r, "write")
               /\ UNCHANGED <<t, deleting, cache, body, tries, ghosts>>
      <3>1. /\ pc'[r] = "write" /\ body' = body /\ overlapped' = overlapped
            /\ got'[r].image = r /\ pc[r] \notin Past
        BY <1>0, <2>1 DEF Domains, ghosts, Past
      <3>2. body[r].op = "upload"
        BY <1>0, <2>1 DEF GotOK
      <3>3. ~Editor(r)' /\ GotOK(r)'
        BY <3>1, <3>2 DEF GotOK, Editor
      <3>4. \A a : r \notin Replacing(a)
        BY <2>1, NotReplacing
      <3> QED BY <1>0, <2>1, <3>1, <3>3, <3>4, LeavesQuietly
    <2> QED BY <1>1, <1>7, <2>1 DEF UploadImage, Past
  <1> QED BY <1>2, <1>3, <1>4, <1>5, <1>6, <1>7

\* The steps after the write, and those instead of it.
LEMMA EndImages ==
    ASSUME IInv, NEW r \in Requests,
           \/ Retry(r) \/ GiveUp(r) \/ StatementFails(r)
           \/ InvalidateAll(r) \/ InvalidateCategories(r)
    PROVE  IInv'
  <1>0. Domains /\ Frame(r)
    BY SaveFrame DEF IInv, Save
  <1>1. CASE Retry(r)
    BY <1>0, <1>1, ImagesUntouched DEF Retry, Frame, ghosts
  <1>2. CASE GiveUp(r)
    <2>1. /\ pc[r] = "write" /\ pc'[r] = "failed" /\ body' = body
          /\ UNCHANGED <<t, s3, deleting>> /\ Spoiled(r)
      BY <1>0, <1>2 DEF GiveUp, InTransaction, Domains
    <2>2. ~Editor(r)' /\ GotOK(r)' /\ pc'[r] \in Past
      BY <2>1 DEF Editor, GotOK, Past
    <2>3. overlapped \subseteq overlapped'
      BY <2>1 DEF Spoiled
    <2>4. \A a \in Categories \ overlapped' : r \notin Replacing(a)
      BY <2>1, NoneApart DEF Spoiled, Replacing, Editing
    <2> QED BY <1>0, <2>1, <2>2, <2>3, <2>4, LeavesQuietly
  <1>3. CASE StatementFails(r)
    <2>1. Step(r, "write", "failed", None) /\ ~InTransaction(r)
      BY <1>3 DEF StatementFails
    <2>2. pc[r] = "write" /\ pc'[r] = "failed"
      BY <1>0, <2>1 DEF Step, Domains
    <2>3. GotOK(r)' /\ body[r].op # "save"
      BY <2>1, <2>2 DEF GotOK, Editor, InTransaction
    <2> QED BY <2>1, <2>3, StepImages DEF Past
  <1>4. CASE InvalidateAll(r) \/ InvalidateCategories(r)
    <2>1. /\ pc[r] \in {"flush", "forget"} /\ pc'[r] = "ok" /\ body' = body
          /\ UNCHANGED <<t, s3, deleting, overlapped>>
      BY <1>0, <1>4 DEF InvalidateAll, InvalidateCategories, Domains
    <2>2. ~Editor(r)' /\ GotOK(r)' /\ pc'[r] \in Past
      BY <2>1 DEF Editor, GotOK, Past
    <2>3. \A a : r \notin Replacing(a)
      BY <2>1, NotReplacing
    <2> QED BY <1>0, <2>1, <2>2, <2>3, LeavesQuietly
  <1> QED BY <1>1, <1>2, <1>3, <1>4

LEMMA SaveImages ==
    ASSUME IInv, NEW r \in Requests, Save(r)
    PROVE  IInv'
  <1>1. CASE Commit(r) \/ CommitUnanswered(r)
    <2>1. pc[r] = "write"
      BY <1>1 DEF Commit, CommitUnanswered, InTransaction
    <2>2. PICK next \in Past : Transaction(r, next)
      BY <1>1 DEF Commit, CommitUnanswered, Past
    <2> QED BY <2>1, <2>2, TransactionImages
  <1> QED BY <1>1, StatementImages, PrepareImages, EndImages DEF Save

LEMMA InitIInv == Init => IInv
  <1> SUFFICES ASSUME Init PROVE IInv
    OBVIOUS
  <1>1. t \in Tables /\ ShownOnce(t)
    BY CategoriesAssumption DEF Init
  <1>2. Shaped(t)
    BY <1>1 DEF Shaped, Tables, Stored, Row
  <1>3. \A q \in Requests : pc[q] = "idle"
    BY DEF Init
  <1>4. \A q \in Requests : GotOK(q) /\ ReadOK(q) /\ ~Editor(q)
    BY <1>3 DEF GotOK, ReadOK, Editor
  <1>5. \A q \in Requests : OwnOK(q)
    BY <1>1, <1>3, <1>4 DEF OwnOK, ShownOnce, Image, Init
  <1>6. \A c : Editing(c) = {}
    BY <1>3 DEF Editing
  <1>7. Apart
    BY <1>1, <1>6 DEF Apart, Showing, ShownOnce, Image
  <1>8. \A c \in Categories : RowOK(c)
    BY DEF RowOK, There, Image, Init
  <1>9. Domains
    BY DEF Init, Domains
  <1> QED BY <1>2, <1>4, <1>5, <1>7, <1>8, <1>9 DEF IInv

LEMMA NextIInv == IInv /\ [Next]_vars => IInv'
  <1> SUFFICES ASSUME IInv, [Next]_vars PROVE IInv'
    OBVIOUS
  <1>1. CASE Expire \/ UNCHANGED vars
    <2>1. UNCHANGED <<t, s3, deleting, pc, body, got, tries, made, overlapped>>
      BY <1>1 DEF Expire, Drop, vars, ghosts
    <2>2. Domains'
      BY <2>1 DEF IInv, Domains
    <2> QED BY <2>1, <2>2, ImagesUntouched
  <1> QED BY <1>1, RequestImages, ReadImages, SaveImages, Deletes DEF Next

\* The image that a category shows is in S3, except while an edit is replacing
\* it, and after edits of one category overlapped or one failed halfway.
THEOREM CategoryImagesThere == Spec => []ImagesThere
  <1>1. IInv => ImagesThere
    <2> SUFFICES ASSUME IInv, NEW c \in Stored(t) \ overlapped,
                        t.rows[c].image \notin s3 \union {None}
                 PROVE  \E r \in Editing(c) : pc[r] = "write"
                                              /\ got[r].image = r
      BY DEF ImagesThere
    <2>1. RowOK(c)
      BY DEF IInv, Stored
    <2> QED BY <2>1 DEF RowOK, There, Image, Replacing
  <1> QED BY <1>1, InitIInv, NextIInv, PTL DEF Spec


-----------------------------------------------------------------------------
(* The paths.  A statement computes the path of every row it writes from   *)
(* the path of the parent as it finds it, so that it leaves the paths      *)
(* following the parents where no row that it does not write hangs below   *)
(* one whose parent it changes.                                            *)

Fields == {"parent", "path"}

\* The rows have a parent, if only None, and a path.
Rooted(u) ==
    /\ "rows" \in DOMAIN u /\ DOMAIN u.rows = Categories
    /\ \A c \in Stored(u) : /\ Fields \subseteq DOMAIN u.rows[c]
                            /\ u.rows[c].parent \in Categories \union {None}

\* In v row c has that parent and the path of the trigger, and every other row
\* is what it was in u.
Written(u, v, c, parent) ==
    /\ "rows" \in DOMAIN v /\ DOMAIN v.rows = Categories
    /\ Fields \subseteq DOMAIN v.rows[c]
    /\ v.rows[c].parent = parent
    /\ v.rows[c].path = update_category_path(u, c, parent)
    /\ \A d \in Categories \ {c} : v.rows[d] = u.rows[d]

LEMMA WriteIsWritten ==
    ASSUME NEW u, "rows" \in DOMAIN u, DOMAIN u.rows = Categories,
           NEW c \in Categories, NEW row, Fields \subseteq DOMAIN row
    PROVE  Written(u, Write(u, c, row), c, row.parent)
  <1> DEFINE path == update_category_path(u, c, row.parent)
             slug == update_category_slug(u, c, row.parent, row.name)
             new == [row EXCEPT !.path = path, !.slug = slug]
             v == Write(u, c, row)
  <1>1. v = [u EXCEPT !.rows[c] = new]
    BY DEF Write
  <1>2. path = update_category_path(u, c, row.parent)
    OBVIOUS
  <1> HIDE DEF path, slug, v
  <1>3. /\ DOMAIN new = DOMAIN row /\ new.parent = row.parent
        /\ new.path = path
    BY DEF Fields
  <1> HIDE DEF new
  <1>4. /\ "rows" \in DOMAIN v /\ DOMAIN v.rows = Categories
        /\ v.rows[c] = new
        /\ \A d \in Categories \ {c} : v.rows[d] = u.rows[d]
    BY <1>1
  <1>5. Written(u, v, c, row.parent)
    BY <1>2, <1>3, <1>4 DEF Written
  <1> QED BY <1>5 DEF v

LEMMA InsertWrites ==
    ASSUME NEW u, Rooted(u), NEW c \in Categories, NEW p,
           NEW v \in CreateCategory(u, c, p)
    PROVE  Written(u, v, c, p.parent)
  <1> DEFINE row == [parent |-> p.parent, name |-> p.name, path |-> <<>>,
                     slug |-> [base |-> <<>>, n |-> 0], active |-> TRUE,
                     position |-> set_category_position(u, p.parent),
                     described |-> p.described, image |-> p.image]
  <1>1. Fields \subseteq DOMAIN row /\ row.parent = p.parent
    BY DEF Fields
  <1>2. v = Write(u, c, row)
    BY DEF CreateCategory
  <1> HIDE DEF row
  <1> QED BY <1>1, <1>2, WriteIsWritten DEF Rooted

LEMMA EditWrites ==
    ASSUME NEW u, Rooted(u), NEW c \in Stored(u), NEW p,
           NEW v \in UpdateCategory(u, c, p)
    PROVE  Written(u, v, c, p.parent)
  <1> DEFINE row == [u.rows[c] EXCEPT !.name = p.name, !.parent = p.parent,
                                      !.image = p.image, !.position = 0,
                                      !.described = FALSE]
  <1>1. Fields \subseteq DOMAIN u.rows[c] /\ c \in Categories
    BY DEF Rooted, Stored
  <1>2. Fields \subseteq DOMAIN row /\ row.parent = p.parent
    BY <1>1 DEF Fields
  <1>3. v = Write(u, c, row)
    BY DEF UpdateCategory
  <1> HIDE DEF row
  <1> QED BY <1>1, <1>2, <1>3, WriteIsWritten DEF Rooted

LEMMA SetImageWrites ==
    ASSUME NEW u, Rooted(u), NEW c \in Stored(u), NEW x,
           NEW v \in UpdateCategoryImage(u, c, x)
    PROVE  Written(u, v, c, u.rows[c].parent)
  <1> DEFINE row == [u.rows[c] EXCEPT !.image = x]
  <1>1. Fields \subseteq DOMAIN u.rows[c] /\ c \in Categories
    BY DEF Rooted, Stored
  <1>2. Fields \subseteq DOMAIN row /\ row.parent = u.rows[c].parent
    BY <1>1 DEF Fields
  <1>3. v = Write(u, c, row)
    BY DEF UpdateCategoryImage
  <1> HIDE DEF row
  <1> QED BY <1>1, <1>2, <1>3, WriteIsWritten DEF Rooted

\* A row without others below it may get another parent; one that keeps its
\* parent is given the path it has.
LEMMA WrittenCoheres ==
    ASSUME NEW u, Rooted(u), Coherent(u), NEW c \in Categories,
           NEW parent \in Categories \union {None}, NEW v,
           Written(u, v, c, parent),
           \/ /\ parent # c
              /\ \A d \in Stored(u) \ {c} : u.rows[d].parent # c
           \/ c \in Stored(u) /\ parent = u.rows[c].parent
    PROVE  Coherent(v)
  <1> SUFFICES ASSUME NEW d \in Stored(v)
               PROVE  v.rows[d].path =
                        IF v.rows[d].parent = None THEN <<d>>
                        ELSE Append(v.rows[v.rows[d].parent].path, d)
    BY DEF Coherent
  <1>0. d \in Categories
    BY DEF Stored
  <1>1. CASE c \in Stored(u) /\ parent = u.rows[c].parent
    <2>1. v.rows[c].path = u.rows[c].path
      BY <1>1 DEF Written, Coherent, update_category_path
    <2>2. \A e \in Categories : v.rows[e].path = u.rows[e].path
      BY <2>1 DEF Written
    <2>3. d \in Stored(u) /\ v.rows[d].parent = u.rows[d].parent
      BY <1>0, <1>1 DEF Written, Stored
    <2>4. u.rows[d].parent \in Categories \union {None}
      BY <2>3 DEF Rooted
    <2> QED BY <1>0, <2>2, <2>3, <2>4 DEF Coherent
  <1>2. CASE /\ parent # c
             /\ \A e \in Stored(u) \ {c} : u.rows[e].parent # c
    <2>1. CASE d = c
      <3>1. parent # None => v.rows[parent] = u.rows[parent]
        BY <1>2 DEF Written
      <3> QED BY <2>1, <3>1 DEF Written, update_category_path
    <2>2. CASE d # c
      <3>1. d \in Stored(u) /\ v.rows[d] = u.rows[d]
        BY <1>0, <2>2 DEF Written, Stored
      <3>2. /\ u.rows[d].parent \in Categories \union {None}
            /\ u.rows[d].parent # c
        BY <1>2, <2>2, <3>1 DEF Rooted
      <3>3. u.rows[d].parent # None =>
                v.rows[u.rows[d].parent] = u.rows[u.rows[d].parent]
        BY <3>2 DEF Written
      <3> QED BY <3>1, <3>3 DEF Coherent
    <2> QED BY <2>1, <2>2
  <1> QED BY <1>1, <1>2

\* v has rows of u, each with its parent and, if the paths follow the parents
\* in u, its path.
Alike(u, v) ==
    /\ "rows" \in DOMAIN v /\ DOMAIN v.rows = Categories
    /\ Stored(v) \subseteq Stored(u)
    /\ \A c \in Stored(u) : Fields \subseteq DOMAIN v.rows[c]
    /\ \A c \in Categories :
          /\ v.rows[c].parent = u.rows[c].parent
          /\ Coherent(u) => v.rows[c].path = u.rows[c].path

LEMMA WriteAlike ==
    ASSUME NEW u, Rooted(u), NEW v, Alike(u, v), NEW c \in Stored(u),
           NEW columns, Fields \intersect DOMAIN columns = {}
    PROVE  Alike(u, Write(v, c, Updated(v.rows[c], columns)))
  <1> DEFINE row == Updated(v.rows[c], columns)
             w == Write(v, c, row)
  <1>1. c \in Categories
    BY DEF Stored
  <1>2. Fields \subseteq DOMAIN row /\ row.parent = u.rows[c].parent
    BY <1>1 DEF Updated, Alike, Fields
  <1> HIDE DEF row
  <1>3. Written(v, w, c, u.rows[c].parent)
    BY <1>1, <1>2, WriteIsWritten DEF Alike
  <1> HIDE DEF w
  <1>4. ASSUME Coherent(u) PROVE w.rows[c].path = u.rows[c].path
    <2>1. u.rows[c].parent \in Categories \union {None}
      BY DEF Rooted
    <2>2. u.rows[c].parent # None =>
              v.rows[u.rows[c].parent].path = u.rows[u.rows[c].parent].path
      BY <1>4, <2>1 DEF Alike
    <2> QED BY <1>3, <1>4, <2>2 DEF Written, update_category_path, Coherent
  <1>5. Alike(u, w)
    BY <1>1, <1>3, <1>4 DEF Written, Alike, Stored
  <1> QED BY <1>5 DEF w, row

LEMMA WriteAllAlike ==
    ASSUME NEW u, Rooted(u), NEW cs \in SUBSET Stored(u), NEW columns,
           Fields \intersect DOMAIN columns = {},
           NEW v \in WriteAll(u, cs, columns)
    PROVE  Alike(u, v)
  <1>1. cs \in SUBSET Categories
    BY DEF Stored
  <1>2. PICK n \in Nat : \E s : \E f : Runs(u, cs, columns, v, n, s, f)
    BY <1>1, WriteAllRuns
  <1>3. PICK s : \E f : Runs(u, cs, columns, v, n, s, f)
    BY <1>2
  <1>4. PICK f : Runs(u, cs, columns, v, n, s, f)
    BY <1>3
  <1> DEFINE S == {k \in 0..n : ~Alike(u, f[k])}
  <1>5. ASSUME S # {} PROVE FALSE
    <2>1. S \in SUBSET Nat
      OBVIOUS
    <2>2. PICK k \in S : \A j \in S : k <= j
      <3> HIDE DEF S
      <3> QED BY <1>5, <2>1, LeastNumber
    <2>3. CASE k = 0
      <3>1. Alike(u, u)
        BY DEF Alike, Rooted
      <3> QED BY <1>4, <2>2, <2>3, <3>1 DEF Runs
    <2>4. CASE k # 0
      <3>1. k \in 1..n /\ k - 1 \in 0..n /\ k - 1 \notin S
        BY <2>2, <2>4
      <3>2. f[k] = OneMore(f[k - 1], s, columns, k) /\ s[k] \in Stored(u)
        BY <1>4, <3>1 DEF Runs
      <3>3. Alike(u, f[k])
        BY <3>1, <3>2, WriteAlike DEF OneMore
      <3> QED BY <2>2, <3>3
    <2> QED BY <2>3, <2>4
  <1>6. Alike(u, f[n])
    BY <1>5
  <1> QED BY <1>4, <1>6 DEF Runs

LEMMA AlikeCoheres ==
    ASSUME NEW u, Rooted(u), NEW v, Alike(u, v)
    PROVE  Rooted(v) /\ (Coherent(u) => Coherent(v))
  <1>1. Rooted(v)
    BY DEF Rooted, Alike, Stored
  <1>2. ASSUME Coherent(u), NEW c \in Stored(v)
        PROVE  v.rows[c].path =
                 IF v.rows[c].parent = None THEN <<c>>
                 ELSE Append(v.rows[v.rows[c].parent].path, c)
    <2>1. c \in Stored(u) /\ c \in Categories
      BY DEF Alike, Stored
    <2>2. u.rows[c].parent \in Categories \union {None}
      BY <2>1 DEF Rooted
    <2>3. v.rows[c].parent = u.rows[c].parent /\ v.rows[c].path = u.rows[c].path
      BY <1>2, <2>1 DEF Alike
    <2>4. u.rows[c].parent # None =>
              v.rows[u.rows[c].parent].path = u.rows[u.rows[c].parent].path
      BY <1>2, <2>2 DEF Alike
    <2> QED BY <1>2, <2>1, <2>3, <2>4 DEF Coherent
  <1> QED BY <1>1, <1>2 DEF Coherent

\* Row c of cs has become a root.
IsRoot(v, c) == v.rows[c].parent = None /\ v.rows[c].path = <<c>>

\* Rows of cs may have become roots, and the others are what they were.
Uprooted(u, cs, v) ==
    /\ "rows" \in DOMAIN v /\ DOMAIN v.rows = Categories
    /\ Stored(v) \subseteq Stored(u)
    /\ \A c \in cs :
          /\ Fields \subseteq DOMAIN v.rows[c]
          /\ v.rows[c].parent \in {u.rows[c].parent, None}
    /\ \A c \in Categories \ cs : v.rows[c] = u.rows[c]

\* Row c becomes one.
Turned(u, cs, v, c, w) ==
    /\ Uprooted(u, cs, w) /\ IsRoot(w, c)
    /\ \A d \in Categories \ {c} : w.rows[d] = v.rows[d]

\* What a foreign key sets to NULL.
Uproots(columns) == DOMAIN columns = {"parent"} /\ columns.parent = None

LEMMA WriteUproots ==
    ASSUME NEW u, NEW cs \in SUBSET Stored(u), NEW v, Uprooted(u, cs, v),
           NEW c \in cs, NEW columns, Uproots(columns)
    PROVE  Turned(u, cs, v, c, Write(v, c, Updated(v.rows[c], columns)))
  <1> DEFINE row == Updated(v.rows[c], columns)
             w == Write(v, c, row)
  <1>1. c \in Categories
    BY DEF Stored
  <1>2. Fields \subseteq DOMAIN row /\ row.parent = None
    BY DEF Updated, Uprooted, Uproots, Fields
  <1> HIDE DEF row
  <1>3. Written(v, w, c, None)
    BY <1>1, <1>2, WriteIsWritten DEF Uprooted
  <1> HIDE DEF w
  <1>4. IsRoot(w, c)
    BY <1>3 DEF Written, update_category_path, IsRoot
  <1>5. Uprooted(u, cs, w)
    BY <1>1, <1>3 DEF Written, Uprooted, Stored
  <1>6. \A d \in Categories \ {c} : w.rows[d] = v.rows[d]
    BY <1>3 DEF Written
  <1>7. Turned(u, cs, v, c, w)
    BY <1>4, <1>5, <1>6 DEF Turned
  <1> QED BY <1>7 DEF w, row

LEMMA WriteAllUproots ==
    ASSUME NEW u, Rooted(u), NEW cs \in SUBSET Stored(u),
           NEW v \in WriteAll(u, cs, [parent |-> None])
    PROVE  Uprooted(u, cs, v) /\ \A c \in cs : IsRoot(v, c)
  <1> DEFINE columns == [parent |-> None]
  <1>1. cs \in SUBSET Categories /\ v \in WriteAll(u, cs, columns)
    BY DEF Stored
  <1>2. Uproots(columns)
    BY DEF Uproots
  <1> HIDE DEF columns
  <1>3. PICK n \in Nat : \E s : \E f : Runs(u, cs, columns, v, n, s, f)
    BY <1>1, WriteAllRuns
  <1>4. PICK s : \E f : Runs(u, cs, columns, v, n, s, f)
    BY <1>3
  <1>5. PICK f : Runs(u, cs, columns, v, n, s, f)
    BY <1>4
  <1> DEFINE Ok(k) == /\ Uprooted(u, cs, f[k])
                      /\ \A i \in 1..k : IsRoot(f[k], s[i])
             S == {k \in 0..n : ~Ok(k)}
  <1>6. ASSUME S # {} PROVE FALSE
    <2>1. S \in SUBSET Nat
      OBVIOUS
    <2>2. PICK k \in S : \A j \in S : k <= j
      <3> HIDE DEF S
      <3> QED BY <1>6, <2>1, LeastNumber
    <2>3. CASE k = 0
      <3>1. Uprooted(u, cs, u)
        BY DEF Uprooted, Rooted
      <3>2. f[0] = u
        BY <1>5 DEF Runs
      <3> QED BY <2>2, <2>3, <3>1, <3>2
    <2>4. CASE k # 0
      <3>1. k \in 1..n /\ k - 1 \in 0..n /\ k - 1 \notin S
        BY <2>2, <2>4
      <3>2. /\ Uprooted(u, cs, f[k - 1])
            /\ \A i \in 1..(k - 1) : IsRoot(f[k - 1], s[i])
        BY <3>1
      <3>3. /\ f[k] = Write(f[k - 1], s[k],
                            Updated(f[k - 1].rows[s[k]], columns))
            /\ s[k] \in cs
        BY <1>5, <3>1 DEF Runs, OneMore
      <3>4. /\ Uprooted(u, cs, f[k]) /\ IsRoot(f[k], s[k])
            /\ \A d \in Categories \ {s[k]} : f[k].rows[d] = f[k - 1].rows[d]
        <4>1. Turned(u, cs, f[k - 1], s[k],
                     Write(f[k - 1], s[k],
                           Updated(f[k - 1].rows[s[k]], columns)))
          <5> HIDE DEF S, Ok
          <5> QED BY <1>2, <3>2, <3>3, WriteUproots
        <4> QED BY <3>3, <4>1 DEF Turned
      <3>5. ASSUME NEW i \in 1..k PROVE IsRoot(f[k], s[i])
        <4>1. CASE s[i] = s[k]
          BY <3>4, <4>1
        <4>2. CASE s[i] # s[k]
          <5>1. i \in 1..(k - 1) /\ s[i] \in Categories
            BY <1>1, <1>5, <3>1, <4>2 DEF Runs
          <5>2. IsRoot(f[k - 1], s[i])
            BY <3>2, <5>1
          <5> QED BY <3>4, <4>2, <5>1, <5>2 DEF IsRoot
        <4> QED BY <4>1, <4>2
      <3> QED BY <2>2, <3>4, <3>5
    <2> QED BY <2>3, <2>4
  <1>7. Ok(n)
    BY <1>6
  <1>8. f[n] = v /\ \A c \in cs : \E k \in 1..n : s[k] = c
    BY <1>5 DEF Runs
  <1> QED BY <1>7, <1>8


\* A hard delete leaves the paths following the parents if the children of the
\* deleted row, which become roots, have no children.
LEMMA HardDeleteCoheres ==
    ASSUME NEW u, Rooted(u), NEW c \in Categories,
           NEW v \in HardDeleteCategory(u, c)
    PROVE  /\ Rooted(v) /\ Stored(v) \subseteq Stored(u)
           /\ \A d \in Stored(v) :
                 v.rows[d].parent \in {u.rows[d].parent, None}
           /\ Coherent(u) /\ (\A d \in GetCategoriesByParentID(u, c) :
                                 GetCategoriesByParentID(u, d) = {})
              => Coherent(v)
  <1> DEFINE cs == {d \in Stored(u) \ {c} : u.rows[d].parent = c}
  <1>1. PICK w \in WriteAll(u, cs, [parent |-> None]) :
           v = [w EXCEPT !.rows[c] = None,
                         !.of = [p \in Products |->
                                    IF @[p] = c THEN None ELSE @[p]]]
    BY DEF HardDeleteCategory
  <1>2. cs \in SUBSET Stored(u)
    OBVIOUS
  <1>3. \A d \in Stored(u) \ {c} : d \in cs <=> u.rows[d].parent = c
    OBVIOUS
  <1>4. \A d \in cs : d # c
    OBVIOUS
  <1>5. cs \subseteq GetCategoriesByParentID(u, c)
    BY CategoryTreeAssumption DEF GetCategoriesByParentID
  <1> HIDE DEF cs
  <1>6. Uprooted(u, cs, w) /\ \A d \in cs : IsRoot(w, d)
    BY <1>1, <1>2, WriteAllUproots
  <1>7. /\ "rows" \in DOMAIN v
        /\ v.rows = [d \in Categories |-> IF d = c THEN None ELSE w.rows[d]]
    BY <1>1, <1>6 DEF Uprooted
  <1>8. \A d \in Stored(v) : /\ d \in Stored(u) /\ d \in Categories \ {c}
                             /\ v.rows[d] = w.rows[d]
    BY <1>6, <1>7 DEF Stored, Uprooted
  <1>9. \A d \in Stored(v) : v.rows[d].parent \in {u.rows[d].parent, None}
    BY <1>6, <1>8 DEF Uprooted
  <1>10. Rooted(v)
    <2>1. \A d \in Stored(v) : Fields \subseteq DOMAIN v.rows[d]
      BY <1>6, <1>8 DEF Uprooted, Rooted
    <2> QED BY <1>7, <1>8, <1>9, <2>1 DEF Rooted
  <1>11. ASSUME Coherent(u), NEW d \in Stored(v),
                \A a \in GetCategoriesByParentID(u, c) :
                    GetCategoriesByParentID(u, a) = {}
         PROVE  v.rows[d].path =
                  IF v.rows[d].parent = None THEN <<d>>
                  ELSE Append(v.rows[v.rows[d].parent].path, d)
    <2>1. CASE d \in cs
      BY <1>6, <1>8, <2>1 DEF IsRoot
    <2>2. CASE d \notin cs
      <3> DEFINE e == u.rows[d].parent
      <3>1. d \in Stored(u) /\ d \in Categories /\ v.rows[d] = u.rows[d]
        BY <1>6, <1>8, <2>2 DEF Uprooted
      <3>2. e \in Categories \union {None} /\ e # c
        BY <1>3, <1>8, <2>2, <3>1 DEF Rooted
      <3>3. e # None => e \notin cs
        BY <1>5, <1>11, <3>1 DEF GetCategoriesByParentID
      <3>4. e # None => v.rows[e] = u.rows[e]
        BY <1>6, <1>7, <3>2, <3>3 DEF Uprooted
      <3> QED BY <1>11, <3>1, <3>4 DEF Coherent
    <2> QED BY <2>1, <2>2
  <1> QED BY <1>8, <1>9, <1>10, <1>11 DEF Coherent

\* A request to delete names a category.
AboutOK(r) == pc[r] # "idle" /\ body[r].op = "hard" =>
                  body[r].about \in Categories

PathInv ==
    /\ Domains /\ Rooted(t)
    /\ \A c \in Stored(t) : c \notin Fresh /\ t.rows[c].parent \notin Fresh
    /\ ~moved => Coherent(t)
    /\ \A r \in Requests : AboutOK(r)

LEMMA AboutStays ==
    ASSUME Domains, NEW r \in Requests, Act(r), AboutOK(r)
    PROVE  AboutOK(r)'
  <1>1. CASE Request(r)
    BY <1>1
       DEF Request, CreateCategoryHandler, UploadCategoryImageHandler,
           SoftDeleteCategoryHandler, DeleteCategoryHandler,
           BatchUpdateCategoryPositionsHandler, GetCategoryDetailsHandler,
           GetCategoryHierarchyStatsHandler,
           GetDirectChildrenWithStatsHandler, GetPopularCategoriesHandler,
           Begin, AboutOK, Domains, Stored
  <1>2. CASE Read(r)
    BY <1>2 DEF Read, Get, Set, FetchDetails, FetchPopular, FetchChildren,
                CountChild, FetchStats, CountStats, Step, AboutOK
  <1>3. CASE Save(r)
    <2>1. body' = body
      BY <1>3
         DEF Save, VerifyAdminStatus, LookupSlug, ReadExisting,
             HandleCategoryImage, CheckExistence, UploadImage, Commit, Retry,
             GiveUp, CommitUnanswered, SoftDelete, BatchUpdatePositions,
             StatementFails, InvalidateAll, InvalidateCategories, Step,
             Transaction, InsertCategory, EditCategory, SetImage,
             RemoveCategory, Wrote
    <2>2. pc[r] # "idle"
      BY <1>3
         DEF Save, VerifyAdminStatus, LookupSlug, ReadExisting,
             HandleCategoryImage, CheckExistence, UploadImage, Commit, Retry,
             GiveUp, CommitUnanswered, SoftDelete, BatchUpdatePositions,
             StatementFails, InvalidateAll, InvalidateCategories, Step,
             InTransaction
    <2> QED BY <2>1, <2>2 DEF AboutOK
  <1> QED BY <1>1, <1>2, <1>3 DEF Act

LEMMA PathsStay ==
    ASSUME PathInv, Domains', t' = t, made' = made, moved' = moved,
           \A r \in Requests : AboutOK(r)'
    PROVE  PathInv'
  BY DEF PathInv, Fresh

\* A statement that only rewrites rows.
LEMMA PathsAlike ==
    ASSUME PathInv, Domains', Alike(t, t'), made' = made, moved' = moved,
           \A r \in Requests : AboutOK(r)'
    PROVE  PathInv'
  <1>1. Rooted(t') /\ (Coherent(t) => Coherent(t'))
    BY AlikeCoheres DEF PathInv
  <1>2. Rooted(t)'
    BY <1>1 DEF Rooted, Stored
  <1>3. Coherent(t) => Coherent(t)'
    BY <1>1 DEF Coherent, Stored
  <1>4. \A c \in Stored(t)' : /\ c \in Stored(t)
                              /\ t'.rows[c].parent = t.rows[c].parent
    BY DEF Alike, Stored
  <1>5. Fresh' = Fresh
    BY DEF Fresh
  <1> QED BY <1>2, <1>3, <1>4, <1>5 DEF PathInv

\* One row is written, which may be new.
LEMMA PathsWritten ==
    ASSUME PathInv, Domains', NEW c \in Categories,
           NEW parent \in (Categories \ Fresh) \union {None},
           Written(t, t', c, parent),
           Fresh' \subseteq Fresh \ {c},
           moved => moved',
           ~moved' => \/ /\ parent # c
                         /\ \A d \in Stored(t) \ {c} : t.rows[d].parent # c
                      \/ c \in Stored(t) /\ parent = t.rows[c].parent,
           \A r \in Requests : AboutOK(r)'
    PROVE  PathInv'
  <1>1. parent \in Categories \union {None} /\ parent \notin Fresh
    BY CategoryTreeAssumption DEF Fresh
  <1>2. \A d \in Categories \ {c} : t'.rows[d] = t.rows[d]
    BY DEF Written
  <1>3. ASSUME NEW d \in Stored(t)', d # c
        PROVE  d \in Stored(t) /\ t'.rows[d] = t.rows[d]
    BY <1>2, <1>3 DEF Stored
  <1>4. Rooted(t)'
    <2>1. \A d \in Stored(t)' :
              /\ Fields \subseteq DOMAIN t'.rows[d]
              /\ t'.rows[d].parent \in Categories \union {None}
      BY <1>1, <1>3 DEF Written, PathInv, Rooted
    <2> QED BY <2>1 DEF Written, Rooted
  <1>5. \A d \in Stored(t)' : d \notin Fresh' /\ t'.rows[d].parent \notin Fresh'
    BY <1>1, <1>3 DEF Written, PathInv
  <1>6. ASSUME ~moved' PROVE Coherent(t)'
    <2>1. Coherent(t')
      BY <1>1, <1>6, WrittenCoheres DEF PathInv
    <2> QED BY <2>1 DEF Coherent, Stored
  <1> QED BY <1>4, <1>5, <1>6 DEF PathInv


LEMMA TransactionPaths ==
    ASSUME PathInv, NEW r \in Requests, NEW next, Transaction(r, next),
           pc[r] = "write", \A q \in Requests : AboutOK(q)'
    PROVE  PathInv'
  <1>0. Domains' /\ None \notin Categories
    BY TransactionFrame, NoneApart DEF PathInv, Frame
  <1>1. CASE InsertCategory(r, next)
    <2> DEFINE p == Saved(r)
    <2>1. PICK c \in Fresh : /\ \E u \in CreateCategory(t, c, p) :
                                   Wrote(r, u, next)
                             /\ made' = [made EXCEPT ![r] = @ \union {c}]
      BY <1>1 DEF InsertCategory
    <2>2. c \in Categories /\ t' \in CreateCategory(t, c, p)
      BY <2>1 DEF Wrote, Fresh
    <2>3. /\ p.parent \in Stored(t) \union {None} /\ moved' = moved
      BY <1>1 DEF InsertCategory, ParentStored, Saved
    <2> HIDE DEF p
    <2>4. Written(t, t', c, p.parent)
      BY <2>2, InsertWrites DEF PathInv
    <2>5. Fresh' \subseteq Fresh \ {c}
      <3>1. DOMAIN made = Requests
        BY DEF PathInv, Domains
      <3>2. c \in made'[r] /\ \A q \in Requests : made[q] \subseteq made'[q]
        BY <2>1, <3>1
      <3>3. ASSUME NEW d \in Fresh' PROVE d \in Fresh /\ d # c
        <4>1. /\ d \in Categories
              /\ d \notin UNION {Stored(u) : u \in FirstTables}
              /\ d \notin UNION {made'[q] : q \in Requests}
          BY <3>3 DEF Fresh
        <4> QED BY <3>2, <4>1 DEF Fresh
      <3> QED BY <3>3
    <2>6. p.parent \in (Categories \ Fresh) \union {None} /\ p.parent # c
      BY <1>0, <2>1, <2>2, <2>3 DEF PathInv, Stored
    <2>7. \A d \in Stored(t) : t.rows[d].parent # c
      BY <2>1 DEF PathInv
    <2> QED BY <1>0, <2>2, <2>3, <2>4, <2>5, <2>6, <2>7, PathsWritten
  <1>2. CASE EditCategory(r, next)
    <2> DEFINE p == Saved(r)
               c == got[r].about
    <2>1. /\ c \in Stored(t) /\ t' \in UpdateCategory(t, c, p)
          /\ made' = made
          /\ p.parent \in Stored(t) \union {None}
          /\ moved' = \/ moved
                      \/ p.parent = c
                      \/ /\ p.parent # t.rows[c].parent
                         /\ GetCategoriesByParentID(t, c) # {}
      BY <1>2 DEF EditCategory, Wrote, ParentStored, Saved
    <2> HIDE DEF p, c
    <2>2. Written(t, t', c, p.parent)
      BY <2>1, EditWrites DEF PathInv
    <2>3. Fresh' \subseteq Fresh \ {c}
      BY <2>1 DEF PathInv, Fresh
    <2>4. p.parent \in (Categories \ Fresh) \union {None} /\ c \in Categories
      BY <1>0, <2>1 DEF PathInv, Stored
    <2>5. ~moved' => \/ /\ p.parent # c
                        /\ \A d \in Stored(t) \ {c} : t.rows[d].parent # c
                     \/ c \in Stored(t) /\ p.parent = t.rows[c].parent
      BY <1>0, <2>1, <2>4 DEF GetCategoriesByParentID
    <2> QED BY <1>0, <2>1, <2>2, <2>3, <2>4, <2>5, PathsWritten
  <1>3. CASE SetImage(r, next)
    <2> DEFINE c == body[r].about
    <2>1. /\ c \in Stored(t)
          /\ t' \in UpdateCategoryImage(t, c, got[r].image)
          /\ made' = made /\ moved' = moved
      BY <1>3 DEF SetImage, Wrote
    <2> HIDE DEF c
    <2>2. Written(t, t', c, t.rows[c].parent)
      BY <2>1, SetImageWrites DEF PathInv
    <2>3. Fresh' \subseteq Fresh \ {c}
      BY <2>1 DEF PathInv, Fresh
    <2>4. /\ t.rows[c].parent \in (Categories \ Fresh) \union {None}
          /\ c \in Categories
      BY <2>1 DEF PathInv, Rooted, Stored
    <2> QED BY <1>0, <2>1, <2>2, <2>3, <2>4, PathsWritten
  <1>4. CASE RemoveCategory(r, next)
    <2> DEFINE c == body[r].about
    <2>1. /\ t' \in HardDeleteCategory(t, c) /\ body[r].op = "hard"
          /\ made' = made
          /\ moved' = \/ moved
                      \/ \E d \in GetCategoriesByParentID(t, c) :
                            GetCategoriesByParentID(t, d) # {}
      BY <1>4 DEF RemoveCategory, Wrote
    <2>2. c \in Categories
      BY <2>1 DEF PathInv, AboutOK
    <2> HIDE DEF c
    <2>3. /\ Rooted(t') /\ Stored(t') \subseteq Stored(t)
          /\ \A d \in Stored(t') :
                t'.rows[d].parent \in {t.rows[d].parent, None}
          /\ Coherent(t) /\ (\A d \in GetCategoriesByParentID(t, c) :
                                GetCategoriesByParentID(t, d) = {})
             => Coherent(t')
      BY <2>1, <2>2, HardDeleteCoheres DEF PathInv
    <2>4. Rooted(t)' /\ Stored(t)' = Stored(t')
      BY <2>3 DEF Rooted, Stored
    <2>5. ~moved' => Coherent(t)'
      BY <2>1, <2>3 DEF PathInv, Coherent, Stored
    <2>6. Fresh' = Fresh /\ None \notin Fresh
      BY <1>0, <2>1 DEF Fresh
    <2>7. \A d \in Stored(t)' :
              d \notin Fresh' /\ t'.rows[d].parent \notin Fresh'
      BY <2>3, <2>4, <2>6 DEF PathInv
    <2> QED BY <1>0, <2>4, <2>5, <2>7 DEF PathInv
  <1> QED BY <1>1, <1>2, <1>3, <1>4 DEF Transaction

LEMMA InitPathInv ==
    ASSUME \A u \in FirstTables : Coherent(u),
           \A u \in FirstTables : \A c \in Stored(u) :
               u.rows[c].parent \in Stored(u) \union {None}
    PROVE  Init => PathInv
  <1> SUFFICES ASSUME Init PROVE PathInv
    OBVIOUS
  <1>1. t \in Tables /\ t \in FirstTables
    BY CategoriesAssumption DEF Init
  <1>2. Rooted(t)
    BY <1>1 DEF Rooted, Tables, Stored, Row, Fields
  <1>3. Coherent(t)
    BY <1>1 DEF Coherent, Stored
  <1>4. \A c \in Stored(t) : /\ c \notin Fresh
                             /\ t.rows[c].parent \notin Fresh
    BY <1>1, NoneApart DEF Fresh, Stored
  <1>5. Domains /\ \A r \in Requests : AboutOK(r)
    BY DEF Init, Domains, AboutOK
  <1> QED BY <1>2, <1>3, <1>4, <1>5 DEF PathInv

LEMMA NextPathInv == PathInv /\ [Next]_vars => PathInv'
  <1> SUFFICES ASSUME PathInv, [Next]_vars PROVE PathInv'
    OBVIOUS
  <1>1. ASSUME NEW r \in Requests, Act(r) PROVE PathInv'
    <2>1. Domains' /\ Frame(r)
      BY <1>1, ActFrame DEF PathInv, Frame
    <2>2. \A q \in Requests : AboutOK(q)'
      <3>1. AboutOK(r)'
        BY <1>1, AboutStays DEF PathInv
      <3>2. \A q \in Requests \ {r} : AboutOK(q)'
        BY <2>1 DEF Frame, AboutOK, PathInv
      <3> QED BY <3>1, <3>2
    <2>3. CASE Commit(r) \/ CommitUnanswered(r)
      <3>1. pc[r] = "write"
        BY <2>3 DEF Commit, CommitUnanswered, InTransaction
      <3>2. PICK next \in Past : Transaction(r, next)
        BY <2>3 DEF Commit, CommitUnanswered, Past
      <3> QED BY <2>2, <3>1, <3>2, TransactionPaths
    <2>4. CASE SoftDelete(r)
      <3> DEFINE columns == [active |-> FALSE]
                 cs == Stored(t) \intersect {body[r].about}
      <3>1. /\ t' \in WriteAll(t, cs, columns)
            /\ made' = made /\ moved' = moved
        BY <2>4 DEF SoftDelete, SoftDeleteCategory, Wrote
      <3>2. Fields \intersect DOMAIN columns = {} /\ cs \in SUBSET Stored(t)
        BY DEF Fields
      <3> HIDE DEF columns, cs
      <3>3. Alike(t, t')
        BY <3>1, <3>2, WriteAllAlike DEF PathInv
      <3> QED BY <2>1, <2>2, <3>1, <3>3, PathsAlike
    <2>5. CASE BatchUpdatePositions(r)
      <3> DEFINE columns == [position |-> 1]
                 cs == Stored(t) \intersect body[r].about
      <3>1. /\ t' \in WriteAll(t, cs, columns)
            /\ made' = made /\ moved' = moved
        BY <2>5 DEF BatchUpdatePositions, BulkUpdateCategoryPositions, Wrote
      <3>2. Fields \intersect DOMAIN columns = {} /\ cs \in SUBSET Stored(t)
        BY DEF Fields
      <3> HIDE DEF columns, cs
      <3>3. Alike(t, t')
        BY <3>1, <3>2, WriteAllAlike DEF PathInv
      <3> QED BY <2>1, <2>2, <3>1, <3>3, PathsAlike
    <2>6. CASE ~(\/ Commit(r) \/ CommitUnanswered(r) \/ SoftDelete(r)
                 \/ BatchUpdatePositions(r))
      <3>1. t' = t /\ made' = made /\ moved' = moved
        BY <1>1, <2>6
           DEF Act, Request, CreateCategoryHandler,
               UploadCategoryImageHandler, SoftDeleteCategoryHandler,
               DeleteCategoryHandler, BatchUpdateCategoryPositionsHandler,
               GetCategoryDetailsHandler, GetCategoryHierarchyStatsHandler,
               GetDirectChildrenWithStatsHandler, GetPopularCategoriesHandler,
               Begin, Read, Get, Set, FetchDetails, FetchPopular,
               FetchChildren, CountChild, FetchStats, CountStats, Save,
               VerifyAdminStatus, LookupSlug, ReadExisting,
               HandleCategoryImage, CheckExistence, UploadImage, Retry,
               GiveUp, StatementFails, InvalidateAll, InvalidateCategories,
               Step, ghosts
      <3> QED BY <2>1, <2>2, <3>1, PathsStay
    <2> QED BY <2>3, <2>4, <2>5, <2>6
  <1>2. CASE Expire \/ DeleteFileFromS3 \/ UNCHANGED vars
    <2>1. UNCHANGED <<t, pc, body, got, tries, made, moved>>
      BY <1>2, OthersFrame
    <2>2. Domains' /\ \A r \in Requests : AboutOK(r)'
      BY <2>1 DEF PathInv, Domains, AboutOK
    <2> QED BY <2>1, <2>2, PathsStay
  <1> QED BY <1>1, <1>2 DEF Next, Act

\* Where every path follows its parent at the start and the foreign key on
\* parents holds, every write leaves it so as long as no category that has
\* others below it was given another parent.
THEOREM PathsFollow ==
    ASSUME \A u \in FirstTables : Coherent(u),
           \A u \in FirstTables : \A c \in Stored(u) :
               u.rows[c].parent \in Stored(u) \union {None}
    PROVE  Spec => PathsFollowParents
  <1>1. PathInv' => [t' # t /\ ~moved' => Coherent(t')]_vars
    BY DEF PathInv, Coherent, Stored
  <1>2. Init => PathInv
    BY InitPathInv
  <1>3. PathInv /\ [Next]_vars =>
            PathInv' /\ [t' # t /\ ~moved' => Coherent(t')]_vars
    BY <1>1, NextPathInv
  <1> QED BY <1>2, <1>3, PTL DEF Spec, PathsFollowParents
=============================================================================
