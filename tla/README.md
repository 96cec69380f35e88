# TLA+ development of webline-backend

webline-backend is the Go server of an online shop: an HTTP API
(gorilla/mux) over PostgreSQL (lib/pq, queries generated by sqlc), Redis as a
cache, S3 for images, M-Pesa for payments and mail for notifications.  This
directory holds TLA+ specifications of the parts of it whose correctness
depends on the order in which things happen or on statements that must agree,
configurations that check them with TLC, and proofs that hold for every value
of the specifications' constants.

Paths below are relative to `src/`; a number after a file is a line.

## 1. The system

Every HTTP request runs in a goroutine of its own, and hardly anything in the
services is protected by a lock: the exceptions are the cache of categories in
the process and the map of the rate limiter.  What requests share is the
database, Redis, S3 and, for payments, M-Pesa.  With few exceptions a repository
method executes one SQL statement on the pool, which commits by itself; a
service method is a sequence of such statements and of calls to Redis and S3,
and between any two of them other requests move.  The context of the HTTP
request is handed to every statement and to every Redis call: when the client
goes away, the sequence stops in the middle.

| Part | State it keeps | Operations | Interacts with |
|---|---|---|---|
| Cart service (`internal/services/cart_service.go`, `internal/handlers/cart_handler.go`, `sql/queries/cart.sql`) | `shopping_carts` (one per user or guest), `cart_items`; Redis keys for the list of items, for single items and for the total | add, remove, update quantity, clear, replace, list, total, open | triggers, cache, sessions (AddToCart touches the session) |
| Cart triggers (`sql/schema/20240619061421*`, `20240619061459*`) | `total_items`, `total_price` of a `shopping_carts` row | after each row written, recompute the totals | every statement on `cart_items` |
| Payments (`internal/services/payment_service.go`, `internal/repository/payment_repository.go`, `pkg/mpesa`) | `order_payments` | create, pay with M-Pesa, callback, status, change of method | M-Pesa (request, later callback), orders |
| Sessions (`internal/services/session_service.go`, `internal/middleware/session.go`, `internal/handlers/session_handler.go`) | table `sessions`, Redis key per session, two cookies | create, look up, touch, link to a user, evict the oldest, merge, delete | carts and orders of guests |
| Orders (`internal/services/order_service.go`, `internal/repository/order_repository.go`) | `orders`, `order_items`; it writes `guest_checkouts` and `companies` | check out in a transaction, read, cancel, revenue reports | payments, users, exchange rates, mail |
| Cache service (`internal/services/cache_service.go`) | Redis; a limiter in memory | get, set, delete, delete by pattern, get-or-set | carts, sessions, catalogue, exchange rates |
| Exchange rates (`internal/repository/sqlc/exchange_rate_repo_impl.go`) | one row per currency, cached | get, update | orders, prices |
| Server and rate limiting (`cmd/main.go`, `internal/middleware/rate_limit.go`) | a map of limiters per client, a clean-up goroutine; the life of the process | admit or refuse a request; start, shut down | the administrators' category routes |
| Users and authentication (`internal/services/user_service.go`, `internal/handlers/user_handler.go`) | users, roles, refresh tokens, tokens for verification and password reset | register, log in, log in with Google, verify, reset, change | mail, admin requests |
| Admin requests (`internal/services/admin_request_service.go`) | `admin_requests`, `admin_approval_tokens` | ask, approve | users, mail |
| Categories (`internal/services/category_service.go`, its repository and handler, the triggers in `sql/schema`) | `categories`, a tree stored by `parent_id` and by `ltree` path; a cache in the process; images in S3 | save, move, image, soft and hard delete, positions, thirteen queries | products, S3 |
| Products (`internal/services/product_service.go`, its repositories and handler), analytics | `products`, `product_images`, `product_specifications`; Redis keys of twelve kinds; images in S3 | save, delete, archive, draft, activate, cached readers, lists | categories, exchange rate, S3 |
| Search and filters (`search_service.go`, `filter_service.go`, the generated statements) | cached searches | search, suggestions, pages by filter and order, options | products, categories |
| Promotions (`internal/services/promotion_service.go`, its repository and handler) | `promotions`, `promotion_products`; images in S3 | save with batches of products, delete, change of status, lists | products, discounts, S3 |
| Mail, recommendations, settings, inquiries, SEO | rows that nothing else reads | one statement or one mail each | — |

### What is hard in it

* **Read-through caches.**  The list of a cart, its total, a session, an answer
  about products or categories are read from the cache, and on a miss from the
  table and written to the cache afterwards.  A write that falls between the
  read and the fill leaves an old value behind; a writer that forgets a key, or
  fails before it deletes it, does the same.
* **A miss is not an error.**  `CacheService.Get` returns nil for an absent key
  (cache_service.go 143-146) and leaves the destination at its zero value; some
  callers take that for a hit: sessions, searches, and the saves of products.
* **Statements outside their transaction.**  `ReplaceCartItems` opens a
  transaction that none of its statements runs in; the company of an order is
  created outside the order's.
* **Lost commits.**  The deferred functions of `ExecTx` (orders) and `execTx`
  (users) assign the error of the commit to a variable that is not a result.
* **Sums in triggers** under READ COMMITTED, where the subquery is evaluated on
  a snapshot and the row is locked later; **paths in triggers**, which compute
  the row that is written and not the rows below it.
* **Callbacks.**  M-Pesa answers a payment before, while or after the request
  that started it stores the id by which the callback is matched, once, more
  than once or never; a customer may start several attempts.
* **Two stores.**  An image is uploaded to or deleted from S3 in a step of its
  own, before or after the row that names it is written.
* **Goroutines of one request.**  `GetOrder` starts two that send on channels
  which it closes when it returns; a save of a promotion starts one per batch,
  with a semaphore and a wait group.
* **Statements that were written apart** and must agree: six orders of one
  filter and their count, a tree read by path and by parent, two lists of the
  promotions.
* **Partial failure.**  Any statement, any call and the client's connection may
  fail, and nothing compensates for the steps already taken.

### What makes each part correct

* Cart: contents change by one statement at a time, within the column's range;
  a cached key is the cart's, or is explained.
* Totals: they are those of the rows.
* Payments: a row says *paid* only if that order's customer paid that amount.
* Sessions: a request is served with a stored (for a user, linked) session; a
  session's tokens are its own; a deleted row stays deleted.
* Orders: one that is stored has its owner, its company, all its items and the
  totals of one exchange rate; a failed request left none; a correct order is
  not refused.
* Accounts: what was answered is in the tables; whoever is an administrator was
  approved; a request that waits can be approved.
* Categories: paths follow parents; the queries describe one tree; cached
  answers are current; a retried transaction inserts once; images are there.
* Products: what was answered as saved is whole; cached answers are current;
  images are there; the statements of a filter agree.
* Promotions: what was answered as created is whole; the lists agree; every
  request is answered.
* Server: one bucket of tokens for an address; requests are answered; a panic
  does not come from nothing.

## 2. The modules

| Module | Models | Used by |
|---|---|---|
| `CartItems` | the contents of a cart, as the other three know them | `CartContents`, `Cart`, `CartTotals` |
| `CartContents` | the abstract cart: what the tables promise | (instance in `Cart`) |
| `Cart` | the cart service, its tables and keys | `CartProofs`, `MCCart` |
| `CartTotals` | statements and trigger on one cart inside PostgreSQL | `CartProofs`, `MCCartTotals` |
| `Payment` | payments, M-Pesa and its callbacks | `PaymentProofs`, `MCPayment` |
| `Session` | sessions in table, cache and cookies | `SessionProofs`, `MCSession` |
| `Orders` | checkout and cancellation | `OrdersProofs`, `MCOrders` |
| `Accounts` | users, roles, tokens, requests for the administrator's role | `AccountsProofs`, `MCAccounts` |
| `CategoryTree` | the table of categories, its triggers and queries, as operators | `Categories`, `Catalogue` |
| `Categories` | the requests for categories, their cache, retries and images | `CategoriesProofs`, `MCCategories` |
| `Catalogue` | the tables of products and their queries, as operators | `Filters` |
| `Filters` | the statements of search and filters, as operators | `Products` |
| `Products` | the requests for products, searches, filters, the exchange rate | `ProductsProofs`, `MCProducts` |
| `Promotions` | saves with their goroutines, deletion, status, lists | `PromotionsProofs`, `MCPromotions` |
| `TokenBuckets` | the abstract rate limit: one bucket for an address | (instance in `RateLimiter`) |
| `RateLimiter` | the map of clients and its clean-up | `Server` |
| `OrderDetails` | the goroutines and channels of `GetOrder` | `Server` |
| `Server` | the process composed of the two: signal, shutdown, panic | `OrdersProofs`, `MCServer` |

In all of them a request is a small program: `pc[r]` names the step it takes
next, the other per-request variables are its local ones, and an action is one
SQL statement or transaction, one call to Redis, S3 or M-Pesa, or one acceptance
of a request.  In `Cart`, `Payment` and `Session` a request that has answered may
be followed by another one in the same place, so the number of requests over
time is unbounded and the constant `Requests` bounds only how many are under way
together.  In the others a request is handled once, since the rows, tokens and
images it makes are known by it.

The variables that the code does not have are history: they name what a
property must except (`missed`, `overtaken`, `outdated`, `shared`, `uploads`,
`edited`, `overlapped`, `moved`, `lost`) or what a property is about (`made`, `removed`).
No guard reads one, except that `Fresh` of `Categories` takes ids that no request
was given before, as generated UUIDs are.

### Cart

`opened` and `items` are the tables, `list` and `total` the keys.  The total is a
function of the contents, so the model keeps the contents it was computed from;
prices do not occur.  Keys of single items are written and deleted but read by
no code: of those calls only the error that makes `AddToCart` skip the rest is
kept (`CacheItem`).

| Endpoint | Path through the actions |
|---|---|
| POST add | `LookupCart` (`CreateCart`) `UpsertCartItem` `CacheItem` `DropList` `DropTotal` |
| DELETE remove | `LookupCart` (`CreateCart`) `RemoveCartItem` `DropList` |
| PUT update | … `SetCartItemQuantity` `DropList` `DropTotal` |
| POST clear | … `ClearCart` `DropList` `DropTotal` |
| PUT replace | … `ClearCart` `RefillCart`* `DropList` `DropTotal` |
| GET items | … `GetListCache` (`GetAllCartItems` `FillList`) |
| GET total | … `GetTotalCache` (`SumCartItems` `FillTotal`) |
| GET cart | … |

`Upsert` carries the behaviour of the SQL: the CHECK on the quantity, the range
of the INT column, and the WHERE clause after which the statement writes the row
but returns none for a product that has images and none at position 1 (constant
`Pictured`): the service takes this for an error after the row was written.
`GetTotalCache` has `GetOrSet`'s treatment of a zero value as a miss and of a
Redis failure as an error; its rate limiter, which may refuse, is a case of
`Abort`.

### CartTotals

One cart, seen from inside PostgreSQL.  A statement locks and writes its rows
(`WriteRow`), waiting for a row another one holds and then acting on the row it
left, as READ COMMITTED does.  At its end the trigger fires once per row
written: `TakeSums` is the snapshot of the trigger's UPDATE, `UpdateCart` its wait
for the cart row, after which the sums are *not* taken again.  `Commit` publishes,
`Fail` undoes; `Fail` stands for every error, a deadlock broken by the server
among them.  The behaviour of PostgreSQL is marked external in the map.

### Payment

`payment` holds the rows, `prompt` what M-Pesa and the customer do with a
checkout, `callbacks` those M-Pesa may still deliver: a callback that was
delivered may come again until `LoseCallback`.  Amounts count half shillings, so
that `Whole` (the rounding of `%.0f`, half to even) is visible.
`PayOrderWithMpesa`, `GetPaymentByOrderID`, `InitiateMpesaPayment` and
`UpdateCheckoutRequestID` are the steps of a request; the lost answer and the
failed store are `InitiateMpesaPayment`'s second disjunct and `StoreFails`.
`ProcessMpesaCallback` is one UPDATE of all rows with the callback's id.

The repository calls `CreatePayment` from nowhere (rows appear only by hand or
by another program); the model lets rows appear at any time, several for one
order, which the table allows.

### Session

`row` and `cache` are the table and Redis; a session is its user and its token,
`over` the tokens whose expiry has passed (every operation that renews the expiry
renews the token).  A request has the two cookies of an earlier one or none; the
middleware looks it up, touches it, links it to the signed-in user and, when the
user has `MaxSessions` live ones, evicts one; then the handler runs: one that
leaves the session alone, one that touches it again (the `Handlers` constant: 0
or 2 touches), or `MergeSession`.  `GetSessionBySessionID` is a subroutine
(`CacheGet`, `ReadRow`, `FillCache`, `DeleteRow`, `DeleteKey`) that returns to
`next[r]`.  The zero session that a miss yields is an expired one, exactly as the
code compares it.

### Orders

`rate`, `guests`, `companies` and `orders` are what is committed; `draft[r]` is the
work of the request's transaction, which nobody else sees; `body[r]` is what the
customer asked for.

| Stage | Actions | Code |
|---|---|---|
| the customer | `CreateOrder` (`GetGuestCheckoutByEmail` (`CreateGuestCheckout`)) | order_handler.go 65-186, user_service.go 156-185 and 817-856 |
| the company | `BeginTx` (`GetCompanyID` (`CreateCompany`)) | order_service.go 369-388 |
| the order | `InsertOrder` `GetLatestExchangeRate` `ProcessOrderItems` `UpdateOrderAmounts` `Commit` | order_service.go 95-177 and 245-431 |
| afterwards | `SendOrderNotification`, `CancelOrder` | order_service.go 174 and 538-552 |

The order is written in a transaction; the guest is written before it, and the
company while it is open, on connections of their own that commit by themselves.
`Fail` is an error of any statement or a client that went away, `Crash` the end of
the process.  `Commit` and `CreateCompany` may lose their work without an error.
A company whose commit was lost makes the INSERT of the order fail its foreign
key ("lost company", from where only `Fail` and `Crash` lead on).

Guests are the names in their rows: since every guest is looked up by the empty
e-mail address, `GetGuestCheckoutByEmail` takes any row there is.

The amounts are computed as the code computes them, in units of 10^-6 shillings,
in which prices of whole US cents, rates of hundredths of a shilling and whole
percentages are exact.  `Nearest` rounds; a tie may go either way, because the
code rounds the binary approximation of the amount.  `Lines` are the rows that
`order_items` may get, `MeetsCheck` the CHECK they are inserted under, `AmountsOf`
the totals: the sum of the items rounded by `RoundPrice` to tens or hundreds of
shillings, 16 percent of VAT (the default of `settings`), less the discount.
Names, addresses and the text of mails are left out.

### Accounts

`db` is a record of the eight tables; a row or a token is known by the request
that made it, so that `db.users[r]` is the user registered by `r`.  The stages are
one statement each:

| Endpoint | Path through the actions |
|---|---|
| register | `CreateUser` `GetRoleByName` (`CreateRole`) `AssignRoleToUser` |
| log in | `CompareHashAndPassword` `StoreRefreshToken` |
| log in with Google | `UpdateUserProfile` or the steps of a registration, `StoreRefreshToken` |
| verify an address | `IsVerified` `DeleteVerificationTokens` `CreateVerificationToken` `SendMail`; with the token `UpdateUserEmailVerified` `DeleteVerificationToken` |
| reset a password | `SendPasswordResetEmail` `StorePasswordResetToken` `SendMail`; with the token `FindUser` `UpdateUserPassword` `DeletePasswordResetToken` |
| ask for the role | `AlreadyAdmin` `CreateAdminRequest` `StoreApprovalToken` `SendMail` |
| approve | `MayApprove` `ApproveAdminRequest` `DeleteApprovalToken` `PromoteUser` `SendApprovedMail` |

Only the length of an address matters (`Length`): the column for the reset token
is VARCHAR(255) and the token of an address over 37 characters does not fit.
`Fail` stops a request after any statement.

### CategoryTree and Categories

`CategoryTree` has no variables: its operators take a state `t` of the tables, so
that `Categories` and `Catalogue` share them and a transaction is a function on
states.  `update_category_path` and its companions are the triggers, `Write` a row
written under them, `WriteAll` a statement of several rows in any order; below
stand the statements that write and the queries, each named as in
`sql/queries/categories.sql` or the repository.

In `Categories` a request that reads goes `Get` (find in the cache) → `Fetch…`
(`CountChild`, `CountStats`) → `Set`; one that writes goes `VerifyAdminStatus` →
`LookupSlug`/`ReadExisting` → `HandleCategoryImage` (upload, then deletion of the
old image by a goroutine: `DeleteFileFromS3`) → `Commit` → `InvalidateAll`, the
other endpoints taking shorter ways.  `Retry`, `GiveUp` and `CommitUnanswered` are
the outcomes of a commit that execTx (category_repository.go 47-140) distinguishes.
`Expire` removes entries at any time.

### Catalogue, Filters and Products

`Catalogue` extends the tables with products, images and specifications and has
their queries; `Filters` has the statements of the shop's filter (by path), of a
category's filter (by parent), their six orders, counts and options.  A query
whose ORDER BY leaves ties, or a LIMIT that cuts them, is the set of its possible
answers.  `Products` is the requests: `Find` and `LookupProduct` read Redis, a
`Fetch…` is the query, `Fill` the write back.  What `GetOrSet` and
`GetOrSetWithTTL` make of a miss is in `Find`; of a zero value in
`GetOrSetExisting`, which a save uses to look for the stored product and which
therefore never asks PostgreSQL.  A save then goes `UpdateExistingProduct` or
`CreateNewProduct` → `UploadMultipleFilesToS3` → `CreateProductImages` →
`UpdateProductImageUrls` → `UpsertSpecifications` → `InvalidateProductCache`.
Paths in S3 are the second and the name of a file (`generateFilePath`), so `Tick`
moves a clock of `LastSecond` seconds.

### Promotions

| Endpoint | Path through the actions |
|---|---|
| create or edit | `VerifyAdminStatus` (`FindPromotion`) `UploadImage` `InsertPromotion`, or `DeleteOldImage` `UpdatePromotion`; then `ReadExisting`, one goroutine per batch (`Acquire` `ReadProductIDs` `AddProducts` or `FailBatch`) and `Wait` |
| delete one or several, archive, draft, activate | `VerifyAdminStatus` `DeleteStatement` or `StatusStatement` |

`work[r]` is the state of the goroutines, `Working(r)` those that hold a place of
the semaphore.  `ProductDeleted` stands for the requests of `Products` that delete
rows which the batches refer to.  `generate_promotion_slug` is the trigger that
makes a slug unique.

### TokenBuckets, RateLimiter, OrderDetails and Server

`RateLimiter` has the two sections of the lock (`FindClient` under the read lock;
`TouchClient` or `CreateClient` under the write lock), `Allow` after it, and
`cleanupStaleClients`.  `TokenBuckets` says what this should amount to; the
refinement maps an address without a client to a full bucket.
`OrderDetails` has the queries of the two goroutines, their sends on buffered
channels, the receives, and the end of the request (`Closed`) that closes the
channels.  `Server` composes them with the life of the process: `Arrive` while it
is up, `Signal`, `Shutdown` once the requests have ended, `ShutdownTimesOut`,
`ListenerFails`, and the panic of a goroutine, which nothing recovers.  What the
handlers behind the limit do is in `Categories`.

## 3. The runs

`tlc -config X.cfg M` in this directory.  The time is for four workers.

| Run | Question | Bounds | Distinct states, time |
|---|---|---|---|
| `cart_concurrent` | types; list and total stale only for a named cause; every statement is one step of `CartContents` | 2 requests, 1 cart, 2 products (one unpictured), quantity 1, all endpoints, faults and expiry | 1 116 700, 38 s |
| `totals_concurrent` | types; a statement counts its own rows; one with two rows leaves exact totals | 2 statements, 3 products, quantity 1 | 51 191, 3 s |
| `payment_paid` | types; paid was collected; paid is undone only by another prompt | 2 orders, 2 rows, 3 checkouts, 2 requests, dues 1.50 and 2.50 | 1 361 807, 49 s |
| `session_alone` | is a request served with a stored session, and the cache coherent at rest? | 1 request at a time, 3 sessions, 3 tokens, 2 users, no faults | 130 199, 10 s |
| `session_concurrent` | types; tokens apart; deleted rows stay deleted | 2 requests, 2 sessions, 2 tokens, 1 user, faults | 3 861 925, 93 s |
| `orders_whole` | types; a stored order is whole; a failed request left none; the CHECK refuses only what `Fractional` describes | 2 requests, 1 user, 2 guests, 1 company, 5 baskets, 2 rates | 957 244, 19 s |
| `accounts` | what was answered is stored; administrators were approved; who waits has a token | 3 requests, 3 addresses of 37, 20 and 38 characters, 2 known users, one an administrator, the role of customers there or not | 485 412, 17 s |
| `categories_cached` | cached answers; insertion once; images; paths; the views of the tree | 2 requests, a root, a child, a grandchild and 2 free ids, 2 products, 1 retry | 535 431, 44 s |
| `products` | types; cached answers; images; saves; agreement of the filters | 2 requests, a product stored in the grandchild, 4 forms, 5 filters, a rate stored or not, 2 rates, 2 seconds | 508 158, 59 s |
| `promotions` | types; created promotions are whole; images; the lists agree; requests end | 2 requests, 1 stored promotion, 2 products, one with 2 discounts, 3 forms, a semaphore of 1, 2 seconds | 296 200, 58 s |
| `promotions_edited` | is an edit refused only where something failed? **no** | the same | stops at the violation |
| `server` | the limit is one bucket for an address; a panic has a cause; requests end | 2 requests, 2 addresses, 1 token, rate 1, interval 0, 2 ticks, 1 lookup of an order stored or not | 473 650, 92 s |

The bounds are the least at which the cases occur.  Two requests give every
pairing of a step of one with a step of another (a race among three of them
contains one among two in all the properties here, which speak of one cart, one
row, one key or one session and at most two requests); where the properties are
proved (section 5) no bound is left.  In `accounts` a third request is needed: one
asks for the role and two approve.  Two products and quantity 1 give upserts that
fit, that do not and that answer an error after writing, and updates to 0; three
products in `totals_concurrent` let a clear hold two rows while another statement
holds the third; three checkouts let a second attempt replace an id and leave one
for the other order; the amounts 1.50 and 2.50 are both rounded, to 2.  In
`session_alone` one more session than `MaxSessions` makes eviction happen, three
make it happen twice, and there are no faults and keys stay, `CoherentAtRest` and
`ServedIsStored` not being due otherwise; in `session_concurrent` Redis keys and
rows are lost through faults and evictions by `LinkSessionToUser`, and the expiry
of tokens is left out (`Expiring = {}`) because none of its properties reads it.
The baskets of `orders_whole` hold one and two of an item whose price in
shillings has a fraction of a cent, a discounted item after an undiscounted one,
an item of negative quantity, which the handler does not refuse, and a product
that does not exist; at one of the two rates the discount ends in half a cent, so
that a tie is rounded.  Three levels of categories are the least in which a move
leaves a path behind that is not the moved row's; two free ids are one for each
request.  The forms of `products` hold none, one and two files, a specification
and a category that does not exist; a second clock tick tells two uploads of one
name apart or not.  A semaphore of one place makes the second batch of a form
wait for the first, which is the case that liveness depends on.

### Fairness

`promotions` and `server` check liveness, under weak fairness of what the program
itself does: of `Progress(r)` for each request of `Promotions` (its goroutines are
scheduled, and its calls to PostgreSQL and S3 come back, with an error or
without); of `LimitRequest(r)`, `LookUp(l)` and `Shutdown` of `Server`.  No fairness
is assumed of arrivals, of clocks, of clients that go away, of signals, or of any
particular outcome of a call.  `promotions!RequestsEnd` is that the wait group is
counted down by every goroutine and the semaphore given back on every path;
`server!RequestsEnd` that every request is answered and a process that was told
to close does so.  Elsewhere no liveness is stated: callbacks may never come,
nothing retries a failed request, and there is no background job.

### Mutants

Every property of a passing run is accompanied in `PROJECT.json` by a mutant: a
change of one definition, of the kind a mistake in the code would make, under
which TLC finds the property violated.  The mutated forms stand in the modules
before the definition they replace, under a comment that names
them mutants.

## 4. What the code does that a maintainer should know

One run fails, and states a sentence of the repository:

* **Edits of promotions** (`promotions_edited`).  promotion_service.go 97:
  "CreateOrEditV2Promotion creates or edits a promotion".  `updatePromotion`
  (152-159) leaves the status of its parameters empty, the UPDATE writes it, and
  the CHECK `status_check` refuses it: every edit of a promotion that is stored
  fails, after `handlePromotionImage` has deleted its old image.  An edit of a
  promotion that was deleted meanwhile updates no row and succeeds.

The models hold further behaviour, each the reason of an exception in a property:

* Carts.  cart_service.go 510 begins "a transaction to ensure atomicity" that no
  statement of the replace runs in: an error in the loop leaves the cart cleared
  or half filled.  `RemoveFromCart` deletes the list key and not the total key; a
  read that overlaps a write may cache the items of before for up to 24 hours; a
  retried AddToCart of an unpictured product adds twice.
* Totals.  Of two statements on different rows the second writes sums that miss
  the first's; each counts its own, and one of two rows or more leaves exact
  totals, since its later firings sum under the lock of its first.
* Payments.  A callback before its id is stored, or after another attempt replaced
  it, updates nothing and is answered as processed; a declined prompt writes
  amount 0 over the amount due, so that the next attempt asks for 0.
* Sessions.  A cache miss yields the zero session, which counts as expired: the
  row of a live session is deleted instead of the "fallback to database" of
  session_service.go 101.  A touch that read a session before its deletion writes
  it back to Redis (315).  Sessions created for a signed-in user do not count
  against the limit.
* Orders.  The error of a commit never leaves `ExecTx` (order_repository.go 30-58):
  the handler answers 201 and the mail goes out for an order that does not exist.
  All guests share the row of the empty address, and later orders bear the first
  guest's name.  The CHECK of `order_items` compares amounts that were rounded one
  by one, so that two of an item at 0.61 dollars and a rate of 135.07 cannot be
  ordered; the discount is subtracted from the items and once more from the grand
  total; an order can be cancelled in any status; without a row the rate is 135.
* Accounts.  `execTx` (user_repository.go 34-59) loses commit errors too.  A failed
  registration leaves a user without a role, and a retry is refused; the same of a
  first login with Google while the role is absent.  `UpdateUserProfile` always
  answers unauthorized (user_service.go 788 reads another context key than the
  middleware sets).  `DeleteVerificationToken` compares an address with the column
  of tokens, so that used links stay until they expire, and so do those for
  resetting a password.  A request for the role whose token was not stored stays
  PENDING and refuses further ones.  A login with Google overwrites phone and date
  of birth with NULL.
* Categories.  A move leaves the paths below the moved category; so does a hard
  delete.  An edit sets the position to 0 and the description to NULL, cannot be
  made of an inactive category, and has deleted the old image when its upload or
  commit fails.  A hard delete and an upload of an image invalidate nothing; a
  batch of positions leaves two kinds of keys.  A failed count is cached as 0.
* Products.  A save takes what Redis has for the stored product, since a pointer to
  a struct is never an empty value to `GetOrSet`: with nothing cached an edit
  inserts, or updates the row of the nil id, answers success and stores nothing.
  `GetOrSetWithTTL` takes a miss for a hit, so that a search is never fetched
  (cache_service.go 590).  A request that fails after its write does not flush;
  where S3 fails, a deletion leaves the cache; bulk deletions leave the objects.
  Two uploads of one second and one name share a path.  The pages count active
  products and list all; the order "oldest" of a category is by price; the options
  of a category count inactive categories; a filter by attributes matches nothing
  once attributes are stored; the recursion over categories never ends on a cycle
  of parents.  `UpdateExchangeRate` of a currency without a row reports success and
  leaves another rate in Redis.
* Promotions.  Drafts, expired and future promotions are not found by their slug
  and are saved again under another one; a promotion without products cannot be
  shown, its price being NULL; the administrators' list counts a product once for
  each of its discounts; batches that were added stay when another one fails.
* Server.  A panic of a goroutine of `GetOrder` ends the process when the other
  query is late after an error, which every lookup of an order that does not exist
  may meet: the deferred close of order_service.go 466 runs before it sends.  A
  request whose client is removed while it holds it is decided by a bucket that
  nobody else sees.  `Shutdown` waits for the requests and not for their
  goroutines.

## 5. What is proved

All proofs are for arbitrary constants under the module's ASSUME, which says of
constants what the code or the database guarantees.  TLC evaluates each of them
in a run.

| Assumption | Says |
|---|---|
| `ItemsAssumption`, `CartAssumption`, `TotalsAssumption` | the maximal quantity is positive, the endpoints are known ones, `NoEntry` is no contents, no statement is called `Free` |
| `PaymentAssumption`, `SessionAssumption` | amounts are naturals; a user may have at least one session; `None` is no id, token or session |
| `OrdersAssumption` | prices, discounts and rates are naturals, a basket is a list of items and not empty |
| `AccountsAssumption` | known users have addresses that differ; `None` is no id, address, request or row |
| `CategoryTreeAssumption`, `CategoriesAssumption` | finitely many ids; the first tables are rows, an image is shown once, and none is called like a request |
| `CatalogueAssumption`, `ProductsAssumption` | finitely many products; the first tables keep their constraints (`IsCatalogue`), and no product in them is called like a request; forms, filters and pages have their types |
| `PromotionsAssumption` | finitely many ids, stored promotions are rows with slugs that differ, forms hold products |
| `RateLimiterAssumption`, `OrderDetailsAssumption` | a bucket has at least one token; what stands for no client is none; stored orders are orders |

Three theorems have hypotheses of their own.  `CoherentAlone` and `ServedAlone` of
`SessionProofs` are about one request at a time, without faults, and a cache that
keeps its keys (`Alone`); the run `session_alone` is such an instance, and
`session_concurrent` is the system without that hypothesis, where neither
property holds.  `PathsFollow` of `CategoriesProofs` supposes of the first tables
what the foreign key and the triggers give them: every parent is stored and every
path follows its parent's.

* `CartProofs.CartTyped`.  `TypeOK` is not inductive: `Upsert` takes the head of
  `todo[r]` and the fills write `seen[r]`.  The inductive invariant `TInv` adds
  that a request at such a step has an item to write (`WorkAtHand`) or has read
  contents (`ReadAtHand`).
* `CartProofs.ListStale`, `TotalStale`.  Both keys are handled by one proof, with the
  key `k` as a parameter (`Explained(k)`): if a cached key differs from its cart
  then the cart is in `missed`, or some request has the deletion of that key ahead
  of it.  Three lemmas carry it: a step that leaves cart and key alone
  (`QuietStep`), one that writes the cart (`WritingStep`), one that writes the key
  (`KeyStep`).
* `CartProofs.CartImplements`: `Spec => CartContents!Spec` under the refinement
  mapping.  A write needs its cart to be open: `OpenedFirst` says that a request
  past `create` has an opened cart.
* `CartProofs.TotalsTyped`, `OwnRows`, `TwoRows`, about `CartTotals`.  The inductive
  invariant `TotalsInv` is the types with: the sums contain the statement's own
  rows (`OwnSums`), a lock is held by a statement that is where it may hold it
  (`Locked`), a firing is pending for rows written only (`Fired`), and the sums of a
  later firing are the statement's current snapshot, because the cart row has been
  locked since (`LaterSums`).
* `PaymentProofs.PaymentTyped`, `PaidCollected`, `PaidUndone`.  A row's id and a
  request's id belong to a prompt of the same order (`StoredIds`, `HeldIds`), a row
  not inserted has none (`NotInserted`), only an answered prompt has a callback
  (`Answered`).  The lemma `WholeRounds` bounds the amounts.
* `SessionProofs.TypeCorrect`, `TokensStayApart`, `DeletedRowsStay`.  `HeldOK` says
  what a request holds at each step.  Apartness is not inductive on rows and keys
  alone, since a request may write back a session that it read: `FoundApart` speaks
  of every place where a token is found (`Found`), those of the requests included,
  and says that each was issued, and to one session.
* `SessionProofs.CoherentAlone`, `ServedAlone`.  Neither property is inductive: in
  the middle of a request a key differs from its row.  `AInv` says at each step
  which session the request has parted from its row (`Parted`) and what it holds
  of it (`Turn`): every other key is the row or empty, and what it holds is the
  row until the session ends.
* `OrdersProofs.OrdersTyped`, `OrdersWhole`, `FailedNoOrder`, `RefusedFractions`.  The
  inductive invariant is `TypeOK` with `Good(r)` for every request: at each step,
  what the draft has reached (`Owned`, `Incorporated`, `Computed`), that only a
  request past its commit has an order (`Unstored`), that its order is whole
  (`Recorded`) and that a refusal had its cause (`Refused`).  `StoredWhole` alone is
  not inductive, since `Commit` publishes the draft.  A step of one request leaves
  the others' drafts alone and deletes no guest and no company (`OthersAlone`,
  `Frame`).  `WholeCentsMeetCheck` is the arithmetic: the rows of an item that is
  not `Fractional` meet the CHECK, whichever way ties are rounded.
* `AccountsProofs.AdminsAreApproved`, `PendingRequestsKeepTokens`.  The invariant is
  `AdminTypes` with `Progress(r)`: an approval that is past its first statement has
  made its request approved, and a request for the role past its second has its
  token, unless it was approved since.
* `AccountsProofs.AnswersHold`.  What was answered stays true because the tables
  only grow in what an answer is about (`Grows`): users keep their address and its
  verification, and roles, refresh tokens and requests for the role stay.  `TInv`
  adds to the invariant above what a request has reached at each step on the way
  to its answer (`Told`), unless the error of its commit was lost.
* `CategoriesProofs.InsertsAtMostOnce`.  A request that has inserted is past its
  transaction (`Inserted`), and no step leads back to one.
* `CategoriesProofs.CacheIsCurrent`.  `CInv` adds what each reader holds: the answers
  of several queries half gathered (`HalfRead`) or all of them (`FullyRead`) are what
  the tables answer now, unless a write overtook the reader.
* `CategoriesProofs.CategoryImagesThere`.  That the image is there is not inductive:
  an edit deletes the image that it read from a row, at a time when the row may
  have another one.  `IInv` says who refers to an image, in rows and in the hands
  of those who edit: the images of two categories are apart (`Apart`), the image a
  request uploads is its own until it is written (`OwnOK`), and the image that an
  edit read is there unless another edit is replacing it (`ReadOK`).
* `CategoriesProofs.PathsFollow`.  `PathInv` adds to coherence that no stored row
  has, or refers to, an id that is still free, so that a new row has nothing below
  it.  A written row gets its parent's path (`Written`), which is the path it had
  unless its parent changed (`WrittenCoheres`); a statement of several rows is a
  sequence of such writes (`WriteAllRuns`), and a hard delete makes its children
  roots, which disturbs a path only if there are grandchildren
  (`HardDeleteCoheres`).
* `ProductsProofs.ProductsTyped`.  `TInv` has the types with what a request asks for
  and holds at each step (`AskAt`, `HoldsAt`), and that a row belongs to a stored
  product (`Shaped`).  It gives the constraints of the tables, among them that a
  generated slug is free.
* `ProductsProofs.ProductImagesThere`, `ProductSavedWhole`.  `PInv`: the paths that two
  products use, in their rows or in the hands of a save that has not inserted them
  yet (`Uses`), are apart but for those that were uploaded to twice; what a deletion
  has read to delete from S3 is used by no other product (`Deletes`); and what a
  save has stored at each step is its form's (`Saves`).
* `ProductsProofs.ProductCacheIsCurrent`.  `CInv` generalises the property from rest
  to every state: an entry that is not `outdated` answers its queries, or was
  filled by a reader that was overtaken, or a request that will drop it is at work
  (`Current`); and what a reader that was not overtaken has read is still so
  (`Reader`).  The page of a category takes several statements: what was mapped so
  far and the rows left to map are one possible page of the tables (`RowsRead`,
  `IsPage`).
* `PromotionsProofs.PromotionsTyped`, `PromotionsWhole`.  `PInv` is the types with
  `Sound(r)` for every request: a promotion is inserted by its request only, and at
  each state of a batch its pairs are stored as far as their products still are
  (`Batched`).  `OneIsFree` and `SlugIsNew` are the lemmas on the trigger: among one
  number more than there are slugs of a title, one is free, so that a generated
  slug differs from all that are stored; finiteness and cardinality come from the
  library.  A step of one request, or a deletion, is a `Frame` for the others.
* `PromotionsProofs.PromotionImagesThere`.  `ImageInv` says for which promotion each
  path was uploaded: every stored image, and every path that an edit is about to
  delete, for its own, so that a deletion hits the image of another promotion only
  if the path had two uploads (`TwoShare`).
* `PromotionsProofs.PromotionViewsAgree`.  It holds whatever the tables contain: the
  lists are operators on them, and the proof is about these.
* `OrdersProofs.LimiterImplements`, `PanicsFollowFailures`, about `Server`.  `LInv` says
  at which steps a request holds a client, and that a client, in the map or held,
  was made by a request of the same address (`ClientsMade`, `HeldMade`); with it
  every step of `Server` maps to a step of `TokenBuckets` or a stutter.  `DInv` says
  that a lookup that ended well has received from both goroutines, which have
  therefore sent (`ClosedWhole`).

Proofs of `CartTotals` stand with those of `Cart`, and of `Server` with those of
`Orders`; they share no lemma.

What the proofs corrected in the models: the history `uploads` of `Promotions` names
what a path was uploaded for, a set of shared paths not having been enough to say
whose image an edit deletes; `shared` of `Products` has the paths that stored
products have in common from the start; `Fresh` of `Categories` takes no id that was
in use before and deleted; a statement on several rows is a function on the number
of rows written, where it was a recursion over sets.

Only model-checked:

* `Categories!ViewsAgree` and `Products!FiltersAgree`.  Their queries sort rows and
  follow parents any number of levels: the proof needs inductions over the length
  of a path and over sorted lists that have not been carried out.
* The liveness properties, `RequestsEnd` of `Promotions` and of `Server`, which rest on
  fairness.
* What the recursive helpers compute for all inputs (induction over data), and that
  an action is enabled.

## 6. What is not modelled

* Code without a caller or a route: `MigrateGuestCart`, `clearCartCache`,
  `InvalidateUserSessions`, `RefreshSession`, `DeleteSession`,
  `CleanupExpiredSessions`; the methods of product_service.go for variants,
  options, single specifications and images (340-985); bulk creation, search by
  prefix and refresh of the cache of categories; the counters of the analytics;
  `filter_products_optimized.sql.go`, whose recursive WITH lacks RECURSIVE; the
  operations of the cache service on hashes and lists.
* Reads that change nothing and that no property is about: `GetPaymentStatus`, the
  lists of orders and the revenue reports, the meta fields of products.
* One statement on a table that nothing else reads: inquiries, settings,
  recommendations, the change of the payment method.  No route writes discounts;
  they are constants.
* Wiring, headers, logs and metrics; the CSRF check and the check of the JWT,
  which only refuse; the rendering of mail; the statements that sqlc prepares and
  closes (`internal/database/db.go`).
* Two uploads of a category image that get one path, having one name and one
  second: `Categories` gives every upload a path of its own.  The case is in
  `Products` and in `Promotions`.
* A restart of the process.  Nothing in memory outlives it but what is lost
  without consequence: the cache of categories and the buckets start empty.
* The isolation levels inside PostgreSQL, except for the triggers of the cart
  totals: elsewhere a statement or a transaction is one step.

What would come next, most useful first: a checkout composed of `Orders`,
`Payment` and `Session`; a proof of `ViewsAgree`, by induction over the length of a
path; one of `FiltersAgree`, with what sorting a set gives as lemmas.
