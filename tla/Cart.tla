-------------------------------- MODULE Cart --------------------------------
(***************************************************************************)
(* The shopping cart: internal/services/cart_service.go over the tables    *)
(* shopping_carts and cart_items and over the Redis keys of a cart.        *)
(*                                                                         *)
(* Every HTTP request runs the service in its own goroutine.  Each SQL     *)
(* statement commits by itself and each Redis call is a round trip, so a   *)
(* request is a sequence of steps between which the others move.  Redis    *)
(* holds, per cart, the list of items (CartItemsKey) and the total         *)
(* (CartTotalKey).  The total is a function of the items, so the model     *)
(* keeps the contents it was computed from.  The keys of single items      *)
(* (CartItemKey) are written and deleted but read by no code: of those     *)
(* calls only the error that changes the flow of AddToCart is kept.        *)
(***************************************************************************)
EXTENDS CartItems, Sequences

CONSTANTS
    Owners,       \* users and guest sessions: each has at most one cart
    Pictured,     \* products that have no image, or one at position 1
    Requests,     \* the requests the server handles at one time
    Ops,          \* the endpoints in use, a subset of AllOps
    Replacements, \* the item lists that clients send to PUT /api/cart/replace
    Faults,       \* whether SQL, Redis or the client's connection may fail
    NoEntry       \* an absent Redis key

AllOps ==
    {"add", "remove", "update", "clear", "replace", "list", "total", "open"}

Item == [product : Products, quantity : 0..MaxQuantity]

ASSUME CartAssumption ==
    /\ Pictured \subseteq Products
    /\ Ops \subseteq AllOps
    /\ Replacements \subseteq Seq(Item)
    /\ Faults \in BOOLEAN
    /\ NoEntry \notin Contents

VARIABLES
    opened,  \* owners that have a shopping_carts row
    items,   \* items[o][p]: quantity of p in o's cart, 0 for no cart_items row
    list,    \* list[o]: the cached list of items, or NoEntry
    total,   \* total[o]: the contents the cached total was computed from
    pc,      \* pc[r]: the step that request r takes next
    op,      \* op[r]: its endpoint
    owner,   \* owner[r]: whose cart it works on
    todo,    \* todo[r]: the items it has still to write
    seen,    \* seen[r]: the contents it read
    missed   \* history: <<o, key>> was left unaware of a change of o's cart

vars == <<opened, items, list, total, pc, op, owner, todo, seen, missed>>
requestVars == <<pc, op, owner, todo, seen>>

Resting == {"idle", "ok", "failed"}
DbSteps == {"lookup", "create", "upsert", "delete", "set", "clear", "refill"}
CacheSteps == {"cacheItem", "dropList", "dropTotal"}
ReadSteps == {"getList", "readItems", "fillList",
              "getTotal", "sumItems", "fillTotal"}
Steps == Resting \union DbSteps \union CacheSteps \union ReadSteps
Keys == {"list", "total"}

Init ==
    /\ opened = {}
    /\ items = [o \in Owners |-> EmptyCart]
    /\ list = [o \in Owners |-> NoEntry]
    /\ total = [o \in Owners |-> NoEntry]
    /\ pc = [r \in Requests |-> "idle"]
    /\ op = [r \in Requests |-> "open"]
    /\ owner \in [Requests -> Owners]
    /\ todo = [r \in Requests |-> <<>>]
    /\ seen = [r \in Requests |-> NoEntry]
    /\ missed = {}

-----------------------------------------------------------------------------
(* How a request moves.                                                    *)

Goto(r, step) == pc' = [pc EXCEPT ![r] = step]
Move(r, from, to) == pc[r] = from /\ Goto(r, to)

\* A Redis call succeeds, or fails where failures are modelled.
Outcome == IF Faults THEN BOOLEAN ELSE {TRUE}

\* Keys of r's cart that r changed (or is changing) and has yet to delete.
KeysAhead(r) ==
    CASE pc[r] \in {"cacheItem", "refill"} -> Keys
      [] pc[r] = "dropList" -> IF op[r] = "remove" THEN {"list"} ELSE Keys
      [] pc[r] = "dropTotal" -> {"total"}
      [] OTHER -> {}

Miss(r, keys) == missed' = missed \union ({owner[r]} \X keys)

\* What the endpoint does once it has its cart.
FirstStep(o) ==
    CASE o = "add" -> "upsert"     [] o = "remove" -> "delete"
      [] o = "update" -> "set"     [] o = "clear" -> "clear"
      [] o = "replace" -> "clear"  [] o = "list" -> "getList"
      [] o = "total" -> "getTotal" [] OTHER -> "ok"

-----------------------------------------------------------------------------
(* The handlers: what each accepts from the client.                        *)

Accept(r, o, work) ==
    /\ o \in Ops
    /\ Move(r, pc[r], "lookup")
    /\ pc[r] \in Resting
    /\ op' = [op EXCEPT ![r] = o]
    /\ \E c \in Owners : owner' = [owner EXCEPT ![r] = c]
    /\ todo' = [todo EXCEPT ![r] = work]
    /\ seen' = [seen EXCEPT ![r] = NoEntry]
    /\ UNCHANGED <<opened, items, list, total, missed>>

\* The validate tags on the quantity are never evaluated: any value passes.
AddToCartHandler(r) == \E i \in Item : Accept(r, "add", <<i>>)

RemoveFromCartHandler(r) ==
    \E p \in Products : Accept(r, "remove", <<[product |-> p, quantity |-> 0]>>)

UpdateCartItemQuantityHandler(r) == \E i \in Item : Accept(r, "update", <<i>>)

ReplaceCartItemsHandler(r) ==
    \E work \in Replacements :
        /\ work # <<>>
        /\ \A n \in DOMAIN work : work[n].quantity > 0
        /\ Accept(r, "replace", work)

ClearCartHandler(r) == Accept(r, "clear", <<>>)
GetCartItemsHandler(r) == Accept(r, "list", <<>>)
CalculateCartTotalHandler(r) == Accept(r, "total", <<>>)
GetShoppingCartHandler(r) == Accept(r, "open", <<>>)

-----------------------------------------------------------------------------
(* getOrCreateCart: a SELECT, and an INSERT when it found nothing.         *)

\* Mutant: the cart is taken to exist.
LookupNothing(r) ==
    /\ Move(r, "lookup", FirstStep(op[r]))
    /\ UNCHANGED <<opened, items, list, total, op, owner, todo, seen, missed>>

LookupCart(r) ==
    /\ Move(r, "lookup",
            IF owner[r] \in opened THEN FirstStep(op[r]) ELSE "create")
    /\ UNCHANGED <<opened, items, list, total, op, owner, todo, seen, missed>>

\* The UNIQUE constraints on user_id and guest_id reject the second of two
\* INSERTs, and the request that made it fails.
CreateCart(r) ==
    /\ Move(r, "create",
            IF owner[r] \in opened THEN "failed" ELSE FirstStep(op[r]))
    /\ opened' = opened \union {owner[r]}
    /\ UNCHANGED <<items, list, total, op, owner, todo, seen, missed>>

-----------------------------------------------------------------------------
(* The statements on cart_items.                                           *)

\* Mutant: quantity is a column without a bound.
FitsAlways(content, i) == i.quantity > 0

\* CHECK (quantity > 0) sees the row proposed for insertion, and the sum must
\* fit the column.
Fits(content, i) ==
    /\ i.quantity > 0
    /\ content[i.product] + i.quantity <= MaxQuantity

Upserted(content, i) == [content EXCEPT ![i.product] = @ + i.quantity]

SetItems(r, content) == items' = [items EXCEPT ![owner[r]] = content]

\* One UpsertCartItem.  When the product has images but none at position 1,
\* the statement writes the row and returns none, which the caller takes for
\* an error; the keys it would have deleted then keep their entries.
Upsert(r, onSuccess, keysOnError) ==
    LET i == Head(todo[r])
        c == owner[r]
    IN  /\ IF Fits(items[c], i) THEN SetItems(r, Upserted(items[c], i))
                                ELSE UNCHANGED items
        /\ todo' = [todo EXCEPT ![r] = Tail(@)]
        /\ CASE ~Fits(items[c], i) ->
                  /\ Goto(r, "failed")
                  /\ Miss(r, keysOnError)
             [] Fits(items[c], i) /\ i.product \notin Pictured ->
                  /\ Goto(r, "failed")
                  /\ Miss(r, Keys)
             [] OTHER ->
                  /\ Goto(r, onSuccess)
                  /\ UNCHANGED missed
        /\ UNCHANGED <<opened, list, total, op, owner, seen>>

\* AddToCart.
UpsertCartItem(r) ==
    /\ pc[r] = "upsert"
    /\ Upsert(r, "cacheItem", {})

\* The loop of ReplaceCartItems.  The transaction it opens is not the one its
\* statements run in: each commits by itself.
RefillCart(r) ==
    /\ pc[r] = "refill"
    /\ Upsert(r, IF Len(todo[r]) = 1 THEN "dropList" ELSE "refill", Keys)

\* RemoveFromCart: deleting no row is not an error.  It deletes the key of the
\* list and never the key of the total, which misses the change.
RemoveCartItem(r) ==
    /\ Move(r, "delete", "dropList")
    /\ SetItems(r, [items[owner[r]] EXCEPT ![Head(todo[r]).product] = 0])
    /\ todo' = [todo EXCEPT ![r] = <<>>]
    /\ Miss(r, {"total"})
    /\ UNCHANGED <<opened, list, total, op, owner, seen>>

\* UpdateCartItemQuantity: an UPDATE of no row succeeds, and the CHECK rejects
\* the quantity 0 that handler and service let through.
SetCartItemQuantity(r) ==
    LET i == Head(todo[r])
        present == items[owner[r]][i.product] > 0
    IN  /\ Move(r, "set",
                IF present /\ i.quantity = 0 THEN "failed" ELSE "dropList")
        /\ IF present /\ i.quantity > 0
           THEN SetItems(r, [items[owner[r]] EXCEPT ![i.product] = i.quantity])
           ELSE UNCHANGED items
        /\ todo' = [todo EXCEPT ![r] = <<>>]
        /\ UNCHANGED <<opened, list, total, op, owner, seen, missed>>

\* Mutant: ClearCart deletes the key of the total and not that of the list.
ClearCartAndTotal(r) ==
    /\ Move(r, "clear", IF op[r] = "replace" THEN "refill" ELSE "dropTotal")
    /\ SetItems(r, EmptyCart)
    /\ UNCHANGED <<opened, list, total, op, owner, todo, seen, missed>>

\* ClearCart, and the first statement of ReplaceCartItems.
ClearCart(r) ==
    /\ Move(r, "clear", IF op[r] = "replace" THEN "refill" ELSE "dropList")
    /\ SetItems(r, EmptyCart)
    /\ UNCHANGED <<opened, list, total, op, owner, todo, seen, missed>>

-----------------------------------------------------------------------------
(* The Redis calls of the requests that write.                             *)

\* updateCartCache stores the item first and gives up at the first error;
\* AddToCart logs that error and reports success.
CacheItem(r) ==
    /\ pc[r] = "cacheItem"
    /\ \E done \in Outcome :
          IF done THEN Goto(r, "dropList") /\ UNCHANGED missed
                  ELSE Goto(r, "ok") /\ Miss(r, Keys)
    /\ UNCHANGED <<opened, items, list, total, op, owner, todo, seen>>

\* Mutant: no endpoint deletes the key of the total.
AfterDropListDone(r, done) == "ok"

AfterDropList(r, done) ==
    IF op[r] = "remove" \/ (op[r] = "add" /\ ~done) THEN "ok" ELSE "dropTotal"

DropList(r) ==
    /\ pc[r] = "dropList"
    /\ \E done \in Outcome :
          /\ Goto(r, AfterDropList(r, done))
          /\ IF done
             THEN /\ list' = [list EXCEPT ![owner[r]] = NoEntry]
                  /\ missed' = missed \ {<<owner[r], "list">>}
             ELSE /\ Miss(r, IF op[r] = "add" THEN Keys ELSE {"list"})
                  /\ UNCHANGED list
    /\ UNCHANGED <<opened, items, total, op, owner, todo, seen>>

DropTotal(r) ==
    /\ Move(r, "dropTotal", "ok")
    /\ \E done \in Outcome :
          IF done
          THEN /\ total' = [total EXCEPT ![owner[r]] = NoEntry]
               /\ missed' = missed \ {<<owner[r], "total">>}
          ELSE /\ Miss(r, {"total"})
               /\ UNCHANGED total
    /\ UNCHANGED <<opened, items, list, op, owner, todo, seen>>

-----------------------------------------------------------------------------
(* GetCartItems: read through the list key; a Redis error is a miss.       *)

GetListCache(r) ==
    /\ pc[r] = "getList"
    /\ \E done \in Outcome :
          IF done /\ list[owner[r]] # NoEntry
          THEN /\ Goto(r, "ok")
               /\ seen' = [seen EXCEPT ![r] = list[owner[r]]]
          ELSE /\ Goto(r, "readItems")
               /\ UNCHANGED seen
    /\ UNCHANGED <<opened, items, list, total, op, owner, todo, missed>>

GetAllCartItems(r) ==
    /\ Move(r, "readItems", "fillList")
    /\ seen' = [seen EXCEPT ![r] = items[owner[r]]]
    /\ UNCHANGED <<opened, items, list, total, op, owner, todo, missed>>

\* The key missed whatever changed since r read.
Refreshed(r, key) ==
    IF seen[r] = items[owner[r]] THEN missed \ {<<owner[r], key>>}
                                 ELSE missed \union {<<owner[r], key>>}

FillList(r) ==
    /\ Move(r, "fillList", "ok")
    /\ \E done \in Outcome :
          IF done
          THEN /\ list' = [list EXCEPT ![owner[r]] = seen[r]]
               /\ missed' = Refreshed(r, "list")
          ELSE UNCHANGED <<list, missed>>
    /\ UNCHANGED <<opened, items, total, op, owner, todo, seen>>

-----------------------------------------------------------------------------
(* CalculateCartTotal through GetOrSet, which takes the total 0 for a miss *)
(* and fails with Redis.  (Its rate limiter may also refuse: Abort.)       *)

GetTotalCache(r) ==
    /\ pc[r] = "getTotal"
    /\ \/ /\ Faults
          /\ Goto(r, "failed")
          /\ UNCHANGED seen
       \/ IF total[owner[r]] \notin {NoEntry, EmptyCart}
          THEN /\ Goto(r, "ok")
               /\ seen' = [seen EXCEPT ![r] = total[owner[r]]]
          ELSE /\ Goto(r, "sumItems")
               /\ UNCHANGED seen
    /\ UNCHANGED <<opened, items, list, total, op, owner, todo, missed>>

SumCartItems(r) ==
    /\ Move(r, "sumItems", "fillTotal")
    /\ seen' = [seen EXCEPT ![r] = items[owner[r]]]
    /\ UNCHANGED <<opened, items, list, total, op, owner, todo, missed>>

FillTotal(r) ==
    /\ pc[r] = "fillTotal"
    /\ \E done \in Outcome :
          IF done
          THEN /\ Goto(r, "ok")
               /\ total' = [total EXCEPT ![owner[r]] = seen[r]]
               /\ missed' = Refreshed(r, "total")
          ELSE /\ Goto(r, "failed")
               /\ UNCHANGED <<total, missed>>
    /\ UNCHANGED <<opened, items, list, op, owner, todo, seen>>

-----------------------------------------------------------------------------
(* The environment.                                                        *)

\* A statement fails, the client goes away and its context is cancelled, or
\* the process dies: the request stops where it is, without cleaning up.
Abort(r) ==
    /\ Faults
    /\ pc[r] \notin Resting
    /\ Goto(r, "failed")
    /\ Miss(r, KeysAhead(r))
    /\ UNCHANGED <<opened, items, list, total, op, owner, todo, seen>>

\* A TTL runs out (24 hours for the list, REDIS_TTL for the total) or Redis
\* evicts the key.
Expire(o) ==
    /\ \/ /\ list[o] # NoEntry
          /\ list' = [list EXCEPT ![o] = NoEntry]
          /\ missed' = missed \ {<<o, "list">>}
          /\ UNCHANGED total
       \/ /\ total[o] # NoEntry
          /\ total' = [total EXCEPT ![o] = NoEntry]
          /\ missed' = missed \ {<<o, "total">>}
          /\ UNCHANGED list
    /\ UNCHANGED <<opened, items, requestVars>>

Handle(r) ==
    \/ AddToCartHandler(r)
    \/ RemoveFromCartHandler(r)
    \/ UpdateCartItemQuantityHandler(r)
    \/ ReplaceCartItemsHandler(r)
    \/ ClearCartHandler(r)
    \/ GetCartItemsHandler(r)
    \/ CalculateCartTotalHandler(r)
    \/ GetShoppingCartHandler(r)

Step(r) ==
    \/ LookupCart(r)
    \/ CreateCart(r)
    \/ UpsertCartItem(r)
    \/ RefillCart(r)
    \/ RemoveCartItem(r)
    \/ SetCartItemQuantity(r)
    \/ ClearCart(r)
    \/ CacheItem(r)
    \/ DropList(r)
    \/ DropTotal(r)
    \/ GetListCache(r)
    \/ GetAllCartItems(r)
    \/ FillList(r)
    \/ GetTotalCache(r)
    \/ SumCartItems(r)
    \/ FillTotal(r)

Next ==
    \/ \E r \in Requests : Handle(r) \/ Step(r) \/ Abort(r)
    \/ \E o \in Owners : Expire(o)

Spec == Init /\ [][Next]_vars

-----------------------------------------------------------------------------
(* Properties.                                                             *)

TypeOK ==
    /\ opened \subseteq Owners
    /\ items \in [Owners -> Contents]
    /\ list \in [Owners -> Contents \union {NoEntry}]
    /\ total \in [Owners -> Contents \union {NoEntry}]
    /\ pc \in [Requests -> Steps]
    /\ op \in [Requests -> AllOps]
    /\ owner \in [Requests -> Owners]
    /\ todo \in [Requests -> Seq(Item)]
    /\ seen \in [Requests -> Contents \union {NoEntry}]
    /\ missed \subseteq Owners \X Keys

\* A key that differs from the cart either was left unaware of a change (a
\* fill wrote what it had read before the change, a deletion failed or was
\* never reached, or RemoveFromCart left the total alone), or a request that
\* changed the cart has yet to delete it.
StaleOnlyIfMissed(cache, key) ==
    \A o \in Owners :
        cache[o] \notin {NoEntry, items[o]} =>
            \/ <<o, key>> \in missed
            \/ \E r \in Requests : owner[r] = o /\ key \in KeysAhead(r)

\* The cached list of items of a cart is stale for no other reason than those:
\* every endpoint that writes the cart deletes the key after it wrote.
ListStaleOnlyIfMissed == StaleOnlyIfMissed(list, "list")

\* The same of the cached total.
TotalStaleOnlyIfMissed == StaleOnlyIfMissed(total, "total")

\* The service implements the abstract cart: no item is written before the
\* cart is opened, one statement changes one product or empties one cart.
Abstract == INSTANCE CartContents
ImplementsContents == Abstract!Spec
=============================================================================
