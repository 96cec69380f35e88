----------------------------- MODULE CartProofs -----------------------------
(***************************************************************************)
(* Proofs about Cart and, at the end, about CartTotals below it: for any   *)
(* owners, products, requests and statements, with and without failures.   *)
(***************************************************************************)
EXTENDS Cart, CartTotals, SequenceTheorems, FiniteSetTheorems, TLAPS

\* A request at a step that takes an item from todo has one there.
WorkAtHand ==
    \A r \in Requests :
        \/ pc[r] \in {"upsert", "delete", "set", "refill"}
        \/ /\ pc[r] \in {"lookup", "create", "clear"}
           /\ op[r] \in {"add", "remove", "update", "replace"}
        => todo[r] # <<>>

\* A request about to fill a key has read what it fills it with.
ReadAtHand ==
    \A r \in Requests :
        pc[r] \in {"fillList", "fillTotal"} => seen[r] \in Contents

\* The inductive invariant that types the state.
TInv == TypeOK /\ WorkAtHand /\ ReadAtHand

USE DEF Contents, Item, Steps, Resting, DbSteps, CacheSteps, ReadSteps,
        AllOps, Keys

\* Where an endpoint goes once it has its cart, and what it then needs.
LEMMA FirstStepType ==
    ASSUME NEW o \in AllOps
    PROVE  /\ FirstStep(o) \in Steps \ {"fillList", "fillTotal", "refill",
                                        "lookup", "create"}
           /\ FirstStep(o) \in {"upsert", "delete", "set"} =>
                  o \in {"add", "remove", "update"}
BY DEF FirstStep

\* The contents of a cart after one statement are contents.
LEMMA UpsertedType ==
    ASSUME NEW c \in Contents, NEW i \in Item, Fits(c, i)
    PROVE  Upserted(c, i) \in Contents
BY ItemsAssumption DEF Fits, Upserted

LEMMA EmptyCartType == EmptyCart \in Contents
BY ItemsAssumption DEF EmptyCart

\* Accepting a request keeps the invariant, whatever work it brings.
LEMMA AcceptKeepsTInv ==
    ASSUME TInv, NEW r \in Requests, NEW o \in AllOps,
           NEW work \in Seq(Item), Accept(r, o, work),
           o \in {"add", "remove", "update", "replace"} => work # <<>>
    PROVE  TInv'
BY DEF TInv, TypeOK, WorkAtHand, ReadAtHand, Accept, Move, Goto

LEMMA HandleKeepsTInv ==
    ASSUME TInv, NEW r \in Requests, Handle(r)
    PROVE  TInv'
<1>1. \A i \in Item : <<i>> \in Seq(Item) /\ <<i>> # <<>>
  OBVIOUS
<1>2. ASSUME NEW p \in Products
      PROVE  [product |-> p, quantity |-> 0] \in Item
  BY ItemsAssumption
<1>3. CASE AddToCartHandler(r)
  BY <1>1, <1>3, AcceptKeepsTInv DEF AddToCartHandler
<1>4. CASE RemoveFromCartHandler(r)
  <2>1. PICK p \in Products :
            Accept(r, "remove", <<[product |-> p, quantity |-> 0]>>)
    BY <1>4 DEF RemoveFromCartHandler
  <2>2. QED
    BY <1>1, <1>2, <2>1, AcceptKeepsTInv
<1>5. CASE UpdateCartItemQuantityHandler(r)
  BY <1>1, <1>5, AcceptKeepsTInv DEF UpdateCartItemQuantityHandler
<1>6. CASE ReplaceCartItemsHandler(r)
  BY <1>6, CartAssumption, AcceptKeepsTInv DEF ReplaceCartItemsHandler
<1>7. ASSUME NEW o \in {"clear", "list", "total", "open"}, Accept(r, o, <<>>)
      PROVE  TInv'
  <2>1. <<>> \in Seq(Item)
    OBVIOUS
  <2>2. QED
    BY <1>7, <2>1, AcceptKeepsTInv
<1>8. QED
  BY <1>3, <1>4, <1>5, <1>6, <1>7
  DEF Handle, ClearCartHandler, GetCartItemsHandler,
      CalculateCartTotalHandler, GetShoppingCartHandler

\* One upsert: the loop of a replace needs a further item to go on.
LEMMA UpsertKeepsTInv ==
    ASSUME TInv, NEW r \in Requests, NEW next, NEW keys \in SUBSET Keys,
           pc[r] \in {"upsert", "refill"},
           Upsert(r, next, keys),
           \/ next \in {"cacheItem", "dropList"}
           \/ next = "refill" /\ Len(todo[r]) # 1
    PROVE  TInv'
<1> DEFINE i == Head(todo[r])
           c == items[owner[r]]
<1>1. todo[r] \in Seq(Item) /\ todo[r] # <<>>
  BY DEF TInv, TypeOK, WorkAtHand
<1>2. /\ i \in Item
      /\ Tail(todo[r]) \in Seq(Item)
      /\ Len(Tail(todo[r])) = Len(todo[r]) - 1
  BY <1>1, HeadTailProperties
<1>3. next = "refill" => Tail(todo[r]) # <<>>
  <2>1. Len(todo[r]) \in Nat
    BY <1>1, LenProperties
  <2>2. Len(<<>>) = 0
    OBVIOUS
  <2>3. next = "refill" => Len(Tail(todo[r])) # 0
    BY <1>2, <2>1
  <2>4. QED
    BY <2>2, <2>3
<1>4. c \in Contents /\ owner[r] \in Owners
  BY DEF TInv, TypeOK
<1>5. items' \in [Owners -> Contents]
  <2>1. CASE Fits(c, i)
    <3>1. Upserted(c, i) \in Contents
      BY <1>2, <1>4, <2>1, UpsertedType
    <3>2. QED
      BY <1>4, <2>1, <3>1 DEF Upsert, SetItems, TInv, TypeOK
  <2>2. CASE ~Fits(c, i)
    BY <2>2 DEF Upsert, TInv, TypeOK
  <2>3. QED
    BY <2>1, <2>2
<1>6. /\ todo' = [todo EXCEPT ![r] = Tail(todo[r])]
      /\ UNCHANGED <<opened, list, total, op, owner, seen>>
  BY DEF Upsert
<1>7. /\ missed' \subseteq Owners \X Keys
      /\ pc' = [pc EXCEPT ![r] = next] \/ pc' = [pc EXCEPT ![r] = "failed"]
  <2>1. CASE ~Fits(c, i)
    BY <1>4, <2>1 DEF Upsert, Miss, Goto, TInv, TypeOK
  <2>2. CASE Fits(c, i) /\ i.product \notin Pictured
    BY <1>4, <2>2 DEF Upsert, Miss, Goto, TInv, TypeOK
  <2>3. CASE Fits(c, i) /\ i.product \in Pictured
    BY <1>4, <2>3 DEF Upsert, Miss, Goto, TInv, TypeOK
  <2>4. QED
    BY <2>1, <2>2, <2>3
<1>8. TypeOK'
  BY <1>2, <1>5, <1>6, <1>7 DEF TInv, TypeOK
<1>9. WorkAtHand' /\ ReadAtHand'
  BY <1>3, <1>6, <1>7 DEF TInv, TypeOK, WorkAtHand, ReadAtHand
<1>10. QED
  BY <1>8, <1>9 DEF TInv

\* Typing is preserved by every step.
LEMMA TInvInductive == TInv /\ [Next]_vars => TInv'
<1> SUFFICES ASSUME TInv, [Next]_vars
             PROVE  TInv'
  OBVIOUS
<1>1. ASSUME NEW r \in Requests, Handle(r)
      PROVE  TInv'
  BY <1>1, HandleKeepsTInv
<1>2. ASSUME NEW r \in Requests, Step(r)
      PROVE  TInv'
  <2> DEFINE c == owner[r]
  <2>0. /\ c \in Owners
        /\ op[r] \in AllOps
        /\ items[c] \in Contents
        /\ EmptyCart \in Contents
    BY EmptyCartType DEF TInv, TypeOK
  <2>1. CASE LookupCart(r)
    <3>1. /\ FirstStep(op[r]) \in Steps \ {"fillList", "fillTotal", "refill",
                                            "lookup", "create"}
          /\ FirstStep(op[r]) \in {"upsert", "delete", "set"} =>
                 op[r] \in {"add", "remove", "update"}
      BY <2>0, FirstStepType
    <3>2. TypeOK'
      BY <2>1, <3>1 DEF LookupCart, Move, Goto, TInv, TypeOK
    <3>3. WorkAtHand' /\ ReadAtHand'
      BY <2>0, <2>1, <3>1
      DEF LookupCart, Move, Goto, TInv, TypeOK, WorkAtHand, ReadAtHand
    <3>4. QED
      BY <3>2, <3>3 DEF TInv
  <2>2. CASE CreateCart(r)
    <3>1. /\ FirstStep(op[r]) \in Steps \ {"fillList", "fillTotal", "refill",
                                            "lookup", "create"}
          /\ FirstStep(op[r]) \in {"upsert", "delete", "set"} =>
                 op[r] \in {"add", "remove", "update"}
      BY <2>0, FirstStepType
    <3>2. TypeOK'
      BY <2>0, <2>2, <3>1 DEF CreateCart, Move, Goto, TInv, TypeOK
    <3>3. WorkAtHand' /\ ReadAtHand'
      BY <2>0, <2>2, <3>1
      DEF CreateCart, Move, Goto, TInv, TypeOK, WorkAtHand, ReadAtHand
    <3>4. QED
      BY <3>2, <3>3 DEF TInv
  <2>3. CASE UpsertCartItem(r)
    BY <2>3, UpsertKeepsTInv DEF UpsertCartItem
  <2>4. CASE RefillCart(r)
    BY <2>4, UpsertKeepsTInv DEF RefillCart
  <2>5. CASE RemoveCartItem(r)
    <3>1. Head(todo[r]) \in Item
      BY <2>5, HeadTailProperties
      DEF RemoveCartItem, Move, TInv, TypeOK, WorkAtHand
    <3>5. 0 \in 0..MaxQuantity
      BY ItemsAssumption
    <3>2. [items[c] EXCEPT ![Head(todo[r]).product] = 0] \in Contents
      BY <2>0, <3>5
    <3>3. <<>> \in Seq(Item)
      OBVIOUS
    <3>4. missed' \subseteq Owners \X Keys
      BY <2>0, <2>5 DEF RemoveCartItem, Miss, TInv, TypeOK
    <3>6. TypeOK'
      BY <2>0, <2>5, <3>2, <3>3, <3>4
      DEF RemoveCartItem, Move, Goto, SetItems, TInv, TypeOK
    <3>7. WorkAtHand' /\ ReadAtHand'
      BY <2>0, <2>5
      DEF RemoveCartItem, Move, Goto, TInv, TypeOK, WorkAtHand, ReadAtHand
    <3>8. QED
      BY <3>6, <3>7 DEF TInv
  <2>6. CASE SetCartItemQuantity(r)
    <3> DEFINE i == Head(todo[r])
    <3>1. i \in Item
      BY <2>6, HeadTailProperties
      DEF SetCartItemQuantity, Move, TInv, TypeOK, WorkAtHand
    <3>2. [items[c] EXCEPT ![i.product] = i.quantity] \in Contents
      BY <2>0, <3>1
    <3>3. <<>> \in Seq(Item)
      OBVIOUS
    <3>4. items' \in [Owners -> Contents]
      BY <2>0, <2>6, <3>2 DEF SetCartItemQuantity, SetItems, TInv, TypeOK
    <3>5. QED
      BY <2>0, <2>6, <3>3, <3>4
      DEF SetCartItemQuantity, Move, Goto, TInv, TypeOK, WorkAtHand,
          ReadAtHand
  <2>7. CASE ClearCart(r)
    BY <2>0, <2>7
    DEF ClearCart, Move, Goto, SetItems, TInv, TypeOK, WorkAtHand, ReadAtHand
  <2>8. CASE CacheItem(r)
    <3>1. missed' \subseteq Owners \X Keys
      BY <2>0, <2>8
      DEF CacheItem, Goto, Miss, TInv, TypeOK
    <3>2. TypeOK'
      BY <2>0, <2>8, <3>1
      DEF CacheItem, Goto, Miss, TInv, TypeOK
    <3>3. WorkAtHand' /\ ReadAtHand'
      BY <2>0, <2>8
      DEF CacheItem, Goto, Miss, TInv, TypeOK, WorkAtHand,
          ReadAtHand
    <3>4. QED
      BY <3>2, <3>3 DEF TInv
  <2>9. CASE DropList(r)
    <3>1. missed' \subseteq Owners \X Keys
      BY <2>0, <2>9
      DEF DropList, AfterDropList, Goto, Miss, TInv, TypeOK
    <3>2. TypeOK'
      BY <2>0, <2>9, <3>1
      DEF DropList, AfterDropList, Goto, Miss, TInv, TypeOK
    <3>3. WorkAtHand' /\ ReadAtHand'
      BY <2>0, <2>9
      DEF DropList, AfterDropList, Goto, Miss, TInv, TypeOK, WorkAtHand,
          ReadAtHand
    <3>4. QED
      BY <3>2, <3>3 DEF TInv
  <2>10. CASE DropTotal(r)
    <3>1. missed' \subseteq Owners \X Keys
      BY <2>0, <2>10
      DEF DropTotal, Move, Goto, Miss, TInv, TypeOK
    <3>2. TypeOK'
      BY <2>0, <2>10, <3>1
      DEF DropTotal, Move, Goto, Miss, TInv, TypeOK
    <3>3. WorkAtHand' /\ ReadAtHand'
      BY <2>0, <2>10
      DEF DropTotal, Move, Goto, Miss, TInv, TypeOK, WorkAtHand,
          ReadAtHand
    <3>4. QED
      BY <3>2, <3>3 DEF TInv
  <2>11. CASE GetListCache(r)
    BY <2>0, <2>11
    DEF GetListCache, Goto, TInv, TypeOK, WorkAtHand, ReadAtHand
  <2>12. CASE GetAllCartItems(r)
    BY <2>0, <2>12
    DEF GetAllCartItems, Move, Goto, TInv, TypeOK, WorkAtHand, ReadAtHand
  <2>13. CASE FillList(r)
    <3>1. missed' \subseteq Owners \X Keys
      BY <2>0, <2>13
      DEF FillList, Refreshed, Move, Goto, TInv, TypeOK
    <3>2. TypeOK'
      BY <2>0, <2>13, <3>1
      DEF FillList, Refreshed, Move, Goto, TInv, TypeOK, ReadAtHand
    <3>3. WorkAtHand' /\ ReadAtHand'
      BY <2>0, <2>13
      DEF FillList, Refreshed, Move, Goto, TInv, TypeOK, WorkAtHand,
          ReadAtHand
    <3>4. QED
      BY <3>2, <3>3 DEF TInv
  <2>14. CASE GetTotalCache(r)
    BY <2>0, <2>14
    DEF GetTotalCache, Goto, TInv, TypeOK, WorkAtHand, ReadAtHand
  <2>15. CASE SumCartItems(r)
    BY <2>0, <2>15
    DEF SumCartItems, Move, Goto, TInv, TypeOK, WorkAtHand, ReadAtHand
  <2>16. CASE FillTotal(r)
    <3>1. missed' \subseteq Owners \X Keys
      BY <2>0, <2>16
      DEF FillTotal, Refreshed, Goto, TInv, TypeOK
    <3>2. TypeOK'
      BY <2>0, <2>16, <3>1
      DEF FillTotal, Refreshed, Goto, TInv, TypeOK, ReadAtHand
    <3>3. WorkAtHand' /\ ReadAtHand'
      BY <2>0, <2>16
      DEF FillTotal, Refreshed, Goto, TInv, TypeOK, WorkAtHand,
          ReadAtHand
    <3>4. QED
      BY <3>2, <3>3 DEF TInv
  <2>17. QED
    BY <1>2, <2>1, <2>2, <2>3, <2>4, <2>5, <2>6, <2>7, <2>8, <2>9, <2>10,
       <2>11, <2>12, <2>13, <2>14, <2>15, <2>16 DEF Step
<1>3. ASSUME NEW r \in Requests, Abort(r)
      PROVE  TInv'
  BY <1>3
  DEF Abort, Miss, KeysAhead, Goto, TInv, TypeOK, WorkAtHand, ReadAtHand
<1>4. ASSUME NEW o \in Owners, Expire(o)
      PROVE  TInv'
  BY <1>4
  DEF Expire, requestVars, TInv, TypeOK, WorkAtHand, ReadAtHand
<1>5. CASE UNCHANGED vars
  BY <1>5 DEF vars, TInv, TypeOK, WorkAtHand, ReadAtHand
<1>6. QED
  BY <1>1, <1>2, <1>3, <1>4, <1>5 DEF Next

LEMMA InitTInv == Init => TInv
BY EmptyCartType DEF Init, TInv, TypeOK, WorkAtHand, ReadAtHand

\* The variables keep their types, in particular every quantity fits its
\* column and every list that is served is the contents of a cart.
THEOREM CartTyped == Spec => []TypeOK
<1>1. TInv => TypeOK
  BY DEF TInv
<1>2. QED
  BY <1>1, InitTInv, TInvInductive, PTL DEF Spec

-----------------------------------------------------------------------------
(* Staleness of the two cached keys.                                       *)

\* RemoveFromCart, the one endpoint that leaves the total alone, takes no
\* step of another endpoint.
RemovePath ==
    \A r \in Requests :
        op[r] = "remove" =>
            pc[r] \in {"lookup", "create", "delete", "dropList"} \union Resting

LEMMA RemovePathInductive == TInv /\ RemovePath /\ [Next]_vars => RemovePath'
<1> SUFFICES ASSUME TInv, RemovePath, [Next]_vars
             PROVE  RemovePath'
  OBVIOUS
<1> USE DEF RemovePath, TInv, TypeOK, Move, Goto
<1>1. ASSUME NEW r \in Requests, Handle(r)
      PROVE  RemovePath'
  <2>1. PICK o, work : Accept(r, o, work)
    BY <1>1 DEF Handle, AddToCartHandler, RemoveFromCartHandler,
                UpdateCartItemQuantityHandler, ReplaceCartItemsHandler,
                ClearCartHandler, GetCartItemsHandler,
                CalculateCartTotalHandler, GetShoppingCartHandler
  <2>2. QED
    BY <2>1 DEF Accept
<1>2. ASSUME NEW r \in Requests, Step(r)
      PROVE  RemovePath'
  <2>1. CASE LookupCart(r) \/ CreateCart(r)
    <3>1. op[r] = "remove" => FirstStep(op[r]) = "delete"
      BY DEF FirstStep
    <3>2. QED
      BY <2>1, <3>1 DEF LookupCart, CreateCart
  <2>2. CASE UpsertCartItem(r) \/ RefillCart(r)
    <3>1. /\ op' = op
          /\ \A s \in Requests \ {r} : pc'[s] = pc[s]
          /\ op[r] # "remove"
      BY <2>2 DEF UpsertCartItem, RefillCart, Upsert
    <3>2. QED
      BY <3>1
  <2>3. CASE RemoveCartItem(r) \/ SetCartItemQuantity(r) \/ ClearCart(r)
    BY <2>3 DEF RemoveCartItem, SetCartItemQuantity, ClearCart
  <2>4. CASE CacheItem(r) \/ DropList(r) \/ DropTotal(r)
    BY <2>4 DEF CacheItem, DropList, AfterDropList, DropTotal
  <2>5. CASE GetListCache(r) \/ GetAllCartItems(r) \/ FillList(r)
    BY <2>5 DEF GetListCache, GetAllCartItems, FillList
  <2>6. CASE GetTotalCache(r) \/ SumCartItems(r) \/ FillTotal(r)
    BY <2>6 DEF GetTotalCache, SumCartItems, FillTotal
  <2>7. QED
    BY <1>2, <2>1, <2>2, <2>3, <2>4, <2>5, <2>6 DEF Step
<1>3. ASSUME NEW r \in Requests, Abort(r)
      PROVE  RemovePath'
  BY <1>3 DEF Abort
<1>4. ASSUME NEW o \in Owners, Expire(o)
      PROVE  RemovePath'
  BY <1>4 DEF Expire, requestVars
<1>5. CASE UNCHANGED vars
  BY <1>5 DEF vars
<1>6. QED
  BY <1>1, <1>2, <1>3, <1>4, <1>5 DEF Next

\* The key k of every cart, and what is allowed as a reason for it to differ
\* from the cart of o.
Cached(k) == IF k = "list" THEN list ELSE total

Excused(o, k) ==
    \/ <<o, k>> \in missed
    \/ \E r \in Requests : owner[r] = o /\ k \in KeysAhead(r)

Explained(k) ==
    \A o \in Owners : Cached(k)[o] \notin {NoEntry, items[o]} => Excused(o, k)

LEMMA ExplainedMeaning ==
    /\ Explained("list") <=> ListStaleOnlyIfMissed
    /\ Explained("total") <=> TotalStaleOnlyIfMissed
BY DEF Explained, Excused, Cached, ListStaleOnlyIfMissed,
       TotalStaleOnlyIfMissed, StaleOnlyIfMissed

\* A step of r leaves the excuses that other requests give.
LEMMA ExcuseStays ==
    ASSUME NEW r \in Requests, NEW o \in Owners, NEW k \in Keys,
           \A s \in Requests \ {r} :
               pc'[s] = pc[s] /\ op'[s] = op[s] /\ owner'[s] = owner[s],
           Excused(o, k),
           <<o, k>> \in missed => Excused(o, k)',
           owner[r] = o /\ k \in KeysAhead(r) => Excused(o, k)'
    PROVE  Excused(o, k)'
<1>1. CASE <<o, k>> \in missed
  BY <1>1
<1>2. ASSUME NEW s \in Requests \ {r}, owner[s] = o, k \in KeysAhead(s)
      PROVE  Excused(o, k)'
  <2>1. k \in KeysAhead(s)'
    BY <1>2 DEF KeysAhead
  <2>2. QED
    BY <1>2, <2>1 DEF Excused
<1>3. QED
  BY <1>1, <1>2 DEF Excused

\* A step of r that leaves the key and the items alone, and leaves r with its
\* deletion ahead or records it as missed.
LEMMA QuietStep ==
    ASSUME TInv, NEW r \in Requests, NEW k \in Keys, Explained(k),
           UNCHANGED <<items, Cached(k)>>,
           \A o \in Owners : <<o, k>> \in missed => <<o, k>> \in missed',
           \A s \in Requests \ {r} :
               pc'[s] = pc[s] /\ op'[s] = op[s] /\ owner'[s] = owner[s],
           k \in KeysAhead(r) =>
               \/ <<owner[r], k>> \in missed'
               \/ owner'[r] = owner[r] /\ k \in KeysAhead(r)'
    PROVE  Explained(k)'
<1> SUFFICES ASSUME NEW o \in Owners, Cached(k)'[o] \notin {NoEntry, items'[o]}
             PROVE  Excused(o, k)'
  BY DEF Explained
<1>1. Excused(o, k)
  BY DEF Explained
<1>2. <<o, k>> \in missed => Excused(o, k)'
  BY DEF Excused
<1>3. owner[r] = o /\ k \in KeysAhead(r) => Excused(o, k)'
  BY DEF Excused
<1>4. QED
  BY <1>1, <1>2, <1>3, ExcuseStays

\* A step of r that writes its cart and has the key ahead afterwards, or
\* records that the key missed the change.
LEMMA WritingStep ==
    ASSUME TInv, NEW r \in Requests, NEW k \in Keys, Explained(k),
           NEW content, items' = [items EXCEPT ![owner[r]] = content],
           UNCHANGED <<list, total, op, owner>>,
           missed \subseteq missed',
           \A s \in Requests \ {r} : pc'[s] = pc[s],
           <<owner[r], k>> \in missed' \/ k \in KeysAhead(r)'
    PROVE  Explained(k)'
<1> SUFFICES ASSUME NEW o \in Owners, Cached(k)'[o] \notin {NoEntry, items'[o]}
             PROVE  Excused(o, k)'
  BY DEF Explained
<1>1. CASE o = owner[r]
  BY <1>1 DEF Excused
<1>2. CASE o # owner[r]
  <2>1. items'[o] = items[o] /\ Cached(k)' = Cached(k)
    BY <1>2 DEF TInv, TypeOK, Cached
  <2>2. Excused(o, k)
    BY <2>1 DEF Explained
  <2>3. <<o, k>> \in missed => Excused(o, k)'
    BY DEF Excused
  <2>4. QED
    BY <1>2, <2>2, <2>3, ExcuseStays
<1>3. QED
  BY <1>1, <1>2

\* A deletion or a fill of the key of r's cart.
LEMMA KeyStep ==
    ASSUME TInv, NEW r \in Requests, NEW k \in Keys, Explained(k),
           NEW value, Cached(k)' = [Cached(k) EXCEPT ![owner[r]] = value],
           UNCHANGED <<items, op, owner>>,
           \A s \in Requests \ {r} : pc'[s] = pc[s],
           \A o \in Owners \ {owner[r]} :
               <<o, k>> \in missed => <<o, k>> \in missed',
           \/ value = NoEntry
           \/ value = items[owner[r]]
           \/ <<owner[r], k>> \in missed'
    PROVE  Explained(k)'
<1> SUFFICES ASSUME NEW o \in Owners, Cached(k)'[o] \notin {NoEntry, items'[o]}
             PROVE  Excused(o, k)'
  BY DEF Explained
<1>1. CASE o = owner[r]
  BY <1>1 DEF Excused, Cached, TInv, TypeOK
<1>2. CASE o # owner[r]
  <2>1. Cached(k)'[o] = Cached(k)[o]
    BY <1>2 DEF Cached, TInv, TypeOK
  <2>2. Excused(o, k)
    BY <2>1 DEF Explained
  <2>3. <<o, k>> \in missed => Excused(o, k)'
    BY <1>2 DEF Excused
  <2>4. QED
    BY <1>2, <2>2, <2>3, ExcuseStays
<1>3. QED
  BY <1>1, <1>2

LEMMA UpsertExplained ==
    ASSUME TInv, RemovePath, NEW r \in Requests, NEW k \in Keys, Explained(k),
           NEW next, NEW keys \in SUBSET Keys,
           Upsert(r, next, keys),
           next \in {"cacheItem", "dropList", "refill"},
           \/ pc[r] = "upsert"
           \/ pc[r] = "refill" /\ keys = Keys
    PROVE  Explained(k)'
<1> DEFINE i == Head(todo[r])
           c == items[owner[r]]
<1>1. UNCHANGED <<list, total, op, owner>> /\ Cached(k)' = Cached(k)
  BY DEF Upsert, Cached
<1>2. pc \in [Requests -> Steps] /\ op[r] # "remove"
  BY DEF TInv, TypeOK, RemovePath
<1>3. CASE ~Fits(c, i)
  <2>1. /\ UNCHANGED items
        /\ pc' = [pc EXCEPT ![r] = "failed"]
        /\ missed' = missed \union ({owner[r]} \X keys)
    BY <1>3 DEF Upsert, Goto, Miss
  <2>2. k \in KeysAhead(r) => k \in keys
    BY DEF KeysAhead
  <2>3. QED
    BY <1>1, <1>2, <2>1, <2>2, QuietStep
<1>4. CASE Fits(c, i) /\ i.product \notin Pictured
  <2>1. /\ items' = [items EXCEPT ![owner[r]] = Upserted(c, i)]
        /\ pc' = [pc EXCEPT ![r] = "failed"]
        /\ missed' = missed \union ({owner[r]} \X Keys)
    BY <1>4 DEF Upsert, Goto, Miss, SetItems
  <2>2. QED
    BY <1>1, <1>2, <2>1, WritingStep
<1>5. CASE Fits(c, i) /\ i.product \in Pictured
  <2>1. /\ items' = [items EXCEPT ![owner[r]] = Upserted(c, i)]
        /\ pc' = [pc EXCEPT ![r] = next]
        /\ missed' = missed
    BY <1>5 DEF Upsert, Goto, SetItems
  <2>2. k \in KeysAhead(r)'
    BY <1>1, <1>2, <2>1 DEF KeysAhead
  <2>3. QED
    BY <1>1, <1>2, <2>1, <2>2, WritingStep
<1>6. QED
  BY <1>3, <1>4, <1>5

LEMMA ExplainedInductive ==
    ASSUME NEW k \in Keys
    PROVE  TInv /\ RemovePath /\ Explained(k) /\ [Next]_vars => Explained(k)'
<1> SUFFICES ASSUME TInv, RemovePath, Explained(k), [Next]_vars
             PROVE  Explained(k)'
  OBVIOUS
<1> USE DEF TInv, TypeOK
<1>1. ASSUME NEW r \in Requests, Handle(r)
      PROVE  Explained(k)'
  <2>1. PICK o, work : Accept(r, o, work)
    BY <1>1 DEF Handle, AddToCartHandler, RemoveFromCartHandler,
                UpdateCartItemQuantityHandler, ReplaceCartItemsHandler,
                ClearCartHandler, GetCartItemsHandler,
                CalculateCartTotalHandler, GetShoppingCartHandler
  <2>2. /\ UNCHANGED <<items, Cached(k), missed>>
        /\ k \notin KeysAhead(r)
        /\ \A s \in Requests \ {r} :
               pc'[s] = pc[s] /\ op'[s] = op[s] /\ owner'[s] = owner[s]
    BY <2>1 DEF Accept, Move, Goto, KeysAhead, Cached
  <2>3. QED
    BY <2>2, QuietStep
<1>2. ASSUME NEW r \in Requests, Step(r)
      PROVE  Explained(k)'
  <2>1. CASE \/ LookupCart(r) \/ CreateCart(r) \/ GetListCache(r)
             \/ GetAllCartItems(r) \/ GetTotalCache(r) \/ SumCartItems(r)
    <3>1. /\ UNCHANGED <<items, Cached(k), missed, op, owner>>
          /\ k \notin KeysAhead(r)
          /\ \A s \in Requests \ {r} : pc'[s] = pc[s]
      BY <2>1 DEF LookupCart, CreateCart, GetListCache, GetAllCartItems,
                  GetTotalCache, SumCartItems, Move, Goto, KeysAhead, Cached
    <3>2. QED
      BY <3>1, QuietStep
  <2>2. CASE UpsertCartItem(r)
    <3> DEFINE next == "cacheItem"
               keys == {}
    <3>1. pc[r] = "upsert" /\ Upsert(r, next, keys)
      BY <2>2 DEF UpsertCartItem
    <3>2. /\ next \in {"cacheItem", "dropList", "refill"}
          /\ keys \in SUBSET Keys
      OBVIOUS
    <3> HIDE DEF next, keys
    <3>3. QED
      BY <3>1, <3>2, UpsertExplained
  <2>3. CASE RefillCart(r)
    <3> DEFINE next == IF Len(todo[r]) = 1 THEN "dropList" ELSE "refill"
    <3>1. pc[r] = "refill" /\ Upsert(r, next, Keys)
      BY <2>3 DEF RefillCart
    <3>2. next \in {"cacheItem", "dropList", "refill"} /\ Keys \in SUBSET Keys
      OBVIOUS
    <3> HIDE DEF next
    <3>3. QED
      BY <3>1, <3>2, UpsertExplained
  <2>4. CASE RemoveCartItem(r)
    <3>1. /\ missed \subseteq missed'
          /\ <<owner[r], k>> \in missed' \/ k \in KeysAhead(r)'
      BY <2>4 DEF RemoveCartItem, Miss, Move, Goto, KeysAhead
    <3>2. QED
      BY <2>4, <3>1, WritingStep DEF RemoveCartItem, Move, Goto, SetItems
  <2>5. CASE SetCartItemQuantity(r)
    <3> DEFINE i == Head(todo[r])
               present == items[owner[r]][i.product] > 0
    <3>1. CASE present /\ i.quantity > 0
      <4> DEFINE content == [items[owner[r]] EXCEPT ![i.product] = i.quantity]
      <4>1. SetItems(r, content) /\ UNCHANGED <<list, total, op, owner, missed>>
        BY <2>5, <3>1 DEF SetCartItemQuantity
      <4>2. ~(present /\ i.quantity = 0)
        BY <3>1
      <4>3. Move(r, "set", "dropList")
        BY <2>5, <4>2 DEF SetCartItemQuantity
      <4> HIDE DEF i, present, content
      <4>4. /\ pc[r] = "set"
            /\ pc' = [pc EXCEPT ![r] = "dropList"]
            /\ UNCHANGED <<list, total, op, owner, missed>>
            /\ items' = [items EXCEPT ![owner[r]] = content]
        BY <4>1, <4>3 DEF Move, Goto, SetItems
      <4>5. op[r] # "remove"
        BY <4>4 DEF RemovePath
      <4>6. pc'[r] = "dropList" /\ op'[r] # "remove"
        BY <4>4, <4>5
      <4>7. k \in KeysAhead(r)'
        BY <4>6 DEF KeysAhead
      <4>8. /\ missed \subseteq missed'
            /\ \A s \in Requests \ {r} : pc'[s] = pc[s]
        BY <4>4
      <4>9. QED
        BY <4>4, <4>7, <4>8, WritingStep
    <3>2. CASE ~(present /\ i.quantity > 0)
      <4>1. k \notin KeysAhead(r)
        BY <2>5 DEF SetCartItemQuantity, Move, KeysAhead
      <4>2. QED
        BY <2>5, <3>2, <4>1, QuietStep
        DEF SetCartItemQuantity, Move, Goto, Cached
    <3>3. QED
      BY <3>1, <3>2
  <2>6. CASE ClearCart(r)
    <3>1. k \in KeysAhead(r)'
      BY <2>6 DEF ClearCart, Move, Goto, KeysAhead, RemovePath
    <3>2. QED
      BY <2>6, <3>1, WritingStep DEF ClearCart, Move, Goto, SetItems
  <2>7. CASE CacheItem(r)
    <3>0. UNCHANGED <<items, Cached(k), op, owner>> /\ op[r] # "remove"
      BY <2>7 DEF CacheItem, Cached, RemovePath
    <3>1. CASE pc' = [pc EXCEPT ![r] = "dropList"] /\ UNCHANGED missed
      <4>1. k \in KeysAhead(r)'
        BY <3>0, <3>1 DEF KeysAhead
      <4>2. QED
        BY <3>0, <3>1, <4>1, QuietStep
    <3>2. CASE pc' = [pc EXCEPT ![r] = "ok"] /\ Miss(r, Keys)
      BY <3>0, <3>2, QuietStep DEF Miss
    <3>3. QED
      BY <2>7, <3>1, <3>2 DEF CacheItem, Goto
  <2>8. CASE DropList(r)
    <3>0. /\ UNCHANGED <<items, total, op, owner>>
          /\ \A s \in Requests \ {r} : pc'[s] = pc[s]
      BY <2>8 DEF DropList, Goto
    <3>1. CASE k = "list"
      <4>1. CASE /\ list' = [list EXCEPT ![owner[r]] = NoEntry]
                 /\ missed' = missed \ {<<owner[r], "list">>}
        BY <3>0, <3>1, <4>1, KeyStep DEF Cached
      <4>2. CASE /\ Miss(r, IF op[r] = "add" THEN Keys ELSE {"list"})
                 /\ UNCHANGED list
        <5>1. missed \subseteq missed' /\ <<owner[r], "list">> \in missed'
          BY <4>2 DEF Miss
        <5>2. QED
          BY <3>0, <3>1, <4>2, <5>1, QuietStep DEF Cached
      <4>3. QED
        BY <2>8, <4>1, <4>2 DEF DropList
    <3>2. CASE k = "total"
      <4>1. \A o \in Owners : <<o, k>> \in missed => <<o, k>> \in missed'
        BY <2>8, <3>2 DEF DropList, Miss
      <4>2. k \in KeysAhead(r) =>
                <<owner[r], k>> \in missed' \/ k \in KeysAhead(r)'
        BY <2>8, <3>2 DEF DropList, AfterDropList, Goto, Miss, KeysAhead
      <4>3. QED
        BY <3>0, <3>2, <4>1, <4>2, QuietStep DEF Cached
    <3>3. QED
      BY <3>1, <3>2
  <2>9. CASE DropTotal(r)
    <3>0. /\ UNCHANGED <<items, list, op, owner>>
          /\ \A s \in Requests \ {r} : pc'[s] = pc[s]
          /\ "list" \notin KeysAhead(r)
      BY <2>9 DEF DropTotal, Move, Goto, KeysAhead
    <3>1. CASE k = "total"
      <4>1. CASE /\ total' = [total EXCEPT ![owner[r]] = NoEntry]
                 /\ missed' = missed \ {<<owner[r], "total">>}
        BY <3>0, <3>1, <4>1, KeyStep DEF Cached
      <4>2. CASE Miss(r, {"total"}) /\ UNCHANGED total
        <5>1. missed \subseteq missed' /\ <<owner[r], "total">> \in missed'
          BY <4>2 DEF Miss
        <5>2. QED
          BY <3>0, <3>1, <4>2, <5>1, QuietStep DEF Cached
      <4>3. QED
        BY <2>9, <4>1, <4>2 DEF DropTotal
    <3>2. CASE k = "list"
      <4>1. \A o \in Owners : <<o, k>> \in missed => <<o, k>> \in missed'
        BY <2>9, <3>2 DEF DropTotal, Miss
      <4>2. QED
        BY <3>0, <3>2, <4>1, QuietStep DEF Cached
    <3>3. QED
      BY <3>1, <3>2
  <2>10. CASE FillList(r) \/ FillTotal(r)
    <3>0. /\ UNCHANGED <<items, op, owner>>
          /\ \A s \in Requests \ {r} : pc'[s] = pc[s]
          /\ k \notin KeysAhead(r)
      BY <2>10 DEF FillList, FillTotal, Move, Goto, KeysAhead
    <3>1. CASE /\ Cached(k)' = [Cached(k) EXCEPT ![owner[r]] = seen[r]]
               /\ missed' = Refreshed(r, k)
      <4>1. seen[r] = items[owner[r]] \/ <<owner[r], k>> \in missed'
        BY <3>1 DEF Refreshed
      <4>2. \A o \in Owners \ {owner[r]} :
               <<o, k>> \in missed => <<o, k>> \in missed'
        BY <3>1 DEF Refreshed
      <4>3. QED
        BY <3>0, <3>1, <4>1, <4>2, KeyStep
    <3>2. CASE /\ UNCHANGED Cached(k)
               /\ \A o \in Owners : <<o, k>> \in missed => <<o, k>> \in missed'
      BY <3>0, <3>2, QuietStep
    <3>3. QED
      <4>1. CASE FillList(r)
        BY <3>1, <3>2, <4>1 DEF FillList, Refreshed, Cached
      <4>2. CASE FillTotal(r)
        BY <3>1, <3>2, <4>2 DEF FillTotal, Refreshed, Cached
      <4>3. QED
        BY <2>10, <4>1, <4>2
  <2>11. QED
    BY <1>2, <2>1, <2>2, <2>3, <2>4, <2>5, <2>6, <2>7, <2>8, <2>9, <2>10
    DEF Step
<1>3. ASSUME NEW r \in Requests, Abort(r)
      PROVE  Explained(k)'
  <2>1. /\ missed \subseteq missed'
        /\ k \in KeysAhead(r) => <<owner[r], k>> \in missed'
    BY <1>3 DEF Abort, Miss
  <2>2. QED
    BY <1>3, <2>1, QuietStep DEF Abort, Goto, Cached
<1>4. ASSUME NEW c \in Owners, Expire(c)
      PROVE  Explained(k)'
  <2> SUFFICES ASSUME NEW o \in Owners,
                      Cached(k)'[o] \notin {NoEntry, items'[o]}
               PROVE  Excused(o, k)'
    BY DEF Explained
  <2>1. Cached(k)'[o] = Cached(k)[o] /\ items'[o] = items[o]
    BY <1>4 DEF Expire, Cached
  <2>2. Excused(o, k)
    BY <2>1 DEF Explained
  <2>3. <<o, k>> \in missed => <<o, k>> \in missed'
    BY <1>4, <2>1 DEF Expire, Cached
  <2>4. \A r \in Requests : owner'[r] = owner[r] /\ KeysAhead(r)' = KeysAhead(r)
    BY <1>4 DEF Expire, requestVars, KeysAhead
  <2>5. QED
    BY <2>2, <2>3, <2>4 DEF Excused
<1>5. CASE UNCHANGED vars
  BY <1>5 DEF vars, Explained, Excused, Cached, KeysAhead
<1>6. QED
  BY <1>1, <1>2, <1>3, <1>4, <1>5 DEF Next

LEMMA InitExplained ==
    Init => RemovePath /\ Explained("list") /\ Explained("total")
BY DEF Init, RemovePath, Explained, Cached

\* The cached list of a cart differs from the cart only where a fill wrote
\* what it had read before a change, where a deletion failed or was never
\* reached, or while the request that changed the cart is still on its way to
\* the deletion.
THEOREM ListStale == Spec => []ListStaleOnlyIfMissed
<1>1. TInv /\ RemovePath /\ Explained("list") /\ [Next]_vars
          => Explained("list")'
  BY ExplainedInductive
<1>2. QED
  BY <1>1, InitTInv, TInvInductive, InitExplained, RemovePathInductive,
     ExplainedMeaning, PTL DEF Spec

\* The same of the cached total, where a removal is a further reason.
THEOREM TotalStale == Spec => []TotalStaleOnlyIfMissed
<1>1. /\ TInv /\ RemovePath /\ Explained("total") /\ [Next]_vars
      => Explained("total")'
  BY ExplainedInductive
<1>2. QED
  BY <1>1, InitTInv, TInvInductive, InitExplained, RemovePathInductive,
     ExplainedMeaning, PTL DEF Spec

-----------------------------------------------------------------------------
(* The refinement of CartContents.                                         *)

\* A request that is past getOrCreateCart works on a cart that is opened.
OpenedFirst ==
    \A r \in Requests :
        pc[r] \notin Resting \union {"lookup", "create"} =>
            owner[r] \in opened

\* No step goes past it otherwise, and no cart is closed.
LEMMA OpenedFirstInductive == TInv /\ OpenedFirst /\ [Next]_vars => OpenedFirst'
<1> SUFFICES ASSUME TInv, OpenedFirst, [Next]_vars
             PROVE  OpenedFirst'
  OBVIOUS
<1> USE DEF OpenedFirst, TInv, TypeOK, Move, Goto
<1>1. ASSUME NEW r \in Requests, Handle(r)
      PROVE  OpenedFirst'
  BY <1>1
  DEF Handle, AddToCartHandler, RemoveFromCartHandler,
      UpdateCartItemQuantityHandler, ReplaceCartItemsHandler,
      ClearCartHandler, GetCartItemsHandler, CalculateCartTotalHandler,
      GetShoppingCartHandler, Accept
<1>2. ASSUME NEW r \in Requests, Step(r)
      PROVE  OpenedFirst'
  <2>1. CASE LookupCart(r)
    BY <2>1 DEF LookupCart
  <2>2. CASE CreateCart(r)
    BY <2>2 DEF CreateCart
  <2>3. CASE UpsertCartItem(r)
    BY <2>3 DEF UpsertCartItem, Upsert
  <2>4. CASE RefillCart(r)
    BY <2>4 DEF RefillCart, Upsert
  <2>5. CASE RemoveCartItem(r) \/ SetCartItemQuantity(r) \/ ClearCart(r)
    BY <2>5 DEF RemoveCartItem, SetCartItemQuantity, ClearCart
  <2>6. CASE CacheItem(r) \/ DropList(r) \/ DropTotal(r)
    BY <2>6 DEF CacheItem, DropList, DropTotal, AfterDropList
  <2>7. CASE GetListCache(r) \/ GetAllCartItems(r) \/ FillList(r)
    BY <2>7 DEF GetListCache, GetAllCartItems, FillList
  <2>8. CASE GetTotalCache(r) \/ SumCartItems(r) \/ FillTotal(r)
    BY <2>8 DEF GetTotalCache, SumCartItems, FillTotal
  <2>9. QED
    BY <1>2, <2>1, <2>2, <2>3, <2>4, <2>5, <2>6, <2>7, <2>8 DEF Step
<1>3. ASSUME NEW r \in Requests, Abort(r)
      PROVE  OpenedFirst'
  BY <1>3 DEF Abort
<1>4. ASSUME NEW o \in Owners, Expire(o)
      PROVE  OpenedFirst'
  BY <1>4 DEF Expire, requestVars
<1>5. CASE UNCHANGED vars
  BY <1>5 DEF vars
<1>6. QED
  BY <1>1, <1>2, <1>3, <1>4, <1>5 DEF Next

\* A statement that writes one quantity.
LEMMA WritesOne ==
    ASSUME TInv, NEW o \in Owners, NEW p \in Products,
           NEW q \in 0..MaxQuantity, o \in opened, opened' = opened,
           items' = [items EXCEPT ![o] = [items[o] EXCEPT ![p] = q]]
    PROVE  Abstract!Next
BY DEF Abstract!Next, Abstract!Change

\* One that empties a cart.
LEMMA WritesNone ==
    ASSUME TInv, NEW o \in Owners, o \in opened, opened' = opened,
           items' = [items EXCEPT ![o] = EmptyCart]
    PROVE  Abstract!Next
BY DEF Abstract!Next, Abstract!Empty, Abstract!EmptyCart, EmptyCart

\* The item at hand is an item.
LEMMA HeadIsItem ==
    ASSUME TInv, NEW r \in Requests, todo[r] # <<>>
    PROVE  /\ Head(todo[r]) \in Item
           /\ Head(todo[r]).product \in Products
           /\ Head(todo[r]).quantity \in 0..MaxQuantity
<1>1. todo[r] \in Seq(Item)
  BY DEF TInv, TypeOK
<1>2. Head(todo[r]) \in Item
  BY <1>1, HeadTailProperties
<1>3. QED
  BY <1>2 DEF Item

\* One upsert, whatever it returns.
LEMMA UpsertMaps ==
    ASSUME TInv, OpenedFirst, NEW r \in Requests, todo[r] # <<>>,
           owner[r] \in opened, NEW step, NEW keys, Upsert(r, step, keys)
    PROVE  Abstract!Next \/ UNCHANGED <<opened, items>>
<1> DEFINE i == Head(todo[r])
           c == owner[r]
<1>1. /\ i.product \in Products /\ i.quantity \in 0..MaxQuantity
      /\ c \in Owners /\ items[c] \in Contents
  BY HeadIsItem DEF TInv, TypeOK
<1>2. CASE Fits(items[c], i)
  <2>1. items' = [items EXCEPT ![c] =
                     [items[c] EXCEPT ![i.product] = @ + i.quantity]]
        /\ opened' = opened
    BY <1>2 DEF Upsert, SetItems, Upserted
  <2>2. items[c][i.product] + i.quantity \in 0..MaxQuantity
    BY <1>1, <1>2, ItemsAssumption DEF Fits, Contents
  <2>3. QED
    BY <1>1, <2>1, <2>2, WritesOne
<1>3. CASE ~Fits(items[c], i)
  BY <1>3 DEF Upsert
<1>4. QED
  BY <1>2, <1>3

\* Every step maps to one of the abstract cart, or changes neither variable.
LEMMA StepMaps ==
    ASSUME TInv, OpenedFirst, [Next]_vars
    PROVE  [Abstract!Next]_(Abstract!vars)
<1> USE DEF Move, Goto
<1>1. ASSUME NEW r \in Requests, Step(r)
      PROVE  Abstract!Next \/ UNCHANGED <<opened, items>>
  <2>0. owner[r] \in Owners /\ op[r] \in AllOps
    BY DEF TInv, TypeOK
  <2>1. CASE CreateCart(r)
    BY <2>0, <2>1 DEF CreateCart, Abstract!Next, Abstract!Open
  <2>2. CASE UpsertCartItem(r)
    BY <2>2, UpsertMaps DEF UpsertCartItem, OpenedFirst, TInv, WorkAtHand
  <2>3. CASE RefillCart(r)
    BY <2>3, UpsertMaps DEF RefillCart, OpenedFirst, TInv, WorkAtHand
  <2>4. CASE RemoveCartItem(r)
    <3>1. /\ owner[r] \in opened /\ opened' = opened
          /\ items' = [items EXCEPT ![owner[r]] =
                [items[owner[r]] EXCEPT ![Head(todo[r]).product] = 0]]
      BY <2>4 DEF RemoveCartItem, SetItems, OpenedFirst
    <3>2. todo[r] # <<>>
      BY <2>4 DEF RemoveCartItem, TInv, WorkAtHand
    <3>3. 0 \in 0..MaxQuantity
      BY ItemsAssumption
    <3>4. QED
      BY <2>0, <3>1, <3>2, <3>3, HeadIsItem, WritesOne
  <2>5. CASE SetCartItemQuantity(r)
    <3>1. owner[r] \in opened /\ opened' = opened
      BY <2>5 DEF SetCartItemQuantity, OpenedFirst
    <3>2. todo[r] # <<>>
      BY <2>5 DEF SetCartItemQuantity, TInv, WorkAtHand
    <3>3. \/ items' = items
          \/ items' = [items EXCEPT ![owner[r]] =
                [items[owner[r]] EXCEPT
                    ![Head(todo[r]).product] = Head(todo[r]).quantity]]
      BY <2>5 DEF SetCartItemQuantity, SetItems
    <3>4. QED
      BY <2>0, <3>1, <3>2, <3>3, HeadIsItem, WritesOne
  <2>6. CASE ClearCart(r)
    BY <2>0, <2>6, WritesNone DEF ClearCart, SetItems, OpenedFirst
  <2>7. CASE UNCHANGED <<opened, items>>
    BY <2>7
  <2>8. QED
    BY <1>1, <2>1, <2>2, <2>3, <2>4, <2>5, <2>6, <2>7
    DEF Step, LookupCart, CacheItem, DropList, DropTotal, GetListCache,
        GetAllCartItems, FillList, GetTotalCache, SumCartItems, FillTotal
<1>2. ASSUME NEW r \in Requests, Handle(r) \/ Abort(r)
      PROVE  UNCHANGED <<opened, items>>
  BY <1>2
  DEF Handle, AddToCartHandler, RemoveFromCartHandler,
      UpdateCartItemQuantityHandler, ReplaceCartItemsHandler,
      ClearCartHandler, GetCartItemsHandler, CalculateCartTotalHandler,
      GetShoppingCartHandler, Accept, Abort
<1>3. ASSUME NEW o \in Owners, Expire(o)
      PROVE  UNCHANGED <<opened, items>>
  BY <1>3 DEF Expire
<1>4. CASE UNCHANGED vars
  BY <1>4 DEF vars, Abstract!vars
<1>5. QED
  BY <1>1, <1>2, <1>3, <1>4 DEF Next, Abstract!vars

\* The service implements the abstract cart: whatever requests interleave, fail
\* or are aborted, a cart is opened before it is written, and each step writes
\* one quantity of one cart or empties one cart.
THEOREM CartImplements == Spec => ImplementsContents
<1>1. Init => OpenedFirst /\ Abstract!Init
  BY DEF Init, OpenedFirst, Abstract!Init, Abstract!EmptyCart, EmptyCart
<1>2. QED
  BY <1>1, InitTInv, TInvInductive, OpenedFirstInductive, StepMaps,
     PTL DEF Spec, ImplementsContents, Abstract!Spec

-----------------------------------------------------------------------------
(* The totals of one cart, inside PostgreSQL.                              *)
(*                                                                         *)
(* The strengthening says what the locks are worth: only the holder of the *)
(* cart row commits a change, so a statement that holds it from its first  *)
(* firing on sees every later snapshot unchanged up to its own commit.     *)

HIDE DEF Contents, Item, Steps, Resting, DbSteps, CacheSteps, ReadSteps,
         AllOps, Keys

\* From its first snapshot to its commit a statement sums its own rows as it
\* leaves them.
OwnSums ==
    \A s \in Statements :
        stage[s] \in {"update", "commit"} =>
            \A p \in written[s] : sums[s][p] = view[s][p]

\* Past its first firing a statement holds the cart row.
Locked ==
    \A s \in Statements :
        \/ stage[s] = "commit"
        \/ stage[s] \in {"sum", "update"} /\ firings[s] # written[s]
        => cartLock = s

\* The triggers yet to fire are those of rows it wrote.
Fired ==
    \A s \in Statements :
        /\ stage[s] # "idle" => firings[s] \subseteq written[s]
        /\ stage[s] = "rows" => firings[s] = written[s]

\* The sums of any firing but the first are exact.
LaterSums ==
    \A s \in Statements :
        \/ stage[s] = "update" /\ firings[s] # written[s]
        \/ stage[s] = "commit" /\ Cardinality(written[s]) > 1
        => sums[s] = Snapshot(s)

Act(s) ==
    \/ BeginItem(s)
    \/ BeginClear(s)
    \/ \E p \in Products : WriteRow(s, p)
    \/ EndOfRows(s)
    \/ TakeSums(s)
    \/ UpdateCart(s)
    \/ Commit(s)
    \/ Fail(s)

TotalsInv == TotalsTypeOK /\ OwnSums /\ Locked /\ Fired /\ LaterSums

-----------------------------------------------------------------------------
\* What a snapshot shows is a possible content of the cart.
LEMMA SnapshotType ==
    ASSUME TotalsTypeOK, NEW s \in Statements
    PROVE  Snapshot(s) \in Contents
  BY DEF TotalsTypeOK, Snapshot, Contents

\* A change that fits the column leaves a quantity of the column.
LEMMA ChangedType ==
    ASSUME NEW c \in Changes, NEW q \in 0..MaxQuantity, FitsColumn(c, q)
    PROVE  Changed(c, q) \in 0..MaxQuantity
  BY ItemsAssumption DEF Changes, FitsColumn, Changed

\* The empty contents and the starting values are typed.
LEMMA EmptyType == EmptyCart \in Contents /\ MaxQuantity \in Nat
  BY ItemsAssumption DEF EmptyCart, Contents

\* A statement keeps the types whatever it does.
LEMMA ActTyped ==
    ASSUME TotalsTypeOK, NEW s \in Statements, Act(s)
    PROVE  TotalsTypeOK'
  <1>1. CASE BeginItem(s)
    <2>1. PICK c \in Changes, p \in Products : Begin(s, c, {p})
      BY <1>1 DEF BeginItem
    <2> QED
      BY <2>1, EmptyType DEF TotalsTypeOK, Begin, Proceed
  <1>2. CASE BeginClear(s)
    <2>1. [kind |-> "delete", by |-> 0] \in Changes
      BY DEF Changes
    <2> QED
      BY <1>2, <2>1, EmptyType DEF TotalsTypeOK, BeginClear, Begin, Proceed
  <1>3. ASSUME NEW p \in Products, WriteRow(s, p)
        PROVE  TotalsTypeOK'
    <2>1. CASE Applies(change[s], rows[p])
      <3>0. change[s] \in Changes /\ rows[p] \in 0..MaxQuantity
        BY DEF TotalsTypeOK, Contents
      <3>1. Changed(change[s], rows[p]) \in 0..MaxQuantity
        BY <1>3, <2>1, <3>0, ChangedType DEF WriteRow
      <3>2. view' \in [Statements -> Contents]
        <4>1. view' = [view EXCEPT ![s] =
                          [view[s] EXCEPT ![p] = Changed(change[s], rows[p])]]
          BY <1>3, <2>1 DEF WriteRow
        <4>2. [view[s] EXCEPT ![p] = Changed(change[s], rows[p])] \in Contents
          BY <3>1 DEF TotalsTypeOK, Contents
        <4> QED
          BY <4>1, <4>2 DEF TotalsTypeOK
      <3> QED
        BY <1>3, <2>1, <3>2 DEF TotalsTypeOK, WriteRow
    <2>2. CASE ~Applies(change[s], rows[p])
      BY <1>3, <2>2 DEF TotalsTypeOK, WriteRow
    <2> QED
      BY <2>1, <2>2
  <1>4. CASE EndOfRows(s)
    BY <1>4 DEF TotalsTypeOK, EndOfRows, Proceed
  <1>5. CASE TakeSums(s)
    BY <1>5, SnapshotType DEF TotalsTypeOK, TakeSums, Proceed
  <1>6. CASE UpdateCart(s)
    BY <1>6 DEF TotalsTypeOK, UpdateCart, Proceed
  <1>7. CASE Commit(s)
    BY <1>7, SnapshotType DEF TotalsTypeOK, Commit, Release, Proceed
  <1>8. CASE Fail(s)
    BY <1>8 DEF TotalsTypeOK, Fail, Release, Proceed
  <1> QED
    BY <1>1, <1>2, <1>3, <1>4, <1>5, <1>6, <1>7, <1>8 DEF Act

\* Only the commit of a statement changes rows and totals, and only under the
\* lock of the cart row.
LEMMA CommitsUnderLock ==
    ASSUME TotalsInv, NEW s \in Statements, Act(s)
    PROVE  \/ rows' = rows /\ totals' = totals
           \/ Commit(s) /\ cartLock = s
  BY DEF Act, TotalsInv, Locked, BeginItem, BeginClear, Begin, WriteRow,
         EndOfRows, TakeSums, UpdateCart, Commit, Fail

\* A statement leaves the others' private state alone.
LEMMA OthersKeep ==
    ASSUME TotalsTypeOK, NEW s \in Statements, Act(s),
           NEW t \in Statements, t # s
    PROVE  /\ stage'[t] = stage[t]
           /\ written'[t] = written[t]
           /\ view'[t] = view[t]
           /\ firings'[t] = firings[t]
           /\ sums'[t] = sums[t]
           /\ cartLock = t => cartLock' = t
  <1>1. CASE BeginItem(s)
    BY <1>1 DEF TotalsTypeOK, BeginItem, Begin, Proceed
  <1>2. CASE BeginClear(s)
    BY <1>2 DEF TotalsTypeOK, BeginClear, Begin, Proceed
  <1>3. CASE \E p \in Products : WriteRow(s, p)
    BY <1>3 DEF TotalsTypeOK, WriteRow
  <1>4. CASE EndOfRows(s)
    BY <1>4 DEF TotalsTypeOK, EndOfRows, Proceed
  <1>5. CASE TakeSums(s)
    BY <1>5 DEF TotalsTypeOK, TakeSums, Proceed
  <1>6. CASE UpdateCart(s)
    BY <1>6, TotalsAssumption DEF TotalsTypeOK, UpdateCart, Proceed
  <1>7. CASE Commit(s)
    BY <1>7 DEF TotalsTypeOK, Commit, Release, Proceed
  <1>8. CASE Fail(s)
    BY <1>8 DEF TotalsTypeOK, Fail, Release, Proceed
  <1> QED
    BY <1>1, <1>2, <1>3, <1>4, <1>5, <1>6, <1>7, <1>8 DEF Act

\* What the invariant says of one statement.
Good(s) ==
    /\ stage[s] \in {"update", "commit"} =>
           \A p \in written[s] : sums[s][p] = view[s][p]
    /\ (stage[s] = "commit"
          \/ (stage[s] \in {"sum", "update"} /\ firings[s] # written[s]))
       => cartLock = s
    /\ stage[s] # "idle" => firings[s] \subseteq written[s]
    /\ stage[s] = "rows" => firings[s] = written[s]
    /\ (stage[s] = "update" /\ firings[s] # written[s])
          \/ (stage[s] = "commit" /\ Cardinality(written[s]) > 1)
       => sums[s] = Snapshot(s)

\* The strengthening, statement by statement.
LEMMA GoodMeaning ==
    TotalsInv <=> TotalsTypeOK /\ \A s \in Statements : Good(s)
  BY DEF TotalsInv, OwnSums, Locked, Fired, LaterSums, Good

\* A statement keeps its own part of the invariant.
LEMMA ActKeepsOwn ==
    ASSUME TotalsInv, NEW s \in Statements, Act(s)
    PROVE  Good(s)'
  <1>0. TotalsTypeOK /\ TotalsTypeOK' /\ Good(s)
    BY ActTyped, GoodMeaning DEF TotalsInv
  <1>1. CASE BeginItem(s)
    BY <1>0, <1>1 DEF TotalsTypeOK, BeginItem, Begin, Proceed, Good
  <1>2. CASE BeginClear(s)
    BY <1>0, <1>2 DEF TotalsTypeOK, BeginClear, Begin, Proceed, Good
  <1>3. ASSUME NEW p \in Products, WriteRow(s, p)
        PROVE  Good(s)'
    <2>1. /\ stage[s] = "rows" /\ stage' = stage
          /\ firings[s] = written[s]
      BY <1>0, <1>3 DEF WriteRow, Good
    <2>2. CASE Applies(change[s], rows[p])
      <3>1. /\ firings'[s] = firings[s] \union {p}
            /\ written'[s] = written[s] \union {p}
        BY <1>0, <1>3, <2>2 DEF TotalsTypeOK, WriteRow
      <3> QED
        BY <2>1, <3>1 DEF Good
    <2>3. CASE ~Applies(change[s], rows[p])
      BY <1>3, <2>1, <2>3 DEF WriteRow, Good
    <2> QED
      BY <2>2, <2>3
  <1>4. CASE EndOfRows(s)
    BY <1>0, <1>4 DEF TotalsTypeOK, EndOfRows, Proceed, Good
  <1>5. CASE TakeSums(s)
    <2>1. /\ sums'[s] = Snapshot(s)
          /\ Snapshot(s)' = Snapshot(s)
          /\ \A p \in written[s] : sums'[s][p] = view[s][p]
      BY <1>0, <1>5 DEF TotalsTypeOK, TakeSums, Snapshot
    <2> QED
      BY <1>0, <1>5, <2>1 DEF TotalsTypeOK, TakeSums, Proceed, Good
  <1>6. CASE UpdateCart(s)
    <2>1. PICK p \in firings[s] :
              /\ firings' = [firings EXCEPT ![s] = @ \ {p}]
              /\ stage' = [stage EXCEPT ![s] = IF firings[s] = {p} THEN "commit"
                                                             ELSE "sum"]
      BY <1>6 DEF UpdateCart, Proceed
    <2>2. /\ Snapshot(s)' = Snapshot(s)
          /\ cartLock' = s
          /\ sums'[s] = sums[s] /\ view'[s] = view[s]
          /\ written'[s] = written[s] /\ stage[s] = "update"
      BY <1>6 DEF UpdateCart, Snapshot
    <2>3. Cardinality(written[s]) > 1 => written[s] # {p}
      BY FS_Singleton, Cardinality({p}) = 1
    <2>4. /\ stage'[s] = (IF firings[s] = {p} THEN "commit" ELSE "sum")
          /\ firings'[s] = firings[s] \ {p}
      BY <1>0, <2>1 DEF TotalsTypeOK
    <2> QED
      BY <1>0, <2>2, <2>3, <2>4 DEF Good
  <1>7. CASE Commit(s)
    BY <1>0, <1>7 DEF TotalsTypeOK, Commit, Release, Proceed, Good
  <1>8. CASE Fail(s)
    BY <1>0, <1>8 DEF TotalsTypeOK, Fail, Release, Proceed, Good
  <1> QED
    BY <1>1, <1>2, <1>3, <1>4, <1>5, <1>6, <1>7, <1>8 DEF Act

\* And it keeps the others': what they hold under the cart lock cannot change.
LEMMA ActKeepsOthers ==
    ASSUME TotalsInv, NEW s \in Statements, Act(s), NEW t \in Statements, t # s
    PROVE  Good(t)'
  <1>0. TotalsTypeOK /\ Good(t)
    BY GoodMeaning DEF TotalsInv
  <1>1. /\ stage'[t] = stage[t]
        /\ written'[t] = written[t]
        /\ view'[t] = view[t]
        /\ firings'[t] = firings[t]
        /\ sums'[t] = sums[t]
        /\ cartLock = t => cartLock' = t
    BY <1>0, OthersKeep
  <1>2. cartLock = t => Snapshot(t)' = Snapshot(t)
    BY <1>1, CommitsUnderLock DEF Snapshot
  <1>3. (stage[t] = "update" /\ firings[t] # written[t])
           \/ (stage[t] = "commit" /\ Cardinality(written[t]) > 1)
        => cartLock = t
    BY <1>0 DEF Good
  <1> QED
    BY <1>0, <1>1, <1>2, <1>3 DEF Good

\* The invariant holds at the start.
LEMMA InitTotalsInv == TotalsInit => TotalsInv
  <1> SUFFICES ASSUME TotalsInit PROVE TotalsInv
    OBVIOUS
  <1>1. [kind |-> "delete", by |-> 0] \in Changes
    BY DEF Changes
  <1>2. TotalsTypeOK
    BY <1>1, EmptyType DEF TotalsInit, TotalsTypeOK
  <1> QED
    BY <1>2 DEF TotalsInit, TotalsInv, OwnSums, Locked, Fired, LaterSums

\* Every step keeps it.
LEMMA TotalsInductive == TotalsInv /\ [TotalsNext]_totalsVars => TotalsInv'
  <1> SUFFICES ASSUME TotalsInv, [TotalsNext]_totalsVars PROVE TotalsInv'
    OBVIOUS
  <1>1. ASSUME NEW s \in Statements, Act(s)
        PROVE  TotalsInv'
    <2>1. TotalsTypeOK'
      BY <1>1, ActTyped DEF TotalsInv
    <2>2. \A t \in Statements : Good(t)'
      BY <1>1, ActKeepsOwn, ActKeepsOthers
    <2> QED
      BY <2>1, <2>2 DEF TotalsInv, OwnSums, Locked, Fired, LaterSums, Good
  <1>2. CASE UNCHANGED totalsVars
    BY <1>2 DEF totalsVars, TotalsInv, TotalsTypeOK, OwnSums, Locked, Fired,
                LaterSums, Snapshot
  <1> QED
    BY <1>1, <1>2 DEF TotalsNext, Act

\* A statement that ends and changes something is the one that commits.
LEMMA EndingCommits ==
    ASSUME TotalsInv, [TotalsNext]_totalsVars,
                        NEW s \in Statements,
           stage[s] = "commit", stage'[s] = "idle",
           <<rows, totals>>' # <<rows, totals>>
    PROVE  Commit(s)
  <1>1. PICK t \in Statements : Act(t)
    BY DEF TotalsNext, Act, totalsVars
  <1>2. t = s
    BY <1>1, OthersKeep DEF TotalsInv
  <1> QED
    BY <1>1, <1>2, CommitsUnderLock

\* The types hold of every reachable state.
THEOREM TotalsTyped == TotalsSpec => []TotalsTypeOK
  <1>1. TotalsInv => TotalsTypeOK
    BY DEF TotalsInv
  <1> QED
    BY <1>1, InitTotalsInv, TotalsInductive, PTL DEF TotalsSpec

\* A statement that commits counts its own rows as it leaves them.
THEOREM OwnRows == TotalsSpec => OwnRowsCounted
  <1>1. TotalsInv /\ [TotalsNext]_totalsVars =>
          [\A s \in Statements :
              /\ stage[s] = "commit"
              /\ stage'[s] = "idle"
              /\ <<rows, totals>>' # <<rows, totals>>
              => \A p \in written[s] : totals'[p] = rows'[p]]_totalsVars
    <2> SUFFICES ASSUME TotalsInv, [TotalsNext]_totalsVars,
                        NEW s \in Statements,
                        stage[s] = "commit", stage'[s] = "idle",
                        <<rows, totals>>' # <<rows, totals>>,
                        NEW p \in written[s]
                 PROVE  totals'[p] = rows'[p]
      OBVIOUS
    <2>1. totals' = sums[s] /\ rows' = Snapshot(s)
      BY EndingCommits DEF Commit
    <2>2. p \in Products
      BY DEF TotalsInv, TotalsTypeOK
    <2> QED
      BY <2>1, <2>2 DEF TotalsInv, OwnSums, Snapshot
  <1> QED
    BY <1>1, InitTotalsInv, TotalsInductive, PTL DEF TotalsSpec, OwnRowsCounted

\* A statement that writes two rows or more leaves exact totals, however many
\* others run.
THEOREM TwoRows == TotalsSpec => ExactAfterTwoRows
  <1>1. TotalsInv /\ [TotalsNext]_totalsVars =>
          [\A s \in Statements :
              /\ stage[s] = "commit"
              /\ stage'[s] = "idle"
              /\ totals' # totals
              /\ Cardinality(written[s]) > 1
              => totals' = rows']_totalsVars
    <2> SUFFICES ASSUME TotalsInv, [TotalsNext]_totalsVars,
                        NEW s \in Statements,
                        stage[s] = "commit", stage'[s] = "idle",
                        totals' # totals, Cardinality(written[s]) > 1
                 PROVE  totals' = rows'
      OBVIOUS
    <2>1. totals' = sums[s] /\ rows' = Snapshot(s)
      BY EndingCommits DEF Commit
    <2> QED
      BY <2>1 DEF TotalsInv, LaterSums
  <1> QED
    BY <1>1, InitTotalsInv, TotalsInductive, PTL
       DEF TotalsSpec, ExactAfterTwoRows
=============================================================================
