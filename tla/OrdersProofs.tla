---------------------------- MODULE OrdersProofs ----------------------------
(***************************************************************************)
(* Proofs about Orders, for any number of checkouts, customers and         *)
(* companies and for any prices, discounts, rates and baskets; and in the  *)
(* last sections about Server, for any number of addresses, calls and      *)
(* lookups, any rate, burst and interval.                                  *)
(*                                                                         *)
(* The argument goes request by request: Good(r) says what the draft of r  *)
(* has reached at each step, and a step of another request cannot disturb  *)
(* it, because drafts are private and guests and companies are never       *)
(* deleted.                                                                *)
(***************************************************************************)
EXTENDS Orders, Server, TLAPS

Reported == {"created", "mailed", "gone"}
InTx == {"company", "new company", "order", "rate", "items", "amounts",
         "commit"}

\* Only a request that was reported as created, or whose process ended, may
\* have an order.
Unstored(r) == pc[r] \notin Reported => orders[r] = None

\* The guest's steps are a guest's, and from "begin" on the owner exists.
Owned(r) ==
    /\ pc[r] \in {"guest", "new guest"} => body[r].customer \in Guests
    /\ pc[r] \in InTx \union {"begin"} => draft[r].owner \in Users \union guests

\* The company's steps are those of a body that names one; the draft has the
\* PIN of the body, and from the order's INSERT on the company exists.
Incorporated(r) ==
    /\ pc[r] \in {"company", "new company"} => body[r].pin # None
    /\ pc[r] \in {"idle", "guest", "new guest", "begin"} => draft[r].pin = None
    /\ pc[r] \in InTx \ {"company"} => draft[r].pin = body[r].pin
    /\ pc[r] \in {"order", "rate", "items", "amounts", "commit"} =>
          draft[r].pin \in companies \union {None}

\* What the transaction has computed so far.
Computed(r) ==
    /\ pc[r] \in {"items", "amounts", "commit"} => draft[r].rate \in Rates
    /\ pc[r] \in {"amounts", "commit"} =>
          /\ Sold(body[r].items)
          /\ Priced(draft[r].lines, body[r].items, draft[r].rate)
    /\ pc[r] = "commit" =>
          draft[r].amounts \in AmountsOf(body[r].items, draft[r].rate)

Refused(r) ==
    pc[r] = "refused" =>
        \E n \in DOMAIN body[r].items :
            Fractional(body[r].items[n], draft[r].rate)

Recorded(r) == orders[r] # None => Whole(orders[r], body[r])

Good(r) ==
    /\ Unstored(r)
    /\ Owned(r)
    /\ Incorporated(r)
    /\ Computed(r)
    /\ Refused(r)
    /\ Recorded(r)

IInv == TypeOK /\ \A r \in Requests : Good(r)

-----------------------------------------------------------------------------
\* The rows that an item becomes have integers in their amounts.
LEMMA LinesTyped ==
    ASSUME NEW items \in Baskets, Sold(items), NEW rt \in Rates,
           NEW n \in DOMAIN items
    PROVE  Lines(items[n], rt) \subseteq Line
  <1> DEFINE i == items[n]
  <1>1. i \in [product : STRING, quantity : Int]
    <2> DEFINE Items == [product : STRING, quantity : Int]
    <2>1. items \in Seq(Items)
      BY OrdersAssumption
    <2> HIDE DEF Items
    <2>2. i \in Items
      BY <2>1
    <2> QED
      BY <2>2 DEF Items
  <1>2. /\ Price[i.product] \in Int
        /\ Discount[i.product] \in Int
        /\ rt \in Int
    BY OrdersAssumption DEF Sold
  <1>3. \A x \in Int : Cents(x) \subseteq Int
    BY DEF Cents, Nearest
  <1>4. /\ Unit(i, rt) \in Int
        /\ Gross(i, rt) \in Int
        /\ Off(i, rt) \in Int
    BY <1>1, <1>2 DEF Unit, Gross, Off
  <1>5. Net(i, rt) \in Int
    BY <1>4 DEF Net
  <1>6. /\ Cents(Unit(i, rt)) \subseteq Int
        /\ Cents(Off(i, rt)) \subseteq Int
        /\ Cents(Net(i, rt)) \subseteq Int
    BY <1>3, <1>4, <1>5
  <1> HIDE DEF i
  <1>7. Lines(i, rt) \subseteq Line
    BY <1>1, <1>6 DEF Lines, Line
  <1> QED
    BY <1>7 DEF i

\* The amounts of an order of products that exist are amounts.
LEMMA AmountsTyped ==
    ASSUME NEW items \in Baskets, Sold(items), NEW rt \in Rates
    PROVE  AmountsOf(items, rt) \subseteq Amounts
  BY DEF Amounts

\* A step that leaves request s alone and deletes no guest and no company
\* keeps Good(s).
LEMMA Frame ==
    ASSUME NEW s \in Requests, Good(s),
           pc'[s] = pc[s], draft'[s] = draft[s], orders'[s] = orders[s],
           body' = body,
           guests \subseteq guests', companies \subseteq companies'
    PROVE  Good(s)'
  <1>1. /\ Unstored(s)' /\ Owned(s)' /\ Incorporated(s)' /\ Computed(s)'
        /\ Refused(s)'
    BY DEF Good, Unstored, Owned, Incorporated, Computed, Refused
  <1>2. Recorded(s)'
    BY DEF Good, Recorded, Whole
  <1> QED
    BY <1>1, <1>2 DEF Good

\* A step of r changes r's own entries only.
LEMMA OthersAlone ==
    ASSUME TypeOK, NEW r \in Requests, NEW s \in Requests, s # r,
           Checkout(r) \/ CancelOrder(r)
    PROVE  /\ pc'[s] = pc[s] /\ draft'[s] = draft[s] /\ orders'[s] = orders[s]
           /\ body' = body
           /\ guests \subseteq guests' /\ companies \subseteq companies'
  BY DEF TypeOK, Checkout, CancelOrder, CreateOrder, GetGuestCheckoutByEmail,
         CreateGuestCheckout, BeginTx, GetCompanyID, CreateCompany,
         InsertOrder, GetLatestExchangeRate, ProcessOrderItems,
         UpdateOrderAmounts, Commit, SendOrderNotification, Fail, Crash,
         Move, Goto, vars, tables

\* The rows of a basket make a sequence of lines.
LEMMA LinesSeq ==
    ASSUME NEW items \in Baskets, Sold(items), NEW rt \in Rates,
           NEW lines, lines = [n \in DOMAIN items |-> lines[n]],
           \A n \in DOMAIN items : lines[n] \in Lines(items[n], rt)
    PROVE  lines \in Seq(Line)
  <1>1. items \in Seq([product : STRING, quantity : Int])
    BY OrdersAssumption
  <1>2. Len(items) \in Nat /\ DOMAIN items = 1..Len(items)
    BY <1>1
  <1>3. \A n \in DOMAIN items : lines[n] \in Line
    BY LinesTyped
  <1>4. lines \in [1..Len(items) -> Line]
    BY <1>2, <1>3
  <1> QED
    BY <1>2, <1>4

\* One cent is nearest to x, except of a tie.
LEMMA NearestCent ==
    ASSUME NEW x \in Int, x % 10000 # 5000, NEW c \in Cents(x)
    PROVE  /\ c \in Int
           /\ x % 10000 < 5000 => c = x \div 10000
           /\ x % 10000 > 5000 => c = x \div 10000 + 1
  <1> DEFINE k == x \div 10000
             s == x % 10000
  <1>0. k \in Int /\ s \in 0..9999 /\ x = 10000 * k + s
    OBVIOUS
  <1>1. c \in {(x + 5000) \div 10000, (x + 4999) \div 10000}
    BY DEF Cents, Nearest
  <1> HIDE DEF k, s
  <1>2. CASE s < 5000
    <2>1. (x + 5000) \div 10000 = k /\ (x + 4999) \div 10000 = k
      BY <1>0, <1>2
    <2> QED
      BY <1>0, <1>1, <1>2, <2>1 DEF k, s
  <1>3. CASE s > 5000
    <2>1. (x + 5000) \div 10000 = k + 1 /\ (x + 4999) \div 10000 = k + 1
      BY <1>0, <1>3
    <2> QED
      BY <1>0, <1>1, <1>3, <2>1 DEF k, s
  <1>4. s # 5000
    BY DEF s
  <1> QED
    BY <1>0, <1>2, <1>3, <1>4

\* The rows of an item that is not Fractional meet the CHECK.
LEMMA WholeCentsMeetCheck ==
    ASSUME NEW items \in Baskets, Sold(items), NEW rt \in Rates,
           NEW n \in DOMAIN items, ~Fractional(items[n], rt),
           NEW line \in Lines(items[n], rt)
    PROVE  MeetsCheck(line)
  <1> DEFINE i == items[n]
             q == i.quantity
             price == Price[i.product]
             pct == Discount[i.product]
  <1>1. /\ q \in Int /\ price \in Nat /\ pct \in Nat /\ rt \in Nat
    <2> DEFINE Items == [product : STRING, quantity : Int]
    <2>1. items \in Seq(Items)
      BY OrdersAssumption
    <2> HIDE DEF Items
    <2>2. i \in Items
      BY <2>1
    <2>3. q \in Int
      BY <2>2 DEF Items
    <2> QED
      BY <2>3, OrdersAssumption DEF Sold
  <1>2. q >= 0 /\ pct <= 100
    BY <1>1 DEF Fractional
  <1>3. /\ line.quantity = q
        /\ line.unit \in Cents(Unit(i, rt))
        /\ line.discount \in Cents(Off(i, rt))
        /\ line.total \in Cents(Net(i, rt))
        /\ q = 1 /\ Off(i, rt) = 0 => line.total = line.unit
    BY DEF Lines
  <1> DEFINE off == Off(i, rt)
             unit == Unit(i, rt)
  <1>4. /\ unit = 100 * price * rt
        /\ Gross(i, rt) = unit * q
        /\ off = price * rt * q * pct
    BY DEF Unit, Gross, Off
  <1>5. unit \in Nat /\ off \in Nat /\ Gross(i, rt) \in Nat
    BY <1>1, <1>2, <1>4
  <1>6. off <= Gross(i, rt)
    <2> DEFINE a == price * rt * q
    <2>1. a \in Nat
      BY <1>1, <1>2
    <2>2. off = a * pct /\ Gross(i, rt) = a * 100
      BY <1>1, <1>4
    <2> HIDE DEF a
    <2>3. a * pct <= a * 100
      BY <1>1, <1>2, <2>1
    <2> QED
      BY <2>2, <2>3
  <1>7. Net(i, rt) = unit * q - off
    BY <1>4, <1>5, <1>6 DEF Net
  <1>8. /\ unit % 10000 = 0 \/ (q = 1 /\ pct = 0)
        /\ off % 10000 # 5000
    BY DEF Fractional
  <1> HIDE DEF i, q, price, pct, off, unit
  <1>9. CASE q = 1 /\ pct = 0
    <2>1. off = 0
      BY <1>1, <1>4, <1>9
    <2>2. line.discount = 0
      BY <1>3, <2>1, NearestCent DEF off
    <2>3. line.total = line.unit /\ line.unit \in Int
      BY <1>3, <1>5, <1>9, <2>1 DEF off, unit, Cents, Nearest
    <2> QED
      BY <1>3, <1>9, <2>2, <2>3 DEF MeetsCheck
  <1>10. CASE unit % 10000 = 0
    <2>1. PICK k \in Int : unit = 10000 * k
      BY <1>5, <1>10
    <2> DEFINE m == off \div 10000
               s == off % 10000
    <2>2. m \in Int /\ s \in 0..9999 /\ off = 10000 * m + s
      BY <1>5
    <2> HIDE DEF m, s
    <2>3. s # 5000
      BY <1>8 DEF s
    <2>4. line.unit = k
      <3>1. unit % 10000 < 5000 /\ unit \div 10000 = k
        BY <1>10, <2>1
      <3> QED
        BY <1>3, <1>5, <3>1, NearestCent DEF unit
    <2>5. /\ s < 5000 => line.discount = m
          /\ s > 5000 => line.discount = m + 1
      BY <1>3, <1>5, <2>3, NearestCent DEF off, s, m
    <2> DEFINE t == k * q - m
               net == Net(i, rt)
    <2>6. t \in Int /\ net = 10000 * t - s
      BY <1>1, <1>7, <2>1, <2>2
    <2>7. /\ s < 5000 => line.total = t
          /\ s > 5000 => line.total = t - 1
      <3>1. line.total \in Cents(net)
        BY <1>3
      <3> HIDE DEF t, net
      <3>2. CASE s = 0
        <4>1. net % 10000 = 0 /\ net \div 10000 = t /\ net \in Int
          BY <2>6, <3>2
        <4> QED
          BY <3>1, <3>2, <4>1, NearestCent
      <3>3. CASE s # 0
        <4>1. /\ net % 10000 = 10000 - s
              /\ net \div 10000 = t - 1
              /\ net \in Int
          BY <2>2, <2>6, <3>3
        <4>2. 10000 - s # 5000
          BY <2>2, <2>3
        <4>3. /\ net % 10000 < 5000 => line.total = t - 1
              /\ net % 10000 > 5000 => line.total = t
          <5>1. net % 10000 # 5000
            BY <4>1, <4>2
          <5>2. t - 1 + 1 = t
            BY <2>6
          <5> QED
            BY <3>1, <4>1, <5>1, <5>2, NearestCent
        <4> QED
          BY <2>2, <4>1, <4>3
      <3> QED
        BY <3>2, <3>3
    <2> HIDE DEF t, net
    <2>8. k * q \in Int
      BY <1>1
    <2>9. s < 5000 \/ s > 5000
      BY <2>2, <2>3
    <2>10. line.total = k * q - line.discount
      BY <1>1, <2>2, <2>5, <2>7, <2>8, <2>9 DEF t
    <2>11. k * q = q * k
      BY <1>1
    <2> QED
      BY <1>3, <2>4, <2>10, <2>11 DEF MeetsCheck
  <1> QED
    BY <1>8, <1>9, <1>10

\* Types are kept.
LEMMA TypeStep ==
    ASSUME IInv, [Next]_vars
    PROVE  TypeOK'
  <1>0. TypeOK
    BY DEF IInv
  <1> USE <1>0 DEF TypeOK
  <1>1. ASSUME NEW r \in Requests, Checkout(r)
        PROVE  TypeOK'
    <2>0. /\ Good(r)
          /\ body[r] \in Bodies
          /\ draft[r] \in Order
      BY <1>1 DEF IInv
    <2>1. CASE CreateOrder(r)
      <3>1. body[r].customer \in Users \union Guests
        BY <2>0 DEF Bodies
      <3>2. draft' \in [Requests -> Order]
        <4>1. CASE body[r].customer \in Users
          <5>1. draft' = [draft EXCEPT ![r].owner = body[r].customer]
            BY <2>1, <4>1 DEF CreateOrder
          <5> QED
            BY <2>0, <3>1, <5>1 DEF Order
        <4>2. CASE body[r].customer \notin Users
          BY <2>1, <4>2 DEF CreateOrder
        <4> QED
          BY <4>1, <4>2
      <3> QED
        BY <2>1, <3>2 DEF CreateOrder, Goto, tables, Working
    <2>2. CASE GetGuestCheckoutByEmail(r)
      <3>1. draft' \in [Requests -> Order]
        <4>1. CASE UNCHANGED draft
          BY <4>1
        <4>2. CASE ~UNCHANGED draft
          <5>1. PICK g \in guests : draft' = [draft EXCEPT ![r].owner = g]
            BY <2>2, <4>2 DEF GetGuestCheckoutByEmail
          <5>2. g \in Guests
            OBVIOUS
          <5> QED
            BY <2>0, <5>1, <5>2 DEF Order
        <4> QED
          BY <4>1, <4>2
      <3> QED
        BY <2>2, <3>1 DEF GetGuestCheckoutByEmail, Goto, tables, Working
    <2>3. CASE CreateGuestCheckout(r)
      <3>1. body[r].customer \in Guests
        BY <2>0, <2>3 DEF CreateGuestCheckout, Move, Good, Owned
      <3>2. draft' \in [Requests -> Order]
        BY <2>0, <2>3, <3>1 DEF CreateGuestCheckout, Order
      <3> QED
        BY <2>3, <3>1, <3>2
           DEF CreateGuestCheckout, Move, Goto, Working
    <2>4. CASE BeginTx(r)
      BY <2>4 DEF BeginTx, Move, Goto, tables, Working
    <2>5. CASE GetCompanyID(r)
      <3>1. body[r].pin \in Pins \union {None}
        BY <2>0 DEF Bodies
      <3>2. draft' \in [Requests -> Order]
        BY <2>0, <2>5, <3>1 DEF GetCompanyID, Order
      <3> QED
        BY <2>5, <3>2 DEF GetCompanyID, Move, Goto, tables, Working
    <2>6. CASE CreateCompany(r)
      <3>1. body[r].pin \in Pins
        BY <2>0, <2>6 DEF CreateCompany, Move, Good, Incorporated, Bodies
      <3> QED
        BY <2>6, <3>1 DEF CreateCompany, Move, Goto, Working
    <2>7. CASE InsertOrder(r)
      BY <2>7 DEF InsertOrder, Move, Goto, tables, Working
    <2>8. CASE GetLatestExchangeRate(r)
      <3>1. draft' \in [Requests -> Order]
        BY <2>0, <2>8 DEF GetLatestExchangeRate, Order
      <3> QED
        BY <2>8, <3>1 DEF GetLatestExchangeRate, Move, Goto, tables, Working
    <2>9. CASE ProcessOrderItems(r)
      <3>1. draft' \in [Requests -> Order]
        <4>1. /\ body[r].items \in Baskets
              /\ draft[r].rate \in Rates
              /\ Sold(body[r].items)
          BY <2>0, <2>9 DEF ProcessOrderItems, Good, Computed, Bodies
        <4>2. CASE UNCHANGED draft
          BY <4>2
        <4>3. CASE ~UNCHANGED draft
          <5>1. PICK lines \in [DOMAIN body[r].items ->
                                   UNION {Lines(body[r].items[n],
                                                draft[r].rate) :
                                             n \in DOMAIN body[r].items}] :
                   /\ \A n \in DOMAIN body[r].items :
                         lines[n] \in Lines(body[r].items[n], draft[r].rate)
                   /\ draft' = [draft EXCEPT ![r].lines = lines]
            BY <2>9, <4>3 DEF ProcessOrderItems
          <5>2. lines \in Seq(Line)
            BY <4>1, <5>1, LinesSeq
          <5> QED
            BY <2>0, <5>1, <5>2 DEF Order
        <4> QED
          BY <4>2, <4>3
      <3>2. pc' \in [Requests -> Working \union {"idle", "created", "mailed",
                                                "failed", "refused", "gone"}]
        BY <2>9 DEF ProcessOrderItems, Goto, Working
      <3> QED
        BY <2>9, <3>1, <3>2 DEF ProcessOrderItems, tables
    <2>10. CASE UpdateOrderAmounts(r)
      <3>1. PICK a \in AmountsOf(body[r].items, draft[r].rate) :
               draft' = [draft EXCEPT ![r].amounts = a]
        BY <2>10 DEF UpdateOrderAmounts
      <3>2. a \in Amounts
        BY <2>0, <2>10, <3>1, AmountsTyped
           DEF UpdateOrderAmounts, Move, Good, Computed, Bodies
      <3>3. draft' \in [Requests -> Order]
        BY <2>0, <3>1, <3>2 DEF Order
      <3> QED
        BY <2>10, <3>3 DEF UpdateOrderAmounts, Move, Goto, tables, Working
    <2>11. CASE Commit(r)
      BY <2>0, <2>11 DEF Commit, Move, Goto, Working
    <2>12. CASE SendOrderNotification(r) \/ Fail(r) \/ Crash(r)
      BY <2>12 DEF SendOrderNotification, Fail, Crash, Move, Goto, tables,
                   Working
    <2> QED
      BY <1>1, <2>1, <2>2, <2>3, <2>4, <2>5, <2>6, <2>7, <2>8, <2>9, <2>10,
         <2>11, <2>12 DEF Checkout
  <1>2. ASSUME NEW r \in Requests, CancelOrder(r)
        PROVE  TypeOK'
    <2>1. orders[r] \in Order
      BY <1>2 DEF IInv, CancelOrder
    <2>2. orders' \in [Requests -> Order \union {None}]
      BY <1>2, <2>1 DEF IInv, CancelOrder, Order
    <2> QED
      BY <1>2, <2>2 DEF IInv, CancelOrder
  <1>3. CASE UpdateExchangeRate
    BY <1>3 DEF IInv, UpdateExchangeRate
  <1>4. CASE UNCHANGED vars
    BY <1>4 DEF IInv, vars
  <1> QED
    BY <1>1, <1>2, <1>3, <1>4 DEF Next

\* A step of a checkout keeps what its own draft has reached.
LEMMA OwnStep ==
    ASSUME IInv, NEW r \in Requests, Checkout(r)
    PROVE  Good(r)'
  <1>0. /\ TypeOK
        /\ Good(r)
        /\ body[r] \in Bodies
        /\ draft[r] \in Order
        /\ r \in DOMAIN pc /\ r \in DOMAIN draft /\ r \in DOMAIN orders
    BY DEF IInv, TypeOK
  <1> USE DEF Move, Goto, tables, Reported, InTx
  <1>1. CASE CreateOrder(r)
    <2>1. body[r].customer \in Users \union Guests
      BY <1>0 DEF Bodies
    <2>2. /\ draft'[r].pin = draft[r].pin
          /\ body[r].customer \in Users =>
                draft'[r].owner = body[r].customer /\ pc'[r] = "begin"
          /\ body[r].customer \notin Users => pc'[r] = "guest"
          /\ pc[r] = "idle"
      BY <1>0, <1>1 DEF CreateOrder, Order
    <2> QED
      BY <1>0, <1>1, <2>1, <2>2
         DEF CreateOrder, Good, Unstored, Owned, Incorporated, Computed,
             Refused, Recorded, Whole
  <1>2. CASE GetGuestCheckoutByEmail(r)
    <2>1. guests \subseteq Guests
      BY <1>0 DEF TypeOK
    <2>2. /\ draft'[r].pin = draft[r].pin
          /\ pc'[r] = "new guest" \/ /\ pc'[r] = "begin"
                                     /\ draft'[r].owner \in guests
          /\ pc[r] = "guest"
      BY <1>0, <1>2 DEF GetGuestCheckoutByEmail, Order
    <2> QED
      BY <1>0, <1>2, <2>1, <2>2
         DEF GetGuestCheckoutByEmail, Good, Unstored, Owned, Incorporated,
             Computed, Refused, Recorded, Whole
  <1>3. CASE CreateGuestCheckout(r)
    <2>1. /\ draft'[r].pin = draft[r].pin
          /\ draft'[r].owner = body[r].customer
          /\ pc[r] = "new guest" /\ pc'[r] = "begin"
          /\ guests' = guests \union {body[r].customer}
          /\ UNCHANGED <<rate, companies, orders, body>>
      BY <1>0, <1>3 DEF CreateGuestCheckout, Order
    <2>2. Owned(r)'
      BY <2>1 DEF Owned
    <2>3. Recorded(r)'
      BY <1>0, <2>1 DEF Good, Recorded, Whole
    <2> QED
      BY <1>0, <2>1, <2>2, <2>3
         DEF Good, Unstored, Incorporated, Computed, Refused
  <1>4. CASE BeginTx(r)
    BY <1>0, <1>4 DEF BeginTx, Good, Unstored, Owned, Incorporated, Computed,
                      Refused, Recorded, Whole
  <1>5. CASE GetCompanyID(r)
    <2>1. /\ draft'[r].pin = body[r].pin
          /\ draft'[r].owner = draft[r].owner
          /\ pc[r] = "company" /\ pc'[r] \in {"order", "new company"}
          /\ pc'[r] = "order" => body[r].pin \in companies
          /\ UNCHANGED <<rate, guests, companies, orders, body>>
      BY <1>0, <1>5 DEF GetCompanyID, Order
    <2>2. Incorporated(r)'
      BY <1>0, <2>1 DEF Good, Incorporated
    <2> QED
      BY <1>0, <2>1, <2>2
         DEF Good, Unstored, Owned, Computed, Refused, Recorded, Whole
  <1>6. CASE CreateCompany(r)
    BY <1>0, <1>6 DEF CreateCompany, Good, Unstored, Owned, Incorporated,
                      Computed, Refused, Recorded, Whole
  <1>7. CASE InsertOrder(r)
    BY <1>0, <1>7 DEF InsertOrder, Good, Unstored, Owned, Incorporated,
                      Computed, Refused, Recorded, Whole
  <1>8. CASE GetLatestExchangeRate(r)
    <2>1. /\ draft'[r].pin = draft[r].pin
          /\ draft'[r].owner = draft[r].owner
          /\ draft'[r].rate \in Rates
          /\ pc[r] = "rate" /\ pc'[r] = "items"
      BY <1>0, <1>8 DEF GetLatestExchangeRate, Order, TypeOK
    <2> QED
      BY <1>0, <1>8, <2>1
         DEF GetLatestExchangeRate, Good, Unstored, Owned, Incorporated,
             Computed, Refused, Recorded, Whole
  <1>9. CASE ProcessOrderItems(r)
    <2> DEFINE items == body[r].items
    <2>1. PICK lines \in [DOMAIN items ->
                              UNION {Lines(items[n], draft[r].rate) :
                                        n \in DOMAIN items}] :
             /\ \A n \in DOMAIN items :
                   lines[n] \in Lines(items[n], draft[r].rate)
             /\ IF \A n \in DOMAIN items : MeetsCheck(lines[n])
                THEN /\ draft' = [draft EXCEPT ![r].lines = lines]
                     /\ pc' = [pc EXCEPT ![r] = "amounts"]
                ELSE /\ pc' = [pc EXCEPT ![r] = "refused"]
                     /\ UNCHANGED draft
      BY <1>9 DEF ProcessOrderItems
    <2>2. /\ pc[r] = "items"
          /\ Sold(items)
          /\ UNCHANGED <<rate, guests, companies, orders, body>>
      BY <1>9 DEF ProcessOrderItems
    <2>3. items \in Baskets /\ draft[r].rate \in Rates
      BY <1>0, <2>2 DEF Bodies, Good, Computed
    <2>4. CASE \A n \in DOMAIN items : MeetsCheck(lines[n])
      <3>1. /\ draft'[r].pin = draft[r].pin
            /\ draft'[r].owner = draft[r].owner
            /\ draft'[r].rate = draft[r].rate
            /\ draft'[r].lines = lines
            /\ pc'[r] = "amounts"
        BY <1>0, <2>1, <2>4 DEF Order
      <3>2. Priced(lines, items, draft[r].rate)
        BY <2>1, <2>4 DEF Priced
      <3> QED
        BY <1>0, <2>2, <2>3, <3>1, <3>2
           DEF Good, Unstored, Owned, Incorporated, Computed, Refused, Recorded,
               Whole
    <2>5. CASE ~ \A n \in DOMAIN items : MeetsCheck(lines[n])
      <3>1. PICK n \in DOMAIN items : ~ MeetsCheck(lines[n])
        BY <2>5
      <3>2. Fractional(items[n], draft[r].rate)
        BY <2>1, <2>2, <2>3, <3>1, WholeCentsMeetCheck
      <3>3. pc'[r] = "refused" /\ draft' = draft
        BY <1>0, <2>1, <2>5
      <3> QED
        BY <1>0, <2>2, <3>2, <3>3
           DEF Good, Unstored, Owned, Incorporated, Computed, Refused, Recorded,
               Whole
    <2> QED
      BY <2>4, <2>5
  <1>10. CASE UpdateOrderAmounts(r)
    <2>1. /\ draft'[r].pin = draft[r].pin
          /\ draft'[r].owner = draft[r].owner
          /\ draft'[r].rate = draft[r].rate
          /\ draft'[r].lines = draft[r].lines
          /\ draft'[r].amounts \in AmountsOf(body[r].items, draft[r].rate)
          /\ pc[r] = "amounts" /\ pc'[r] = "commit"
      BY <1>0, <1>10 DEF UpdateOrderAmounts, Order
    <2> QED
      BY <1>0, <1>10, <2>1
         DEF UpdateOrderAmounts, Good, Unstored, Owned, Incorporated, Computed,
             Refused, Recorded, Whole
  <1>11. CASE Commit(r)
    <2>1. Whole(draft[r], body[r])
      BY <1>0, <1>11 DEF Commit, Good, Owned, Incorporated, Computed, Whole
    <2>2. /\ orders'[r] \in {orders[r], draft[r]}
          /\ pc[r] = "commit" /\ pc'[r] = "created"
          /\ UNCHANGED <<rate, guests, companies, body, draft>>
      BY <1>0, <1>11 DEF Commit
    <2>3. Recorded(r)'
      BY <1>0, <2>1, <2>2 DEF Good, Recorded, Whole
    <2> QED
      BY <1>0, <2>2, <2>3
         DEF Good, Unstored, Owned, Incorporated, Computed, Refused
  <1>12. CASE SendOrderNotification(r) \/ Fail(r) \/ Crash(r)
    BY <1>0, <1>12
       DEF SendOrderNotification, Fail, Crash, Working, Good, Unstored, Owned,
           Incorporated, Computed, Refused, Recorded, Whole
  <1> QED
    BY <1>1, <1>2, <1>3, <1>4, <1>5, <1>6, <1>7, <1>8, <1>9, <1>10, <1>11,
       <1>12 DEF Checkout

\* The invariant is inductive.
LEMMA InvInit == Init => IInv
  <1> SUFFICES ASSUME Init PROVE IInv
    OBVIOUS
  <1>1. NoDraft \in Order
    BY DEF NoDraft, Order, Amounts
  <1>2. TypeOK
    BY <1>1 DEF Init, TypeOK
  <1>3. ASSUME NEW r \in Requests
        PROVE  Good(r)
    <2>1. pc[r] = "idle" /\ orders[r] = None /\ draft[r].pin = None
      BY DEF Init, NoDraft
    <2> QED
      BY <2>1 DEF Good, Unstored, Owned, Incorporated, Computed, Refused,
                  Recorded, InTx
  <1> QED
    BY <1>2, <1>3 DEF IInv

LEMMA InvStep == IInv /\ [Next]_vars => IInv'
  <1> SUFFICES ASSUME IInv, [Next]_vars PROVE IInv'
    OBVIOUS
  <1>1. TypeOK'
    BY TypeStep
  <1>2. ASSUME NEW s \in Requests
        PROVE  Good(s)'
    <2>0. TypeOK /\ Good(s)
      BY DEF IInv
    <2>1. ASSUME NEW r \in Requests, Checkout(r)
          PROVE  Good(s)'
      BY <2>0, <2>1, OwnStep, OthersAlone, Frame
    <2>2. ASSUME NEW r \in Requests, CancelOrder(r)
          PROVE  Good(s)'
      <3>1. CASE r # s
        BY <2>0, <2>2, <3>1, OthersAlone, Frame
      <3>2. CASE r = s
        <4>1. orders[s] # None /\ orders[s] \in Order
          BY <2>0, <2>2, <3>2 DEF CancelOrder, TypeOK
        <4>2. /\ orders'[s].owner = orders[s].owner
              /\ orders'[s].pin = orders[s].pin
              /\ orders'[s].rate = orders[s].rate
              /\ orders'[s].lines = orders[s].lines
              /\ orders'[s].amounts = orders[s].amounts
              /\ UNCHANGED <<rate, guests, companies, pc, body, draft>>
          BY <2>0, <2>2, <3>2, <4>1 DEF CancelOrder, Order, TypeOK
        <4> QED
          BY <2>0, <4>1, <4>2
             DEF Good, Unstored, Owned, Incorporated, Computed, Refused,
                 Recorded, Whole
      <3> QED
        BY <3>1, <3>2
    <2>3. CASE UpdateExchangeRate
      BY <2>0, <2>3, Frame DEF UpdateExchangeRate
    <2>4. CASE UNCHANGED vars
      BY <2>0, <2>4, Frame DEF vars
    <2> QED
      BY <2>1, <2>2, <2>3, <2>4 DEF Next
  <1> QED
    BY <1>1, <1>2 DEF IInv

-----------------------------------------------------------------------------
\* The tables, drafts and requests keep their types.
THEOREM OrdersTyped == Spec => []TypeOK
  <1>1. IInv => TypeOK
    BY DEF IInv
  <1> QED
    BY <1>1, InvInit, InvStep, PTL DEF Spec

\* An order that can be seen is whole and computed at one rate, whatever other
\* requests write between its steps and wherever the request stops
\* (OrderService.CreateOrder).
THEOREM OrdersWhole == Spec => []StoredWhole
  <1>1. IInv => StoredWhole
    BY DEF IInv, StoredWhole, Good, Recorded
  <1> QED
    BY <1>1, InvInit, InvStep, PTL DEF Spec

\* A request to which an error was answered left no order.
THEOREM FailedNoOrder == Spec => []FailedLeavesNoOrder
  <1>1. IInv => FailedLeavesNoOrder
    BY DEF IInv, FailedLeavesNoOrder, Good, Unstored, Reported
  <1> QED
    BY <1>1, InvInit, InvStep, PTL DEF Spec

\* The CHECK on order_items refuses only the orders that Fractional describes,
\* for every price, discount, rate and quantity.
THEOREM RefusedFractions == Spec => []RefusedOnlyForFractions
  <1>1. IInv => RefusedOnlyForFractions
    BY DEF IInv, RefusedOnlyForFractions, Good, Refused
  <1> QED
    BY <1>1, InvInit, InvStep, PTL DEF Spec

-----------------------------------------------------------------------------
(* The rate limit: the map of clients implements the buckets of            *)
(* TokenBuckets.  A client stays one of its address: it is made once, by a *)
(* request that nobody holds before, so that a request whose client was    *)
(* removed changes no other bucket.                                        *)

\* The steps of a request that may have made a client.
Made == {"allow", "allowed", "refused"}

\* A request holds a client from its look at the map to the limiter.
HeldIff ==
    \A r \in Calls : held[r] # Absent <=> place[r] \in {"touch", "allow"}

\* A request that has come has an address.
FromKnown ==
    \A r \in Calls : place[r] # "idle" => from[r] \in Addresses

\* The client of an address was made by a request of it.
ClientsMade ==
    \A a \in Addresses :
        clients[a] # Absent => /\ from[clients[a]] = a
                             /\ place[clients[a]] \in Made

\* So was one that a request holds.
HeldMade ==
    \A r \in Calls :
        held[r] # Absent => /\ from[held[r]] = from[r]
                          /\ place[held[r]] \in Made

LInv == LimiterTypeOK /\ HeldIff /\ FromKnown /\ ClientsMade /\ HeldMade

\* No client is there at the start.
LEMMA LimiterInitInv == LimiterInit => LInv
  BY RateLimiterAssumption
     DEF LimiterInit, LInv, LimiterTypeOK, HeldIff, FromKnown, ClientsMade,
         HeldMade, Steps

\* A request that comes keeps the invariant.
LEMMA ComeInv ==
    ASSUME LInv, NEW r \in Calls, NEW a \in Addresses, FindClient(r, a)
    PROVE  LInv'
  <1> USE RateLimiterAssumption
      DEF LInv, LimiterTypeOK, Steps, Made, FindClient
  <1>1. LimiterTypeOK'
    OBVIOUS
  <1>2. HeldIff' /\ FromKnown'
    BY DEF HeldIff, FromKnown
  <1>3. ClientsMade'
    BY DEF ClientsMade
  <1>4. HeldMade'
    BY DEF HeldMade, ClientsMade
  <1> QED BY <1>1, <1>2, <1>3, <1>4

\* To touch a client keeps the invariant.
LEMMA TouchInv ==
    ASSUME LInv, NEW r \in Calls, TouchClient(r)
    PROVE  LInv'
  <1> USE RateLimiterAssumption
      DEF LInv, LimiterTypeOK, Steps, Made, TouchClient
  <1>1. LimiterTypeOK'
    BY DEF HeldIff
  <1>2. HeldIff' /\ FromKnown'
    BY DEF HeldIff, FromKnown
  <1>3. ClientsMade'
    BY DEF ClientsMade
  <1>4. HeldMade'
    BY DEF HeldMade
  <1> QED BY <1>1, <1>2, <1>3, <1>4

\* To make one keeps the invariant: nobody holds it before.
LEMMA CreateInv ==
    ASSUME LInv, NEW r \in Calls, CreateClient(r)
    PROVE  LInv'
  <1> USE RateLimiterAssumption
      DEF LInv, LimiterTypeOK, Steps, Made, CreateClient
  <1>1. LimiterTypeOK'
    BY DEF FromKnown
  <1>2. HeldIff' /\ FromKnown'
    BY DEF HeldIff, FromKnown
  <1>3. ClientsMade'
    BY DEF ClientsMade, FromKnown
  <1>4. HeldMade'
    BY DEF HeldMade, ClientsMade, FromKnown
  <1> QED BY <1>1, <1>2, <1>3, <1>4

\* To take a token keeps the invariant.
LEMMA AllowInv ==
    ASSUME LInv, NEW r \in Calls, Allow(r)
    PROVE  LInv'
  <1> USE RateLimiterAssumption
      DEF LInv, LimiterTypeOK, Steps, Made, Allow
  <1>1. LimiterTypeOK'
    BY DEF HeldIff
  <1>2. HeldIff' /\ FromKnown'
    BY DEF HeldIff, FromKnown
  <1>3. ClientsMade'
    BY DEF ClientsMade
  <1>4. HeldMade'
    BY DEF HeldMade
  <1> QED BY <1>1, <1>2, <1>3, <1>4

\* The clean-up keeps the invariant.
LEMMA CleanupInv ==
    ASSUME LInv, cleanupStaleClients
    PROVE  LInv'
  BY DEF LInv, LimiterTypeOK, HeldIff, FromKnown, ClientsMade, HeldMade,
         cleanupStaleClients

\* Time keeps the invariant.
LEMMA TickInv ==
    ASSUME LInv, Tick
    PROVE  LInv'
  <1>1. LimiterTypeOK'
    BY RateLimiterAssumption DEF LInv, LimiterTypeOK, Tick
  <1>2. (HeldIff /\ FromKnown /\ ClientsMade /\ HeldMade)'
    BY DEF LInv, HeldIff, FromKnown, ClientsMade, HeldMade, Tick
  <1> QED BY <1>1, <1>2 DEF LInv

-----------------------------------------------------------------------------
\* A request that comes finds the client of its address, or none.
LEMMA ComeMaps ==
    ASSUME LInv, NEW r \in Calls, NEW a \in Addresses, FindClient(r, a)
    PROVE  Buckets!Come(r, a)
  <1> USE RateLimiterAssumption DEF LInv, LimiterTypeOK, Steps, FindClient
  <1>1. StateOf[r] = "idle" /\ StateOf' = [StateOf EXCEPT ![r] = "waiting"]
    BY DEF StateOf
  <1>2. from' = [from EXCEPT ![r] = a]
    OBVIOUS
  <1>3. now' = now /\ TokensOf' = TokensOf /\ SeenOf' = SeenOf
    BY DEF TokensOf, SeenOf
  <1>4. Apart' = Apart
    BY DEF Apart, HeldIff
  <1> QED BY <1>1, <1>2, <1>3, <1>4 DEF Buckets!Come

\* Only the client of the address that the request came from is marked.
LEMMA TouchMaps ==
    ASSUME LInv, NEW r \in Calls, TouchClient(r)
    PROVE  Buckets!Count(r)
  <1> USE RateLimiterAssumption DEF LInv, LimiterTypeOK, Steps, TouchClient
  <1>1. StateOf[r] = "waiting" /\ StateOf' = [StateOf EXCEPT ![r] = "counted"]
    BY DEF StateOf
  <1>2. held[r] \in Calls /\ from[r] \in Addresses
    BY DEF HeldIff, FromKnown
  <1>3. SeenOf' = IF r \in Apart THEN SeenOf
                  ELSE [SeenOf EXCEPT ![from[r]] = now]
    <2>1. CASE r \in Apart
      BY <1>2, <2>1 DEF Apart, SeenOf, ClientsMade, HeldMade
    <2>2. CASE r \notin Apart
      BY <1>2, <2>2 DEF Apart, SeenOf, ClientsMade, HeldMade
    <2> QED BY <2>1, <2>2
  <1>4. UNCHANGED <<now, TokensOf, from, Apart>>
    BY DEF TokensOf, Apart
  <1> QED BY <1>1, <1>3, <1>4 DEF Buckets!Count

\* The second look at the map counts the request at the bucket that the
\* address has by then.
LEMMA CreateMaps ==
    ASSUME LInv, NEW r \in Calls, CreateClient(r)
    PROVE  Buckets!Count(r)
  <1> USE RateLimiterAssumption DEF LInv, LimiterTypeOK, Steps, CreateClient
  <1>1. StateOf[r] = "waiting" /\ StateOf' = [StateOf EXCEPT ![r] = "counted"]
    BY DEF StateOf
  <1>2. /\ from[r] \in Addresses
        /\ held[r] = Absent
        /\ \A a \in Addresses : clients[a] # r
        /\ \A q \in Calls : held[q] # r
    BY DEF HeldIff, FromKnown, ClientsMade, HeldMade, Made
  <1>3. r \notin Apart
    BY <1>2 DEF Apart
  <1>4. SeenOf' = [SeenOf EXCEPT ![from[r]] = now]
    <2>1. CASE clients[from[r]] = Absent
      BY <1>2, <2>1 DEF SeenOf
    <2>2. CASE clients[from[r]] # Absent
      <3>1. \A a \in Addresses :
                clients[a] = clients[from[r]] => a = from[r]
        BY <1>2, <2>2 DEF ClientsMade
      <3>2. clients' = clients
        BY <2>2
      <3>3. lastSeen' = [lastSeen EXCEPT ![clients[from[r]]] = now]
        BY <2>2
      <3>4. \A a \in Addresses :
                SeenOf'[a] = IF a = from[r] THEN now ELSE SeenOf[a]
        BY <1>2, <2>2, <3>1, <3>2, <3>3 DEF SeenOf
      <3> QED BY <3>4 DEF SeenOf
    <2> QED BY <2>1, <2>2
  <1>5. TokensOf' = TokensOf
    BY <1>2 DEF TokensOf, ClientsMade
  <1>6. Apart' = Apart
    BY <1>2 DEF Apart
  <1> QED BY <1>1, <1>3, <1>4, <1>5, <1>6 DEF Buckets!Count

\* An answer of the limiter is that of the bucket.
LEMMA Answered ==
    ASSUME NEW r \in Calls, NEW v \in {"allowed", "refused"},
           place \in [Calls -> Steps], place' = [place EXCEPT ![r] = v]
    PROVE  StateOf' = [StateOf EXCEPT ![r] = v]
  <1>1. \A q \in Calls : StateOf'[q] = IF q = r THEN v ELSE StateOf[q]
    <2> SUFFICES ASSUME NEW q \in Calls
                 PROVE  StateOf'[q] = IF q = r THEN v ELSE StateOf[q]
      OBVIOUS
    <2>1. CASE q = r
      <3>1. place'[q] = v
        BY <2>1
      <3> QED BY <2>1, <3>1 DEF StateOf
    <2>2. CASE q # r
      <3>1. place'[q] = place[q]
        BY <2>2
      <3> QED BY <2>2, <3>1 DEF StateOf
    <2> QED BY <2>1, <2>2
  <1> QED BY <1>1 DEF StateOf

\* A token is taken of the bucket of the address, or of a client of none.
LEMMA AllowMaps ==
    ASSUME LInv, NEW r \in Calls, Allow(r)
    PROVE  Buckets!Decide(r) \/ Buckets!DecideApart(r)
  <1> USE RateLimiterAssumption DEF LInv, LimiterTypeOK, Steps, Allow
  <1>1. held[r] \in Calls /\ from[r] \in Addresses
    BY DEF HeldIff, FromKnown
  <1>2. StateOf[r] = "counted"
    BY DEF StateOf
  <1>3. Apart' = Apart \ {r}
    BY DEF Apart
  <1>4. UNCHANGED <<now, SeenOf, from>>
    BY DEF SeenOf
  <1>5. \E v \in {"allowed", "refused"} :
            StateOf' = [StateOf EXCEPT ![r] = v]
    BY Answered
  <1>6. CASE r \in Apart
    <2>1. TokensOf' = TokensOf
      BY <1>1, <1>6 DEF Apart, TokensOf, ClientsMade, HeldMade
    <2> QED BY <1>2, <1>3, <1>4, <1>5, <1>6, <2>1 DEF Buckets!DecideApart
  <1>7. CASE r \notin Apart
    <2>1. clients[from[r]] = held[r] /\ TokensOf[from[r]] = bucket[held[r]]
      BY <1>1, <1>7 DEF Apart, TokensOf, HeldIff
    <2>2. CASE bucket[held[r]] > 0
      <3>1. TokensOf' = [TokensOf EXCEPT ![from[r]] = @ - 1]
        <4>1. \A a \in Addresses : clients[a] = held[r] => a = from[r]
          BY <1>1, <2>1 DEF ClientsMade
        <4>2. \A a \in Addresses :
                  TokensOf'[a] = IF a = from[r] THEN TokensOf[a] - 1
                                 ELSE TokensOf[a]
          BY <1>1, <2>1, <2>2, <4>1 DEF TokensOf
        <4> QED BY <4>2 DEF TokensOf
      <3>2. StateOf' = [StateOf EXCEPT ![r] = "allowed"]
        BY <2>2, Answered
      <3> QED BY <1>2, <1>3, <1>4, <1>7, <2>1, <2>2, <3>1, <3>2
              DEF Buckets!Decide
    <2>3. CASE bucket[held[r]] = 0
      <3>1. TokensOf' = TokensOf
        BY <2>3 DEF TokensOf
      <3>2. StateOf' = [StateOf EXCEPT ![r] = "refused"]
        BY <2>3, Answered
      <3> QED BY <1>2, <1>3, <1>4, <1>7, <2>1, <2>3, <3>1, <3>2
              DEF Buckets!Decide
    <2> QED BY <1>1, <2>2, <2>3
  <1> QED BY <1>6, <1>7

\* The buckets of the stale clients are renewed; the requests that hold them
\* are decided apart.
LEMMA CleanupMaps ==
    ASSUME LInv, cleanupStaleClients
    PROVE  \E A \in SUBSET Addresses : Buckets!Renew(A)
  <1> USE RateLimiterAssumption DEF LInv, LimiterTypeOK, cleanupStaleClients
  <1> DEFINE A == {a \in Addresses : Stale(a)}
             W == {r \in Calls : place[r] = "touch" /\ from[r] \in A}
  <1>1. \A a \in A : SeenOf[a] # Absent /\ now > SeenOf[a] + Interval
    BY DEF SeenOf, Stale
  <1>2. /\ TokensOf' = [a \in Addresses |-> IF a \in A THEN Burst
                                           ELSE TokensOf[a]]
        /\ SeenOf' = [a \in Addresses |-> IF a \in A THEN Absent
                                         ELSE SeenOf[a]]
    BY DEF TokensOf, SeenOf
  <1>3. W \in SUBSET {r \in Calls : StateOf[r] = "waiting"
                                       /\ from[r] \in A}
    BY DEF StateOf
  <1>4. Apart' = Apart \union W
                     \union {r \in Calls : StateOf[r] = "counted"
                                              /\ from[r] \in A}
    <2>1. \A r \in Calls : StateOf[r] = "counted" <=> place[r] = "allow"
      BY DEF StateOf, Steps
    <2>2. \A r \in Calls :
              r \in Apart' <=> \/ r \in Apart
                               \/ place[r] \in {"touch", "allow"}
                                  /\ from[r] \in A
      BY DEF Apart, HeldIff, FromKnown
    <2> QED BY <2>1, <2>2 DEF Apart
  <1>5. UNCHANGED <<now, from, StateOf>>
    BY DEF StateOf
  <1> QED BY <1>1, <1>2, <1>3, <1>4, <1>5 DEF Buckets!Renew

\* Limiters without an address gain tokens too, and no bucket shows it.
LEMMA TickMaps ==
    ASSUME LInv, Tick
    PROVE  Buckets!Tick
  <1>1. TokensOf' = [a \in Addresses |->
                        IF TokensOf[a] + Rate > Burst THEN Burst
                        ELSE TokensOf[a] + Rate]
    BY RateLimiterAssumption DEF TokensOf, Tick, LInv, LimiterTypeOK
  <1>2. UNCHANGED <<SeenOf, from, StateOf, Apart>>
    BY DEF SeenOf, StateOf, Apart, Tick
  <1> QED BY <1>1, <1>2 DEF Buckets!Tick, Tick

\* Every step of the limiter is one of the buckets, or changes none.
LEMMA LimiterStep ==
    ASSUME LInv, [LimiterNext]_limiterVars
    PROVE  LInv' /\ [Buckets!Next]_Buckets!vars
  <1>1. CASE \E r \in Calls : Come(r)
    <2>1. PICK r \in Calls, a \in Addresses : FindClient(r, a)
      BY <1>1 DEF Come
    <2> QED BY <2>1, ComeInv, ComeMaps DEF Buckets!Next
  <1>2. CASE \E r \in Calls : Limit(r)
    <2>1. PICK r \in Calls : Limit(r)
      BY <1>2
    <2>2. CASE TouchClient(r)
      BY <2>2, TouchInv, TouchMaps DEF Buckets!Next
    <2>3. CASE CreateClient(r)
      BY <2>3, CreateInv, CreateMaps DEF Buckets!Next
    <2>4. CASE Allow(r)
      BY <2>4, AllowInv, AllowMaps DEF Buckets!Next
    <2> QED BY <2>1, <2>2, <2>3, <2>4 DEF Limit
  <1>3. CASE cleanupStaleClients
    BY <1>3, CleanupInv, CleanupMaps DEF Buckets!Next
  <1>4. CASE Tick
    BY <1>4, TickInv, TickMaps DEF Buckets!Next
  <1>5. CASE UNCHANGED limiterVars
    <2>1. LInv'
      BY <1>5 DEF limiterVars, LInv, LimiterTypeOK, HeldIff, FromKnown,
                  ClientsMade, HeldMade
    <2>2. UNCHANGED Buckets!vars
      BY <1>5 DEF limiterVars, Buckets!vars, TokensOf, SeenOf, StateOf, Apart
    <2> QED BY <2>1, <2>2
  <1> QED BY <1>1, <1>2, <1>3, <1>4, <1>5 DEF LimiterNext

\* The buckets are full at the start.
LEMMA LimiterInitMaps == LimiterInit => Buckets!Init
  BY RateLimiterAssumption
     DEF LimiterInit, Buckets!Init, TokensOf, SeenOf, StateOf, Apart

\* The rest of the process leaves the map alone.
LEMMA ServerLimits ==
    ASSUME [ServerNext]_serverVars
    PROVE  [LimiterNext]_limiterVars
  BY DEF ServerNext, serverVars, Arrive, LimitRequest, LookUp, Elapse, End,
         Signal, ListenerFails, Shutdown, ShutdownTimesOut, LimiterNext

\* Calls of an address that race with one another and with the clean-up share
\* one bucket of tokens, renewed only after an interval without a request.
THEOREM LimiterImplements == ServerSpec => ImplementsBuckets
  <1>1. ServerInit => LInv /\ Buckets!Init
    BY LimiterInitInv, LimiterInitMaps DEF ServerInit
  <1>2. LInv /\ [ServerNext]_serverVars => LInv' /\ [Buckets!Next]_Buckets!vars
    BY ServerLimits, LimiterStep
  <1> QED BY <1>1, <1>2, PTL DEF ServerSpec, ImplementsBuckets, Buckets!Spec

-----------------------------------------------------------------------------
(* The lookups.                                                            *)

\* What was sent was sent once, by a goroutine that has ended.
Sent(l, q) ==
    /\ q \in received[l] => /\ goroutine[l][q] = "ended"
                            /\ asked[l] \in Stored
                            /\ <<q, "row">> \notin channel[l]
                            /\ <<q, "error">> \notin channel[l]
    /\ <<q, "row">> \in channel[l] => /\ goroutine[l][q] = "ended"
                                      /\ asked[l] \in Stored
                                      /\ <<q, "error">> \notin channel[l]
    /\ <<q, "error">> \in channel[l] => goroutine[l][q] = "ended"
    /\ goroutine[l][q] = "row" => asked[l] \in Stored

\* A lookup answers once it has received both rows, and not before.
ClosedWhole ==
    \A l \in Lookups :
        /\ at[l] = "ok" <=> received[l] = Queries
        /\ at[l] = "idle" => /\ channel[l] = {} /\ received[l] = {}
                             /\ \A q \in Queries : goroutine[l][q] = "none"
        /\ \A q \in Queries : Sent(l, q)

\* A panic comes after a failure.
PanicHadFailure ==
    panicked => \E l \in Lookups : at[l] = "failed"

DInv == DetailsTypeOK /\ ClosedWhole /\ PanicHadFailure

\* Nothing is sent at the start.
LEMMA DetailsInitInv == DetailsInit => DInv
  <1> SUFFICES ASSUME DetailsInit PROVE DInv
    OBVIOUS
  <1>1. DetailsTypeOK
    BY OrderDetailsAssumption DEF DetailsInit, DetailsTypeOK
  <1>2. {} # Queries
    BY DEF Queries
  <1>3. ClosedWhole
    BY <1>2 DEF DetailsInit, ClosedWhole, Sent
  <1> QED BY <1>1, <1>3 DEF DInv, PanicHadFailure, DetailsInit

\* Calls and their goroutines keep the invariant.
LEMMA DetailsStep ==
    ASSUME DInv, [DetailsNext]_detailsVars
    PROVE  DInv'
  <1> USE DEF DInv, DetailsTypeOK
  <1>1. CASE \E l \in Lookups : GetOrder(l)
    <2>1. PICK l \in Lookups : GetOrder(l)
      BY <1>1
    <2> USE <2>1 DEF GetOrder
    <2>2. DetailsTypeOK'
      OBVIOUS
    <2>3. ClosedWhole'
      BY DEF ClosedWhole, Sent, Queries
    <2>4. PanicHadFailure'
      BY DEF PanicHadFailure
    <2> QED BY <2>2, <2>3, <2>4
  <1>2. CASE \E l \in Lookups, q \in Queries : QueryReturns(l, q)
    <2>1. PICK l \in Lookups, q \in Queries : QueryReturns(l, q)
      BY <1>2
    <2> USE DEF QueryReturns
    <2>2. /\ goroutine' \in [Lookups -> [Queries -> {"none", "querying",
                                              "row", "error", "ended"}]]
          /\ \A m \in Lookups, p \in Queries :
                 \/ goroutine'[m][p] = goroutine[m][p]
                 \/ /\ m = l /\ p = q
                    /\ \/ goroutine'[m][p] = "error"
                       \/ goroutine'[m][p] = "row" /\ asked[m] \in Stored
      <3>1. PICK g \in {"row", "error"} :
                /\ goroutine' = [goroutine EXCEPT ![l][q] = g]
                /\ g = "row" => asked[l] \in Stored
        BY <2>1
      <3>2. goroutine[l] \in [Queries -> {"none", "querying", "row",
                                          "error", "ended"}]
        OBVIOUS
      <3>3. [goroutine[l] EXCEPT ![q] = g] \in
                [Queries -> {"none", "querying", "row", "error", "ended"}]
        BY <3>2
      <3> QED BY <3>1, <3>3
    <2>3. UNCHANGED <<at, asked, channel, received, panicked>>
          /\ goroutine[l][q] = "querying"
      BY <2>1
    <2>4. ClosedWhole'
      BY <2>2, <2>3 DEF ClosedWhole, Sent
    <2> QED BY <2>2, <2>3, <2>4 DEF PanicHadFailure
  <1>3. CASE \E l \in Lookups, q \in Queries : Send(l, q)
    <2>1. PICK l \in Lookups, q \in Queries : Send(l, q)
      BY <1>3
    <2> USE DEF Send
    <2>2. /\ goroutine' \in [Lookups -> [Queries -> {"none", "querying",
                                              "row", "error", "ended"}]]
          /\ \A m \in Lookups, p \in Queries :
                 goroutine'[m][p] = IF m = l /\ p = q THEN "ended"
                                    ELSE goroutine[m][p]
      <3>1. [goroutine[l] EXCEPT ![q] = "ended"] \in
                [Queries -> {"none", "querying", "row", "error", "ended"}]
        OBVIOUS
      <3> QED BY <2>1, <3>1
    <2>3. goroutine[l][q] \in {"row", "error"}
          /\ UNCHANGED <<at, asked, received>>
      BY <2>1
    <2>4. CASE Closed(l)
      <3>1. panicked' = TRUE /\ channel' = channel
        BY <2>1, <2>4
      <3>2. at[l] = "failed"
        <4>1. at[l] # "ok"
          <5> SUFFICES ASSUME at[l] = "ok" PROVE FALSE
            OBVIOUS
          <5>1. q \in received[l] /\ Sent(l, q)
            BY DEF ClosedWhole
          <5> QED BY <2>3, <5>1 DEF Sent
        <4> QED BY <2>4, <4>1 DEF Closed
      <3>3. ClosedWhole'
        BY <2>2, <2>3, <3>1 DEF ClosedWhole, Sent
      <3>4. PanicHadFailure'
        BY <2>3, <3>2 DEF PanicHadFailure
      <3> QED BY <2>2, <2>3, <3>1, <3>3, <3>4
    <2>5. CASE ~Closed(l)
      <3>1. /\ channel' = [channel EXCEPT ![l] =
                              @ \union {<<q, goroutine[l][q]>>}]
            /\ panicked' = panicked
        BY <2>1, <2>5
      <3>2. <<q, goroutine[l][q]>> \in Messages
        BY <2>3 DEF Messages
      <3>3. channel' \in [Lookups -> SUBSET Messages]
        BY <3>1, <3>2
      <3>4. ClosedWhole'
        <4>1. \A m \in Lookups : (at[m] = "ok" <=> received[m] = Queries)'
          BY <2>3 DEF ClosedWhole
        <4>2. \A m \in Lookups :
                  (at[m] = "idle" =>
                       /\ channel[m] = {} /\ received[m] = {}
                       /\ \A p \in Queries : goroutine[m][p] = "none")'
          BY <2>2, <2>3, <3>1 DEF ClosedWhole
        <4>3. ASSUME NEW m \in Lookups, NEW p \in Queries
              PROVE  Sent(m, p)'
          <5>1. Sent(m, p)
            BY DEF ClosedWhole
          <5>2. CASE m = l /\ p = q
            BY <2>2, <2>3, <3>1, <5>1, <5>2 DEF Sent
          <5>3. CASE ~(m = l /\ p = q)
            <6>1. goroutine'[m][p] = goroutine[m][p]
              BY <2>2, <5>3
            <6>2. /\ <<p, "row">> \in channel'[m] <=>
                         <<p, "row">> \in channel[m]
                  /\ <<p, "error">> \in channel'[m] <=>
                         <<p, "error">> \in channel[m]
              BY <3>1, <5>3
            <6> QED BY <2>3, <5>1, <6>1, <6>2 DEF Sent
          <5> QED BY <5>2, <5>3
        <4> QED BY <4>1, <4>2, <4>3 DEF ClosedWhole
      <3>5. PanicHadFailure'
        BY <2>3, <3>1 DEF PanicHadFailure
      <3> QED BY <2>2, <2>3, <3>1, <3>3, <3>4, <3>5
    <2> QED BY <2>4, <2>5
  <1>4. CASE \E l \in Lookups, q \in Queries : ReceiveRow(l, q)
    <2>1. PICK l \in Lookups, q \in Queries : ReceiveRow(l, q)
      BY <1>4
    <2> USE <2>1 DEF ReceiveRow
    <2>2. DetailsTypeOK'
      OBVIOUS
    <2>3. ClosedWhole'
      <3>1. \A m \in Lookups :
                /\ (at[m] = "ok" <=> received[m] = Queries)'
                /\ (at[m] = "idle" =>
                        /\ channel[m] = {} /\ received[m] = {}
                        /\ \A p \in Queries : goroutine[m][p] = "none")'
        BY DEF ClosedWhole
      <3>2. ASSUME NEW m \in Lookups, NEW p \in Queries
            PROVE  Sent(m, p)'
        <4>1. Sent(m, p)
          BY DEF ClosedWhole
        <4>2. CASE m = l /\ p = q
          <5>1. /\ <<p, "row">> \notin channel'[m]
                /\ <<p, "error">> \notin channel'[m]
            BY <4>1, <4>2 DEF Sent
          <5> QED BY <4>1, <4>2, <5>1 DEF Sent
        <4>3. CASE ~(m = l /\ p = q)
          <5>1. /\ <<p, "row">> \in channel'[m] <=>
                       <<p, "row">> \in channel[m]
                /\ <<p, "error">> \in channel'[m] <=>
                       <<p, "error">> \in channel[m]
            BY <4>3
          <5>2. p \in received'[m] <=> p \in received[m]
            BY <4>3
          <5> QED BY <4>1, <5>1, <5>2 DEF Sent
        <4> QED BY <4>2, <4>3
      <3> QED BY <3>1, <3>2 DEF ClosedWhole
    <2>4. PanicHadFailure'
      BY DEF PanicHadFailure
    <2> QED BY <2>2, <2>3, <2>4
  <1>5. CASE \E l \in Lookups, q \in Queries : ReceiveError(l, q)
    <2>1. PICK l \in Lookups, q \in Queries : ReceiveError(l, q)
      BY <1>5
    <2> USE <2>1 DEF ReceiveError
    <2>2. DetailsTypeOK'
      OBVIOUS
    <2>3. ClosedWhole'
      BY DEF ClosedWhole, Sent, Queries
    <2>4. PanicHadFailure'
      BY DEF PanicHadFailure
    <2> QED BY <2>2, <2>3, <2>4
  <1>6. CASE \E l \in Lookups : ContextDone(l)
    <2>1. PICK l \in Lookups : ContextDone(l)
      BY <1>6
    <2> USE <2>1 DEF ContextDone
    <2>2. DetailsTypeOK'
      OBVIOUS
    <2>3. ClosedWhole'
      BY DEF ClosedWhole, Sent, Queries
    <2>4. PanicHadFailure'
      BY DEF PanicHadFailure
    <2> QED BY <2>2, <2>3, <2>4
  <1>7. CASE UNCHANGED detailsVars
    BY <1>7 DEF detailsVars, ClosedWhole, PanicHadFailure, Sent
  <1> QED BY <1>1, <1>2, <1>3, <1>4, <1>5, <1>6, <1>7
          DEF DetailsNext, Look

\* The rest of the process leaves the lookups alone.
LEMMA ServerLooksUp ==
    ASSUME [ServerNext]_serverVars
    PROVE  [DetailsNext]_detailsVars
  BY DEF ServerNext, serverVars, Arrive, LimitRequest, LookUp, Elapse, End,
         Signal, ListenerFails, Shutdown, ShutdownTimesOut, DetailsNext

\* A goroutine sends on a closed channel only where its request had failed; an
\* order that is shown has both its goroutines behind it.
THEOREM PanicsFollowFailures == ServerSpec => []PanicsOnlyAfterFailure
  <1>1. ServerInit => DInv
    BY DetailsInitInv DEF ServerInit
  <1>2. DInv /\ [ServerNext]_serverVars => DInv'
    BY ServerLooksUp, DetailsStep
  <1>3. DInv => PanicsOnlyAfterFailure
    BY DEF DInv, ClosedWhole, PanicHadFailure, Sent, Queries,
           PanicsOnlyAfterFailure
  <1> QED BY <1>1, <1>2, <1>3, PTL DEF ServerSpec
=============================================================================
