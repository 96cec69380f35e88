------------------------------- MODULE Orders -------------------------------
(***************************************************************************)
(* Checkout and cancellation of orders: OrderHandler.CreateOrder,          *)
(* UserService.ResolveUserForOrder, OrderService.CreateOrder and the       *)
(* tables orders, order_items, guest_checkouts and companies.              *)
(*                                                                         *)
(* The order and its items are written in one transaction, the work of     *)
(* draft[r], which nobody else sees until it commits.  What the order      *)
(* refers to is written and read outside of it: the guest before it, the   *)
(* company, the exchange rate, products and discounts while it is open,    *)
(* on connections of their own.                                            *)
(*                                                                         *)
(* The handler and the service also touch the session of the request: see  *)
(* Session, whose Handlers include one of two touches.                     *)
(*                                                                         *)
(* Prices are US cents and rates hundredths of a shilling; an exact amount *)
(* counts 10^-6 shillings, in which a percentage of a price is whole, and  *)
(* a stored amount counts cents.                                           *)
(***************************************************************************)
EXTENDS Integers, Sequences, FiniteSetsExt

CONSTANTS
    Requests,   \* the POST /api/orders/checkout, each handled once
    Users,      \* customers who are signed in
    Guests,     \* customers who are not
    Pins,       \* the KRA PINs of companies
    Baskets,    \* the lists of items ordered
    Price,      \* Price[p]: the price of a product that exists
    Discount,   \* Discount[p]: the percentage of its active discount, or 0
    Rates,      \* the exchange rates
    None

Bodies == [customer : Users \union Guests, pin : Pins \union {None},
           items : Baskets]

ASSUME OrdersAssumption ==
    /\ Rates \subseteq Nat
    /\ DOMAIN Discount = DOMAIN Price
    /\ \A p \in DOMAIN Price : Price[p] \in Nat /\ Discount[p] \in Nat
    /\ \A b \in Baskets :
          b \in Seq([product : STRING, quantity : Int]) /\ b # <<>>
    /\ None \notin Users \union Guests \union Pins

VARIABLES
    rate,       \* the exchange rate in force
    guests,     \* the names in guest_checkouts
    companies,  \* the PINs in companies
    orders,     \* orders[r]: the order that r committed, or None
    pc,         \* pc[r]: the step that request r takes next
    body,       \* body[r]: what it asks for
    draft       \* draft[r]: the rows of its transaction

vars == <<rate, guests, companies, orders, pc, body, draft>>
tables == <<rate, guests, companies, orders>>

NoAmounts == [subtotal |-> 0, discount |-> 0, vat |-> 0, grand |-> 0]
NoDraft == [owner |-> None, pin |-> None, rate |-> 0, lines |-> <<>>,
            amounts |-> NoAmounts, status |-> "pending"]

Init ==
    /\ rate \in Rates
    /\ guests = {}
    /\ companies = {}
    /\ orders = [r \in Requests |-> None]
    /\ pc = [r \in Requests |-> "idle"]
    /\ body \in [Requests -> Bodies]
    /\ draft = [r \in Requests |-> NoDraft]

Goto(r, step) == pc' = [pc EXCEPT ![r] = step]
Move(r, from, to) == pc[r] = from /\ Goto(r, to)

-----------------------------------------------------------------------------
(* Amounts.                                                                *)

\* The multiples of unit nearest to x: two of a tie, which the binary
\* approximation of x decides.
Nearest(x, unit) ==
    {(x + unit \div 2) \div unit, (x + unit \div 2 - 1) \div unit}

\* fmt.Sprintf("%.2f"), in cents.
Cents(x) == Nearest(x, 10000)

Unit(item, rt) == 100 * Price[item.product] * rt
Gross(item, rt) == Unit(item, rt) * item.quantity
Off(item, rt) == Price[item.product] * rt * item.quantity
                 * Discount[item.product]
Net(item, rt) == IF Gross(item, rt) < Off(item, rt)
                 THEN 0 ELSE Gross(item, rt) - Off(item, rt)

\* The rows of order_items that an item may become: the three amounts are
\* rounded one by one, and the total of a single undiscounted item is computed
\* and printed as its price is.
Lines(item, rt) ==
    {line \in [product : {item.product}, quantity : {item.quantity},
               unit : Cents(Unit(item, rt)), discount : Cents(Off(item, rt)),
               total : Cents(Net(item, rt))] :
        item.quantity = 1 /\ Off(item, rt) = 0 => line.total = line.unit}

\* Mutant: the CHECK of before there were discounts.
MeetsOldCheck(line) == line.total = line.quantity * line.unit

\* CHECK check_total_price.
MeetsCheck(line) == line.total = line.quantity * line.unit - line.discount

\* Every product exists.
Sold(items) == \A n \in DOMAIN items : items[n].product \in DOMAIN Price

Sum(f) == MapThenSumSet(LAMBDA n : f[n], DOMAIN f)

\* RoundPrice, in cents: to tens of shillings below 100 and to hundreds above.
RoundPrice(x) ==
    IF x < 100000000 THEN {1000 * n : n \in Nearest(x, 10000000)}
                     ELSE {10000 * n : n \in Nearest(x, 100000000)}

\* UpdateOrderAmounts: VAT is 16 percent of the net subtotal, and the
\* discount is subtracted from the total.
AmountsOf(items, rt) ==
    {[subtotal |-> s, discount |-> d, vat |-> (16 * s) \div 100,
      grand |-> s + (16 * s) \div 100 - d] :
        s \in RoundPrice(Sum([n \in DOMAIN items |-> Net(items[n], rt)])),
        d \in Cents(Sum([n \in DOMAIN items |-> Off(items[n], rt)]))}

-----------------------------------------------------------------------------
(* Checkout: the customer.                                                 *)

\* The handler accepts the body.  It hands ResolveUserForOrder neither the
\* e-mail address nor the wish for an account: of a guest no account is found
\* and none is created.
CreateOrder(r) ==
    /\ pc[r] = "idle"
    /\ IF body[r].customer \in Users
       THEN /\ draft' = [draft EXCEPT ![r].owner = body[r].customer]
            /\ Goto(r, "begin")
       ELSE /\ Goto(r, "guest")
            /\ UNCHANGED draft
    /\ UNCHANGED <<tables, body>>

\* CreateGuestUser looks for the guest of the empty e-mail address: the row of
\* any guest will do.
GetGuestCheckoutByEmail(r) ==
    /\ pc[r] = "guest"
    /\ \/ /\ guests = {}
          /\ Goto(r, "new guest")
          /\ UNCHANGED draft
       \/ \E g \in guests :
             /\ draft' = [draft EXCEPT ![r].owner = g]
             /\ Goto(r, "begin")
    /\ UNCHANGED <<tables, body>>

CreateGuestCheckout(r) ==
    /\ Move(r, "new guest", "begin")
    /\ guests' = guests \union {body[r].customer}
    /\ draft' = [draft EXCEPT ![r].owner = body[r].customer]
    /\ UNCHANGED <<rate, companies, orders, body>>

-----------------------------------------------------------------------------
(* Checkout: the transaction.                                              *)

\* Mutant: a company is looked for and created where none was named.
BeginWithCompany(r) ==
    /\ Move(r, "begin", "company")
    /\ UNCHANGED <<tables, body, draft>>

\* The ids in the items parse, and the transaction begins.
BeginTx(r) ==
    /\ Move(r, "begin", IF body[r].pin = None THEN "order" ELSE "company")
    /\ UNCHANGED <<tables, body, draft>>

\* createOrderRecord: GetCompanyID and, where there is none, CreateCompany,
\* which commits by itself.  A PIN that came to be used in between fails it,
\* and the error of its commit is lost: then the order will refer to no
\* company, and its foreign key fails.
GetCompanyID(r) ==
    /\ Move(r, "company", IF body[r].pin \in companies THEN "order"
                                                      ELSE "new company")
    /\ draft' = [draft EXCEPT ![r].pin = body[r].pin]
    /\ UNCHANGED <<tables, body>>

CreateCompany(r) ==
    /\ pc[r] = "new company"
    /\ body[r].pin \notin companies
    /\ \/ /\ companies' = companies \union {body[r].pin}
          /\ Goto(r, "order")
       \/ /\ Goto(r, "lost company")
          /\ UNCHANGED companies
    /\ UNCHANGED <<rate, guests, orders, body, draft>>

\* Mutant: the order is inserted on the pool, as its company is.
InsertOnPool(r) ==
    /\ Move(r, "order", "rate")
    /\ orders' = [orders EXCEPT ![r] = draft[r]]
    /\ UNCHANGED <<rate, guests, companies, body, draft>>

\* The guest or user and the company are there, and the foreign keys hold.
InsertOrder(r) ==
    /\ Move(r, "order", "rate")
    /\ UNCHANGED <<tables, body, draft>>

GetLatestExchangeRate(r) ==
    /\ Move(r, "rate", "items")
    /\ draft' = [draft EXCEPT ![r].rate = rate]
    /\ UNCHANGED <<tables, body>>

\* processOrderItems: every product exists, and the rows meet the CHECK or
\* fail it and with it the transaction.
ProcessOrderItems(r) ==
    LET items == body[r].items
    IN  /\ pc[r] = "items"
        /\ Sold(items)
        /\ \E lines \in [DOMAIN items -> UNION {Lines(items[n], draft[r].rate) :
                                                   n \in DOMAIN items}] :
              /\ \A n \in DOMAIN items :
                    lines[n] \in Lines(items[n], draft[r].rate)
              /\ IF \A n \in DOMAIN items : MeetsCheck(lines[n])
                 THEN /\ draft' = [draft EXCEPT ![r].lines = lines]
                      /\ Goto(r, "amounts")
                 ELSE /\ Goto(r, "refused")
                      /\ UNCHANGED draft
        /\ UNCHANGED <<tables, body>>

UpdateOrderAmounts(r) ==
    /\ Move(r, "amounts", "commit")
    /\ \E a \in AmountsOf(body[r].items, draft[r].rate) :
          draft' = [draft EXCEPT ![r].amounts = a]
    /\ UNCHANGED <<tables, body>>

\* Mutant: the error of the commit is returned.
CommitReturned(r) ==
    /\ pc[r] = "commit"
    /\ orders' \in {orders, [orders EXCEPT ![r] = draft[r]]}
    /\ pc' \in {[pc EXCEPT ![r] = "created"], [pc EXCEPT ![r] = "failed"]}
    /\ UNCHANGED <<rate, guests, companies, body, draft>>

\* ExecTx assigns the error of the commit to a variable that is not a result:
\* the order is reported as created whether it is committed or not.
Commit(r) ==
    /\ Move(r, "commit", "created")
    /\ orders' \in {orders, [orders EXCEPT ![r] = draft[r]]}
    /\ UNCHANGED <<rate, guests, companies, body, draft>>

\* The goroutine that mails the order has run.
SendOrderNotification(r) ==
    /\ Move(r, "created", "mailed")
    /\ UNCHANGED <<tables, body, draft>>

-----------------------------------------------------------------------------
(* Failures.                                                               *)

Working == {"guest", "new guest", "begin", "company", "new company",
            "lost company", "order", "rate", "items", "amounts", "commit"}

\* A statement fails, a product or a row that is referred to does not exist,
\* or the client went away and its context was cancelled: the transaction is
\* rolled back and an error answered.
Fail(r) ==
    /\ pc[r] \in Working \ {"commit"}
    /\ Goto(r, "failed")
    /\ UNCHANGED <<tables, body, draft>>

\* The process ends, and with it what the request had not committed and the
\* mail it had not sent.
Crash(r) ==
    /\ pc[r] \in Working \union {"created"}
    /\ Goto(r, "gone")
    /\ UNCHANGED <<tables, body, draft>>

-----------------------------------------------------------------------------
(* Other requests.                                                         *)

\* Of any order, whatever its status; its commit may be lost too.
CancelOrder(r) ==
    /\ orders[r] # None
    /\ orders' = [orders EXCEPT ![r].status = "cancelled"]
    /\ UNCHANGED <<rate, guests, companies, pc, body, draft>>

\* Another rate comes into force: by the administrator's request, or because
\* the validity of the last one ended (GetLatestExchangeRate then answers 135).
UpdateExchangeRate ==
    /\ rate' \in Rates
    /\ UNCHANGED <<guests, companies, orders, pc, body, draft>>

Checkout(r) ==
    \/ CreateOrder(r)
    \/ GetGuestCheckoutByEmail(r)
    \/ CreateGuestCheckout(r)
    \/ BeginTx(r)
    \/ GetCompanyID(r)
    \/ CreateCompany(r)
    \/ InsertOrder(r)
    \/ GetLatestExchangeRate(r)
    \/ ProcessOrderItems(r)
    \/ UpdateOrderAmounts(r)
    \/ Commit(r)
    \/ SendOrderNotification(r)
    \/ Fail(r)
    \/ Crash(r)

Next ==
    \/ \E r \in Requests : Checkout(r) \/ CancelOrder(r)
    \/ UpdateExchangeRate

Spec == Init /\ [][Next]_vars

-----------------------------------------------------------------------------
(* Properties.                                                             *)

Line == [product : STRING, quantity : Int, unit : Int, discount : Int,
         total : Int]
Amounts == {NoAmounts} \union
           UNION {AmountsOf(b, rt) : b \in {c \in Baskets : Sold(c)},
                                     rt \in Rates}
Order == [owner : Users \union Guests \union {None}, pin : Pins \union {None},
          rate : Rates \union {0}, lines : Seq(Line),
          amounts : Amounts, status : {"pending", "cancelled"}]

TypeOK ==
    /\ rate \in Rates
    /\ guests \subseteq Guests
    /\ companies \subseteq Pins
    /\ orders \in [Requests -> Order \union {None}]
    /\ pc \in [Requests -> Working \union {"idle", "created", "mailed",
                                           "failed", "refused", "gone"}]
    /\ body \in [Requests -> Bodies]
    /\ draft \in [Requests -> Order]

\* An order that can be seen is whole: its owner and company exist, every item
\* asked for is there, and all items and the totals were computed at one rate
\* ("Fetch exchange rate once", order_service.go:250), though rates change and
\* guests and companies are written on other connections meanwhile.
Priced(lines, items, rt) ==
    /\ DOMAIN lines = DOMAIN items
    /\ \A n \in DOMAIN items : /\ lines[n] \in Lines(items[n], rt)
                               /\ MeetsCheck(lines[n])

Whole(order, b) ==
    /\ order.owner \in Users \union guests
    /\ order.pin = b.pin
    /\ order.pin \in companies \union {None}
    /\ order.rate \in Rates
    /\ Priced(order.lines, b.items, order.rate)
    /\ order.amounts \in AmountsOf(b.items, order.rate)

StoredWhole ==
    \A r \in Requests : orders[r] # None => Whole(orders[r], body[r])

\* A customer to whom an error was answered may order again: of a request that
\* failed or was refused no order is stored, at whatever step it failed.
FailedLeavesNoOrder ==
    \A r \in Requests : pc[r] \in {"failed", "refused"} => orders[r] = None

\* The CHECK refuses an order only for a negative quantity, for a price that
\* is no whole number of cents where it is multiplied or discounted, or for a
\* discount that ends in half a cent or passes 100 percent.
Fractional(item, rt) ==
    \/ item.quantity < 0
    \/ Discount[item.product] > 100
    \/ Unit(item, rt) % 10000 # 0
          /\ (item.quantity # 1 \/ Discount[item.product] # 0)
    \/ Off(item, rt) % 10000 = 5000

RefusedOnlyForFractions ==
    \A r \in Requests :
        pc[r] = "refused" =>
            \E n \in DOMAIN body[r].items :
                Fractional(body[r].items[n], draft[r].rate)
=============================================================================
