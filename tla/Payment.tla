------------------------------ MODULE Payment ------------------------------
(***************************************************************************)
(* Payment of an order with M-Pesa: internal/services/payment_service.go,  *)
(* internal/repository/payment_repository.go and the table order_payments. *)
(*                                                                         *)
(* A request reads the payment of its order, has M-Pesa prompt the         *)
(* customer's phone, and stores the CheckoutRequestID that M-Pesa answered.*)
(* The outcome comes later, in a callback that names that id; callback and *)
(* request run side by side, and M-Pesa may send a callback again.         *)
(*                                                                         *)
(* Amounts count half shillings, the least unit in which the whole         *)
(* shillings that M-Pesa is asked for differ from the amount of the row.   *)
(***************************************************************************)
EXTENDS Naturals

CONSTANTS
    Orders,
    Rows,       \* the order_payments rows that may be inserted
    Checkouts,  \* the CheckoutRequestIDs that M-Pesa may give out
    Requests,   \* the POST /api/orders/pay handled at one time
    Dues,       \* the amounts with which payments are created
    None

\* fmt.Sprintf("%.0f"): to the nearest shilling, a half to the even one.
Whole(amount) ==
    LET shillings == amount \div 2
    IN  CASE amount % 2 = 0    -> amount
          [] shillings % 2 = 0 -> 2 * shillings
          [] OTHER             -> 2 * (shillings + 1)

ASSUME PaymentAssumption ==
    /\ Dues \subseteq Nat
    /\ None \notin Orders \union Checkouts

VARIABLES
    payment,    \* payment[w]: the row w, with order None while not inserted
    prompt,     \* prompt[c]: what M-Pesa does with checkout c
    callbacks,  \* checkouts whose callback M-Pesa may still deliver
    pc,         \* pc[r]: the step that request r takes next
    order,      \* order[r]: the order it pays
    amount,     \* amount[r]: the amount it read
    checkout    \* checkout[r]: the id M-Pesa answered

vars == <<payment, prompt, callbacks, pc, order, amount, checkout>>
requestVars == <<pc, order, amount, checkout>>

Amounts == {0} \union Dues \union {Whole(a) : a \in Dues}
Payments == [order : Orders \union {None}, amount : Amounts,
             status : {"unset", "paid", "failed"},
             checkout : Checkouts \union {None}]
Prompts == [order : Orders \union {None}, amount : Amounts,
            state : {"unused", "asked", "paid", "declined"}]

Resting == {"idle", "ok", "failed"}

Init ==
    /\ payment = [w \in Rows |-> [order |-> None, amount |-> 0,
                                  status |-> "unset", checkout |-> None]]
    /\ prompt = [c \in Checkouts |-> [order |-> None, amount |-> 0,
                                      state |-> "unused"]]
    /\ callbacks = {}
    /\ pc = [r \in Requests |-> "idle"]
    /\ order = [r \in Requests |-> None]
    /\ amount = [r \in Requests |-> 0]
    /\ checkout = [r \in Requests |-> None]

Goto(r, step) == pc' = [pc EXCEPT ![r] = step]
Move(r, from, to) == pc[r] = from /\ Goto(r, to)

-----------------------------------------------------------------------------
(* PaymentService.                                                         *)

\* CreatePayment: a row with no status and no checkout.  The table accepts
\* several rows for one order.
CreatePayment(w, o, due) ==
    /\ payment[w].order = None
    /\ payment' = [payment EXCEPT ![w] = [order |-> o, amount |-> due,
                                          status |-> "unset",
                                          checkout |-> None]]
    /\ UNCHANGED <<prompt, callbacks, requestVars>>

\* PayOrderWithMpesa looks at neither the status of the payment nor that of
\* the order, so that an order may be paid for again.
PayOrderWithMpesa(r, o) ==
    /\ pc[r] \in Resting
    /\ Goto(r, "get")
    /\ order' = [order EXCEPT ![r] = o]
    /\ checkout' = [checkout EXCEPT ![r] = None]
    /\ UNCHANGED <<payment, prompt, callbacks, amount>>

\* Of several rows the SELECT returns any one.
GetPaymentByOrderID(r) ==
    /\ pc[r] = "get"
    /\ \/ /\ \A w \in Rows : payment[w].order # order[r]
          /\ Goto(r, "failed")
          /\ UNCHANGED amount
       \/ \E w \in Rows :
             /\ payment[w].order = order[r]
             /\ amount' = [amount EXCEPT ![r] = payment[w].amount]
             /\ Goto(r, "initiate")
    /\ UNCHANGED <<payment, prompt, callbacks, order, checkout>>

\* M-Pesa takes the request, and its answer arrives or is lost; or it refuses.
InitiateMpesaPayment(r) ==
    /\ pc[r] = "initiate"
    /\ \/ \E c \in Checkouts :
             /\ prompt[c].state = "unused"
             /\ Whole(amount[r]) > 0
             /\ prompt' = [prompt EXCEPT ![c] =
                              [order |-> order[r], amount |-> Whole(amount[r]),
                               state |-> "asked"]]
             /\ \/ /\ Goto(r, "store")
                   /\ checkout' = [checkout EXCEPT ![r] = c]
                \/ /\ Goto(r, "failed")
                   /\ UNCHANGED checkout
       \/ /\ Goto(r, "failed")
          /\ UNCHANGED <<prompt, checkout>>
    /\ UNCHANGED <<payment, callbacks, order, amount>>

\* Mutant: the id goes to every payment that has none.
StoreWhereNone(r) ==
    /\ pc[r] = "store"
    /\ payment' = [w \in Rows |->
                      IF payment[w].checkout = None /\ payment[w].order # None
                      THEN [payment[w] EXCEPT !.checkout = checkout[r]]
                      ELSE payment[w]]
    /\ Goto(r, "ok")
    /\ UNCHANGED <<prompt, callbacks, order, amount, checkout>>

\* Every row of the order takes the id, whatever id it had.
UpdateCheckoutRequestID(r) ==
    /\ pc[r] = "store"
    /\ payment' = [w \in Rows |->
                      IF payment[w].order = order[r]
                      THEN [payment[w] EXCEPT !.checkout = checkout[r]]
                      ELSE payment[w]]
    /\ Goto(r, "ok")
    /\ UNCHANGED <<prompt, callbacks, order, amount, checkout>>

\* The client goes away, and its context with it, or the statement fails: the
\* prompt is on the phone and its id is not stored.
StoreFails(r) ==
    /\ Move(r, "store", "failed")
    /\ UNCHANGED <<payment, prompt, callbacks, order, amount, checkout>>

-----------------------------------------------------------------------------
(* Callbacks.                                                              *)

\* The customer pays or declines; M-Pesa then calls back.
Answer(c) ==
    /\ prompt[c].state = "asked"
    /\ \E state \in {"paid", "declined"} :
          prompt' = [prompt EXCEPT ![c].state = state]
    /\ callbacks' = callbacks \union {c}
    /\ UNCHANGED <<payment, requestVars>>

\* Mutant: the amount collected is added to that of the row.
CalledBackAdding(p, c) ==
    IF prompt[c].state = "paid"
    THEN [p EXCEPT !.status = "paid", !.amount = @ + prompt[c].amount]
    ELSE [p EXCEPT !.status = "failed", !.amount = 0]

\* Mutant: a callback for a row that already has an outcome is a failure.
CalledBackOnce(p, c) ==
    IF prompt[c].state = "paid" /\ p.status = "unset"
    THEN [p EXCEPT !.status = "paid", !.amount = prompt[c].amount]
    ELSE [p EXCEPT !.status = "failed", !.amount = 0]

\* A declined callback carries no amount, and 0 is written.
CalledBack(p, c) ==
    IF prompt[c].state = "paid"
    THEN [p EXCEPT !.status = "paid", !.amount = prompt[c].amount]
    ELSE [p EXCEPT !.status = "failed", !.amount = 0]

\* ProcessMpesaCallback: an UPDATE of every row with the id; of no row it is
\* a success too.  M-Pesa may send the callback again.
ProcessMpesaCallback(c) ==
    /\ c \in callbacks
    /\ payment' = [w \in Rows |->
                      IF payment[w].checkout = c THEN CalledBack(payment[w], c)
                                                 ELSE payment[w]]
    /\ callbacks' \in {callbacks, callbacks \ {c}}
    /\ UNCHANGED <<prompt, requestVars>>

\* The callback is lost, or its UPDATE fails (a serialization conflict with
\* UpdateCheckoutRequestID among others) and it is not sent again.
LoseCallback(c) ==
    /\ c \in callbacks
    /\ callbacks' = callbacks \ {c}
    /\ UNCHANGED <<payment, prompt, requestVars>>

Next ==
    \/ \E w \in Rows, o \in Orders, due \in Dues : CreatePayment(w, o, due)
    \/ \E r \in Requests :
          \/ \E o \in Orders : PayOrderWithMpesa(r, o)
          \/ GetPaymentByOrderID(r)
          \/ InitiateMpesaPayment(r)
          \/ UpdateCheckoutRequestID(r)
          \/ StoreFails(r)
    \/ \E c \in Checkouts :
          \/ Answer(c)
          \/ ProcessMpesaCallback(c)
          \/ LoseCallback(c)

Spec == Init /\ [][Next]_vars

-----------------------------------------------------------------------------
(* Properties.                                                             *)

TypeOK ==
    /\ payment \in [Rows -> Payments]
    /\ prompt \in [Checkouts -> Prompts]
    /\ callbacks \subseteq Checkouts
    /\ pc \in [Requests -> Resting \union {"get", "initiate", "store"}]
    /\ order \in [Requests -> Orders \union {None}]
    /\ amount \in [Requests -> Amounts]
    /\ checkout \in [Requests -> Checkouts \union {None}]

\* What is recorded as paid was collected: for a row with status paid M-Pesa
\* took that very amount from the customer, for that very order, whatever
\* callbacks of whatever attempts came late, twice or out of order.
PaidWasCollected ==
    \A w \in Rows :
        payment[w].status = "paid" =>
            \E c \in Checkouts :
                /\ prompt[c].state = "paid"
                /\ prompt[c].order = payment[w].order
                /\ prompt[c].amount = payment[w].amount

\* A callback that comes again changes nothing: a row that is paid ceases to
\* be only when a second prompt for its order is declined.
PaidUndoneOnlyByAnotherPrompt ==
    [][\A w \in Rows :
          payment[w].status = "paid" /\ payment'[w].status # "paid" =>
              \E c, d \in Checkouts :
                  /\ prompt[c].state = "paid"
                  /\ prompt[d].state = "declined"
                  /\ {prompt[c].order, prompt[d].order} =
                        {payment[w].order}]_vars
=============================================================================
