--------------------------- MODULE PaymentProofs ---------------------------
(***************************************************************************)
(* Proofs about Payment, for any number of orders, rows, prompts and       *)
(* requests.                                                               *)
(*                                                                         *)
(* What makes a late, repeated or reordered callback harmless is that an   *)
(* id never leaves its order: M-Pesa gives an id to one prompt, and a      *)
(* request stores it with the order it was asked for.                      *)
(***************************************************************************)
EXTENDS Payment, TLAPS

\* A request under way has an order, and the id it holds is that of a prompt
\* for that order.
HeldIds ==
    \A r \in Requests :
        /\ pc[r] \notin Resting => order[r] \in Orders
        /\ pc[r] = "store" =>
              /\ checkout[r] \in Checkouts
              /\ prompt[checkout[r]].order = order[r]
              /\ prompt[checkout[r]].state # "unused"

\* The id in a row is that of a prompt for the row's order.
StoredIds ==
    \A w \in Rows :
        payment[w].checkout # None =>
            /\ prompt[payment[w].checkout].order = payment[w].order
            /\ prompt[payment[w].checkout].state # "unused"

\* A row without an order is as it was at the start.
NotInserted ==
    \A w \in Rows :
        payment[w].order = None =>
            payment[w].checkout = None /\ payment[w].status = "unset"

\* A callback is sent for a prompt that was answered.
Answered ==
    \A c \in callbacks : prompt[c].state \in {"paid", "declined"}

IInv ==
    /\ TypeOK
    /\ HeldIds
    /\ StoredIds
    /\ NotInserted
    /\ Answered
    /\ PaidWasCollected

-----------------------------------------------------------------------------
\* Rounding gives whole shillings, never half a shilling off, and leaves whole
\* shillings alone.
LEMMA WholeRounds ==
    ASSUME NEW a \in Nat
    PROVE  /\ Whole(a) \in Nat
           /\ Whole(a) % 2 = 0
           /\ a <= Whole(a) + 1 /\ Whole(a) <= a + 1
           /\ Whole(Whole(a)) = Whole(a)
  <1>1. /\ a \div 2 \in Nat
        /\ a % 2 \in {0, 1}
        /\ a = 2 * (a \div 2) + (a % 2)
    OBVIOUS
  <1>2. /\ Whole(a) \in Nat
        /\ a <= Whole(a) + 1 /\ Whole(a) <= a + 1
    BY <1>1 DEF Whole
  <1>3. Whole(a) % 2 = 0
    BY <1>1 DEF Whole
  <1> QED
    BY <1>2, <1>3 DEF Whole

\* The amounts are closed under rounding.
LEMMA AmountsType ==
    /\ Amounts \subseteq Nat
    /\ 0 \in Amounts
    /\ Dues \subseteq Amounts
    /\ \A a \in Amounts : Whole(a) \in Amounts
  <1>1. Amounts \subseteq Nat
    <2>1. \A a \in Dues : a \in Nat /\ Whole(a) \in Nat
      BY PaymentAssumption, WholeRounds
    <2> SUFFICES ASSUME NEW a \in Amounts PROVE a \in Nat
      OBVIOUS
    <2>2. a = 0 \/ a \in Dues \/ \E d \in Dues : a = Whole(d)
      BY DEF Amounts
    <2> QED
      BY <2>1, <2>2
  <1>2. ASSUME NEW a \in Amounts PROVE Whole(a) \in Amounts
    <2>1. CASE a = 0
      BY <2>1 DEF Amounts, Whole
    <2>2. CASE a \in Dues
      BY <2>2 DEF Amounts
    <2>3. CASE \E d \in Dues : a = Whole(d)
      BY <2>3, PaymentAssumption, WholeRounds DEF Amounts
    <2> QED
      BY <2>1, <2>2, <2>3 DEF Amounts
  <1> QED
    BY <1>1, <1>2 DEF Amounts

\* The invariant holds at the start.
LEMMA InitIInv == Init => IInv
  BY PaymentAssumption, AmountsType
  DEF Init, IInv, TypeOK, Payments, Prompts, Resting, HeldIds, StoredIds,
      NotInserted, Answered, PaidWasCollected

\* A step that leaves rows and prompts alone keeps what is said of them.
LEMMA RowsAlone ==
    ASSUME IInv, UNCHANGED <<payment, prompt>>
    PROVE  (StoredIds /\ NotInserted /\ PaidWasCollected)'
  BY DEF IInv, StoredIds, NotInserted, PaidWasCollected

\* A step that leaves the requests, the prompts and the callbacks alone keeps
\* what is said of the ids they hold.
LEMMA HolderAlone ==
    ASSUME IInv, UNCHANGED <<prompt, requestVars>>,
           callbacks' \subseteq callbacks
    PROVE  (HeldIds /\ Answered)'
  BY DEF IInv, HeldIds, Answered, requestVars

\* Creating a payment keeps the invariant.
LEMMA CreateKeeps ==
    ASSUME IInv, NEW w \in Rows, NEW o \in Orders, NEW due \in Dues,
           CreatePayment(w, o, due)
    PROVE  IInv'
  <1>1. [order |-> o, amount |-> due, status |-> "unset", checkout |-> None]
          \in Payments
    BY AmountsType DEF Payments
  <1>2. TypeOK'
    BY <1>1 DEF IInv, TypeOK, CreatePayment, requestVars
  <1>3. (HeldIds /\ Answered)'
    BY HolderAlone DEF CreatePayment
  <1>4. (StoredIds /\ NotInserted /\ PaidWasCollected)'
    BY <1>1, PaymentAssumption
    DEF IInv, TypeOK, CreatePayment, StoredIds, NotInserted, PaidWasCollected
  <1> QED
    BY <1>2, <1>3, <1>4 DEF IInv

\* The steps of a request up to M-Pesa's answer keep the invariant.
LEMMA RequestKeeps ==
    ASSUME IInv, NEW r \in Requests,
           \/ \E o \in Orders : PayOrderWithMpesa(r, o)
           \/ GetPaymentByOrderID(r)
           \/ StoreFails(r)
    PROVE  IInv'
  <1>1. TypeOK'
    BY DEF IInv, TypeOK, PayOrderWithMpesa, GetPaymentByOrderID, StoreFails,
           Move, Goto, Resting, Payments
  <1>2. HeldIds'
    BY DEF IInv, TypeOK, PayOrderWithMpesa, GetPaymentByOrderID, StoreFails,
           Move, Goto, Resting, HeldIds
  <1>3. UNCHANGED <<payment, prompt, callbacks>>
    BY DEF PayOrderWithMpesa, GetPaymentByOrderID, StoreFails
  <1> QED
    BY <1>1, <1>2, <1>3, RowsAlone DEF IInv, Answered

\* So does the prompt: it takes an id that no row, request or callback holds.
LEMMA PromptKeeps ==
    ASSUME IInv, NEW r \in Requests, InitiateMpesaPayment(r)
    PROVE  IInv'
  <1>1. CASE UNCHANGED <<prompt, checkout>> /\ Goto(r, "failed")
    <2>1. TypeOK' /\ HeldIds' /\ Answered'
      BY <1>1 DEF IInv, TypeOK, InitiateMpesaPayment, Goto, Resting, HeldIds,
                  Answered
    <2> QED
      BY <1>1, <2>1, RowsAlone DEF IInv, InitiateMpesaPayment
  <1>2. ASSUME NEW c \in Checkouts,
               prompt[c].state = "unused",
               prompt' = [prompt EXCEPT ![c] =
                             [order |-> order[r],
                              amount |-> Whole(amount[r]),
                              state |-> "asked"]],
               \/ /\ Goto(r, "store")
                  /\ checkout' = [checkout EXCEPT ![r] = c]
               \/ /\ Goto(r, "failed")
                  /\ UNCHANGED checkout
        PROVE  IInv'
    <2>1. UNCHANGED <<payment, callbacks, order, amount>>
      BY DEF InitiateMpesaPayment
    <2>2. [order |-> order[r], amount |-> Whole(amount[r]), state |-> "asked"]
            \in Prompts
      BY AmountsType DEF IInv, TypeOK, Prompts
    <2>3. TypeOK'
      BY <1>2, <2>1, <2>2 DEF IInv, TypeOK, Goto, Resting
    <2>4. /\ prompt'[c].order = order[r] /\ prompt'[c].state = "asked"
          /\ \A d \in Checkouts : d # c => prompt'[d] = prompt[d]
      BY <1>2 DEF IInv, TypeOK
    <2>5. HeldIds'
      BY <1>2, <2>1, <2>4
      DEF IInv, TypeOK, InitiateMpesaPayment, Goto, Resting, HeldIds
    <2>6. StoredIds'
      BY <1>2, <2>1, <2>4 DEF IInv, TypeOK, Payments, StoredIds
    <2>7. Answered'
      BY <1>2, <2>1, <2>4 DEF IInv, TypeOK, Answered
    <2>8. PaidWasCollected'
      BY <1>2, <2>1, <2>4 DEF IInv, TypeOK, PaidWasCollected
    <2>9. NotInserted'
      BY <2>1 DEF IInv, NotInserted
    <2> QED
      BY <2>3, <2>5, <2>6, <2>7, <2>8, <2>9 DEF IInv
  <1> QED
    BY <1>1, <1>2 DEF InitiateMpesaPayment

\* And so does storing the id.
LEMMA StoreKeeps ==
    ASSUME IInv, NEW r \in Requests, UpdateCheckoutRequestID(r)
    PROVE  IInv'
  <1>1. /\ checkout[r] \in Checkouts /\ checkout[r] # None
        /\ prompt[checkout[r]].order = order[r]
        /\ prompt[checkout[r]].state # "unused"
    BY PaymentAssumption DEF IInv, HeldIds, UpdateCheckoutRequestID, Resting
  <1>2. ASSUME NEW w \in Rows
        PROVE  /\ payment'[w] \in Payments
               /\ payment'[w].order = payment[w].order
               /\ payment'[w].status = payment[w].status
               /\ payment'[w].amount = payment[w].amount
               /\ payment'[w].checkout =
                    IF payment[w].order = order[r] THEN checkout[r]
                                                   ELSE payment[w].checkout
    BY <1>1 DEF IInv, TypeOK, UpdateCheckoutRequestID, Payments
  <1>3. UNCHANGED <<prompt, callbacks, order, amount, checkout>>
    BY DEF UpdateCheckoutRequestID
  <1>4. TypeOK' /\ HeldIds' /\ Answered'
    <2>1. payment' \in [Rows -> Payments]
      BY <1>2 DEF UpdateCheckoutRequestID
    <2> QED
      BY <2>1, <1>3
      DEF IInv, TypeOK, UpdateCheckoutRequestID, Goto, Resting, HeldIds,
          Answered
  <1>5. order[r] # None
    BY PaymentAssumption
    DEF IInv, HeldIds, UpdateCheckoutRequestID, Resting
  <1>6. StoredIds'
    BY <1>1, <1>2, <1>3 DEF IInv, StoredIds
  <1>7. NotInserted'
    BY <1>2, <1>5 DEF IInv, NotInserted
  <1>8. PaidWasCollected'
    BY <1>2, <1>3 DEF IInv, PaidWasCollected
  <1> QED
    BY <1>4, <1>6, <1>7, <1>8 DEF IInv

\* The customer's answer settles a prompt that had none.
LEMMA AnswerKeeps ==
    ASSUME IInv, NEW c \in Checkouts, Answer(c)
    PROVE  IInv'
  <1>1. PICK state \in {"paid", "declined"} :
            prompt' = [prompt EXCEPT ![c].state = state]
    BY DEF Answer
  <1>2. ASSUME NEW d \in Checkouts
        PROVE  /\ prompt'[d] \in Prompts
               /\ prompt'[d].order = prompt[d].order
               /\ prompt'[d].amount = prompt[d].amount
               /\ prompt'[d].state = IF d = c THEN state ELSE prompt[d].state
    BY <1>1 DEF IInv, TypeOK, Prompts
  <1>3. UNCHANGED <<payment, pc, order, amount, checkout>>
        /\ callbacks' = callbacks \union {c} /\ prompt[c].state = "asked"
    BY DEF Answer, requestVars
  <1>4. TypeOK'
    <2>1. prompt' \in [Checkouts -> Prompts]
      BY <1>1, <1>2 DEF IInv, TypeOK
    <2> QED
      BY <2>1, <1>3 DEF IInv, TypeOK
  <1>5. HeldIds'
    BY <1>2, <1>3 DEF IInv, HeldIds
  <1>6. StoredIds'
    <2>1. \A w \in Rows : payment[w].checkout # None =>
             payment[w].checkout \in Checkouts
      BY DEF IInv, TypeOK, Payments
    <2> QED
      BY <2>1, <1>2, <1>3 DEF IInv, StoredIds
  <1>7. NotInserted' /\ Answered'
    BY <1>2, <1>3 DEF IInv, TypeOK, NotInserted, Answered
  <1>8. PaidWasCollected'
    BY <1>2, <1>3 DEF IInv, PaidWasCollected
  <1> QED
    BY <1>4, <1>5, <1>6, <1>7, <1>8 DEF IInv

\* A callback writes what M-Pesa did for the order of the row.
LEMMA CallbackKeeps ==
    ASSUME IInv, NEW c \in Checkouts, ProcessMpesaCallback(c)
    PROVE  IInv'
  <1>1. c # None /\ prompt[c].amount \in Amounts
    BY PaymentAssumption DEF IInv, TypeOK, Prompts
  <1>2. ASSUME NEW w \in Rows
        PROVE  /\ payment'[w] \in Payments
               /\ payment'[w].order = payment[w].order
               /\ payment'[w].checkout = payment[w].checkout
               /\ payment[w].checkout # c => payment'[w] = payment[w]
               /\ payment[w].checkout = c =>
                     \/ /\ prompt[c].state = "paid"
                        /\ payment'[w].amount = prompt[c].amount
                     \/ payment'[w].status = "failed"
    BY <1>1, AmountsType
    DEF IInv, TypeOK, ProcessMpesaCallback, CalledBack, Payments
  <1>3. UNCHANGED <<prompt, pc, order, amount, checkout>>
        /\ callbacks' \subseteq callbacks
    BY DEF ProcessMpesaCallback, requestVars
  <1>4. TypeOK'
    <2>1. payment' \in [Rows -> Payments]
      BY <1>2 DEF ProcessMpesaCallback
    <2> QED
      BY <2>1, <1>3 DEF IInv, TypeOK
  <1>5. (HeldIds /\ Answered)'
    BY <1>3, HolderAlone DEF requestVars
  <1>6. StoredIds' /\ NotInserted'
    BY <1>1, <1>2, <1>3 DEF IInv, StoredIds, NotInserted
  <1>7. PaidWasCollected'
    <2> SUFFICES ASSUME NEW w \in Rows, payment'[w].status = "paid"
                 PROVE  \E d \in Checkouts :
                            /\ prompt[d].state = "paid"
                            /\ prompt[d].order = payment[w].order
                            /\ prompt[d].amount = payment'[w].amount
      BY <1>2, <1>3 DEF PaidWasCollected
    <2>1. CASE payment[w].checkout = c
      <3>1. prompt[c].order = payment[w].order
        BY <2>1, <1>1 DEF IInv, StoredIds
      <3> QED
        BY <2>1, <3>1, <1>2
    <2>2. CASE payment[w].checkout # c
      BY <2>2, <1>2 DEF IInv, PaidWasCollected
    <2> QED
      BY <2>1, <2>2
  <1> QED
    BY <1>4, <1>5, <1>6, <1>7 DEF IInv

\* Every step keeps the invariant.
LEMMA IInvInductive == IInv /\ [Next]_vars => IInv'
  <1> SUFFICES ASSUME IInv, [Next]_vars PROVE IInv'
    OBVIOUS
  <1>1. ASSUME NEW c \in Checkouts, LoseCallback(c) PROVE IInv'
    <2>1. TypeOK'
      BY <1>1 DEF IInv, TypeOK, LoseCallback, requestVars
    <2> QED
      BY <1>1, <2>1, RowsAlone, HolderAlone DEF IInv, LoseCallback
  <1>2. CASE UNCHANGED vars
    BY <1>2 DEF vars, IInv, TypeOK, HeldIds, StoredIds, NotInserted, Answered,
                PaidWasCollected
  <1> QED
    BY <1>1, <1>2, CreateKeeps, RequestKeeps, PromptKeeps, StoreKeeps,
       AnswerKeeps, CallbackKeeps
    DEF Next

\* The types hold of every reachable state.
THEOREM PaymentTyped == Spec => []TypeOK
  <1>1. IInv => TypeOK
    BY DEF IInv
  <1> QED
    BY <1>1, InitIInv, IInvInductive, PTL DEF Spec

\* A payment recorded as paid was collected, for its order and in its amount.
THEOREM PaidCollected == Spec => []PaidWasCollected
  <1>1. IInv => PaidWasCollected
    BY DEF IInv
  <1> QED
    BY <1>1, InitIInv, IInvInductive, PTL DEF Spec

\* A paid row ceases to be only when a second prompt for its order is declined.
THEOREM PaidUndone == Spec => PaidUndoneOnlyByAnotherPrompt
  <1> DEFINE Undone(w) ==
                 \E c, d \in Checkouts :
                     /\ prompt[c].state = "paid"
                     /\ prompt[d].state = "declined"
                     /\ {prompt[c].order, prompt[d].order} = {payment[w].order}
  <1>1. IInv /\ [Next]_vars =>
          [\A w \in Rows :
              payment[w].status = "paid" /\ payment'[w].status # "paid" =>
                  Undone(w)]_vars
    <2> SUFFICES ASSUME IInv, Next, NEW w \in Rows,
                        payment[w].status = "paid",
                        payment'[w].status # "paid"
                 PROVE  Undone(w)
      BY DEF vars
    <2>1. payment' # payment
      OBVIOUS
    <2>2. ASSUME NEW v \in Rows, NEW o \in Orders, NEW due \in Dues,
                 CreatePayment(v, o, due)
          PROVE  FALSE
      BY <2>2 DEF IInv, TypeOK, NotInserted, CreatePayment
    <2>3. ASSUME NEW r \in Requests, UpdateCheckoutRequestID(r)
          PROVE  FALSE
      BY <2>3 DEF IInv, TypeOK, Payments, UpdateCheckoutRequestID
    <2>4. ASSUME NEW d \in Checkouts, ProcessMpesaCallback(d)
          PROVE  Undone(w)
      <3>1. payment[w].checkout = d /\ prompt[d].state # "paid"
        BY <2>4 DEF IInv, TypeOK, Payments, ProcessMpesaCallback, CalledBack
      <3>2. prompt[d].state = "declined"
        BY <2>4, <3>1 DEF IInv, Answered, ProcessMpesaCallback
      <3>3. prompt[d].order = payment[w].order
        BY <2>4, <3>1, PaymentAssumption DEF IInv, StoredIds
      <3>4. PICK c \in Checkouts : /\ prompt[c].state = "paid"
                                  /\ prompt[c].order = payment[w].order
        BY DEF IInv, PaidWasCollected
      <3> QED
        BY <2>4, <3>2, <3>3, <3>4
    <2> QED
      BY <2>1, <2>2, <2>3, <2>4
      DEF Next, PayOrderWithMpesa, GetPaymentByOrderID, InitiateMpesaPayment,
          StoreFails, Answer, LoseCallback
  <1> QED
    BY <1>1, InitIInv, IInvInductive, PTL
    DEF Spec, PaidUndoneOnlyByAnotherPrompt
=============================================================================
