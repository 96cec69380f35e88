----------------------------- MODULE CartTotals -----------------------------
(***************************************************************************)
(* One cart inside PostgreSQL: the rows of cart_items, the totals that the *)
(* trigger update_cart_totals writes to the cart's shopping_carts row, and *)
(* the statements of concurrent requests, each a READ COMMITTED            *)
(* transaction of its own.                                                 *)
(*                                                                         *)
(* A statement locks and writes its rows; at its end the trigger fires     *)
(* once per row written.  Each firing runs an UPDATE whose sums are taken  *)
(* on the snapshot of that UPDATE, before it waits for the lock of the     *)
(* cart row, and are not taken again after the wait.  total_items and      *)
(* total_price are functions of the rows, so the model keeps the rows they *)
(* were computed from.                                                     *)
(***************************************************************************)
EXTENDS CartItems, FiniteSets

CONSTANTS
    Statements,   \* the SQL statements under way at one time
    Free          \* the holder of a lock that nobody holds

ASSUME TotalsAssumption == Free \notin Statements

VARIABLES
    rows,      \* committed quantities, 0 for no row
    totals,    \* the rows that the committed totals were computed from
    rowLock,   \* rowLock[p]: the statement that wrote p and has not ended
    cartLock,  \* the statement that updated the shopping_carts row
    stage,     \* stage[s]: what statement s does next
    left,      \* left[s]: the rows it has still to write
    written,   \* written[s]: the rows it wrote
    view,      \* view[s]: the rows as s sees them, its own writes included
    change,    \* change[s]: the quantity it writes, from the committed one
    firings,   \* firings[s]: the rows whose trigger has still to run
    sums       \* sums[s]: the rows that its last snapshot summed

totalsVars == <<rows, totals, rowLock, cartLock,
                stage, left, written, view, change, firings, sums>>

\* What a statement makes of the committed quantity of a row it reaches: an
\* upsert adds n to it, an update puts n in its place, a delete removes it.
Changes == [kind : {"add", "set"}, by : 1..MaxQuantity]
             \union [kind : {"delete"}, by : {0}]

Applies(c, q) == c.kind = "add" \/ q > 0
Changed(c, q) == IF c.kind = "add" THEN q + c.by ELSE c.by

\* Mutant: quantity is a column without a bound.
FitsAnyColumn(c, q) == TRUE

FitsColumn(c, q) == Changed(c, q) <= MaxQuantity

TotalsInit ==
    /\ rows = EmptyCart
    /\ totals = EmptyCart
    /\ rowLock = [p \in Products |-> Free]
    /\ cartLock = Free
    /\ stage = [s \in Statements |-> "idle"]
    /\ left = [s \in Statements |-> {}]
    /\ written = [s \in Statements |-> {}]
    /\ view = [s \in Statements |-> EmptyCart]
    /\ change = [s \in Statements |-> [kind |-> "delete", by |-> 0]]
    /\ firings = [s \in Statements |-> {}]
    /\ sums = [s \in Statements |-> EmptyCart]

Proceed(s, step) == stage' = [stage EXCEPT ![s] = step]

Begin(s, c, targets) ==
    /\ stage[s] = "idle"
    /\ Proceed(s, "rows")
    /\ left' = [left EXCEPT ![s] = targets]
    /\ written' = [written EXCEPT ![s] = {}]
    /\ view' = [view EXCEPT ![s] = EmptyCart]
    /\ change' = [change EXCEPT ![s] = c]
    /\ firings' = [firings EXCEPT ![s] = {}]
    /\ sums' = [sums EXCEPT ![s] = EmptyCart]
    /\ UNCHANGED <<rows, totals, rowLock, cartLock>>

\* UpsertCartItem, UpdateCartItemQuantity and RemoveCartItem name a product.
BeginItem(s) ==
    \E c \in Changes, p \in Products : Begin(s, c, {p})

\* ClearCart deletes the rows that its snapshot shows.
BeginClear(s) ==
    Begin(s, [kind |-> "delete", by |-> 0], {p \in Products : rows[p] > 0})

\* Reach one row.  While another statement holds it, s waits; then it acts on
\* the row that statement left, which may be gone.
WriteRow(s, p) ==
    /\ stage[s] = "rows"
    /\ p \in left[s]
    /\ rowLock[p] = Free
    /\ left' = [left EXCEPT ![s] = @ \ {p}]
    /\ IF Applies(change[s], rows[p])
       THEN /\ FitsColumn(change[s], rows[p])
            /\ rowLock' = [rowLock EXCEPT ![p] = s]
            /\ written' = [written EXCEPT ![s] = @ \union {p}]
            /\ view' = [view EXCEPT ![s][p] = Changed(change[s], rows[p])]
            /\ firings' = [firings EXCEPT ![s] = @ \union {p}]
       ELSE UNCHANGED <<rowLock, written, view, firings>>
    /\ UNCHANGED <<rows, totals, cartLock, stage, change, sums>>

\* All rows reached: the triggers fire, or nothing was written.
EndOfRows(s) ==
    /\ stage[s] = "rows"
    /\ left[s] = {}
    /\ Proceed(s, IF firings[s] = {} THEN "idle" ELSE "sum")
    /\ UNCHANGED <<rows, totals, rowLock, cartLock,
                   left, written, view, change, firings, sums>>

\* What the snapshot of s shows: what is committed, and its own writes.
Snapshot(s) == [p \in Products |-> IF p \in written[s] THEN view[s][p]
                                                      ELSE rows[p]]

\* Mutant: the trigger fires BEFORE its row is written.
TakeSumsBeforeWrite(s) ==
    /\ stage[s] = "sum"
    /\ sums' = [sums EXCEPT ![s] = rows]
    /\ Proceed(s, "update")
    /\ UNCHANGED <<rows, totals, rowLock, cartLock,
                   left, written, view, change, firings>>

TakeSums(s) ==
    /\ stage[s] = "sum"
    /\ sums' = [sums EXCEPT ![s] = Snapshot(s)]
    /\ Proceed(s, "update")
    /\ UNCHANGED <<rows, totals, rowLock, cartLock,
                   left, written, view, change, firings>>

\* Mutant: the trigger fires once FOR EACH STATEMENT.
UpdateCartOnce(s) ==
    /\ stage[s] = "update"
    /\ cartLock \in {Free, s}
    /\ cartLock' = s
    /\ firings' = [firings EXCEPT ![s] = {}]
    /\ Proceed(s, "commit")
    /\ UNCHANGED <<rows, totals, rowLock, left, written, view, change, sums>>

UpdateCart(s) ==
    /\ stage[s] = "update"
    /\ cartLock \in {Free, s}
    /\ cartLock' = s
    /\ \E p \in firings[s] :
          /\ firings' = [firings EXCEPT ![s] = @ \ {p}]
          /\ Proceed(s, IF firings[s] = {p} THEN "commit" ELSE "sum")
    /\ UNCHANGED <<rows, totals, rowLock, left, written, view, change, sums>>

Release(s) ==
    /\ rowLock' = [p \in Products |->
                      IF rowLock[p] = s THEN Free ELSE rowLock[p]]
    /\ cartLock' = IF cartLock = s THEN Free ELSE cartLock
    /\ Proceed(s, "idle")

Commit(s) ==
    /\ stage[s] = "commit"
    /\ rows' = Snapshot(s)
    /\ totals' = sums[s]
    /\ Release(s)
    /\ UNCHANGED <<left, written, view, change, firings, sums>>

\* The statement fails (a quantity or a total that does not fit its column, a
\* cancelled context, a lost connection, a deadlock broken by the server) and
\* leaves nothing behind.
Fail(s) ==
    /\ stage[s] # "idle"
    /\ Release(s)
    /\ UNCHANGED <<rows, totals, left, written, view, change, firings, sums>>

TotalsNext ==
    \E s \in Statements :
        \/ BeginItem(s)
        \/ BeginClear(s)
        \/ \E p \in Products : WriteRow(s, p)
        \/ EndOfRows(s)
        \/ TakeSums(s)
        \/ UpdateCart(s)
        \/ Commit(s)
        \/ Fail(s)

TotalsSpec == TotalsInit /\ [][TotalsNext]_totalsVars

-----------------------------------------------------------------------------
(* Properties.                                                             *)

TotalsTypeOK ==
    /\ rows \in Contents
    /\ totals \in Contents
    /\ rowLock \in [Products -> Statements \union {Free}]
    /\ cartLock \in Statements \union {Free}
    /\ stage \in [Statements -> {"idle", "rows", "sum", "update", "commit"}]
    /\ left \in [Statements -> SUBSET Products]
    /\ written \in [Statements -> SUBSET Products]
    /\ view \in [Statements -> Contents]
    /\ change \in [Statements -> Changes]
    /\ firings \in [Statements -> SUBSET Products]
    /\ sums \in [Statements -> Contents]

\* A statement that commits counts its own rows as it leaves them: what the
\* totals may miss are rows of other products.
OwnRowsCounted ==
    [][\A s \in Statements :
          /\ stage[s] = "commit"
          /\ stage'[s] = "idle"
          /\ <<rows, totals>>' # <<rows, totals>>
          => \A p \in written[s] : totals'[p] = rows'[p]]_totalsVars

\* A statement that wrote two rows or more leaves exact totals, however many
\* others run: its last firing sums under the lock that its first one took.
ExactAfterTwoRows ==
    [][\A s \in Statements :
          /\ stage[s] = "commit"
          /\ stage'[s] = "idle"
          /\ totals' # totals
          /\ Cardinality(written[s]) > 1
          => totals' = rows']_totalsVars
=============================================================================
