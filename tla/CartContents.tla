---------------------------- MODULE CartContents ----------------------------
(***************************************************************************)
(* What the cart tables promise, apart from how requests reach them: a     *)
(* cart is opened once, and from then on its contents change by one        *)
(* quantity at a time or are emptied, each change in one step.  Cart.tla   *)
(* implements it; its refinement mapping is the identity on the two        *)
(* variables.                                                              *)
(***************************************************************************)
EXTENDS CartItems

CONSTANT Owners   \* the users and guest sessions that may own a cart

VARIABLES
    opened,       \* owners that have a shopping_carts row
    items         \* items[o][p]: quantity of p in o's cart, 0 for no row

vars == <<opened, items>>

Init ==
    /\ opened = {}
    /\ items = [o \in Owners |-> EmptyCart]

Open(o) ==
    /\ o \notin opened
    /\ opened' = opened \union {o}
    /\ UNCHANGED items

\* One product of an opened cart takes another quantity, or its row goes away.
Change(o, p, q) ==
    /\ o \in opened
    /\ items' = [items EXCEPT ![o][p] = q]
    /\ UNCHANGED opened

Empty(o) ==
    /\ o \in opened
    /\ items' = [items EXCEPT ![o] = EmptyCart]
    /\ UNCHANGED opened

Next ==
    \E o \in Owners :
        \/ Open(o)
        \/ \E p \in Products, q \in 0..MaxQuantity : Change(o, p, q)
        \/ Empty(o)

Spec == Init /\ [][Next]_vars
=============================================================================
