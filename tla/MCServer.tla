------------------------------ MODULE MCServer ------------------------------
(***************************************************************************)
(* Two requests of two addresses, a bucket of one token, and a lookup      *)
(* of an order that is stored or one that is not.                          *)
(***************************************************************************)
EXTENDS Server

CONSTANTS a1, a2, r1, r2, l1, o1, o2

MCAddresses == {a1, a2}
MCCalls == {r1, r2}
MCLookups == {l1}
MCOrders == {o1, o2}
MCStored == {o1}
=============================================================================
