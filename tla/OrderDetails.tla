---------------------------- MODULE OrderDetails ----------------------------
(***************************************************************************)
(* OrderService.GetOrder: two goroutines query the order and the name of   *)
(* its customer and send what they get on buffered channels, which the     *)
(* request closes when it returns.                                         *)
(***************************************************************************)
EXTENDS Naturals, FiniteSets

CONSTANTS
    Lookups, \* the requests
    Orders,  \* the ids that are asked for
    Stored   \* and those that are stored

ASSUME OrderDetailsAssumption == Stored \subseteq Orders

VARIABLES
    at,        \* at[l]: how far the request is
    asked,     \* asked[l]: the order that it asks for
    goroutine, \* goroutine[l][q]: the state of the goroutine of query q
    channel,   \* channel[l]: what was sent and not yet received
    received,  \* received[l]: the queries whose row was received
    panicked   \* a goroutine has sent on a closed channel

detailsVars == <<at, asked, goroutine, channel, received, panicked>>

Queries == {"order", "credentials"}
Messages == Queries \X {"row", "error"}

DetailsTypeOK ==
    /\ at \in [Lookups -> {"idle", "waiting", "ok", "failed"}]
    /\ asked \in [Lookups -> Orders]
    /\ goroutine \in [Lookups -> [Queries -> {"none", "querying", "row",
                                              "error", "ended"}]]
    /\ channel \in [Lookups -> SUBSET Messages]
    /\ received \in [Lookups -> SUBSET Queries]
    /\ panicked \in BOOLEAN

DetailsInit ==
    /\ at = [l \in Lookups |-> "idle"]
    /\ asked \in [Lookups -> Orders]
    /\ goroutine = [l \in Lookups |-> [q \in Queries |-> "none"]]
    /\ channel = [l \in Lookups |-> {}]
    /\ received = [l \in Lookups |-> {}]
    /\ panicked = FALSE

GetOrder(l) ==
    /\ at[l] = "idle"
    /\ at' = [at EXCEPT ![l] = "waiting"]
    /\ goroutine' = [goroutine EXCEPT ![l] = [q \in Queries |-> "querying"]]
    /\ UNCHANGED <<asked, channel, received, panicked>>

\* Of an order that is not stored neither query returns a row; the others may
\* fail.
QueryReturns(l, q) ==
    /\ goroutine[l][q] = "querying"
    /\ \/ /\ asked[l] \in Stored
          /\ goroutine' = [goroutine EXCEPT ![l][q] = "row"]
       \/ goroutine' = [goroutine EXCEPT ![l][q] = "error"]
    /\ UNCHANGED <<at, asked, channel, received, panicked>>

\* The channels are closed by the deferred calls.
Closed(l) == at[l] \in {"ok", "failed"}

\* A mutant: an error is logged and not sent.
SendRows(l, q) ==
    /\ goroutine[l][q] \in {"row", "error"}
    /\ goroutine' = [goroutine EXCEPT ![l][q] = "ended"]
    /\ IF Closed(l) THEN panicked' = TRUE /\ UNCHANGED channel
       ELSE /\ channel' = [channel EXCEPT ![l] =
                  @ \union ({<<q, goroutine[l][q]>>} \intersect
                            (Queries \X {"row"}))]
            /\ UNCHANGED panicked
    /\ UNCHANGED <<at, asked, received>>

\* The buffers have room for everything that is sent, so that a goroutine
\* never waits.  To send on a closed channel is a panic.
Send(l, q) ==
    /\ goroutine[l][q] \in {"row", "error"}
    /\ goroutine' = [goroutine EXCEPT ![l][q] = "ended"]
    /\ IF Closed(l) THEN panicked' = TRUE /\ UNCHANGED channel
       ELSE /\ channel' = [channel EXCEPT ![l] =
                  @ \union {<<q, goroutine[l][q]>>}]
            /\ UNCHANGED panicked
    /\ UNCHANGED <<at, asked, received>>

\* A mutant: the first row is enough.
ReceiveOne(l, q) ==
    /\ at[l] = "waiting" /\ <<q, "row">> \in channel[l]
    /\ channel' = [channel EXCEPT ![l] = @ \ {<<q, "row">>}]
    /\ received' = [received EXCEPT ![l] = @ \union {q}]
    /\ at' = [at EXCEPT ![l] = "ok"]
    /\ UNCHANGED <<asked, goroutine, panicked>>

ReceiveRow(l, q) ==
    /\ at[l] = "waiting" /\ <<q, "row">> \in channel[l]
    /\ channel' = [channel EXCEPT ![l] = @ \ {<<q, "row">>}]
    /\ received' = [received EXCEPT ![l] = @ \union {q}]
    /\ at' = [at EXCEPT ![l] = IF received'[l] = Queries THEN "ok" ELSE @]
    /\ UNCHANGED <<asked, goroutine, panicked>>

ReceiveError(l, q) ==
    /\ at[l] = "waiting" /\ <<q, "error">> \in channel[l]
    /\ channel' = [channel EXCEPT ![l] = @ \ {<<q, "error">>}]
    /\ at' = [at EXCEPT ![l] = "failed"]
    /\ UNCHANGED <<asked, goroutine, received, panicked>>

\* The client has gone away.
ContextDone(l) ==
    /\ at[l] = "waiting"
    /\ at' = [at EXCEPT ![l] = "failed"]
    /\ UNCHANGED <<asked, goroutine, channel, received, panicked>>

\* What the program does for a request.
Look(l) ==
    \E q \in Queries :
        QueryReturns(l, q) \/ Send(l, q) \/ ReceiveRow(l, q)
            \/ ReceiveError(l, q)
LookedUp(l) == at[l] # "waiting"

DetailsNext == \E l \in Lookups : GetOrder(l) \/ Look(l) \/ ContextDone(l)

DetailsSpec == DetailsInit /\ [][DetailsNext]_detailsVars
=============================================================================
