---------------------------- MODULE RateLimiter -----------------------------
(***************************************************************************)
(* RateLimitMiddleware: the map of clients with their limiters, which the  *)
(* requests look up in two sections of its lock, and the goroutine that    *)
(* removes stale clients.  A client is known by the request that created   *)
(* it.                                                                     *)
(***************************************************************************)
EXTENDS Naturals

CONSTANTS Addresses, Calls, Rate, Burst, Interval, LastTick, Absent

ASSUME RateLimiterAssumption ==
    /\ Rate \in Nat /\ Burst \in Nat \ {0} /\ Interval \in Nat
    /\ LastTick \in Nat
    /\ Absent \notin Calls \union Addresses \union Nat

VARIABLES
    now,
    clients,  \* clients[a]: the client of address a, or Absent
    lastSeen, \* lastSeen[c]: when client c was last seen
    bucket,   \* bucket[c]: the tokens of its limiter
    place,    \* place[r]: the step that request r takes next
    from,     \* from[r]: its address
    held      \* held[r]: the client that it has found

limiterVars == <<now, clients, lastSeen, bucket, place, from, held>>

Steps == {"idle", "touch", "create", "allow", "allowed", "refused"}

LimiterTypeOK ==
    /\ now \in Nat
    /\ clients \in [Addresses -> Calls \union {Absent}]
    /\ lastSeen \in [Calls -> Nat]
    /\ bucket \in [Calls -> 0..Burst]
    /\ place \in [Calls -> Steps]
    /\ from \in [Calls -> Addresses \union {Absent}]
    /\ held \in [Calls -> Calls \union {Absent}]

LimiterInit ==
    /\ now = 0
    /\ clients = [a \in Addresses |-> Absent]
    /\ lastSeen = [c \in Calls |-> 0]
    /\ bucket = [c \in Calls |-> Burst]
    /\ place = [r \in Calls |-> "idle"]
    /\ from = [r \in Calls |-> Absent]
    /\ held = [r \in Calls |-> Absent]

\* Under the read lock.
FindClient(r, a) ==
    /\ place[r] = "idle"
    /\ place' = [place EXCEPT ![r] = IF clients[a] = Absent THEN "create"
                               ELSE "touch"]
    /\ from' = [from EXCEPT ![r] = a]
    /\ held' = [held EXCEPT ![r] = clients[a]]
    /\ UNCHANGED <<now, clients, lastSeen, bucket>>

\* The client that was found is marked as seen, removed since or not.
TouchClient(r) ==
    /\ place[r] = "touch"
    /\ place' = [place EXCEPT ![r] = "allow"]
    /\ lastSeen' = [lastSeen EXCEPT ![held[r]] = now]
    /\ UNCHANGED <<now, clients, bucket, from, held>>

\* A mutant: no second look at the map.
CreateUnchecked(r) ==
    /\ place[r] = "create"
    /\ place' = [place EXCEPT ![r] = "allow"]
    /\ clients' = [clients EXCEPT ![from[r]] = r]
    /\ held' = [held EXCEPT ![r] = r]
    /\ lastSeen' = [lastSeen EXCEPT ![r] = now]
    /\ bucket' = [bucket EXCEPT ![r] = Burst]
    /\ UNCHANGED <<now, from>>

\* Under the lock the map is looked at again.
CreateClient(r) ==
    /\ place[r] = "create"
    /\ place' = [place EXCEPT ![r] = "allow"]
    /\ LET c == IF clients[from[r]] = Absent THEN r ELSE clients[from[r]] IN
       /\ clients' = [clients EXCEPT ![from[r]] = c]
       /\ held' = [held EXCEPT ![r] = c]
       /\ lastSeen' = [lastSeen EXCEPT ![c] = now]
       /\ bucket' = IF c = r THEN [bucket EXCEPT ![r] = Burst] ELSE bucket
    /\ UNCHANGED <<now, from>>

\* limiter.Allow takes a token of the client that is held.
Allow(r) ==
    /\ place[r] = "allow"
    /\ \/ /\ bucket[held[r]] > 0
          /\ bucket' = [bucket EXCEPT ![held[r]] = @ - 1]
          /\ place' = [place EXCEPT ![r] = "allowed"]
       \/ /\ bucket[held[r]] = 0
          /\ bucket' = bucket
          /\ place' = [place EXCEPT ![r] = "refused"]
    /\ held' = [held EXCEPT ![r] = Absent]
    /\ UNCHANGED <<now, clients, lastSeen, from>>

Stale(a) ==
    /\ clients[a] # Absent
    /\ now > lastSeen[clients[a]] + Interval

cleanupStaleClients ==
    /\ \E a \in Addresses : Stale(a)
    /\ clients' = [a \in Addresses |-> IF Stale(a) THEN Absent ELSE clients[a]]
    /\ UNCHANGED <<now, lastSeen, bucket, place, from, held>>

\* The limiters gain their tokens.
Tick ==
    /\ now < LastTick
    /\ now' = now + 1
    /\ bucket' = [c \in Calls |->
                     IF bucket[c] + Rate > Burst THEN Burst
                     ELSE bucket[c] + Rate]
    /\ UNCHANGED <<clients, lastSeen, place, from, held>>

Come(r) == \E a \in Addresses : FindClient(r, a)
Limit(r) == TouchClient(r) \/ CreateClient(r) \/ Allow(r)
Limited(r) == place[r] \in {"idle", "allowed", "refused"}

LimiterNext ==
    \/ \E r \in Calls : Come(r) \/ Limit(r)
    \/ cleanupStaleClients
    \/ Tick

LimiterSpec == LimiterInit /\ [][LimiterNext]_limiterVars

-----------------------------------------------------------------------------
(* The buckets that the clients stand for: that of an address without a    *)
(* client is full, and a request whose client is no longer the one of its  *)
(* address is decided apart.                                               *)

TokensOf == [a \in Addresses |->
                IF clients[a] = Absent THEN Burst ELSE bucket[clients[a]]]

SeenOf == [a \in Addresses |->
              IF clients[a] = Absent THEN Absent ELSE lastSeen[clients[a]]]

StateOf == [r \in Calls |->
               CASE place[r] \in {"touch", "create"} -> "waiting"
                 [] place[r] = "allow" -> "counted"
                 [] OTHER -> place[r]]

Apart == {r \in Calls : /\ held[r] # Absent
                           /\ clients[from[r]] # held[r]}

Buckets == INSTANCE TokenBuckets WITH
               tokens <- TokensOf, seen <- SeenOf, state <- StateOf,
               apart <- Apart

\* However requests of an address race with one another and with the clean-up,
\* they share one bucket of tokens, and it is renewed only after an interval
\* without a request.
ImplementsBuckets == Buckets!Spec
=============================================================================
