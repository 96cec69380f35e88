---------------------------- MODULE TokenBuckets ----------------------------
(***************************************************************************)
(* What the rate limit promises, apart from how the requests share the map *)
(* of clients: an address has one bucket of tokens, every request of the   *)
(* address takes one or is refused, and the bucket is renewed only when no *)
(* request has been counted for a whole interval.  A request that came     *)
(* before its bucket was renewed is decided apart.  RateLimiter.tla        *)
(* implements it.                                                          *)
(***************************************************************************)
EXTENDS Naturals

CONSTANTS
    Addresses,
    Calls,      \* each of them comes once
    Rate,       \* the tokens that a bucket gains in a tick
    Burst,      \* the tokens that it holds
    Interval,   \* in ticks
    LastTick,   \* the bound of the clock
    Absent

VARIABLES
    now,
    tokens,  \* tokens[a]: the tokens of the bucket of address a
    seen,    \* seen[a]: when a request of a was last counted, or Absent
    from,    \* from[r]: the address of r
    state,   \* state[r]: how far r is
    apart    \* the undecided requests whose bucket was renewed

vars == <<now, tokens, seen, from, state, apart>>

Init ==
    /\ now = 0
    /\ tokens = [a \in Addresses |-> Burst]
    /\ seen = [a \in Addresses |-> Absent]
    /\ from = [r \in Calls |-> Absent]
    /\ state = [r \in Calls |-> "idle"]
    /\ apart = {}

Come(r, a) ==
    /\ state[r] = "idle"
    /\ state' = [state EXCEPT ![r] = "waiting"]
    /\ from' = [from EXCEPT ![r] = a]
    /\ UNCHANGED <<now, tokens, seen, apart>>

Count(r) ==
    /\ state[r] = "waiting"
    /\ state' = [state EXCEPT ![r] = "counted"]
    /\ seen' = IF r \in apart THEN seen ELSE [seen EXCEPT ![from[r]] = now]
    /\ UNCHANGED <<now, tokens, from, apart>>

\* A token is taken, or there is none.
Decide(r) ==
    /\ state[r] = "counted" /\ r \notin apart
    /\ \/ /\ tokens[from[r]] > 0
          /\ tokens' = [tokens EXCEPT ![from[r]] = @ - 1]
          /\ state' = [state EXCEPT ![r] = "allowed"]
       \/ /\ tokens[from[r]] = 0
          /\ tokens' = tokens
          /\ state' = [state EXCEPT ![r] = "refused"]
    /\ UNCHANGED <<now, seen, from, apart>>

DecideApart(r) ==
    /\ state[r] = "counted" /\ r \in apart
    /\ \E verdict \in {"allowed", "refused"} :
           state' = [state EXCEPT ![r] = verdict]
    /\ apart' = apart \ {r}
    /\ UNCHANGED <<now, tokens, seen, from>>

\* The requests of A that were counted lose their bucket, and some of those
\* that wait.
Renew(A) ==
    /\ \A a \in A : seen[a] # Absent /\ now > seen[a] + Interval
    /\ tokens' = [a \in Addresses |-> IF a \in A THEN Burst ELSE tokens[a]]
    /\ seen' = [a \in Addresses |-> IF a \in A THEN Absent ELSE seen[a]]
    /\ \E W \in SUBSET {r \in Calls : state[r] = "waiting"
                                         /\ from[r] \in A} :
           apart' = apart \union W
                        \union {r \in Calls : state[r] = "counted"
                                                 /\ from[r] \in A}
    /\ UNCHANGED <<now, from, state>>

Tick ==
    /\ now < LastTick
    /\ now' = now + 1
    /\ tokens' = [a \in Addresses |->
                     IF tokens[a] + Rate > Burst THEN Burst
                     ELSE tokens[a] + Rate]
    /\ UNCHANGED <<seen, from, state, apart>>

Next ==
    \/ \E r \in Calls :
           \/ \E a \in Addresses : Come(r, a)
           \/ Count(r) \/ Decide(r) \/ DecideApart(r)
    \/ \E A \in SUBSET Addresses : Renew(A)
    \/ Tick

Spec == Init /\ [][Next]_vars
=============================================================================
