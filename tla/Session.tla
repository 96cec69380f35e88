------------------------------ MODULE Session ------------------------------
(***************************************************************************)
(* Sessions: internal/services/session_service.go over the table sessions  *)
(* and the Redis key of each session, as the middleware                    *)
(* internal/middleware/session.go drives it for every cart, checkout and   *)
(* merge request, each in a goroutine of its own.                          *)
(*                                                                         *)
(* A session is its user and its token.  The token stands for what a       *)
(* creation or a merge renews together: the CSRF token and the time at     *)
(* which the session expires.  The sets of a user's session ids in Redis   *)
(* are written and read by no code.                                        *)
(***************************************************************************)
EXTENDS Naturals, FiniteSets

CONSTANTS
    SessionIds,   \* the ids that may be generated
    Tokens,       \* the tokens that may be generated
    Users,
    Requests,     \* the requests the server handles at one time
    MaxSessions,  \* maxSessionsPerUser
    Handlers,     \* how often the handlers in use touch the session: twice in
                  \* AddToCart and CreateOrder, in the others never
    Faults,       \* whether SQL and Redis may fail
    Expiring,     \* the tokens whose expiry time may come
    Evictions,    \* whether a Redis key may go away before its session ends
    None          \* no id, no user, no row, no key

Sessions == [user : Users \union {None}, token : Tokens]

ASSUME SessionAssumption ==
    /\ MaxSessions \in Nat \ {0}
    /\ Expiring \subseteq Tokens
    /\ Handlers \subseteq {0, 2}
    /\ Faults \in BOOLEAN
    /\ Evictions \in BOOLEAN
    /\ None \notin SessionIds \union Users \union Tokens \union Sessions

VARIABLES
    row,      \* row[i]: the stored session i, or None
    cache,    \* cache[i]: what its Redis key holds, or None
    created,  \* the ids generated so far
    issued,   \* the tokens generated so far
    over,     \* tokens whose expiry time has passed
    pc,       \* pc[r]: the step that request r takes next
    next,     \* next[r]: where GetSessionBySessionID returns to
    user,     \* user[r]: who the access token says r is, or None
    id,       \* id[r]: the session r works on
    session,  \* session[r]: the session the middleware holds for r
    held,     \* held[r]: what GetSessionBySessionID returned, while in use
    target,   \* target[r]: the session that r asks to merge, or None
    touches   \* touches[r]: how often its handler has yet to touch the session

vars == <<row, cache, created, issued, over,
          pc, next, user, id, session, held, target, touches>>

Resting == {"idle", "failed"}
Returns ==
    {"validate", "writeBack", "link", "linked", "merge", "writeLast"}
Steps == Resting \union Returns \union
         {"get", "readRow", "fill", "deleteRow", "deleteKey", "insert",
          "cacheNew", "touch", "count", "evictRow", "evictKey", "dropKey",
          "cacheLinked", "serve", "cacheMerged", "touchLast"}

Init ==
    /\ row = [i \in SessionIds |-> None]
    /\ cache = [i \in SessionIds |-> None]
    /\ created = {}
    /\ issued = {}
    /\ over = {}
    /\ pc = [r \in Requests |-> "idle"]
    /\ next = [r \in Requests |-> "validate"]
    /\ user = [r \in Requests |-> None]
    /\ id = [r \in Requests |-> None]
    /\ session = [r \in Requests |-> None]
    /\ held = [r \in Requests |-> None]
    /\ target = [r \in Requests |-> None]
    /\ touches = [r \in Requests |-> 0]

Goto(r, step) == pc' = [pc EXCEPT ![r] = step]
Move(r, from, to) == pc[r] = from /\ Goto(r, to)
\* r answers, and what it worked with goes.
Finish(r) ==
    /\ Goto(r, "idle")
    /\ next' = [next EXCEPT ![r] = "validate"]
    /\ user' = [user EXCEPT ![r] = None]
    /\ id' = [id EXCEPT ![r] = None]
    /\ session' = [session EXCEPT ![r] = None]
    /\ held' = [held EXCEPT ![r] = None]
    /\ target' = [target EXCEPT ![r] = None]
    /\ touches' = [touches EXCEPT ![r] = 0]

Outcome == IF Faults THEN BOOLEAN ELSE {TRUE}

Live(s) == s # None /\ s.token \notin over
RowsOf(u) == {i \in SessionIds : row[i] # None /\ row[i].user = u}

SetRow(i, s) == row' = [row EXCEPT ![i] = s]
SetCache(i, s) == cache' = [cache EXCEPT ![i] = s]

\* What GetSessionBySessionID returned to r goes out of use.
Drop(r) == held' = [held EXCEPT ![r] = None]

\* A Redis write of r, which r goes on after whether it succeeded or not.
TryCache(r, i, s) ==
    \E done \in Outcome : IF done THEN SetCache(i, s) ELSE UNCHANGED cache

-----------------------------------------------------------------------------
(* The request, and the middleware's first look at its cookies.            *)

\* A request without a session cookie creates a session, as does the guest
\* endpoint, which then touches it.  One that names a session to merge belongs
\* to a user.
Arrive(r, u, i, cookie, merge) ==
    /\ pc[r] \in Resting
    /\ u = None => merge = None
    /\ Goto(r, IF i = None THEN "insert" ELSE "get")
    /\ next' = [next EXCEPT ![r] = "validate"]
    /\ user' = [user EXCEPT ![r] = u]
    /\ id' = [id EXCEPT ![r] = i]
    /\ session' = [session EXCEPT ![r] = cookie]
    /\ held' = [held EXCEPT ![r] = None]
    /\ target' = [target EXCEPT ![r] = merge]
    /\ \E n \in IF merge = None THEN Handlers ELSE {0} :
          touches' = [touches EXCEPT ![r] = n]
    /\ UNCHANGED <<row, cache, created, issued, over>>

ArriveNew(r) ==
    \E u \in Users \union {None} : Arrive(r, u, None, None, None)

ArriveBack(r) ==
    \E u \in Users \union {None}, i \in created, t \in issued,
       merge \in created \union {None} :
        Arrive(r, u, i, [user |-> None, token |-> t], merge)

\* validateExistingSession compares the cookie's token with the session's.
Validate(r) ==
    /\ pc[r] = "validate"
    /\ IF held[r].token = session[r].token
       THEN /\ Goto(r, "touch")
            /\ session' = [session EXCEPT ![r] = held[r]]
       ELSE /\ Goto(r, "insert")
            /\ UNCHANGED session
    /\ Drop(r)
    /\ UNCHANGED <<row, cache, created, issued, over,
                   next, user, id, target, touches>>

-----------------------------------------------------------------------------
(* CreateSession.                                                          *)

\* Mutant: a new session keeps the token of the cookie.
InsertWithCookieToken(r) ==
    /\ pc[r] = "insert"
    /\ \E i \in SessionIds \ created,
          t \in IF session[r] = None THEN Tokens \ issued
                                    ELSE {session[r].token} :
          LET s == [user |-> user[r], token |-> t] IN
          /\ Goto(r, "cacheNew")
          /\ SetRow(i, s)
          /\ created' = created \union {i}
          /\ issued' = issued \union {s.token}
          /\ id' = [id EXCEPT ![r] = i]
          /\ session' = [session EXCEPT ![r] = s]
    /\ UNCHANGED <<cache, over, next, user, held, target, touches>>

\* A request that needs an id or a token when all are used is turned away.
InsertSession(r) ==
    /\ pc[r] = "insert"
    /\ \/ \E i \in SessionIds \ created, t \in Tokens \ issued :
             LET s == [user |-> user[r], token |-> t] IN
             /\ Goto(r, "cacheNew")
             /\ SetRow(i, s)
             /\ created' = created \union {i}
             /\ issued' = issued \union {t}
             /\ id' = [id EXCEPT ![r] = i]
             /\ session' = [session EXCEPT ![r] = s]
             /\ UNCHANGED <<next, user, held, target, touches>>
       \/ /\ Faults \/ created = SessionIds \/ issued = Tokens
          /\ Finish(r)
          /\ UNCHANGED <<row, created, issued>>
    /\ UNCHANGED <<cache, over>>

CacheNew(r) ==
    /\ Move(r, "cacheNew", "touch")
    /\ TryCache(r, id[r], session[r])
    /\ UNCHANGED <<row, created, issued, over,
                   next, user, id, session, held, target, touches>>

-----------------------------------------------------------------------------
(* GetSessionBySessionID.                                                  *)

\* The middleware links a session that has no user to the user of r.
AfterTouch(r) ==
    IF user[r] # None /\ session[r].user = None THEN "count" ELSE "serve"

\* Where its callers go when it fails.
OnFailure(r) ==
    CASE next[r] = "validate"  -> "insert"
      [] next[r] = "merge"     -> "failed"
      [] next[r] = "writeBack" -> AfterTouch(r)
      [] OTHER                 -> "serve"

\* CacheService.Get leaves its argument alone on a miss and returns no error,
\* so that a miss is the zero session, which has expired; only an error of
\* Redis leads to the table.
CacheGet(r) ==
    /\ pc[r] = "get"
    /\ \/ /\ Faults
          /\ Goto(r, "readRow")
          /\ UNCHANGED held
       \/ IF Live(cache[id[r]])
          THEN /\ Goto(r, next[r])
               /\ held' = [held EXCEPT ![r] = cache[id[r]]]
          ELSE /\ Goto(r, "deleteRow")
               /\ UNCHANGED held
    /\ UNCHANGED <<row, cache, created, issued, over,
                   next, user, id, session, target, touches>>

ReadRow(r) ==
    /\ pc[r] = "readRow"
    /\ \E done \in Outcome :
          CASE ~done \/ row[id[r]] = None ->
                 Goto(r, OnFailure(r)) /\ UNCHANGED held
            [] done /\ row[id[r]] # None /\ ~Live(row[id[r]]) ->
                 Goto(r, "deleteRow") /\ UNCHANGED held
            [] OTHER ->
                 Goto(r, "fill") /\ held' = [held EXCEPT ![r] = row[id[r]]]
    /\ UNCHANGED <<row, cache, created, issued, over,
                   next, user, id, session, target, touches>>

\* Mutant: the key takes the id in place of the session.
FillCacheWithId(r) ==
    /\ Move(r, "fill", next[r])
    /\ TryCache(r, id[r], id[r])
    /\ UNCHANGED <<row, created, issued, over,
                   next, user, id, session, held, target, touches>>

FillCache(r) ==
    /\ Move(r, "fill", next[r])
    /\ TryCache(r, id[r], held[r])
    /\ UNCHANGED <<row, created, issued, over,
                   next, user, id, session, held, target, touches>>

\* DeleteSessionBySessionID: the row, and then the key.
DeleteRow(r) ==
    /\ pc[r] = "deleteRow"
    /\ \E done \in Outcome :
          IF done THEN Goto(r, "deleteKey") /\ SetRow(id[r], None)
                  ELSE Goto(r, OnFailure(r)) /\ UNCHANGED row
    /\ UNCHANGED <<cache, created, issued, over,
                   next, user, id, session, held, target, touches>>

\* Mutant: the key stays behind.
DeleteNoKey(r) ==
    /\ Move(r, "deleteKey", OnFailure(r))
    /\ UNCHANGED <<row, cache, created, issued, over,
                   next, user, id, session, held, target, touches>>

DeleteKey(r) ==
    /\ Move(r, "deleteKey", OnFailure(r))
    /\ TryCache(r, id[r], None)
    /\ UNCHANGED <<row, created, issued, over,
                   next, user, id, session, held, target, touches>>

-----------------------------------------------------------------------------
(* UpdateSessionLastActivity.                                              *)

UpdateSessionLastActivity(r) ==
    /\ pc[r] = "touch"
    /\ next' = [next EXCEPT ![r] = "writeBack"]
    /\ \E done \in Outcome : Goto(r, IF done THEN "get" ELSE AfterTouch(r))
    /\ UNCHANGED <<row, cache, created, issued, over,
                   user, id, session, held, target, touches>>

\* The same call, made by a handler.
TouchLast(r) ==
    /\ pc[r] = "touchLast"
    /\ next' = [next EXCEPT ![r] = "writeLast"]
    /\ \E done \in Outcome : Goto(r, IF done THEN "get" ELSE "serve")
    /\ UNCHANGED <<row, cache, created, issued, over,
                   user, id, session, held, target, touches>>

\* The session goes back to Redis as it was read, with the default TTL.
WriteBack(r) ==
    /\ \/ Move(r, "writeBack", AfterTouch(r))
       \/ Move(r, "writeLast", "serve")
    /\ TryCache(r, id[r], held[r])
    /\ Drop(r)
    /\ UNCHANGED <<row, created, issued, over,
                   next, user, id, session, target, touches>>

-----------------------------------------------------------------------------
(* LinkSessionToUser.                                                      *)

Evict(r, i) ==
    /\ Goto(r, "evictRow")
    /\ held' = [held EXCEPT ![r] = i]

\* GetSessionsByUserID, filterExpiredSessions, findOldestSession: the oldest
\* may be any of them.  An error ends the call.
CountSessions(r) ==
    /\ pc[r] = "count"
    /\ next' = [next EXCEPT ![r] = "link"]
    /\ LET own == {i \in RowsOf(user[r]) : Live(row[i])} IN
       \/ /\ Cardinality(own) >= MaxSessions
          /\ \E i \in own : Evict(r, i)
       \/ /\ Cardinality(own) < MaxSessions
          /\ Goto(r, "get")
          /\ UNCHANGED held
       \/ /\ Faults
          /\ Goto(r, "serve")
          /\ UNCHANGED held
    /\ UNCHANGED <<row, cache, created, issued, over,
                   user, id, session, target, touches>>

\* An error of the eviction is logged and the link goes on.
EvictRow(r) ==
    /\ pc[r] = "evictRow"
    /\ \E done \in Outcome :
          IF done THEN Goto(r, "evictKey") /\ SetRow(held[r], None)
                  ELSE Goto(r, "get") /\ UNCHANGED row
    /\ UNCHANGED <<cache, created, issued, over,
                   next, user, id, session, held, target, touches>>

EvictKey(r) ==
    /\ Move(r, "evictKey", "get")
    /\ TryCache(r, held[r], None)
    /\ UNCHANGED <<row, created, issued, over,
                   next, user, id, session, held, target, touches>>

\* Mutant: the session is inserted when its row is gone.
UpsertRow(r, s) ==
    /\ held' = [held EXCEPT ![r] = s]
    /\ SetRow(id[r], s)

\* UpdateSession writes every column from the session r holds; of no row it
\* is a success too.
UpdateRow(r, s) ==
    /\ held' = [held EXCEPT ![r] = s]
    /\ IF row[id[r]] = None THEN UNCHANGED row ELSE SetRow(id[r], s)

LinkRow(r) ==
    /\ pc[r] = "link"
    /\ \/ /\ held[r].user # None \/ Faults
          /\ Goto(r, "serve")
          /\ Drop(r)
          /\ UNCHANGED row
       \/ /\ held[r].user = None
          /\ Goto(r, "dropKey")
          /\ UpdateRow(r, [held[r] EXCEPT !.user = user[r]])
    /\ UNCHANGED <<cache, created, issued, over,
                   next, user, id, session, target, touches>>

DropKey(r) ==
    /\ Move(r, "dropKey", "cacheLinked")
    /\ TryCache(r, id[r], None)
    /\ UNCHANGED <<row, created, issued, over,
                   next, user, id, session, held, target, touches>>

\* Mutant: the linked session is left out of the cache.
CacheNotLinked(r) ==
    /\ Move(r, "cacheLinked", "get")
    /\ next' = [next EXCEPT ![r] = "linked"]
    /\ UNCHANGED <<row, cache, created, issued, over,
                   user, id, session, held, target, touches>>

CacheLinked(r) ==
    /\ Move(r, "cacheLinked", "get")
    /\ next' = [next EXCEPT ![r] = "linked"]
    /\ TryCache(r, id[r], held[r])
    /\ UNCHANGED <<row, created, issued, over,
                   user, id, session, held, target, touches>>

TakeLinked(r) ==
    /\ Move(r, "linked", "serve")
    /\ session' = [session EXCEPT ![r] = held[r]]
    /\ Drop(r)
    /\ UNCHANGED <<row, cache, created, issued, over,
                   next, user, id, target, touches>>

-----------------------------------------------------------------------------
(* The handler behind the middleware: MergeSession, one that touches the   *)
(* session, or one that leaves it alone.                                   *)

Serve(r) ==
    /\ pc[r] = "serve"
    /\ CASE target[r] # None ->
              /\ Goto(r, "get")
              /\ next' = [next EXCEPT ![r] = "merge"]
              /\ id' = [id EXCEPT ![r] = target[r]]
              /\ target' = [target EXCEPT ![r] = None]
              /\ UNCHANGED <<user, session, held, touches>>
         [] target[r] = None /\ touches[r] > 0 ->
              /\ Goto(r, "touchLast")
              /\ touches' = [touches EXCEPT ![r] = @ - 1]
              /\ UNCHANGED <<next, user, id, session, held, target>>
         [] OTHER -> Finish(r)
    /\ UNCHANGED <<row, cache, created, issued, over>>

\* MergeGuestSession: whatever user the session had, it is now r's.
MergeRow(r) ==
    /\ pc[r] = "merge"
    /\ \/ \E t \in Tokens \ issued :
             LET s == [user |-> user[r], token |-> t] IN
             /\ Goto(r, "cacheMerged")
             /\ UpdateRow(r, s)
             /\ session' = [session EXCEPT ![r] = s]
             /\ issued' = issued \union {t}
       \/ /\ Faults \/ issued = Tokens
          /\ Goto(r, "failed")
          /\ UNCHANGED <<row, held, session, issued>>
    /\ UNCHANGED <<cache, created, over, next, user, id, target, touches>>

CacheMerged(r) ==
    /\ Move(r, "cacheMerged", "touchLast")
    /\ TryCache(r, id[r], held[r])
    /\ UNCHANGED <<row, created, issued, over,
                   next, user, id, session, held, target, touches>>

-----------------------------------------------------------------------------
(* Time.                                                                   *)

\* The expiry time of a token passes; the keys that hold it go away by their
\* TTL at that time, or were written back and stay a little longer.
Expire(t) ==
    /\ t \in (issued \ over) \intersect Expiring
    /\ over' = over \union {t}
    /\ UNCHANGED <<row, cache, created, issued,
                   pc, next, user, id, session, held, target, touches>>

\* A key goes away: by the default TTL of a write-back, REDIS_TTL, after which
\* the session has still days to live, or because Redis needs the memory.
LoseKey(i) ==
    /\ cache[i] # None
    /\ Evictions \/ ~Live(cache[i])
    /\ SetCache(i, None)
    /\ UNCHANGED <<row, created, issued, over,
                   pc, next, user, id, session, held, target, touches>>

Step(r) ==
    \/ ArriveNew(r)
    \/ ArriveBack(r)
    \/ Validate(r)
    \/ InsertSession(r)
    \/ CacheNew(r)
    \/ CacheGet(r)
    \/ ReadRow(r)
    \/ FillCache(r)
    \/ DeleteRow(r)
    \/ DeleteKey(r)
    \/ UpdateSessionLastActivity(r)
    \/ TouchLast(r)
    \/ WriteBack(r)
    \/ CountSessions(r)
    \/ EvictRow(r)
    \/ EvictKey(r)
    \/ LinkRow(r)
    \/ DropKey(r)
    \/ CacheLinked(r)
    \/ TakeLinked(r)
    \/ Serve(r)
    \/ MergeRow(r)
    \/ CacheMerged(r)

Next ==
    \/ \E r \in Requests : Step(r)
    \/ \E t \in Tokens : Expire(t)
    \/ \E i \in SessionIds : LoseKey(i)

Spec == Init /\ [][Next]_vars

-----------------------------------------------------------------------------
(* Properties.                                                             *)

TypeOK ==
    /\ row \in [SessionIds -> Sessions \union {None}]
    /\ cache \in [SessionIds -> Sessions \union {None}]
    /\ created \subseteq SessionIds
    /\ issued \subseteq Tokens
    /\ over \subseteq issued
    /\ pc \in [Requests -> Steps]
    /\ next \in [Requests -> Returns]
    /\ user \in [Requests -> Users \union {None}]
    /\ id \in [Requests -> SessionIds \union {None}]
    /\ session \in [Requests -> Sessions \union {None}]
    /\ held \in [Requests -> Sessions \union SessionIds \union {None}]
    /\ target \in [Requests -> SessionIds \union {None}]
    /\ touches \in [Requests -> 0..2]

AtRest == \A r \in Requests : pc[r] \in Resting

\* When no request is under way a cached session is the stored one: every
\* endpoint that writes the row leaves the key with what it wrote.  Due where
\* requests come one at a time and nothing fails.
CoherentAtRest ==
    AtRest => \A i \in SessionIds : cache[i] \in {None, row[i]}

\* A request is served with a session that is stored, and a user's request
\* with one that is linked.  Due under the same conditions.
ServedIsStored ==
    [][\A r \in Requests :
          pc[r] = "serve" /\ pc'[r] = "idle" /\ session[r].token \notin over =>
              /\ row[id[r]] # None
              /\ user[r] # None => row[id[r]].user # None]_vars

\* However requests interleave, fail or write back what they read before, a
\* token is never found under two sessions: no row and no key takes what was
\* read from, or generated for, the row or the key of another.
TokensApart ==
    \A i, j \in SessionIds :
        \A s \in {row[i], cache[i]}, t \in {row[j], cache[j]} :
            i # j /\ s # None /\ t # None => s.token # t.token

\* A deleted session stays deleted in the table: a link or a merge under way
\* when its row goes, whose UPDATE comes after, does not bring it back.
DeletedStaysDeleted ==
    [][\A i \in created : row[i] = None => row'[i] = None]_vars
=============================================================================
