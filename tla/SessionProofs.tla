--------------------------- MODULE SessionProofs ---------------------------
(***************************************************************************)
(* Proofs about Session, for any number of sessions, tokens, users and     *)
(* requests.                                                               *)
(*                                                                         *)
(* What keeps the tokens apart is where a request got the session that it  *)
(* may write: from the row or the key of the very session it works on.  So *)
(* the invariant counts, with a session, what the requests under way hold  *)
(* of it.                                                                  *)
(*                                                                         *)
(* What keeps row and key together is another matter, due only where one   *)
(* request is handled at a time: the last section follows that request     *)
(* from step to step, with what its session is while it holds it.          *)
(***************************************************************************)
EXTENDS Session, TLAPS

\* The steps at which a request holds a session that it read or wrote.
Holding == Returns \union {"fill", "dropKey", "cacheLinked", "cacheMerged"}

\* What a request holds at the steps that use it: a session read, the id of
\* the session to evict, the id of its own, the session it created.
HeldOK ==
    \A r \in Requests :
        /\ pc[r] \in Holding => held[r] \in Sessions
        /\ pc[r] \in {"evictRow", "evictKey"} => held[r] \in SessionIds
        /\ pc[r] \notin Resting \union {"insert"} => id[r] \in SessionIds
        /\ pc[r] = "cacheNew" => session[r] \in Sessions

\* A request that answers leaves its variables in their types.
LEMMA FinishTyped ==
    ASSUME TypeOK, NEW r \in Requests, Finish(r)
    PROVE  /\ pc' \in [Requests -> Steps]
           /\ next' \in [Requests -> Returns]
           /\ user' \in [Requests -> Users \union {None}]
           /\ id' \in [Requests -> SessionIds \union {None}]
           /\ session' \in [Requests -> Sessions \union {None}]
           /\ held' \in [Requests -> Sessions \union SessionIds \union {None}]
           /\ target' \in [Requests -> SessionIds \union {None}]
           /\ touches' \in [Requests -> 0..2]
  <1>1. /\ pc' \in [Requests -> Steps]
        /\ next' \in [Requests -> Returns]
    BY DEF TypeOK, Finish, Goto, Steps, Returns, Resting
  <1>2. /\ user' \in [Requests -> Users \union {None}]
        /\ id' \in [Requests -> SessionIds \union {None}]
        /\ session' \in [Requests -> Sessions \union {None}]
    BY DEF TypeOK, Finish
  <1>3. held' \in [Requests -> Sessions \union SessionIds \union {None}]
    BY DEF TypeOK, Finish
  <1>4. target' \in [Requests -> SessionIds \union {None}]
    BY DEF TypeOK, Finish
  <1>5. touches' \in [Requests -> 0..2]
    BY DEF TypeOK, Finish
  <1> QED BY <1>1, <1>2, <1>3, <1>4, <1>5

-----------------------------------------------------------------------------
\* Every step of a request keeps the types and what is held.
LEMMA StepTyped ==
    ASSUME TypeOK, HeldOK, NEW r \in Requests, Step(r)
    PROVE  TypeOK' /\ HeldOK'
  <1> USE SessionAssumption DEF TypeOK, HeldOK, Holding, Steps, Returns,
                                Resting, Goto, Sessions

  <1>1. CASE ArriveNew(r)
    <2>1. TypeOK'
      BY <1>1 DEF ArriveNew, Arrive
    <2>2. HeldOK'
      BY <1>1 DEF ArriveNew, Arrive
    <2> QED BY <2>1, <2>2
  <1>2. CASE ArriveBack(r)
    <2>1. TypeOK'
      BY <1>2 DEF ArriveBack, Arrive
    <2>2. HeldOK'
      BY <1>2 DEF ArriveBack, Arrive
    <2> QED BY <2>1, <2>2
  <1>3. CASE Validate(r)
    <2>1. TypeOK'
      BY <1>3 DEF Validate, Drop
    <2>2. HeldOK'
      BY <1>3 DEF Validate, Drop
    <2> QED BY <2>1, <2>2
  <1>4. CASE InsertSession(r)
    <2>1. TypeOK'

      <3>1. /\ created' \subseteq SessionIds /\ issued' \subseteq Tokens
            /\ over' \subseteq issued'
            /\ row' \in [SessionIds -> Sessions \union {None}]
            /\ cache' \in [SessionIds -> Sessions \union {None}]
        BY <1>4 DEF InsertSession, SetRow
      <3>2. CASE Finish(r)
        BY <3>1, <3>2, FinishTyped
      <3>3. CASE ~Finish(r)
        <4>1. PICK i \in SessionIds, t \in Tokens :
                  /\ pc' = [pc EXCEPT ![r] = "cacheNew"]
                  /\ id' = [id EXCEPT ![r] = i]
                  /\ session' = [session EXCEPT ![r] =
                                    [user |-> user[r], token |-> t]]
                  /\ UNCHANGED <<next, user, held, target, touches>>
          BY <1>4, <3>3 DEF InsertSession
        <4> QED BY <3>1, <4>1
      <3> QED BY <3>2, <3>3
    <2>2. HeldOK'
      BY <1>4 DEF InsertSession, SetRow, Finish
    <2> QED BY <2>1, <2>2
  <1>5. CASE CacheNew(r)
    <2>1. TypeOK'
      BY <1>5 DEF CacheNew, Move, TryCache, SetCache
    <2>2. HeldOK'
      BY <1>5 DEF CacheNew, Move, TryCache, SetCache
    <2> QED BY <2>1, <2>2
  <1>6. CASE CacheGet(r)
    <2>1. TypeOK'
      BY <1>6 DEF CacheGet, Live
    <2>2. HeldOK'
      BY <1>6 DEF CacheGet, Live
    <2> QED BY <2>1, <2>2
  <1>7. CASE ReadRow(r)
    <2>1. TypeOK'
      BY <1>7 DEF ReadRow, OnFailure, AfterTouch, Live
    <2>2. HeldOK'
      BY <1>7 DEF ReadRow, OnFailure, AfterTouch, Live
    <2> QED BY <2>1, <2>2
  <1>8. CASE FillCache(r)
    <2>1. TypeOK'
      BY <1>8 DEF FillCache, Move, TryCache, SetCache
    <2>2. HeldOK'
      BY <1>8 DEF FillCache, Move, TryCache, SetCache
    <2> QED BY <2>1, <2>2
  <1>9. CASE DeleteRow(r)
    <2>1. TypeOK'
      BY <1>9 DEF DeleteRow, SetRow, OnFailure, AfterTouch
    <2>2. HeldOK'
      BY <1>9 DEF DeleteRow, SetRow, OnFailure, AfterTouch
    <2> QED BY <2>1, <2>2
  <1>10. CASE DeleteKey(r)
    <2>1. TypeOK'
      BY <1>10 DEF DeleteKey, Move, TryCache, SetCache, OnFailure, AfterTouch
    <2>2. HeldOK'
      BY <1>10 DEF DeleteKey, Move, TryCache, SetCache, OnFailure, AfterTouch
    <2> QED BY <2>1, <2>2
  <1>11. CASE UpdateSessionLastActivity(r)
    <2>1. TypeOK'
      BY <1>11 DEF UpdateSessionLastActivity, AfterTouch
    <2>2. HeldOK'
      BY <1>11 DEF UpdateSessionLastActivity, AfterTouch
    <2> QED BY <2>1, <2>2
  <1>12. CASE TouchLast(r)
    <2>1. TypeOK'
      BY <1>12 DEF TouchLast
    <2>2. HeldOK'
      BY <1>12 DEF TouchLast
    <2> QED BY <2>1, <2>2
  <1>13. CASE WriteBack(r)
    <2>1. TypeOK'
      BY <1>13 DEF WriteBack, Move, TryCache, SetCache, Drop, AfterTouch
    <2>2. HeldOK'
      BY <1>13 DEF WriteBack, Move, TryCache, SetCache, Drop, AfterTouch
    <2> QED BY <2>1, <2>2
  <1>14. CASE CountSessions(r)
    <2>1. TypeOK'
      BY <1>14 DEF CountSessions, Evict, RowsOf
    <2>2. HeldOK'
      BY <1>14 DEF CountSessions, Evict, RowsOf
    <2> QED BY <2>1, <2>2
  <1>15. CASE EvictRow(r)
    <2>1. TypeOK'
      BY <1>15 DEF EvictRow, SetRow
    <2>2. HeldOK'
      BY <1>15 DEF EvictRow, SetRow
    <2> QED BY <2>1, <2>2
  <1>16. CASE EvictKey(r)
    <2>1. TypeOK'
      BY <1>16 DEF EvictKey, Move, TryCache, SetCache
    <2>2. HeldOK'
      BY <1>16 DEF EvictKey, Move, TryCache, SetCache
    <2> QED BY <2>1, <2>2
  <1>17. CASE LinkRow(r)
    <2>1. TypeOK'
      BY <1>17 DEF LinkRow, Drop, UpdateRow, SetRow
    <2>2. HeldOK'
      BY <1>17 DEF LinkRow, Drop, UpdateRow, SetRow
    <2> QED BY <2>1, <2>2
  <1>18. CASE DropKey(r)
    <2>1. TypeOK'
      BY <1>18 DEF DropKey, Move, TryCache, SetCache
    <2>2. HeldOK'
      BY <1>18 DEF DropKey, Move, TryCache, SetCache
    <2> QED BY <2>1, <2>2
  <1>19. CASE CacheLinked(r)
    <2>1. TypeOK'
      BY <1>19 DEF CacheLinked, Move, TryCache, SetCache
    <2>2. HeldOK'
      BY <1>19 DEF CacheLinked, Move, TryCache, SetCache
    <2> QED BY <2>1, <2>2
  <1>20. CASE TakeLinked(r)
    <2>1. TypeOK'
      BY <1>20 DEF TakeLinked, Move, Drop
    <2>2. HeldOK'
      BY <1>20 DEF TakeLinked, Move, Drop
    <2> QED BY <2>1, <2>2
  <1>21. CASE Serve(r)
    <2>1. TypeOK'
      <3>1. CASE target[r] # None
        BY <1>21, <3>1 DEF Serve
      <3>2. CASE target[r] = None /\ touches[r] > 0
        BY <1>21, <3>2 DEF Serve
      <3>3. CASE target[r] = None /\ ~(touches[r] > 0)
        <4>1. Finish(r) /\ UNCHANGED <<row, cache, created, issued, over>>
          BY <1>21, <3>3 DEF Serve
        <4> QED BY <4>1, FinishTyped
      <3> QED BY <3>1, <3>2, <3>3
    <2>2. HeldOK'
      BY <1>21 DEF Serve, Finish
    <2> QED BY <2>1, <2>2
  <1>22. CASE MergeRow(r)
    <2>1. TypeOK'
      BY <1>22 DEF MergeRow, UpdateRow, SetRow
    <2>2. HeldOK'
      BY <1>22 DEF MergeRow, UpdateRow, SetRow
    <2> QED BY <2>1, <2>2
  <1>23. CASE CacheMerged(r)
    <2>1. TypeOK'
      BY <1>23 DEF CacheMerged, Move, TryCache, SetCache
    <2>2. HeldOK'
      BY <1>23 DEF CacheMerged, Move, TryCache, SetCache
    <2> QED BY <2>1, <2>2
  <1> QED
    BY <1>1, <1>2, <1>3, <1>4, <1>5, <1>6, <1>7, <1>8, <1>9, <1>10, <1>11,
       <1>12, <1>13, <1>14, <1>15, <1>16, <1>17, <1>18, <1>19, <1>20,
       <1>21, <1>22, <1>23
       DEF Step

\* Token t is found with session i: in its row, in its key, or with a request
\* that may write it there.
Found(i, t) ==
    \/ row[i] # None /\ row[i].token = t
    \/ cache[i] # None /\ cache[i].token = t
    \/ \E r \in Requests :
           /\ id[r] = i
           /\ \/ pc[r] \in Holding /\ held[r].token = t
              \/ pc[r] = "cacheNew" /\ session[r].token = t

\* The tokens found were issued, and each is found with one session.
FoundApart ==
    /\ \A i \in SessionIds, t \in Tokens : Found(i, t) => t \in issued
    /\ \A i, j \in SessionIds, t \in Tokens :
           Found(i, t) /\ Found(j, t) => i = j

-----------------------------------------------------------------------------
\* After a step of r a token is found where it was, or it is new and with the
\* session of r.
LEMMA StepFinds ==
    ASSUME TypeOK, HeldOK, NEW r \in Requests, Step(r),
           NEW i \in SessionIds, NEW t \in Tokens, Found(i, t)'
    PROVE  \/ Found(i, t)
           \/ t \in issued' \ issued /\ i = id'[r]
  <1> USE SessionAssumption DEF TypeOK, HeldOK, Found, Holding, Returns,
                                Resting, Goto
  <1>1. CASE ArriveNew(r)
    BY <1>1 DEF ArriveNew, Arrive
  <1>2. CASE ArriveBack(r)
    BY <1>2 DEF ArriveBack, Arrive
  <1>3. CASE Validate(r)
    BY <1>3 DEF Validate, Drop
  <1>4. CASE InsertSession(r)
    <2>1. CASE Finish(r) /\ UNCHANGED <<row, cache>>
      BY <1>4, <2>1 DEF Finish
    <2>2. CASE ~(Finish(r) /\ UNCHANGED <<row, cache>>)
      <3>1. PICK j \in SessionIds, new \in Tokens \ issued :
                LET s == [user |-> user[r], token |-> new] IN
                /\ pc' = [pc EXCEPT ![r] = "cacheNew"]
                /\ row' = [row EXCEPT ![j] = s]
                /\ issued' = issued \union {new}
                /\ id' = [id EXCEPT ![r] = j]
                /\ session' = [session EXCEPT ![r] = s]
                /\ UNCHANGED <<cache, held>>
        BY <1>4, <2>2 DEF InsertSession, SetRow
      <3> QED BY <3>1
    <2> QED BY <2>1, <2>2
  <1>5. CASE CacheNew(r)
    BY <1>5 DEF CacheNew, Move, TryCache, SetCache
  <1>6. CASE CacheGet(r)
    BY <1>6 DEF CacheGet, Live
  <1>7. CASE ReadRow(r)
    BY <1>7 DEF ReadRow, OnFailure, AfterTouch, Live
  <1>8. CASE FillCache(r)
    BY <1>8 DEF FillCache, Move, TryCache, SetCache
  <1>9. CASE DeleteRow(r)
    BY <1>9 DEF DeleteRow, SetRow, OnFailure, AfterTouch
  <1>10. CASE DeleteKey(r)
    BY <1>10 DEF DeleteKey, Move, TryCache, SetCache, OnFailure, AfterTouch
  <1>11. CASE UpdateSessionLastActivity(r)
    BY <1>11 DEF UpdateSessionLastActivity, AfterTouch
  <1>12. CASE TouchLast(r)
    BY <1>12 DEF TouchLast
  <1>13. CASE WriteBack(r)
    BY <1>13 DEF WriteBack, Move, TryCache, SetCache, Drop, AfterTouch
  <1>14. CASE CountSessions(r)
    BY <1>14 DEF CountSessions, Evict, RowsOf
  <1>15. CASE EvictRow(r)
    BY <1>15 DEF EvictRow, SetRow
  <1>16. CASE EvictKey(r)
    BY <1>16 DEF EvictKey, Move, TryCache, SetCache
  <1>17. CASE LinkRow(r)
    <2>1. held[r] \in Sessions /\ user[r] \in Users \union {None}
      BY <1>17 DEF LinkRow
    <2>2. [held[r] EXCEPT !.user = user[r]].token = held[r].token
      BY <2>1 DEF Sessions
    <2>3. CASE Goto(r, "serve") /\ Drop(r) /\ UNCHANGED row
      BY <1>17, <2>3 DEF LinkRow, Drop
    <2>4. CASE /\ Goto(r, "dropKey")
               /\ UpdateRow(r, [held[r] EXCEPT !.user = user[r]])
      <3> DEFINE s == [held[r] EXCEPT !.user = user[r]]
      <3>1. /\ held' = [held EXCEPT ![r] = s]
            /\ row' = row \/ row' = [row EXCEPT ![id[r]] = s]
            /\ pc' = [pc EXCEPT ![r] = "dropKey"]
            /\ pc[r] = "link"
            /\ UNCHANGED <<cache, issued, id, session>>
        BY <1>17, <2>4 DEF LinkRow, UpdateRow, SetRow
      <3>2. s.token = held[r].token
        BY <2>2
      <3> HIDE DEF s
      <3>3. s.token = t /\ id[r] = i => Found(i, t)
        BY <3>1, <3>2
      <3> QED BY <3>1, <3>3
    <2> QED BY <1>17, <2>3, <2>4 DEF LinkRow
  <1>18. CASE DropKey(r)
    BY <1>18 DEF DropKey, Move, TryCache, SetCache
  <1>19. CASE CacheLinked(r)
    BY <1>19 DEF CacheLinked, Move, TryCache, SetCache
  <1>20. CASE TakeLinked(r)
    BY <1>20 DEF TakeLinked, Move, Drop
  <1>21. CASE Serve(r)
    BY <1>21 DEF Serve, Finish
  <1>22. CASE MergeRow(r)
    BY <1>22 DEF MergeRow, UpdateRow, SetRow
  <1>23. CASE CacheMerged(r)
    BY <1>23 DEF CacheMerged, Move, TryCache, SetCache
  <1> QED
    BY <1>1, <1>2, <1>3, <1>4, <1>5, <1>6, <1>7, <1>8, <1>9, <1>10, <1>11,
       <1>12, <1>13, <1>14, <1>15, <1>16, <1>17, <1>18, <1>19, <1>20,
       <1>21, <1>22, <1>23
       DEF Step
-----------------------------------------------------------------------------
(* The theorems.                                                           *)

IInv == TypeOK /\ HeldOK /\ FoundApart

\* No token is found at the start.
LEMMA InitIInv == Init => IInv
  <1> SUFFICES ASSUME Init PROVE IInv
    OBVIOUS
  <1> USE SessionAssumption DEF Init
  <1>1. TypeOK
    BY DEF TypeOK, Steps, Returns, Resting
  <1>2. HeldOK
    BY DEF HeldOK, Holding, Returns, Resting
  <1>3. \A i \in SessionIds, t \in Tokens : ~Found(i, t)
    BY DEF Found, Holding, Returns
  <1> QED BY <1>1, <1>2, <1>3 DEF IInv, FoundApart

\* A token that was issued stays issued.
LEMMA IssuedGrows ==
    ASSUME NEW r \in Requests, Step(r)
    PROVE  issued \subseteq issued'
  <1>1. CASE InsertSession(r)
    BY <1>1 DEF InsertSession
  <1>2. CASE MergeRow(r)
    BY <1>2 DEF MergeRow
  <1>3. CASE ~InsertSession(r) /\ ~MergeRow(r)
    BY <1>3 DEF Step, ArriveNew, ArriveBack, Arrive, Validate, CacheNew,
                CacheGet, ReadRow, FillCache, DeleteRow, DeleteKey,
                UpdateSessionLastActivity, TouchLast, WriteBack,
                CountSessions, EvictRow, EvictKey, LinkRow, DropKey,
                CacheLinked, TakeLinked, Serve, CacheMerged
  <1> QED BY <1>1, <1>2, <1>3

\* Requests, expiry and the loss of a key keep the invariant.
LEMMA NextIInv ==
    ASSUME IInv, [Next]_vars
    PROVE  IInv'
  <1> USE DEF IInv
  <1>1. CASE \E r \in Requests : Step(r)
    <2>1. PICK r \in Requests : Step(r)
      BY <1>1
    <2>2. TypeOK' /\ HeldOK'
      BY <2>1, StepTyped
    <2>3. \A i \in SessionIds, t \in Tokens :
              Found(i, t)' => \/ Found(i, t)
                              \/ t \in issued' \ issued /\ i = id'[r]
      BY <2>1, StepFinds
    <2>4. issued \subseteq issued'
      BY <2>1, IssuedGrows
    <2>5. FoundApart'
      BY <2>3, <2>4 DEF FoundApart
    <2> QED BY <2>2, <2>5
  <1>2. CASE \E t \in Tokens : Expire(t)
    <2>1. TypeOK' /\ HeldOK'
      BY <1>2 DEF Expire, TypeOK, HeldOK, Holding, Returns, Resting, Steps
    <2>2. FoundApart'
      BY <1>2 DEF Expire, FoundApart, Found, Holding, Returns
    <2> QED BY <2>1, <2>2
  <1>3. CASE \E i \in SessionIds : LoseKey(i)
    <2>1. PICK k \in SessionIds : LoseKey(k)
      BY <1>3
    <2>2. TypeOK' /\ HeldOK'
      BY <2>1 DEF LoseKey, SetCache, TypeOK, HeldOK, Holding, Returns,
                  Resting, Steps
    <2>3. \A i \in SessionIds, t \in Tokens : Found(i, t)' => Found(i, t)
      BY <2>1 DEF LoseKey, SetCache, TypeOK, Found, Holding, Returns
    <2>4. FoundApart'
      BY <2>1, <2>3 DEF LoseKey, FoundApart
    <2> QED BY <2>2, <2>4
  <1>4. CASE UNCHANGED vars
    <2>1. TypeOK' /\ HeldOK'
      BY <1>4 DEF vars, TypeOK, HeldOK, Holding, Returns, Resting, Steps
    <2>2. FoundApart'
      BY <1>4 DEF vars, FoundApart, Found, Holding, Returns
    <2> QED BY <2>1, <2>2
  <1> QED BY <1>1, <1>2, <1>3, <1>4 DEF Next

\* The invariant holds in every state.
LEMMA Inductive == Spec => []IInv
  BY InitIInv, NextIInv, PTL DEF Spec

\* The variables of the sessions and of the requests stay in their types.
THEOREM TypeCorrect == Spec => []TypeOK
  <1>1. IInv => TypeOK
    BY DEF IInv
  <1> QED BY <1>1, Inductive, PTL

\* Whatever requests race, fail or write back late, no token (the CSRF token and
\* the expiry time that go with it) is found under two sessions.
THEOREM TokensStayApart == Spec => []TokensApart
  <1>1. IInv => TokensApart
    <2> SUFFICES ASSUME IInv,
                        NEW i \in SessionIds, NEW j \in SessionIds,
                        NEW s \in {row[i], cache[i]},
                        NEW u \in {row[j], cache[j]},
                        s # None, u # None, s.token = u.token
                 PROVE  i = j
      BY DEF TokensApart
    <2>1. s.token \in Tokens
      BY SessionAssumption DEF IInv, TypeOK, Sessions
    <2>2. Found(i, s.token) /\ Found(j, s.token)
      BY DEF Found
    <2> QED BY <2>1, <2>2 DEF IInv, FoundApart
  <1> QED BY <1>1, Inductive, PTL

\* No step of a request stores a row where there was none, but the creation of
\* a session under an id of its own.
LEMMA StepRevives ==
    ASSUME TypeOK, NEW r \in Requests, Step(r),
           NEW i \in created, row[i] = None
    PROVE  row'[i] = None
  <1> USE SessionAssumption DEF TypeOK
  <1>1. CASE InsertSession(r)
    BY <1>1 DEF InsertSession, SetRow
  <1>2. CASE DeleteRow(r)
    BY <1>2 DEF DeleteRow, SetRow
  <1>3. CASE EvictRow(r)
    BY <1>3 DEF EvictRow, SetRow
  <1>4. CASE LinkRow(r)
    BY <1>4 DEF LinkRow, UpdateRow, SetRow
  <1>5. CASE MergeRow(r)
    BY <1>5 DEF MergeRow, UpdateRow, SetRow
  <1>6. CASE row' = row
    BY <1>6
  <1> QED
    BY <1>1, <1>2, <1>3, <1>4, <1>5, <1>6
       DEF Step, ArriveNew, ArriveBack, Arrive, Validate, CacheNew,
           CacheGet, ReadRow, FillCache, DeleteKey,
           UpdateSessionLastActivity, TouchLast, WriteBack,
           CountSessions, EvictKey, DropKey, CacheLinked, TakeLinked,
           Serve, CacheMerged

\* A link or a merge whose UPDATE comes after the deletion of its session does
\* not bring the row back.
THEOREM DeletedRowsStay == Spec => DeletedStaysDeleted
  <1>1. TypeOK /\ [Next]_vars =>
            [\A i \in created : row[i] = None => row'[i] = None]_vars
    BY StepRevives DEF Next, Expire, LoseKey
  <1> QED BY <1>1, TypeCorrect, PTL DEF Spec, DeletedStaysDeleted

-----------------------------------------------------------------------------
(* One request at a time.  Where nothing fails and no key goes before its   *)
(* session has ended, the key of a session is away from its row only while  *)
(* the request that parted them is under way; and what the request holds is *)
(* the row, until the session ends.                                         *)

\* The conditions under which coherence is due.
Alone ==
    /\ \A r, q \in Requests : r = q
    /\ Faults = FALSE
    /\ Evictions = FALSE

Coherent(i) == cache[i] \in {None, row[i]}

\* The session whose key r has parted from its row.
Parted(r) ==
    CASE pc[r] \in {"deleteKey", "dropKey", "cacheMerged"} -> {id[r]}
      [] pc[r] = "evictKey" -> {held[r]}
      [] OTHER -> {}

\* r takes one of the steps, or reads a session for one of the returns.
At(r, steps, returns) ==
    \/ pc[r] \in steps
    \/ pc[r] \in {"get", "deleteRow", "deleteKey"} /\ next[r] \in returns

\* The session that r holds is stored and cached until it ends.
Stored(r) ==
    /\ session[r] \in Sessions
    /\ row[id[r]] \in {None, session[r]}
    /\ session[r].token \notin over =>
          row[id[r]] = session[r] /\ cache[id[r]] = session[r]

\* The session that r has linked is stored with its user until it ends.
Linked(r) ==
    /\ session[r] \in Sessions
    /\ row[id[r]] # None =>
          row[id[r]].token = session[r].token /\ row[id[r]].user # None
    /\ session[r].token \notin over =>
          /\ row[id[r]] # None
          /\ pc[r] \notin {"dropKey", "cacheLinked"} =>
                cache[id[r]] = row[id[r]]

\* The rows and the keys.
TablesOK(r) ==
    /\ \A i \in SessionIds \ Parted(r) : Coherent(i)
    /\ \A i \in SessionIds \ created : row[i] = None /\ cache[i] = None

\* The session of r.
SessionOK(r) ==
    /\ pc[r] \notin {"readRow", "fill"}
    /\ At(r, {"touch", "writeBack", "count", "evictRow", "evictKey", "link",
              "serve", "touchLast", "writeLast"},
             {"writeBack", "link", "writeLast"}) => Stored(r)
    /\ At(r, {"dropKey", "cacheLinked", "linked"}, {"linked"}) => Linked(r)
    /\ pc[r] = "deleteRow" => ~Live(cache[id[r]])
    /\ pc[r] = "deleteKey" => row[id[r]] = None
    /\ pc[r] \in {"deleteRow", "deleteKey"} =>
          next[r] \in {"validate", "merge"} \/ session[r].token \in over
    /\ pc[r] \in {"cacheNew", "cacheMerged"} => row[id[r]] = session[r]

\* What r has read.
ReadOK(r) ==
    /\ pc[r] = "validate" =>
          /\ row[id[r]] = held[r]
          /\ held[r].token \notin over => cache[id[r]] = held[r]
    /\ pc[r] \in {"writeBack", "writeLast", "link"} =>
          held[r] = session[r] /\ row[id[r]] = session[r]
    /\ pc[r] \in {"dropKey", "cacheLinked", "linked"} => held[r] = row[id[r]]
    /\ pc[r] = "merge" => row[id[r]] # None
    /\ pc[r] = "cacheMerged" => held[r] = session[r]
    /\ pc[r] \in {"evictRow", "evictKey"} =>
          held[r] # id[r] /\ next[r] = "link"

\* The user of r.
UserOK(r) ==
    /\ At(r, {"count", "evictRow", "evictKey", "link"}, {"link"}) =>
          user[r] # None /\ session[r].user = None
    /\ At(r, {"serve", "touchLast", "writeLast", "cacheMerged"},
             {"writeLast"}) =>
          \/ user[r] = None \/ session[r].token \in over
          \/ session[r].user # None
    /\ target[r] # None \/ At(r, {"merge"}, {"merge"}) => user[r] # None

Turn(r) == TablesOK(r) /\ SessionOK(r) /\ ReadOK(r) /\ UserOK(r)

\* The inductive invariant of requests that come one at a time; without any
\* request nothing is cached.
AInv ==
    /\ TypeOK /\ HeldOK
    /\ Requests = {} => \A i \in SessionIds : cache[i] = None
    /\ \A r \in Requests : Turn(r)

\* Every step of the request keeps what is known of it.
LEMMA TurnStep ==
    ASSUME TypeOK, HeldOK, Alone, NEW r \in Requests, Turn(r), Step(r)
    PROVE  Turn(r)'
  <1> USE SessionAssumption DEF TypeOK, HeldOK, Holding, Returns, Resting,
              Goto, Alone, Turn, Outcome

  <1>1. CASE ArriveNew(r)
    <2>1. TablesOK(r)'
      BY <1>1
         DEF ArriveNew, Arrive, TablesOK, SessionOK, ReadOK, Parted, Coherent,
             Live
    <2>2. SessionOK(r)'
      BY <1>1
         DEF ArriveNew, Arrive, TablesOK, SessionOK, ReadOK, At, Stored, Linked,
             Parted, Coherent, Live
    <2>3. ReadOK(r)'
      BY <1>1
         DEF ArriveNew, Arrive, TablesOK, SessionOK, ReadOK, At, Stored, Linked,
             Parted, Coherent, Live
    <2>4. UserOK(r)'
      BY <1>1
         DEF ArriveNew, Arrive, TablesOK, SessionOK, ReadOK, UserOK, At, Stored,
             Linked, Parted, Coherent, Live
    <2> QED BY <2>1, <2>2, <2>3, <2>4
  <1>2. CASE ArriveBack(r)
    <2>1. TablesOK(r)'
      BY <1>2
         DEF ArriveBack, Arrive, TablesOK, SessionOK, ReadOK, Parted, Coherent,
             Live
    <2>2. SessionOK(r)'
      BY <1>2
         DEF ArriveBack, Arrive, TablesOK, SessionOK, ReadOK, At, Stored,
             Linked, Parted, Coherent, Live
    <2>3. ReadOK(r)'
      BY <1>2
         DEF ArriveBack, Arrive, TablesOK, SessionOK, ReadOK, At, Stored,
             Linked, Parted, Coherent, Live
    <2>4. UserOK(r)'
      BY <1>2
         DEF ArriveBack, Arrive, TablesOK, SessionOK, ReadOK, UserOK, At,
             Stored, Linked, Parted, Coherent, Live
    <2> QED BY <2>1, <2>2, <2>3, <2>4
  <1>3. CASE Validate(r)
    <2>1. TablesOK(r)'
      BY <1>3
         DEF Validate, Drop, TablesOK, SessionOK, ReadOK, Parted, Coherent, Live
    <2>2. SessionOK(r)'
      BY <1>3
         DEF Validate, Drop, TablesOK, SessionOK, ReadOK, At, Stored, Linked,
             Parted, Coherent, Live
    <2>3. ReadOK(r)'
      BY <1>3
         DEF Validate, Drop, TablesOK, SessionOK, ReadOK, At, Stored, Linked,
             Parted, Coherent, Live
    <2>4. UserOK(r)'
      BY <1>3
         DEF Validate, Drop, TablesOK, SessionOK, ReadOK, UserOK, At, Stored,
             Linked, Parted, Coherent, Live
    <2> QED BY <2>1, <2>2, <2>3, <2>4
  <1>4. CASE InsertSession(r)
    <2>1. TablesOK(r)'
      BY <1>4
         DEF InsertSession, SetRow, Finish, TablesOK, SessionOK, ReadOK, Parted,
             Coherent, Live
    <2>2. SessionOK(r)'
      BY <1>4
         DEF InsertSession, SetRow, Finish, TablesOK, SessionOK, ReadOK, At,
             Stored, Linked, Parted, Coherent, Live
    <2>3. ReadOK(r)'
      BY <1>4
         DEF InsertSession, SetRow, Finish, TablesOK, SessionOK, ReadOK, At,
             Stored, Linked, Parted, Coherent, Live
    <2>4. UserOK(r)'
      BY <1>4
         DEF InsertSession, SetRow, Finish, TablesOK, SessionOK, ReadOK, UserOK,
             At, Stored, Linked, Parted, Coherent, Live
    <2> QED BY <2>1, <2>2, <2>3, <2>4
  <1>5. CASE CacheNew(r)
    <2>1. TablesOK(r)'
      BY <1>5
         DEF CacheNew, Move, TryCache, SetCache, TablesOK, SessionOK, ReadOK,
             Parted, Coherent, Live
    <2>2. SessionOK(r)'
      BY <1>5
         DEF CacheNew, Move, TryCache, SetCache, TablesOK, SessionOK, ReadOK,
             At, Stored, Linked, Parted, Coherent, Live
    <2>3. ReadOK(r)'
      BY <1>5
         DEF CacheNew, Move, TryCache, SetCache, TablesOK, SessionOK, ReadOK,
             At, Stored, Linked, Parted, Coherent, Live
    <2>4. UserOK(r)'
      BY <1>5
         DEF CacheNew, Move, TryCache, SetCache, TablesOK, SessionOK, ReadOK,
             UserOK, At, Stored, Linked, Parted, Coherent, Live
    <2> QED BY <2>1, <2>2, <2>3, <2>4
  <1>6. CASE CacheGet(r)
    <2>1. TablesOK(r)'
      BY <1>6 DEF CacheGet, TablesOK, SessionOK, ReadOK, Parted, Coherent, Live
    <2>2. SessionOK(r)'
      BY <1>6
         DEF CacheGet, TablesOK, SessionOK, ReadOK, At, Stored, Linked, Parted,
             Coherent, Live
    <2>3. ReadOK(r)'
      BY <1>6
         DEF CacheGet, TablesOK, SessionOK, ReadOK, At, Stored, Linked, Parted,
             Coherent, Live
    <2>4. UserOK(r)'
      BY <1>6
         DEF CacheGet, TablesOK, SessionOK, ReadOK, UserOK, At, Stored, Linked,
             Parted, Coherent, Live
    <2> QED BY <2>1, <2>2, <2>3, <2>4
  <1>7. CASE ReadRow(r)
    <2>1. TablesOK(r)'
      BY <1>7 DEF ReadRow, TablesOK, SessionOK, ReadOK, Parted, Coherent, Live
    <2>2. SessionOK(r)'
      BY <1>7
         DEF ReadRow, TablesOK, SessionOK, ReadOK, At, Stored, Linked, Parted,
             Coherent, Live
    <2>3. ReadOK(r)'
      BY <1>7
         DEF ReadRow, TablesOK, SessionOK, ReadOK, At, Stored, Linked, Parted,
             Coherent, Live
    <2>4. UserOK(r)'
      BY <1>7
         DEF ReadRow, TablesOK, SessionOK, ReadOK, UserOK, At, Stored, Linked,
             Parted, Coherent, Live
    <2> QED BY <2>1, <2>2, <2>3, <2>4
  <1>8. CASE FillCache(r)
    <2>1. TablesOK(r)'
      BY <1>8
         DEF FillCache, Move, TablesOK, SessionOK, ReadOK, Parted, Coherent,
             Live
    <2>2. SessionOK(r)'
      BY <1>8
         DEF FillCache, Move, TablesOK, SessionOK, ReadOK, At, Stored, Linked,
             Parted, Coherent, Live
    <2>3. ReadOK(r)'
      BY <1>8
         DEF FillCache, Move, TablesOK, SessionOK, ReadOK, At, Stored, Linked,
             Parted, Coherent, Live
    <2>4. UserOK(r)'
      BY <1>8
         DEF FillCache, Move, TablesOK, SessionOK, ReadOK, UserOK, At, Stored,
             Linked, Parted, Coherent, Live
    <2> QED BY <2>1, <2>2, <2>3, <2>4
  <1>9. CASE DeleteRow(r)
    <2>1. TablesOK(r)'
      BY <1>9
         DEF DeleteRow, SetRow, TablesOK, SessionOK, ReadOK, Parted, Coherent,
             Live
    <2>2. SessionOK(r)'
      BY <1>9
         DEF DeleteRow, SetRow, TablesOK, SessionOK, ReadOK, At, Stored, Linked,
             Parted, Coherent, Live
    <2>3. ReadOK(r)'
      BY <1>9
         DEF DeleteRow, SetRow, TablesOK, SessionOK, ReadOK, At, Stored, Linked,
             Parted, Coherent, Live
    <2>4. UserOK(r)'
      BY <1>9
         DEF DeleteRow, SetRow, TablesOK, SessionOK, ReadOK, UserOK, At, Stored,
             Linked, Parted, Coherent, Live
    <2> QED BY <2>1, <2>2, <2>3, <2>4
  <1>10. CASE DeleteKey(r)
    <2>1. TablesOK(r)'
      BY <1>10
         DEF DeleteKey, Move, TryCache, SetCache, OnFailure, AfterTouch,
             TablesOK, SessionOK, ReadOK, Parted, Coherent, Live
    <2>2. SessionOK(r)'
      BY <1>10
         DEF DeleteKey, Move, TryCache, SetCache, OnFailure, AfterTouch,
             TablesOK, SessionOK, ReadOK, At, Stored, Linked, Parted, Coherent,
             Live
    <2>3. ReadOK(r)'
      BY <1>10
         DEF DeleteKey, Move, TryCache, SetCache, OnFailure, AfterTouch,
             TablesOK, SessionOK, ReadOK, At, Stored, Linked, Parted, Coherent,
             Live
    <2>4. UserOK(r)'
      BY <1>10
         DEF DeleteKey, Move, TryCache, SetCache, OnFailure, AfterTouch,
             TablesOK, SessionOK, ReadOK, UserOK, At, Stored, Linked, Parted,
             Coherent, Live
    <2> QED BY <2>1, <2>2, <2>3, <2>4
  <1>11. CASE UpdateSessionLastActivity(r)
    <2>1. TablesOK(r)'
      BY <1>11
         DEF UpdateSessionLastActivity, TablesOK, SessionOK, ReadOK, Parted,
             Coherent, Live
    <2>2. SessionOK(r)'
      BY <1>11
         DEF UpdateSessionLastActivity, TablesOK, SessionOK, ReadOK, At, Stored,
             Linked, Parted, Coherent, Live
    <2>3. ReadOK(r)'
      BY <1>11
         DEF UpdateSessionLastActivity, TablesOK, SessionOK, ReadOK, At, Stored,
             Linked, Parted, Coherent, Live
    <2>4. UserOK(r)'
      BY <1>11
         DEF UpdateSessionLastActivity, TablesOK, SessionOK, ReadOK, UserOK, At,
             Stored, Linked, Parted, Coherent, Live
    <2> QED BY <2>1, <2>2, <2>3, <2>4
  <1>12. CASE TouchLast(r)
    <2>1. TablesOK(r)'
      BY <1>12
         DEF TouchLast, TablesOK, SessionOK, ReadOK, Parted, Coherent, Live
    <2>2. SessionOK(r)'
      BY <1>12
         DEF TouchLast, TablesOK, SessionOK, ReadOK, At, Stored, Linked, Parted,
             Coherent, Live
    <2>3. ReadOK(r)'
      BY <1>12
         DEF TouchLast, TablesOK, SessionOK, ReadOK, At, Stored, Linked, Parted,
             Coherent, Live
    <2>4. UserOK(r)'
      BY <1>12
         DEF TouchLast, TablesOK, SessionOK, ReadOK, UserOK, At, Stored, Linked,
             Parted, Coherent, Live
    <2> QED BY <2>1, <2>2, <2>3, <2>4
  <1>13. CASE WriteBack(r)
    <2>1. TablesOK(r)'
      BY <1>13
         DEF WriteBack, Move, TryCache, SetCache, Drop, AfterTouch, TablesOK,
             SessionOK, ReadOK, Parted, Coherent, Live
    <2>2. SessionOK(r)'
      BY <1>13
         DEF WriteBack, Move, TryCache, SetCache, Drop, AfterTouch, TablesOK,
             SessionOK, ReadOK, At, Stored, Linked, Parted, Coherent, Live
    <2>3. ReadOK(r)'
      BY <1>13
         DEF WriteBack, Move, TryCache, SetCache, Drop, AfterTouch, TablesOK,
             SessionOK, ReadOK, At, Stored, Linked, Parted, Coherent, Live
    <2>4. UserOK(r)'
      BY <1>13
         DEF WriteBack, Move, TryCache, SetCache, Drop, AfterTouch, TablesOK,
             SessionOK, ReadOK, UserOK, At, Stored, Linked, Parted, Coherent,
             Live
    <2> QED BY <2>1, <2>2, <2>3, <2>4
  <1>14. CASE CountSessions(r)
    <2>1. TablesOK(r)'
      BY <1>14
         DEF CountSessions, Evict, RowsOf, TablesOK, SessionOK, ReadOK, Parted,
             Coherent, Live
    <2>2. SessionOK(r)'
      BY <1>14
         DEF CountSessions, Evict, RowsOf, TablesOK, SessionOK, ReadOK, UserOK,
             At, Stored, Linked, Parted, Coherent, Live
    <2>3. ReadOK(r)'
      BY <1>14
         DEF CountSessions, Evict, RowsOf, TablesOK, SessionOK, ReadOK, UserOK,
             At, Stored, Linked, Parted, Coherent, Live
    <2>4. UserOK(r)'
      BY <1>14
         DEF CountSessions, Evict, RowsOf, TablesOK, SessionOK, ReadOK, UserOK,
             At, Stored, Linked, Parted, Coherent, Live
    <2> QED BY <2>1, <2>2, <2>3, <2>4
  <1>15. CASE EvictRow(r)
    <2>1. TablesOK(r)'
      BY <1>15
         DEF EvictRow, SetRow, TablesOK, SessionOK, ReadOK, Parted, Coherent,
             Live
    <2>2. SessionOK(r)'
      BY <1>15
         DEF EvictRow, SetRow, TablesOK, SessionOK, ReadOK, At, Stored, Linked,
             Parted, Coherent, Live
    <2>3. ReadOK(r)'
      BY <1>15
         DEF EvictRow, SetRow, TablesOK, SessionOK, ReadOK, At, Stored, Linked,
             Parted, Coherent, Live
    <2>4. UserOK(r)'
      BY <1>15
         DEF EvictRow, SetRow, TablesOK, SessionOK, ReadOK, UserOK, At, Stored,
             Linked, Parted, Coherent, Live
    <2> QED BY <2>1, <2>2, <2>3, <2>4
  <1>16. CASE EvictKey(r)
    <2>1. TablesOK(r)'
      BY <1>16
         DEF EvictKey, Move, TryCache, SetCache, TablesOK, SessionOK, ReadOK,
             Parted, Coherent, Live
    <2>2. SessionOK(r)'
      BY <1>16
         DEF EvictKey, Move, TryCache, SetCache, TablesOK, SessionOK, ReadOK,
             At, Stored, Linked, Parted, Coherent, Live
    <2>3. ReadOK(r)'
      BY <1>16
         DEF EvictKey, Move, TryCache, SetCache, TablesOK, SessionOK, ReadOK,
             At, Stored, Linked, Parted, Coherent, Live
    <2>4. UserOK(r)'
      BY <1>16
         DEF EvictKey, Move, TryCache, SetCache, TablesOK, SessionOK, ReadOK,
             UserOK, At, Stored, Linked, Parted, Coherent, Live
    <2> QED BY <2>1, <2>2, <2>3, <2>4
  <1>17. CASE LinkRow(r)
    <2> DEFINE linked == [held[r] EXCEPT !.user = user[r]]
    <2>1. /\ pc[r] = "link" /\ held[r] = session[r] /\ row[id[r]] = session[r]
          /\ session[r] \in Sessions /\ session[r].user = None
          /\ user[r] \in Users
      BY <1>17 DEF LinkRow, ReadOK, SessionOK, UserOK, At, Stored
    <2>2. /\ linked \in Sessions /\ linked # None
          /\ linked.token = session[r].token /\ linked.user # None
      BY <2>1 DEF Sessions
    <2>3. /\ pc' = [pc EXCEPT ![r] = "dropKey"]
          /\ held' = [held EXCEPT ![r] = linked]
          /\ row' = [row EXCEPT ![id[r]] = linked]
          /\ UNCHANGED <<cache, created, over, next, user, id, session, target>>
      BY <1>17, <2>1 DEF LinkRow, UpdateRow, SetRow, Sessions
    <2> HIDE DEF linked
    <2>4. pc'[r] = "dropKey" /\ held'[r] = linked /\ row'[id[r]] = linked
      BY <2>1, <2>3
    <2>5. TablesOK(r)'
      BY <2>1, <2>3, <2>4 DEF TablesOK, Parted, Coherent
    <2>6. SessionOK(r)'
      BY <2>1, <2>2, <2>3, <2>4 DEF SessionOK, At, Linked
    <2>7. ReadOK(r)' /\ UserOK(r)'
      BY <2>1, <2>3, <2>4 DEF ReadOK, UserOK, At
    <2> QED BY <2>5, <2>6, <2>7
  <1>18. CASE DropKey(r)
    <2>1. TablesOK(r)'
      BY <1>18
         DEF DropKey, Move, TryCache, SetCache, TablesOK, SessionOK, ReadOK,
             Parted, Coherent, Live
    <2>2. SessionOK(r)'
      BY <1>18
         DEF DropKey, Move, TryCache, SetCache, TablesOK, SessionOK, ReadOK, At,
             Stored, Linked, Parted, Coherent, Live
    <2>3. ReadOK(r)'
      BY <1>18
         DEF DropKey, Move, TryCache, SetCache, TablesOK, SessionOK, ReadOK, At,
             Stored, Linked, Parted, Coherent, Live
    <2>4. UserOK(r)'
      BY <1>18
         DEF DropKey, Move, TryCache, SetCache, TablesOK, SessionOK, ReadOK,
             UserOK, At, Stored, Linked, Parted, Coherent, Live
    <2> QED BY <2>1, <2>2, <2>3, <2>4
  <1>19. CASE CacheLinked(r)
    <2>1. TablesOK(r)'
      BY <1>19
         DEF CacheLinked, Move, TryCache, SetCache, TablesOK, SessionOK, ReadOK,
             Parted, Coherent, Live
    <2>2. SessionOK(r)'
      BY <1>19
         DEF CacheLinked, Move, TryCache, SetCache, TablesOK, SessionOK, ReadOK,
             At, Stored, Linked, Parted, Coherent, Live
    <2>3. ReadOK(r)'
      BY <1>19
         DEF CacheLinked, Move, TryCache, SetCache, TablesOK, SessionOK, ReadOK,
             At, Stored, Linked, Parted, Coherent, Live
    <2>4. UserOK(r)'
      BY <1>19
         DEF CacheLinked, Move, TryCache, SetCache, TablesOK, SessionOK, ReadOK,
             UserOK, At, Stored, Linked, Parted, Coherent, Live
    <2> QED BY <2>1, <2>2, <2>3, <2>4
  <1>20. CASE TakeLinked(r)
    <2>1. TablesOK(r)'
      BY <1>20
         DEF TakeLinked, Move, Drop, TablesOK, SessionOK, ReadOK, Parted,
             Coherent, Live
    <2>2. SessionOK(r)'
      BY <1>20
         DEF TakeLinked, Move, Drop, TablesOK, SessionOK, ReadOK, At, Stored,
             Linked, Parted, Coherent, Live
    <2>3. ReadOK(r)'
      BY <1>20
         DEF TakeLinked, Move, Drop, TablesOK, SessionOK, ReadOK, At, Stored,
             Linked, Parted, Coherent, Live
    <2>4. UserOK(r)'
      BY <1>20
         DEF TakeLinked, Move, Drop, TablesOK, SessionOK, ReadOK, UserOK, At,
             Stored, Linked, Parted, Coherent, Live
    <2> QED BY <2>1, <2>2, <2>3, <2>4
  <1>21. CASE Serve(r)
    <2>1. TablesOK(r)'
      BY <1>21
         DEF Serve, Finish, TablesOK, SessionOK, ReadOK, Parted, Coherent, Live
    <2>2. SessionOK(r)'
      BY <1>21
         DEF Serve, Finish, TablesOK, SessionOK, ReadOK, At, Stored, Linked,
             Parted, Coherent, Live
    <2>3. ReadOK(r)'
      BY <1>21
         DEF Serve, Finish, TablesOK, SessionOK, ReadOK, At, Stored, Linked,
             Parted, Coherent, Live
    <2>4. UserOK(r)'
      BY <1>21
         DEF Serve, Finish, TablesOK, SessionOK, ReadOK, UserOK, At, Stored,
             Linked, Parted, Coherent, Live
    <2> QED BY <2>1, <2>2, <2>3, <2>4
  <1>22. CASE MergeRow(r)
    <2>1. TablesOK(r)'
      BY <1>22
         DEF MergeRow, UpdateRow, SetRow, TablesOK, SessionOK, ReadOK, Parted,
             Coherent, Live
    <2>2. SessionOK(r)'
      BY <1>22
         DEF MergeRow, UpdateRow, SetRow, TablesOK, SessionOK, ReadOK, At,
             Stored, Linked, Parted, Coherent, Live
    <2>3. ReadOK(r)'
      BY <1>22
         DEF MergeRow, UpdateRow, SetRow, TablesOK, SessionOK, ReadOK, At,
             Stored, Linked, Parted, Coherent, Live
    <2>4. UserOK(r)'
      BY <1>22
         DEF MergeRow, UpdateRow, SetRow, TablesOK, SessionOK, ReadOK, UserOK,
             At, Stored, Linked, Parted, Coherent, Live
    <2> QED BY <2>1, <2>2, <2>3, <2>4
  <1>23. CASE CacheMerged(r)
    <2>1. TablesOK(r)'
      BY <1>23
         DEF CacheMerged, Move, TryCache, SetCache, TablesOK, SessionOK, ReadOK,
             Parted, Coherent, Live
    <2>2. SessionOK(r)'
      BY <1>23
         DEF CacheMerged, Move, TryCache, SetCache, TablesOK, SessionOK, ReadOK,
             At, Stored, Linked, Parted, Coherent, Live
    <2>3. ReadOK(r)'
      BY <1>23
         DEF CacheMerged, Move, TryCache, SetCache, TablesOK, SessionOK, ReadOK,
             At, Stored, Linked, Parted, Coherent, Live
    <2>4. UserOK(r)'
      BY <1>23
         DEF CacheMerged, Move, TryCache, SetCache, TablesOK, SessionOK, ReadOK,
             UserOK, At, Stored, Linked, Parted, Coherent, Live
    <2> QED BY <2>1, <2>2, <2>3, <2>4
  <1> QED
    BY <1>1, <1>2, <1>3, <1>4, <1>5, <1>6, <1>7, <1>8, <1>9, <1>10, <1>11,
       <1>12, <1>13, <1>14, <1>15, <1>16, <1>17, <1>18, <1>19, <1>20, <1>21,
       <1>22, <1>23
       DEF Step

\* The end of a session leaves what is known of the request: all of it is due
\* only of sessions that have not ended.
LEMMA TurnExpires ==
    ASSUME NEW r \in Requests, Turn(r), NEW t \in Tokens, Expire(t)
    PROVE  Turn(r)'
  <1> USE DEF Expire, Turn
  <1>1. TablesOK(r)'
    BY DEF TablesOK, Parted, Coherent
  <1>2. SessionOK(r)'
    BY DEF SessionOK, At, Stored, Linked, Live
  <1>3. ReadOK(r)'
    BY DEF ReadOK
  <1>4. UserOK(r)'
    BY DEF UserOK, At
  <1> QED BY <1>1, <1>2, <1>3, <1>4

\* So does the loss of a key whose session has ended.
LEMMA TurnLoses ==
    ASSUME TypeOK, HeldOK, Alone, NEW r \in Requests, Turn(r),
           NEW k \in SessionIds, LoseKey(k)
    PROVE  Turn(r)'
  <1> USE SessionAssumption DEF LoseKey, SetCache, Turn, TypeOK, HeldOK,
              Alone, Live, Holding, Returns, Resting
  <1>1. TablesOK(r)'
    BY DEF TablesOK, Parted, Coherent
  <1>2. SessionOK(r)'
    BY DEF SessionOK, At, Stored, Linked
  <1>3. ReadOK(r)'
    BY DEF ReadOK
  <1>4. UserOK(r)'
    BY DEF UserOK, At
  <1> QED BY <1>1, <1>2, <1>3, <1>4

\* A step that leaves every variable alone leaves what is known.
LEMMA TurnStays ==
    ASSUME NEW r \in Requests, Turn(r), UNCHANGED vars
    PROVE  Turn(r)'
  <1> USE DEF vars, Turn
  <1>1. TablesOK(r)'
    BY DEF TablesOK, Parted, Coherent
  <1>2. SessionOK(r)'
    BY DEF SessionOK, At, Stored, Linked, Live
  <1>3. ReadOK(r)'
    BY DEF ReadOK
  <1>4. UserOK(r)'
    BY DEF UserOK, At
  <1> QED BY <1>1, <1>2, <1>3, <1>4

\* Nothing is stored, cached or held at the start.
LEMMA InitAInv == Init => AInv
  <1> SUFFICES ASSUME Init PROVE AInv
    OBVIOUS
  <1>1. TypeOK /\ HeldOK
    BY InitIInv DEF IInv
  <1>2. ASSUME NEW r \in Requests PROVE Turn(r)
    BY DEF Init, Turn, TablesOK, SessionOK, ReadOK, UserOK, Parted, Coherent,
           At
  <1> QED BY <1>1, <1>2 DEF AInv, Init

\* A request, the end of a session and the loss of a key keep the invariant.
LEMMA NextAInv ==
    ASSUME Alone, AInv, [Next]_vars
    PROVE  AInv'
  <1> USE DEF AInv
  <1>1. CASE \E r \in Requests : Step(r)
    <2>1. PICK r \in Requests : Step(r)
      BY <1>1
    <2>2. TypeOK' /\ HeldOK'
      BY <2>1, StepTyped
    <2>3. Turn(r)'
      BY <2>1, TurnStep
    <2>4. \A q \in Requests : q = r
      BY <2>1 DEF Alone
    <2> QED BY <2>1, <2>2, <2>3, <2>4
  <1>2. CASE \E t \in Tokens : Expire(t)
    <2>1. TypeOK' /\ HeldOK'
      BY <1>2 DEF Expire, TypeOK, HeldOK, Holding, Returns, Resting, Steps
    <2>2. \A r \in Requests : Turn(r)'
      BY <1>2, TurnExpires
    <2> QED BY <1>2, <2>1, <2>2 DEF Expire
  <1>3. CASE \E i \in SessionIds : LoseKey(i)
    <2>1. PICK k \in SessionIds : LoseKey(k)
      BY <1>3
    <2>2. TypeOK' /\ HeldOK'
      BY <2>1 DEF LoseKey, SetCache, TypeOK, HeldOK, Holding, Returns,
                  Resting, Steps
    <2>3. \A r \in Requests : Turn(r)'
      BY <2>1, TurnLoses
    <2>4. Requests = {} => \A i \in SessionIds : cache'[i] = None
      BY <2>1 DEF LoseKey, SetCache, TypeOK
    <2> QED BY <2>2, <2>3, <2>4
  <1>4. CASE UNCHANGED vars
    <2>1. TypeOK' /\ HeldOK'
      BY <1>4 DEF vars, TypeOK, HeldOK, Holding, Returns, Resting, Steps
    <2>2. \A r \in Requests : Turn(r)'
      BY <1>4, TurnStays
    <2> QED BY <1>4, <2>1, <2>2 DEF vars
  <1> QED BY <1>1, <1>2, <1>3, <1>4 DEF Next

\* Where requests come one at a time, nothing fails and Redis keeps its keys,
\* the invariant holds in every state.
LEMMA InductiveAlone == ASSUME Alone PROVE Spec => []AInv
  <1>1. AInv /\ [Next]_vars => AInv'
    BY NextAInv
  <1> QED BY <1>1, InitAInv, PTL DEF Spec

\* Where requests come one at a time, nothing fails and Redis keeps a key until
\* its session has ended, the cached session of every id is, between two
\* requests, the stored one: the middleware and the handlers that write the
\* row leave the key with what they wrote, or without a value.
THEOREM CoherentAlone == ASSUME Alone PROVE Spec => []CoherentAtRest
  <1>1. AInv => CoherentAtRest
    <2> SUFFICES ASSUME AInv, AtRest, NEW i \in SessionIds
                 PROVE  Coherent(i)
      BY DEF CoherentAtRest, Coherent
    <2>1. CASE Requests = {}
      BY <2>1 DEF AInv, Coherent
    <2>2. CASE Requests # {}
      <3>1. PICK r \in Requests : TRUE
        BY <2>2
      <3>2. Parted(r) = {}
        BY DEF AtRest, Parted, Resting
      <3> QED BY <3>2 DEF AInv, Turn, TablesOK
    <2> QED BY <2>1, <2>2
  <1> QED BY <1>1, InductiveAlone, PTL

\* Under the same conditions the middleware hands a handler a session that is
\* stored, and a user's request one that is linked, unless it has ended.
THEOREM ServedAlone == ASSUME Alone PROVE Spec => ServedIsStored
  <1>1. AInv => \A r \in Requests :
            pc[r] = "serve" /\ session[r].token \notin over =>
                /\ row[id[r]] # None
                /\ user[r] # None => row[id[r]].user # None
    BY SessionAssumption
       DEF AInv, Turn, SessionOK, UserOK, At, Stored, Sessions
  <1>2. AInv /\ [Next]_vars =>
            [\A r \in Requests :
                pc[r] = "serve" /\ pc'[r] = "idle"
                  /\ session[r].token \notin over =>
                    /\ row[id[r]] # None
                    /\ user[r] # None => row[id[r]].user # None]_vars
    BY <1>1
  <1> QED BY <1>2, InductiveAlone, PTL DEF Spec, ServedIsStored
=============================================================================
