--------------------------- MODULE AccountsProofs ---------------------------
(***************************************************************************)
(* Proofs about Accounts, for any number of users and requests: who is an  *)
(* administrator was approved, a request that waits keeps its token, and   *)
(* what a request answered for is in the tables.                           *)
(*                                                                         *)
(* An approval is four statements, each committed by itself.  What makes   *)
(* its order safe is that a step is taken only when the one before it was  *)
(* done for the same request, and that none of the statements of the other *)
(* requests undoes it; so the invariant says, for every step, what is      *)
(* already in the tables.                                                  *)
(***************************************************************************)
EXTENDS Accounts, TLAPS

\* The tables of db.
Fields == {"users", "roles", "userRoles", "refreshTokens",
           "verificationTokens", "resetTokens", "adminRequests",
           "approvalTokens"}

\* The types of what the theorems are about.
AdminTypes ==
    /\ db = [x \in Fields |-> db[x]]
    /\ db.adminRequests \in [Requests -> AdminRequests \union {None}]
    /\ pc = [r \in Requests |-> pc[r]]
    /\ body = [r \in Requests |-> body[r]]
    /\ user = [r \in Requests |-> user[r]]

\* The steps of a request for the role, of its approval, and of the rest.
Asking == {"is admin", "ask", "approval"}
Approving == {"may approve", "approve", "forget", "promote", "inform"}
Elsewhere == {"insert", "role", "create role", "assign", "check", "google",
              "store", "verified", "clear", "issue", "mark", "drop",
              "reset clear", "reset store", "find", "set", "used"}

\* The request t for the role is approved.
Approved(t) == db.adminRequests[t].status = "APPROVED"

\* What is in the tables when r is about to take a step.
Progress(r) ==
    /\ body[r].op = "ask" => pc[r] \in Asking \union {"mail", "ok", "failed"}
    /\ pc[r] \in Asking => body[r].op = "ask"
    /\ pc[r] \in {"is admin", "ask"} => user[r] \in Ids
    /\ db.adminRequests[r] # None =>
          pc[r] \in {"approval", "mail", "ok", "failed"}
    /\ pc[r] = "approval" => db.adminRequests[r] # None
    /\ body[r].op = "ask" /\ pc[r] \in {"mail", "ok"} =>
          /\ db.adminRequests[r] # None
          /\ r \in db.approvalTokens \/ Approved(r)
    /\ body[r].op = "ask" /\ r \in mailed => db.adminRequests[r] # None
    /\ r \in mailed => pc[r] \in {"ok", "failed"}
    /\ pc[r] \in Approving =>
          /\ body[r].token \in Requests
          /\ db.adminRequests[body[r].token] # None
    /\ pc[r] \in {"forget", "promote"} => Approved(body[r].token)

\* So it is with every request.
AllProgress == \A r \in Requests : Progress(r)

\* The inductive invariant.
IInv == AdminTypes /\ AllProgress /\ AdminsWereApproved

\* A step changes nothing of the administrators' tables.
AdminSame ==
    /\ db' = [x \in Fields |-> db'[x]]
    /\ db'.adminRequests = db.adminRequests
    /\ db'.approvalTokens = db.approvalTokens
    /\ \A i \in Ids : <<i, "admin">> \in db'.userRoles
                          => <<i, "admin">> \in db.userRoles

-----------------------------------------------------------------------------
\* Nobody has asked at the start, and the administrators are those given.
LEMMA InitIInv == Init => IInv
  <1> SUFFICES ASSUME Init PROVE IInv
    OBVIOUS
  <1> USE AccountsAssumption
  <1>1. PICK names \in {{"admin"}, {"admin", "customer"}} :
            db = [users |-> [i \in Ids |->
                   IF i \in Known
                   THEN [email |-> KnownEmail[i], password |-> i,
                         google |-> FALSE, verified |-> TRUE]
                   ELSE None],
                roles |-> names,
                userRoles |-> (Admins \X {"admin"})
                                \union (Known \X (names \ {"admin"})),
                refreshTokens |-> {}, verificationTokens |-> {},
                resetTokens |-> {}, approvalTokens |-> {},
                adminRequests |-> [r2 \in Requests |-> None]]
    BY DEF Init
  <1>2. db.adminRequests = [r2 \in Requests |-> None]
    BY <1>1
  <1>3. AdminTypes
    <2>1. db.adminRequests \in [Requests -> AdminRequests \union {None}]
      BY <1>2
    <2>2. db = [x \in Fields |-> db[x]]
      BY <1>1 DEF Fields
    <2> QED BY <2>1, <2>2 DEF Init, AdminTypes
  <1>4. AllProgress
    BY <1>2 DEF Init, AllProgress, Progress, NoBody, Asking, Approving
  <1>5. AdminsWereApproved
    <2>1. db.userRoles = (Admins \X {"admin"})
                             \union (Known \X (names \ {"admin"}))
      BY <1>1
    <2> QED BY <2>1 DEF AdminsWereApproved, IsAdmin
  <1> QED BY <1>3, <1>4, <1>5 DEF IInv

\* Where the administrators' tables stay, so does who was approved.
LEMMA SameAdmins ==
    ASSUME IInv, AdminSame
    PROVE  AdminsWereApproved'
  BY DEF IInv, AdminSame, AdminsWereApproved, IsAdmin

\* A step of r between steps that are not about the role.
LEMMA Moves ==
    ASSUME IInv, NEW r \in Requests, AdminSame,
           NEW to \in Elsewhere \union {"mail", "ok", "failed"},
           pc[r] \in Elsewhere, pc' = [pc EXCEPT ![r] = to],
           NEW i, user' = [user EXCEPT ![r] = i],
           body' = body, mailed' = mailed
    PROVE  IInv'
  <1> USE DEF IInv
  <1>1. AdminTypes'
    BY DEF AdminTypes, AdminSame
  <1>2. ASSUME NEW q \in Requests PROVE Progress(q)'
    <2>1. Progress(q)
      BY DEF AllProgress
    <2>2. CASE q = r
      <3>1. pc'[q] = to
        BY <2>2 DEF AdminTypes
      <3> QED BY <2>1, <2>2, <3>1 DEF Progress, AdminSame, Elsewhere, Asking,
                                      Approving, Approved
    <2>3. CASE q # r
      <3>1. pc'[q] = pc[q] /\ user'[q] = user[q]
        BY <2>3 DEF AdminTypes
      <3> QED BY <2>1, <3>1 DEF Progress, AdminSame, Approved
    <2> QED BY <2>2, <2>3
  <1> QED BY <1>1, <1>2, SameAdmins DEF AllProgress

\* A request r that comes.
LEMMA Comes ==
    ASSUME IInv, NEW r \in Requests, NEW op, NEW e, NEW t, NEW i, NEW step,
           Accept(r, step, op, e, t, i),
           \/ op \notin {"ask"} /\ step \in Elsewhere \union {"failed"}
           \/ op = "ask" /\ step = "is admin" /\ i \in Ids
           \/ /\ op = "approve" /\ step = "may approve"
              /\ t \in Requests /\ db.adminRequests[t] # None
    PROVE  IInv'
  <1> USE DEF IInv
  <1>1. /\ pc[r] = "idle" /\ pc' = [pc EXCEPT ![r] = step]
        /\ body' = [body EXCEPT ![r] = [op |-> op, email |-> e, token |-> t]]
        /\ user' = [user EXCEPT ![r] = i]
        /\ db' = db /\ mailed' = mailed
    BY DEF Accept, Move, Goto
  <1>2. AdminTypes'
    BY <1>1 DEF AdminTypes
  <1>3. ASSUME NEW q \in Requests PROVE Progress(q)'
    <2>1. Progress(q)
      BY DEF AllProgress
    <2>2. CASE q = r
      <3>1. /\ pc'[q] = step /\ user'[q] = i
            /\ body'[q].op = op /\ body'[q].token = t
        BY <1>1, <2>2 DEF AdminTypes
      <3> QED BY <1>1, <2>1, <2>2, <3>1
              DEF Progress, Elsewhere, Asking, Approving, Approved
    <2>3. CASE q # r
      <3>1. pc'[q] = pc[q] /\ user'[q] = user[q] /\ body'[q] = body[q]
        BY <1>1, <2>3 DEF AdminTypes
      <3> QED BY <1>1, <2>1, <3>1 DEF Progress, Approved
    <2> QED BY <2>2, <2>3
  <1>4. AdminSame
    BY <1>1 DEF AdminSame, AdminTypes
  <1> QED BY <1>2, <1>3, <1>4, SameAdmins DEF AllProgress

\* What the steps of sign-in, verification and forgotten passwords have in
\* common.
Moved(r) ==
    /\ AdminSame
    /\ pc[r] \in Elsewhere
    /\ \E to \in Elsewhere \union {"mail", "ok", "failed"} :
           pc' = [pc EXCEPT ![r] = to]
    /\ \E i : user' = [user EXCEPT ![r] = i]
    /\ body' = body /\ mailed' = mailed

\* A step that writes no table, or finds no user, is such a step.
LEMMA Same ==
    ASSUME AdminTypes, NEW r \in Requests
    PROVE  /\ user = [user EXCEPT ![r] = user[r]]
           /\ db' = db => AdminSame
  BY DEF AdminTypes, AdminSame

\* The steps that are not about the role change nothing of it.
LEMMA MovesOthers ==
    ASSUME IInv, NEW r \in Requests
    PROVE
           /\ CreateUser(r) => Moved(r)
           /\ GetRoleByName(r) => Moved(r)
           /\ CreateRole(r) => Moved(r)
           /\ AssignRoleToUser(r) => Moved(r)
           /\ CompareHashAndPassword(r) => Moved(r)
           /\ UpdateUserProfile(r) => Moved(r)
           /\ StoreRefreshToken(r) => Moved(r)
           /\ IsVerified(r) => Moved(r)
           /\ DeleteVerificationTokens(r) => Moved(r)
           /\ CreateVerificationToken(r) => Moved(r)
           /\ UpdateUserEmailVerified(r) => Moved(r)
           /\ DeleteVerificationToken(r) => Moved(r)
           /\ SendPasswordResetEmail(r) => Moved(r)
           /\ StorePasswordResetToken(r) => Moved(r)
           /\ FindUser(r) => Moved(r)
           /\ UpdateUserPassword(r) => Moved(r)
           /\ DeletePasswordResetToken(r) => Moved(r)
  <1> USE Same DEF IInv, Moved, Branch, Commit, Move, Goto, Elsewhere
  <1>1. ASSUME CreateUser(r) PROVE Moved(r)
    <2>1. AdminSame
      BY <1>1 DEF AdminTypes, AdminSame, Fields, CreateUser, ExecTx, InsertUser
    <2> QED BY <1>1, <2>1 DEF CreateUser, ExecTx, InsertUser
  <1>2. ASSUME GetRoleByName(r) PROVE Moved(r)
    <2>1. AdminSame
      BY <1>2 DEF AdminTypes, AdminSame, Fields, GetRoleByName
    <2> QED BY <1>2, <2>1 DEF GetRoleByName
  <1>3. ASSUME CreateRole(r) PROVE Moved(r)
    <2>1. AdminSame
      BY <1>3 DEF AdminTypes, AdminSame, Fields, CreateRole
    <2> QED BY <1>3, <2>1 DEF CreateRole
  <1>4. ASSUME AssignRoleToUser(r) PROVE Moved(r)
    <2>1. AdminSame
      BY <1>4 DEF AdminTypes, AdminSame, Fields, AssignRoleToUser, AssignRole
    <2> QED BY <1>4, <2>1 DEF AssignRoleToUser, AssignRole
  <1>5. ASSUME CompareHashAndPassword(r) PROVE Moved(r)
    <2>1. AdminSame
      BY <1>5 DEF AdminTypes, AdminSame, Fields, CompareHashAndPassword, Found
    <2> QED BY <1>5, <2>1 DEF CompareHashAndPassword, Found
  <1>6. ASSUME UpdateUserProfile(r) PROVE Moved(r)
    <2>1. AdminSame
      BY <1>6 DEF AdminTypes, AdminSame, Fields, UpdateUserProfile, Found
    <2> QED BY <1>6, <2>1 DEF UpdateUserProfile, Found
  <1>7. ASSUME StoreRefreshToken(r) PROVE Moved(r)
    <2>1. AdminSame
      BY <1>7 DEF AdminTypes, AdminSame, Fields, StoreRefreshToken
    <2> QED BY <1>7, <2>1 DEF StoreRefreshToken
  <1>8. ASSUME IsVerified(r) PROVE Moved(r)
    <2>1. AdminSame
      BY <1>8 DEF AdminTypes, AdminSame, Fields, IsVerified
    <2> QED BY <1>8, <2>1 DEF IsVerified
  <1>9. ASSUME DeleteVerificationTokens(r) PROVE Moved(r)
    <2>1. AdminSame
      BY <1>9 DEF AdminTypes, AdminSame, Fields, DeleteVerificationTokens
    <2> QED BY <1>9, <2>1 DEF DeleteVerificationTokens
  <1>10. ASSUME CreateVerificationToken(r) PROVE Moved(r)
    <2>1. AdminSame
      BY <1>10 DEF AdminTypes, AdminSame, Fields, CreateVerificationToken
    <2> QED BY <1>10, <2>1 DEF CreateVerificationToken
  <1>11. ASSUME UpdateUserEmailVerified(r) PROVE Moved(r)
    <2>1. AdminSame
      BY <1>11 DEF AdminTypes, AdminSame, Fields, ExecTx,
                   UpdateUserEmailVerified
    <2> QED BY <1>11, <2>1 DEF UpdateUserEmailVerified, ExecTx
  <1>12. ASSUME DeleteVerificationToken(r) PROVE Moved(r)
    <2>1. AdminSame
      BY <1>12 DEF AdminTypes, AdminSame, Fields, DeleteVerificationToken
    <2> QED BY <1>12, <2>1 DEF DeleteVerificationToken
  <1>13. ASSUME SendPasswordResetEmail(r) PROVE Moved(r)
    <2>1. AdminSame
      BY <1>13 DEF AdminTypes, AdminSame, Fields, SendPasswordResetEmail
    <2> QED BY <1>13, <2>1 DEF SendPasswordResetEmail
  <1>14. ASSUME StorePasswordResetToken(r) PROVE Moved(r)
    <2>1. AdminSame
      BY <1>14 DEF AdminTypes, AdminSame, Fields, StorePasswordResetToken
    <2> QED BY <1>14, <2>1 DEF StorePasswordResetToken
  <1>15. ASSUME FindUser(r) PROVE Moved(r)
    <2>1. AdminSame
      BY <1>15 DEF AdminTypes, AdminSame, Fields, FindUser, Found
    <2> QED BY <1>15, <2>1 DEF FindUser, Found
  <1>16. ASSUME UpdateUserPassword(r) PROVE Moved(r)
    <2>1. AdminSame
      BY <1>16 DEF AdminTypes, AdminSame, Fields, UpdateUserPassword
    <2> QED BY <1>16, <2>1 DEF UpdateUserPassword
  <1>17. ASSUME DeletePasswordResetToken(r) PROVE Moved(r)
    <2>1. AdminSame
      BY <1>17 DEF AdminTypes, AdminSame, Fields, DeletePasswordResetToken
    <2> QED BY <1>17, <2>1 DEF DeletePasswordResetToken
  <1> QED
    BY <1>1, <1>2, <1>3, <1>4, <1>5, <1>6, <1>7, <1>8, <1>9, <1>10, <1>11,
       <1>12, <1>13, <1>14, <1>15, <1>16, <1>17

-----------------------------------------------------------------------------
\* A step of r on the way to the role: it keeps the invariant where r itself
\* does, and takes from no other request what it rests on.
LEMMA AdminStep ==
    ASSUME IInv, NEW r \in Requests, NEW to,
           pc' = [pc EXCEPT ![r] = to], body' = body, user' = user,
           mailed' \subseteq mailed \union {r},
           AdminTypes', Progress(r)', AdminsWereApproved',
           \A t \in Requests :
               /\ db.adminRequests[t] # None =>
                      /\ db'.adminRequests[t] # None
                      /\ Approved(t) => Approved(t)'
               /\ t # r => (db'.adminRequests[t] # None
                                => db.adminRequests[t] # None)
               /\ t # r /\ t \in db.approvalTokens =>
                      t \in db'.approvalTokens \/ Approved(t)
    PROVE  IInv'
  <1> USE DEF IInv
  <1>1. ASSUME NEW q \in Requests, q # r PROVE Progress(q)'
    <2>1. Progress(q)
      BY DEF AllProgress
    <2>2. pc'[q] = pc[q] /\ user'[q] = user[q] /\ body'[q] = body[q]
      BY <1>1 DEF AdminTypes
    <2>3. q \in mailed' => q \in mailed
      BY <1>1
    <2> QED BY <1>1, <2>1, <2>2, <2>3 DEF Progress, Approving
  <1> QED BY <1>1 DEF AllProgress

\* An administrator is refused, the others go on to ask.
LEMMA AlreadyAdminKeeps ==
    ASSUME IInv, NEW r \in Requests, AlreadyAdmin(r)
    PROVE  IInv'
  <1>1. /\ db' = db /\ body' = body /\ user' = user /\ mailed' = mailed
        /\ \E to : pc' = [pc EXCEPT ![r] = to]
    BY DEF AlreadyAdmin, Branch, Commit, Move, Goto
  <1>2. AdminTypes'
    BY <1>1 DEF IInv, AdminTypes
  <1>3. AdminsWereApproved'
    BY <1>1 DEF IInv, AdminsWereApproved, IsAdmin
  <1>4. Progress(r)'
    <2>1. Progress(r)
      BY DEF IInv, AllProgress
    <2> QED
      BY <1>1, <2>1
         DEF Progress, AlreadyAdmin, Branch, Commit, Move, Goto,
             IInv, AdminTypes, Asking, Approving, Approved, Done
  <1> QED BY <1>1, <1>2, <1>3, <1>4, AdminStep DEF Approved

\* Only an administrator goes on to approve.
LEMMA MayApproveKeeps ==
    ASSUME IInv, NEW r \in Requests, MayApprove(r)
    PROVE  IInv'
  <1>1. /\ db' = db /\ body' = body /\ user' = user /\ mailed' = mailed
        /\ \E to : pc' = [pc EXCEPT ![r] = to]
    BY DEF MayApprove, Branch, Commit, Move, Goto
  <1>2. AdminTypes'
    BY <1>1 DEF IInv, AdminTypes
  <1>3. AdminsWereApproved'
    BY <1>1 DEF IInv, AdminsWereApproved, IsAdmin
  <1>4. Progress(r)'
    <2>1. Progress(r)
      BY DEF IInv, AllProgress
    <2> QED
      BY <1>1, <2>1
         DEF Progress, MayApprove, Branch, Commit, Move, Goto,
             IInv, AdminTypes, Asking, Approving, Approved, Done
  <1> QED BY <1>1, <1>2, <1>3, <1>4, AdminStep DEF Approved

\* The mail that tells of the approval changes no table.
LEMMA SendApprovedMailKeeps ==
    ASSUME IInv, NEW r \in Requests, SendApprovedMail(r)
    PROVE  IInv'
  <1>1. /\ db' = db /\ body' = body /\ user' = user /\ mailed' = mailed
        /\ \E to : pc' = [pc EXCEPT ![r] = to]
    BY DEF SendApprovedMail, Branch, Commit, Move, Goto
  <1>2. AdminTypes'
    BY <1>1 DEF IInv, AdminTypes
  <1>3. AdminsWereApproved'
    BY <1>1 DEF IInv, AdminsWereApproved, IsAdmin
  <1>4. Progress(r)'
    <2>1. Progress(r)
      BY DEF IInv, AllProgress
    <2> QED
      BY <1>1, <2>1
         DEF Progress, SendApprovedMail, Branch, Commit, Move, Goto,
             IInv, AdminTypes, Asking, Approving, Approved, Done
  <1> QED BY <1>1, <1>2, <1>3, <1>4, AdminStep DEF Approved

\* A failure leaves what was committed.
LEMMA FailKeeps ==
    ASSUME IInv, NEW r \in Requests, Fail(r)
    PROVE  IInv'
  <1>1. /\ db' = db /\ body' = body /\ user' = user /\ mailed' = mailed
        /\ \E to : pc' = [pc EXCEPT ![r] = to]
    BY DEF Fail, Branch, Commit, Move, Goto
  <1>2. AdminTypes'
    BY <1>1 DEF IInv, AdminTypes
  <1>3. AdminsWereApproved'
    BY <1>1 DEF IInv, AdminsWereApproved, IsAdmin
  <1>4. Progress(r)'
    <2>1. Progress(r)
      BY DEF IInv, AllProgress
    <2> QED
      BY <1>1, <2>1
         DEF Progress, Fail, Branch, Commit, Move, Goto,
             IInv, AdminTypes, Asking, Approving, Approved, Done
  <1> QED BY <1>1, <1>2, <1>3, <1>4, AdminStep DEF Approved

\* A request for the role is stored once.
LEMMA CreateAdminRequestKeeps ==
    ASSUME IInv, NEW r \in Requests, CreateAdminRequest(r)
    PROVE  IInv'
  <1> DEFINE row == [user |-> user[r], status |-> "PENDING"]
  <1>0. pc[r] = "ask" /\ Progress(r)
    BY DEF CreateAdminRequest, Branch, Commit, Move, IInv, AllProgress
  <1>1. CASE HasPending(user[r])
    <2>1. /\ db' = db /\ body' = body /\ user' = user /\ mailed' = mailed
          /\ pc' = [pc EXCEPT ![r] = "failed"]
      BY <1>1 DEF CreateAdminRequest, Branch, Commit, Move, Goto
    <2>2. AdminTypes' /\ AdminsWereApproved'
      BY <2>1 DEF IInv, AdminTypes, AdminsWereApproved, IsAdmin
    <2>3. Progress(r)'
      BY <1>0, <2>1 DEF Progress, IInv, AdminTypes, Asking, Approving
    <2> QED BY <2>1, <2>2, <2>3, AdminStep DEF Approved
  <1>2. CASE ~HasPending(user[r])
    <2>1. /\ db' = [db EXCEPT !.adminRequests[r] = row]
          /\ body' = body /\ user' = user /\ mailed' = mailed
          /\ pc' = [pc EXCEPT ![r] = "approval"]
      BY <1>2 DEF CreateAdminRequest, Commit, Move, Goto
    <2>2. row \in AdminRequests /\ row # None
      BY <1>0, AccountsAssumption DEF Progress, AdminRequests
    <2>3. /\ db'.adminRequests = [db.adminRequests EXCEPT ![r] = row]
          /\ db'.approvalTokens = db.approvalTokens
          /\ db'.userRoles = db.userRoles
      BY <2>1 DEF IInv, AdminTypes, Fields
    <2>4. AdminTypes'
      <3>1. db' = [x \in Fields |-> db'[x]]
        BY <2>1 DEF IInv, AdminTypes, Fields
      <3> HIDE DEF row
      <3> QED BY <2>1, <2>2, <2>3, <3>1 DEF IInv, AdminTypes
    <2>5. db.adminRequests[r] = None
      BY <1>0 DEF Progress
    <2>6. \A t \in Requests : t # r =>
              db'.adminRequests[t] = db.adminRequests[t]
      BY <2>3 DEF IInv, AdminTypes
    <2>7. AdminsWereApproved'
      <3>1. \A i \in Ids, q \in Requests :
                db.adminRequests[q] = [user |-> i, status |-> "APPROVED"]
                    => db'.adminRequests[q] = db.adminRequests[q]
        <4>1. \A i \in Ids : [user |-> i, status |-> "APPROVED"] # None
          BY AccountsAssumption DEF AdminRequests
        <4> QED BY <2>5, <2>6, <4>1
      <3> QED BY <2>3, <3>1 DEF IInv, AdminsWereApproved, IsAdmin
    <2>8. Progress(r)'
      <3>1. db'.adminRequests[r] # None /\ pc'[r] = "approval"
        BY <2>1, <2>2, <2>3 DEF IInv, AdminTypes
      <3> QED BY <1>0, <2>1, <3>1 DEF Progress, Asking, Approving
    <2> QED BY <2>1, <2>3, <2>4, <2>5, <2>6, <2>7, <2>8, AdminStep
            DEF Approved
  <1> QED BY <1>1, <1>2

\* Its token is stored before it is mailed.
LEMMA StoreApprovalTokenKeeps ==
    ASSUME IInv, NEW r \in Requests, StoreApprovalToken(r)
    PROVE  IInv'
  <1>1. /\ pc[r] = "approval" /\ Progress(r)
        /\ db' = [db EXCEPT !.approvalTokens = @ \union {r}]
        /\ body' = body /\ user' = user /\ mailed' = mailed
        /\ pc' = [pc EXCEPT ![r] = "mail"]
    BY DEF StoreApprovalToken, Commit, Move, Goto, IInv, AllProgress
  <1>2. /\ db'.adminRequests = db.adminRequests
        /\ db'.approvalTokens = db.approvalTokens \union {r}
        /\ db'.userRoles = db.userRoles
        /\ AdminTypes'
    BY <1>1 DEF IInv, AdminTypes, Fields
  <1>3. AdminsWereApproved'
    BY <1>2 DEF IInv, AdminsWereApproved, IsAdmin
  <1>4. Progress(r)'
    <2>1. pc'[r] = "mail"
      BY <1>1 DEF IInv, AdminTypes
    <2> QED BY <1>1, <1>2, <2>1 DEF Progress, Asking, Approving
  <1> QED BY <1>1, <1>2, <1>3, <1>4, AdminStep DEF Approved

\* The token is mailed once the request and the token are stored.
LEMMA SendMailKeeps ==
    ASSUME IInv, NEW r \in Requests, SendMail(r)
    PROVE  IInv'
  <1>1. PICK to \in {"ok", "failed"} :
            /\ pc[r] = "mail" /\ Progress(r)
            /\ db' = db /\ body' = body /\ user' = user
            /\ mailed' = mailed \union {r}
            /\ pc' = [pc EXCEPT ![r] = to]
    BY DEF SendMail, Move, Goto, IInv, AllProgress
  <1>2. AdminTypes' /\ AdminsWereApproved'
    BY <1>1 DEF IInv, AdminTypes, AdminsWereApproved, IsAdmin
  <1>3. Progress(r)'
    <2>1. pc'[r] = to
      BY <1>1 DEF IInv, AdminTypes
    <2> QED BY <1>1, <2>1 DEF Progress, Asking, Approving, Approved
  <1> QED BY <1>1, <1>2, <1>3, AdminStep DEF Approved

\* A request is approved, again or for the first time, and keeps its user.
LEMMA ApproveAdminRequestKeeps ==
    ASSUME IInv, NEW r \in Requests, ApproveAdminRequest(r)
    PROVE  IInv'
  <1> DEFINE t == body[r].token
             row == [db.adminRequests[t] EXCEPT !.status = "APPROVED"]
  <1>1. /\ pc[r] = "approve" /\ Progress(r)
        /\ db' = [db EXCEPT !.adminRequests[t].status = "APPROVED"]
        /\ body' = body /\ user' = user /\ mailed' = mailed
        /\ pc' = [pc EXCEPT ![r] = "forget"]
    BY DEF ApproveAdminRequest, Commit, Move, Goto, IInv, AllProgress
  <1>2. t \in Requests /\ db.adminRequests[t] \in AdminRequests
    BY <1>1 DEF Progress, Approving, IInv, AdminTypes
  <1>3. /\ row \in AdminRequests /\ row # None
        /\ row.status = "APPROVED" /\ row.user = db.adminRequests[t].user
    BY <1>2, AccountsAssumption DEF AdminRequests
  <1>4. /\ db'.adminRequests = [db.adminRequests EXCEPT ![t] = row]
        /\ db'.approvalTokens = db.approvalTokens
        /\ db'.userRoles = db.userRoles
        /\ db' = [x \in Fields |-> db'[x]]
    BY <1>1 DEF IInv, AdminTypes, Fields
  <1> HIDE DEF row
  <1>5. AdminTypes'
    BY <1>1, <1>2, <1>3, <1>4 DEF IInv, AdminTypes
  <1>6. /\ db'.adminRequests[t] = row
        /\ \A q \in Requests \ {t} :
               db'.adminRequests[q] = db.adminRequests[q]
    BY <1>2, <1>4 DEF IInv, AdminTypes
  <1>7. AdminsWereApproved'
    <2>1. \A i \in Ids, q \in Requests :
              db.adminRequests[q] = [user |-> i, status |-> "APPROVED"]
                  => db'.adminRequests[q] = db.adminRequests[q]
      <3> SUFFICES ASSUME db.adminRequests[t].status = "APPROVED"
                   PROVE  row = db.adminRequests[t]
        BY <1>6
      <3> QED BY <1>2 DEF row, AdminRequests
    <2> QED BY <1>4, <2>1 DEF IInv, AdminsWereApproved, IsAdmin
  <1>8. Progress(r)'
    <2>1. pc'[r] = "forget"
      BY <1>1 DEF IInv, AdminTypes
    <2>2. db.adminRequests[r] = None /\ r # t
      BY <1>1, <1>2, AccountsAssumption DEF Progress, AdminRequests
    <2> QED BY <1>1, <1>2, <1>3, <1>6, <2>1, <2>2
            DEF Progress, Asking, Approving, Approved
  <1>9. \A q \in Requests :
            /\ db.adminRequests[q] # None =>
                   db'.adminRequests[q] # None
                       /\ (Approved(q) => Approved(q)')
            /\ db'.adminRequests[q] # None => db.adminRequests[q] # None
    <2>1. db.adminRequests[t] # None
      BY <1>2, AccountsAssumption
    <2> QED BY <1>3, <1>6, <2>1 DEF Approved
  <1> QED BY <1>1, <1>4, <1>5, <1>7, <1>8, <1>9, AdminStep

\* The token goes once its request is approved.
LEMMA DeleteApprovalTokenKeeps ==
    ASSUME IInv, NEW r \in Requests, DeleteApprovalToken(r)
    PROVE  IInv'
  <1>1. /\ pc[r] = "forget" /\ Progress(r)
        /\ db' = [db EXCEPT !.approvalTokens = @ \ {body[r].token}]
        /\ body' = body /\ user' = user /\ mailed' = mailed
        /\ pc' = [pc EXCEPT ![r] = "promote"]
    BY DEF DeleteApprovalToken, Commit, Move, Goto, IInv, AllProgress
  <1>2. /\ db'.adminRequests = db.adminRequests
        /\ db'.approvalTokens = db.approvalTokens \ {body[r].token}
        /\ db'.userRoles = db.userRoles
        /\ AdminTypes'
    BY <1>1 DEF IInv, AdminTypes, Fields
  <1>3. AdminsWereApproved'
    BY <1>2 DEF IInv, AdminsWereApproved, IsAdmin
  <1>4. Progress(r)'
    <2>1. pc'[r] = "promote"
      BY <1>1 DEF IInv, AdminTypes
    <2> QED BY <1>1, <1>2, <2>1 DEF Progress, Asking, Approving, Approved
  <1>5. Approved(body[r].token)
    BY <1>1 DEF Progress
  <1> QED BY <1>1, <1>2, <1>3, <1>4, <1>5, AdminStep DEF Approved

\* The user of an approved request gets the role, or the commit is lost.
LEMMA PromoteUserKeeps ==
    ASSUME IInv, NEW r \in Requests, PromoteUser(r)
    PROVE  IInv'
  <1> DEFINE t == body[r].token
  <1>1. /\ pc[r] = "promote" /\ Progress(r)
        /\ \/ db' = db
           \/ db' = [db EXCEPT !.userRoles =
                         @ \union {<<db.adminRequests[t].user, "admin">>}]
        /\ body' = body /\ user' = user /\ mailed' = mailed
        /\ pc' = [pc EXCEPT ![r] = "inform"]
    BY DEF PromoteUser, ExecTx, MakeAdmin, Commit, Move, Goto, IInv,
           AllProgress
  <1>2. /\ db'.adminRequests = db.adminRequests
        /\ db'.approvalTokens = db.approvalTokens
        /\ \A i \in Ids : <<i, "admin">> \in db'.userRoles =>
               <<i, "admin">> \in db.userRoles
                   \/ i = db.adminRequests[t].user
        /\ AdminTypes'
    BY <1>1 DEF IInv, AdminTypes, Fields
  <1>3. t \in Requests /\ db.adminRequests[t] \in AdminRequests /\ Approved(t)
    BY <1>1 DEF Progress, Approving, IInv, AdminTypes
  <1>4. AdminsWereApproved'
    BY <1>2, <1>3 DEF IInv, AdminsWereApproved, IsAdmin, AdminRequests,
                      Approved
  <1>5. Progress(r)'
    <2>1. pc'[r] = "inform"
      BY <1>1 DEF IInv, AdminTypes
    <2> QED BY <1>1, <1>2, <2>1 DEF Progress, Asking, Approving, Approved
  <1> QED BY <1>1, <1>2, <1>4, <1>5, AdminStep DEF Approved

-----------------------------------------------------------------------------
\* A request that comes keeps the invariant: only a token that was mailed is
\* there to approve with, and its request is stored.
LEMMA StartKeeps ==
    ASSUME IInv, NEW r \in Requests, Start(r)
    PROVE  IInv'
  <1>1. CASE \E e \in Emails :
                \/ RegisterUser(r, e) \/ LoginWithGoogle(r, e)
                \/ EmailVerified(r, e) \/ RequestPasswordReset(r, e)
                \/ \E p \in Ids : LoginUser(r, e, p)
    BY <1>1, Comes DEF RegisterUser, LoginWithGoogle, EmailVerified,
                       RequestPasswordReset, LoginUser, Elsewhere
  <1>2. CASE \E i \in Ids : UpdateUserInfo(r, i) \/ RequestAdminRole(r, i)
    BY <1>2, Comes DEF UpdateUserInfo, RequestAdminRole, Elsewhere
  <1>3. CASE \E t \in Requests :
                \/ VerifyEmail(r, t) \/ ResetPassword(r, t)
                \/ \E i \in Ids : ApproveAdminRole(r, i, t)
    <2>1. PICK t \in Requests :
              \/ VerifyEmail(r, t) \/ ResetPassword(r, t)
              \/ \E i \in Ids : ApproveAdminRole(r, i, t)
      BY <1>3
    <2>2. CASE VerifyEmail(r, t) \/ ResetPassword(r, t)
      BY <2>2, Comes DEF VerifyEmail, ResetPassword, Elsewhere
    <2>3. CASE \E i \in Ids : ApproveAdminRole(r, i, t)
      <3>1. db.adminRequests[t] # None
        BY <2>3 DEF ApproveAdminRole, Mailed, IInv, AllProgress, Progress
      <3> QED BY <2>3, <3>1, Comes DEF ApproveAdminRole
    <2> QED BY <2>1, <2>2, <2>3
  <1> QED BY <1>1, <1>2, <1>3 DEF Start

\* Every step of a request keeps the invariant.
LEMMA StepKeeps ==
    ASSUME IInv, NEW r \in Requests, Step(r)
    PROVE  IInv'
  <1>1. CASE Moved(r)
    BY <1>1, Moves DEF Moved
  <1> QED
    BY <1>1, MovesOthers, AlreadyAdminKeeps, CreateAdminRequestKeeps,
       StoreApprovalTokenKeeps, SendMailKeeps, MayApproveKeeps,
       ApproveAdminRequestKeeps, DeleteApprovalTokenKeeps, PromoteUserKeeps,
       SendApprovedMailKeeps, FailKeeps
       DEF Step

\* The invariant holds in every state.
LEMMA Inductive == Spec => []IInv
  <1>1. IInv /\ [Next]_vars => IInv'
    <2>1. IInv /\ Next => IInv'
      BY StartKeeps, StepKeeps DEF Next
    <2>2. IInv /\ UNCHANGED vars => IInv'
      <3> SUFFICES ASSUME IInv, UNCHANGED vars PROVE IInv'
        OBVIOUS
      <3>1. AdminTypes'
        BY DEF vars, IInv, AdminTypes
      <3>2. AllProgress'
        BY DEF vars, IInv, AllProgress, Progress, Approved
      <3>3. AdminsWereApproved'
        BY DEF vars, IInv, AdminsWereApproved, IsAdmin
      <3> QED BY <3>1, <3>2, <3>3 DEF IInv
    <2> QED BY <2>1, <2>2
  <1> QED BY <1>1, InitIInv, PTL DEF Spec

\* Whoever has the administrator's role had it from the start or has an approved
\* request, wherever approvals stop, are repeated or overlap.
THEOREM AdminsAreApproved == Spec => []AdminsWereApproved
  <1>1. IInv => AdminsWereApproved
    BY DEF IInv
  <1> QED BY <1>1, Inductive, PTL

\* A request for the role that was made and waits has the token to approve it
\* with, whatever other approvals do.
THEOREM PendingRequestsKeepTokens == Spec => []PendingKeepsToken
  <1>1. IInv => PendingKeepsToken
    BY DEF IInv, AllProgress, Progress, Approved, PendingKeepsToken
  <1> QED BY <1>1, Inductive, PTL

-----------------------------------------------------------------------------
(* What a request answered for.  A request is answered several statements   *)
(* after the one it answers for, and by then the statements of others have  *)
(* run; so the invariant says, for every step, what the earlier ones left,  *)
(* and that no statement of another request takes it back.                  *)

\* The rows of users.
UserTypes == db.users \in [Ids -> Users \union {None}]

\* The user i is stored.
Stored(i) == i \in Ids /\ db.users[i] # None

\* A user with the address e is stored, and one whose address is verified.
HasUser(e) == GetUserByEmail(e) # {}
HasVerified(e) == \E i \in GetUserByEmail(e) : db.users[i].verified

\* What r answered for is in the tables.
Answered(r) ==
    /\ body[r].op = "register" =>
          db.users[r] # None /\ <<r, "customer">> \in db.userRoles
    /\ body[r].op \in {"login", "google"} =>
          r \in db.refreshTokens /\ Stored(user[r])
    /\ body[r].op = "verify" /\ r \notin lost => HasVerified(body[r].email)
    /\ body[r].op = "approve" =>
          /\ body[r].token \in Requests
          /\ db.adminRequests[body[r].token] # None
          /\ r \notin lost => IsAdmin(db.adminRequests[body[r].token].user)

\* What r has reached on the way to its answer.
Told(r) ==
    /\ pc[r] \in {"idle", "insert", "google"} => db.users[r] = None
    /\ pc[r] \in {"insert", "google"} => body[r].email \in Emails
    /\ pc[r] \in {"insert", "role", "create role", "assign"} =>
          body[r].op \in {"register", "google"} /\ user[r] = r
    /\ pc[r] = "google" => body[r].op = "google" /\ user[r] = r
    /\ pc[r] = "check" => body[r].op = "login"
    /\ pc[r] = "store" =>
          body[r].op \in {"login", "google"} /\ Stored(user[r])
    /\ pc[r] \in {"verified", "clear", "issue"} => body[r].op = "email"
    /\ pc[r] \in {"clear", "issue"} => HasUser(body[r].email)
    /\ pc[r] = "mail" => body[r].op \in {"email", "forgot", "ask"}
    /\ body[r].op = "email" /\ (pc[r] = "mail" \/ r \in mailed) =>
          HasUser(body[r].email)
    /\ pc[r] \in {"mark", "drop"} =>
          body[r].op = "verify" /\ HasUser(body[r].email)
    /\ pc[r] = "drop" /\ r \notin lost => HasVerified(body[r].email)
    /\ pc[r] \in {"reset clear", "reset store"} => body[r].op = "forgot"
    /\ pc[r] \in {"find", "set", "used"} => body[r].op = "reset"
    /\ pc[r] = "set" => Stored(user[r])
    /\ pc[r] \in Approving => body[r].op = "approve"
    /\ pc[r] = "inform" /\ r \notin lost =>
          IsAdmin(db.adminRequests[body[r].token].user)
    /\ pc[r] = "ok" => Answered(r)

\* The inductive invariant of the answers.
TInv == IInv /\ UserTypes /\ \A r \in Requests : Told(r)

\* A step of r takes nothing from what others answer for: users stay, with
\* their address and its verification, and so do roles, refresh tokens and the
\* requests for the role; and of the users only r may be new.
Grows(r) ==
    /\ \A i \in Ids : db.users[i] # None =>
          /\ db'.users[i] # None
          /\ db'.users[i].email = db.users[i].email
          /\ db.users[i].verified => db'.users[i].verified
    /\ \A i \in Ids \ {r} : db.users[i] = None => db'.users[i] = None
    /\ db.userRoles \subseteq db'.userRoles
    /\ db.refreshTokens \subseteq db'.refreshTokens
    /\ \A t \in Requests : db.adminRequests[t] # None =>
          /\ db'.adminRequests[t] # None
          /\ db'.adminRequests[t].user = db.adminRequests[t].user

\* A step of r that keeps what others answer for and what r has reached.
Tells(r) ==
    /\ UserTypes'
    /\ Grows(r)
    /\ Told(r)'
    /\ \E to : pc' = [pc EXCEPT ![r] = to]
    /\ \E i : user' = [user EXCEPT ![r] = i]
    /\ \E b : body' = [body EXCEPT ![r] = b]
    /\ mailed' \subseteq mailed \union {r}
    /\ lost \subseteq lost'

\* Nobody has been answered at the start.
LEMMA InitTInv == Init => TInv
  <1> SUFFICES ASSUME Init PROVE TInv
    OBVIOUS
  <1> USE AccountsAssumption
  <1>1. db.users = [i \in Ids |->
                       IF i \in Known
                       THEN [email |-> KnownEmail[i], password |-> i,
                             google |-> FALSE, verified |-> TRUE]
                       ELSE None]
    BY DEF Init
  <1>2. UserTypes
    BY <1>1 DEF UserTypes, Users, Ids
  <1>3. ASSUME NEW r \in Requests PROVE Told(r)
    <2>1. db.users[r] = None
      BY <1>1 DEF Ids
    <2> QED BY <2>1 DEF Init, Told, NoBody, Approving
  <1> QED BY <1>2, <1>3, InitIInv DEF TInv

\* Users that are found stay to be found, and verified ones verified.
LEMMA FoundStay ==
    ASSUME NEW r, Grows(r), NEW e
    PROVE  /\ HasUser(e) => HasUser(e)'
           /\ HasVerified(e) => HasVerified(e)'
           /\ \A i : Stored(i) => Stored(i)'
  <1>1. GetUserByEmail(e) \subseteq GetUserByEmail(e)'
    BY DEF Grows, GetUserByEmail
  <1>2. \A i \in GetUserByEmail(e) : db.users[i].verified
                                       => db'.users[i].verified
    BY DEF Grows, GetUserByEmail
  <1> QED BY <1>1, <1>2 DEF HasUser, HasVerified, Stored, Grows

\* Such a step keeps the invariant.
LEMMA TellsKeeps ==
    ASSUME TInv, NEW r \in Requests, IInv', Tells(r)
    PROVE  TInv'
  <1>1. ASSUME NEW q \in Requests, q # r PROVE Told(q)'
    <2>1. Told(q) /\ Progress(q)
      BY DEF TInv, IInv, AllProgress
    <2>2. pc'[q] = pc[q] /\ user'[q] = user[q] /\ body'[q] = body[q]
      BY <1>1 DEF Tells, TInv, IInv, AdminTypes
    <2>3. (q \in mailed' => q \in mailed) /\ (q \notin lost' => q \notin lost)
      BY <1>1 DEF Tells
    <2>4. Grows(r)
      BY DEF Tells
    <2>5. /\ db.users[q] = None => db'.users[q] = None
          /\ db.users[q] # None => db'.users[q] # None
          /\ <<q, "customer">> \in db.userRoles =>
                 <<q, "customer">> \in db'.userRoles
          /\ q \in db.refreshTokens => q \in db'.refreshTokens
      BY <1>1, <2>4 DEF Grows, Ids
    <2>6. PICK e, t, u : /\ e = body[q].email /\ t = body[q].token
                         /\ u = user[q]
      OBVIOUS
    <2>7. /\ HasUser(e) => HasUser(e)'
          /\ HasVerified(e) => HasVerified(e)'
          /\ Stored(u) => Stored(u)'
      BY <2>4, FoundStay
    <2>8. t \in Requests /\ db.adminRequests[t] # None =>
              /\ db'.adminRequests[t] # None
              /\ IsAdmin(db.adminRequests[t].user) =>
                     IsAdmin(db.adminRequests[t].user)'
      BY <2>4 DEF Grows, IsAdmin
    <2>9. pc[q] \in Approving =>
              t \in Requests /\ db.adminRequests[t] # None
      BY <2>1, <2>6 DEF Progress
    <2>10. pc[q] = "ok" /\ Answered(q) => Answered(q)'
      BY <2>2, <2>3, <2>5, <2>6, <2>7, <2>8 DEF Answered
    <2>11. pc[q] = "inform" /\ q \notin lost =>
               IsAdmin(db.adminRequests[t].user)'
      BY <2>1, <2>6, <2>8, <2>9 DEF Told, Approving
    <2> QED BY <2>1, <2>2, <2>3, <2>5, <2>6, <2>7, <2>10, <2>11 DEF Told
  <1> QED BY <1>1 DEF TInv, Tells

\* What r has reached stays reached for r itself, as long as it asks the same.
LEMMA Reached ==
    ASSUME NEW r \in Requests, Grows(r), body' = body
    PROVE  /\ HasUser(body[r].email) => HasUser(body[r].email)'
           /\ HasVerified(body[r].email) => HasVerified(body[r].email)'
           /\ Stored(user[r]) /\ user' = user => Stored(user[r])'
  <1>1. PICK e, u : e = body[r].email /\ u = user[r]
    OBVIOUS
  <1>2. /\ HasUser(e) => HasUser(e)'
        /\ HasVerified(e) => HasVerified(e)'
        /\ Stored(u) => Stored(u)'
    BY FoundStay
  <1> QED BY <1>1, <1>2

\* A step of r to `to' that changes neither users nor requests for the role.
Quiet(r, to) ==
    /\ pc' = [pc EXCEPT ![r] = to]
    /\ db'.users = db.users
    /\ db.userRoles \subseteq db'.userRoles
    /\ db.refreshTokens \subseteq db'.refreshTokens
    /\ db'.adminRequests = db.adminRequests
    /\ body' = body /\ user' = user /\ mailed' = mailed /\ lost' = lost

\* Such a step takes nothing from anybody.
LEMMA QuietGrows ==
    ASSUME TInv, NEW r \in Requests, NEW to, Quiet(r, to)
    PROVE  /\ UserTypes' /\ Grows(r)
           /\ pc'[r] = to
           /\ Told(r)' => Tells(r)
  <1>1. UserTypes' /\ Grows(r)
    BY DEF TInv, Quiet, UserTypes, Grows
  <1>2. /\ pc'[r] = to
        /\ user' = [user EXCEPT ![r] = user[r]]
        /\ body' = [body EXCEPT ![r] = body[r]]
    BY DEF Quiet, TInv, IInv, AdminTypes
  <1>3. Told(r)' => Tells(r)
    BY <1>1, <1>2 DEF Quiet, Tells
  <1> QED BY <1>1, <1>2, <1>3

\* The quiet steps, from where to where.
QuietMove(r, to) ==
    \/ to = "failed"
    \/ pc[r] = "role" /\ to \in {"create role", "assign"}
    \/ pc[r] = "create role" /\ to = "assign"
    \/ pc[r] = "verified" /\ to = "ok"
    \/ pc[r] = "verified" /\ to = "clear" /\ HasUser(body[r].email)
    \/ pc[r] = "clear" /\ to = "issue"
    \/ pc[r] = "issue" /\ to = "mail"
    \/ pc[r] = "drop" /\ to = "ok"
    \/ pc[r] = "reset clear" /\ to = "reset store"
    \/ pc[r] = "reset store" /\ to = "mail"
    \/ pc[r] = "used" /\ to = "ok"
    \/ pc[r] = "is admin" /\ to = "ask"
    \/ pc[r] = "approval" /\ to = "mail"
    \/ pc[r] = "may approve" /\ to = "approve"
    \/ pc[r] = "forget" /\ to = "promote"
    \/ pc[r] = "inform" /\ to = "ok"

\* Each of them keeps what r has reached.
LEMMA QuietTells ==
    ASSUME TInv, NEW r \in Requests, NEW to, Quiet(r, to), QuietMove(r, to)
    PROVE  Tells(r)
  <1>1. /\ Grows(r) /\ pc'[r] = to /\ Told(r) /\ Progress(r)
        /\ body' = body /\ user' = user /\ mailed' = mailed /\ lost' = lost
    BY QuietGrows DEF TInv, IInv, AllProgress, Quiet
  <1>2. /\ HasUser(body[r].email) => HasUser(body[r].email)'
        /\ HasVerified(body[r].email) => HasVerified(body[r].email)'
        /\ Stored(user[r]) => Stored(user[r])'
    BY <1>1, Reached
  <1>3. pc[r] = "inform" /\ r \notin lost =>
            IsAdmin(db.adminRequests[body[r].token].user)'
    BY <1>1 DEF Told, Quiet, IsAdmin
  <1>4. to = "ok" => Answered(r)'
    <2>1. CASE pc[r] = "verified" /\ to = "ok"
      BY <1>1, <2>1 DEF Told, Answered
    <2>2. CASE pc[r] = "drop" /\ to = "ok"
      BY <1>1, <1>2, <2>2 DEF Told, Answered
    <2>3. CASE pc[r] = "used" /\ to = "ok"
      BY <1>1, <2>3 DEF Told, Answered
    <2>4. CASE pc[r] = "inform" /\ to = "ok"
      <3>1. /\ body[r].token \in Requests
            /\ db.adminRequests[body[r].token] # None
        BY <1>1, <2>4 DEF Progress, Approving
      <3> QED BY <1>1, <1>3, <2>4, <3>1 DEF Told, Answered, Approving, Quiet
    <2> QED BY <2>1, <2>2, <2>3, <2>4 DEF QuietMove
  <1>5. Told(r)'
    BY <1>1, <1>2, <1>4 DEF Told, Progress, Asking, Approving, QuietMove
  <1> QED BY <1>5, QuietGrows

\* The steps that change no user and find none.
LEMMA QuietSteps ==
    ASSUME TInv, NEW r \in Requests
    PROVE  /\ GetRoleByName(r) => Tells(r)
           /\ CreateRole(r) => Tells(r)
           /\ IsVerified(r) => Tells(r)
           /\ DeleteVerificationTokens(r) => Tells(r)
           /\ CreateVerificationToken(r) => Tells(r)
           /\ DeleteVerificationToken(r) => Tells(r)
           /\ SendPasswordResetEmail(r) => Tells(r)
           /\ StorePasswordResetToken(r) => Tells(r)
           /\ DeletePasswordResetToken(r) => Tells(r)
           /\ AlreadyAdmin(r) => Tells(r)
           /\ StoreApprovalToken(r) => Tells(r)
           /\ MayApprove(r) => Tells(r)
           /\ DeleteApprovalToken(r) => Tells(r)
           /\ SendApprovedMail(r) => Tells(r)
           /\ Fail(r) => Tells(r)
  <1> DEFINE Goes == \E to : Quiet(r, to) /\ QuietMove(r, to)
  <1>0. Goes => Tells(r)
    BY QuietTells
  <1>a. db = [x \in Fields |-> db[x]]
    BY DEF TInv, IInv, AdminTypes
  <1> USE <1>a DEF Fields, Quiet, QuietMove, Branch, Commit, Move, Goto
  <1>1. ASSUME GetRoleByName(r) PROVE Goes
    BY <1>1 DEF GetRoleByName
  <1>2. ASSUME CreateRole(r) PROVE Goes
    BY <1>2 DEF CreateRole
  <1>3. ASSUME IsVerified(r) PROVE Goes
    BY <1>3 DEF IsVerified, HasUser, GetUserByEmail
  <1>4. ASSUME DeleteVerificationTokens(r) PROVE Goes
    BY <1>4 DEF DeleteVerificationTokens
  <1>5. ASSUME CreateVerificationToken(r) PROVE Goes
    BY <1>5 DEF CreateVerificationToken
  <1>6. ASSUME DeleteVerificationToken(r) PROVE Goes
    BY <1>6 DEF DeleteVerificationToken
  <1>7. ASSUME SendPasswordResetEmail(r) PROVE Goes
    BY <1>7 DEF SendPasswordResetEmail
  <1>8. ASSUME StorePasswordResetToken(r) PROVE Goes
    BY <1>8 DEF StorePasswordResetToken
  <1>9. ASSUME DeletePasswordResetToken(r) PROVE Goes
    BY <1>9 DEF DeletePasswordResetToken
  <1>10. ASSUME AlreadyAdmin(r) PROVE Goes
    BY <1>10 DEF AlreadyAdmin
  <1>11. ASSUME StoreApprovalToken(r) PROVE Goes
    BY <1>11 DEF StoreApprovalToken
  <1>12. ASSUME MayApprove(r) PROVE Goes
    BY <1>12 DEF MayApprove
  <1>13. ASSUME DeleteApprovalToken(r) PROVE Goes
    BY <1>13 DEF DeleteApprovalToken
  <1>14. ASSUME SendApprovedMail(r) PROVE Goes
    BY <1>14 DEF SendApprovedMail
  <1>15. ASSUME Fail(r) PROVE Goes
    BY <1>15 DEF Fail
  <1> QED
    BY <1>0, <1>1, <1>2, <1>3, <1>4, <1>5, <1>6, <1>7, <1>8,
       <1>9, <1>10, <1>11, <1>12, <1>13, <1>14, <1>15

\* A user is inserted only where none was, under the request's own number.
LEMMA CreateUserTells ==
    ASSUME TInv, NEW r \in Requests, CreateUser(r)
    PROVE  Tells(r)
  <1> DEFINE row == [email |-> body[r].email,
                     google |-> body[r].op = "google",
                     password |-> IF body[r].op = "google" THEN None ELSE r,
                     verified |-> FALSE]
  <1>1. pc[r] = "insert" /\ Told(r)
    BY DEF CreateUser, Branch, Commit, ExecTx, Move, TInv
  <1>2. CASE GetUserByEmail(body[r].email) # {}
    BY <1>2, QuietTells
       DEF CreateUser, Branch, Commit, Move, Goto, Quiet, QuietMove
  <1>3. CASE GetUserByEmail(body[r].email) = {}
    <2>1. /\ pc' = [pc EXCEPT ![r] = "role"]
          /\ body' = body /\ user' = user /\ mailed' = mailed
          /\ lost \subseteq lost'
          /\ db' = db \/ db' = [db EXCEPT !.users[r] = row]
      BY <1>3 DEF CreateUser, ExecTx, Commit, Move, Goto, InsertUser
    <2>2. row \in Users /\ row # None
      <3>1. /\ body[r].email \in Emails
            /\ r \in Ids
        BY <1>1 DEF Told, Ids
      <3>2. (body[r].op = "google") \in BOOLEAN
        OBVIOUS
      <3>3. (IF body[r].op = "google" THEN None ELSE r) \in Ids \union {None}
        BY <3>1
      <3>4. row \in Users
        BY <3>1, <3>2, <3>3 DEF Users
      <3>5. None \notin Users
        BY AccountsAssumption
      <3> QED BY <3>4, <3>5
    <2>3. /\ db'.users = db.users \/ db'.users = [db.users EXCEPT ![r] = row]
          /\ db'.userRoles = db.userRoles
          /\ db'.refreshTokens = db.refreshTokens
          /\ db'.adminRequests = db.adminRequests
      BY <2>1 DEF TInv, IInv, AdminTypes, Fields
    <2> HIDE DEF row
    <2>4. UserTypes'
      BY <2>2, <2>3 DEF TInv, UserTypes
    <2>5. db.users[r] = None
      BY <1>1 DEF Told
    <2>6. Grows(r)
      BY <2>2, <2>3, <2>5 DEF Grows, TInv, UserTypes
    <2>7. pc'[r] = "role" /\ user = [user EXCEPT ![r] = user[r]]
      BY <2>1 DEF TInv, IInv, AdminTypes
    <2>8. r \notin mailed
      BY <1>1 DEF TInv, IInv, AllProgress, Progress
    <2>9. Told(r)'
      BY <1>1, <2>1, <2>7, <2>8 DEF Told, Approving
    <2>10. body = [body EXCEPT ![r] = body[r]]
      BY DEF TInv, IInv, AdminTypes
    <2> QED BY <2>1, <2>4, <2>6, <2>7, <2>9, <2>10 DEF Tells
  <1> QED BY <1>2, <1>3

\* The foreign key of user_roles finds out a registration whose commit was lost.
LEMMA AssignRoleTells ==
    ASSUME TInv, NEW r \in Requests, AssignRoleToUser(r)
    PROVE  Tells(r)
  <1>1. pc[r] = "assign" /\ Told(r) /\ user[r] = r
    BY DEF AssignRoleToUser, TInv, Told
  <1>2. CASE ~MayAssign(r)
    BY <1>1, <1>2, QuietTells
       DEF AssignRoleToUser, Branch, Commit, Move, Goto, Quiet, QuietMove
  <1>3. CASE MayAssign(r)
    <2> DEFINE to == IF body[r].op = "google" THEN "store" ELSE "ok"
    <2>1. /\ pc' = [pc EXCEPT ![r] = to]
          /\ db' = [db EXCEPT !.userRoles = @ \union {<<r, "customer">>}]
          /\ body' = body /\ user' = user /\ mailed' = mailed /\ lost' = lost
      BY <1>1, <1>3 DEF AssignRoleToUser, Commit, Move, Goto, AssignRole
    <2>2. /\ db'.users = db.users
          /\ db'.userRoles = db.userRoles \union {<<r, "customer">>}
          /\ db'.refreshTokens = db.refreshTokens
          /\ db'.adminRequests = db.adminRequests
      BY <2>1 DEF TInv, IInv, AdminTypes, Fields
    <2>3. Quiet(r, to)
      BY <2>1, <2>2 DEF Quiet
    <2>4. pc'[r] = to /\ (Told(r)' => Tells(r))
      BY <2>3, QuietGrows
    <2>5. db'.users[r] # None
      BY <1>3, <2>2 DEF MayAssign
    <2>6. Stored(user[r])'
      BY <1>1, <2>1, <2>5 DEF Stored, Ids
    <2>7. to = "ok" => Answered(r)'
      BY <1>1, <2>1, <2>2, <2>5 DEF Told, Answered
    <2>8. r \notin mailed
      BY <1>1 DEF TInv, IInv, AllProgress, Progress
    <2>9. Told(r)'
      <3>1. CASE to = "store"
        BY <1>1, <2>1, <2>4, <2>6, <2>8, <3>1 DEF Told, Approving
      <3>2. CASE to = "ok"
        BY <1>1, <2>1, <2>4, <2>7, <2>8, <3>2 DEF Told, Approving
      <3> QED BY <3>1, <3>2
    <2> QED BY <2>4, <2>9
  <1> QED BY <1>2, <1>3

\* A step of r that finds a user i who is stored, and changes no user except
\* that it may give one a Google account.
LEMMA FindTells ==
    ASSUME TInv, NEW r \in Requests, NEW from, NEW to, NEW t,
           NEW i \in GetUserByEmail(body[r].email), Found(r, from, to, i, t),
           t = db \/ t = [db EXCEPT !.users[i].google = TRUE],
           \/ from = "check" /\ to = "store"
           \/ from = "google" /\ to = "store"
           \/ from = "find" /\ to = "set"
    PROVE  Tells(r)
  <1> DEFINE row == [db.users[i] EXCEPT !.google = TRUE]
  <1>1. /\ pc[r] = from /\ Told(r)
        /\ pc' = [pc EXCEPT ![r] = to]
        /\ user' = [user EXCEPT ![r] = i]
        /\ db' = t
        /\ body' = body /\ mailed' = mailed /\ lost' = lost
    BY DEF Found, Move, Goto, TInv
  <1>2. Stored(i) /\ db.users[i] \in Users
    BY DEF GetUserByEmail, TInv, UserTypes, Stored
  <1>3. /\ row \in Users /\ row # None
        /\ row.email = db.users[i].email
        /\ row.verified = db.users[i].verified
    BY <1>2, AccountsAssumption DEF Users
  <1>4. /\ db'.users = db.users \/ db'.users = [db.users EXCEPT ![i] = row]
        /\ db'.userRoles = db.userRoles
        /\ db'.refreshTokens = db.refreshTokens
        /\ db'.adminRequests = db.adminRequests
    BY <1>1 DEF TInv, IInv, AdminTypes, Fields
  <1> HIDE DEF row
  <1>5. UserTypes'
    BY <1>3, <1>4 DEF TInv, UserTypes
  <1>6. Grows(r)
    BY <1>2, <1>3, <1>4 DEF Grows, TInv, UserTypes, Stored
  <1>7. pc'[r] = to /\ user'[r] = i
    BY <1>1 DEF TInv, IInv, AdminTypes
  <1>8. Stored(i)'
    BY <1>2, <1>6 DEF Stored, Grows
  <1>9. r \notin mailed
    BY <1>1 DEF TInv, IInv, AllProgress, Progress
  <1>10. Told(r)'
    <2>1. Stored(user[r])'
      BY <1>7, <1>8
    <2> QED BY <1>1, <1>7, <1>9, <2>1 DEF Told, Approving
  <1>11. body = [body EXCEPT ![r] = body[r]]
    BY DEF TInv, IInv, AdminTypes
  <1> QED BY <1>1, <1>5, <1>6, <1>10, <1>11 DEF Tells

\* Signing in and resetting a password find a user who is stored.
LEMMA FindSteps ==
    ASSUME TInv, NEW r \in Requests
    PROVE  /\ CompareHashAndPassword(r) => Tells(r)
           /\ UpdateUserProfile(r) => Tells(r)
           /\ FindUser(r) => Tells(r)
  <1>1. ASSUME CompareHashAndPassword(r) PROVE Tells(r)
    <2>1. CASE Branch(r, "check", "failed")
      BY <2>1, QuietTells
         DEF Branch, Commit, Move, Goto, Quiet, QuietMove
    <2> QED BY <1>1, <2>1, FindTells DEF CompareHashAndPassword
  <1>2. ASSUME UpdateUserProfile(r) PROVE Tells(r)
    <2>1. CASE Branch(r, "google", "insert")
      <3>1. pc[r] = "google" /\ Quiet(r, "insert") /\ Told(r)
        BY <2>1 DEF Branch, Commit, Move, Goto, Quiet, TInv
      <3>2. pc'[r] = "insert" /\ (Told(r)' => Tells(r))
        BY <3>1, QuietGrows
      <3>3. r \notin mailed
        BY <3>1 DEF TInv, IInv, AllProgress, Progress
      <3>4. Told(r)'
        BY <3>1, <3>2, <3>3 DEF Told, Quiet, Approving
      <3> QED BY <3>2, <3>4
    <2> QED BY <1>2, <2>1, FindTells DEF UpdateUserProfile
  <1>3. ASSUME FindUser(r) PROVE Tells(r)
    BY <1>3, FindTells DEF FindUser
  <1> QED BY <1>1, <1>2, <1>3

\* The refresh token is stored before the answer.
LEMMA StoreRefreshTokenTells ==
    ASSUME TInv, NEW r \in Requests, StoreRefreshToken(r)
    PROVE  Tells(r)
  <1>1. /\ pc[r] = "store" /\ Told(r)
        /\ pc' = [pc EXCEPT ![r] = "ok"]
        /\ db' = [db EXCEPT !.refreshTokens = @ \union {r}]
        /\ body' = body /\ user' = user /\ mailed' = mailed /\ lost' = lost
    BY DEF StoreRefreshToken, Commit, Move, Goto, TInv
  <1>2. /\ db'.users = db.users
        /\ db'.userRoles = db.userRoles
        /\ db'.refreshTokens = db.refreshTokens \union {r}
        /\ db'.adminRequests = db.adminRequests
    BY <1>1 DEF TInv, IInv, AdminTypes, Fields
  <1>3. Quiet(r, "ok")
    BY <1>1, <1>2 DEF Quiet
  <1>4. pc'[r] = "ok" /\ Grows(r) /\ (Told(r)' => Tells(r))
    BY <1>3, QuietGrows
  <1>5. Stored(user[r])'
    BY <1>1, <1>4, Reached DEF Told
  <1>6. Answered(r)'
    BY <1>1, <1>2, <1>5 DEF Told, Answered
  <1>7. r \notin mailed
    BY <1>1 DEF TInv, IInv, AllProgress, Progress
  <1>8. Told(r)'
    BY <1>1, <1>4, <1>6, <1>7 DEF Told, Approving
  <1> QED BY <1>4, <1>8

\* The mail is sent to an address for which a user is stored.
LEMMA SendMailTells ==
    ASSUME TInv, NEW r \in Requests, SendMail(r)
    PROVE  Tells(r)
  <1>1. PICK to \in {"ok", "failed"} :
            /\ pc[r] = "mail" /\ Told(r)
            /\ pc' = [pc EXCEPT ![r] = to]
            /\ mailed' = mailed \union {r}
            /\ db' = db /\ body' = body /\ user' = user /\ lost' = lost
    BY DEF SendMail, Move, Goto, TInv
  <1>2. UserTypes' /\ Grows(r)
    BY <1>1 DEF TInv, UserTypes, Grows
  <1>3. /\ pc'[r] = to
        /\ user = [user EXCEPT ![r] = user[r]]
        /\ body = [body EXCEPT ![r] = body[r]]
    BY <1>1 DEF TInv, IInv, AdminTypes
  <1>4. HasUser(body[r].email) => HasUser(body[r].email)'
    BY <1>1, <1>2, Reached
  <1>5. Answered(r)'
    BY <1>1 DEF Told, Answered
  <1>6. Told(r)'
    BY <1>1, <1>3, <1>4, <1>5 DEF Told, Approving
  <1> QED BY <1>1, <1>2, <1>3, <1>6 DEF Tells

\* The users with the address are verified, or the commit is lost.
LEMMA UpdateUserEmailVerifiedTells ==
    ASSUME TInv, NEW r \in Requests, UpdateUserEmailVerified(r)
    PROVE  Tells(r)
  <1> DEFINE found == GetUserByEmail(body[r].email)
             row(i) == [db.users[i] EXCEPT !.verified = TRUE]
             new == [i \in Ids |-> IF i \in found THEN row(i) ELSE db.users[i]]
  <1>1. /\ pc[r] = "mark" /\ Told(r)
        /\ pc' = [pc EXCEPT ![r] = "drop"]
        /\ \/ db' = db /\ lost' = lost \union {r}
           \/ db' = [db EXCEPT !.users = new] /\ lost' = lost
        /\ body' = body /\ user' = user /\ mailed' = mailed
    BY DEF UpdateUserEmailVerified, ExecTx, Commit, Move, Goto, TInv
  <1>2. \A i \in found : /\ i \in Ids /\ db.users[i] \in Users
    BY DEF GetUserByEmail, TInv, UserTypes
  <1>3. \A i \in found : /\ row(i) \in Users /\ row(i) # None
                         /\ row(i).email = db.users[i].email
                         /\ row(i).verified
    <2>1. None \notin Users
      BY AccountsAssumption
    <2> QED BY <1>2, <2>1 DEF Users
  <1>4. /\ db'.users = db.users \/ db'.users = new
        /\ db'.userRoles = db.userRoles
        /\ db'.refreshTokens = db.refreshTokens
        /\ db'.adminRequests = db.adminRequests
    <2> HIDE DEF new
    <2> QED BY <1>1 DEF TInv, IInv, AdminTypes, Fields
  <1> HIDE DEF row
  <1>5. UserTypes'
    BY <1>3, <1>4 DEF TInv, UserTypes
  <1>6. Grows(r)
    <2>1. \A i \in found : db.users[i] # None
      BY DEF GetUserByEmail
    <2> QED BY <1>3, <1>4, <2>1 DEF Grows, TInv, UserTypes
  <1>7. /\ pc'[r] = "drop"
        /\ user = [user EXCEPT ![r] = user[r]]
        /\ body = [body EXCEPT ![r] = body[r]]
    BY <1>1 DEF TInv, IInv, AdminTypes
  <1>8. HasUser(body[r].email)'
    BY <1>1, <1>6, Reached DEF Told
  <1>9. r \in lost' \/ HasVerified(body[r].email)'
    <2>1. CASE r \notin lost'
      <3>1. db'.users = new
        <4> HIDE DEF new
        <4> QED BY <1>1, <2>1 DEF TInv, IInv, AdminTypes, Fields
      <3>2. PICK i \in found : TRUE
        BY <1>1 DEF Told, HasUser
      <3>3. db'.users[i] = row(i)
        BY <1>2, <3>1, <3>2
      <3>4. db.users[i].email = body[r].email
        BY <3>2 DEF GetUserByEmail
      <3> QED BY <1>1, <1>2, <1>3, <3>2, <3>3, <3>4
              DEF HasVerified, GetUserByEmail
    <2> QED BY <2>1
  <1>10. r \notin mailed
    BY <1>1 DEF TInv, IInv, AllProgress, Progress
  <1>11. Told(r)'
    BY <1>1, <1>7, <1>8, <1>9, <1>10 DEF Told, Approving
  <1>12. lost \subseteq lost'
    BY <1>1
  <1> QED BY <1>1, <1>5, <1>6, <1>7, <1>11, <1>12 DEF Tells

\* A user who resets a password stays, with the address.
LEMMA UpdateUserPasswordTells ==
    ASSUME TInv, NEW r \in Requests, UpdateUserPassword(r)
    PROVE  Tells(r)
  <1> DEFINE i == user[r]
             row == [db.users[i] EXCEPT !.password = r]
  <1>1. /\ pc[r] = "set" /\ Told(r)
        /\ pc' = [pc EXCEPT ![r] = "used"]
        /\ db' = [db EXCEPT !.users[i].password = r]
        /\ body' = body /\ user' = user /\ mailed' = mailed /\ lost' = lost
    BY DEF UpdateUserPassword, Commit, Move, Goto, TInv
  <1>2. i \in Ids /\ db.users[i] # None /\ db.users[i] \in Users
    BY <1>1 DEF Told, Stored, TInv, UserTypes
  <1>3. /\ row \in Users /\ row # None
        /\ row.email = db.users[i].email
        /\ row.verified = db.users[i].verified
    <2>1. None \notin Users
      BY AccountsAssumption
    <2> QED BY <1>2, <2>1 DEF Users, Ids
  <1>4. /\ db'.users = [db.users EXCEPT ![i] = row]
        /\ db'.userRoles = db.userRoles
        /\ db'.refreshTokens = db.refreshTokens
        /\ db'.adminRequests = db.adminRequests
    BY <1>1 DEF TInv, IInv, AdminTypes, Fields
  <1> HIDE DEF row
  <1>5. UserTypes'
    BY <1>3, <1>4 DEF TInv, UserTypes
  <1>6. Grows(r)
    BY <1>2, <1>3, <1>4 DEF Grows, TInv, UserTypes
  <1>7. /\ pc'[r] = "used"
        /\ user = [user EXCEPT ![r] = user[r]]
        /\ body = [body EXCEPT ![r] = body[r]]
    BY <1>1 DEF TInv, IInv, AdminTypes
  <1>8. r \notin mailed
    BY <1>1 DEF TInv, IInv, AllProgress, Progress
  <1>9. Told(r)'
    BY <1>1, <1>7, <1>8 DEF Told, Approving
  <1> QED BY <1>1, <1>5, <1>6, <1>7, <1>9 DEF Tells

\* A request for the role is inserted once, and keeps its user.
LEMMA CreateAdminRequestTells ==
    ASSUME TInv, NEW r \in Requests, CreateAdminRequest(r)
    PROVE  Tells(r)
  <1>1. pc[r] = "ask" /\ Told(r) /\ Progress(r)
    BY DEF CreateAdminRequest, Branch, Commit, Move, TInv, IInv, AllProgress
  <1>2. CASE HasPending(user[r])
    BY <1>2, QuietTells
       DEF CreateAdminRequest, Branch, Commit, Move, Goto, Quiet, QuietMove
  <1>3. CASE ~HasPending(user[r])
    <2> DEFINE row == [user |-> user[r], status |-> "PENDING"]
    <2>1. /\ pc' = [pc EXCEPT ![r] = "approval"]
          /\ db' = [db EXCEPT !.adminRequests[r] = row]
          /\ body' = body /\ user' = user /\ mailed' = mailed /\ lost' = lost
      BY <1>3 DEF CreateAdminRequest, Commit, Move, Goto
    <2>2. /\ db'.users = db.users
          /\ db'.userRoles = db.userRoles
          /\ db'.refreshTokens = db.refreshTokens
          /\ db'.adminRequests = [db.adminRequests EXCEPT ![r] = row]
      BY <2>1 DEF TInv, IInv, AdminTypes, Fields
    <2>3. db.adminRequests[r] = None
      BY <1>1 DEF Progress
    <2>4. UserTypes' /\ Grows(r)
      BY <2>2, <2>3 DEF TInv, IInv, AdminTypes, UserTypes, Grows
    <2>5. /\ pc'[r] = "approval"
          /\ user = [user EXCEPT ![r] = user[r]]
          /\ body = [body EXCEPT ![r] = body[r]]
      BY <2>1 DEF TInv, IInv, AdminTypes
    <2>6. r \notin mailed
      BY <1>1 DEF Progress
    <2>7. Told(r)'
      BY <1>1, <2>1, <2>5, <2>6 DEF Told, Approving
    <2> QED BY <2>1, <2>4, <2>5, <2>7 DEF Tells
  <1> QED BY <1>2, <1>3

\* A request that is approved keeps its user.
LEMMA ApproveAdminRequestTells ==
    ASSUME TInv, NEW r \in Requests, ApproveAdminRequest(r)
    PROVE  Tells(r)
  <1> DEFINE t == body[r].token
             row == [db.adminRequests[t] EXCEPT !.status = "APPROVED"]
  <1>1. /\ pc[r] = "approve" /\ Told(r) /\ Progress(r)
        /\ pc' = [pc EXCEPT ![r] = "forget"]
        /\ db' = [db EXCEPT !.adminRequests[t].status = "APPROVED"]
        /\ body' = body /\ user' = user /\ mailed' = mailed /\ lost' = lost
    BY DEF ApproveAdminRequest, Commit, Move, Goto, TInv, IInv, AllProgress
  <1>2. t \in Requests /\ db.adminRequests[t] \in AdminRequests
    BY <1>1 DEF Progress, Approving, TInv, IInv, AdminTypes
  <1>3. row # None /\ row.user = db.adminRequests[t].user
    <2>1. None \notin AdminRequests
      BY AccountsAssumption
    <2> QED BY <1>2, <2>1 DEF AdminRequests
  <1>4. /\ db'.users = db.users
        /\ db'.userRoles = db.userRoles
        /\ db'.refreshTokens = db.refreshTokens
        /\ db'.adminRequests = [db.adminRequests EXCEPT ![t] = row]
    BY <1>1 DEF TInv, IInv, AdminTypes, Fields
  <1> HIDE DEF row
  <1>5. UserTypes' /\ Grows(r)
    BY <1>2, <1>3, <1>4 DEF TInv, IInv, AdminTypes, UserTypes, Grows
  <1>6. /\ pc'[r] = "forget"
        /\ user = [user EXCEPT ![r] = user[r]]
        /\ body = [body EXCEPT ![r] = body[r]]
    BY <1>1 DEF TInv, IInv, AdminTypes
  <1>7. r \notin mailed
    BY <1>1 DEF Progress
  <1>8. Told(r)'
    BY <1>1, <1>6, <1>7 DEF Told, Approving
  <1> QED BY <1>1, <1>5, <1>6, <1>8 DEF Tells

\* The user of the request becomes an administrator, or the commit is lost.
LEMMA PromoteUserTells ==
    ASSUME TInv, NEW r \in Requests, PromoteUser(r)
    PROVE  Tells(r)
  <1> DEFINE u == db.adminRequests[body[r].token].user
  <1>1. /\ pc[r] = "promote" /\ Told(r) /\ Progress(r)
        /\ pc' = [pc EXCEPT ![r] = "inform"]
        /\ \/ db' = db /\ lost' = lost \union {r}
           \/ /\ db' = [db EXCEPT !.userRoles = @ \union {<<u, "admin">>}]
              /\ lost' = lost
        /\ body' = body /\ user' = user /\ mailed' = mailed
    BY DEF PromoteUser, ExecTx, Commit, Move, Goto, MakeAdmin, TInv, IInv,
           AllProgress
  <1>2. /\ db'.users = db.users
        /\ db.userRoles \subseteq db'.userRoles
        /\ r \in lost' \/ <<u, "admin">> \in db'.userRoles
        /\ db'.refreshTokens = db.refreshTokens
        /\ db'.adminRequests = db.adminRequests
    BY <1>1 DEF TInv, IInv, AdminTypes, Fields
  <1>3. UserTypes' /\ Grows(r)
    BY <1>2 DEF TInv, UserTypes, Grows
  <1>4. /\ pc'[r] = "inform"
        /\ user = [user EXCEPT ![r] = user[r]]
        /\ body = [body EXCEPT ![r] = body[r]]
    BY <1>1 DEF TInv, IInv, AdminTypes
  <1>5. r \notin mailed
    BY <1>1 DEF Progress
  <1>6. r \in lost' \/ IsAdmin(db.adminRequests[body[r].token].user)'
    BY <1>1, <1>2 DEF IsAdmin
  <1>7. Told(r)'
    BY <1>1, <1>4, <1>5, <1>6 DEF Told, Approving
  <1>8. lost \subseteq lost'
    BY <1>1
  <1> QED BY <1>1, <1>3, <1>4, <1>7, <1>8 DEF Tells

\* A request that comes has reached nothing yet; the address of a verification
\* is one the mail was sent to.
LEMMA AcceptTells ==
    ASSUME TInv, NEW r \in Requests, NEW step, NEW op, NEW e, NEW t, NEW i,
           Accept(r, step, op, e, t, i),
           \/ step = "insert" /\ op = "register" /\ e \in Emails /\ i = r
           \/ step = "google" /\ op = "google" /\ e \in Emails /\ i = r
           \/ step = "check" /\ op = "login"
           \/ step = "verified" /\ op = "email"
           \/ step = "mark" /\ op = "verify" /\ HasUser(e)
           \/ step = "reset clear" /\ op = "forgot"
           \/ step = "find" /\ op = "reset"
           \/ step = "is admin" /\ op = "ask"
           \/ step = "may approve" /\ op = "approve"
           \/ step = "failed"
    PROVE  Tells(r)
  <1>1. /\ pc[r] = "idle" /\ Told(r) /\ Progress(r)
        /\ pc' = [pc EXCEPT ![r] = step]
        /\ body' = [body EXCEPT ![r] = [op |-> op, email |-> e, token |-> t]]
        /\ user' = [user EXCEPT ![r] = i]
        /\ db' = db /\ mailed' = mailed /\ lost' = lost
    BY DEF Accept, Move, Goto, TInv, IInv, AllProgress
  <1>2. UserTypes' /\ Grows(r)
    BY <1>1 DEF TInv, UserTypes, Grows
  <1>3. /\ pc'[r] = step /\ user'[r] = i
        /\ body'[r].op = op /\ body'[r].email = e
    BY <1>1 DEF TInv, IInv, AdminTypes
  <1>4. r \notin mailed'
    BY <1>1 DEF Progress
  <1>5. db'.users[r] = None
    BY <1>1 DEF Told
  <1>6. HasUser(e) => HasUser(e)'
    BY <1>2, FoundStay
  <1>7. Told(r)'
    <2>1. HasUser(e) => HasUser(body[r].email)'
      BY <1>3, <1>6
    <2> QED BY <1>3, <1>4, <1>5, <2>1 DEF Told, Approving
  <1> QED BY <1>1, <1>2, <1>7 DEF Tells

\* Every request that comes is such a one.
LEMMA StartTells ==
    ASSUME TInv, NEW r \in Requests, Start(r)
    PROVE  Tells(r)
  <1>1. CASE \E e \in Emails :
                \/ RegisterUser(r, e) \/ LoginWithGoogle(r, e)
                \/ EmailVerified(r, e) \/ RequestPasswordReset(r, e)
                \/ \E p \in Ids : LoginUser(r, e, p)
    BY <1>1, AcceptTells DEF RegisterUser, LoginWithGoogle, EmailVerified,
                             RequestPasswordReset, LoginUser
  <1>2. CASE \E i \in Ids : UpdateUserInfo(r, i) \/ RequestAdminRole(r, i)
    BY <1>2, AcceptTells DEF UpdateUserInfo, RequestAdminRole
  <1>3. CASE \E t \in Requests :
                \/ VerifyEmail(r, t) \/ ResetPassword(r, t)
                \/ \E i \in Ids : ApproveAdminRole(r, i, t)
    <2>1. PICK t \in Requests :
              \/ VerifyEmail(r, t) \/ ResetPassword(r, t)
              \/ \E i \in Ids : ApproveAdminRole(r, i, t)
      BY <1>3
    <2>2. CASE VerifyEmail(r, t)
      <3>1. PICK e : e = body[t].email
        OBVIOUS
      <3>2. HasUser(e)
        BY <2>2, <3>1 DEF VerifyEmail, Mailed, TInv, Told
      <3>3. Accept(r, "mark", "verify", e, t, None)
        BY <2>2, <3>1 DEF VerifyEmail
      <3> QED BY <3>2, <3>3, AcceptTells
    <2>3. CASE ResetPassword(r, t)
      <3>1. PICK e : e = body[t].email
        OBVIOUS
      <3>2. Accept(r, "find", "reset", e, t, None)
        BY <2>3, <3>1 DEF ResetPassword
      <3> QED BY <3>2, AcceptTells
    <2>4. CASE \E i \in Ids : ApproveAdminRole(r, i, t)
      BY <2>4, AcceptTells DEF ApproveAdminRole
    <2> QED BY <2>1, <2>2, <2>3, <2>4
  <1> QED BY <1>1, <1>2, <1>3 DEF Start

\* The invariant of the answers holds in every state.
LEMMA AnswersInductive == Spec => []TInv
  <1>1. TInv /\ [Next]_vars => TInv'
    <2>1. ASSUME TInv, Next PROVE TInv'
      <3>1. PICK r \in Requests : Start(r) \/ Step(r)
        BY <2>1 DEF Next
      <3>2. IInv'
        BY <2>1, <3>1, StartKeeps, StepKeeps DEF TInv
      <3>3. Start(r) => Tells(r)
        BY <2>1, StartTells
      <3>4. Step(r) => Tells(r)
        BY <2>1, QuietSteps, CreateUserTells, AssignRoleTells, FindSteps,
           StoreRefreshTokenTells, SendMailTells,
           UpdateUserEmailVerifiedTells, UpdateUserPasswordTells,
           CreateAdminRequestTells, ApproveAdminRequestTells,
           PromoteUserTells
           DEF Step
      <3> QED BY <2>1, <3>1, <3>2, <3>3, <3>4, TellsKeeps
    <2>2. ASSUME TInv, UNCHANGED vars PROVE TInv'
      <3>1. IInv'
        BY <2>2 DEF vars, TInv, IInv, AdminTypes, AllProgress, Progress,
                    Approved, AdminsWereApproved, IsAdmin
      <3>2. UserTypes'
        BY <2>2 DEF vars, TInv, UserTypes
      <3>3. ASSUME NEW r \in Requests PROVE Told(r)'
        <4>1. Grows(r) /\ Told(r)
          BY <2>2 DEF vars, Grows, TInv
        <4>2. /\ HasUser(body[r].email) => HasUser(body[r].email)'
              /\ HasVerified(body[r].email) => HasVerified(body[r].email)'
              /\ Stored(user[r]) => Stored(user[r])'
          BY <2>2, <4>1, Reached DEF vars
        <4>3. /\ db' = db /\ mailed' = mailed /\ lost' = lost
              /\ pc' = pc /\ body' = body /\ user' = user
          BY <2>2 DEF vars
        <4>4. Answered(r) => Answered(r)'
          BY <4>2, <4>3 DEF Answered, IsAdmin
        <4>5. pc[r] = "inform" /\ r \notin lost =>
                  IsAdmin(db.adminRequests[body[r].token].user)'
          BY <4>1, <4>3 DEF Told, IsAdmin
        <4> QED BY <4>1, <4>2, <4>3, <4>4, <4>5 DEF Told
      <3> QED BY <3>1, <3>2, <3>3 DEF TInv
    <2> QED BY <2>1, <2>2
  <1> QED BY <1>1, InitTInv, PTL DEF Spec

\* What a request answered for is in the tables: who registered is a customer,
\* who signed in has a refresh token, who verified an address or approved a
\* request did so, unless the request was told of a commit that was lost.
THEOREM AnswersHold == Spec => []AnswersAreTrue
  <1>1. TInv => AnswersAreTrue
    BY DEF TInv, Told, Answered, Stored, HasVerified, AnswersAreTrue
  <1> QED BY <1>1, AnswersInductive, PTL
=============================================================================
