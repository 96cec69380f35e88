------------------------------ MODULE Accounts ------------------------------
(***************************************************************************)
(* Accounts: UserHandler, UserService, AdminRequestService, their          *)
(* repositories and the tables users, roles, user_roles, refresh_tokens,   *)
(* verification_tokens, password_reset_tokens, admin_requests and          *)
(* admin_approval_tokens.                                                  *)
(*                                                                         *)
(* A request goes through several statements, each committed by itself: it *)
(* may stop after any of them and leave the earlier ones in place, and the *)
(* statements of other requests come in between.                           *)
(*                                                                         *)
(* A row or a token is known by the request that made it.                  *)
(***************************************************************************)
EXTENDS Naturals

CONSTANTS
    Requests,
    Emails,
    Length,     \* Length[e]: the number of characters of address e
    Known,      \* the users who exist from the start, customers if the role is
    Admins,     \* the administrators among them
    KnownEmail, \* KnownEmail[i]: the address of i
    None

Ids == Requests \union Known
AdminRequests == [user : Ids, status : {"PENDING", "APPROVED"}]
Users == [email : Emails, google : BOOLEAN, password : Ids \union {None},
          verified : BOOLEAN]

ASSUME AccountsAssumption ==
    /\ Length \in [Emails -> Nat]
    /\ Admins \subseteq Known
    /\ KnownEmail \in [Known -> Emails]
    /\ \A i, j \in Known : KnownEmail[i] = KnownEmail[j] => i = j
    /\ Requests \intersect Known = {}
    /\ None \notin Ids \union Emails \union AdminRequests \union Users

VARIABLES
    db,         \* the tables
    mailed,     \* the requests whose mail, and the token in it, was sent
    lost,       \* the requests that were told of a commit that failed
    pc,         \* pc[r]: the step that request r takes next
    body,       \* body[r]: what it asks for
    user        \* user[r]: the user it is about

vars == <<db, mailed, lost, pc, body, user>>

Done == {"idle", "ok", "failed"}
NoBody == [op |-> "none", email |-> None, token |-> None]

Init ==
    /\ \E names \in {{"admin"}, {"admin", "customer"}} :
          db = [users |-> [i \in Ids |->
                   IF i \in Known
                   THEN [email |-> KnownEmail[i], password |-> i,
                         google |-> FALSE, verified |-> TRUE]
                   ELSE None],
                roles |-> names,
                userRoles |-> (Admins \X {"admin"})
                                \union (Known \X (names \ {"admin"})),
                refreshTokens |-> {}, verificationTokens |-> {},
                resetTokens |-> {}, approvalTokens |-> {},
                adminRequests |-> [r2 \in Requests |-> None]]
    /\ mailed = {}
    /\ lost = {}
    /\ pc = [r \in Requests |-> "idle"]
    /\ body = [r \in Requests |-> NoBody]
    /\ user = [r \in Requests |-> None]

Goto(r, step) == pc' = [pc EXCEPT ![r] = step]
Move(r, from, to) == pc[r] = from /\ Goto(r, to)

\* A statement of r that commits, and changes the tables to t.
Commit(r, from, to, t) ==
    /\ Move(r, from, to)
    /\ db' = t
    /\ UNCHANGED <<mailed, lost, body, user>>

\* A step of r that writes no table.
Branch(r, from, to) == Commit(r, from, to, db)

\* UserRepository.execTx: a deferred function commits, and assigns the error
\* of the commit to a variable that is not the result.
ExecTx(r, from, to, t) ==
    \/ Commit(r, from, to, t)
    \/ /\ Move(r, from, to)
       /\ lost' = lost \union {r}
       /\ UNCHANGED <<db, mailed, body, user>>

Accept(r, step, op, e, t, i) ==
    /\ Move(r, "idle", step)
    /\ body' = [body EXCEPT ![r] = [op |-> op, email |-> e, token |-> t]]
    /\ user' = [user EXCEPT ![r] = i]
    /\ UNCHANGED <<db, mailed, lost>>

\* A step of r that finds the user i.
Found(r, from, to, i, t) ==
    /\ Move(r, from, to)
    /\ user' = [user EXCEPT ![r] = i]
    /\ db' = t
    /\ UNCHANGED <<mailed, lost, body>>

\* A statement, a commit, S3 or the mail server answers an error, or the
\* client goes away: what was committed stays.
Fail(r) ==
    /\ pc[r] \notin Done
    /\ Goto(r, "failed")
    /\ UNCHANGED <<db, mailed, lost, body, user>>

-----------------------------------------------------------------------------
(* Queries.                                                                *)

GetUserByEmail(e) ==
    {i \in Ids : db.users[i] # None /\ db.users[i].email = e}

IsAdmin(i) == <<i, "admin">> \in db.userRoles

\* INSERT INTO users, the e-mail address of which is unique.
InsertUser(r) ==
    [db EXCEPT !.users[r] =
        [email |-> body[r].email, google |-> body[r].op = "google",
         password |-> IF body[r].op = "google" THEN None ELSE r,
         verified |-> FALSE]]

\* Mutant: user_roles without its foreign keys.
AssignsUnchecked(i) == <<i, "customer">> \notin db.userRoles

\* Both foreign keys of user_roles hold, and the pair is new.
MayAssign(i) ==
    /\ db.users[i] # None
    /\ <<i, "customer">> \notin db.userRoles

AssignRole(i) ==
    [db EXCEPT !.userRoles = @ \union {<<i, "customer">>}]

\* ON CONFLICT DO NOTHING.
MakeAdmin(i) == [db EXCEPT !.userRoles = @ \union {<<i, "admin">>}]

ByEmail(tokens, e) == {t \in tokens : body[t].email = e}

\* The number of characters of a JWT with n characters of claims: a header of
\* 36 and a signature of 43, and base64 without padding.
JwtLength(n) == 36 + 1 + (4 * n + 2) \div 3 + 1 + 43

\* PasswordResetClaims hold the address twice; the column takes 255.
ResetTokenFits(e) == JwtLength(55 + 2 * Length[e]) <= 255

\* The partial unique index: one pending request of a user.
HasPending(i) ==
    \E r \in Requests :
        db.adminRequests[r] = [user |-> i, status |-> "PENDING"]

-----------------------------------------------------------------------------
(* Registration and sign-in.                                               *)

RegisterUser(r, e) == Accept(r, "insert", "register", e, None, r)

CreateUser(r) ==
    IF GetUserByEmail(body[r].email) # {}
    THEN Branch(r, "insert", "failed")
    ELSE ExecTx(r, "insert", "role", InsertUser(r))

\* Registration creates the role when it is missing; LoginWithGoogle stops.
GetRoleByName(r) ==
    \/ "customer" \in db.roles /\ Branch(r, "role", "assign")
    \/ /\ "customer" \notin db.roles
       /\ Branch(r, "role",
                 IF body[r].op = "google" THEN "failed" ELSE "create role")

\* role_name is unique: of two first registrations one fails.
CreateRole(r) ==
    IF "customer" \in db.roles
    THEN Branch(r, "create role", "failed")
    ELSE Commit(r, "create role", "assign",
                [db EXCEPT !.roles = @ \union {"customer"}])

AssignRoleToUser(r) ==
    /\ pc[r] = "assign"
    /\ IF MayAssign(user[r])
       THEN Commit(r, "assign",
                   IF body[r].op = "google" THEN "store" ELSE "ok",
                   AssignRole(user[r]))
       ELSE Branch(r, "assign", "failed")

LoginUser(r, e, p) == Accept(r, "check", "login", e, p, None)

\* p is the registration or the reset that chose the password given.
MayLogin(i, p) ==
    db.users[i].password = p /\ db.users[i].verified

CompareHashAndPassword(r) ==
    LET allowed == {i \in GetUserByEmail(body[r].email) :
                       MayLogin(i, body[r].token)}
    IN  \/ allowed = {} /\ Branch(r, "check", "failed")
        \/ \E i \in allowed : Found(r, "check", "store", i, db)

LoginWithGoogle(r, e) == Accept(r, "google", "google", e, None, r)

\* A user who registered with the address becomes a Google user, and keeps
\* password and roles.
UpdateUserProfile(r) ==
    \/ /\ GetUserByEmail(body[r].email) = {}
       /\ Branch(r, "google", "insert")
    \/ \E i \in GetUserByEmail(body[r].email) :
          Found(r, "google", "store", i, [db EXCEPT !.users[i].google = TRUE])

\* The time of the login and the list of roles come after it; the error of
\* the first is only logged.
StoreRefreshToken(r) ==
    Commit(r, "store", "ok", [db EXCEPT !.refreshTokens = @ \union {r}])

\* getUserIDFromContext reads a key under which no middleware puts the user:
\* neither image nor profile is touched.
UpdateUserInfo(r, i) ==
    /\ db.users[i] # None
    /\ Accept(r, "failed", "profile", None, None, i)

-----------------------------------------------------------------------------
(* Verification of the address, and forgotten passwords.                   *)

EmailVerified(r, e) == Accept(r, "verified", "email", e, None, None)

IsVerified(r) ==
    \/ GetUserByEmail(body[r].email) = {} /\ Branch(r, "verified", "failed")
    \/ \E i \in GetUserByEmail(body[r].email) :
          Branch(r, "verified",
                 IF db.users[i].verified THEN "ok" ELSE "clear")

DeleteVerificationTokens(r) ==
    Commit(r, "clear", "issue",
           [db EXCEPT !.verificationTokens =
                          @ \ ByEmail(@, body[r].email)])

CreateVerificationToken(r) ==
    Commit(r, "issue", "mail",
           [db EXCEPT !.verificationTokens = @ \union {r}])

\* The mail server takes the mail, and its answer may be lost.
SendMail(r) ==
    /\ \E to \in {"ok", "failed"} : Move(r, "mail", to)
    /\ mailed' = mailed \union {r}
    /\ UNCHANGED <<db, lost, body, user>>

Mailed(t, op) == t \in mailed /\ body[t].op = op

\* The link counts for its signature: the table is not asked for the token.
VerifyEmail(r, t) ==
    /\ Mailed(t, "email")
    /\ Accept(r, "mark", "verify", body[t].email, t, None)

UpdateUserEmailVerified(r) ==
    ExecTx(r, "mark", "drop",
           [db EXCEPT !.users = [i \in Ids |->
               IF i \in GetUserByEmail(body[r].email)
               THEN [@[i] EXCEPT !.verified = TRUE] ELSE @[i]]])

\* The statement compares the address with the tokens, and none is equal.
DeleteVerificationToken(r) ==
    Commit(r, "drop", "ok",
           [db EXCEPT !.verificationTokens = @ \ {body[r].email}])

RequestPasswordReset(r, e) ==
    Accept(r, "reset clear", "forgot", e, None, None)

SendPasswordResetEmail(r) ==
    IF GetUserByEmail(body[r].email) = {}
    THEN Branch(r, "reset clear", "failed")
    ELSE Commit(r, "reset clear", "reset store",
                [db EXCEPT !.resetTokens = @ \ ByEmail(@, body[r].email)])

StorePasswordResetToken(r) ==
    /\ pc[r] = "reset store"
    /\ IF ResetTokenFits(body[r].email)
       THEN Commit(r, "reset store", "mail",
                   [db EXCEPT !.resetTokens = @ \union {r}])
       ELSE Branch(r, "reset store", "failed")

\* This link too counts for its signature: one used already, or replaced by
\* a later one, resets the password until its hour is over.
ResetPassword(r, t) ==
    /\ Mailed(t, "forgot")
    /\ Accept(r, "find", "reset", body[t].email, t, None)

FindUser(r) ==
    \E i \in GetUserByEmail(body[r].email) : Found(r, "find", "set", i, db)

UpdateUserPassword(r) ==
    Commit(r, "set", "used", [db EXCEPT !.users[user[r]].password = r])

DeletePasswordResetToken(r) ==
    Commit(r, "used", "ok",
           [db EXCEPT !.resetTokens = @ \ ByEmail(@, body[r].email)])

-----------------------------------------------------------------------------
(* Requests for the administrator's role.                                  *)

RequestAdminRole(r, i) ==
    /\ db.users[i] # None
    /\ Accept(r, "is admin", "ask", None, None, i)

AlreadyAdmin(r) ==
    Branch(r, "is admin", IF IsAdmin(user[r]) THEN "failed" ELSE "ask")

CreateAdminRequest(r) ==
    IF HasPending(user[r])
    THEN Branch(r, "ask", "failed")
    ELSE Commit(r, "ask", "approval",
                [db EXCEPT !.adminRequests[r] =
                               [user |-> user[r], status |-> "PENDING"]])

StoreApprovalToken(r) ==
    Commit(r, "approval", "mail",
           [db EXCEPT !.approvalTokens = @ \union {r}])

ApproveAdminRole(r, i, t) ==
    /\ db.users[i] # None
    /\ Mailed(t, "ask")
    /\ Accept(r, "may approve", "approve", None, t, i)

MayApprove(r) ==
    Branch(r, "may approve", IF IsAdmin(user[r]) THEN "approve" ELSE "failed")

\* Mutant: the role is given before the request is approved.
ApproveLast(r) ==
    /\ pc[r] = "approve"
    /\ ExecTx(r, "approve", "forget",
              MakeAdmin(db.adminRequests[body[r].token].user))

\* Mutant: the token goes before the request is approved.
ForgetFirst(r) ==
    Commit(r, "approve", "forget",
           [db EXCEPT !.approvalTokens = @ \ {body[r].token}])

\* UPDATE ... WHERE status = 'PENDING': of a request approved before, nothing
\* changes, and the rest is done again.
ApproveAdminRequest(r) ==
    Commit(r, "approve", "forget",
           [db EXCEPT !.adminRequests[body[r].token].status = "APPROVED"])

DeleteApprovalToken(r) ==
    Commit(r, "forget", "promote",
           [db EXCEPT !.approvalTokens = @ \ {body[r].token}])

PromoteUser(r) ==
    /\ pc[r] = "promote"
    /\ ExecTx(r, "promote", "inform",
              MakeAdmin(db.adminRequests[body[r].token].user))

SendApprovedMail(r) == Branch(r, "inform", "ok")

-----------------------------------------------------------------------------
(* Specification.                                                          *)

Start(r) ==
    \/ \E e \in Emails :
          \/ RegisterUser(r, e)
          \/ LoginWithGoogle(r, e)
          \/ EmailVerified(r, e)
          \/ RequestPasswordReset(r, e)
          \/ \E p \in Ids : LoginUser(r, e, p)
    \/ \E i \in Ids : UpdateUserInfo(r, i) \/ RequestAdminRole(r, i)
    \/ \E t \in Requests :
          \/ VerifyEmail(r, t)
          \/ ResetPassword(r, t)
          \/ \E i \in Ids : ApproveAdminRole(r, i, t)

Step(r) ==
    \/ CreateUser(r) \/ GetRoleByName(r) \/ CreateRole(r)
    \/ AssignRoleToUser(r) \/ CompareHashAndPassword(r)
    \/ UpdateUserProfile(r) \/ StoreRefreshToken(r)
    \/ IsVerified(r) \/ DeleteVerificationTokens(r)
    \/ CreateVerificationToken(r) \/ SendMail(r)
    \/ UpdateUserEmailVerified(r) \/ DeleteVerificationToken(r)
    \/ SendPasswordResetEmail(r) \/ StorePasswordResetToken(r)
    \/ FindUser(r) \/ UpdateUserPassword(r) \/ DeletePasswordResetToken(r)
    \/ AlreadyAdmin(r) \/ CreateAdminRequest(r) \/ StoreApprovalToken(r)
    \/ MayApprove(r) \/ ApproveAdminRequest(r) \/ DeleteApprovalToken(r)
    \/ PromoteUser(r) \/ SendApprovedMail(r) \/ Fail(r)

Next == \E r \in Requests : Start(r) \/ Step(r)

Spec == Init /\ [][Next]_vars

-----------------------------------------------------------------------------
(* Properties.                                                             *)

\* What a request answered for is in the tables.  A registration that lost its
\* commit is found out by the foreign key of user_roles, so that "User created
\* successfully" is true of every one; a verification and an approval are
\* reported done although their commit failed.
AnswersAreTrue ==
    \A r \in Requests : pc[r] = "ok" =>
        /\ body[r].op = "register" =>
              db.users[r] # None /\ <<r, "customer">> \in db.userRoles
        /\ body[r].op \in {"login", "google"} =>
              r \in db.refreshTokens /\ db.users[user[r]] # None
        /\ body[r].op = "verify" /\ r \notin lost =>
              \E i \in GetUserByEmail(body[r].email) : db.users[i].verified
        /\ body[r].op = "approve" /\ r \notin lost =>
              IsAdmin(db.adminRequests[body[r].token].user)

\* Whoever is an administrator was one from the start or has an approved
\* request, whatever failed and however approvals were repeated.
AdminsWereApproved ==
    \A i \in Ids : IsAdmin(i) =>
        i \in Admins \/ \E r \in Requests :
            db.adminRequests[r] = [user |-> i, status |-> "APPROVED"]

\* A request for the role that was made and waits has its approval token: no
\* approval that stops half-way leaves it without.
PendingKeepsToken ==
    \A r \in Requests :
        /\ pc[r] = "ok" /\ body[r].op = "ask"
        /\ db.adminRequests[r].status = "PENDING"
        => r \in db.approvalTokens
=============================================================================
