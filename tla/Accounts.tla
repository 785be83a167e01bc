------------------------------ MODULE Accounts ------------------------------
(***************************************************************************)
(* Users and tokens of the server (internal/api/auth.go, handlers_users.go,*)
(* the users queries of internal/db/sql_store.go).  Requests run in        *)
(* goroutines of their own: between two statements of one, others may      *)
(* reset a password, create an account, or find the process restarted with *)
(* another SHIELD_JWT_SECRET.  Tokens are stateless: what was issued stays *)
(* with its holder, and only signature and expiry are looked at.           *)
(*                                                                         *)
(* A refusal that changes nothing (bad token, unknown e-mail or id, no     *)
(* secret to log in with, wrong password) is a stuttering step.            *)
(***************************************************************************)
EXTENDS Naturals, FiniteSets

CONSTANTS
  UserIds, Emails, Passwords,
  Secrets,         \* values of SHIELD_JWT_SECRET
  NoSecret,        \* it is not set: development mode
  Requests,        \* goroutines that serve a request
  First,           \* the admin that the bootstrap created
  Life,            \* 24 hours
  MaxTime,         \* bound of the clock
  MaxTokens        \* bound of the tokens issued

Role == {"admin", "analyst"}
User == [id : UserIds, email : Emails, password : Passwords, role : Role]
Token == [id : UserIds, email : Emails, role : Role, exp : Nat, secret : Secrets]

ASSUME AccountsAssumption ==
  /\ First \in User /\ First.role = "admin"
  /\ NoSecret \notin Secrets
  /\ Life \in Nat /\ MaxTime \in Nat /\ MaxTokens \in Nat

VARIABLES
  secret,   \* Server.jwtSecret
  now,
  users,    \* table users
  tokens,   \* every token issued
  req,      \* what each goroutine is about
  owed,     \* auxiliary: the passwords that may be in force, to an observer
            \* of requests and answers
  signed    \* created_by of the newest exception

accountVars == <<secret, now, users, tokens, req, owed, signed>>

NoRequest == [kind |-> "none"]
Nobody == ""

Request ==
  [kind : {"none"}]
  \cup [kind : {"login"}, row : User]
  \cup [kind : {"reset", "reset done"}, id : UserIds, password : Passwords,
        rivals : SUBSET Passwords]
  \cup [kind : {"create"}, email : Emails, password : Passwords, role : Role]

AccountsTypeOK ==
  /\ secret \in Secrets \cup {NoSecret}
  /\ now \in Nat
  /\ users \subseteq User
  /\ tokens \subseteq Token
  /\ req \in [Requests -> Request]
  /\ owed \in [UserIds -> SUBSET Passwords]
  /\ signed \in Emails \cup {Nobody}

AccountsInit ==
  /\ secret \in Secrets \cup {NoSecret}
  /\ now = 0
  /\ users = {First}
  /\ tokens = {}
  /\ req = [r \in Requests |-> NoRequest]
  /\ owed = [id \in UserIds |-> IF id = First.id THEN {First.password} ELSE {}]
  /\ signed = Nobody

-----------------------------------------------------------------------------
Idle(r) == req[r] = NoRequest

Becomes(r, request) == req' = [req EXCEPT ![r] = request]

(* Mutant: the expiry is not looked at.                                    *)
ValidToken_Forever(t) == t.secret = secret

ValidToken(t) == t.secret = secret /\ now <= t.exp

(* The claims requireUser puts into the context: none in development mode. *)
Claims == IF secret = NoSecret THEN {} ELSE {t \in tokens : ValidToken(t)}

(* Mutant: development mode lets everybody do everything.                  *)
AdminClaims_DevMode ==
  IF secret = NoSecret THEN {[email |-> e, role |-> "admin"] : e \in Emails}
  ELSE {c \in Claims : c.role = "admin"}

AdminClaims == {c \in Claims : c.role = "admin"}

-----------------------------------------------------------------------------
(* handleLogin.                                                            *)

(* A password that is not the one of the row read here is refused.         *)
LoginLooksUp(r) ==
  \E u \in users :
    /\ Idle(r) /\ secret # NoSecret
    /\ Becomes(r, [kind |-> "login", row |-> u])
    /\ UNCHANGED <<secret, now, users, tokens, owed, signed>>

IssueToken(u) ==
  [id |-> u.id, email |-> u.email, role |-> u.role, exp |-> now + Life,
   secret |-> secret]

(* bcrypt takes its time; the token is for the row as it was read.         *)
LoginSucceeds(r) ==
  /\ req[r].kind = "login"
  /\ Cardinality(tokens) < MaxTokens
  /\ tokens' = tokens \cup {IssueToken(req[r].row)}
  /\ Becomes(r, NoRequest)
  /\ UNCHANGED <<secret, now, users, owed, signed>>

-----------------------------------------------------------------------------
(* handleResetPassword.                                                    *)

Resets(id) == {q \in Requests : req[q].kind \in {"reset", "reset done"} /\ req[q].id = id}

(* The account is found.  From here on its password may be the new one.    *)
ResetBegins(r) ==
  \E u \in users, password \in Passwords :
    /\ Idle(r) /\ AdminClaims # {}
    /\ req' = [q \in Requests |->
         IF q = r THEN [kind |-> "reset", id |-> u.id, password |-> password,
                        rivals |-> {req[o].password : o \in Resets(u.id)}]
         ELSE IF q \in Resets(u.id)
              THEN [req[q] EXCEPT !.rivals = @ \cup {password}]
              ELSE req[q]]
    /\ owed' = [owed EXCEPT ![u.id] = @ \cup {password}]
    /\ UNCHANGED <<secret, now, users, tokens, signed>>

(* Mutant: the error of UpdatePassword is dropped.                         *)
ResetWrites_IgnoresError(r) ==
  /\ req[r].kind = "reset"
  /\ \/ users' = {IF u.id = req[r].id THEN [u EXCEPT !.password = req[r].password]
                  ELSE u : u \in users}
     \/ UNCHANGED users
  /\ Becomes(r, [req[r] EXCEPT !.kind = "reset done"])
  /\ UNCHANGED <<secret, now, tokens, owed, signed>>

(* UpdatePassword: one statement.                                          *)
ResetWrites(r) ==
  /\ req[r].kind = "reset"
  /\ users' = {IF u.id = req[r].id THEN [u EXCEPT !.password = req[r].password]
               ELSE u : u \in users}
  /\ Becomes(r, [req[r] EXCEPT !.kind = "reset done"])
  /\ UNCHANGED <<secret, now, tokens, owed, signed>>

(* "password updated": only resets that overlapped with this one may have  *)
(* replaced it since.                                                      *)
ResetAnswers(r) ==
  /\ req[r].kind = "reset done"
  /\ owed' = [owed EXCEPT ![req[r].id] = {req[r].password} \cup req[r].rivals]
  /\ Becomes(r, NoRequest)
  /\ UNCHANGED <<secret, now, users, tokens, signed>>

-----------------------------------------------------------------------------
(* handleCreateUser.                                                       *)

(* A role that the server does not know makes an analyst.                  *)
GivenRole(role) == IF role \in Role THEN role ELSE "analyst"

CreateBegins(r) ==
  \E email \in Emails, password \in Passwords, role \in Role \cup {"other"} :
    /\ Idle(r) /\ AdminClaims # {}
    /\ Becomes(r, [kind |-> "create", email |-> email, password |-> password,
                   role |-> GivenRole(role)])
    /\ UNCHANGED <<secret, now, users, tokens, owed, signed>>

NewUser(r, id) ==
  [id |-> id, email |-> req[r].email, password |-> req[r].password, role |-> req[r].role]

(* Mutant: an existing account of that e-mail is overwritten.              *)
CreateInserts_Replaces(r) ==
  \E id \in UserIds :
    /\ req[r].kind = "create"
    /\ \A u \in users : u.id # id
    /\ users' = {u \in users : u.email # req[r].email} \cup {NewUser(r, id)}
    /\ owed' = [owed EXCEPT ![id] = {req[r].password}]
    /\ Becomes(r, NoRequest)
    /\ UNCHANGED <<secret, now, tokens, signed>>

(* CreateUser: an id of its own; the e-mail is UNIQUE.                     *)
CreateInserts(r) ==
  \E id \in UserIds :
    /\ req[r].kind = "create"
    /\ \A u \in users : u.id # id /\ u.email # req[r].email
    /\ users' = users \cup {NewUser(r, id)}
    /\ owed' = [owed EXCEPT ![id] = {req[r].password}]
    /\ Becomes(r, NoRequest)
    /\ UNCHANGED <<secret, now, tokens, signed>>

(* The database fails a statement, or the e-mail is taken.                 *)
Fails(r) ==
  /\ req[r].kind \in {"reset", "create"}
  /\ Becomes(r, NoRequest)
  /\ UNCHANGED <<secret, now, users, tokens, owed, signed>>

-----------------------------------------------------------------------------
(* handleAddException, as far as it signs what it stores; handleDismiss    *)
(* does the same.                                                          *)
Sign ==
  /\ \/ \E c \in Claims : signed' = c.email
     \/ secret = NoSecret /\ signed' = Nobody
  /\ UNCHANGED <<secret, now, users, tokens, req, owed>>

(* The process dies with its goroutines and comes back.                    *)
AccountsRestart ==
  /\ secret' \in Secrets \cup {NoSecret}
  /\ req' = [r \in Requests |-> NoRequest]
  /\ UNCHANGED <<now, users, tokens, owed, signed>>

Later ==
  /\ now < MaxTime
  /\ now' = now + 1
  /\ UNCHANGED <<secret, users, tokens, req, owed, signed>>

AccountsNext ==
  \/ \E r \in Requests :
       \/ LoginLooksUp(r) \/ LoginSucceeds(r)
       \/ ResetBegins(r) \/ ResetWrites(r) \/ ResetAnswers(r)
       \/ CreateBegins(r) \/ CreateInserts(r)
       \/ Fails(r)
  \/ Sign \/ AccountsRestart \/ Later

AccountsSpec == AccountsInit /\ [][AccountsNext]_accountVars

-----------------------------------------------------------------------------
(* Properties.                                                             *)

(* The password in force is one that the answers so far allow for: after   *)
(* "password updated" it is that one, or one of a reset that overlapped,   *)
(* whatever failed or died in between.  A login that begins later gets in  *)
(* with no other (handleResetPassword and handleLogin).                    *)
PasswordAsAcknowledged == \A u \in users : u.password \in owed[u.id]

(* No two accounts share an e-mail, and an account stays with its e-mail   *)
(* and its role, whatever creations of the same e-mail race for it: each   *)
(* looks at nothing but the constraint of the table (handleCreateUser).    *)
AccountsStay ==
  [][/\ \A u, v \in users' : u.email = v.email \/ u.id = v.id => u = v
     /\ \A u \in users : \E v \in users' :
          u.id = v.id /\ u.email = v.email /\ u.role = v.role]_accountVars

(* An account, a role or a password changes only for a request that came   *)
(* from an admin: somebody whose account has that role and who logged in   *)
(* with a password.  In development mode, where there is nobody to be, not *)
(* at all (requireAdmin).                                                  *)
OnlyAdminsAdminister ==
  [][\A r \in Requests :
       req[r] = NoRequest /\ req'[r].kind \in {"reset", "create"} =>
         /\ secret # NoSecret
         /\ \E u \in users, t \in tokens :
              /\ u.role = "admin" /\ t.id = u.id /\ t.email = u.email
              /\ t.secret = secret /\ now <= t.exp]_accountVars

(* Who signed an exception had logged in to an account of that e-mail at   *)
(* most the life of a token before, under the secret that was in force: a  *)
(* change of the secret ends every session (requireUser, validateToken).   *)
SignaturesAreTrue ==
  [][signed' # signed =>
       IF secret = NoSecret THEN signed' = Nobody
       ELSE \E u \in users, t \in tokens :
              /\ u.email = signed' /\ t.id = u.id /\ t.email = signed'
              /\ t.secret = secret
              /\ t.exp - Life <= now /\ now <= t.exp]_accountVars
=============================================================================
