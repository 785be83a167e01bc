--------------------------- MODULE AccountsProofs ---------------------------
(***************************************************************************)
(* Accounts, for any number of users, requests and tokens: what an answer  *)
(* said of a password holds, accounts keep their e-mail and role, only     *)
(* admins change them, and signatures are true.                            *)
(***************************************************************************)
EXTENDS Accounts, TLAPS

(* The account that a token or a login is for.                             *)
Same(a, u) == a.id = u.id /\ a.email = u.email /\ a.role = u.role

ResetRequest ==
  [kind : {"reset", "reset done"}, id : UserIds, password : Passwords,
   rivals : SUBSET Passwords]

InReset(r) == req[r].kind \in {"reset", "reset done"}

(* The inductive invariant.  What a goroutine or a client holds is about   *)
(* an account that is still there; resets of one account that overlap know *)
(* each other's passwords; and once a reset has written, its own is in     *)
(* force, or that of one it knows.                                         *)
Distinct(table) ==
  \A u, v \in table : u.email = v.email \/ u.id = v.id => u = v

Stay(table, next) == \A u \in table : \E v \in next : Same(u, v)

HeldInv ==
  /\ \A t \in tokens : t.exp - Life <= now /\ \E u \in users : Same(t, u)
  /\ \A r \in Requests : req[r].kind = "login" =>
       secret # NoSecret /\ \E u \in users : Same(req[r].row, u)

ResetInv ==
  \A r \in Requests : InReset(r) =>
    /\ req[r].password \in owed[req[r].id]
    /\ \E u \in users : u.id = req[r].id
    /\ \A q \in Requests : q # r /\ InReset(q) /\ req[q].id = req[r].id =>
         req[q].password \in req[r].rivals
    /\ req[r].kind = "reset done" => \A u \in users : u.id = req[r].id =>
         u.password \in {req[r].password} \cup req[r].rivals

AccountsInv ==
  /\ AccountsTypeOK /\ Distinct(users)
  /\ HeldInv /\ ResetInv /\ PasswordAsAcknowledged

-----------------------------------------------------------------------------
LEMMA NoRequestIs == NoRequest \in Request /\ NoRequest.kind = "none"
BY DEF NoRequest, Request

(* A request of one kind has the fields of that kind.                      *)
LEMMA RequestKinds ==
  ASSUME NEW q \in Request
  PROVE  /\ q.kind = "login" => q.row \in User
         /\ q.kind \in {"reset", "reset done"} => q \in ResetRequest
         /\ q.kind = "create" =>
              q.email \in Emails /\ q.password \in Passwords /\ q.role \in Role
         /\ q = NoRequest => q.kind = "none"
<1>1. CASE q \in [kind : {"none"}]
  BY NoRequestIs, <1>1
<1>2. CASE q \in [kind : {"login"}, row : User]
  BY NoRequestIs, <1>2
<1>3. CASE q \in ResetRequest
  <2>1. q.kind \in {"reset", "reset done"}
    BY <1>3 DEF ResetRequest
  <2> QED BY NoRequestIs, <1>3, <2>1
<1>4. CASE q \in [kind : {"create"}, email : Emails, password : Passwords, role : Role]
  BY NoRequestIs, <1>4
<1> QED BY <1>1, <1>2, <1>3, <1>4 DEF Request, ResetRequest

(* A reset that learns of a rival, and one that moves on.                  *)
LEMMA ResetChanges ==
  ASSUME NEW q \in ResetRequest, NEW p \in Passwords
  PROVE  /\ LET s == [q EXCEPT !.rivals = @ \cup {p}]
            IN  /\ s \in Request /\ s.kind = q.kind /\ s.id = q.id
                /\ s.password = q.password /\ s.rivals = q.rivals \cup {p}
         /\ LET s == [q EXCEPT !.kind = "reset done"]
            IN  /\ s \in Request /\ s.kind = "reset done" /\ s.id = q.id
                /\ s.password = q.password /\ s.rivals = q.rivals
BY DEF ResetRequest, Request

(* A request that is no reset, or no longer, does not disturb the resets.  *)
LEMMA OtherRequests ==
  ASSUME ResetInv, NEW r \in Requests,
         \A q \in Requests : q # r => req'[q] = req[q],
         req'[r].kind \in {"none", "login", "create"},
         UNCHANGED <<users, owed>>
  PROVE  ResetInv'
<1>1. \A q \in Requests : InReset(q)' => InReset(q) /\ req'[q] = req[q]
  BY DEF InReset
<1> QED BY <1>1 DEF ResetInv

(* The initial state satisfies the invariant.                              *)
LEMMA AccountsInvInit == AccountsInit => AccountsInv
<1> SUFFICES ASSUME AccountsInit PROVE AccountsInv
  OBVIOUS
<1>1. NoRequest \in Request /\ NoRequest.kind = "none"
  BY DEF NoRequest, Request
<1>2. First \in User /\ First.id \in UserIds /\ First.password \in Passwords
  BY AccountsAssumption DEF User
<1>3. AccountsTypeOK
  BY <1>1, <1>2, AccountsAssumption DEF AccountsInit, AccountsTypeOK
<1>4. Distinct(users) /\ HeldInv /\ ResetInv
  BY <1>1 DEF AccountsInit, Distinct, HeldInv, ResetInv, InReset
<1>5. PasswordAsAcknowledged
  BY <1>2 DEF AccountsInit, PasswordAsAcknowledged
<1> QED BY <1>3, <1>4, <1>5 DEF AccountsInv

-----------------------------------------------------------------------------
(* One lemma per step.  Each also says what becomes of the accounts.       *)

LEMMA LoginLooksUpStep ==
  ASSUME AccountsInv, NEW r \in Requests, LoginLooksUp(r)
  PROVE  AccountsInv' /\ UNCHANGED <<users, signed>>
<1> USE DEF AccountsInv, AccountsTypeOK, LoginLooksUp, Becomes, Idle
<1>1. PICK u \in users : req' = [req EXCEPT ![r] = [kind |-> "login", row |-> u]]
  OBVIOUS
<1>2. /\ [kind |-> "login", row |-> u] \in Request
      /\ [kind |-> "login", row |-> u].kind = "login"
      /\ [kind |-> "login", row |-> u].row = u
  BY DEF Request
<1>3. \A q \in Requests : q # r => req'[q] = req[q]
  BY <1>1
<1>4. AccountsTypeOK'
  BY <1>1, <1>2
<1>5. HeldInv'
  BY <1>1, <1>2, <1>3 DEF HeldInv, Same
<1>6. req'[r].kind = "login" /\ UNCHANGED <<users, owed, signed>>
  BY <1>1, <1>2
<1> HIDE DEF LoginLooksUp
<1>7. ResetInv'
  BY <1>3, <1>6, OtherRequests
<1> QED BY <1>4, <1>5, <1>6, <1>7 DEF Distinct, PasswordAsAcknowledged

LEMMA LoginSucceedsStep ==
  ASSUME AccountsInv, NEW r \in Requests, LoginSucceeds(r)
  PROVE  AccountsInv' /\ UNCHANGED <<users, signed>>
<1> USE DEF AccountsInv, AccountsTypeOK, LoginSucceeds, Becomes
<1>1. /\ NoRequest \in Request /\ NoRequest.kind = "none"
      /\ req'[r] = NoRequest /\ \A q \in Requests : q # r => req'[q] = req[q]
  BY DEF NoRequest, Request
<1> DEFINE u == req[r].row  t == IssueToken(u)
<1>2. u \in User /\ secret \in Secrets
  BY RequestKinds DEF HeldInv
<1>3. t \in Token /\ Same(t, u) /\ t.exp - Life <= now
  BY <1>2, AccountsAssumption DEF IssueToken, Token, User, Same
<1>4. AccountsTypeOK'
  BY <1>1, <1>3
<1>5. HeldInv'
  BY <1>1, <1>3 DEF HeldInv, Same
<1>6. ResetInv'
  BY <1>1, OtherRequests
<1> QED BY <1>4, <1>5, <1>6 DEF Distinct, PasswordAsAcknowledged

LEMMA ResetBeginsStep ==
  ASSUME AccountsInv, NEW r \in Requests, ResetBegins(r)
  PROVE  AccountsInv' /\ UNCHANGED <<users, signed>>
<1> USE DEF AccountsInv, AccountsTypeOK
<1>1. PICK u \in users, p \in Passwords :
        /\ req[r] = NoRequest
        /\ req' = [q \in Requests |->
             IF q = r THEN [kind |-> "reset", id |-> u.id, password |-> p,
                            rivals |-> {req[o].password : o \in Resets(u.id)}]
             ELSE IF q \in Resets(u.id) THEN [req[q] EXCEPT !.rivals = @ \cup {p}]
             ELSE req[q]]
        /\ owed' = [owed EXCEPT ![u.id] = @ \cup {p}]
        /\ UNCHANGED <<secret, now, users, tokens, signed>>
  BY DEF ResetBegins, Idle
<1> DEFINE new == [kind |-> "reset", id |-> u.id, password |-> p,
                   rivals |-> {req[o].password : o \in Resets(u.id)}]
<1>2. u.id \in UserIds /\ \A o \in Resets(u.id) : req[o] \in ResetRequest
  BY RequestKinds DEF User, Resets
<1>3. /\ new \in Request /\ new.kind = "reset" /\ new.id = u.id /\ new.password = p
      /\ new.rivals = {req[o].password : o \in Resets(u.id)}
  <2>1. {req[o].password : o \in Resets(u.id)} \subseteq Passwords
    BY <1>2 DEF ResetRequest
  <2> QED BY <1>2, <2>1 DEF Request
<1>4. req'[r] = new
  BY <1>1
<1>5. \A q \in Resets(u.id) :
        /\ q # r /\ req'[q] \in Request /\ req'[q].kind = req[q].kind
        /\ req'[q].id = u.id /\ req'[q].password = req[q].password
        /\ req'[q].rivals = req[q].rivals \cup {p}
  <2> SUFFICES ASSUME NEW q \in Resets(u.id)
               PROVE  /\ q # r /\ req'[q] \in Request /\ req'[q].kind = req[q].kind
                      /\ req'[q].id = u.id /\ req'[q].password = req[q].password
                      /\ req'[q].rivals = req[q].rivals \cup {p}
    OBVIOUS
  <2>1. q \in Requests /\ q # r /\ req[q].id = u.id
    BY <1>1, NoRequestIs DEF Resets
  <2>2. req'[q] = [req[q] EXCEPT !.rivals = @ \cup {p}]
    BY <1>1, <2>1
  <2>3. req[q] \in ResetRequest
    BY <1>2
  <2> DEFINE s == req[q]
  <2>4. /\ [s EXCEPT !.rivals = @ \cup {p}] \in Request
        /\ [s EXCEPT !.rivals = @ \cup {p}].kind = s.kind
        /\ [s EXCEPT !.rivals = @ \cup {p}].id = s.id
        /\ [s EXCEPT !.rivals = @ \cup {p}].password = s.password
        /\ [s EXCEPT !.rivals = @ \cup {p}].rivals = s.rivals \cup {p}
    BY <2>3, ResetChanges
  <2> QED BY <2>1, <2>2, <2>4
<1>6. \A q \in Requests : q # r /\ q \notin Resets(u.id) => req'[q] = req[q]
  BY <1>1
<1>7. AccountsTypeOK'
  <2>1. req' \in [Requests -> Request]
    BY <1>1, <1>3, <1>4, <1>5, <1>6
  <2>2. owed' \in [UserIds -> SUBSET Passwords]
    BY <1>1, <1>2
  <2> QED BY <1>1, <2>1, <2>2
<1>8. HeldInv'
  <2>1. \A q \in Requests : req'[q].kind = "login" => req'[q] = req[q]
    BY <1>3, <1>4, <1>5, <1>6 DEF Resets
  <2> QED BY <1>1, <2>1 DEF HeldInv
<1>9. owed'[u.id] = owed[u.id] \cup {p} /\ \A id \in UserIds : owed[id] \subseteq owed'[id]
  BY <1>1, <1>2
<1>10. ResetInv'
  <2> SUFFICES ASSUME NEW q \in Requests, InReset(q)'
               PROVE  /\ req'[q].password \in owed'[req'[q].id]
                      /\ \E v \in users' : v.id = req'[q].id
                      /\ \A o \in Requests :
                           o # q /\ InReset(o)' /\ req'[o].id = req'[q].id =>
                             req'[o].password \in req'[q].rivals
                      /\ req'[q].kind = "reset done" =>
                           \A v \in users' : v.id = req'[q].id =>
                             v.password \in {req'[q].password} \cup req'[q].rivals
    BY DEF ResetInv
  <2>1. \A o \in Requests : o # r /\ InReset(o)' =>
          /\ InReset(o) /\ req'[o].id = req[o].id /\ req'[o].password = req[o].password
          /\ req'[o].kind = req[o].kind /\ req[o].rivals \subseteq req'[o].rivals
    BY <1>5, <1>6 DEF InReset, Resets
  <2>0. \A o \in Requests : InReset(o) => req[o].id \in UserIds
    BY RequestKinds DEF InReset, ResetRequest
  <2>2. \A o \in Requests : o # r /\ InReset(o)' /\ req'[o].id = u.id => o \in Resets(u.id)
    BY <2>1 DEF Resets, InReset
  <2>3. CASE q = r
    <3>1. \A o \in Requests : o # q /\ InReset(o)' /\ req'[o].id = u.id =>
            req'[o].password \in new.rivals
      BY <1>3, <2>1, <2>2, <2>3
    <3>2. req'[q].kind # "reset done"
      BY <1>3, <1>4, <2>3
    <3> HIDE DEF new
    <3> QED BY <1>1, <1>3, <1>4, <1>9, <2>3, <3>1, <3>2
  <2>4. CASE q # r
    <3>1. \A o \in Requests : o # q /\ InReset(o)' /\ req'[o].id = req'[q].id =>
            req'[o].password \in req'[q].rivals
      <4> SUFFICES ASSUME NEW o \in Requests,
                          o # q, InReset(o)', req'[o].id = req'[q].id
                   PROVE  req'[o].password \in req'[q].rivals
        OBVIOUS
      <4>1. CASE o = r
        <5>1. req'[o].id = u.id /\ req'[o].password = p
          BY <1>3, <1>4, <4>1
        <5>2. q \in Resets(u.id)
          BY <2>2, <2>4, <5>1
        <5> QED BY <1>5, <5>1, <5>2
      <4>2. CASE o # r
        BY <2>1, <2>4, <4>2 DEF ResetInv
      <4> QED BY <4>1, <4>2
    <3>2. req[q].password \in owed[req[q].id] /\ \E v \in users : v.id = req[q].id
      BY <2>1, <2>4 DEF ResetInv
    <3>3. req'[q].kind = "reset done" => \A v \in users : v.id = req[q].id =>
            v.password \in {req[q].password} \cup req[q].rivals
      BY <2>1, <2>4 DEF ResetInv
    <3> QED BY <1>1, <1>9, <2>0, <2>1, <2>4, <3>1, <3>2, <3>3
  <2> QED BY <2>3, <2>4
<1>11. PasswordAsAcknowledged'
  BY <1>1, <1>9 DEF PasswordAsAcknowledged, User
<1> QED BY <1>1, <1>7, <1>8, <1>10, <1>11 DEF Distinct

LEMMA ResetWritesStep ==
  ASSUME AccountsInv, NEW r \in Requests, ResetWrites(r)
  PROVE  AccountsInv' /\ Stay(users, users') /\ UNCHANGED signed
<1> USE DEF AccountsInv, AccountsTypeOK
<1> DEFINE id == req[r].id  p == req[r].password
           written(u) == IF u.id = id THEN [u EXCEPT !.password = p] ELSE u
<1>1. /\ req[r].kind = "reset" /\ req' = [req EXCEPT ![r] = [req[r] EXCEPT !.kind = "reset done"]]
      /\ users' = {written(u) : u \in users}
      /\ UNCHANGED <<secret, now, tokens, owed, signed>>
  BY DEF ResetWrites, Becomes
<1>2. req[r] \in ResetRequest /\ InReset(r) /\ p \in Passwords /\ p \in owed[id]
  BY <1>1, RequestKinds DEF InReset, ResetInv, ResetRequest
<1>3. /\ req'[r] \in Request /\ req'[r].kind = "reset done" /\ req'[r].id = id
      /\ req'[r].password = p /\ req'[r].rivals = req[r].rivals
  <2> DEFINE s == req[r]
  <2>1. LET t == [s EXCEPT !.kind = "reset done"]
        IN  /\ t \in Request /\ t.kind = "reset done" /\ t.id = s.id
            /\ t.password = s.password /\ t.rivals = s.rivals
    BY <1>2, ResetChanges
  <2>2. req'[r] = [s EXCEPT !.kind = "reset done"]
    BY <1>1
  <2> QED BY <2>1, <2>2
<1>4. \A q \in Requests : q # r => req'[q] = req[q]
  BY <1>1
<1>5. \A u \in User :
        /\ written(u) \in User /\ Same(u, written(u))
        /\ written(u).password = IF u.id = id THEN p ELSE u.password
  BY <1>2 DEF User, Same
<1>6. \A v \in users' : \E u \in users :
        v \in User /\ Same(u, v) /\ v.password = IF u.id = id THEN p ELSE u.password
  BY <1>1, <1>5
<1>7. Stay(users, users')
  BY <1>1, <1>5 DEF Stay
<1> HIDE DEF written
<1>8. AccountsTypeOK' /\ Distinct(users)'
  <2>1. AccountsTypeOK'
    BY <1>1, <1>3, <1>4, <1>6
  <2>2. ASSUME NEW v \in users', NEW w \in users', v.email = w.email \/ v.id = w.id
        PROVE  v = w
    <3>1. PICK u \in users : v = written(u) /\ Same(u, v)
      BY <1>1, <1>5
    <3>2. PICK t \in users : w = written(t) /\ Same(t, w)
      BY <1>1, <1>5
    <3> QED BY <2>2, <3>1, <3>2 DEF Same, Distinct
  <2> QED BY <2>1, <2>2 DEF Distinct
<1>9. HeldInv' /\ PasswordAsAcknowledged'
  <2>1. HeldInv'
    <3>1. \A x : (\E u \in users : Same(x, u)) => \E v \in users' : Same(x, v)
      BY <1>7 DEF Stay, Same
    <3> QED BY <1>1, <1>3, <1>4, <3>1 DEF HeldInv
  <2>2. PasswordAsAcknowledged'
    BY <1>1, <1>2, <1>6 DEF PasswordAsAcknowledged, Same
  <2> QED BY <2>1, <2>2
<1>10. ResetInv'
  <2> SUFFICES ASSUME NEW q \in Requests, InReset(q)'
               PROVE  /\ req'[q].password \in owed'[req'[q].id]
                      /\ \E v \in users' : v.id = req'[q].id
                      /\ \A o \in Requests :
                           o # q /\ InReset(o)' /\ req'[o].id = req'[q].id =>
                             req'[o].password \in req'[q].rivals
                      /\ req'[q].kind = "reset done" =>
                           \A v \in users' : v.id = req'[q].id =>
                             v.password \in {req'[q].password} \cup req'[q].rivals
    BY DEF ResetInv
  <2>1. \A o \in Requests : InReset(o)' =>
          /\ InReset(o) /\ req'[o].id = req[o].id /\ req'[o].password = req[o].password
          /\ req'[o].rivals = req[o].rivals
    BY <1>2, <1>3, <1>4 DEF InReset
  <2>2. /\ req[q].password \in owed[req[q].id]
        /\ \E v \in users : v.id = req[q].id
        /\ \A o \in Requests : o # q /\ InReset(o) /\ req[o].id = req[q].id =>
             req[o].password \in req[q].rivals
    BY <2>1 DEF ResetInv
  <2>3. \E v \in users' : v.id = req'[q].id
    BY <1>7, <2>1, <2>2 DEF Stay, Same
  <2>4. ASSUME req'[q].kind = "reset done", NEW v \in users', v.id = req'[q].id
        PROVE  v.password \in {req[q].password} \cup req[q].rivals
    <3>1. PICK u \in users : Same(u, v) /\ v.password = IF u.id = id THEN p ELSE u.password
      BY <1>6
    <3>2. u.id = v.id
      BY <3>1 DEF Same
    <3>3. CASE u.id = id
      <4>1. v.password = p /\ req[q].id = id
        BY <2>1, <2>4, <3>1, <3>2, <3>3
      <4> QED BY <1>2, <2>2, <4>1
    <3>4. CASE u.id # id
      <4>1. q # r /\ req[q].kind = "reset done" /\ v.password = u.password
        BY <1>3, <1>4, <2>4, <3>1, <3>2, <3>4
      <4> QED BY <2>1, <2>4, <3>2, <4>1 DEF ResetInv
    <3> QED BY <3>3, <3>4
  <2> QED BY <1>1, <2>1, <2>2, <2>3, <2>4
<1> QED BY <1>1, <1>7, <1>8, <1>9, <1>10

LEMMA ResetAnswersStep ==
  ASSUME AccountsInv, NEW r \in Requests, ResetAnswers(r)
  PROVE  AccountsInv' /\ UNCHANGED <<users, signed>>
<1> USE DEF AccountsInv, AccountsTypeOK
<1> DEFINE id == req[r].id  allowed == {req[r].password} \cup req[r].rivals
<1>1. /\ req[r].kind = "reset done" /\ InReset(r) /\ req' = [req EXCEPT ![r] = NoRequest]
      /\ owed' = [owed EXCEPT ![id] = allowed]
      /\ UNCHANGED <<secret, now, users, tokens, signed>>
  BY DEF ResetAnswers, Becomes, InReset
<1>2. req[r] \in ResetRequest /\ id \in UserIds /\ allowed \in SUBSET Passwords
  BY <1>1, RequestKinds DEF ResetRequest
<1>3. req'[r].kind = "none" /\ \A q \in Requests : q # r => req'[q] = req[q]
  BY <1>1, NoRequestIs
<1>4. AccountsTypeOK'
  BY <1>1, <1>2, NoRequestIs
<1>5. HeldInv'
  BY <1>1, <1>3 DEF HeldInv
<1>6. PasswordAsAcknowledged'
  BY <1>1, <1>2 DEF PasswordAsAcknowledged, ResetInv, User
<1>7. ResetInv'
  <2>1. \A q \in Requests : InReset(q)' => q # r /\ InReset(q) /\ req'[q] = req[q]
    BY <1>3 DEF InReset
  <2>2. \A q \in Requests : InReset(q) => req[q].id \in UserIds
    BY RequestKinds DEF InReset, ResetRequest
  <2>3. \A q \in Requests : q # r /\ InReset(q) => req[q].password \in owed'[req[q].id]
    BY <1>1, <2>2 DEF ResetInv
  <2> QED BY <1>1, <2>1, <2>3 DEF ResetInv
<1> QED BY <1>1, <1>4, <1>5, <1>6, <1>7 DEF Distinct

LEMMA CreateBeginsStep ==
  ASSUME AccountsInv, NEW r \in Requests, CreateBegins(r)
  PROVE  AccountsInv' /\ UNCHANGED <<users, signed>>
<1> USE DEF AccountsInv, AccountsTypeOK
<1>1. PICK e \in Emails, p \in Passwords, role \in Role \cup {"other"} :
        /\ req' = [req EXCEPT ![r] = [kind |-> "create", email |-> e, password |-> p,
                                      role |-> GivenRole(role)]]
        /\ UNCHANGED <<secret, now, users, tokens, owed, signed>>
  BY DEF CreateBegins, Becomes
<1>2. GivenRole(role) \in Role
  BY DEF GivenRole, Role
<1>3. /\ req'[r] \in Request /\ req'[r].kind = "create"
      /\ \A q \in Requests : q # r => req'[q] = req[q]
  BY <1>1, <1>2 DEF Request
<1>4. AccountsTypeOK'
  BY <1>1, <1>3
<1>5. HeldInv'
  BY <1>1, <1>3 DEF HeldInv
<1>6. ResetInv'
  BY <1>1, <1>3, OtherRequests
<1> QED BY <1>1, <1>4, <1>5, <1>6 DEF Distinct, PasswordAsAcknowledged

LEMMA CreateInsertsStep ==
  ASSUME AccountsInv, NEW r \in Requests, CreateInserts(r)
  PROVE  AccountsInv' /\ Stay(users, users') /\ UNCHANGED signed
<1> USE DEF AccountsInv, AccountsTypeOK
<1>1. PICK id \in UserIds :
        /\ req[r].kind = "create"
        /\ \A u \in users : u.id # id /\ u.email # req[r].email
        /\ users' = users \cup {NewUser(r, id)}
        /\ owed' = [owed EXCEPT ![id] = {req[r].password}]
        /\ req' = [req EXCEPT ![r] = NoRequest]
        /\ UNCHANGED <<secret, now, tokens, signed>>
  BY DEF CreateInserts, Becomes
<1>2. req[r].email \in Emails /\ req[r].password \in Passwords /\ req[r].role \in Role
  BY <1>1, RequestKinds
<1>3. PICK v \in User :
        /\ users' = users \cup {v} /\ v.id = id /\ v.email = req[r].email
        /\ v.password = req[r].password
  <2>1. /\ NewUser(r, id) \in User /\ NewUser(r, id).id = id
        /\ NewUser(r, id).email = req[r].email /\ NewUser(r, id).password = req[r].password
    BY <1>2 DEF NewUser, User
  <2> QED BY <1>1, <2>1
<1>4. req'[r].kind = "none" /\ \A q \in Requests : q # r => req'[q] = req[q]
  BY <1>1, NoRequestIs
<1>5. AccountsTypeOK'
  <2>1. owed' \in [UserIds -> SUBSET Passwords]
    BY <1>1, <1>2
  <2>2. req' \in [Requests -> Request] /\ users' \subseteq User
    BY <1>1, <1>3, NoRequestIs
  <2> QED BY <1>1, <2>1, <2>2
<1>6. Stay(users, users') /\ Distinct(users)'
  BY <1>1, <1>3 DEF Stay, Same, Distinct
<1>7. HeldInv'
  BY <1>1, <1>4 DEF HeldInv
<1>8. PasswordAsAcknowledged'
  BY <1>1, <1>2, <1>3 DEF PasswordAsAcknowledged, User
<1>9. ResetInv'
  <2>1. \A q \in Requests : InReset(q)' =>
          q # r /\ InReset(q) /\ req'[q] = req[q]
    BY <1>4 DEF InReset
  <2>2. \A q \in Requests : InReset(q) => req[q].id \in UserIds /\ req[q].id # id
    BY <1>1, RequestKinds DEF InReset, ResetRequest, ResetInv
  <2>3. \A q \in Requests : InReset(q) => owed'[req[q].id] = owed[req[q].id]
    BY <1>1, <2>2
  <2>4. ASSUME NEW q \in Requests, InReset(q)'
        PROVE  /\ req'[q].password \in owed'[req'[q].id]
               /\ \E u \in users' : u.id = req'[q].id
               /\ \A o \in Requests :
                    o # q /\ InReset(o)' /\ req'[o].id = req'[q].id =>
                      req'[o].password \in req'[q].rivals
               /\ req'[q].kind = "reset done" =>
                    \A u \in users' : u.id = req'[q].id =>
                      u.password \in {req'[q].password} \cup req'[q].rivals
    <3>1. req'[q] = req[q] /\ InReset(q) /\ req[q].id # id
      BY <2>1, <2>2, <2>4
    <3> QED BY <1>3, <2>1, <2>3, <3>1 DEF ResetInv
  <2> QED BY <2>4 DEF ResetInv
<1> QED BY <1>1, <1>5, <1>6, <1>7, <1>8, <1>9

LEMMA FailsStep ==
  ASSUME AccountsInv, NEW r \in Requests, Fails(r)
  PROVE  AccountsInv' /\ UNCHANGED <<users, signed>>
<1> USE DEF AccountsInv, AccountsTypeOK, Fails, Becomes
<1>1. req'[r].kind = "none" /\ \A q \in Requests : q # r => req'[q] = req[q]
  BY NoRequestIs
<1>2. AccountsTypeOK'
  BY NoRequestIs
<1>3. HeldInv'
  BY <1>1 DEF HeldInv
<1>4. ResetInv'
  BY <1>1, OtherRequests
<1> QED BY <1>2, <1>3, <1>4 DEF Distinct, PasswordAsAcknowledged

(* The steps that no goroutine of the above takes.                         *)
LEMMA OuterSteps ==
  ASSUME AccountsInv, Sign \/ AccountsRestart \/ Later
  PROVE  AccountsInv' /\ UNCHANGED users
<1> USE DEF AccountsInv, AccountsTypeOK
<1>1. CASE Sign
  <2>1. \A t \in tokens : t.email \in Emails
    BY DEF Token
  <2>2. signed' \in Emails \cup {Nobody}
    BY <1>1, <2>1 DEF Sign, Claims
  <2> QED BY <1>1, <2>2 DEF Sign, Distinct, HeldInv, ResetInv, InReset, PasswordAsAcknowledged
<1>2. CASE AccountsRestart
  <2>1. req' \in [Requests -> Request] /\ \A q \in Requests : req'[q].kind = "none"
    BY <1>2, NoRequestIs DEF AccountsRestart
  <2> QED BY <1>2, <2>1
        DEF AccountsRestart, Distinct, HeldInv, ResetInv, InReset, PasswordAsAcknowledged
<1>3. CASE Later
  <2>1. now' \in Nat /\ \A t \in tokens : t.exp - Life <= now'
    BY <1>3, AccountsAssumption DEF Later, HeldInv, Token
  <2> QED BY <1>3, <2>1 DEF Later, Distinct, HeldInv, ResetInv, InReset, PasswordAsAcknowledged
<1> QED BY <1>1, <1>2, <1>3

(* Every step.                                                             *)
LEMMA AccountsStep ==
  ASSUME AccountsInv, [AccountsNext]_accountVars
  PROVE  AccountsInv' /\ Stay(users, users')
<1>1. Stay(users, users)
  BY DEF Stay, Same
<1>2. CASE UNCHANGED accountVars
  BY <1>1, <1>2 DEF accountVars, AccountsInv, AccountsTypeOK, Distinct, HeldInv, ResetInv,
     InReset, PasswordAsAcknowledged
<1>3. CASE AccountsNext
  BY <1>1, <1>3, LoginLooksUpStep, LoginSucceedsStep, ResetBeginsStep, ResetWritesStep,
     ResetAnswersStep, CreateBeginsStep, CreateInsertsStep, FailsStep, OuterSteps
     DEF AccountsNext
<1> QED BY <1>2, <1>3

LEMMA AccountsInvariant == AccountsSpec => []AccountsInv
<1>1. AccountsInv /\ [AccountsNext]_accountVars => AccountsInv'
  BY AccountsStep
<1> QED BY <1>1, AccountsInvInit, PTL DEF AccountsSpec

(* The variables keep their types, whatever requests run.                  *)
THEOREM AccountsTypeCorrect == AccountsSpec => []AccountsTypeOK
<1>1. AccountsInv => AccountsTypeOK
  BY DEF AccountsInv
<1> QED BY <1>1, AccountsInvariant, PTL

(* An account has a password that the answers allow for: no reset that     *)
(* failed, died or came first undoes one that was answered                 *)
(* (handleResetPassword).                                                  *)
THEOREM PasswordIsAsAcknowledged == AccountsSpec => []PasswordAsAcknowledged
<1>1. AccountsInv => PasswordAsAcknowledged
  BY DEF AccountsInv
<1> QED BY <1>1, AccountsInvariant, PTL

(* Racing creations never touch an account (handleCreateUser).             *)
THEOREM AccountsStayTheirs == AccountsSpec => AccountsStay
<1>1. AccountsInv /\ [AccountsNext]_accountVars =>
        [/\ \A u, v \in users' : u.email = v.email \/ u.id = v.id => u = v
         /\ \A u \in users : \E v \in users' :
              u.id = v.id /\ u.email = v.email /\ u.role = v.role]_accountVars
  BY AccountsStep DEF AccountsInv, Distinct, Stay, Same
<1> QED BY <1>1, AccountsInvariant, PTL DEF AccountsSpec, AccountsStay

(* Only admins with a valid token begin to change accounts (requireAdmin). *)
THEOREM AdminsAdminister == AccountsSpec => OnlyAdminsAdminister
<1> DEFINE A == \A r \in Requests :
         req[r] = NoRequest /\ req'[r].kind \in {"reset", "create"} =>
           /\ secret # NoSecret
           /\ \E u \in users, t \in tokens :
                /\ u.role = "admin" /\ t.id = u.id /\ t.email = u.email
                /\ t.secret = secret /\ now <= t.exp
<1>1. ASSUME AccountsInv, AccountsNext PROVE A
  <2>1. AdminClaims # {} =>
          /\ secret # NoSecret
          /\ \E u \in users, t \in tokens :
               /\ u.role = "admin" /\ t.id = u.id /\ t.email = u.email
               /\ t.secret = secret /\ now <= t.exp
    BY <1>1 DEF AdminClaims, Claims, ValidToken, AccountsInv, HeldInv, Same
  <2>2. ASSUME NEW r \in Requests, req[r] = NoRequest, req'[r].kind \in {"reset", "create"}
        PROVE  \E q \in Requests : ResetBegins(q) \/ CreateBegins(q)
    <3>1. req \in [Requests -> Request]
      BY <1>1 DEF AccountsInv, AccountsTypeOK
    <3>2. ~Sign /\ ~Later /\ ~AccountsRestart
      BY <2>2, NoRequestIs DEF Sign, Later, AccountsRestart
    <3>3. ASSUME NEW q \in Requests PROVE ~LoginLooksUp(q)
      <4>1. ASSUME NEW u \in users, req' = [req EXCEPT ![q] = [kind |-> "login", row |-> u]]
            PROVE  FALSE
        BY <2>2, <3>1, <4>1, NoRequestIs
      <4> QED BY <4>1 DEF LoginLooksUp, Becomes
    <3>4. ASSUME NEW q \in Requests
          PROVE  ~LoginSucceeds(q) /\ ~ResetAnswers(q) /\ ~CreateInserts(q) /\ ~Fails(q)
      BY <2>2, <3>1, NoRequestIs DEF LoginSucceeds, ResetAnswers, CreateInserts, Fails, Becomes
    <3>5. ASSUME NEW q \in Requests PROVE ~ResetWrites(q)
      BY <2>2, <3>1, NoRequestIs DEF ResetWrites, Becomes
    <3> QED BY <1>1, <3>2, <3>3, <3>4, <3>5 DEF AccountsNext
  <2>3. ASSUME NEW q \in Requests, ResetBegins(q) \/ CreateBegins(q) PROVE AdminClaims # {}
    BY <2>3 DEF ResetBegins, CreateBegins
  <2> QED BY <2>1, <2>2, <2>3
<1>2. ASSUME UNCHANGED accountVars PROVE [A]_accountVars
  BY <1>2
<1>3. AccountsInv /\ [AccountsNext]_accountVars => [A]_accountVars
  BY <1>1, <1>2
<1> QED BY <1>3, AccountsInvariant, PTL DEF AccountsSpec, OnlyAdminsAdminister

(* A signature is that of an account whose token is valid (requireUser).   *)
THEOREM SignaturesAreOfUsers == AccountsSpec => SignaturesAreTrue
<1> DEFINE A == signed' # signed =>
         IF secret = NoSecret THEN signed' = Nobody
         ELSE \E u \in users, t \in tokens :
                /\ u.email = signed' /\ t.id = u.id /\ t.email = signed'
                /\ t.secret = secret
                /\ t.exp - Life <= now /\ now <= t.exp
<1>1. ASSUME AccountsInv, AccountsNext PROVE A
  <2>1. CASE Sign
    BY <1>1, <2>1 DEF Sign, Claims, ValidToken, AccountsInv, HeldInv, Same
  <2>2. CASE ~Sign
    BY <1>1, <2>2 DEF AccountsNext, LoginLooksUp, LoginSucceeds, ResetBegins, ResetWrites,
       ResetAnswers, CreateBegins, CreateInserts, Fails, AccountsRestart, Later
  <2> QED BY <2>1, <2>2
<1>2. AccountsInv /\ [AccountsNext]_accountVars => [A]_accountVars
  BY <1>1
<1> QED BY <1>2, AccountsInvariant, PTL DEF AccountsSpec, SignaturesAreTrue
=============================================================================
