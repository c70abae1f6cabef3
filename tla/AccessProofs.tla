---------------------------- MODULE AccessProofs ----------------------------
(***************************************************************************)
(* Theorems about Accounts and OAuthServer.                                *)
(*                                                                         *)
(* The argument about the accounts goes through the shape of a step: one   *)
(* row at most changes, and the row it becomes is `Lawful`; one session at *)
(* most is opened or renewed, for an account that exists; a cut-off moves  *)
(* only together with the sessions of its account.  Every property of the  *)
(* accounts follows from that shape.                                       *)
(***************************************************************************)
EXTENDS OAuthServer, FiniteSetTheorems, TLAPS

Existing == {"invited", "active", "disabled"}

(* What the row of u may become. *)
Lawful(u, r) ==
    /\ r \in Rows
    /\ r.status = "active" =>
         \/ r.token = tokens + 1 /\ tokens' = tokens + 1
         \/ Active(u) /\ r.token = account[u].token
    /\ \/ r.invite \in {0, invites + 1}
       \/ Exists(u) /\ r.invite = account[u].invite /\ r.until = account[u].until
    /\ r.status \in Existing =>
         /\ (Exists(u) /\ r.email = account[u].email) \/ Owner(r.email) \subseteq {u}
         /\ \/ r.subject = Nobody
            \/ Exists(u) /\ r.subject = account[u].subject
            \/ LinkedTo(r.subject) \subseteq {u}

AccountShape ==
    \/ account' = account
    \/ \E u \in Ids, r \in Rows : account' = [account EXCEPT ![u] = r] /\ Lawful(u, r)

NewSession(u) == [id |-> opened + 1, user |-> u, created |-> now, expires |-> now + SessionTTL]

SessionShape ==
    \/ opened' = opened /\ sessions' \subseteq sessions
    \/ \E u \in Ids : /\ opened' = opened + 1
                      /\ sessions' = sessions \union {NewSession(u)}
                      /\ account'[u].status \in Existing
                      /\ cutoff' = cutoff
    \/ \E s \in sessions : /\ opened' = opened
                           /\ Usable(s)
                           /\ sessions' = (sessions \ {s}) \union {Renewed(s)}

CutShape ==
    \/ /\ cutoff' = cutoff
       /\ \A v \in Ids : Exists(v) => account'[v].status \in Existing
    \/ \E u \in Ids :
         /\ cutoff' = [cutoff EXCEPT ![u] = opened]
         /\ opened' = opened
         /\ sessions' = {s \in sessions : s.user # u \/ s.id = 0}
         /\ \A v \in Ids \ {u} : account'[v] = account[v]

CounterShape ==
    /\ tokens' \in {tokens, tokens + 1}
    /\ invites' \in {invites, invites + 1}
    /\ now' \in {now, now + 1}

StepShape == AccountShape /\ SessionShape /\ CutShape /\ CounterShape
----------------------------------------------------------------------------
(* The rows that are built from scratch. *)
LEMMA NewRows ==
    ASSUME TypeOK, AccountsAssumption, NEW e \in Emails, NEW s \in Subjects \union {Nobody},
           NEW admin \in BOOLEAN
    PROVE  /\ InvitedRow(e, admin) \in Rows
           /\ InvitedRow(e, admin).status = "invited"
           /\ InvitedRow(e, admin).email = e
           /\ InvitedRow(e, admin).subject = Nobody
           /\ InvitedRow(e, admin).invite = invites + 1
           /\ ActiveRow(e, s) \in Rows
           /\ ActiveRow(e, s).status = "active"
           /\ ActiveRow(e, s).token = tokens + 1
           /\ ActiveRow(e, s).email = e
           /\ ActiveRow(e, s).subject = s
           /\ ActiveRow(e, s).invite = 0
  <1>1. now + InviteTTL \in Nat /\ tokens + 1 \in Nat /\ invites + 1 \in Nat
    BY DEF TypeOK, AccountsAssumption
  <1>2. PICK base : base = NoRow("invited")
    OBVIOUS
  <1>3. base \in Rows /\ base.status = "invited" /\ base.subject = Nobody
    BY <1>2 DEF NoRow, Rows
  <1>4. PICK row : row = InvitedRow(e, admin)
    OBVIOUS
  <1>5. row = [base EXCEPT !.admin = admin, !.email = e, !.token = tokens + 1,
                           !.invite = invites + 1, !.until = now + InviteTTL]
    BY <1>2, <1>4, Zenon DEF InvitedRow
  <1>6. row \in Rows /\ row.status = "invited" /\ row.email = e /\ row.subject = Nobody
        /\ row.invite = invites + 1
    BY <1>1, <1>3, <1>5 DEF Rows
  <1>7. PICK plain : plain = InvitedRow(e, FALSE)
    OBVIOUS
  <1>8. plain = [base EXCEPT !.admin = FALSE, !.email = e, !.token = tokens + 1,
                             !.invite = invites + 1, !.until = now + InviteTTL]
    BY <1>2, <1>7, Zenon DEF InvitedRow
  <1>9. plain \in Rows /\ plain.token = tokens + 1 /\ plain.email = e
    BY <1>1, <1>3, <1>8 DEF Rows
  <1>10. PICK active : active = ActiveRow(e, s)
    OBVIOUS
  <1>11. active = [plain EXCEPT !.status = "active", !.subject = s, !.invite = 0, !.until = 0]
    BY <1>7, <1>10, Zenon DEF ActiveRow
  <1>12. active \in Rows /\ active.status = "active" /\ active.token = tokens + 1
         /\ active.email = e /\ active.subject = s /\ active.invite = 0
    BY <1>9, <1>11 DEF Rows
  <1> QED
    BY <1>4, <1>6, <1>10, <1>12

(* createUser and what follows it. *)
LEMMA InsertShape ==
    ASSUME TypeOK, AccountsAssumption, NEW u \in Ids, NEW e \in Emails,
           NEW s \in Subjects \union {Nobody}, s = Nobody \/ LinkedTo(s) = {},
           NEW admin \in BOOLEAN, NEW row,
           row = InvitedRow(e, admin) \/ row = ActiveRow(e, s), Insert(u, row)
    PROVE  /\ AccountShape
           /\ tokens' = tokens + 1 /\ invites' = invites + 1
           /\ account'[u].status \in Existing
           /\ \A v \in Ids \ {u} : account'[v] = account[v]
           /\ ~Exists(u)
  <1>1. row \in Rows /\ row.status \in {"invited", "active"} /\ row.email = e
    BY NewRows
  <1>2. row.subject = Nobody \/ LinkedTo(row.subject) \subseteq {u}
    BY NewRows
  <1>3. row.invite \in {0, invites + 1} /\ (row.status = "active" => row.token = tokens + 1)
    BY NewRows
  <1>4. /\ Owner(row.email) = {} /\ account' = [account EXCEPT ![u] = row]
        /\ account[u].status = "none" /\ tokens' = tokens + 1
    BY DEF Insert
  <1>5. Lawful(u, row)
    BY <1>1, <1>2, <1>3, <1>4 DEF Lawful, Existing
  <1>6. AccountShape
    BY <1>1, <1>4, <1>5 DEF AccountShape
  <1> QED
    BY <1>1, <1>4, <1>6 DEF Insert, TypeOK, Existing, Exists

LEMMA OpenShape ==
    ASSUME NEW u \in Ids, OpenSession(u), account'[u].status \in Existing, cutoff' = cutoff
    PROVE  SessionShape
  BY DEF OpenSession, SessionShape, NewSession

(* Steps that only rewrite the fields of one existing row. *)
LEMMA RewriteShape ==
    ASSUME TypeOK, NEW u \in Ids, NEW r \in Rows, Exists(u), Lawful(u, r),
           r.status \in Existing, account' = [account EXCEPT ![u] = r],
           sessions' \subseteq sessions, opened' = opened, cutoff' = cutoff, CounterShape
    PROVE  StepShape
  <1>1. AccountShape
    BY DEF AccountShape
  <1>2. \A v \in Ids : Exists(v) => account'[v].status \in Existing
    BY DEF TypeOK, Exists, Existing
  <1> QED
    BY <1>1, <1>2 DEF StepShape, SessionShape, CutShape

LEMMA SteadyShape ==
    ASSUME TypeOK, account' = account, cutoff' = cutoff, SessionShape, CounterShape
    PROVE  StepShape
  BY DEF StepShape, AccountShape, CutShape, Exists, Existing

LEMMA EnabledRow ==
    ASSUME TypeOK, NEW u \in Ids
    PROVE  LET r == Enabled(account[u]) IN
           /\ r \in Rows /\ r.status = "active" /\ r.token = tokens + 1
           /\ r.invite = account[u].invite /\ r.until = account[u].until
           /\ r.email = account[u].email /\ r.subject = account[u].subject
  <1>1. tokens + 1 \in Nat /\ account[u] \in Rows
    BY DEF TypeOK
  <1> QED
    BY <1>1 DEF Enabled, Rows

(* The steps of an administrator, and POST /authorize for an external
   account. *)
LEMMA AdminShape ==
    ASSUME AccountsAssumption, TypeOK, NEW u \in Ids, AdminStep(u)
    PROVE  StepShape
  <1>1. ASSUME NEW e \in Emails, Setup(u, e)  PROVE StepShape
    <2> DEFINE r == [NoRow("active") EXCEPT !.admin = TRUE, !.email = e, !.password = TRUE,
                                            !.token = tokens + 1]
    <2>1. r \in Rows /\ r.status = "active" /\ r.email = e /\ r.subject = Nobody
          /\ r.invite = 0 /\ r.token = tokens + 1
      <3>1. PICK base : base = NoRow("active")
        OBVIOUS
      <3>2. base \in Rows /\ base.status = "active" /\ base.subject = Nobody /\ base.invite = 0
        BY <3>1 DEF NoRow, Rows
      <3>3. PICK row : row = r
        OBVIOUS
      <3>4. row = [base EXCEPT !.admin = TRUE, !.email = e, !.password = TRUE,
                               !.token = tokens + 1]
        BY <3>1, <3>3, Zenon
      <3> HIDE DEF r
      <3>5. row \in Rows /\ row.status = "active" /\ row.email = e /\ row.subject = Nobody
            /\ row.invite = 0 /\ row.token = tokens + 1
        <4>1. tokens + 1 \in Nat
          BY DEF TypeOK
        <4> QED
          BY <3>2, <3>4, <4>1 DEF Rows
      <3> QED
        BY <3>3, <3>5
    <2>2. /\ account' = [account EXCEPT ![u] = r] /\ Owner(e) = {}
          /\ account[u].status = "none" /\ tokens' = tokens + 1
      BY <1>1 DEF Setup
    <2> HIDE DEF r
    <2>3. Lawful(u, r)
      BY <2>1, <2>2 DEF Lawful
    <2>4. account'[u].status \in Existing /\ \A v \in Ids \ {u} : account'[v] = account[v]
      BY <2>1, <2>2 DEF TypeOK, Existing
    <2>5. SessionShape
      BY <1>1, <2>4, OpenShape DEF Setup
    <2>6. CutShape
      BY <1>1, <2>2, <2>4 DEF Setup, CutShape, Exists, Existing
    <2> QED
      BY <1>1, <2>1, <2>2, <2>3, <2>5, <2>6 DEF Setup, StepShape, AccountShape, CounterShape
  <1>2. ASSUME NEW e \in Emails, NEW a \in Roles, CreateUser(u, e, a)  PROVE StepShape
    <2>1. a \in BOOLEAN /\ Insert(u, InvitedRow(e, a))
      BY <1>2 DEF CreateUser, AccountsAssumption
    <2>2. /\ AccountShape /\ tokens' = tokens + 1 /\ invites' = invites + 1
          /\ account'[u].status \in Existing
          /\ \A v \in Ids \ {u} : account'[v] = account[v]
      BY <2>1, InsertShape
    <2> QED
      BY <1>2, <2>2 DEF CreateUser, StepShape, SessionShape, CutShape, CounterShape, Exists, Existing
  <1>3. ASSUME NEW e \in Emails, NEW a \in Roles, UpdateUser(u, e, a)  PROVE StepShape
    <2> DEFINE r == [account[u] EXCEPT !.email = e, !.admin = a]
    <2>1. r \in Rows /\ Lawful(u, r) /\ r.status \in Existing
      <3>1. account[u] \in Rows /\ Exists(u) /\ Owner(e) \subseteq {u} /\ a \in BOOLEAN
        BY <1>3 DEF UpdateUser, TypeOK, AccountsAssumption
      <3>2. /\ r \in Rows /\ r.email = e /\ r.status = account[u].status
            /\ r.token = account[u].token /\ r.subject = account[u].subject
            /\ r.invite = account[u].invite /\ r.until = account[u].until
        BY <3>1 DEF Rows
      <3> HIDE DEF r
      <3>3. r.status = "active" => Active(u) /\ r.token = account[u].token
        BY <3>2 DEF Active
      <3>4. Lawful(u, r)
        BY <3>1, <3>2, <3>3 DEF Lawful
      <3> QED
        BY <3>1, <3>2, <3>4 DEF Exists, Existing
    <2>2. account' = [account EXCEPT ![u] = r]
      BY <1>3 DEF UpdateUser, TypeOK, Rows
    <2> QED
      BY <1>3, <2>1, <2>2, RewriteShape DEF UpdateUser, CounterShape
  <1>4. ASSUME Disable(u) \/ Delete(u)  PROVE StepShape
    <2> DEFINE r == IF Disable(u) THEN [account[u] EXCEPT !.status = "disabled"] ELSE NoRow("deleted")
    <2>1. r \in Rows /\ Lawful(u, r)
      BY <1>4 DEF Disable, Delete, TypeOK, Rows, NoRow, Lawful, Exists, Active, Existing
    <2>2. account' = [account EXCEPT ![u] = r]
      BY <1>4 DEF Disable, Delete, TypeOK, Rows
    <2>3. /\ cutoff' = [cutoff EXCEPT ![u] = opened]
          /\ opened' = opened /\ tokens' = tokens /\ invites' = invites /\ now' = now
          /\ sessions' = {s \in sessions : s.user # u \/ s.id = 0}
      BY <1>4 DEF Disable, Delete, DestroySessions
    <2>4. \A v \in Ids \ {u} : account'[v] = account[v]
      BY <2>2 DEF TypeOK
    <2> QED
      BY <2>1, <2>2, <2>3, <2>4 DEF StepShape, AccountShape, SessionShape, CutShape, CounterShape
  <1>5. ASSUME Enable(u)  PROVE StepShape
    <2> DEFINE r == Enabled(account[u])
    <2>1. r \in Rows /\ r.status = "active" /\ r.token = tokens + 1
          /\ r.invite = account[u].invite /\ r.until = account[u].until
          /\ r.email = account[u].email /\ r.subject = account[u].subject
      BY EnabledRow
    <2>2. account' = [account EXCEPT ![u] = r] /\ Exists(u) /\ tokens' = tokens + 1
      BY <1>5 DEF Enable, TypeOK
    <2> HIDE DEF r
    <2>3. Lawful(u, r) /\ r.status \in Existing
      BY <2>1, <2>2 DEF Lawful, Existing
    <2> QED
      BY <1>5, <2>1, <2>2, <2>3, RewriteShape DEF Enable, CounterShape
  <1>6. ASSUME RegenerateToken(u)  PROVE StepShape
    <2> DEFINE r == [account[u] EXCEPT !.token = tokens + 1]
    <2>1. r \in Rows /\ Lawful(u, r) /\ r.status \in Existing
      BY <1>6 DEF RegenerateToken, TypeOK, Rows, Lawful, Exists, Active, Existing
    <2>2. account' = [account EXCEPT ![u] = r]
      BY <1>6 DEF RegenerateToken, TypeOK, Rows
    <2> QED
      BY <1>6, <2>1, <2>2, RewriteShape DEF RegenerateToken, CounterShape
  <1>7. ASSUME ResendInvitation(u)  PROVE StepShape
    <2> DEFINE r == [account[u] EXCEPT !.status = "invited", !.invite = invites + 1,
                                       !.until = now + InviteTTL]
    <2>1. /\ r \in Rows /\ r.status = "invited" /\ r.invite = invites + 1
          /\ r.email = account[u].email /\ r.subject = account[u].subject
      <3>1. now + InviteTTL \in Nat /\ invites + 1 \in Nat /\ account[u] \in Rows
        BY DEF TypeOK, AccountsAssumption
      <3> QED
        BY <3>1 DEF Rows
    <2>2. account' = [account EXCEPT ![u] = r] /\ Exists(u)
      BY <1>7 DEF ResendInvitation, TypeOK, Rows
    <2> HIDE DEF r
    <2>3. Lawful(u, r) /\ r.status \in Existing
      BY <2>1, <2>2 DEF Lawful, Existing
    <2> QED
      BY <1>7, <2>1, <2>2, <2>3, RewriteShape DEF ResendInvitation, CounterShape
  <1> QED
    BY <1>1, <1>2, <1>3, <1>4, <1>5, <1>6, <1>7 DEF AdminStep

LEMMA ExternalAccountShape ==
    ASSUME AccountsAssumption, TypeOK, NEW u \in Ids, NEW e \in Emails, ExternalAccount(u, e)
    PROVE  StepShape
  <1>1. CASE Insert(u, ActiveRow(e, Nobody))
    <2>1. /\ AccountShape /\ tokens' = tokens + 1 /\ invites' = invites + 1
          /\ account'[u].status \in Existing
          /\ \A v \in Ids \ {u} : account'[v] = account[v]
      BY <1>1, InsertShape
    <2> QED
      BY <2>1 DEF ExternalAccount, StepShape, SessionShape, CutShape, CounterShape, Exists, Existing
  <1>2. CASE UNCHANGED <<account, tokens, invites>>
    BY <1>2, SteadyShape DEF ExternalAccount, SessionShape, CounterShape
  <1> QED
    BY <1>1, <1>2 DEF ExternalAccount

(* An insertion and the session opened with it. *)
LEMMA InsertAndOpen ==
    ASSUME AccountsAssumption, TypeOK, NEW u \in Ids, NEW e \in Emails,
           NEW s \in Subjects \union {Nobody}, s = Nobody \/ LinkedTo(s) = {},
           Insert(u, ActiveRow(e, s)), OpenSession(u), now' = now, cutoff' = cutoff
    PROVE  StepShape
  <1>1. /\ AccountShape /\ tokens' = tokens + 1 /\ invites' = invites + 1
        /\ account'[u].status \in Existing
        /\ \A v \in Ids \ {u} : account'[v] = account[v]
    BY InsertShape
  <1>2. SessionShape
    BY <1>1, OpenShape
  <1> QED
    BY <1>1, <1>2 DEF StepShape, CutShape, CounterShape, Exists, Existing

LEMMA OpenAlone ==
    ASSUME TypeOK, NEW u \in Ids, Exists(u), OpenSession(u),
           UNCHANGED <<account, tokens, invites, now, cutoff>>
    PROVE  StepShape
  <1>1. SessionShape
    BY OpenShape DEF Exists, Existing
  <1> QED
    BY <1>1, SteadyShape DEF CounterShape

LEMMA SignInShape ==
    ASSUME AccountsAssumption, TypeOK, SignInStep
    PROVE  StepShape
  <1>1. ASSUME NEW u \in Ids, PasswordLogin(u)  PROVE StepShape
    BY <1>1, OpenAlone DEF PasswordLogin, Exists
  <1>2. ASSUME NEW t \in 1..tokens, TokenLogin(t)  PROVE StepShape
    BY <1>2, OpenAlone DEF TokenLogin, Active, Exists
  <1>3. ASSUME NEW c \in 1..invites, Activate(c)  PROVE StepShape
    <2>1. PICK u \in Invited(c) : account' = [account EXCEPT ![u] =
            [Enabled(@) EXCEPT !.password = TRUE, !.invite = 0, !.until = 0]]
      BY <1>3 DEF Activate
    <2>2. u \in Ids /\ Exists(u) /\ tokens' = tokens + 1
      BY <1>3 DEF Invited, Activate
    <2>3. PICK old : old = Enabled(account[u])
      OBVIOUS
    <2>4. old \in Rows /\ old.status = "active" /\ old.token = tokens + 1
          /\ old.email = account[u].email /\ old.subject = account[u].subject
      BY <2>2, <2>3, EnabledRow
    <2>5. PICK r : r = [old EXCEPT !.password = TRUE, !.invite = 0, !.until = 0]
      OBVIOUS
    <2>6. r \in Rows /\ r.status = "active" /\ r.token = tokens + 1 /\ r.invite = 0
          /\ r.email = account[u].email /\ r.subject = account[u].subject
      BY <2>4, <2>5 DEF Rows
    <2>7. account' = [account EXCEPT ![u] = r]
      BY <2>1, <2>2, <2>3, <2>5 DEF TypeOK
    <2>8. Lawful(u, r) /\ r.status \in Existing
      BY <2>2, <2>6 DEF Lawful, Existing
    <2> QED
      BY <1>3, <2>2, <2>6, <2>7, <2>8, RewriteShape DEF Activate, CounterShape
  <1>4. ASSUME NEW e \in Emails, ExternalLogin(e)  PROVE StepShape
    <2>1. ASSUME NEW u \in Owner(e), Active(u), OpenSession(u),
                 UNCHANGED <<account, tokens, invites>>
          PROVE  StepShape
      BY <1>4, <2>1, OpenAlone DEF ExternalLogin, Owner
    <2>2. ASSUME NEW u \in Ids, Insert(u, ActiveRow(e, Nobody)), OpenSession(u)  PROVE StepShape
      BY <1>4, <2>2, InsertAndOpen DEF ExternalLogin
    <2> QED
      BY <1>4, <2>1, <2>2 DEF ExternalLogin
  <1>5. ASSUME NEW s \in Subjects, NEW e \in Emails, SsoLogin(s, e)  PROVE StepShape
    <2>1. PICK u \in Ids : SsoAccount(u, s, e) /\ OpenSession(u)
      BY <1>5 DEF SsoLogin
    <2>2. now' = now /\ cutoff' = cutoff
      BY <1>5 DEF SsoLogin
    <2>3. CASE u \in LinkedTo(s) /\ UNCHANGED <<account, tokens, invites>>
      BY <2>1, <2>2, <2>3, OpenAlone DEF LinkedTo
    <2>4. CASE /\ LinkedTo(s) = {} /\ u \in Owner(e)
               /\ account' = [account EXCEPT ![u].subject = s]
               /\ UNCHANGED <<tokens, invites>>
      <3> DEFINE r == [account[u] EXCEPT !.subject = s]
      <3>1. Exists(u) /\ account[u] \in Rows
        BY <2>4 DEF Owner, TypeOK
      <3>2. r \in Rows /\ Lawful(u, r) /\ r.status \in Existing
        BY <2>4, <3>1 DEF Rows, Lawful, Exists, Active, Existing
      <3>3. account' = [account EXCEPT ![u] = r]
        BY <2>4 DEF TypeOK, Rows
      <3>4. AccountShape
        BY <3>2, <3>3 DEF AccountShape
      <3>5. \A v \in Ids : Exists(v) => account'[v].status \in Existing
        BY <3>2, <3>3 DEF TypeOK, Exists, Existing
      <3>6. SessionShape
        BY <2>1, <2>2, <3>1, <3>5, OpenShape
      <3> QED
        BY <2>2, <2>4, <3>4, <3>5, <3>6 DEF StepShape, CutShape, CounterShape
    <2>5. CASE LinkedTo(s) = {} /\ Insert(u, ActiveRow(e, s))
      BY <2>1, <2>2, <2>5, InsertAndOpen
    <2> QED
      BY <2>1, <2>3, <2>4, <2>5 DEF SsoAccount
  <1>6. ASSUME NEW s \in Subjects, NEW e \in Emails, ProfileSignUp(s, e)  PROVE StepShape
    <2>1. PICK u \in Ids : Insert(u, ActiveRow(e, s))
      BY <1>6 DEF ProfileSignUp
    <2>2. /\ AccountShape /\ tokens' = tokens + 1 /\ invites' = invites + 1
          /\ account'[u].status \in Existing
          /\ \A v \in Ids \ {u} : account'[v] = account[v]
      BY <1>6, <2>1, InsertShape DEF ProfileSignUp
    <2> QED
      BY <1>6, <2>2 DEF ProfileSignUp, StepShape, SessionShape, CutShape, CounterShape, Exists, Existing
  <1> QED
    BY <1>1, <1>2, <1>3, <1>4, <1>5, <1>6 DEF SignInStep

LEMMA SessionStepShape ==
    ASSUME TypeOK, SessionStep
    PROVE  StepShape
  <1>1. PICK s \in sessions : RenewSession(s) \/ DropExpired(s) \/ Logout(s) \/ ChangePassword(s)
    BY DEF SessionStep
  <1>2. CASE RenewSession(s)
    BY <1>2, SteadyShape DEF RenewSession, SessionShape, CounterShape
  <1>3. CASE DropExpired(s) \/ Logout(s)
    BY <1>3, SteadyShape DEF DropExpired, Logout, SessionShape, CounterShape
  <1>4. CASE ChangePassword(s)
    <2> DEFINE u == s.user
               r == [account[u] EXCEPT !.password = TRUE]
    <2>1. u \in Ids /\ Exists(u) /\ account[u] \in Rows
      BY <1>4 DEF ChangePassword, TypeOK
    <2>2. r \in Rows /\ Lawful(u, r) /\ r.status \in Existing
      BY <2>1 DEF Rows, Lawful, Exists, Active, Existing
    <2>3. account' = [account EXCEPT ![u] = r]
      BY <1>4, <2>1 DEF ChangePassword, TypeOK, Rows
    <2>4. sessions' \subseteq sessions
      BY <1>4 DEF ChangePassword, DestroySessions
    <2> QED
      BY <1>4, <2>1, <2>2, <2>3, <2>4, RewriteShape DEF ChangePassword, CounterShape
  <1> QED
    BY <1>1, <1>2, <1>3, <1>4

LEMMA EveryStepHasTheShape ==
    ASSUME AccountsAssumption, TypeOK, [Next]_accountVars
    PROVE  StepShape
  <1>1. CASE Restart \/ Tick \/ UNCHANGED accountVars
    BY <1>1, SteadyShape DEF Restart, Tick, accountVars, SessionShape, CounterShape
  <1> QED
    BY <1>1, AdminShape, ExternalAccountShape, SignInShape, SessionStepShape DEF Next
----------------------------------------------------------------------------
(* Every variable of the accounts keeps its type (users and auth_sessions
   rows, counters of credentials drawn). *)
LEMMA TypeStep ==
    ASSUME AccountsAssumption, TypeOK, [Next]_accountVars
    PROVE  TypeOK'
  <1>1. StepShape
    BY EveryStepHasTheShape
  <1>2. account' \in [Ids -> Rows]
    BY <1>1 DEF TypeOK, StepShape, AccountShape
  <1>3. tokens' \in Nat /\ invites' \in Nat /\ now' \in Nat
    BY <1>1 DEF TypeOK, StepShape, CounterShape
  <1>4. now + SessionTTL \in Nat /\ \A s \in sessions : s.created + MaxLifetime \in Nat
    BY DEF TypeOK, AccountsAssumption
  <1>5. opened' \in Nat /\ sessions' \subseteq [id: Nat, user: Ids, created: Nat, expires: Nat]
    <2>1. CASE opened' = opened /\ sessions' \subseteq sessions
      BY <2>1 DEF TypeOK
    <2>2. ASSUME NEW u \in Ids, opened' = opened + 1, sessions' = sessions \union {NewSession(u)}
          PROVE  opened' \in Nat /\ sessions' \subseteq [id: Nat, user: Ids, created: Nat, expires: Nat]
      BY <1>4, <2>2 DEF TypeOK, NewSession
    <2>3. ASSUME NEW s \in sessions, opened' = opened, sessions' = (sessions \ {s}) \union {Renewed(s)}
          PROVE  opened' \in Nat /\ sessions' \subseteq [id: Nat, user: Ids, created: Nat, expires: Nat]
      <3>1. Renewed(s) \in [id: Nat, user: Ids, created: Nat, expires: Nat]
        BY <1>4 DEF TypeOK, Renewed
      <3> QED
        BY <2>3, <3>1 DEF TypeOK
    <2> QED
      BY <1>1, <2>1, <2>2, <2>3 DEF StepShape, SessionShape
  <1>6. cutoff' \in [Ids -> Nat]
    BY <1>1 DEF TypeOK, StepShape, CutShape
  <1> QED
    BY <1>2, <1>3, <1>5, <1>6 DEF TypeOK

THEOREM AccountsTypeCorrect == Spec => []TypeOK
  <1>1. Init => TypeOK
    BY DEF Init, TypeOK, NoRow, Rows
  <1>2. TypeOK /\ [Next]_accountVars => TypeOK'
    BY TypeStep, AccountsAssumption
  <1> QED
    BY <1>1, <1>2, PTL DEF Spec
----------------------------------------------------------------------------
(* What a refused bearer token, onboarding code or session would need to be
   accepted again is a row or a session that carries it, and every step that
   makes a row active or invites it draws the next number. *)
LEMMA DeadStep ==
    ASSUME AccountsAssumption, TypeOK, [Next]_accountVars
    PROVE  /\ \A t \in 1..tokens : ~Opens(t) => ~Opens(t)'
           /\ \A c \in 1..invites : Invited(c) = {} => Invited(c)' = {}
           /\ \A i \in 1..opened : ~Lives(i) => ~Lives(i)'
  <1>1. StepShape
    BY EveryStepHasTheShape
  <1>2. ASSUME NEW t \in 1..tokens, Opens(t)'  PROVE Opens(t)
    <2>1. PICK v \in Ids : account'[v].status = "active" /\ account'[v].token = t
      BY <1>2 DEF Opens, Active
    <2>2. CASE account' = account
      BY <2>1, <2>2 DEF Opens, Active
    <2>3. ASSUME NEW u \in Ids, NEW r \in Rows, account' = [account EXCEPT ![u] = r], Lawful(u, r)
          PROVE  Opens(t)
      <3>1. CASE v = u
        <4>1. account'[v] = r
          BY <2>3, <3>1 DEF TypeOK
        <4>2. r.token = tokens + 1 \/ (Active(u) /\ r.token = account[u].token)
          BY <2>1, <2>3, <4>1 DEF Lawful
        <4>3. t # tokens + 1
          BY DEF TypeOK
        <4> QED
          BY <2>1, <4>1, <4>2, <4>3 DEF Opens
      <3>2. CASE v # u
        BY <2>1, <2>3, <3>2 DEF TypeOK, Opens, Active
      <3> QED
        BY <3>1, <3>2
    <2> QED
      BY <1>1, <2>2, <2>3 DEF StepShape, AccountShape
  <1>3. ASSUME NEW c \in 1..invites, NEW v \in Invited(c)'  PROVE v \in Invited(c)
    <2>1. /\ v \in Ids /\ account'[v].status \in Existing
          /\ account'[v].invite = c /\ account'[v].until > now'
      BY <1>3 DEF Invited, Exists, Existing
    <2>2. now' >= now /\ now \in Nat /\ now' \in Nat /\ c # 0 /\ c # invites + 1
      BY <1>1 DEF TypeOK, StepShape, CounterShape
    <2>3. CASE account' = account
      BY <2>1, <2>2, <2>3 DEF Invited, Exists, Existing, TypeOK, Rows
    <2>4. ASSUME NEW u \in Ids, NEW r \in Rows, account' = [account EXCEPT ![u] = r], Lawful(u, r)
          PROVE  v \in Invited(c)
      <3>1. CASE v = u
        <4>1. account'[v] = r
          BY <2>4, <3>1 DEF TypeOK
        <4>2. Exists(u) /\ r.invite = account[u].invite /\ r.until = account[u].until
          BY <2>1, <2>2, <2>4, <4>1 DEF Lawful
        <4>3. account[u].until \in Nat
          BY DEF TypeOK, Rows
        <4> QED
          BY <2>1, <2>2, <3>1, <4>1, <4>2, <4>3 DEF Invited
      <3>2. CASE v # u
        <4>1. account'[v] = account[v] /\ account[v].until \in Nat
          BY <2>1, <2>4, <3>2 DEF TypeOK, Rows
        <4> QED
          BY <2>1, <2>2, <4>1 DEF Invited, Exists, Existing
      <3> QED
        BY <3>1, <3>2
    <2> QED
      BY <1>1, <2>3, <2>4 DEF StepShape, AccountShape
  <1>4. ASSUME NEW i \in 1..opened, Lives(i)'  PROVE Lives(i)
    <2>1. PICK s \in sessions' : s.id = i /\ now' <= s.expires
      BY <1>4 DEF Lives, Usable
    <2>2. now <= now' /\ now \in Nat /\ now' \in Nat
      BY <1>1 DEF TypeOK, StepShape, CounterShape
    <2>3. ASSUME s \in sessions  PROVE Lives(i)
      <3>1. s.expires \in Nat
        BY <2>3 DEF TypeOK
      <3> QED
        BY <2>1, <2>2, <2>3, <3>1 DEF Lives, Usable
    <2>4. CASE opened' = opened /\ sessions' \subseteq sessions
      BY <2>3, <2>4
    <2>5. ASSUME NEW u \in Ids, sessions' = sessions \union {NewSession(u)}
          PROVE  Lives(i)
      <3>1. NewSession(u).id # i
        BY DEF NewSession, TypeOK
      <3> QED
        BY <2>1, <2>3, <2>5, <3>1
    <2>6. ASSUME NEW z \in sessions, Usable(z), sessions' = (sessions \ {z}) \union {Renewed(z)}
          PROVE  Lives(i)
      <3>1. Renewed(z).id = z.id
        BY DEF Renewed, TypeOK
      <3> QED
        BY <2>1, <2>3, <2>6, <3>1 DEF Lives
    <2> QED
      BY <1>1, <2>4, <2>5, <2>6 DEF StepShape, SessionShape
  <1> QED
    BY <1>2, <1>3, <1>4

(* A refused credential is refused for ever, for any number of accounts and
   steps. *)
THEOREM RefusedForEver == Spec => DeadStaysDead
  <1>1. TypeOK /\ [Next]_accountVars
        => [ /\ \A t \in 1..tokens : ~Opens(t) => ~Opens(t)'
             /\ \A c \in 1..invites : Invited(c) = {} => Invited(c)' = {}
             /\ \A i \in 1..opened : ~Lives(i) => ~Lives(i)']_accountVars
    BY DeadStep, AccountsAssumption
  <1> QED
    BY <1>1, AccountsTypeCorrect, PTL DEF Spec, DeadStaysDead
----------------------------------------------------------------------------
(* One account per identity, without counting. *)
Unshared ==
    /\ \A s \in Subjects : \A u, v \in LinkedTo(s) : u = v
    /\ \A e \in Emails : \A u, v \in Owner(e) : u = v

LEMMA AtMostOne ==
    ASSUME NEW S, \A u, v \in S : u = v
    PROVE  Cardinality(S) <= 1
  <1>1. CASE S = {}
    BY <1>1, FS_EmptySet
  <1>2. ASSUME NEW x \in S  PROVE Cardinality(S) <= 1
    <2>1. S = {x}
      OBVIOUS
    <2> QED
      BY <2>1, FS_Singleton
  <1> QED
    BY <1>1, <1>2

LEMMA UnsharedStep ==
    ASSUME AccountsAssumption, TypeOK, Unshared, [Next]_accountVars
    PROVE  Unshared'
  <1>1. StepShape
    BY EveryStepHasTheShape
  <1>2. CASE account' = account
    BY <1>2 DEF Unshared, LinkedTo, Owner, Exists
  <1>3. ASSUME NEW u \in Ids, NEW r \in Rows, account' = [account EXCEPT ![u] = r], Lawful(u, r)
        PROVE  Unshared'
    <2>1. account'[u] = r /\ \A v \in Ids \ {u} : account'[v] = account[v]
      BY <1>3 DEF TypeOK
    <2>2. ASSUME NEW s \in Subjects, NEW v \in LinkedTo(s)', v # u
          PROVE  v \in LinkedTo(s) /\ (u \in LinkedTo(s)' => FALSE)
      <3>1. v \in Ids /\ v \in LinkedTo(s)
        BY <2>1, <2>2 DEF LinkedTo, Exists
      <3>2. ASSUME u \in LinkedTo(s)'  PROVE FALSE
        <4>1. r.status \in Existing /\ r.subject = s
          BY <2>1, <3>2 DEF LinkedTo, Exists, Existing
        <4>2. s # Nobody
          BY DEF AccountsAssumption
        <4>3. \/ Exists(u) /\ r.subject = account[u].subject
              \/ LinkedTo(s) \subseteq {u}
          BY <1>3, <4>1, <4>2 DEF Lawful
        <4>4. u \in LinkedTo(s) \/ LinkedTo(s) \subseteq {u}
          BY <4>1, <4>3 DEF LinkedTo
        <4> QED
          BY <2>2, <3>1, <4>4 DEF Unshared
      <3> QED
        BY <3>1, <3>2
    <2>3. ASSUME NEW e \in Emails, NEW v \in Owner(e)', v # u
          PROVE  v \in Owner(e) /\ (u \in Owner(e)' => FALSE)
      <3>1. v \in Ids /\ v \in Owner(e)
        BY <2>1, <2>3 DEF Owner, Exists
      <3>2. ASSUME u \in Owner(e)'  PROVE FALSE
        <4>1. r.status \in Existing /\ r.email = e
          BY <2>1, <3>2 DEF Owner, Exists, Existing
        <4>2. \/ Exists(u) /\ r.email = account[u].email
              \/ Owner(e) \subseteq {u}
          BY <1>3, <4>1 DEF Lawful
        <4>3. u \in Owner(e) \/ Owner(e) \subseteq {u}
          BY <4>1, <4>2 DEF Owner
        <4> QED
          BY <2>3, <3>1, <4>3 DEF Unshared
      <3> QED
        BY <3>1, <3>2
    <2> QED
      BY <2>2, <2>3 DEF Unshared
  <1> QED
    BY <1>1, <1>2, <1>3 DEF StepShape, AccountShape

(* One external identity signs in to one account and one address belongs to
   one account, for any accounts, addresses and providers' answers. *)
THEOREM OneAccount == Spec => []OneAccountPerIdentity
  <1>1. Init => Unshared
    BY DEF Init, Unshared, LinkedTo, Owner, Exists, NoRow
  <1>2. TypeOK /\ Unshared /\ [Next]_accountVars => Unshared'
    BY UnsharedStep, AccountsAssumption
  <1>3. Unshared => OneAccountPerIdentity
    BY AtMostOne DEF Unshared, OneAccountPerIdentity
  <1> QED
    BY <1>1, <1>2, <1>3, AccountsTypeCorrect, PTL DEF Spec
----------------------------------------------------------------------------
(* SignedOutForGood with what makes it inductive: session ids and cut-offs
   do not run ahead of the ids drawn. *)
SessionInv ==
    /\ \A s \in sessions : Exists(s.user) /\ s.id > cutoff[s.user] /\ s.id <= opened
    /\ \A u \in Ids : cutoff[u] <= opened

LEMMA SessionInvStep ==
    ASSUME AccountsAssumption, TypeOK, SessionInv, [Next]_accountVars
    PROVE  SessionInv'
  <1>1. StepShape
    BY EveryStepHasTheShape
  <1>2. CASE /\ cutoff' = cutoff
             /\ \A v \in Ids : Exists(v) => account'[v].status \in Existing
    <2>0. \A s \in sessions : Exists(s.user)'
      BY <1>2 DEF SessionInv, TypeOK, Exists, Existing
    <2>1. CASE opened' = opened /\ sessions' \subseteq sessions
      BY <1>2, <2>0, <2>1 DEF SessionInv
    <2>2. ASSUME NEW u \in Ids, opened' = opened + 1, sessions' = sessions \union {NewSession(u)},
                 account'[u].status \in Existing
          PROVE  SessionInv'
      <3>1. NewSession(u).user = u /\ NewSession(u).id = opened + 1
        BY DEF NewSession
      <3>2. Exists(u)'
        BY <2>2 DEF Exists, Existing
      <3>3. \A v \in Ids : cutoff[v] \in Nat /\ cutoff[v] <= opened
        BY DEF SessionInv, TypeOK
      <3>4. opened \in Nat /\ \A s \in sessions : s.id \in Nat /\ s.id <= opened /\ s.user \in Ids
        BY DEF SessionInv, TypeOK
      <3>5. \A v \in Ids : cutoff'[v] <= opened'
        BY <1>2, <2>2, <3>3, <3>4
      <3>6. \A s \in sessions : s.id > cutoff'[s.user] /\ s.id <= opened'
        BY <1>2, <2>2, <3>4 DEF SessionInv
      <3>7. NewSession(u).id > cutoff'[u] /\ NewSession(u).id <= opened'
        BY <1>2, <2>2, <3>1, <3>3, <3>4
      <3> QED
        BY <2>0, <2>2, <3>1, <3>2, <3>5, <3>6, <3>7 DEF SessionInv
    <2>3. ASSUME NEW z \in sessions, opened' = opened,
                 sessions' = (sessions \ {z}) \union {Renewed(z)}
          PROVE  SessionInv'
      <3>1. Renewed(z).id = z.id /\ Renewed(z).user = z.user
        BY DEF Renewed, TypeOK
      <3> QED
        BY <1>2, <2>0, <2>3, <3>1 DEF SessionInv
    <2> QED
      BY <1>1, <2>1, <2>2, <2>3 DEF StepShape, SessionShape
  <1>3. ASSUME NEW u \in Ids, cutoff' = [cutoff EXCEPT ![u] = opened], opened' = opened,
               sessions' = {s \in sessions : s.user # u \/ s.id = 0},
               \A v \in Ids \ {u} : account'[v] = account[v]
        PROVE  SessionInv'
    <2>1. \A s \in sessions : s.id \in Nat /\ s.id # 0 /\ s.user \in Ids /\ cutoff[s.user] \in Nat
      BY DEF SessionInv, TypeOK
    <2>2. \A s \in sessions' : s \in sessions /\ s.user # u
      BY <1>3, <2>1
    <2>3. \A s \in sessions' : Exists(s.user)' /\ cutoff'[s.user] = cutoff[s.user]
      BY <1>3, <2>1, <2>2 DEF SessionInv, Exists, TypeOK
    <2> QED
      BY <1>3, <2>2, <2>3 DEF SessionInv, TypeOK
  <1> QED
    BY <1>1, <1>2, <1>3 DEF StepShape, CutShape

(* No stored session belongs to an account that is gone, or dates from before
   its account was last disabled. *)
THEOREM SessionsEndWithTheirAccount == Spec => []SignedOutForGood
  <1>1. Init => SessionInv
    BY DEF Init, SessionInv
  <1>2. TypeOK /\ SessionInv /\ [Next]_accountVars => SessionInv'
    BY SessionInvStep, AccountsAssumption
  <1>3. SessionInv => SignedOutForGood
    BY DEF SessionInv, SignedOutForGood
  <1> QED
    BY <1>1, <1>2, <1>3, AccountsTypeCorrect, PTL DEF Spec
----------------------------------------------------------------------------
(* The authorization server over the accounts. *)
LEMMA StepImplementsAccounts ==
    ASSUME [OAuthNext]_allVars
    PROVE  [Next]_accountVars
  <1>1. CASE Register
    BY <1>1 DEF Register, accountVars
  <1>2. ASSUME NEW c \in 1..drawn, ClientStep(c)  PROVE UNCHANGED accountVars
    BY <1>2 DEF ClientStep, SendToProvider, SubmitExternal, Authorize, accountVars
  <1>3. ASSUME NEW p \in pending, Callback(p)  PROVE UNCHANGED accountVars
    BY <1>3 DEF Callback, accountVars
  <1>4. ASSUME NEW a \in awaiting, AnswerStep(a)  PROVE [Next]_accountVars
    <2>1. ASSUME NEW e \in Emails, ExternalAnswers(a, e)  PROVE Next
      BY <2>1 DEF ExternalAnswers, Next
    <2>2. ASSUME (\E s \in Subjects : ProviderAnswers(a, s)) \/ AnswerRefused(a)
          PROVE  UNCHANGED accountVars
      BY <2>2 DEF ProviderAnswers, AnswerRefused, accountVars
    <2> QED
      BY <1>4, <2>1, <2>2 DEF AnswerStep
  <1>5. ASSUME NEW x \in codes, Exchange(x) \/ ExchangeExpired(x)  PROVE UNCHANGED accountVars
    BY <1>5 DEF Exchange, ExchangeExpired, accountVars
  <1>6. CASE OAuthRestart
    BY <1>6 DEF OAuthRestart, Next
  <1>7. CASE AccountStep
    BY <1>7 DEF AccountStep, Next
  <1>8. CASE UNCHANGED allVars
    BY <1>8 DEF allVars
  <1> QED
    BY <1>1, <1>2, <1>3, <1>4, <1>5, <1>6, <1>7, <1>8 DEF OAuthNext

(* Whatever the authorization server does with clients, codes and providers,
   the accounts make only the steps of Accounts, so the theorems above hold
   of the composition. *)
LEMMA OAuthImplementsAccounts == OAuthSpec => Spec
  <1>1. OAuthInit => Init
    BY DEF OAuthInit
  <1>2. [OAuthNext]_allVars => [Next]_accountVars
    BY StepImplementsAccounts
  <1> QED
    BY <1>1, <1>2, PTL DEF OAuthSpec, Spec

ClientRows(d) == [id: 1..d, created: Nat, used: BOOLEAN]
PendingRows(g, d) == [grant: 1..g, client: 1..d, expires: Nat]
AwaitingRows(g, d) == [grant: 1..g, client: 1..d, form: BOOLEAN]
CodeRows(m, g, d) == [id: 1..m, grant: 1..g, client: 1..d, token: Nat, expires: Nat]

(* The rows of today are rows of tomorrow: the counters only grow. *)
LEMMA RowsGrow ==
    ASSUME OAuthAssumption, OAuthTypeOK, NEW d \in Nat, NEW g \in Nat, NEW m \in Nat,
           drawn <= d, grants <= g, minted <= m
    PROVE  /\ clients \subseteq ClientRows(d)
           /\ pending \subseteq PendingRows(g, d)
           /\ awaiting \subseteq AwaitingRows(g, d)
           /\ codes \subseteq CodeRows(m, g, d)
           /\ honoured \subseteq 1..d
  <1>1. 1..drawn \subseteq 1..d /\ 1..grants \subseteq 1..g /\ 1..minted \subseteq 1..m
    BY DEF OAuthTypeOK, OAuthAssumption
  <1>2. clients \subseteq ClientRows(d)
    BY <1>1 DEF OAuthTypeOK, ClientRows
  <1>3. pending \subseteq PendingRows(g, d)
    BY <1>1 DEF OAuthTypeOK, PendingRows
  <1>4. awaiting \subseteq AwaitingRows(g, d)
    BY <1>1 DEF OAuthTypeOK, AwaitingRows
  <1>5. codes \subseteq CodeRows(m, g, d)
    BY <1>1 DEF OAuthTypeOK, CodeRows
  <1> QED
    BY <1>1, <1>2, <1>3, <1>4, <1>5 DEF OAuthTypeOK

LEMMA TypeFromRows ==
    ASSUME clients' \subseteq ClientRows(drawn'), drawn' \in 0..MaxClients,
           pending' \subseteq PendingRows(grants', drawn'),
           awaiting' \subseteq AwaitingRows(grants', drawn'),
           codes' \subseteq CodeRows(minted', grants', drawn'),
           grants' \in 0..MaxGrants, minted' \in 0..MaxCodes,
           exchanged' \in [1..MaxGrants -> Nat], born' \in [1..MaxClients -> Nat],
           honoured' \subseteq 1..drawn'
    PROVE  OAuthTypeOK'
  BY DEF OAuthTypeOK, ClientRows, PendingRows, AwaitingRows, CodeRows

(* What /register may do to the table: stale rows and rows that are never used
   and past the minimum age go, one fresh row may come. *)
LEMMA RegisterShape ==
    ASSUME OAuthAssumption, TypeOK, OAuthTypeOK, Register
    PROVE  /\ \A k \in clients \ clients' : ~k.used /\ k.created + PurgeMinAge < now
           /\ \A k \in clients' \ clients : k = [id |-> drawn + 1, created |-> now, used |-> FALSE]
           /\ drawn' = drawn + 1 /\ drawn + 1 \in 1..MaxClients
           /\ born' = [born EXCEPT ![drawn + 1] = now]
           /\ UNCHANGED <<accountVars, pending, awaiting, codes, grants, minted, exchanged, honoured>>
  <1> DEFINE table == clients \ Stale
  <1>1. PICK gone \in MadeRoom(table) :
          clients' = (table \ gone) \union
             IF Refused(table, gone) THEN {}
             ELSE {[id |-> drawn + 1, created |-> now, used |-> FALSE]}
    BY DEF Register
  <1>2. gone \subseteq Purgeable(table)
    BY DEF MadeRoom
  <1>3. \A k \in clients : k.created \in Nat
    BY DEF OAuthTypeOK
  <1>4. now \in Nat /\ PurgeMinAge \in Nat /\ StaleAfter \in Nat /\ PurgeMinAge <= StaleAfter
    BY DEF TypeOK, OAuthAssumption
  <1>5. \A k \in Stale : ~k.used /\ k.created + PurgeMinAge < now
    BY <1>3, <1>4 DEF Stale, Unused, OlderThan
  <1>6. \A k \in gone : ~k.used /\ k.created + PurgeMinAge < now
    BY <1>2 DEF Purgeable, Unused, OlderThan
  <1>7. \A k \in clients \ clients' : ~k.used /\ k.created + PurgeMinAge < now
    BY <1>1, <1>5, <1>6
  <1>8. \A k \in clients' \ clients : k = [id |-> drawn + 1, created |-> now, used |-> FALSE]
    BY <1>1
  <1>9. drawn' = drawn + 1 /\ drawn + 1 \in 1..MaxClients
    BY DEF Register, OAuthTypeOK, OAuthAssumption
  <1> QED
    BY <1>7, <1>8, <1>9 DEF Register

LEMMA OAuthTypeStep ==
    ASSUME OAuthAssumption, AccountsAssumption, TypeOK, OAuthTypeOK, [OAuthNext]_allVars
    PROVE  OAuthTypeOK'
  <1>0. TypeOK'
    BY StepImplementsAccounts, TypeStep
  <1>1. /\ MaxGrants \in Nat /\ MaxCodes \in Nat /\ MaxClients \in Nat /\ now \in Nat
        /\ now + CodeTTL \in Nat /\ now + PendingTTL \in Nat
    BY DEF OAuthAssumption, TypeOK
  <1>2. /\ drawn \in Nat /\ drawn <= MaxClients /\ drawn \in 0..MaxClients
        /\ grants \in Nat /\ grants <= MaxGrants /\ grants \in 0..MaxGrants
        /\ minted \in Nat /\ minted <= MaxCodes /\ minted \in 0..MaxCodes
    <2>1. drawn \in 0..MaxClients /\ grants \in 0..MaxGrants /\ minted \in 0..MaxCodes
      BY Zenon DEF OAuthTypeOK
    <2> QED
      BY <1>1, <2>1
  <1>2f. exchanged \in [1..MaxGrants -> Nat] /\ born \in [1..MaxClients -> Nat]
    BY Zenon DEF OAuthTypeOK
  <1>2n. /\ clients \subseteq ClientRows(drawn) /\ pending \subseteq PendingRows(grants, drawn)
          /\ awaiting \subseteq AwaitingRows(grants, drawn)
          /\ codes \subseteq CodeRows(minted, grants, drawn) /\ honoured \subseteq 1..drawn
    BY Zenon DEF OAuthTypeOK, ClientRows, PendingRows, AwaitingRows, CodeRows
  <1>3. CASE Register
    <2>1. drawn' = drawn + 1 /\ drawn' \in Nat /\ drawn' \in 0..MaxClients
      BY <1>1, <1>2, <1>3, RegisterShape
    <2>2. [id |-> drawn + 1, created |-> now, used |-> FALSE] \in ClientRows(drawn')
      BY <1>1, <1>2, <2>1 DEF ClientRows
    <2>3. /\ clients \subseteq ClientRows(drawn')
          /\ pending' \subseteq PendingRows(grants', drawn')
          /\ awaiting' \subseteq AwaitingRows(grants', drawn')
          /\ codes' \subseteq CodeRows(minted', grants', drawn')
          /\ honoured' \subseteq 1..drawn'
      BY <1>2, <1>3, <2>1, RowsGrow, RegisterShape
    <2>4. clients' \subseteq ClientRows(drawn')
      BY <1>3, <2>2, <2>3, RegisterShape
    <2>5. born' \in [1..MaxClients -> Nat]
      BY <1>1, <1>2f, <1>3, RegisterShape
    <2>6. grants' = grants /\ minted' = minted /\ exchanged' = exchanged
      BY <1>3, RegisterShape
    <2> QED
      BY <1>2, <1>2f, <2>1, <2>3, <2>4, <2>5, <2>6, TypeFromRows
  <1>4. ASSUME NEW c \in 1..drawn, ClientStep(c)  PROVE OAuthTypeOK'
    <2>1. /\ grants' = grants + 1 /\ grants' \in Nat /\ grants' \in 0..MaxGrants /\ grants <= grants'
          /\ UNCHANGED <<clients, drawn, exchanged, born, honoured>>
      <3>1. /\ grants' = grants + 1 /\ grants < MaxGrants
            /\ UNCHANGED <<clients, drawn, exchanged, born, honoured>>
        BY <1>4, Zenon DEF ClientStep, Authorize, SendToProvider, SubmitExternal, NewGrant
      <3> QED
        BY <1>1, <1>2, <3>1
    <2>2. minted' \in Nat /\ minted' \in 0..MaxCodes /\ minted <= minted'
      <3>1. (minted' = minted + 1 /\ minted < MaxCodes) \/ minted' = minted
        BY <1>4, Zenon DEF ClientStep, Authorize, SendToProvider, SubmitExternal, Mint
      <3> QED
        BY <1>1, <1>2, <3>1
    <2>3. /\ clients \subseteq ClientRows(drawn)
          /\ pending \subseteq PendingRows(grants', drawn)
          /\ awaiting \subseteq AwaitingRows(grants', drawn)
          /\ codes \subseteq CodeRows(minted', grants', drawn)
          /\ honoured \subseteq 1..drawn
      <3>1. drawn <= drawn
        BY <1>2
      <3> QED
        BY <1>2, <2>1, <2>2, <3>1, RowsGrow
    <2>4. pending' \subseteq PendingRows(grants', drawn)
      <3>1. [grant |-> grants + 1, client |-> c, expires |-> now + PendingTTL] \in PendingRows(grants', drawn)
        BY <1>1, <1>2, <2>1 DEF PendingRows
      <3> QED
        BY <1>4, <2>3, <3>1 DEF ClientStep, Authorize, SendToProvider, SubmitExternal
    <2>5. awaiting' \subseteq AwaitingRows(grants', drawn)
      <3>1. [grant |-> grants + 1, client |-> c, form |-> TRUE] \in AwaitingRows(grants', drawn)
        BY <1>1, <1>2, <2>1 DEF AwaitingRows
      <3> QED
        BY <1>4, <2>3, <3>1 DEF ClientStep, Authorize, SendToProvider, SubmitExternal
    <2>6. codes' \subseteq CodeRows(minted', grants', drawn)
      <3>1. ASSUME NEW t \in 0..tokens, Authorize(c, t)  PROVE codes' \subseteq CodeRows(minted', grants', drawn)
        <4>1. t \in Nat /\ minted' = minted + 1
          BY <3>1 DEF TypeOK, Authorize, Mint
        <4>2. [id |-> minted + 1, grant |-> grants + 1, client |-> c, token |-> t,
               expires |-> now + CodeTTL] \in CodeRows(minted', grants', drawn)
          BY <1>1, <1>2, <2>1, <4>1 DEF CodeRows
        <4> QED
          BY <2>3, <3>1, <4>2 DEF Authorize, Mint
      <3> QED
        BY <1>4, <2>3, <3>1 DEF ClientStep, SendToProvider, SubmitExternal
    <2> QED
      BY <1>2, <1>2f, <2>1, <2>2, <2>3, <2>4, <2>5, <2>6, TypeFromRows
  <1>5. ASSUME NEW p \in pending, Callback(p)  PROVE OAuthTypeOK'
    <2>2. [grant |-> p.grant, client |-> p.client, form |-> FALSE] \in AwaitingRows(grants, drawn)
      BY <1>2n DEF PendingRows, AwaitingRows
    <2>3. pending' \subseteq pending /\ awaiting' \subseteq AwaitingRows(grants, drawn)
      BY <1>5, <1>2n, <2>2 DEF Callback
    <2>4. UNCHANGED <<clients, drawn, codes, grants, minted, exchanged, born, honoured>>
      BY <1>5 DEF Callback
    <2> QED
      BY <1>2, <1>2f, <1>2n, <2>3, <2>4, TypeFromRows
  <1>6. ASSUME NEW a \in awaiting, AnswerStep(a)  PROVE OAuthTypeOK'
    <2>1. ASSUME NEW t \in Nat, Mint(a.grant, a.client, t), Settle(a),
                 UNCHANGED <<clients, drawn, pending, grants, exchanged, born, honoured>>
          PROVE  OAuthTypeOK'
      <3>1. minted' = minted + 1 /\ minted' \in Nat /\ minted' \in 0..MaxCodes /\ minted <= minted'
        <4>1. minted' = minted + 1 /\ minted < MaxCodes
          BY <2>1, Zenon DEF Mint
        <4> QED
          BY <1>1, <1>2, <4>1
      <3>2. /\ clients \subseteq ClientRows(drawn) /\ pending \subseteq PendingRows(grants, drawn)
            /\ awaiting \subseteq AwaitingRows(grants, drawn)
            /\ codes \subseteq CodeRows(minted', grants, drawn) /\ honoured \subseteq 1..drawn
        <4>1. drawn <= drawn /\ grants <= grants
          BY <1>2
        <4> QED
          BY <1>2, <3>1, <4>1, RowsGrow
      <3>3. [id |-> minted + 1, grant |-> a.grant, client |-> a.client, token |-> t,
             expires |-> now + CodeTTL] \in CodeRows(minted', grants, drawn)
        <4>1. a.grant \in 1..grants /\ a.client \in 1..drawn
          BY <1>2n DEF AwaitingRows
        <4>2. minted + 1 \in 1..minted'
          BY <1>2, <3>1
        <4> QED
          BY <1>1, <2>1, <4>1, <4>2 DEF CodeRows
      <3>4. codes' \subseteq CodeRows(minted', grants, drawn) /\ awaiting' \subseteq awaiting
        BY <2>1, <3>2, <3>3 DEF Mint, Settle
      <3> QED
        BY <1>2, <1>2f, <2>1, <3>1, <3>2, <3>4, TypeFromRows
    <2>2. ASSUME NEW e \in Emails, ExternalAnswers(a, e)  PROVE OAuthTypeOK'
      <3>1. CASE UNCHANGED <<codes, minted>>
        BY <2>2, <3>1 DEF ExternalAnswers, Settle, OAuthTypeOK
      <3>2. ASSUME NEW u \in Ids, Mint(a.grant, a.client, account'[u].token)  PROVE OAuthTypeOK'
        <4>1. account'[u].token \in Nat
          BY <1>0 DEF TypeOK, Rows
        <4> QED
          BY <2>1, <2>2, <3>2, <4>1 DEF ExternalAnswers
      <3> QED
        BY <2>2, <3>1, <3>2 DEF ExternalAnswers
    <2>3. ASSUME NEW s \in Subjects, ProviderAnswers(a, s)  PROVE OAuthTypeOK'
      <3>1. PICK u \in LinkedTo(s) : Mint(a.grant, a.client, account[u].token)
        BY <2>3 DEF ProviderAnswers
      <3>2. account[u].token \in Nat
        BY DEF TypeOK, Rows, LinkedTo
      <3> QED
        BY <2>1, <2>3, <3>1, <3>2 DEF ProviderAnswers
    <2>4. CASE AnswerRefused(a)
      BY <2>4 DEF AnswerRefused, Settle, OAuthTypeOK
    <2> QED
      BY <1>6, <2>2, <2>3, <2>4 DEF AnswerStep
  <1>7. ASSUME NEW x \in codes, Exchange(x)  PROVE OAuthTypeOK'
    <2>2. ASSUME NEW k \in clients
          PROVE  (IF k.id = x.client THEN [k EXCEPT !.used = TRUE] ELSE k) \in ClientRows(drawn)
      BY <1>2n DEF ClientRows
    <2>3. clients' \subseteq ClientRows(drawn)
      BY <1>7, <2>2 DEF Exchange, MarkUsed
    <2>4. x.grant \in 1..MaxGrants /\ x.client \in 1..drawn
      <3>1. x.grant \in 1..grants /\ x.client \in 1..drawn
        BY <1>2n DEF CodeRows
      <3> QED
        BY <1>1, <1>2, <3>1
    <2>5. exchanged' \in [1..MaxGrants -> Nat]
      <3>1. exchanged' = [exchanged EXCEPT ![x.grant] = @ + 1]
        BY <1>7, Zenon DEF Exchange
      <3>2. exchanged[x.grant] + 1 \in Nat
        <4>1. exchanged[x.grant] \in Nat
          BY <1>2f, <2>4, Zenon
        <4> QED
          BY <4>1
      <3> QED
        BY <1>2f, <2>4, <3>1, <3>2
    <2>6. honoured' \subseteq 1..drawn /\ codes' \subseteq codes
          /\ UNCHANGED <<drawn, pending, awaiting, grants, minted, born>>
      BY <1>7, <1>2n, <2>4 DEF Exchange
    <2> QED
      BY <1>2, <1>2f, <1>2n, <2>3, <2>5, <2>6, TypeFromRows
  <1>8. ASSUME NEW x \in codes, ExchangeExpired(x)  PROVE OAuthTypeOK'
    BY <1>8 DEF ExchangeExpired, OAuthTypeOK
  <1>9. CASE OAuthRestart
    BY <1>9 DEF OAuthRestart, OAuthTypeOK
  <1>10. CASE AccountStep
    BY <1>10 DEF AccountStep, oauthVars, OAuthTypeOK
  <1>11. CASE UNCHANGED allVars
    BY <1>11 DEF allVars, oauthVars, OAuthTypeOK
  <1> QED
    BY <1>3, <1>4, <1>5, <1>6, <1>7, <1>8, <1>9, <1>10, <1>11 DEF OAuthNext

(* The types of the server's tables and maps, with those of the accounts. *)
THEOREM OAuthTypeCorrect == OAuthSpec => [](TypeOK /\ OAuthTypeOK)
  <1>1. OAuthInit => OAuthTypeOK
    <2>1. MaxClients \in Nat /\ MaxGrants \in Nat /\ MaxCodes \in Nat
      BY OAuthAssumption DEF OAuthAssumption
    <2> QED
      BY <2>1 DEF OAuthInit, OAuthTypeOK
  <1>2. TypeOK /\ OAuthTypeOK /\ [OAuthNext]_allVars => OAuthTypeOK'
    BY OAuthTypeStep, AccountsAssumption, OAuthAssumption
  <1>3. OAuthSpec => []TypeOK
    BY OAuthImplementsAccounts, AccountsTypeCorrect
  <1> QED
    BY <1>1, <1>2, <1>3, OAuthAssumption, PTL DEF OAuthSpec
----------------------------------------------------------------------------
(* The cap.  `purged` is subtracted a second time only when there are stale
   rows, and then the table is under the cap already. *)
CapInv == IsFiniteSet(clients) /\ UnderCap

LEMMA CapRegister ==
    ASSUME OAuthAssumption, TypeOK, OAuthTypeOK, CapInv, Register
    PROVE  CapInv'
  <1> DEFINE table == clients \ Stale
             new == [id |-> drawn + 1, created |-> now, used |-> FALSE]
  <1>1. PICK gone \in MadeRoom(table) :
          clients' = (table \ gone) \union IF Refused(table, gone) THEN {} ELSE {new}
    BY DEF Register
  <1>2. /\ IsFiniteSet(clients) /\ Cardinality(clients) \in Nat /\ Cardinality(clients) <= Cap
        /\ Cap \in Nat /\ Cap > 0
    BY FS_CardinalityType DEF CapInv, UnderCap, OAuthAssumption
  <1>3. /\ IsFiniteSet(table) /\ Cardinality(table) \in Nat
        /\ Cardinality(table) <= Cardinality(clients)
        /\ Cardinality(table) = Cardinality(clients) => table = clients
    BY <1>2, FS_Subset, FS_CardinalityType
  <1>4. gone \subseteq table
    BY DEF MadeRoom, Purgeable
  <1>5. /\ IsFiniteSet(gone) /\ Cardinality(gone) \in Nat
        /\ IsFiniteSet(table \ gone) /\ Cardinality(table \ gone) \in Nat
        /\ Cardinality(table \ gone) <= Cardinality(table)
    BY <1>3, <1>4, FS_Subset, FS_CardinalityType
  <1>6. Cardinality(table \ gone) = Cardinality(table) - Cardinality(gone)
    <2>1. table \intersect gone = gone
      BY <1>4
    <2> QED
      BY <1>3, <2>1, FS_Difference
  <1>7. CASE Refused(table, gone)
    <2>1. clients' = table \ gone
      BY <1>1, <1>7
    <2> QED
      BY <1>2, <1>3, <1>5, <2>1 DEF CapInv, UnderCap
  <1>8. CASE ~Refused(table, gone)
    <2>1. clients' = (table \ gone) \union {new}
      BY <1>1, <1>8
    <2>2. IsFiniteSet(clients') /\ Cardinality(clients') <= Cardinality(table \ gone) + 1
      <3>1. PICK rest, fresh : rest = table \ gone /\ fresh = new
        OBVIOUS
      <3>2. IsFiniteSet(rest) /\ Cardinality(rest) \in Nat
        BY <1>5, <3>1
      <3>3. /\ IsFiniteSet(rest \union {fresh})
            /\ Cardinality(rest \union {fresh}) =
                 IF fresh \in rest THEN Cardinality(rest) ELSE Cardinality(rest) + 1
        BY <3>2, FS_AddElement
      <3>4. IsFiniteSet(rest \union {fresh}) /\ Cardinality(rest \union {fresh}) <= Cardinality(rest) + 1
        BY <3>2, <3>3
      <3>5. clients' = rest \union {fresh}
        BY <2>1, <3>1
      <3> QED
        BY <3>1, <3>4, <3>5
    <2>3. Cardinality(clients') \in Nat
      BY <2>2, FS_CardinalityType
    <2>4. CASE Cardinality(table) < Cap
      BY <1>2, <1>3, <1>5, <2>2, <2>3, <2>4 DEF CapInv, UnderCap
    <2>5. CASE Cardinality(table) >= Cap
      <3>1. Cardinality(table) = Cap /\ table = clients
        BY <1>2, <1>3, <2>5
      <3>2. Stale \subseteq clients
        BY DEF Stale
      <3>3. Stale = {}
        BY <3>1, <3>2
      <3>4. Cardinality(Stale) = 0
        BY <3>3, FS_EmptySet
      <3>5. Cardinality(gone) >= 1
        BY <1>2, <1>5, <1>8, <3>1, <3>4 DEF Refused
      <3>6. Cardinality(clients') <= Cap
        BY <1>2, <1>3, <1>5, <1>6, <2>2, <2>3, <3>1, <3>5
      <3> QED
        BY <2>2, <3>6 DEF CapInv, UnderCap
    <2> QED
      BY <1>2, <1>3, <2>4, <2>5
  <1> QED
    BY <1>7, <1>8

LEMMA CapStep ==
    ASSUME OAuthAssumption, TypeOK, OAuthTypeOK, CapInv, [OAuthNext]_allVars
    PROVE  CapInv'
  <1>1. CASE Register
    BY <1>1, CapRegister
  <1>2. ASSUME NEW x \in codes, Exchange(x)  PROVE CapInv'
    <2> DEFINE marked(k) == IF k.id = x.client THEN [k EXCEPT !.used = TRUE] ELSE k
    <2>1. clients' = {marked(k) : k \in clients}
      BY <1>2 DEF Exchange, MarkUsed
    <2>2. IsFiniteSet(clients') /\ Cardinality(clients') <= Cardinality(clients)
      <3> HIDE DEF marked
      <3> DEFINE f == [k \in clients |-> marked(k)]
      <3>1. f \in Surjection(clients, clients')
        BY <2>1 DEF Surjection
      <3> QED
        BY <3>1, FS_Surjection DEF CapInv
    <2>3. Cardinality(clients) \in Nat /\ Cardinality(clients') \in Nat /\ Cap \in Nat
      BY <2>2, FS_CardinalityType DEF CapInv, OAuthAssumption
    <2> QED
      BY <2>2, <2>3 DEF CapInv, UnderCap
  <1>3. ASSUME clients' = clients  PROVE CapInv'
    BY <1>3 DEF CapInv, UnderCap
  <1>4. ASSUME NEW c \in 1..drawn, ClientStep(c)  PROVE clients' = clients
    BY <1>4 DEF ClientStep, SendToProvider, SubmitExternal, Authorize
  <1>5. ASSUME NEW p \in pending, Callback(p)  PROVE clients' = clients
    BY <1>5 DEF Callback
  <1>6. ASSUME NEW a \in awaiting, AnswerStep(a)  PROVE clients' = clients
    BY <1>6 DEF AnswerStep, ProviderAnswers, ExternalAnswers, AnswerRefused
  <1>7. ASSUME NEW x \in codes, ExchangeExpired(x)  PROVE clients' = clients
    BY <1>7 DEF ExchangeExpired
  <1>8. ASSUME OAuthRestart \/ AccountStep \/ UNCHANGED allVars  PROVE clients' = clients
    BY <1>8 DEF OAuthRestart, AccountStep, oauthVars, allVars
  <1> QED
    BY <1>1, <1>2, <1>3, <1>4, <1>5, <1>6, <1>7, <1>8 DEF OAuthNext

(* The table of clients stays within maxClientsPerTenant, for every cap, age
   limit and order of registrations and exchanges. *)
THEOREM ClientsStayUnderCap == OAuthSpec => []UnderCap
  <1>1. OAuthInit => CapInv
    <2>1. Cap \in Nat
      BY OAuthAssumption DEF OAuthAssumption
    <2> QED
      BY <2>1, FS_EmptySet DEF OAuthInit, CapInv, UnderCap
  <1>2. TypeOK /\ OAuthTypeOK /\ CapInv /\ [OAuthNext]_allVars => CapInv'
    BY CapStep, OAuthAssumption
  <1>3. CapInv => UnderCap
    BY DEF CapInv
  <1> QED
    BY <1>1, <1>2, <1>3, OAuthTypeCorrect, PTL DEF OAuthSpec
----------------------------------------------------------------------------
(* A client that an authorization, a provider's answer or a code of the first
   PurgeMinAge names is in the table: it was there when the authorization
   began, and nothing that young is removed. *)
ClientInv ==
    /\ \A k \in clients : k.created = born[k.id]
    /\ \A x \in pending \union awaiting \union codes :
         now <= born[x.client] + PurgeMinAge => Registered(x.client)
    /\ FirstGrantKeepsClient

LEMMA ClientStepInv ==
    ASSUME OAuthAssumption, AccountsAssumption, TypeOK, OAuthTypeOK, ClientInv,
           [OAuthNext]_allVars
    PROVE  ClientInv'
  <1>1. /\ PurgeMinAge \in Nat /\ now \in Nat /\ now' \in Nat /\ now <= now'
        /\ \A c \in 1..drawn : born[c] \in Nat
    <2>1. StepShape
      BY StepImplementsAccounts, EveryStepHasTheShape
    <2>2. now' \in {now, now + 1} /\ now \in Nat
      BY <2>1, Zenon DEF StepShape, CounterShape, TypeOK
    <2>3. PurgeMinAge \in Nat /\ MaxClients \in Nat
      BY DEF OAuthAssumption
    <2>4. born \in [1..MaxClients -> Nat] /\ drawn \in 0..MaxClients
      BY Zenon DEF OAuthTypeOK
    <2>5. \A c \in 1..drawn : born[c] \in Nat
      BY <2>3, <2>4
    <2> QED
      BY <2>2, <2>3, <2>5
  <1>2. /\ \A k \in clients : k.id \in 1..drawn /\ k.created \in Nat
        /\ \A x \in pending \union awaiting \union codes : x.client \in 1..drawn
        /\ honoured \subseteq 1..drawn
    BY DEF OAuthTypeOK
  <1>3. CASE Register
    <2>1. /\ \A k \in clients \ clients' : ~k.used /\ k.created + PurgeMinAge < now
          /\ \A k \in clients' \ clients : k = [id |-> drawn + 1, created |-> now, used |-> FALSE]
          /\ drawn + 1 \in 1..MaxClients
          /\ born' = [born EXCEPT ![drawn + 1] = now]
          /\ UNCHANGED <<now, pending, awaiting, codes, honoured>>
      BY <1>3, RegisterShape DEF accountVars
    <2>2. born \in [1..MaxClients -> Nat]
      BY Zenon DEF OAuthTypeOK
    <2>3. born'[drawn + 1] = now /\ \A c \in 1..drawn : born'[c] = born[c]
      <3>1. drawn \in Nat /\ MaxClients \in Nat /\ drawn < MaxClients
        <4>1. drawn \in Nat /\ MaxClients \in Nat
          BY DEF OAuthTypeOK, OAuthAssumption
        <4>2. drawn + 1 \in 1..MaxClients
          BY <2>1
        <4> QED
          BY <4>1, <4>2
      <3> QED
        BY <2>1, <2>2, <3>1
    <2>4. \A k \in clients' : k.created = born'[k.id]
      BY <1>2, <2>1, <2>3 DEF ClientInv
    <2>5. ASSUME NEW x \in pending \union awaiting \union codes,
                 now <= born'[x.client] + PurgeMinAge
          PROVE  \E k \in clients' : k.id = x.client
      <3>1. x.client \in 1..drawn /\ born'[x.client] = born[x.client]
        BY <1>2, <2>3
      <3>2. PICK k \in clients : k.id = x.client
        BY <2>5, <3>1 DEF ClientInv, Registered
      <3>3. k.created = born[x.client] /\ k.created \in Nat
        BY <1>2, <3>2 DEF ClientInv
      <3>4. ~(k.created + PurgeMinAge < now)
        BY <1>1, <2>5, <3>1, <3>3
      <3> QED
        BY <2>1, <3>2, <3>4
    <2>6. \A c \in honoured : \E k \in clients' : k.id = c /\ k.used
      BY <2>1 DEF ClientInv, FirstGrantKeepsClient
    <2> QED
      BY <2>1, <2>4, <2>5, <2>6 DEF ClientInv, FirstGrantKeepsClient, Registered
  <1>4. ASSUME UNCHANGED <<clients, born, honoured>>,
               \A x \in (pending \union awaiting \union codes)' :
                  \/ \E y \in pending \union awaiting \union codes : y.client = x.client
                  \/ Registered(x.client)
        PROVE  ClientInv'
    <2>1. ASSUME NEW x \in (pending \union awaiting \union codes)',
                 now' <= born[x.client] + PurgeMinAge
          PROVE  Registered(x.client)
      <3>1. CASE Registered(x.client)
        BY <3>1
      <3>2. ASSUME NEW y \in pending \union awaiting \union codes, y.client = x.client
            PROVE  Registered(x.client)
        <4>1. born[y.client] \in Nat
          BY <1>1, <1>2
        <4>2. now <= born[y.client] + PurgeMinAge
          BY <1>1, <2>1, <3>2, <4>1
        <4> QED
          BY <3>2, <4>2 DEF ClientInv
      <3> QED
        BY <1>4, <3>1, <3>2
    <2> QED
      BY <1>4, <2>1 DEF ClientInv, FirstGrantKeepsClient, Registered
  <1>5. ASSUME NEW c \in 1..drawn, ClientStep(c)  PROVE ClientInv'
    <2>1. UNCHANGED <<clients, born, honoured>>
      BY <1>5 DEF ClientStep, Authorize, SendToProvider, SubmitExternal
    <2>2. ASSUME NEW x \in (pending \union awaiting \union codes)',
                 x \notin pending \union awaiting \union codes
          PROVE  x.client = c /\ Registered(c)
      <3>1. ASSUME NEW t \in 0..tokens, Authorize(c, t)  PROVE x.client = c /\ Registered(c)
        BY <2>2, <3>1 DEF Authorize, Mint
      <3>2. CASE SendToProvider(c)
        BY <2>2, <3>2 DEF SendToProvider
      <3>3. CASE SubmitExternal(c)
        BY <2>2, <3>3 DEF SubmitExternal
      <3> QED
        BY <1>5, <3>1, <3>2, <3>3 DEF ClientStep
    <2> QED
      BY <1>4, <2>1, <2>2
  <1>6. ASSUME NEW p \in pending, Callback(p)  PROVE ClientInv'
    <2>1. UNCHANGED <<clients, born, honoured, codes>> /\ pending' \subseteq pending
          /\ awaiting' \subseteq awaiting \union {[grant |-> p.grant, client |-> p.client, form |-> FALSE]}
      BY <1>6 DEF Callback
    <2> QED
      BY <1>4, <2>1
  <1>7. ASSUME NEW a \in awaiting, AnswerStep(a)  PROVE ClientInv'
    <2>1. UNCHANGED <<clients, born, honoured, pending>> /\ awaiting' \subseteq awaiting
      BY <1>7 DEF AnswerStep, ProviderAnswers, ExternalAnswers, AnswerRefused, Settle
    <2>2. \A x \in codes' : x \in codes \/ x.client = a.client
      BY <1>7 DEF AnswerStep, ProviderAnswers, ExternalAnswers, AnswerRefused, Mint
    <2> QED
      BY <1>4, <2>1, <2>2
  <1>8. ASSUME NEW x \in codes, Exchange(x)  PROVE ClientInv'
    <2> DEFINE marked(k) == IF k.id = x.client THEN [k EXCEPT !.used = TRUE] ELSE k
    <2>1. clients' = {marked(k) : k \in clients} /\ now' = now /\ born' = born
          /\ pending' = pending /\ awaiting' = awaiting /\ codes' \subseteq codes
          /\ honoured' = honoured \union {c \in {x.client} : now <= born[c] + PurgeMinAge}
      BY <1>8 DEF Exchange, MarkUsed, accountVars
    <2>2. \A k \in clients : /\ marked(k).id = k.id /\ marked(k).created = k.created
                             /\ k.used => marked(k).used
                             /\ k.id = x.client => marked(k).used
      BY DEF OAuthTypeOK
    <2> HIDE DEF marked
    <2>3. \A k \in clients' : k.created = born'[k.id]
      BY <2>1, <2>2 DEF ClientInv
    <2>4. \A c \in 1..drawn : Registered(c) => Registered(c)'
      BY <2>1, <2>2 DEF Registered
    <2>5. \A y \in (pending \union awaiting \union codes)' :
            now' <= born'[y.client] + PurgeMinAge => Registered(y.client)'
      BY <1>2, <2>1, <2>4 DEF ClientInv
    <2>6. \A c \in honoured : \E k \in clients' : k.id = c /\ k.used
      BY <2>1, <2>2 DEF ClientInv, FirstGrantKeepsClient
    <2>7. ASSUME now <= born[x.client] + PurgeMinAge
          PROVE  \E k \in clients' : k.id = x.client /\ k.used
      BY <2>1, <2>2, <2>7 DEF ClientInv, Registered
    <2> QED
      BY <2>1, <2>3, <2>5, <2>6, <2>7 DEF ClientInv, FirstGrantKeepsClient
  <1>9. ASSUME NEW x \in codes, ExchangeExpired(x)  PROVE ClientInv'
    <2>1. UNCHANGED <<clients, born, honoured, pending, awaiting>> /\ codes' \subseteq codes
      BY <1>9 DEF ExchangeExpired
    <2> QED
      BY <1>4, <2>1
  <1>10. CASE OAuthRestart
    BY <1>4, <1>10 DEF OAuthRestart
  <1>11. CASE AccountStep \/ UNCHANGED allVars
    <2>1. UNCHANGED <<clients, born, honoured, pending, awaiting, codes>>
      BY <1>11 DEF AccountStep, oauthVars, allVars
    <2> QED
      BY <1>4, <2>1
  <1> QED
    BY <1>3, <1>5, <1>6, <1>7, <1>8, <1>9, <1>10, <1>11 DEF OAuthNext

(* A client that redeemed a code within PurgeMinAge of its registration stays
   registered and used. *)
THEOREM HonouredClientsStay == OAuthSpec => []FirstGrantKeepsClient
  <1>1. OAuthInit => ClientInv
    BY DEF OAuthInit, ClientInv, FirstGrantKeepsClient
  <1>2. TypeOK /\ OAuthTypeOK /\ ClientInv /\ [OAuthNext]_allVars => ClientInv'
    BY ClientStepInv, OAuthAssumption, AccountsAssumption
  <1>3. ClientInv => FirstGrantKeepsClient
    BY DEF ClientInv
  <1> QED
    BY <1>1, <1>2, <1>3, OAuthTypeCorrect, PTL DEF OAuthSpec
----------------------------------------------------------------------------
(* An authorization that was begun is in at most one place at a time: sent to a
   provider, awaiting its answer, or turned into a code.  While it is in one
   of them, and before it was begun, no token was handed out for it. *)
OneEach(S) == \A x, y \in S : x.grant = y.grant => x = y
Apart(S, T) == \A x \in S, y \in T : x.grant # y.grant
Unspent(S) == \A x \in S : exchanged[x.grant] = 0

GrantInv ==
    /\ OneEach(pending) /\ OneEach(awaiting) /\ OneEach(codes)
    /\ Apart(pending, awaiting) /\ Apart(pending, codes) /\ Apart(awaiting, codes)
    /\ Unspent(pending) /\ Unspent(awaiting) /\ Unspent(codes)
    /\ \A g \in 1..MaxGrants : g > grants => exchanged[g] = 0
    /\ OneTokenPerAuthorization

LEMMA GrantStep ==
    ASSUME OAuthAssumption, OAuthTypeOK, GrantInv, [OAuthNext]_allVars
    PROVE  GrantInv'
  <1>1. /\ grants \in Nat /\ MaxGrants \in Nat /\ grants <= MaxGrants
        /\ exchanged \in [1..MaxGrants -> Nat]
    <2>1. grants \in 0..MaxGrants /\ exchanged \in [1..MaxGrants -> Nat]
      BY Zenon DEF OAuthTypeOK
    <2>2. MaxGrants \in Nat
      BY DEF OAuthAssumption
    <2> QED
      BY <2>1, <2>2
  <1>2. \A x \in pending \union awaiting \union codes : x.grant \in 1..grants
    BY DEF OAuthTypeOK
  <1>3. \A x \in pending \union awaiting \union codes :
           x.grant \in Nat /\ x.grant <= grants /\ x.grant \in 1..MaxGrants
    BY <1>1, <1>2
  \* steps that forget some of what is open, and begin nothing
  <1>4. ASSUME pending' \subseteq pending, awaiting' \subseteq awaiting, codes' \subseteq codes,
               grants' = grants, exchanged' = exchanged
        PROVE  GrantInv'
    BY <1>4, Zenon DEF GrantInv, OneEach, Apart, Unspent, OneTokenPerAuthorization
  <1>5. ASSUME NEW c \in 1..drawn, ClientStep(c)  PROVE GrantInv'
    <2>1. grants' = grants + 1 /\ exchanged' = exchanged /\ grants + 1 \in 1..MaxGrants
      <3>1. grants' = grants + 1 /\ exchanged' = exchanged /\ grants < MaxGrants
        BY <1>5, Zenon DEF ClientStep, Authorize, SendToProvider, SubmitExternal, NewGrant
      <3> QED
        BY <1>1, <3>1
    <2>2. exchanged[grants + 1] = 0 /\ \A g \in 1..MaxGrants : g > grants + 1 => exchanged[g] = 0
      BY <1>1, <2>1 DEF GrantInv
    <2>3. \A x \in pending \union awaiting \union codes : x.grant # grants + 1
      BY <1>1, <1>3
    <2>4. PICK r : r.grant = grants + 1
             /\ \/ pending' \subseteq pending \union {r} /\ awaiting' = awaiting /\ codes' = codes
                \/ pending' = pending /\ awaiting' = awaiting \union {r} /\ codes' = codes
                \/ pending' = pending /\ awaiting' = awaiting /\ codes' = codes \union {r}
      <3> DEFINE sent == [grant |-> grants + 1, client |-> c, expires |-> now + PendingTTL]
                 asked == [grant |-> grants + 1, client |-> c, form |-> TRUE]
                 code(t) == [id |-> minted + 1, grant |-> grants + 1, client |-> c, token |-> t,
                             expires |-> now + CodeTTL]
      <3>1. /\ sent.grant = grants + 1 /\ asked.grant = grants + 1
            /\ \A t : code(t).grant = grants + 1
        OBVIOUS
      <3>2. \/ \E t : pending' = pending /\ awaiting' = awaiting /\ codes' = codes \union {code(t)}
            \/ pending' \subseteq pending \union {sent} /\ awaiting' = awaiting /\ codes' = codes
            \/ pending' = pending /\ awaiting' = awaiting \union {asked} /\ codes' = codes
        <4>1. ASSUME NEW t \in 0..tokens, Authorize(c, t)
              PROVE  pending' = pending /\ awaiting' = awaiting /\ codes' = codes \union {code(t)}
          BY <4>1 DEF Authorize, Mint
        <4>2. CASE SendToProvider(c)
          BY <4>2 DEF SendToProvider
        <4>3. CASE SubmitExternal(c)
          BY <4>3 DEF SubmitExternal
        <4> QED
          BY <1>5, <4>1, <4>2, <4>3, Zenon DEF ClientStep
      <3> HIDE DEF sent, asked, code
      <3> QED
        BY <3>1, <3>2, Zenon
    <2>5. /\ OneEach(pending') /\ OneEach(awaiting') /\ OneEach(codes')
          /\ Apart(pending', awaiting') /\ Apart(pending', codes') /\ Apart(awaiting', codes')
      BY <2>3, <2>4 DEF GrantInv, OneEach, Apart
    <2>6. Unspent(pending') /\ Unspent(awaiting') /\ Unspent(codes')
      BY <2>2, <2>4 DEF GrantInv, Unspent
    <2> QED
      BY <2>1, <2>2, <2>5, <2>6 DEF GrantInv, OneEach, Apart, Unspent, OneTokenPerAuthorization
  <1>6. ASSUME NEW p \in pending, Callback(p)  PROVE GrantInv'
    <2>1. PICK a : /\ a.grant = p.grant
                   /\ pending' = pending \ {p} /\ awaiting' \subseteq awaiting \union {a}
                   /\ UNCHANGED <<codes, grants, exchanged>>
      BY <1>6 DEF Callback
    <2> QED
      BY <2>1 DEF GrantInv, OneEach, Apart, Unspent, OneTokenPerAuthorization
  <1>7. ASSUME NEW a \in awaiting, AnswerStep(a)  PROVE GrantInv'
    <2>1. PICK k : /\ k.grant = a.grant
                   /\ awaiting' = awaiting \ {a} /\ codes' \subseteq codes \union {k}
                   /\ UNCHANGED <<pending, grants, exchanged>>
      <3>1. ASSUME NEW t, Mint(a.grant, a.client, t)
            PROVE  \E k : k.grant = a.grant /\ codes' \subseteq codes \union {k}
        BY <3>1 DEF Mint
      <3>2. /\ awaiting' = awaiting \ {a}
            /\ UNCHANGED <<pending, grants, exchanged>>
            /\ (\E t : Mint(a.grant, a.client, t)) \/ codes' = codes
        BY <1>7 DEF AnswerStep, ProviderAnswers, ExternalAnswers, AnswerRefused, Settle
      <3>3. a.grant = a.grant
        OBVIOUS
      <3> QED
        BY <3>1, <3>2, <3>3
    <2> QED
      BY <2>1 DEF GrantInv, OneEach, Apart, Unspent, OneTokenPerAuthorization
  <1>8. ASSUME NEW x \in codes, Exchange(x)  PROVE GrantInv'
    <2>1. /\ codes' = codes \ {x}
          /\ exchanged' = [exchanged EXCEPT ![x.grant] = @ + 1]
          /\ UNCHANGED <<pending, awaiting, grants>>
      BY <1>8, Zenon DEF Exchange
    <2>2. /\ exchanged'[x.grant] = 1
          /\ \A g \in 1..MaxGrants : g # x.grant => exchanged'[g] = exchanged[g]
      BY <1>1, <1>3, <2>1 DEF GrantInv, Unspent
    <2>3. \A y \in pending' \union awaiting' \union codes' :
             y.grant # x.grant /\ y.grant \in 1..MaxGrants /\ exchanged[y.grant] = 0
      BY <1>3, <2>1 DEF GrantInv, OneEach, Apart, Unspent
    <2>4. Unspent(pending)' /\ Unspent(awaiting)' /\ Unspent(codes)'
      BY <2>2, <2>3 DEF Unspent
    <2>5. \A g \in 1..MaxGrants : g > grants' => exchanged'[g] = 0
      BY <1>1, <1>3, <2>1, <2>2 DEF GrantInv
    <2>6. \A g \in 1..MaxGrants : exchanged'[g] <= 1
      <3>1. \A g \in 1..MaxGrants : exchanged[g] <= 1
        BY DEF GrantInv, OneTokenPerAuthorization
      <3> QED
        BY <2>2, <3>1
    <2> QED
      BY <2>1, <2>4, <2>5, <2>6 DEF GrantInv, OneEach, Apart, OneTokenPerAuthorization
  <1>9. ASSUME NEW x \in codes, ExchangeExpired(x)  PROVE GrantInv'
    BY <1>4, <1>9 DEF ExchangeExpired
  <1>10. CASE OAuthRestart
    BY <1>4, <1>10 DEF OAuthRestart
  <1>11. CASE Register \/ AccountStep \/ UNCHANGED allVars
    <2>1. UNCHANGED <<pending, awaiting, codes, grants, exchanged>>
      BY <1>11 DEF Register, AccountStep, oauthVars, allVars
    <2> QED
      BY <1>4, <2>1
  <1> QED
    BY <1>5, <1>6, <1>7, <1>8, <1>9, <1>10, <1>11 DEF OAuthNext

(* One authorization ends in at most one token. *)
THEOREM OneTokenEach == OAuthSpec => []OneTokenPerAuthorization
  <1>1. OAuthInit => GrantInv
    BY DEF OAuthInit, GrantInv, OneEach, Apart, Unspent, OneTokenPerAuthorization
  <1>2. OAuthTypeOK /\ GrantInv /\ [OAuthNext]_allVars => GrantInv'
    BY GrantStep, OAuthAssumption
  <1>3. GrantInv => OneTokenPerAuthorization
    BY DEF GrantInv
  <1> QED
    BY <1>1, <1>2, <1>3, OAuthTypeCorrect, PTL DEF OAuthSpec
----------------------------------------------------------------------------
(***************************************************************************)
(* The properties of the accounts hold of the server as well, which is how *)
(* they are checked (Access.cfg): no answer of a provider and no exchange  *)
(* shares an identity, revives a session or a refused credential.          *)
(***************************************************************************)
THEOREM ServerKeepsAccounts ==
    OAuthSpec => []OneAccountPerIdentity /\ []SignedOutForGood /\ DeadStaysDead
  BY OAuthImplementsAccounts, OneAccount, SessionsEndWithTheirAccount, RefusedForEver
----------------------------------------------------------------------------
(* Tokens are drawn, and each opens one account. *)
HolderInv ==
    /\ \A u \in Ids : Active(u) => account[u].token \in 1..tokens
    /\ \A u, v \in Ids : Active(u) /\ Active(v) /\ account[u].token = account[v].token => u = v

LEMMA HolderStep ==
    ASSUME AccountsAssumption, TypeOK, HolderInv, [Next]_accountVars
    PROVE  /\ HolderInv'
           /\ \A t \in 0..tokens, v \in Ids : LetsIn(t, v)' => LetsIn(t, v)
  <1>1. AccountShape /\ tokens' \in {tokens, tokens + 1} /\ tokens \in Nat
    BY EveryStepHasTheShape DEF StepShape, CounterShape, TypeOK
  \* An active row carries the token it had, or one that nobody can have.
  <1>2. ASSUME NEW v \in Ids, Active(v)'
        PROVE  \/ account'[v].token = tokens + 1 /\ tokens' = tokens + 1
               \/ Active(v) /\ account'[v].token = account[v].token
    <2>1. CASE account' = account
      BY <1>2, <2>1 DEF Active
    <2>2. ASSUME NEW u \in Ids, NEW r \in Rows, account' = [account EXCEPT ![u] = r], Lawful(u, r)
          PROVE  \/ account'[v].token = tokens + 1 /\ tokens' = tokens + 1
                 \/ Active(v) /\ account'[v].token = account[v].token
      <3>1. account'[v] = IF v = u THEN r ELSE account[v]
        BY <2>2 DEF TypeOK
      <3> QED
        BY <1>2, <2>2, <3>1 DEF Active, Lawful
    <2> QED
      BY <1>1, <2>1, <2>2 DEF AccountShape
  \* At most one row gets the new token.
  <1>3. ASSUME NEW u \in Ids, NEW v \in Ids, Active(u)', Active(v)', u # v
        PROVE  \/ Active(u) /\ account'[u].token = account[u].token
               \/ Active(v) /\ account'[v].token = account[v].token
    <2>1. CASE account' = account
      BY <1>3, <2>1 DEF Active
    <2>2. ASSUME NEW w \in Ids, NEW r \in Rows, account' = [account EXCEPT ![w] = r]
          PROVE  account'[u] = account[u] \/ account'[v] = account[v]
      BY <1>3, <2>2 DEF TypeOK
    <2> QED
      BY <1>1, <1>3, <2>1, <2>2 DEF AccountShape, Active
  <1>4. \A v \in Ids : Active(v)' => account'[v].token \in 1..tokens'
    <2>1. \A v \in Ids : Active(v) => account[v].token \in 1..tokens
      BY DEF HolderInv
    <2> QED
      BY <1>1, <1>2, <2>1
  <1>5. ASSUME NEW u \in Ids, NEW v \in Ids, Active(u)', Active(v)',
               account'[u].token = account'[v].token
        PROVE  u = v
    <2>1. \A w \in Ids : Active(w) => account[w].token \in 1..tokens /\ account[w].token # tokens + 1
      BY <1>1 DEF HolderInv
    <2>2. SUFFICES ASSUME u # v PROVE FALSE
      OBVIOUS
    <2>3. Active(u) /\ account'[u].token = account[u].token
          /\ Active(v) /\ account'[v].token = account[v].token
      BY <1>2, <1>3, <1>5, <2>1, <2>2
    <2> QED
      BY <1>5, <2>2, <2>3 DEF HolderInv
  <1>6. ASSUME NEW t \in 0..tokens, NEW v \in Ids, LetsIn(t, v)' PROVE LetsIn(t, v)
    <2>1. Active(v)' /\ account'[v].token = t /\ t # tokens + 1
      BY <1>1, <1>6 DEF LetsIn
    <2> QED
      BY <1>2, <2>1 DEF LetsIn
  <1> QED
    BY <1>4, <1>5, <1>6 DEF HolderInv

(* A code hands out a token that was drawn before it, or none. *)
CodesDrawn == \A x \in codes : x.token \in 0..tokens

LEMMA CodesStep ==
    ASSUME AccountsAssumption, OAuthAssumption, TypeOK, OAuthTypeOK, HolderInv, CodesDrawn,
           [OAuthNext]_allVars
    PROVE  CodesDrawn'
  <1>1. tokens' \in {tokens, tokens + 1} /\ tokens \in Nat /\ HolderInv'
    BY StepImplementsAccounts, EveryStepHasTheShape, HolderStep DEF StepShape, CounterShape, TypeOK
  <1>2. \A x \in codes : x.token \in 0..tokens'
    BY <1>1 DEF CodesDrawn
  <1>3. ASSUME codes' \subseteq codes PROVE CodesDrawn'
    BY <1>2, <1>3 DEF CodesDrawn
  <1>4. ASSUME NEW g, NEW c, NEW t, Mint(g, c, t), t \in 0..tokens' PROVE CodesDrawn'
    <2>1. PICK x : x.token = t /\ codes' = codes \union {x}
      BY <1>4 DEF Mint
    <2> QED
      BY <1>2, <1>4, <2>1 DEF CodesDrawn
  <1>5. ASSUME NEW c \in 1..drawn, NEW t \in 0..tokens, Authorize(c, t) PROVE CodesDrawn'
    <2>1. t \in 0..tokens' /\ Mint(grants + 1, c, t)
      BY <1>1, <1>5 DEF Authorize
    <2> QED
      BY <1>4, <2>1
  <1>6. ASSUME NEW a \in awaiting, NEW s \in Subjects, ProviderAnswers(a, s) PROVE CodesDrawn'
    <2>1. PICK u \in LinkedTo(s) : Active(u) /\ Mint(a.grant, a.client, account[u].token)
      BY <1>6 DEF ProviderAnswers
    <2>2. account[u].token \in 1..tokens
      BY <2>1 DEF LinkedTo, HolderInv
    <2>3. account[u].token \in 0..tokens'
      BY <1>1, <2>2
    <2> QED
      BY <1>4, <2>1, <2>3
  <1>7. ASSUME NEW a \in awaiting, NEW e \in Emails, ExternalAnswers(a, e) PROVE CodesDrawn'
    <2> SUFFICES ASSUME ~UNCHANGED codes PROVE CodesDrawn'
      BY <1>3
    <2>1. PICK u \in Ids : ExternalAccount(u, e) /\ Mint(a.grant, a.client, account'[u].token)
      BY <1>7 DEF ExternalAnswers
    <2>2. Active(u)'
      <3>1. CASE Insert(u, ActiveRow(e, Nobody))
        <4>1. account'[u] = ActiveRow(e, Nobody)
          <5>1. PICK row : row = ActiveRow(e, Nobody)
            OBVIOUS
          <5>2. account' = [account EXCEPT ![u] = row]
            BY <3>1, <5>1, Zenon DEF Insert
          <5> QED
            BY <5>1, <5>2 DEF TypeOK
        <4>2. ActiveRow(e, Nobody).status = "active"
          <5>1. PICK s \in Subjects \union {Nobody}, admin \in BOOLEAN : s = Nobody
            OBVIOUS
          <5>2. InvitedRow(e, admin) \in Rows /\ ActiveRow(e, s).status = "active"
            BY <1>7, NewRows
          <5> QED
            BY <5>1, <5>2
        <4> QED
          BY <4>1, <4>2 DEF Active
      <3>2. CASE Active(u) /\ account' = account
        BY <3>2 DEF Active
      <3> QED
        BY <2>1, <3>1, <3>2 DEF ExternalAccount
    <2>3. account'[u].token \in 0..tokens'
      BY <1>1, <2>2 DEF HolderInv
    <2> QED
      BY <1>4, <2>1, <2>3
  <1>8. CASE Register \/ AccountStep \/ UNCHANGED allVars
    BY <1>3, <1>8 DEF Register, AccountStep, oauthVars, allVars
  <1>9. ASSUME NEW c \in 1..drawn, SendToProvider(c) \/ SubmitExternal(c) PROVE CodesDrawn'
    BY <1>3, <1>9 DEF SendToProvider, SubmitExternal
  <1>10. ASSUME NEW p \in pending, Callback(p) PROVE CodesDrawn'
    BY <1>3, <1>10 DEF Callback
  <1>11. ASSUME NEW a \in awaiting, AnswerRefused(a) PROVE CodesDrawn'
    BY <1>3, <1>11 DEF AnswerRefused
  <1>12. ASSUME NEW x \in codes, Exchange(x) \/ ExchangeExpired(x) PROVE CodesDrawn'
    BY <1>3, <1>12 DEF Exchange, ExchangeExpired
  <1>13. CASE OAuthRestart
    BY <1>3, <1>13 DEF OAuthRestart
  <1> QED
    BY <1>5, <1>6, <1>7, <1>8, <1>9, <1>10, <1>11, <1>12, <1>13 DEF OAuthNext, ClientStep, AnswerStep

(***************************************************************************)
(* Whatever happens between /authorize and /token, a code opens no account *)
(* it could not open when it was drawn, and at most one: for any number of *)
(* accounts, clients, authorizations and codes.                            *)
(***************************************************************************)
THEOREM LateCodesOpenNothing == OAuthSpec => CodesKeepTheirAccount
  <1> DEFINE One == \A x \in codes : Cardinality({v \in Ids : LetsIn(x.token, v)}) <= 1
             Keep == \A x \in codes, v \in Ids : LetsIn(x.token, v)' => LetsIn(x.token, v)
  <1>1. OAuthInit => HolderInv /\ CodesDrawn
    BY DEF OAuthInit, Init, HolderInv, CodesDrawn, Active, NoRow
  <1>2. TypeOK /\ OAuthTypeOK /\ HolderInv /\ CodesDrawn /\ [OAuthNext]_allVars
        => (HolderInv /\ CodesDrawn)'
    BY StepImplementsAccounts, HolderStep, CodesStep, AccountsAssumption, OAuthAssumption
  <1>3. HolderInv => One
    <2> SUFFICES ASSUME HolderInv, NEW x \in codes
                 PROVE  Cardinality({v \in Ids : LetsIn(x.token, v)}) <= 1
      OBVIOUS
    <2> DEFINE In == {v \in Ids : LetsIn(x.token, v)}
    <2>1. \A u, v \in In : u = v
      BY DEF HolderInv, LetsIn
    <2>2. CASE In = {}
      BY <2>2, FS_EmptySet
    <2>3. CASE In # {}
      <3> HIDE DEF In
      <3>1. PICK u \in In : TRUE
        BY <2>3
      <3>2. In = {u}
        BY <2>1, <3>1
      <3> QED
        BY <3>2, FS_Singleton DEF In
    <2> QED
      BY <2>2, <2>3
  <1>4. TypeOK /\ HolderInv /\ CodesDrawn /\ [OAuthNext]_allVars => [Keep]_allVars
    <2>1. ASSUME TypeOK, HolderInv, CodesDrawn, [OAuthNext]_allVars, NEW x \in codes, NEW v \in Ids,
                 LetsIn(x.token, v)'
          PROVE  LetsIn(x.token, v)
      <3>1. x.token \in 0..tokens
        BY <2>1 DEF CodesDrawn
      <3> QED
        BY <2>1, <3>1, StepImplementsAccounts, HolderStep, AccountsAssumption
    <2> QED
      BY <2>1
  <1> QED
    BY <1>1, <1>2, <1>3, <1>4, OAuthTypeCorrect, PTL DEF OAuthSpec, CodesKeepTheirAccount
=============================================================================
