------------------------------ MODULE Accounts ------------------------------
(***************************************************************************)
(* Accounts, bearer tokens, invitation links and browser sessions          *)
(* (cli/src/user.ts, session.ts and the routes that call them).  Every     *)
(* handler is atomic: what it reads and what it writes lie between the     *)
(* same two suspensions (`await save()` is an empty promise), and the ones *)
(* that wait for an identity provider look everything up after the answer. *)
(* Rows and sessions are persisted; the only thing a restart does is the   *)
(* sweep of expired sessions.                                              *)
(*                                                                         *)
(* Tokens, invitation codes and session ids are random: each draw is the   *)
(* next number.  Profiles, tenants and custom attributes are left out,     *)
(* they decide what an account may read and not whether it is let in.      *)
(***************************************************************************)
EXTENDS Naturals, FiniteSets

CONSTANTS
    Ids,          \* users.id values that can be drawn
    Emails,       \* addresses
    Subjects,     \* identities of the external providers (users.oidc_subject)
    Nobody,       \* NULL for an address or a subject
    Roles,        \* the roles handed out: TRUE for admin, FALSE for user
    SessionTTL,   \* SESSION_TTL_MS
    MaxLifetime,  \* SESSION_MAX_LIFETIME_MS
    InviteTTL,    \* the 72 hours of an onboarding code
    MaxTime, MaxTokens, MaxInvites, MaxSessions  \* bounds of the model

ASSUME AccountsAssumption ==
    /\ Roles \subseteq BOOLEAN
    /\ Nobody \notin Emails \union Subjects
    /\ {SessionTTL, MaxLifetime, InviteTTL} \subseteq Nat
    /\ {MaxTime, MaxTokens, MaxInvites, MaxSessions} \subseteq Nat

VARIABLES
    account,   \* the users table
    tokens,    \* number of bearer tokens drawn so far
    invites,   \* number of onboarding codes drawn so far
    sessions,  \* the auth_sessions table
    opened,    \* number of session ids drawn so far
    now,       \* Date.now()
    cutoff     \* history: the last session id drawn when the account was
               \* last disabled or deleted

accountVars == <<account, tokens, invites, sessions, opened, now, cutoff>>

Rows == [status: {"none", "invited", "active", "disabled", "deleted"},
         admin: BOOLEAN, email: Emails \union {Nobody},
         subject: Subjects \union {Nobody}, password: BOOLEAN,
         token: Nat, invite: Nat, until: Nat]

NoRow(state) ==
    [status |-> state, admin |-> FALSE, email |-> Nobody, subject |-> Nobody,
     password |-> FALSE, token |-> 0, invite |-> 0, until |-> 0]

Exists(u) == account[u].status \in {"invited", "active", "disabled"}
Active(u) == account[u].status = "active"
Owner(e)  == {u \in Ids : Exists(u) /\ account[u].email = e}
LinkedTo(s) == {u \in Ids : Exists(u) /\ account[u].subject = s}

(* verifyToken scans the active rows only. *)
Opens(t) == \E u \in Ids : Active(u) /\ account[u].token = t

(* stmtSelectByOnboarding: the status of the row is not looked at. *)
Invited(c) == {u \in Ids : Exists(u) /\ c # 0 /\ account[u].invite = c
                           /\ account[u].until > now}

(* validateSession: an expired row is deleted by the call that finds it. *)
Usable(s) == now <= s.expires
Lives(i) == \E s \in sessions : s.id = i /\ Usable(s)

HasAdmin == \E u \in Ids : Active(u) /\ account[u].admin /\ account[u].password

Init ==
    /\ account = [u \in Ids |-> NoRow("none")]
    /\ tokens = 0
    /\ invites = 0
    /\ sessions = {}
    /\ opened = 0
    /\ now = 0
    /\ cutoff = [u \in Ids |-> 0]
----------------------------------------------------------------------------
(* The row that createUser inserts, and the same row after the             *)
(* consumeOnboardingCode that follows when nobody has to accept anything.  *)
InvitedRow(e, admin) ==
    [NoRow("invited") EXCEPT !.admin = admin, !.email = e, !.token = tokens + 1,
                             !.invite = invites + 1, !.until = now + InviteTTL]
ActiveRow(e, s) ==
    [InvitedRow(e, FALSE) EXCEPT !.status = "active", !.subject = s,
                                 !.invite = 0, !.until = 0]

(* createUser: refused when the address is taken. *)
Insert(u, row) ==
    /\ account[u].status = "none"
    /\ Owner(row.email) = {}
    /\ tokens < MaxTokens
    /\ invites < MaxInvites
    /\ account' = [account EXCEPT ![u] = row]
    /\ tokens' = tokens + 1
    /\ invites' = invites + 1

OpenSession(u) ==
    /\ opened < MaxSessions
    /\ opened' = opened + 1
    /\ sessions' = sessions \union
         {[id |-> opened + 1, user |-> u, created |-> now, expires |-> now + SessionTTL]}

DestroySessions(u, kept) ==
    sessions' = {s \in sessions : s.user # u \/ s.id = kept}

(* POST /api/users and one row of POST /api/users/import. *)
CreateUser(u, e, admin) ==
    /\ Insert(u, InvitedRow(e, admin))
    /\ UNCHANGED <<sessions, opened, now, cutoff>>

(* POST /api/auth/setup: the first administrator, active at once and signed in. *)
Setup(u, e) ==
    /\ ~HasAdmin
    /\ account[u].status = "none"
    /\ Owner(e) = {}
    /\ tokens < MaxTokens
    /\ account' = [account EXCEPT ![u] =
         [NoRow("active") EXCEPT !.admin = TRUE, !.email = e, !.password = TRUE,
                                 !.token = tokens + 1]]
    /\ tokens' = tokens + 1
    /\ OpenSession(u)
    /\ UNCHANGED <<invites, now, cutoff>>

(* PUT /api/users/:id: address and role; the other fields are left out. *)
UpdateUser(u, e, admin) ==
    /\ Exists(u)
    /\ Owner(e) \subseteq {u}
    /\ account' = [account EXCEPT ![u].email = e, ![u].admin = admin]
    /\ UNCHANGED <<tokens, invites, sessions, opened, now, cutoff>>

(* Mutant: the sessions of a disabled account are left to their expiry. *)
DisableOnly(u) ==
    /\ Exists(u)
    /\ account' = [account EXCEPT ![u].status = "disabled"]
    /\ cutoff' = [cutoff EXCEPT ![u] = opened]
    /\ UNCHANGED <<tokens, invites, sessions, opened, now>>

Disable(u) ==
    /\ Exists(u)
    /\ account' = [account EXCEPT ![u].status = "disabled"]
    /\ DestroySessions(u, 0)
    /\ cutoff' = [cutoff EXCEPT ![u] = opened]
    /\ UNCHANGED <<tokens, invites, opened, now>>

Delete(u) ==
    /\ Exists(u)
    /\ account' = [account EXCEPT ![u] = NoRow("deleted")]
    /\ DestroySessions(u, 0)
    /\ cutoff' = [cutoff EXCEPT ![u] = opened]
    /\ UNCHANGED <<tokens, invites, opened, now>>

(* Mutant: the token the account had before is good again. *)
EnabledAsBefore(row) == [row EXCEPT !.status = "active"]

(* enableUser accepts a row of any status and draws a new token. *)
Enabled(row) == [row EXCEPT !.status = "active", !.token = tokens + 1]

Enable(u) ==
    /\ Exists(u)
    /\ tokens < MaxTokens
    /\ account' = [account EXCEPT ![u] = Enabled(@)]
    /\ tokens' = tokens + 1
    /\ UNCHANGED <<invites, sessions, opened, now, cutoff>>

(* By an administrator, or by the user behind a session of any status. *)
RegenerateToken(u) ==
    /\ Exists(u)
    /\ tokens < MaxTokens
    /\ account' = [account EXCEPT ![u].token = tokens + 1]
    /\ tokens' = tokens + 1
    /\ UNCHANGED <<invites, sessions, opened, now, cutoff>>

(* POST /api/users/:id/resend-invitation: whatever the status was. *)
ResendInvitation(u) ==
    /\ Exists(u)
    /\ invites < MaxInvites
    /\ account' = [account EXCEPT ![u].status = "invited", ![u].invite = invites + 1,
                                  ![u].until = now + InviteTTL]
    /\ invites' = invites + 1
    /\ UNCHANGED <<tokens, sessions, opened, now, cutoff>>

(* Mutant: the link makes the account active as it is. *)
ActivateAsInvited(c) ==
    /\ \E u \in Invited(c) :
         account' = [account EXCEPT ![u].status = "active", ![u].password = TRUE,
                                    ![u].invite = 0, ![u].until = 0]
    /\ UNCHANGED <<tokens, invites, sessions, opened, now, cutoff>>

(* POST /api/onboarding/:code/activate: setPassword, enableUser, then
   consumeOnboardingCode. *)
Activate(c) ==
    /\ tokens < MaxTokens
    /\ \E u \in Invited(c) :
         account' = [account EXCEPT ![u] =
           [Enabled(@) EXCEPT !.password = TRUE, !.invite = 0, !.until = 0]]
    /\ tokens' = tokens + 1
    /\ UNCHANGED <<invites, sessions, opened, now, cutoff>>
----------------------------------------------------------------------------
(* /api/auth/login and user-login: authenticateByEmail refuses a disabled
   account and one without a password, an invited one passes. *)
PasswordLogin(u) ==
    /\ account[u].status \in {"invited", "active"}
    /\ account[u].password
    /\ OpenSession(u)
    /\ UNCHANGED <<account, tokens, invites, now, cutoff>>

(* /api/chat-auth/token with a user's bearer token. *)
TokenLogin(t) ==
    /\ \E u \in Ids : Active(u) /\ account[u].token = t /\ OpenSession(u)
    /\ UNCHANGED <<account, tokens, invites, now, cutoff>>

(* /api/chat-auth/token once the company's API has accepted a token for e. *)
ExternalLogin(e) ==
    /\ UNCHANGED <<now, cutoff>>
    /\ \/ \E u \in Owner(e) :
            /\ Active(u)
            /\ OpenSession(u)
            /\ UNCHANGED <<account, tokens, invites>>
       \/ /\ Owner(e) = {}
          /\ \E u \in Ids : Insert(u, ActiveRow(e, Nobody)) /\ OpenSession(u)

(* Mutant: the address is looked at without asking who is linked already. *)
SsoByAddress(u, s, e) ==
    \/ /\ u \in Owner(e)
       /\ account' = [account EXCEPT ![u].subject = s]
       /\ UNCHANGED <<tokens, invites>>
    \/ /\ Owner(e) = {}
       /\ Insert(u, ActiveRow(e, s))

(* The account an external identity s with address e signs in to, in this
   order: linked already, same address (and linked now), or created. *)
SsoAccount(u, s, e) ==
    \/ /\ u \in LinkedTo(s)
       /\ UNCHANGED <<account, tokens, invites>>
    \/ /\ LinkedTo(s) = {}
       /\ u \in Owner(e)
       /\ account' = [account EXCEPT ![u].subject = s]
       /\ UNCHANGED <<tokens, invites>>
    \/ /\ LinkedTo(s) = {}
       /\ Insert(u, ActiveRow(e, s))

(* /api/auth/oidc/callback after the provider's answer: a session is opened
   whatever the status of the account (the requests look at the status). *)
SsoLogin(s, e) ==
    /\ \E u \in Ids : SsoAccount(u, s, e) /\ OpenSession(u)
    /\ UNCHANGED <<now, cutoff>>

(* /mcp/:profile/oauth/callback for an identity nobody is linked to; it never
   links by address.  A linked one is only handed its token. *)
ProfileSignUp(s, e) ==
    /\ LinkedTo(s) = {}
    /\ \E u \in Ids : Insert(u, ActiveRow(e, s))
    /\ UNCHANGED <<sessions, opened, now, cutoff>>

(* The account behind an external token accepted by POST /authorize: the
   active one with that address, or one created on the spot. *)
ExternalAccount(u, e) ==
    /\ \/ /\ u \in Owner(e)
          /\ Active(u)
          /\ UNCHANGED <<account, tokens, invites>>
       \/ Insert(u, ActiveRow(e, Nobody))
    /\ UNCHANGED <<sessions, opened, now, cutoff>>

(* GET /api/auth/status, at every opening of the console. *)
Renewed(s) ==
    LET limit == s.created + MaxLifetime
        full  == now + SessionTTL
        until == IF full <= limit THEN full ELSE limit
    IN  IF until > s.expires THEN [s EXCEPT !.expires = until] ELSE s

RenewSession(s) ==
    /\ Usable(s)
    /\ Active(s.user)
    /\ account[s.user].admin
    /\ HasAdmin
    /\ sessions' = (sessions \ {s}) \union {Renewed(s)}
    /\ UNCHANGED <<account, tokens, invites, opened, now, cutoff>>

(* The answer to a request that presents an expired session. *)
DropExpired(s) ==
    /\ ~Usable(s)
    /\ sessions' = sessions \ {s}
    /\ UNCHANGED <<account, tokens, invites, opened, now, cutoff>>

Logout(s) ==
    /\ sessions' = sessions \ {s}
    /\ UNCHANGED <<account, tokens, invites, opened, now, cutoff>>

(* POST /api/auth/user-change-password: the other devices are signed out. *)
ChangePassword(s) ==
    /\ Usable(s)
    /\ Exists(s.user)
    /\ account' = [account EXCEPT ![s.user].password = TRUE]
    /\ DestroySessions(s.user, s.id)
    /\ UNCHANGED <<tokens, invites, opened, now, cutoff>>

(* configureSessionStore at boot. *)
Restart ==
    /\ sessions' = {s \in sessions : Usable(s)}
    /\ UNCHANGED <<account, tokens, invites, opened, now, cutoff>>

Tick ==
    /\ now < MaxTime
    /\ now' = now + 1
    /\ UNCHANGED <<account, tokens, invites, sessions, opened, cutoff>>

AdminStep(u) ==
    \/ \E e \in Emails : Setup(u, e)
    \/ \E e \in Emails, r \in Roles : CreateUser(u, e, r) \/ UpdateUser(u, e, r)
    \/ Disable(u) \/ Enable(u) \/ RegenerateToken(u) \/ ResendInvitation(u) \/ Delete(u)

SignInStep ==
    \/ \E u \in Ids : PasswordLogin(u)
    \/ \E t \in 1..tokens : TokenLogin(t)
    \/ \E c \in 1..invites : Activate(c)
    \/ \E e \in Emails : ExternalLogin(e)
    \/ \E s \in Subjects, e \in Emails : SsoLogin(s, e) \/ ProfileSignUp(s, e)

SessionStep == \E s \in sessions :
    RenewSession(s) \/ DropExpired(s) \/ Logout(s) \/ ChangePassword(s)

Next ==
    \/ \E u \in Ids : AdminStep(u) \/ \E e \in Emails : ExternalAccount(u, e)
    \/ SignInStep
    \/ SessionStep
    \/ Restart
    \/ Tick

Spec == Init /\ [][Next]_accountVars
----------------------------------------------------------------------------
TypeOK ==
    /\ account \in [Ids -> Rows]
    /\ tokens \in Nat /\ invites \in Nat /\ opened \in Nat /\ now \in Nat
    /\ sessions \subseteq [id: Nat, user: Ids, created: Nat, expires: Nat]
    /\ cutoff \in [Ids -> Nat]

(* Whatever the order in which sign-ins, sign-ups by a provider, links by
   address, changes of address and deletions come, one external identity
   signs in to one account and one address belongs to one account. *)
OneAccountPerIdentity ==
    /\ \A s \in Subjects : Cardinality(LinkedTo(s)) <= 1
    /\ \A e \in Emails : Cardinality(Owner(e)) <= 1

(* A stored session belongs to an account that exists and was opened after
   the account was last disabled: an account that is enabled again never
   finds an old browser still signed in (requests look at the status only). *)
SignedOutForGood ==
    \A s \in sessions : Exists(s.user) /\ s.id > cutoff[s.user]

(* A credential that has been drawn and is refused is refused for ever: a
   bearer token once its account was disabled, invited again, rotated or
   deleted; an onboarding code once used, replaced or expired; a session once
   expired, renewed too late, revoked or logged out. *)
DeadStaysDead == [][
    /\ \A t \in 1..tokens : ~Opens(t) => ~Opens(t)'
    /\ \A c \in 1..invites : Invited(c) = {} => Invited(c)' = {}
    /\ \A i \in 1..opened : ~Lives(i) => ~Lives(i)']_accountVars
=============================================================================
