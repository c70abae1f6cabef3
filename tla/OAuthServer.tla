---------------------------- MODULE OAuthServer ----------------------------
(***************************************************************************)
(* The OAuth authorization server for MCP clients (cli/src/routes/oauth.ts *)
(* and oauth-clients.ts) next to the accounts whose bearer tokens it hands *)
(* out.  Registered clients are rows; authorization codes, and the         *)
(* authorizations sent to an external provider, live in maps of the        *)
(* process.  /authorize and /token are atomic except where a provider is   *)
(* awaited: such an authorization is in `awaiting` between the two halves. *)
(* One tenant (the clients of two tenants never meet).  A request whose    *)
(* PKCE verifier or redirect_uri does not match changes nothing and is     *)
(* left out, like the /register calls that the rate limit refuses.         *)
(***************************************************************************)
EXTENDS Accounts

CONSTANTS
    Cap,          \* maxClientsPerTenant
    StaleAfter,   \* staleAfterMs
    PurgeMinAge,  \* purgeMinAgeMs
    CodeTTL,      \* the 5 minutes of a code
    PendingTTL,   \* the 10 minutes of an authorization at a provider
    MaxClients, MaxGrants, MaxCodes  \* bounds of the model

ASSUME OAuthAssumption ==
    /\ Cap \in Nat \ {0}
    /\ {StaleAfter, PurgeMinAge, CodeTTL, PendingTTL} \subseteq Nat
    /\ PurgeMinAge <= StaleAfter
    /\ {MaxClients, MaxGrants, MaxCodes} \subseteq Nat

VARIABLES
    clients,   \* the oauth_clients table
    drawn,     \* number of client ids drawn so far
    pending,   \* pendingOAuthAuthorizations
    awaiting,  \* handlers that await a provider's answer
    codes,     \* authCodes
    grants,    \* number of authorizations begun so far
    minted,    \* number of codes drawn so far
    exchanged, \* history: tokens handed out per authorization
    born,      \* history: when each client registered
    honoured   \* history: clients that redeemed a code before PurgeMinAge

oauthVars == <<clients, drawn, pending, awaiting, codes, grants, minted, exchanged, born, honoured>>
allVars == <<accountVars, oauthVars>>

OpenToken == 0  \* '__open__'

Registered(c) == \E k \in clients : k.id = c

OAuthInit ==
    /\ Init
    /\ clients = {} /\ drawn = 0
    /\ pending = {} /\ awaiting = {}
    /\ codes = {}
    /\ grants = 0 /\ minted = 0
    /\ exchanged = [g \in 1..MaxGrants |-> 0]
    /\ born = [c \in 1..MaxClients |-> 0]
    /\ honoured = {}
----------------------------------------------------------------------------
(* POST /register, one immediate transaction. *)
Unused(k) == ~k.used
OlderThan(k, age) == k.created + age < now
Stale == {k \in clients : Unused(k) /\ OlderThan(k, StaleAfter)}

(* Mutant: a client that was used is purged like the others. *)
PurgeableIfOld(table) == {k \in table : OlderThan(k, PurgeMinAge)}

(* What makes room in a full table: the oldest never-used clients past the
   minimum age, as many as are in excess or as there are. *)
Purgeable(table) == {k \in table : Unused(k) /\ OlderThan(k, PurgeMinAge)}

MadeRoom(table) ==
    IF Cardinality(table) < Cap THEN {{}} ELSE
    {gone \in SUBSET Purgeable(table) :
        /\ \A k \in gone, l \in Purgeable(table) \ gone : k.created <= l.created
        /\ \/ Cardinality(gone) = Cardinality(table) + 1 - Cap
           \/ gone = Purgeable(table) /\ Cardinality(gone) <= Cardinality(table) + 1 - Cap}

(* Mutant: one client too many fits. *)
RefusedPastCap(table, gone) == Cardinality(table) > Cap + Cardinality(Stale \union gone)

(* The test before the insert: `purged` counts the stale rows too, which
   `count` no longer does. *)
Refused(table, gone) ==
    /\ Cardinality(table) >= Cap
    /\ Cardinality(table) >= Cap + Cardinality(Stale) + Cardinality(gone)

Register ==
    /\ drawn < MaxClients
    /\ drawn' = drawn + 1
    /\ LET table == clients \ Stale IN
       \E gone \in MadeRoom(table) :
         clients' = (table \ gone) \union
           IF Refused(table, gone) THEN {}
           ELSE {[id |-> drawn + 1, created |-> now, used |-> FALSE]}
    /\ born' = [born EXCEPT ![drawn + 1] = now]
    /\ UNCHANGED <<accountVars, pending, awaiting, codes, grants, minted, exchanged, honoured>>

(* The end of every authorization that succeeds: authCodes.set. *)
Mint(g, c, t) ==
    /\ minted < MaxCodes
    /\ minted' = minted + 1
    /\ codes' = codes \union {[id |-> minted + 1, grant |-> g, client |-> c, token |-> t,
                               expires |-> now + CodeTTL]}

NewGrant ==
    /\ grants < MaxGrants
    /\ grants' = grants + 1

(* GET /authorize on an open profile; POST /authorize with the token form
   (any token: it is looked at when it is used) or with the password form
   (the token of the account that signed in, one of those). *)
Authorize(c, t) ==
    /\ Registered(c)
    /\ NewGrant
    /\ Mint(grants + 1, c, t)
    /\ UNCHANGED <<accountVars, clients, drawn, pending, awaiting, exchanged, born, honoured>>

(* GET /authorize on an sso or oauth profile: sweep, check, remember. *)
Fresh(p) == now <= p.expires

SendToProvider(c) ==
    /\ NewGrant
    /\ pending' = {p \in pending : Fresh(p)} \union
         IF Registered(c)
         THEN {[grant |-> grants + 1, client |-> c, expires |-> now + PendingTTL]}
         ELSE {}
    /\ UNCHANGED <<accountVars, clients, drawn, awaiting, codes, minted, exchanged, born, honoured>>

(* Mutant: the entry stays until it expires. *)
CallbackKeepsEntry(p) ==
    /\ Fresh(p)
    /\ awaiting' = awaiting \union {[grant |-> p.grant, client |-> p.client, form |-> FALSE]}
    /\ UNCHANGED <<accountVars, clients, drawn, pending, codes, grants, minted, exchanged, born, honoured>>

(* The browser comes back (perhaps twice): the entry goes before the awaits. *)
Callback(p) ==
    /\ pending' = pending \ {p}
    /\ IF Fresh(p)
       THEN awaiting' = awaiting \union {[grant |-> p.grant, client |-> p.client, form |-> FALSE]}
       ELSE UNCHANGED awaiting
    /\ UNCHANGED <<accountVars, clients, drawn, codes, grants, minted, exchanged, born, honoured>>

(* POST /authorize with an external token: checked before the company's API
   is asked. *)
SubmitExternal(c) ==
    /\ Registered(c)
    /\ NewGrant
    /\ awaiting' = awaiting \union {[grant |-> grants + 1, client |-> c, form |-> TRUE]}
    /\ UNCHANGED <<accountVars, clients, drawn, pending, codes, minted, exchanged, born, honoured>>

Settle(a) == awaiting' = awaiting \ {a}

(* The provider names an identity: its account is looked up now, and must be
   linked and active. *)
ProviderAnswers(a, s) ==
    /\ ~a.form
    /\ Settle(a)
    /\ \E u \in LinkedTo(s) : Active(u) /\ Mint(a.grant, a.client, account[u].token)
    /\ UNCHANGED <<accountVars, clients, drawn, pending, grants, exchanged, born, honoured>>

(* The company's API names an address: its account is found, or created, and
   its token read back, which can fail (500, no code). *)
ExternalAnswers(a, e) ==
    /\ a.form
    /\ Settle(a)
    /\ \E u \in Ids :
         /\ ExternalAccount(u, e)
         /\ Mint(a.grant, a.client, account'[u].token) \/ UNCHANGED <<codes, minted>>
    /\ UNCHANGED <<clients, drawn, pending, grants, exchanged, born, honoured>>

(* The provider fails, refuses, or names nobody who may pass. *)
AnswerRefused(a) ==
    /\ Settle(a)
    /\ UNCHANGED <<accountVars, clients, drawn, pending, codes, grants, minted, exchanged, born, honoured>>

(* markUsed is an UPDATE: it finds no row when the client was purged. *)
MarkUsed(c) == clients' = {IF k.id = c THEN [k EXCEPT !.used = TRUE] ELSE k : k \in clients}

(* POST /token *)
Exchange(x) ==
    /\ now <= x.expires
    /\ codes' = codes \ {x}
    /\ MarkUsed(x.client)
    /\ exchanged' = [exchanged EXCEPT ![x.grant] = @ + 1]
    /\ honoured' = honoured \union {c \in {x.client} : now <= born[c] + PurgeMinAge}
    /\ UNCHANGED <<accountVars, drawn, pending, awaiting, grants, minted, born>>

ExchangeExpired(x) ==
    /\ now > x.expires
    /\ codes' = codes \ {x}
    /\ UNCHANGED <<accountVars, clients, drawn, pending, awaiting, grants, minted, exchanged, born, honoured>>

OAuthRestart ==
    /\ Restart
    /\ pending' = {} /\ awaiting' = {} /\ codes' = {}
    /\ UNCHANGED <<clients, drawn, grants, minted, exchanged, born, honoured>>

(* Every other step of the accounts. *)
AccountStep ==
    /\ (\E u \in Ids : AdminStep(u)) \/ SignInStep \/ SessionStep \/ Tick
    /\ UNCHANGED oauthVars

ClientStep(c) == SendToProvider(c) \/ SubmitExternal(c) \/ \E t \in 0..tokens : Authorize(c, t)

AnswerStep(a) ==
    \/ \E s \in Subjects : ProviderAnswers(a, s)
    \/ \E e \in Emails : ExternalAnswers(a, e)
    \/ AnswerRefused(a)

OAuthNext ==
    \/ Register
    \/ \E c \in 1..drawn : ClientStep(c)
    \/ \E p \in pending : Callback(p)
    \/ \E a \in awaiting : AnswerStep(a)
    \/ \E x \in codes : Exchange(x) \/ ExchangeExpired(x)
    \/ OAuthRestart
    \/ AccountStep

OAuthSpec == OAuthInit /\ [][OAuthNext]_allVars
----------------------------------------------------------------------------
OAuthTypeOK ==
    /\ clients \subseteq [id: 1..drawn, created: Nat, used: BOOLEAN]
    /\ drawn \in 0..MaxClients
    /\ pending \subseteq [grant: 1..grants, client: 1..drawn, expires: Nat]
    /\ awaiting \subseteq [grant: 1..grants, client: 1..drawn, form: BOOLEAN]
    /\ codes \subseteq [id: 1..minted, grant: 1..grants, client: 1..drawn, token: Nat,
                        expires: Nat]
    /\ grants \in 0..MaxGrants
    /\ minted \in 0..MaxCodes
    /\ exchanged \in [1..MaxGrants -> Nat]
    /\ born \in [1..MaxClients -> Nat]
    /\ honoured \subseteq 1..drawn

(* The table never holds more than maxClientsPerTenant clients, although the
   test before the insert subtracts the stale rows a second time. *)
UnderCap == Cardinality(clients) <= Cap

(* A client that finished its first authorization before purgeMinAgeMs had
   passed is registered for ever, however full the table gets, and although
   /token never asks whether the client still exists. *)
FirstGrantKeepsClient ==
    \A c \in honoured : \E k \in clients : k.id = c /\ k.used

(* One authorization ends in at most one token, whatever is repeated: the
   provider's redirect, the exchange, or both around a restart. *)
OneTokenPerAuthorization == \A g \in 1..MaxGrants : exchanged[g] <= 1

(* Whom a bearer token lets in (verifyToken). *)
LetsIn(t, v) == Active(v) /\ account[v].token = t

(* The token a code hands out was bound to it at /authorize, minutes before
   the exchange.  It lets in one account at most, and after a step none that
   it did not let in before: an account that was disabled, deleted, invited
   again or given a new token in between is out of reach of the code for
   ever, and so is every account that comes later. *)
CodesKeepTheirAccount ==
    /\ [](\A x \in codes : Cardinality({v \in Ids : LetsIn(x.token, v)}) <= 1)
    /\ [][\A x \in codes, v \in Ids : LetsIn(x.token, v)' => LetsIn(x.token, v)]_allVars
=============================================================================
