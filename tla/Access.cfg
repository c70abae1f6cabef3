SPECIFICATION OAuthSpec
CONSTANTS
    Ids = {u1, u2}
    Emails = {e1, e2}
    Subjects = {s1}
    Nobody = Nobody
    Roles = {FALSE}
    SessionTTL = 1
    MaxLifetime = 2
    InviteTTL = 1
    MaxTime = 2
    MaxTokens = 2
    MaxInvites = 2
    MaxSessions = 1
    Cap = 1
    StaleAfter = 1
    PurgeMinAge = 0
    CodeTTL = 1
    PendingTTL = 1
    MaxClients = 2
    MaxGrants = 1
    MaxCodes = 2
INVARIANTS
    OneAccountPerIdentity
    SignedOutForGood
    UnderCap
    FirstGrantKeepsClient
    OneTokenPerAuthorization
PROPERTIES
    DeadStaysDead
    CodesKeepTheirAccount
SYMMETRY Symmetry
CHECK_DEADLOCK FALSE
