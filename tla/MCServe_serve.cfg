SPECIFICATION ServeSpec
CONSTANTS
    Servers = {s1, s2}
    Creds = {c1}
    Calls = {k1, k2, k3}
    MaxSessions = 2
    NoServer = noserver
    NoSession = 0
    Dialogs = {h1}
    Requests = {q1, q2}
    Runs = {r1}
    TTL = 1
    MaxCodes = 2
    Old = old
    OldGrant = oldgrant
    NoGrant = nogrant
    NoHandshake = nohandshake
INVARIANTS
    Inv
    ShutdownStops
    OneServer
    LoginInv
    NoGrantIsLost
PROPERTIES
    TypoIsForgiven
    AbandonedGo
SYMMETRY Symmetry
CHECK_DEADLOCK FALSE
