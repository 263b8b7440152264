\* Two authenticate calls in flight at once (two devices logging in together).
CONSTANTS
    u1 = u1
    u2 = u2
    k1 = k1
    k2 = k2
    NULL = NULL
    Users <- MCUsers
    Tokens <- MCTokens
    MaxInFlight = 2
    MaxFiles = 7

SPECIFICATION Spec

INVARIANT OneAdmin
