\* One authenticate call at a time. Two usernames with two tokens give at most
\* six files, so MaxFiles = 7 never stops a login.
CONSTANTS
    u1 = u1
    u2 = u2
    k1 = k1
    k2 = k2
    NULL = NULL
    Users <- MCUsers
    Tokens <- MCTokens
    MaxInFlight = 1
    MaxFiles = 7

SPECIFICATION Spec

INVARIANT TypeOK
INVARIANT OneAdmin
INVARIANT UniqueUserFile
INVARIANT FirstTokenUnique
INVARIANT AcceptedTokenRegistered
INVARIANT GrantedByEarlierToken
