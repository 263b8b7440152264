\* Store calls of one connection are serialised by the caller (Lanes = 1).
CONSTANTS
    c1 = c1
    c2 = c2
    n1 = n1
    n2 = n2
    t1 = t1
    NULL = NULL
    Conns <- MCConns
    Namespaces <- MCNamespaces
    RateTimes <- MCRateTimes
    Lanes = 1

SPECIFICATION Spec

INVARIANT TypeOK
INVARIANT DisconnectedForgotten
INVARIANT NamespaceIndexed
INVARIANT RateLimitExpires
PROPERTY EventuallyForgotten

\* Once every device connection has closed and its keys have expired the
\* store has nothing left to do.
CHECK_DEADLOCK FALSE
