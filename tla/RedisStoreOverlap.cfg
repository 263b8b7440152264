\* Two store calls of one connection may overlap (Lanes = 2).
CONSTANTS
    c1 = c1
    c2 = c2
    n1 = n1
    n2 = n2
    t1 = t1
    NULL = NULL
    Conns <- MCConns
    Namespaces <- MCNamespaces
    RateTimes <- MCRateTimes
    Lanes = 2

SPECIFICATION Spec

INVARIANT DisconnectedForgotten


\* Once every device connection has closed and its keys have expired the
\* store has nothing left to do.
CHECK_DEADLOCK FALSE
