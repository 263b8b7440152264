CONSTANTS
    c1 = c1
    c2 = c2
    Conns <- MCConns

SPECIFICATION Spec

PROPERTY UnsubscribeReleases

CHECK_DEADLOCK FALSE
