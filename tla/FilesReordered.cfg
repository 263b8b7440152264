\* Any event may arrive: events built by other clients against states the
\* store has moved past (an update after a removal, a second removal).
CONSTANTS
    i1 = i1
    i2 = i2
    i3 = i3
    t1 = t1
    t2 = t2
    v1 = v1
    v2 = v2
    NULL = NULL
    NONE = NONE
    Ids <- MCIds
    Tags <- MCTags
    Vals <- MCVals
    Destroyed = t2
    True = v1
    EventsFitState = FALSE

SPECIFICATION Spec

INVARIANT ViewMatchesState
