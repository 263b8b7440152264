\* Events valid for the state they meet, as a single writer produces them.
\* Three files (a symmetry set) with two tags of two values (set, absent, or
\* null in an update);
\* transactions of up to two events.
CONSTANTS
    i1 = i1
    i2 = i2
    i3 = i3
    t1 = t1
    t2 = t2
    v1 = v1
    v2 = v2
    NULL = NULL
    NONE = NONE
    Ids <- MCIds
    Tags <- MCTags
    Vals <- MCVals
    Destroyed = t2
    True = v1
    EventsFitState = TRUE

SPECIFICATION Spec
SYMMETRY symmIds

INVARIANT TypeOK
INVARIANT ViewMatchesState
