\* Pools of one object each, so that a second draw of a kind makes a new
\* object; durations of zero (one frame) and one tick; three ticks of time.
CONSTANTS
    StartSize = 1
    Durations <- MCDurations
    MaxTime = 2
    MaxDraws = 3

SPECIFICATION Spec

INVARIANT TypeOK
INVARIANT PoolBalance
