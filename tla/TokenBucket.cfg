\* A bucket of five, one token a tick, calls for one to three and one that no
\* bucket can serve; the clock is set once, to any time.
CONSTANTS
    Capacity = 5
    Rate = 1
    Costs = {1, 3, 6}
    Word = 32
    MaxTime = 8
    MaxSteps = 1
SPECIFICATION Spec
INVARIANTS TypeOK GrantsBounded
PROPERTY RefusedOnlyWhenSpent
CHECK_DEADLOCK FALSE
