\* Two producers race one verifier and the dispatcher for two slots, over
\* enough requests to lap the ring twice and to pass the bound if it broke.
CONSTANTS
    Capacity = 2
    Producers = {p1, p2}
    Verifiers = {v1}
    MaxRequests = 5
SYMMETRY Symmetry
SPECIFICATION Spec
INVARIANTS TypeOK OccupancyBound TailBehindHead PositionsDistinct
PROPERTIES RefusedOnlyIfFull
CHECK_DEADLOCK FALSE
