\* A slot is dispatched twice on one verification.
CONSTANTS
    Capacity = 2
    Producers = {p1, p2}
    Verifiers = {v1}
    MaxRequests = 4
SYMMETRY Symmetry
SPECIFICATION Spec
INVARIANT DispatchedWasVerified
CHECK_DEADLOCK FALSE
