\* Two producers, two slots: every written slot in the window is judged.
CONSTANTS
    Capacity = 2
    Producers = {p1, p2}
    Verifiers = {v1}
    MaxRequests = 3
SPECIFICATION FairSpec
PROPERTY WrittenGetsVerdict
CHECK_DEADLOCK FALSE
