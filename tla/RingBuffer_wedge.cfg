\* A rejected slot at the tail stops the dispatcher for good.
CONSTANTS
    Capacity = 2
    Producers = {p1}
    Verifiers = {v1}
    MaxRequests = 2
SPECIFICATION FairSpec
PROPERTY ApprovedIsDrained
CHECK_DEADLOCK FALSE
