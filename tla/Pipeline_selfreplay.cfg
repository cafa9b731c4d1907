\* One request, sent once and rightly signed, is blocked as its own replay.
CONSTANTS
    Capacity = 1
    Producers = {p1}
    Verifiers = {v1}
    MaxRequests = 1
    Requests <- MCRequests
    Configurers = {}
    EnvKey = "k0"
    Updates <- MCUpdates
    MaxUpdates = 0
SPECIFICATION PSpec
INVARIANT BlockedWasRepeated
CHECK_DEADLOCK FALSE
