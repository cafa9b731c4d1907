\* One producer sends two payloads through one slot, in any order and again,
\* while an update turns the channels on and another replaces the primary key.
CONSTANTS
    Capacity = 1
    Producers = {p1}
    Verifiers = {v1}
    MaxRequests = 2
    Requests <- MCRequests
    Configurers = {q1}
    EnvKey = "k0"
    Updates <- MCUpdates
    MaxUpdates = 1
SPECIFICATION PSpec
INVARIANTS PTypeOK DispatchedWasNew
PROPERTIES PipelineImplementsRing PassedWasSigned
CHECK_DEADLOCK FALSE
