\* One base thread and two names for one dynamic one, so that a thread that
\* timed out waits to be joined; a queue of two is filled by three clients.
CONSTANTS
    Base = {b1}
    Dynamic = {d1, d2}
    MaxThreads = 2
    MaxQueued = 2
    Connections = {c1, c2, c3}
    NoConnection = none
    KeepAliveMax = 2
SPECIFICATION FairSpec
INVARIANTS TypeOK IdleIsExact NoJobStranded ThreadsBounded UntoldEndsConnection
PROPERTIES ServerImplementsService AcceptedIsClosed StopEndsListen
CHECK_DEADLOCK FALSE
