\* One crypto worker, as main.cpp starts it, evicting and clearing in between.
CONSTANTS
    Hashes = {h1, h2}
    TTL = 2
    Threads = {t1}
    EvictTTLs = {2, 3}
    MaxTime = 5
SPECIFICATION Spec
INVARIANT TypeOK
PROPERTIES AcceptancesApart ImplementsWindow
CHECK_DEADLOCK FALSE
