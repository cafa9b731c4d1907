\* Two charges, first or second attempts, and a stop at any moment.
CONSTANTS
    Txs = {x1, x2}
    Attempts = {1, 2}
    Backoff <- MCBackoff
    MaxLate = 1
SPECIFICATION FairSpec
INVARIANTS TypeOK ChargesConserved NotEarly NoSleepOverWork
PROPERTIES EveryChargeRecovered StopsWithWorkLeft
CHECK_DEADLOCK FALSE
