\* Two subscriptions; half a cent is the unit, so the tolerance is 2.
CONSTANTS
    MaxSubs = 2
    Totals = {0, 4, 8}
    Counts = {0, 1, 2, 4}
    Amounts = {0, 1, 2, 3, 4, 6, 7, 8}
    Tolerance = 2
SPECIFICATION Spec
INVARIANTS TypeOK PlanAgrees CollectedNearDue
PROPERTY TerminalStays
