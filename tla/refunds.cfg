SPECIFICATION Spec
CONSTANTS
    Children = {c1}
    Kinds = {"dropin"}
    PackSessions = 2
    Workers = {k1, k2}
    Outside = {"whole", "part"}
    MaxAttempts = 2
    MaxFaults = 0
INVARIANTS TypeOK ToldOnce RefundedGivesNothing HeldOnItsWay AppliedMeansRefunded
CONSTRAINT Upcoming
SYMMETRY Symmetry
CHECK_DEADLOCK FALSE
