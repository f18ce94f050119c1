SPECIFICATION Spec
CONSTANTS
    Children = {c1}
    Kinds = {"pack"}
    PackSessions = 2
    Workers = {k1}
    Outside = {"whole", "part"}
    MaxAttempts = 1
    MaxFaults = 1
INVARIANTS NeverMoreThanBought
PROPERTIES RefundIsRecorded
CHECK_DEADLOCK FALSE
