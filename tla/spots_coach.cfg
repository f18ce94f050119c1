SPECIFICATION Spec
CONSTANTS
    a1 = a1
    a2 = a2
    b1 = b1
    Sessions = {1, 2}
    FirstSessions = {1, 2}
    MaxBookings = 2
    MaxWaiting = 0
    Children <- MCChildren
    Phone <- MCPhone
    PassLists <- MCPassLists
    Unreachable = {}
    TypeCapacity = 1
    CapacityEdits = {2}
    HoldTime = 1
    RetryTime = 1
    LockWait = 1
    LostAnswers = FALSE
    Workers = {k1, k2}
    MaxTime = 1
SYMMETRY Symmetry
CONSTRAINT Coach
INVARIANTS PassWhole PaidInOneSession
PROPERTIES ClosedStaysClosed CancelsOnlyItsSession
CHECK_DEADLOCK FALSE
