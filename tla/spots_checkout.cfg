SPECIFICATION Spec
CONSTANTS
    a1 = a1
    a2 = a2
    b1 = b1
    Sessions = {1}
    FirstSessions = {1}
    MaxBookings = 2
    MaxWaiting = 1
    Children <- MCChildren
    Phone <- MCPhone
    PassLists <- MCSingles
    Unreachable = {}
    TypeCapacity = 1
    CapacityEdits = {1, 2}
    HoldTime = 1
    RetryTime = 1
    LockWait = 1
    LostAnswers = FALSE
    Workers = {k1, k2}
    MaxTime = 1
SYMMETRY Symmetry
CONSTRAINT Checkout

PROPERTIES NoOverbooking FirstClaim
CHECK_DEADLOCK FALSE
