SPECIFICATION Spec
CONSTANTS
    Workers = {k1, k2}
    Phones = {p1}
    CoachPhone = p1
    Bookings = {b1}
    Sessions = {s1, s2}
    PhoneOf <- MCPhoneOf
    VisitorLimit = 1
    Reserve = 1
    Ceiling = 3
    MaxFailures = 1
    MaxNudges = 1
    MaxOps = 3
    MaxMoves = 1
    MaxStops = 1
INVARIANTS TypeOK CeilingsKept StopHolds SaidOnce
SYMMETRY Symmetry
CHECK_DEADLOCK FALSE
