SPECIFICATION Spec
CONSTANTS
    p1 = p1
    p2 = p2
    e1 = e1
    e2 = e2
    Payments = {p1, p2}
    Events = {e1, e2}
    NoPayment = NoPayment
    NoEvent = NoEvent
    Children = {c1}
    First = c1
    Reports <- MCReports
    PackSessions = 2
    OwnCredit = 0
    Workers = {k1, k2}
    MaxFaults = 1
INVARIANTS TypeOK ConfirmedOnce NeverMoreThanPaid AnsweredIsSettled
PROPERTIES PaidOnce
SYMMETRY Symmetry
CHECK_DEADLOCK FALSE
