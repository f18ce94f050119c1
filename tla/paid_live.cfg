SPECIFICATION Spec
CONSTANTS
    p1 = p1
    p2 = p2
    e1 = e1
    e2 = e2
    Payments = {p1}
    Events = {e1}
    NoPayment = NoPayment
    NoEvent = NoEvent
    Children = {c1, c2}
    First = c1
    Reports <- MCOnePayment
    PackSessions = 3
    OwnCredit = 2
    Workers = {k1, k2}
    MaxFaults = 1
PROPERTIES EveryPaidEventSettled
CHECK_DEADLOCK FALSE
