SPECIFICATION Spec
CONSTANTS
    Workers = {k1, k2}
    Positions = {1, 2, 3}
    DayOf <- MCDayOf
    Weeklies <- MCWeeklies
    Named <- MCNamed
    Ahead = 1
    CallCap = 1
    MaxNow = 1
    MaxSessions = 3
    MaxSlots = 2
    MaxQuestions = 2
    MaxDrafts = 1
    MaxOps = 4
INVARIANTS TypeOK AnsweredOnce OncePerDay
SYMMETRY Symmetry
CHECK_DEADLOCK FALSE
