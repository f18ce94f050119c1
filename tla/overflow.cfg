SPECIFICATION Spec
CONSTANTS
    s1 = s1
    s2 = s2
    Sessions = {s1, s2}
    Starts <- MCStarts2
    NMembers = 2
    OptedIn = {1, 2}
    Joining = {}
    Answers <- MCAnswers2
    MaxAsks = 3
    OfferTime = 1
    Workers = {k1, k2}
    RosterByText = {s1}
    MaxFaults = 0
    MaxTime = 2
SYMMETRY Symmetry
INVARIANTS TypeOK TakenOnce OneOfferOut QuestionKept NoLockRing Moving
CHECK_DEADLOCK FALSE
