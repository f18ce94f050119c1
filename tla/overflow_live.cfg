SPECIFICATION Spec
CONSTANTS
    s1 = s1
    s2 = s2
    Sessions = {s1}
    Starts <- MCStarts1
    NMembers = 1
    OptedIn = {}
    Joining = {1}
    Answers <- MCAnswers1
    MaxAsks = 2
    OfferTime = 1
    Workers = {k1, k2}
    RosterByText = {}
    MaxFaults = 1
    MaxTime = 2
PROPERTIES EveryAskEnds
CHECK_DEADLOCK FALSE
