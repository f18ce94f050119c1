SPECIFICATION Spec
CONSTANTS
    Phones = {p1}
    Emails = {e1}
    None = None
    MaxCoaches = 2
    MaxProofs = 3
    MaxTries = 1
    Workers = {k1, k2}
INVARIANTS TypeOK TriesBounded UsedOnce OwnAccount NoOneLockedOut
SYMMETRY Symmetry
CHECK_DEADLOCK FALSE
