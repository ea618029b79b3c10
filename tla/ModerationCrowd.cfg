SPECIFICATION ModerationSpec
CONSTANTS
    Member = {m1, m2}
    Call = {k1, k2, k3}
    Desk = {a1}
    Threshold = 2
CHECK_DEADLOCK FALSE
INVARIANTS
    CrowdIsHeard
