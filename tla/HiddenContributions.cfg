\* Two members and one request.
SPECIFICATION VisibilitySpec
CONSTANTS
    Author = {m1, m2}
    Reading = {r1}
    MaxTurns = 3
INVARIANTS
    HiddenMembersAreUnnamed
CHECK_DEADLOCK FALSE
