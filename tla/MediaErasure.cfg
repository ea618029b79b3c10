SPECIFICATION Spec
CONSTANTS
    Upload = {u1}
    Change = {c1, c2}
    Moderator = {a1}
    MaxCrashes = 0
    None = None
CHECK_DEADLOCK FALSE
INVARIANTS
    AccountDeletionErasesObjects
