\* One account, three refresh tokens, two concurrent handlers; one browser, two
\* calls at once, three pairs of tokens.
SPECIFICATION MCSpec
CONSTANTS
    User = {u1}
    Jti = {j1, j2, j3}
    NoJti = NoJti
    Req = {r1, r2}
    MaxVersion = 2
    SharedStore = FALSE
    Tab = {t1}
    Call = {r1, r2}
    Member = {u1}
    Pair = {j1, j2, j3}
    Nil = Nil
SYMMETRY Symmetry
CONSTRAINT Few
INVARIANTS
    RotateOnce
    StaleAuthorityIsDead
    SessionIsKept
PROPERTIES
    SessionsDieForGood
    LogoutEndsTheSession
CHECK_DEADLOCK FALSE
