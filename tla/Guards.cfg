\* Two slots, two places in the queue, five uploads: the last one is refused.
\* Two sign-in requests from two addresses.
SPECIFICATION MCSpec
CONSTANTS
    Job = {j1, j2, j3, j4, j5}
    Limit = 2
    MaxQueue = 2
    Request = {r1, r2}
    Ip = {i1, i2}
    MaxPerIp = 2
    MaxAccount = 3
    MaxWrong = 4
    MaxCrashes = 1
CONSTRAINT Few
INVARIANTS
    SlotsAreAccounted
    CleanMeansScanned
    GuessesAreBounded
    LockTakesManyFailures
PROPERTIES
    EveryScanEnds
    ScansWaitTheirTurn
    AddressesComeBack
CHECK_DEADLOCK FALSE
