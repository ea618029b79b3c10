SPECIFICATION MCSpec
CONSTANTS
    r1 = r1
    r2 = r2
    t1 = t1
    d1 = d1
    d2 = d2
    f1 = f1
    f2 = f2
    f3 = f3
    Request <- Requests
    Secret <- Secrets
    None = None
    Window = 1
    MaxStall = 1
    MaxTime = 2
    Caller <- Requests
    Account <- Addresses
    Link <- Links
    Name <- Names
    Fold <- OneName
    Nobody = Nobody
    Page <- Tabs
    NoStatus = NoStatus
    Author = {m1, m2}
    Reading <- Tabs
    MaxTurns = 3
    Aerodrome <- Fields
    Point <- Corners
    Amenity = {fuel}
    Titles <- Alphabet
    Town <- Towns
    Radius = 2
    Limit = 1
    MaxLocating = 2
    Departure <- Departures
    Aircraft <- Profiles
    Setting = {s1, s2}
    Applying <- Requests
    Calculation <- Requests
    Unset = Unset
    MaxEdition = 2
SYMMETRY Requested
CONSTRAINT Few
INVARIANTS
    OnlyOverlapsEscape
    SecondFactorIsSound
    WhatIsShownIsStored
    PublicSeesWhatMembersAllow
    SearchesAreWhole
    PlannerShowsTheLast
    OwnWritesShow
CHECK_DEADLOCK FALSE
