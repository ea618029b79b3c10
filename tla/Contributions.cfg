SPECIFICATION MCSpec
CONSTANTS
    a1 = a1
    a2 = a2
    SP98 = SP98
    Member = {m1, m2}
    Call = {k1, k2, k3}
    Desk <- Requests
    Threshold = 2
    Reported <- Fuels
    Pilot = {p1}
    Ask <- Requests
    MaxEntries = 4
    MaxDay = 1
    Upload = {u1}
    Change <- Requests
    Moderator <- Requests
    MaxCrashes = 1
    None = None
    Form <- Requests
    Challenge = {k1, k2, k3}
    Slot <- Requests
    NoSolution = NoSolution
    Life = 1
    Margin = 2
    MaxWait = 1
    MaxNow = 3
    List = {k1, k2, k3}
    Visitor <- Requests
    Label = {Favoris, Other}
    Favoris = Favoris
    Place = {p1}
    Nothing = Nothing
    Item = {p1}
    Clerk <- Requests
    Screen = 1
    MaxStrokes = 3
    Blank = Blank
SYMMETRY MCSymmetry
CHECK_DEADLOCK FALSE
INVARIANTS
    MembersOnlyConfirm
    PublicMeansScanned
    ImagesAreConsistent
    SolutionsWorkOnce
    TheDefaultStays
    DeskIsHonest
PROPERTIES
    DecisionsHold
    MembersHideOnlyTogether
