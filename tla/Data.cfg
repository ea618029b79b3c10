SPECIFICATION MCSpec
CONSTANTS
    a1 = a1
    a2 = a2
    p1 = p1
    p2 = p2
    s1 = s1
    v1 = v1
    v2 = v2
    i1 = i1
    i2 = i2
    f1 = f1
    f2 = f2
    h1 = h1
    LFAA = LFAA
    LFBB = LFBB
    k1 = k1
    k2 = k2
    k3 = k3
    x1 = x1
    Field <- Fields
    MaxAttempts = 2
    MaxEdition = 2
    MaxKills = 1
    Poi <- Pois
    BatchSize = 2
    MaxLines = 5
    Item <- Items
    Unfit <- UnfitItems
    PageSize = 2
    Floor = 2
    InsertBatch = 2
    MaxChanges = 2
    Site <- Sites
    Image <- Images
    Importing <- Workers
    MaxUploads = 3
    Airfield <- Airfields
    Handmade <- Handmades
    Icao <- ContestedCodes
    Reader <- Workers
    MaxRevisions = 1
    Strips = 3
    Lines = 2
    Places <- Positions
    Codes <- CodesOfRows
    CodeLists <- ListsOfCodes
    MaxMatch = 1
    CacheKey <- Keys
    Caller <- Workers
    LongTtl = 2
    ShortTtl = 1
    MaxMemory = 2
    MaxFlight = 1
    MaxClock = 3
    MaxLegs = 4
    MaxDistance = 2
    MaxRange = 3
    Day = 5
    Taxi = 1
    Stays <- Halts
    Precision = 2
    Grid <- Coordinates
    Geometries <- Zones
    Obstacles <- Masts
    Corridor = 1
    Samples = 4
    Airspace <- OpenAipSpaces
    Origin = {"openair"}
    Files <- SampleFiles
    MaxIssue = 2
    MaxImports = 2
    Outlines <- Areas
    Wires <- Cables
    Spots <- Lookouts
    Windows <- Views
    Radius = 4
    Tolerance = 1
    Mesh = 2
    MaxShown = 2
    Stop <- BusStops
    MaxStops = 3
    Reach = 4
    Walkable = 2
    ClusterRadius = 1
    Rules <- Openings
    MaxRules = 2
    WeekDays = 3
    Hours = 4
SYMMETRY Symmetric
CONSTRAINT OneKeyCounts
INVARIANTS
    OsmIsSound
    PhotosAndRowsAgree
    ImportsAreWhole
    LinksAreNotSwapped
    AnswersAreYoung
    BriefingIsRight
    SurroundingsAreTold
    OutlinesAreRight
PROPERTIES
    RebuildsAreWhole
CHECK_DEADLOCK FALSE
