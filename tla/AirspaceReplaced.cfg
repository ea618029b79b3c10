SPECIFICATION AirspacesSpec
CONSTANTS
    Airspace = {x1}
    Origin = {"openair"}
    Files <- SampleFiles
    MaxIssue = 1
    MaxImports = 2
INVARIANTS
    ReplacedMeansReplaced
CHECK_DEADLOCK FALSE
