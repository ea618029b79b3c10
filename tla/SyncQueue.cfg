SPECIFICATION Spec
CONSTANTS
    Source <- MCSource
    Aerodrome = {a1, a2}
    MaxAttempts = 2
    MaxRuns = 3
    MaxCrashes = 1
    MaxRefusals = 1
INVARIANTS
    RunsAreAccountedFor
PROPERTIES
    FinishedRunsStayFinished
    DeltaIdsAreKept
    EveryRunEnds
