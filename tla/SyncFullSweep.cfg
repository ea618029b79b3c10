SPECIFICATION Spec
CONSTANTS
    Source <- MCSource
    Aerodrome = {a1, a2}
    MaxAttempts = 2
    MaxRuns = 3
    MaxCrashes = 0
    MaxRefusals = 0
PROPERTIES
    FullSweepGoesEverywhere
