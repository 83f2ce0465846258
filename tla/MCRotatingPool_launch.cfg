SPECIFICATION FairSpec
CONSTANTS
    Entries = {1, 2}
    Passthroughs = {}
    NoEntry = 0
    Requests = {r1, r2}
    SkipCapture = TRUE
    Flaky = {1}
    Revocable = {2}
    CaptureFlaky = {}
    DegradedSeeds = {}
    MaxFeas = 1
INVARIANTS
    NoRestingOutage
PROPERTIES
    KeepsThePromise
    Recovers
CHECK_DEADLOCK FALSE
