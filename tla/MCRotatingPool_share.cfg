SPECIFICATION Spec
CONSTANTS
    Entries = {1, 2, 3}
    Passthroughs = {3}
    NoEntry = 0
    Requests = {r1}
    SkipCapture = FALSE
    Flaky = {3}
    Revocable = {1}
    CaptureFlaky = {2}
    DegradedSeeds = {3}
    MaxFeas = 1
INVARIANTS
    Inv
    ActivatedHasHeaders
PROPERTIES
    OnlyCandidatesArePromoted
    NoDemotionWithoutCause
CHECK_DEADLOCK FALSE
