SPECIFICATION Spec
CONSTANTS
    Entries = {1, 2}
    Passthroughs = {}
    NoEntry = 0
    r1 = r1
    r2 = r2
    s1 = s1
    Sessions = {s1}
    NoSession = NoSession
    Requests = {r1, r2}
    SessionOf <- Both
    Flaky = {}
    Revocable = {}
    Capped = {}
    DegradedSeeds = {}
    MaxFeas = 1
    MaxFailovers = 1
PROPERTIES
    PinMovesForCause
CHECK_DEADLOCK FALSE
