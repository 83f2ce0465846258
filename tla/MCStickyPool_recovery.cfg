SPECIFICATION FairSpec
CONSTANTS
    Entries = {1, 2}
    Passthroughs = {2}
    NoEntry = 0
    r1 = r1
    r2 = r2
    s1 = s1
    Sessions = {s1}
    NoSession = NoSession
    Requests = {r1}
    SessionOf <- JustOne
    Flaky = {2}
    Revocable = {1}
    Capped = {}
    DegradedSeeds = {2}
    MaxFeas = 1
    MaxFailovers = 1
PROPERTIES
    ColdPinIsReleased
    WorkingEntryComesBack
CHECK_DEADLOCK FALSE
