SPECIFICATION Spec
CONSTANTS
    Providers = {"codex", "grok"}
    MaxBlocks = 3
    MaxTurns = 1
    MaxRefreshes = 1
    MaxOthers = 1
INVARIANTS
    Inv
    OverflowIsTold
PROPERTIES
    StreamsAreMessages
    RejectionsGiveWay
