SPECIFICATION Spec
CONSTANTS
    Providers = {"codex"}
    MaxBlocks = 1
    MaxTurns = 1
    MaxRefreshes = 1
    MaxOthers = 0
INVARIANT RetryCarriesFreshBearer
