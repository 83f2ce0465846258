SPECIFICATION Spec
CONSTANTS
    Sessions = {s1}
    Refreshers = {c1}
    Renamers = {u1}
    Relogins = {u1}
    Logouts = {u1}
    Procs <- MCProcs
    NoProc = NoProc
    Provider = "grok"
    Mortal = {s1}
    MaxTokens = 3
INVARIANTS
    Inv
    PresentsWhatIsStored
PROPERTIES
    GrantIsKept
    CheapPathIsTaken
    RefreshReturns
CHECK_DEADLOCK FALSE
