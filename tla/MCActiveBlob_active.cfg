SPECIFICATION Spec
CONSTANTS
    Procs = {p1, p2}
    Creds = {c1, c2}
    Fresh = {c2}
    Accounts = {a1, outside, stub}
    Outside = outside
    Stub = stub
    NoCred = nocred
    NoAcct = noacct
    MaxVer = 2
    Providers = {"claude", "codex"}
    LoginOverBackup = FALSE
    Together = {"codex"}
INVARIANTS
    Inv
    GrantIsKept
    SnapshotIsTheOriginal
    LogoutDeactivates
SYMMETRY Symmetry
CHECK_DEADLOCK FALSE
