CONSTANTS
    Width = 3
    Value = {"v1", "v2"}
    God <- MCGod
    GodValue = "v1"
    MaxBatches = 2
    MaxUpdate = 3
SPECIFICATION Spec
INVARIANTS GetMatchesAccounts RootCanonical StoreClosed
CHECK_DEADLOCK FALSE
