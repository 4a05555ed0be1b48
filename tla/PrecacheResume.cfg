CONSTANTS
    Accounts = {ann, bob}
    Roms = {dc, gb}
    PatchClients = {dc}
    MaxVisits = 3
SPECIFICATION Spec
INVARIANT SkippedIsPrepared
CHECK_DEADLOCK FALSE
