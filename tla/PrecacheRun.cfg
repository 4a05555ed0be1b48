CONSTANTS
    dc = dc
    gb = gb
    Accounts = {ann, bob}
    NoAccount = NoAccount
    Roms = {dc, gb}
    PatchClients = {dc}
    Sheets = {dc}
    Consoles = {"DC", "GB"}
    Libraries <- SmallLibraries
    Requests <- SmallRequests
    MaxPicker = 2
    MaxExplicit = 2
    MaxVisits = 3
    MaxRequests = 2
    MaxChanges = 2
SPECIFICATION RunSpec
INVARIANTS
    PreparedIsKnown
    PatchClientsHavePatch
    MarkedWasAnswered
    ForWhoStartedIt
    MostUsefulFirst
    PageIsHonest
PROPERTY MissingIsAbsent
CHECK_DEADLOCK FALSE
