CONSTANTS
    Locks <- TwoReleases
    Codes = {a, b}
    Minimums <- SomeMinimums
    Devices <- SomeDevices
    MaxChanges = 2
    MaxJobs = 2
SPECIFICATION Spec
SYMMETRY Edits
INVARIANTS
    CheckedIsReleasable
    FloorTellsTheMinimum
    PublishedStaysFixed
    SourceIsItsCommit
    HandedPaksRun
    NeverRunsBelow
CHECK_DEADLOCK FALSE
