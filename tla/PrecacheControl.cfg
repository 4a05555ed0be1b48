CONSTANTS
    Handlers = {h1, h2}
    Outcomes = {"cached", "failed"}
    MaxGames = 2
    MaxRuns = 2
    NoJob = NoJob
SPECIFICATION Spec
SYMMETRY Symmetry
INVARIANTS
    TypeOK
    OneRunPerJob
    ProgressAddsUp
    RunningIsAlive
    CancelledWasAsked
PROPERTY NoGameAfterCancel
