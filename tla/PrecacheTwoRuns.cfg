CONSTANTS
    Handlers = {h1, h2}
    Outcomes = {"failed"}
    MaxGames = 1
    MaxRuns = 2
    NoJob = NoJob
SPECIFICATION Spec
SYMMETRY Symmetry
INVARIANT OneRunPerDevice
