CONSTANTS
    a = a
    b = b
    c = c
    x = x
    y = y
    Users = {a, b}
    NoUser = NoUser
    NoRequest = NoRequest
    Awards = {x, y}
    Requests <- EveryKind
    SignIns <- RenamedSignIns
    Workers = {w1}
    Flushers = {f1, f2}
    Nobody = Nobody
    MaxRows = 2
SPECIFICATION Spec
SYMMETRY Symmetry
INVARIANTS
    OwnTokenOnly
    FlushOwnsItsRows
PROPERTY ImplementsLedger
