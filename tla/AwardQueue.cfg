CONSTANTS
    a = a
    b = b
    c = c
    x = x
    y = y
    Users = {a, b, c}
    NoUser = NoUser
    NoRequest = NoRequest
    Awards = {x, y}
    Requests <- RacingRequests
    SignIns <- OwnSignIns
    Workers = {w1, w2}
    Flushers = {f1}
    Nobody = Nobody
    MaxRows = 2
SPECIFICATION Spec
SYMMETRY Symmetry
INVARIANTS
    IInv
    AckedNotLost
    OwnersBoundedByWorkers
    ChainNeverForks
