SPECIFICATION Spec
CONSTANTS
    p1 = p1
    p2 = p2
    f1 = f1
    f2 = f2
    Process = {p1, p2}
    File = {f1, f2}
    None = None
    MaxGuestConnections = 3
    MaxMishaps = 0
    Permits = 1
    WaitPermits = 1
    Capacity = 1
SYMMETRY CallerSymmetry
CONSTRAINT WhileLive
INVARIANT
    LanesRespected
