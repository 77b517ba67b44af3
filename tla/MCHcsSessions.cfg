SPECIFICATION FairSpec
CONSTANTS
    Proc = {q1, q2}
    Session = {s1, s2, s3, s4}
    None = None
    MaxRetained = 1
    MaxFaults = 1
INVARIANTS
    RecoversAlone
PROPERTIES
    CollectedSessionHeldNothing
    DeadSessionsCollected
