SPECIFICATION Spec
CONSTANTS
    Proc = {q1, q2}
    Session = {s1, s2, s3}
    None = None
    MaxRetained = 1
    MaxFaults = 0
INVARIANT ConcurrentOpensSucceed
