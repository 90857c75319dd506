SPECIFICATION Spec
CONSTANTS
    Invocations = {i1, i2, i3}
    None = none
    LEASE = 4
    LIMIT = 2
    SKEW = 1
    MaxTime = 7
INVARIANTS
    LeasesHold
SYMMETRY Symmetric
