SPECIFICATION Spec
CONSTANTS
    Users = {u1}
    Requests = {r1}
    Reminder = reminder
    Workers = {w1, w2}
    None = none
    MaxAttempts = 2
    DailyCap = 1
    BatchSize = 2
    Overrun = FALSE
    MaxTries = 2
    MaxVersion = 0
    MaxFaults = 1
SYMMETRY Symmetric
INVARIANTS
    ActivationCancelsJobs
