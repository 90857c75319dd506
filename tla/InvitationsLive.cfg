SPECIFICATION LiveSpec
CONSTANTS
    Users = {u1}
    Requests = {r1}
    Reminder = reminder
    Workers = {w1, w2}
    None = none
    MaxAttempts = 2
    DailyCap = 1
    BatchSize = 1
    Overrun = FALSE
    MaxTries = 3
    MaxVersion = 0
    MaxFaults = 1
INVARIANTS
    AttemptBudget
PROPERTIES
    SettledIsFinal
    DeliveredLinkKept
    QueueDrains
