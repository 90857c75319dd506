SPECIFICATION Spec
CONSTANTS
    Users = {u1}
    Requests = {r1, r2}
    Reminder = reminder
    Workers = {w1, w2}
    None = none
    MaxAttempts = 1
    DailyCap = 1
    BatchSize = 2
    Overrun = FALSE
    MaxTries = 2
    MaxVersion = 1
    MaxFaults = 1
CONSTRAINT Bounded
SYMMETRY Symmetric
INVARIANTS
    TypeOK
    DailyBudget
    OneSender
    LinksAgree
    OneLiveJob
    ReminderAfterInvitation
PROPERTIES
    ImplementsOnboarding
