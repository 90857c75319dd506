SPECIFICATION Spec
CONSTANTS
    Students = {u1}
    Questions = {q1}
    Handlers = {h1, h2}
    None = none
    MaxPoints = 1
    Limits = {1, 2}
    Policies = {"HIGHEST", "LATEST", "AVERAGE"}
    Schedules <- SomeSchedules
    TimeLimit = none
    MaxTime = 1
    MaxEdits = 1
SYMMETRY Symmetric
CHECK_DEADLOCK FALSE
INVARIANTS
    TypeOK
    OneActive
    StartedIsVisible
    ScoreIsSum
    GradebookFollows
PROPERTIES
    SubmittedIsFinal
