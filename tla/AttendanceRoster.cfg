SPECIFICATION Spec
CONSTANTS
    Courses = {c1}
    Sessions = {s1}
    Students = {u1}
    None = none
    Plans <- TwoPlans
    Marks <- Excuse
    Limit = 1
    Day = 2
    Delay = 1
    MaxTime = 3
INVARIANTS
    RosterFollowsEnrollment
