SPECIFICATION Spec
CONSTANTS
    Handlers = {h1, h2}
    None = none
    Levels = {l1}
    Questions = {}
    Value <- SomeValue
    Cap <- SomeCap
    BonusAt = 2
    BadgeAt = 2
    CenturyAt = 3
    MaxDay = 1
    MaxLost = 0
    Items = {i1}
    Files = {}
    RequestKeys = {}
    Rules = {}
    GradeMin <- HalfPoints
    BonusExp <- FourEach
    MaxPoints <- TwoPoints
    Link <- AllLinked
    Score <- SomeScore
INVARIANTS
    LoginDaysAreUnique
