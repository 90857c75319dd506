SPECIFICATION BoundedSpec
CONSTANTS
    Handlers = {h1, h2}
    None = none
    Levels = {l1}
    Questions = {q1}
    Value <- SomeValue
    Cap <- SomeCap
    BonusAt = 2
    BadgeAt = 2
    CenturyAt = 3
    MaxDay = 2
    MaxLost = 1
    Items = {i1}
    Files = {f1}
    RequestKeys = {k1}
    Rules = {r1}
    GradeMin <- HalfPoints
    BonusExp <- FourEach
    MaxPoints <- TwoPoints
    Link <- AllLinked
    Score <- SomeScore
SYMMETRY Symmetric
INVARIANTS
    TypeOK
    LedgerIsRight
    RewardsAgree
    AppliedOnce
    StatusAgrees
PROPERTIES
    WorkFrozen
