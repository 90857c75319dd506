SPECIFICATION BoundedSpec
CONSTANTS
    answer = answer
    evidence = evidence
    extra = extra
    k1 = k1
    k2 = k2
    Steps <- ThreeSteps
    FileSteps <- TwoFileSteps
    MinFiles <- OneOrNone
    MaxFiles <- OneEach
    Definitions <- TwoDefinitions
    Scores = {1}
    Keys <- TwoKeys
    Uploads = {u1, u2}
    None = none
    MaxVersions = 2
    MaxRevision = 2
    MaxReceipts = 4
SYMMETRY Symmetric
INVARIANTS
    TypeOK
    ProjectionFollowsAttempt
    RoundsAreComplete
    AcceptedOnWhatStood
PROPERTIES
    WorkFrozen
