SPECIFICATION BoundedSpec
CONSTANTS
    s1 = s1
    s2 = s2
    e1 = e1
    k1 = k1
    p1 = p1
    p2 = p2
    monday = monday
    t1 = t1
    t2 = t2
    Batches = {monday}
    Calls = {t1, t2}
    BatchOf <- OneBatch
    Students = {s1, s2}
    Classes = {k1}
    Enrollments = {e1}
    Programs = {p1, p2}
    Lists <- SmallLists
    MaxRows = 2
    Chunk = 2
    None = none
    MaxSerial = 1
    MaxFaults = 1
INVARIANTS
    TypeOK
    OutcomeIsEffect
PROPERTIES
    NothingUnseen
    CompletesUnlessStuck
