CONSTANTS
    a = a
    v1 = v1
    v2 = v2
    m1 = m1
    m2 = m2
    m3 = m3
    m4 = m4
    Workers = {w1, w2}
    Products = {a}
    Versions = {v1, v2}
    Messages = {m1, m3}
    NoMessage = NoMessage
    NoVersion = NoVersion
    ProductOf <- OneProduct
    VersionOf <- Contents
    Malformed = {}
    Rejected = {}
    NoSourceUri = {}
    SilverSize <- DistinctSizes
    MaxDeliver = 3
    MaxOverwrites = 0
    MaxCrashes = 1
    MaxFaults = 2
SPECIFICATION Spec
INVARIANTS TypeOK AckedIsAnnounced PreprocessorInv
PROPERTIES ImplementsMedallion 
SYMMETRY Symmetry
CHECK_DEADLOCK FALSE
