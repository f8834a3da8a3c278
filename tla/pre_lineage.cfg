CONSTANTS
    a = a
    v1 = v1
    v2 = v2
    m1 = m1
    m2 = m2
    m3 = m3
    m4 = m4
    Workers = {w1}
    Products = {a}
    Versions = {v1, v2}
    Messages = {m1}
    NoMessage = NoMessage
    NoVersion = NoVersion
    ProductOf <- OneProduct
    VersionOf <- Contents
    Malformed = {}
    Rejected = {}
    NoSourceUri = {}
    SilverSize <- DistinctSizes
    MaxDeliver = 3
    MaxOverwrites = 0
    MaxCrashes = 0
    MaxFaults = 1
SPECIFICATION Spec
INVARIANT AckedHasLineage
CHECK_DEADLOCK FALSE
