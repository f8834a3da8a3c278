SPECIFICATION FairSpec
CONSTANTS
    w1 = w1
    w2 = w2
    p1 = p1
    p2 = p2
    p3 = p3
    p4 = p4
    NoWorker = NoWorker
    NoProduct = NoProduct
    Workers <- TwoWorkers
    Products <- ThreeProducts
    ManifestSize <- DoubleSizes
    StreamSize <- DoubleSizes
    Ineligible = {}
    LowWatermark = 1
    HighWatermark = 3
    MaxBytes = 6
    MaxRuns = 1
    MaxCrashes = 0
    MaxFaults = 0
PROPERTY
    AdmissionProgress
CHECK_DEADLOCK FALSE
