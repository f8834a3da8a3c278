SPECIFICATION FairSpec
CONSTANTS
    w1 = w1
    w2 = w2
    p1 = p1
    p2 = p2
    p3 = p3
    p4 = p4
    NoWorker = NoWorker
    NoProduct = NoProduct
    Workers <- TwoWorkers
    Products <- FourProducts
    ManifestSize <- OneOversize
    StreamSize <- OneOversize
    Ineligible = {}
    LowWatermark = 1
    HighWatermark = 2
    MaxBytes = 4
    MaxRuns = 1
    MaxCrashes = 0
    MaxFaults = 0
PROPERTY
    EveryJobFinishes
CHECK_DEADLOCK FALSE
