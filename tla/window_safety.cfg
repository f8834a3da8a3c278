SPECIFICATION Spec
CONSTANTS
    w1 = w1
    w2 = w2
    p1 = p1
    p2 = p2
    p3 = p3
    p4 = p4
    NoWorker = NoWorker
    NoProduct = NoProduct
    Workers <- TwoWorkers
    Products <- ThreeProducts
    ManifestSize <- MixedManifest
    StreamSize <- MixedStream
    Ineligible = {p3}
    LowWatermark = 1
    HighWatermark = 3
    MaxBytes = 4
    MaxRuns = 2
    MaxCrashes = 1
    MaxFaults = 1
INVARIANTS
    TypeOK
    CapacityBound
    WindowInv
    EvictionLeavesTrace
PROPERTIES
    ImplementsMedallion
    SafeEviction
    LifecycleOrder
CHECK_DEADLOCK FALSE
