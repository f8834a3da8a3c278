CONSTANTS
    j1 = j1
    j2 = j2
    r1 = r1
    r2 = r2
    r3 = r3
    Workers = {w1, w2}
    Jobs = {j1, j2}
    Requests = {r1, r3}
    NoRequest = NoRequest
    NoJob = NoJob
    NoOutput = NoOutput
    JobOf <- TwoJobs
    Malformed = {}
    Conflicting = {}
    Rejected = {j2}
    Mismatched = {}
    MaxDeliveries = 2
    MaxCrashes = 1
    MaxFaults = 2
SPECIFICATION FairSpec
PROPERTIES RequestSettled CompletionServed
CHECK_DEADLOCK FALSE
