\* One manager with a failing call or a crash; all user changes that it repairs.
CONSTANTS
    Volumes = {v1}
    Managers = {m1}
    IPs = {i1, i2}
    Internal <- MCInternal
    None = None
    Changes = {"volume", "pvc", "service", "endpoints", "ports", "subsets"}
    MaxEnv = 2
    MaxFaults = 1
SPECIFICATION FairSpec
PROPERTIES EndpointStable Converges ServicesCollected GoneStays
