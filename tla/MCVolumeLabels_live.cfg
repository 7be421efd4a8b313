\* Labels, class and annotation change around provisioning; a failing call, a restart.
CONSTANTS
    None = None
    b0 = b0
    Blobs = {b0, b1}
    MaxEnv = 2
    MaxFaults = 1
SPECIFICATION LiveSpec
INVARIANTS TypeOK ProvisionedDefaultKept
PROPERTIES LabelsSynced SyncStays
CHECK_DEADLOCK FALSE
