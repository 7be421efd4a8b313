\* A node that joins, with its labels edited and a failing call or a crash.
CONSTANTS
    Blobs = {b0, b1}
    Blob0 = b0
    MaxEnv = 4
    MaxFaults = 1
SPECIFICATION FairSpec
INVARIANTS TypeOK
PROPERTIES ComputeOnlySynced UnreservedSynced SyncStays
CHECK_DEADLOCK FALSE
