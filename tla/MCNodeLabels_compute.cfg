\* A node with the compute-only label and an unreserved one.
CONSTANTS
    Blobs = {b0, b1}
    Blob0 = b0
    MaxEnv = 3
    MaxFaults = 0
SPECIFICATION FairSpec

PROPERTIES AllUnreservedSynced
CHECK_DEADLOCK FALSE
