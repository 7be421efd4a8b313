\* A label change missed by a restart.
CONSTANTS
    None = None
    b0 = b0
    Blobs = {b0, b1}
    MaxEnv = 1
    MaxFaults = 1
SPECIFICATION ResyncSpec
PROPERTIES ResyncRepairs
CHECK_DEADLOCK FALSE
