\* A connection that fails during the deletion.
CONSTANTS
    None = None
    Objects = {n1}
    Kind = "namespace"
    MaxEnv = 3
    MaxFaults = 1
SPECIFICATION Spec
INVARIANTS FailedDeleteRequeued
