\* Two nodes that join, leave and come back; a failing call or restart.
CONSTANTS
    None = None
    Objects = {n1, n2}
    Kind = "node"
    MaxEnv = 7
    MaxFaults = 2
SPECIFICATION FairSpec
INVARIANTS TypeOK DeletesRetried PresentSpared
PROPERTIES DeletedRemoved
