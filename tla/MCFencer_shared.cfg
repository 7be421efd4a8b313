\* Two pods sharing a volume, on two nodes, and one action.
CONSTANTS
    Nodes = {n1, n2}
    Pods = {p1, p2}
    Claims = {c1}
    Volumes = {v1}
    Actions = {a1}
    None = None
    p1 = p1  p2 = p2  c1 = c1  c2 = c2  c3 = c3  v1 = v1  v2 = v2
    ClaimsOf <- MCClaimsOfShared
    VolumeOf <- MCVolumeOf
    Annotation <- MCAnnotation
    PVDriver <- MCPVDriver
    Workers = 1
    MaxEnv = 2
    MaxFaults = 0
SPECIFICATION LabelledSpec
SYMMETRY Symm
INVARIANTS TypeOK OnlyOfflineNodesFenced
PROPERTIES HealthyAttachmentsKept ImplementsEviction
