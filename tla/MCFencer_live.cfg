\* A pod with two volumes and a claim of another driver; a failing call, a timeout or a crash.
CONSTANTS
    Nodes = {n1}
    Pods = {p1}
    Claims = {c1, c2, c3}
    Volumes = {v1, v2}
    Actions = {a1}
    None = None
    p1 = p1  p2 = p2  c1 = c1  c2 = c2  c3 = c3  v1 = v1  v2 = v2
    ClaimsOf <- MCClaimsOfOne
    VolumeOf <- MCVolumeOf
    Annotation <- MCAnnotation
    PVDriver <- MCPVDriver
    Workers = 1
    MaxEnv = 2
    MaxFaults = 1
SPECIFICATION LabelledFairSpec
INVARIANTS SickVolumePodsKept
PROPERTIES FencingProgress ActionsEnd
