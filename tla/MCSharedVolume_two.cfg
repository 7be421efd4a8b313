\* Two managers on one volume, and users who delete and edit its objects.
CONSTANTS
    Volumes = {v1}
    Managers = {m1, m2}
    IPs = {i1, i2}
    Internal <- MCInternal1
    None = None
    Changes = {"volume", "service", "endpoints", "decl"}
    MaxEnv = 3
    MaxFaults = 0
SPECIFICATION Spec
SYMMETRY Symm
INVARIANTS TypeOK PublishedIsServed
PROPERTIES ImplementsDirectory SettledStays
