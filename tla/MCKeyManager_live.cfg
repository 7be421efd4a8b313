\* Two requests, a failing call.
CONSTANTS
    None = None
    c1 = c1
    c2 = c2
    Claims = {c1, c2}
    NsName = ns
    Named = {s1, ns}
    Generated = {g1, g2, g3}
    MaxEnv = 1
    MaxFaults = 1
SPECIFICATION RivalFairSpec
INVARIANTS TypeOK VolumeKeysReadable AdmittedHasKey
PROPERTIES ImplementsKeyStore ValidAdmitted
CHECK_DEADLOCK FALSE
