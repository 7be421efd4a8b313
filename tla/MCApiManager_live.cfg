\* Two pollers, one of them a runnable of the manager; the API and the token
\* come and go, Kubernetes fails, the process is restarted.  Pods with up to
\* two volumes.
CONSTANTS
    Pollers = {fencer, shared}
    Runnables = {shared}
    MaxEnv = 6
    None = None
    Classes = {"fast", "slow"}
    Claims = {c1, c2}
    MaxVolumes = 2
SPECIFICATION FairSpec
INVARIANTS TypeOK PodsScheduled
PROPERTIES PollersUnblocked TokenRecovers ShutdownEnds
CHECK_DEADLOCK FALSE
