----------------------------- MODULE ApiClient -----------------------------
(***************************************************************************)
(* The life of the api-manager process (main.go) and the authentication of *)
(* its StorageOS API client (internal/pkg/storageos/client.go).            *)
(*                                                                         *)
(* main connects to the API, sets the manager up, starts Refresh, and then *)
(* registers and starts the controllers.  Refresh keeps the token fresh.   *)
(* The pollers ask it for a reset when a call of theirs fails: the         *)
(* fencer's pollNodes, which registering the fencer starts, leader or not, *)
(* and the shared volume loop, a runnable of the manager.                  *)
(*                                                                         *)
(* The reset channel has no buffer and a poller sends to it outside of any *)
(* select: it waits until Refresh comes round to receiving.  Refresh calls *)
(* the API itself, and on shutdown takes the process with it.              *)
(***************************************************************************)
EXTENDS Naturals

CONSTANTS
    Pollers,
    Runnables,   \* the pollers that the manager runs, once it leads
    MaxEnv       \* bound on lost tokens, changes of the API's state, failures
                 \* of Kubernetes and restarts

ASSUME ConstantsAssumption == Runnables \subseteq Pollers /\ MaxEnv \in Nat

VARIABLES
    apiUp,       \* the API answers, and accepts the mounted credentials
    token,       \* what the API thinks of the client's token (c.ctx)
    stage,       \* where main is
    leading,     \* the manager has started what needs the leader's lease
    rpc,         \* where Refresh is
    ppc, ptoken, \* where each poller is; the token its call went out with
    signalled,   \* an interrupt or a SIGTERM has come
    exited,      \* the process has exited
    env

memory == <<token, stage, leading, rpc, ppc, ptoken, exited>>
mainVars == <<stage, leading, signalled, exited>>
pollVars == <<ppc, ptoken>>
vars == <<apiUp, token, mainVars, rpc, pollVars, env>>

Token == {"none", "good", "bad"}
Stage == {"connect", "setup", "register", "running"}

(* The manager starts its runnables when it leads; registering the fencer  *)
(* starts pollNodes.                                                       *)
Started(p) == IF p \in Runnables THEN leading ELSE stage \in {"register", "running"}

(* The type of every variable.  There is a token from the connection on,   *)
(* Refresh runs from the set-up on, and a poller only with Refresh there   *)
(* to receive its requests.                                                *)
TypeOK ==
    /\ apiUp \in BOOLEAN
    /\ token \in Token
    /\ stage \in Stage
    /\ leading \in BOOLEAN
    /\ rpc \in {"off", "select", "refresh", "reset"}
    /\ ppc \in [Pollers -> {"rest", "call", "send", "deliver", "stopped"}]
    /\ ptoken \in [Pollers -> Token]
    /\ signalled \in BOOLEAN
    /\ exited \in BOOLEAN
    /\ env \in Nat
    /\ token = "none" <=> stage = "connect"
    /\ rpc = "off" <=> stage \in {"connect", "setup"}
    /\ leading => stage = "running"
    /\ exited => stage = "connect"
    /\ \A p \in Pollers :
          /\ ptoken[p] # "none" <=> ppc[p] = "call"
          /\ ppc[p] \in {"call", "send", "deliver"} => Started(p)

Init ==
    /\ apiUp \in BOOLEAN
    /\ token = "none"
    /\ stage = "connect"
    /\ leading = FALSE
    /\ rpc = "off"
    /\ ppc = [p \in Pollers |-> "rest"]
    /\ ptoken = [p \in Pollers |-> "none"]
    /\ signalled = FALSE
    /\ exited = FALSE
    /\ env = 0

-----------------------------------------------------------------------------
(* StorageOS, Kubernetes, and the operator of the process.                 *)

EnvStep ==
    /\ env < MaxEnv
    /\ env' = env + 1

(* The API goes away or comes back, or the credentials change. *)
ApiChanges ==
    /\ EnvStep
    /\ apiUp' = ~apiUp
    /\ UNCHANGED <<token, mainVars, rpc, pollVars>>

(* All tokens given out so far are void: they expired, or the API was      *)
(* restarted.                                                              *)
TokensLost ==
    /\ EnvStep
    /\ token = "good"
    /\ token' = "bad"
    /\ ptoken' = [p \in Pollers |-> IF ptoken[p] = "good" THEN "bad" ELSE ptoken[p]]
    /\ UNCHANGED <<apiUp, mainVars, rpc, ppc>>

(* What the process held in memory is gone. *)
Exit ==
    /\ exited' = TRUE
    /\ token' = "none"
    /\ stage' = "connect"
    /\ leading' = FALSE
    /\ rpc' = "off"
    /\ ppc' = [p \in Pollers |-> "rest"]
    /\ ptoken' = [p \in Pollers |-> "none"]

(* An interrupt, or a SIGTERM.  Until main has set its handler up, it ends *)
(* the process at once.                                                    *)
Signal ==
    /\ ~exited /\ ~signalled
    /\ signalled' = TRUE
    /\ IF stage \in {"connect", "setup"} THEN Exit ELSE UNCHANGED memory
    /\ UNCHANGED <<apiUp, env>>

(* The container is started again. *)
Restart ==
    /\ EnvStep
    /\ exited
    /\ exited' = FALSE
    /\ signalled' = FALSE
    /\ UNCHANGED <<apiUp, token, stage, leading, rpc, pollVars>>

-----------------------------------------------------------------------------
(* main.                                                                   *)

(* Mutant: the parent context is not the signal handler's. *)
M_Done == FALSE

(* The parent context, which Refresh, the manager and pollNodes watch, is  *)
(* closed.                                                                 *)
Done == signalled

(* Mutant: the token is not kept. *)
M_Connect ==
    /\ ~exited
    /\ stage = "connect"
    /\ apiUp
    /\ stage' = "setup"
    /\ UNCHANGED <<apiUp, token, leading, signalled, exited, rpc, pollVars, env>>

(* main tries again until it has credentials and the API accepts them. *)
Connect ==
    /\ ~exited
    /\ stage = "connect"
    /\ apiUp
    /\ token' = "good"
    /\ stage' = "setup"
    /\ UNCHANGED <<apiUp, leading, signalled, exited, rpc, pollVars, env>>

(* The manager, the clients and the webhook's certificate; then Refresh is *)
(* started.  A failure is fatal.                                           *)
Setup ==
    /\ ~exited
    /\ stage = "setup"
    /\ \/ /\ stage' = "register"
          /\ rpc' = "select"
          /\ UNCHANGED <<token, leading, exited, pollVars, env>>
       \/ EnvStep /\ Exit
    /\ UNCHANGED <<apiUp, signalled>>

(* The controllers and the webhooks, and mgr.Start.  A failure is fatal. *)
Register ==
    /\ ~exited
    /\ stage = "register"
    /\ \/ /\ stage' = "running"
          /\ UNCHANGED <<token, leading, rpc, exited, pollVars, env>>
       \/ EnvStep /\ Exit
    /\ UNCHANGED <<apiUp, signalled>>

(* The manager gets the lease, or needs none. *)
Lead ==
    /\ ~exited
    /\ stage = "running" /\ ~leading /\ ~Done
    /\ leading' = TRUE
    /\ UNCHANGED <<apiUp, token, stage, signalled, exited, rpc, pollVars, env>>

(* mgr.Start returns with an error, which is fatal: it lost the lease, or  *)
(* a runnable could not be started.                                        *)
ManagerFails ==
    /\ EnvStep
    /\ ~exited
    /\ stage = "running"
    /\ Exit
    /\ UNCHANGED <<apiUp, signalled>>

(* mgr.Start returns once its runnables have ended or the grace period is  *)
(* over, and main with it.                                                 *)
ManagerStops ==
    /\ ~exited
    /\ stage = "running" /\ Done
    /\ Exit
    /\ UNCHANGED <<apiUp, signalled, env>>

-----------------------------------------------------------------------------
(* Refresh.                                                                *)

Tick ==
    /\ ~exited
    /\ rpc = "select"
    /\ rpc' = "refresh"
    /\ UNCHANGED <<apiUp, token, mainVars, pollVars, env>>

(* Mutant: a failing refresh sends itself a request on the reset channel.  *)
M_RefreshJwt ==
    /\ ~exited
    /\ rpc = "refresh"
    /\ apiUp /\ token = "good"
    /\ rpc' = "select"
    /\ UNCHANGED <<apiUp, token, mainVars, pollVars, env>>

(* A failing refresh is followed at once by a reset. *)
RefreshJwt ==
    /\ ~exited
    /\ rpc = "refresh"
    /\ rpc' = IF apiUp /\ token = "good" THEN "select" ELSE "reset"
    /\ UNCHANGED <<apiUp, token, mainVars, pollVars, env>>

(* Mutant: the new token is dropped. *)
M_ResetClient ==
    /\ ~exited
    /\ rpc = "reset"
    /\ rpc' = "select"
    /\ UNCHANGED <<apiUp, token, mainVars, pollVars, env>>

(* Whether or not it succeeds, Refresh goes on. *)
ResetClient ==
    /\ ~exited
    /\ rpc = "reset"
    /\ token' = IF apiUp THEN "good" ELSE token
    /\ rpc' = "select"
    /\ UNCHANGED <<apiUp, mainVars, pollVars, env>>

(* A poller's request is received. *)
ReceiveReset(p) ==
    /\ ~exited
    /\ rpc = "select"
    /\ ppc[p] = "send"
    /\ rpc' = "reset"
    /\ ppc' = [ppc EXCEPT ![p] = "rest"]
    /\ UNCHANGED <<apiUp, token, mainVars, ptoken, env>>

(* Refresh returns, and main exits, whatever the pollers are doing. *)
RefreshStops ==
    /\ ~exited
    /\ rpc = "select"
    /\ Done
    /\ Exit
    /\ UNCHANGED <<apiUp, signalled, env>>

-----------------------------------------------------------------------------
(* A poller.                                                               *)

(* A call goes out with the token of the moment.  AddToken reads c.ctx     *)
(* while Refresh may be storing it: it gets the old token or the new one.  *)
Poll(p) ==
    /\ ~exited
    /\ Started(p)
    /\ ppc[p] = "rest"
    /\ ppc' = [ppc EXCEPT ![p] = "call"]
    /\ ptoken' = [ptoken EXCEPT ![p] = token]
    /\ UNCHANGED <<apiUp, token, mainVars, rpc, env>>

(* pollNodes then sends what it got to the fencer's event source. *)
PollReturns(p) ==
    /\ ~exited
    /\ ppc[p] = "call"
    /\ ppc' = [ppc EXCEPT ![p] = IF ~(apiUp /\ ptoken[p] = "good") THEN "send"
                                 ELSE IF p \in Runnables THEN "rest" ELSE "deliver"]
    /\ ptoken' = [ptoken EXCEPT ![p] = "none"]
    /\ UNCHANGED <<apiUp, token, mainVars, rpc, env>>

(* The source is only read where the controllers run: on a standby         *)
(* pollNodes waits here, deaf to the context.                              *)
Deliver(p) ==
    /\ ~exited
    /\ leading
    /\ ppc[p] = "deliver"
    /\ ppc' = [ppc EXCEPT ![p] = "rest"]
    /\ UNCHANGED <<apiUp, token, mainVars, rpc, ptoken, env>>

PollerStops(p) ==
    /\ ~exited
    /\ Done
    /\ ppc[p] = "rest"
    /\ ppc' = [ppc EXCEPT ![p] = "stopped"]
    /\ UNCHANGED <<apiUp, token, mainVars, rpc, ptoken, env>>

Next ==
    \/ ApiChanges \/ TokensLost \/ Signal \/ Restart
    \/ Connect \/ Setup \/ Register \/ Lead \/ ManagerFails \/ ManagerStops
    \/ Tick \/ RefreshJwt \/ ResetClient \/ RefreshStops
    \/ \E p \in Pollers :
          \/ ReceiveReset(p) \/ Poll(p) \/ PollReturns(p) \/ Deliver(p)
          \/ PollerStops(p)

(* Every call returns (HTTPTimeout), main goes on, the refresh timer       *)
(* fires, and the manager's grace period ends; that the manager ever leads *)
(* or that the pollers go on polling is not needed.  Senders on a channel  *)
(* are served in order, and a select that comes round again and again      *)
(* takes each of its ready branches at some time (SF).                     *)
Fairness ==
    /\ WF_vars(Connect) /\ WF_vars(Setup) /\ WF_vars(Register)
    /\ WF_vars(RefreshJwt) /\ WF_vars(ResetClient) /\ WF_vars(Tick)
    /\ SF_vars(RefreshStops) /\ WF_vars(ManagerStops)
    /\ \A p \in Pollers : WF_vars(PollReturns(p)) /\ SF_vars(ReceiveReset(p))

Spec == Init /\ [][Next]_vars
FairSpec == Spec /\ Fairness

-----------------------------------------------------------------------------
(* Properties.                                                             *)

(* No poller waits on the reset channel for ever: Refresh always comes     *)
(* back to its select, also when neither refresh nor reset succeeds ("We   *)
(* can't send to the reset channel as it may cause a deadlock").           *)
PollersUnblocked == \A p \in Pollers : ppc[p] = "send" ~> (ppc[p] # "send" \/ exited)

(* A client whose token was lost has a good one again if the API stays up, *)
(* also on a standby, whose pollers do not call: "the token refresh is the *)
(* only place we'll detect an error".                                      *)
TokenRecovers == []<>(~apiUp \/ token = "good" \/ exited)

(* A process that is told to stop ends, at whatever stage it is, although  *)
(* its pollers may be blocked on the reset channel or, on a standby, on    *)
(* the event source, where they do not look at the context.                *)
ShutdownEnds == signalled ~> exited

=============================================================================
