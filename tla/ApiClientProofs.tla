-------------------------- MODULE ApiClientProofs --------------------------
(***************************************************************************)
(* That no poller sends a request that nobody is there to receive, for any *)
(* number of pollers, failures and restarts.                               *)
(***************************************************************************)
EXTENDS ApiClient, TLAPS

(* TypeOK, by the variables concerned. *)
ProcessOK ==
    /\ token \in Token
    /\ stage \in Stage
    /\ rpc \in {"off", "select", "refresh", "reset"}
    /\ token = "none" <=> stage = "connect"
    /\ rpc = "off" <=> stage \in {"connect", "setup"}
    /\ leading => stage = "running"
    /\ exited => stage = "connect"

FlagsOK ==
    /\ apiUp \in BOOLEAN
    /\ leading \in BOOLEAN
    /\ signalled \in BOOLEAN
    /\ exited \in BOOLEAN

PollersOK ==
    /\ ppc \in [Pollers -> {"rest", "call", "send", "deliver", "stopped"}]
    /\ ptoken \in [Pollers -> Token]
    /\ \A p \in Pollers :
          /\ ptoken[p] # "none" <=> ppc[p] = "call"
          /\ ppc[p] \in {"call", "send", "deliver"} => Started(p)

(* TypeOK is the conjunction of its parts. *)
LEMMA TypeParts == TypeOK <=> ProcessOK /\ FlagsOK /\ PollersOK /\ env \in Nat
BY DEF TypeOK, ProcessOK, FlagsOK, PollersOK

(* Exit ends in the state that the process starts from. *)
LEMMA ExitStep ==
    ASSUME Exit
    PROVE  ProcessOK' /\ PollersOK' /\ leading' = FALSE /\ exited' = TRUE
BY DEF Exit, ProcessOK, PollersOK, Token, Stage

(* The stages follow each other, with the token and Refresh. *)
LEMMA ProcessStep ==
    ASSUME TypeOK, [Next]_vars
    PROVE  ProcessOK'
<1>0. ProcessOK /\ PollersOK
  BY TypeParts
<1>1. CASE Exit
  BY <1>1, ExitStep
<1>2. CASE ApiChanges \/ TokensLost \/ Tick \/ RefreshJwt \/ ResetClient
  <2>1. UNCHANGED <<stage, leading, exited>>
    BY <1>2 DEF ApiChanges, TokensLost, Tick, RefreshJwt, ResetClient, mainVars
  <2>2. token' = token \/ (token' \in {"good", "bad"} /\ token # "none")
    BY <1>0, <1>2 DEF ApiChanges, TokensLost, Tick, RefreshJwt, ResetClient, ProcessOK, Stage
  <2>3. rpc' = rpc \/ (rpc # "off" /\ rpc' \in {"select", "refresh", "reset"})
    BY <1>2 DEF ApiChanges, TokensLost, Tick, RefreshJwt, ResetClient
  <2> QED BY <1>0, <2>1, <2>2, <2>3 DEF ProcessOK, Token
<1>3. CASE Signal /\ ~Exit
  BY <1>0, <1>3 DEF Signal, memory, ProcessOK
<1>4. CASE Restart
  BY <1>0, <1>4 DEF Restart, ProcessOK
<1>5. CASE Connect
  BY <1>0, <1>5 DEF Connect, ProcessOK, Token, Stage
<1>6. CASE Setup /\ ~Exit
  BY <1>0, <1>6 DEF Setup, ProcessOK, Stage
<1>7. CASE Register /\ ~Exit
  BY <1>0, <1>7 DEF Register, ProcessOK, Stage
<1>8. CASE Lead
  BY <1>0, <1>8 DEF Lead, ProcessOK
<1>9. CASE ManagerFails \/ ManagerStops \/ RefreshStops
  BY <1>1, <1>9 DEF ManagerFails, ManagerStops, RefreshStops
<1>10. ASSUME NEW p \in Pollers,
              ReceiveReset(p) \/ Poll(p) \/ PollReturns(p) \/ Deliver(p) \/ PollerStops(p)
       PROVE  ProcessOK'
  <2>1. /\ UNCHANGED <<token, stage, leading, exited>>
        /\ rpc' = rpc \/ (rpc # "off" /\ rpc' = "reset")
    BY <1>10 DEF ReceiveReset, Poll, PollReturns, Deliver, PollerStops, mainVars
  <2> QED BY <1>0, <2>1 DEF ProcessOK
<1>11. CASE UNCHANGED vars
  BY <1>0, <1>11 DEF vars, mainVars, ProcessOK
<1> QED
  BY <1>1, <1>2, <1>3, <1>4, <1>5, <1>6, <1>7, <1>8, <1>9, <1>10, <1>11 DEF Next

(* What was started stays so until the process ends. *)
LEMMA StartedStep ==
    ASSUME ProcessOK, FlagsOK, [Next]_vars, ~Exit, NEW p \in Pollers, Started(p)
    PROVE  Started(p)'
<1>1. leading => leading'
  BY DEF Next, ApiChanges, TokensLost, Signal, Restart, Connect, Setup, Register, Lead,
         ManagerFails, ManagerStops, Tick, RefreshJwt, ResetClient, RefreshStops,
         ReceiveReset, Poll, PollReturns, Deliver, PollerStops, vars, mainVars, memory
<1>2. stage \in {"register", "running"} => stage' \in {"register", "running"}
  BY DEF Next, ApiChanges, TokensLost, Signal, Restart, Connect, Setup, Register, Lead,
         ManagerFails, ManagerStops, Tick, RefreshJwt, ResetClient, RefreshStops,
         ReceiveReset, Poll, PollReturns, Deliver, PollerStops, vars, mainVars, memory
<1> QED
  BY <1>1, <1>2 DEF Started

(* A poller calls, sends and delivers only when it was started. *)
LEMMA PollersStep ==
    ASSUME TypeOK, [Next]_vars
    PROVE  PollersOK'
<1>0. ProcessOK /\ FlagsOK /\ PollersOK
  BY TypeParts
<1>1. CASE Exit
  BY <1>1, ExitStep
<1>2. CASE ~Exit
  <2> DEFINE Kinds == {"rest", "call", "send", "deliver", "stopped"}
             Types == ppc' \in [Pollers -> Kinds] /\ ptoken' \in [Pollers -> Token]
             Calls(q) == /\ ptoken'[q] # "none" <=> ppc'[q] = "call"
                         /\ ppc'[q] \in {"call", "send", "deliver"} => Started(q)
  <2>1. ASSUME Types, \A q \in Pollers : Calls(q) PROVE PollersOK'
    <3>1. \A q \in Pollers : ppc'[q] \in {"call", "send", "deliver"} => Started(q)'
      BY <1>0, <1>2, <2>1, StartedStep
    <3> QED BY <2>1, <3>1 DEF PollersOK
  <2>2. ASSUME UNCHANGED pollVars PROVE Types /\ \A q \in Pollers : Calls(q)
    BY <1>0, <2>2 DEF pollVars, PollersOK
  <2>3. ASSUME TokensLost PROVE Types /\ \A q \in Pollers : Calls(q)
    BY <1>0, <2>3 DEF TokensLost, PollersOK, Token
  <2>4. ASSUME NEW p \in Pollers, ReceiveReset(p) \/ Deliver(p) \/ PollerStops(p)
        PROVE  Types /\ \A q \in Pollers : Calls(q)
    BY <1>0, <2>4 DEF ReceiveReset, Deliver, PollerStops, PollersOK
  <2>5. ASSUME NEW p \in Pollers, Poll(p) PROVE Types /\ \A q \in Pollers : Calls(q)
    <3>1. token \in Token /\ token # "none"
      BY <1>0, <2>5 DEF Poll, Started, ProcessOK
    <3> QED BY <1>0, <2>5, <3>1 DEF Poll, PollersOK
  <2>6. ASSUME NEW p \in Pollers, PollReturns(p) PROVE Types /\ \A q \in Pollers : Calls(q)
    BY <1>0, <2>6 DEF PollReturns, PollersOK, Token
  <2>7. \/ UNCHANGED pollVars \/ TokensLost
        \/ \E p \in Pollers : \/ ReceiveReset(p) \/ Deliver(p) \/ PollerStops(p)
                              \/ Poll(p) \/ PollReturns(p)
    BY <1>2 DEF Next, ApiChanges, Signal, Restart, Connect, Setup, Register, Lead,
                ManagerFails, ManagerStops, Tick, RefreshJwt, ResetClient, RefreshStops,
                vars, memory, pollVars
  <2> HIDE DEF Types, Calls
  <2> QED BY <2>1, <2>2, <2>3, <2>4, <2>5, <2>6, <2>7
<1> QED
  BY <1>1, <1>2

(* Flags and counters keep their types. *)
LEMMA FlagsStep ==
    ASSUME TypeOK, [Next]_vars
    PROVE  FlagsOK' /\ env' \in Nat
<1>0. FlagsOK /\ env \in Nat
  BY TypeParts
<1>1. env' = env \/ env' = env + 1
  BY DEF Next, ApiChanges, TokensLost, Signal, Restart, Connect, Setup, Register, Lead,
         ManagerFails, ManagerStops, Tick, RefreshJwt, ResetClient, RefreshStops,
         ReceiveReset, Poll, PollReturns, Deliver, PollerStops, vars, EnvStep
<1>2. leading' \in {leading, TRUE, FALSE} /\ exited' \in {exited, TRUE, FALSE}
  BY DEF Next, ApiChanges, TokensLost, Signal, Restart, Connect, Setup, Register, Lead,
         ManagerFails, ManagerStops, Tick, RefreshJwt, ResetClient, RefreshStops,
         ReceiveReset, Poll, PollReturns, Deliver, PollerStops, vars, mainVars, memory, Exit
<1>3. signalled' \in {signalled, TRUE, FALSE}
  BY DEF Next, ApiChanges, TokensLost, Signal, Restart, Connect, Setup, Register, Lead,
         ManagerFails, ManagerStops, Tick, RefreshJwt, ResetClient, RefreshStops,
         ReceiveReset, Poll, PollReturns, Deliver, PollerStops, vars, mainVars
<1>4. apiUp' = apiUp \/ apiUp' = ~apiUp
  BY DEF Next, ApiChanges, TokensLost, Signal, Restart, Connect, Setup, Register, Lead,
         ManagerFails, ManagerStops, Tick, RefreshJwt, ResetClient, RefreshStops,
         ReceiveReset, Poll, PollReturns, Deliver, PollerStops, vars
<1>5. apiUp' \in BOOLEAN
  BY Zenon, <1>0, <1>4 DEF FlagsOK
<1>6. leading' \in BOOLEAN /\ exited' \in BOOLEAN /\ signalled' \in BOOLEAN
  BY Zenon, <1>0, <1>2, <1>3 DEF FlagsOK
<1>7. env' \in Nat
  BY SMT, <1>0, <1>1
<1> QED
  BY <1>5, <1>6, <1>7 DEF FlagsOK

-----------------------------------------------------------------------------
(* The type invariant is inductive.  It says that a poller only runs, and  *)
(* so only sends on the reset channel, in a process that has a token and   *)
(* in which main has started Refresh, the one that receives.               *)
THEOREM ClientTypeCorrect == Spec => []TypeOK
<1>1. Init => TypeOK
  <2> SUFFICES ASSUME Init PROVE TypeOK
    OBVIOUS
  <2>1. ProcessOK /\ PollersOK
    BY DEF Init, ProcessOK, PollersOK, Token, Stage
  <2>2. FlagsOK /\ env \in Nat
    BY DEF Init, FlagsOK
  <2> QED BY <2>1, <2>2, TypeParts
<1>2. TypeOK /\ [Next]_vars => TypeOK'
  <2> SUFFICES ASSUME TypeOK, [Next]_vars PROVE TypeOK'
    OBVIOUS
  <2> QED BY ProcessStep, PollersStep, FlagsStep DEF TypeOK, ProcessOK, FlagsOK, PollersOK
<1> QED
  BY <1>1, <1>2, PTL DEF Spec

=============================================================================
