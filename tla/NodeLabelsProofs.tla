-------------------------- MODULE NodeLabelsProofs --------------------------
(***************************************************************************)
(* That a StorageOS node never gets a reserved label that is not for       *)
(* nodes, nor a compute-only label that does not parse, and that labels in *)
(* sync stay so, for any labels and any number of changes, failing calls   *)
(* and restarts.                                                           *)
(***************************************************************************)
EXTENDS NodeLabels, TLAPS

(* TypeOK, by the variables concerned. *)
LabelsOK == labels \in Labels /\ labelsView \in Labels

ThreadsOK ==
    /\ tpc \in [Threads -> {"idle", "diff", "compute", "setCompute", "blob", "setBlob",
                           "done"}]
    /\ twant \in [Threads -> Labels]
    /\ tfresh \in [Threads -> BOOLEAN]
    /\ terr \in [Threads -> BOOLEAN]

NodeOK ==
    /\ slabels \in {l \in Labels : ~l.odd /\ l.compute # "bad"}
    /\ ~known => slabels = NoLabels

FlagsOK ==
    /\ csi \in BOOLEAN /\ csiView \in BOOLEAN /\ queued \in BOOLEAN /\ known \in BOOLEAN
    /\ env \in Nat /\ faults \in Nat

(* A thread has read the node only if StorageOS knows it: the join of the  *)
(* node between the two steps of a thread updates nothing half-read.       *)
FreshKnown == \A t \in Threads : tfresh[t] => known

IInv == TypeOK /\ FreshKnown

(* TypeOK is the conjunction of its parts. *)
LEMMA TypeParts == TypeOK <=> LabelsOK /\ ThreadsOK /\ NodeOK /\ FlagsOK
BY DEF TypeOK, LabelsOK, ThreadsOK, NodeOK, FlagsOK

(* The steps of Next, by name. *)
LEMMA NextCases ==
    ASSUME [Next]_vars
    PROVE  \/ \E l \in Labels : SetLabels(l)
           \/ RegisterCSI \/ JoinCluster \/ UpdateNode \/ NodeEvent \/ Crash
           \/ Reconcile \/ Resync \/ Diff
           \/ \E t \in Threads : \/ EnsureComputeOnly(t) \/ SetComputeOnly(t)
                                 \/ EnsureUnreservedNodeLabels(t) \/ UpdateLabels(t)
                                 \/ Done(t)
           \/ UNCHANGED vars
BY DEF Next, Step

(* The labels of Kubernetes and the informer's copy are labels. *)
LEMMA LabelsStep ==
    ASSUME LabelsOK, [Next]_vars
    PROVE  LabelsOK'
<1>1. ASSUME NEW l \in Labels, SetLabels(l) PROVE LabelsOK'
  BY <1>1 DEF SetLabels, EnvStep, viewVars, LabelsOK
<1>2. CASE RegisterCSI \/ JoinCluster \/ UpdateNode
  BY <1>2 DEF RegisterCSI, JoinCluster, UpdateNode, EnvStep, k8sVars, viewVars, LabelsOK
<1>3. CASE NodeEvent \/ Crash
  BY <1>3 DEF NodeEvent, Crash, k8sVars, LabelsOK
<1>4. CASE Reconcile \/ Resync \/ Diff
  BY <1>4 DEF Reconcile, Resync, Diff, k8sVars, viewVars, LabelsOK
<1>5. ASSUME NEW t \in Threads, \/ EnsureComputeOnly(t) \/ SetComputeOnly(t)
                                \/ EnsureUnreservedNodeLabels(t) \/ UpdateLabels(t)
                                \/ Done(t)
      PROVE  UNCHANGED <<k8sVars, viewVars>>
  BY <1>5 DEF EnsureComputeOnly, SetComputeOnly, EnsureUnreservedNodeLabels, UpdateLabels,
              Done, ReadNode, Applied, Refused
<1>6. CASE UNCHANGED vars
  BY <1>6 DEF vars, k8sVars, viewVars, LabelsOK
<1> QED
  BY <1>1, <1>2, <1>3, <1>4, <1>5, <1>6, NextCases DEF k8sVars, viewVars, LabelsOK

(* The threads keep their types. *)
LEMMA ThreadsStep ==
    ASSUME LabelsOK, ThreadsOK, [Next]_vars
    PROVE  ThreadsOK'
<1>1. ASSUME NEW l \in Labels, SetLabels(l) PROVE ThreadsOK'
  BY <1>1 DEF SetLabels, EnvStep, ThreadsOK
<1>2. CASE RegisterCSI \/ JoinCluster \/ UpdateNode
  BY <1>2 DEF RegisterCSI, JoinCluster, UpdateNode, EnvStep, NodeChanges, ThreadsOK
<1>3. CASE NodeEvent
  BY <1>3 DEF NodeEvent, threadVars, ThreadsOK
<1>4. CASE Crash
  BY <1>4, ConstantsAssumption DEF Crash, ThreadsOK, NoLabels, Labels
<1>5. ASSUME NEW t \in Threads, NEW l \in Labels, EnsureNodeLabels(t, l), UNCHANGED tfresh
      PROVE  ThreadsOK'
  <2>1. (l.odd \/ l.compute = "bad") \in BOOLEAN
    BY Zenon
  <2> QED BY <1>5, <2>1 DEF EnsureNodeLabels, Goto, ThreadsOK
<1>6. CASE Reconcile \/ Resync \/ Diff
  <2>0. "worker" \in Threads /\ "resync" \in Threads
    BY DEF Threads
  <2>1. CASE Reconcile
    BY <1>5, <2>0, <2>1 DEF Reconcile, LabelsOK
  <2>2. CASE Resync
    BY <2>0, <2>2 DEF Resync, Goto, LabelsOK, ThreadsOK
  <2>3. CASE Diff
    <3>1. twant["resync"] \in Labels /\ UNCHANGED tfresh
      BY <2>0, <2>3 DEF Diff, ThreadsOK
    <3>2. CASE EnsureNodeLabels("resync", twant["resync"])
      BY <1>5, <2>0, <3>1, <3>2
    <3>3. CASE /\ Goto("resync", "idle") /\ UNCHANGED terr
               /\ twant' = [twant EXCEPT !["resync"] = NoLabels]
      BY <2>0, <3>1, <3>3, ConstantsAssumption DEF Goto, ThreadsOK, NoLabels, Labels
    <3> QED BY <2>3, <3>2, <3>3 DEF Diff
  <2> QED BY <1>6, <2>1, <2>2, <2>3
<1>7. ASSUME NEW t \in Threads, EnsureComputeOnly(t) \/ EnsureUnreservedNodeLabels(t)
      PROVE  ThreadsOK'
  BY <1>7 DEF EnsureComputeOnly, EnsureUnreservedNodeLabels, ReadNode, Goto, ThreadsOK
<1>8. ASSUME NEW t \in Threads, SetComputeOnly(t) \/ UpdateLabels(t) PROVE ThreadsOK'
  BY <1>8 DEF SetComputeOnly, UpdateLabels, Applied, Refused, NodeChanges, Goto, ThreadsOK
<1>9. ASSUME NEW t \in Threads, Done(t) PROVE ThreadsOK'
  BY <1>9, ConstantsAssumption DEF Done, Goto, ThreadsOK, NoLabels, Labels
<1>10. CASE UNCHANGED vars
  BY <1>10 DEF vars, threadVars, ThreadsOK
<1> QED
  BY <1>1, <1>2, <1>3, <1>4, <1>6, <1>7, <1>8, <1>9, <1>10, NextCases

(* Only what the code accepts gets to a node, and only to one that is      *)
(* known.                                                                  *)
LEMMA NodeStep ==
    ASSUME ThreadsOK, NodeOK, FreshKnown, known \in BOOLEAN, [Next]_vars
    PROVE  NodeOK' /\ (known => known')
<1> DEFINE Goal == NodeOK' /\ (known => known')
<1>1. ASSUME NEW l \in Labels, SetLabels(l) PROVE Goal
  BY <1>1 DEF SetLabels, stosVars, NodeOK
<1>2. ASSUME RegisterCSI \/ JoinCluster \/ UpdateNode PROVE Goal
  BY <1>2 DEF RegisterCSI, JoinCluster, UpdateNode, stosVars, NodeOK
<1>3. ASSUME NodeEvent \/ Crash \/ Reconcile \/ Resync \/ Diff PROVE Goal
  BY <1>3 DEF NodeEvent, Crash, Reconcile, Resync, Diff, stosVars, NodeOK
<1>4. ASSUME NEW t \in Threads,
             EnsureComputeOnly(t) \/ EnsureUnreservedNodeLabels(t) \/ Done(t)
      PROVE  Goal
  BY <1>4 DEF EnsureComputeOnly, EnsureUnreservedNodeLabels, ReadNode, Done, stosVars, NodeOK
<1>5. ASSUME NEW t \in Threads, NEW next, NEW why, Refused(t, why, next) PROVE Goal
  BY <1>5 DEF Refused, stosVars, NodeOK
<1>6. ASSUME NEW t \in Threads, NEW next, NEW l, Applied(t, l, next),
             l \in Labels /\ ~l.odd /\ l.compute # "bad"
      PROVE  Goal
  BY <1>6 DEF Applied, FreshKnown, NodeOK
<1>7. ASSUME NEW t \in Threads, SetComputeOnly(t) PROVE Goal
  <2>1. ASSUME NEW c \in {"true", "false", "unset"}
        PROVE  LET l == [slabels EXCEPT !.compute = c]
               IN  l \in Labels /\ ~l.odd /\ l.compute # "bad"
    BY DEF NodeOK, Labels
  <2> QED BY <1>5, <1>6, <1>7, <2>1 DEF SetComputeOnly
<1>8. ASSUME NEW t \in Threads, UpdateLabels(t) PROVE Goal
  <2>1. LET l == [slabels EXCEPT !.blob = twant[t].blob]
        IN  l \in Labels /\ ~l.odd /\ l.compute # "bad"
    <3>1. twant[t].blob \in Blobs
      BY DEF ThreadsOK, Labels
    <3> QED BY <3>1 DEF NodeOK, Labels
  <2> QED BY <1>5, <1>6, <1>8, <2>1 DEF UpdateLabels
<1>9. ASSUME UNCHANGED vars PROVE Goal
  BY <1>9 DEF vars, stosVars, NodeOK
<1> HIDE DEF Goal
<1>10. Goal
  BY <1>1, <1>2, <1>3, <1>4, <1>7, <1>8, <1>9, NextCases
<1> QED
  BY <1>10 DEF Goal

(* A node is read only when it is known. *)
LEMMA FreshStep ==
    ASSUME IInv, [Next]_vars
    PROVE  FreshKnown'
<1>0. ThreadsOK /\ NodeOK /\ FreshKnown /\ known \in BOOLEAN
  BY TypeParts DEF IInv, FlagsOK
<1>1. known => known'
  BY <1>0, NodeStep
<1> DEFINE Kept == \A u \in Threads : tfresh'[u] => tfresh[u] \/ known
<1>2. ASSUME UNCHANGED tfresh PROVE Kept
  BY <1>2
<1>3. ASSUME UpdateNode \/ Crash PROVE Kept
  BY <1>3 DEF UpdateNode, Crash, NodeChanges
<1>4. ASSUME NEW t \in Threads, EnsureComputeOnly(t) \/ EnsureUnreservedNodeLabels(t)
      PROVE  Kept
  BY <1>0, <1>4 DEF EnsureComputeOnly, EnsureUnreservedNodeLabels, ReadNode, ThreadsOK
<1>5. ASSUME NEW t \in Threads, SetComputeOnly(t) \/ UpdateLabels(t) PROVE Kept
  BY <1>0, <1>5 DEF SetComputeOnly, UpdateLabels, Applied, Refused, NodeChanges, ThreadsOK
<1>6. \/ UNCHANGED tfresh \/ UpdateNode \/ Crash
      \/ \E t \in Threads : \/ EnsureComputeOnly(t) \/ EnsureUnreservedNodeLabels(t)
                            \/ SetComputeOnly(t) \/ UpdateLabels(t)
  BY NextCases DEF SetLabels, RegisterCSI, JoinCluster, NodeEvent, Reconcile, Resync,
                   Diff, Done, vars, threadVars
<1> HIDE DEF Kept
<1>7. Kept
  BY <1>2, <1>3, <1>4, <1>5, <1>6
<1> QED
  BY <1>0, <1>1, <1>7 DEF Kept, FreshKnown

(* Flags and counters keep their types. *)
LEMMA FlagsStep ==
    ASSUME FlagsOK, [Next]_vars
    PROVE  FlagsOK'
<1>1. env' = env \/ env' = env + 1
  BY DEF Next, SetLabels, RegisterCSI, JoinCluster, UpdateNode, EnvStep, NodeEvent,
         Reconcile, Resync, Diff, Step, EnsureComputeOnly, SetComputeOnly,
         EnsureUnreservedNodeLabels, UpdateLabels, Done, ReadNode, Applied, Refused, Crash,
         vars
<1>2. faults' = faults \/ faults' = faults + 1
  BY DEF Next, SetLabels, RegisterCSI, JoinCluster, UpdateNode, EnvStep, NodeEvent,
         Reconcile, Resync, Diff, Step, EnsureComputeOnly, SetComputeOnly,
         EnsureUnreservedNodeLabels, UpdateLabels, Done, ReadNode, Applied, Refused, Crash,
         vars, Fault, NoFault
<1>3. csi' \in {csi, TRUE} /\ csiView' \in {csiView, csi}
  BY DEF Next, SetLabels, RegisterCSI, JoinCluster, UpdateNode, EnvStep, NodeEvent,
         Reconcile, Resync, Diff, Step, EnsureComputeOnly, SetComputeOnly,
         EnsureUnreservedNodeLabels, UpdateLabels, Done, ReadNode, Applied, Refused, Crash,
         vars, k8sVars, viewVars
<1>4. known' \in {known, TRUE}
  BY DEF Next, SetLabels, RegisterCSI, JoinCluster, UpdateNode, NodeEvent,
         Reconcile, Resync, Diff, Step, EnsureComputeOnly, SetComputeOnly,
         EnsureUnreservedNodeLabels, UpdateLabels, Done, ReadNode, Applied, Refused, Crash,
         vars, stosVars
<1>5. queued' = queued \/ queued' \in BOOLEAN
  <2>1. CASE NodeEvent \/ Crash \/ Reconcile \/ \E t \in Threads : Done(t)
    BY <2>1 DEF NodeEvent, Crash, Reconcile, Done
  <2>2. CASE UNCHANGED queued
    BY <2>2
  <2>3. \/ NodeEvent \/ Crash \/ Reconcile \/ \E t \in Threads : Done(t)
        \/ UNCHANGED queued
    BY DEF Next, SetLabels, RegisterCSI, JoinCluster, UpdateNode, EnvStep, Resync, Diff, Step,
           EnsureComputeOnly, SetComputeOnly, EnsureUnreservedNodeLabels, UpdateLabels,
           ReadNode, Applied, Refused, vars
  <2> QED BY <2>1, <2>2, <2>3
<1>6. env' \in Nat /\ faults' \in Nat
  BY SMT, <1>1, <1>2 DEF FlagsOK
<1>7. csi' \in BOOLEAN /\ csiView' \in BOOLEAN /\ known' \in BOOLEAN /\ queued' \in BOOLEAN
  BY Zenon, <1>3, <1>4, <1>5 DEF FlagsOK
<1> QED
  BY <1>6, <1>7 DEF FlagsOK

-----------------------------------------------------------------------------
(* The inductive invariant: the types, and that a thread has read the node *)
(* only if StorageOS knows it.                                             *)
THEOREM NodeLabelsInductive == Spec => []IInv
<1>1. Init => IInv
  <2> SUFFICES ASSUME Init PROVE IInv
    OBVIOUS
  <2>1. NoLabels \in Labels /\ ~NoLabels.odd /\ NoLabels.compute # "bad"
    BY ConstantsAssumption DEF NoLabels, Labels
  <2>2. LabelsOK /\ NodeOK
    BY <2>1 DEF Init, LabelsOK, NodeOK
  <2>3. ThreadsOK /\ FreshKnown
    BY <2>1 DEF Init, ThreadsOK, FreshKnown
  <2>4. FlagsOK
    BY DEF Init, FlagsOK
  <2> QED BY <2>2, <2>3, <2>4, TypeParts DEF IInv
<1>2. IInv /\ [Next]_vars => IInv'
  <2> SUFFICES ASSUME IInv, [Next]_vars PROVE IInv'
    OBVIOUS
  <2>1. LabelsOK /\ ThreadsOK /\ NodeOK /\ FlagsOK /\ FreshKnown /\ known \in BOOLEAN
    BY TypeParts DEF IInv, FlagsOK
  <2>2. TypeOK'
    BY <2>1, LabelsStep, ThreadsStep, NodeStep, FlagsStep
       DEF TypeOK, LabelsOK, ThreadsOK, NodeOK, FlagsOK
  <2> QED BY <2>2, FreshStep DEF IInv
<1> QED
  BY <1>1, <1>2, PTL DEF Spec

(* Whatever labels users set, and however worker and resync interleave,    *)
(* EnsureNodeLabels puts no reserved label that is not for nodes and no    *)
(* bad compute-only label on a StorageOS node, and nothing on an unknown   *)
(* one.                                                                    *)
THEOREM NodeLabelsTypeCorrect == Spec => []TypeOK
BY NodeLabelsInductive, PTL DEF IInv

-----------------------------------------------------------------------------
(* Labels in sync stay in sync.                                            *)

(* As long as the labels stay, nobody gets hold of other ones. *)
LEMMA CaughtUpStep ==
    ASSUME LabelsOK, ThreadsOK, CaughtUp, [Next]_vars, labels' = labels
    PROVE  CaughtUp'
<1>1. ASSUME UNCHANGED <<labelsView, tpc, twant>> PROVE CaughtUp'
  BY <1>1 DEF CaughtUp
<1>2. CASE \/ \E l \in Labels : SetLabels(l)
           \/ RegisterCSI \/ JoinCluster \/ UpdateNode \/ UNCHANGED vars
  BY <1>1, <1>2 DEF SetLabels, RegisterCSI, JoinCluster, UpdateNode, EnvStep, vars,
                    viewVars, threadVars
<1>3. CASE NodeEvent
  BY <1>3 DEF NodeEvent, threadVars, CaughtUp
<1>4. CASE Crash
  BY <1>4 DEF Crash, CaughtUp
<1>5. ASSUME NEW t \in Threads, NEW pc, Goto(t, pc), UNCHANGED viewVars,
             twant' = [twant EXCEPT ![t] = labels]
      PROVE  CaughtUp'
  BY <1>5 DEF Goto, viewVars, CaughtUp, ThreadsOK
<1>6. ASSUME NEW t \in Threads, NEW pc, UNCHANGED <<viewVars, twant>>, Goto(t, pc),
             tpc[t] # "idle"
      PROVE  CaughtUp'
  BY <1>6 DEF Goto, viewVars, CaughtUp, ThreadsOK
<1>7. ASSUME NEW t \in Threads, EnsureComputeOnly(t) \/ EnsureUnreservedNodeLabels(t)
      PROVE  CaughtUp'
  BY <1>6, <1>7 DEF EnsureComputeOnly, EnsureUnreservedNodeLabels, ReadNode
<1>8. ASSUME NEW t \in Threads, SetComputeOnly(t) \/ UpdateLabels(t) PROVE CaughtUp'
  BY <1>6, <1>8 DEF SetComputeOnly, UpdateLabels, Applied, Refused
<1>9. ASSUME NEW t \in Threads, Done(t) PROVE CaughtUp'
  BY <1>9 DEF Done, Goto, viewVars, CaughtUp, ThreadsOK
<1>10. labelsView = labels /\ "worker" \in Threads /\ "resync" \in Threads
  BY DEF CaughtUp, Threads
<1>11. CASE Reconcile \/ Resync
  BY <1>5, <1>10, <1>11 DEF Reconcile, Resync, EnsureNodeLabels
<1>12. CASE Diff
  <2>1. tpc["resync"] = "diff" /\ twant["resync"] = labels /\ UNCHANGED viewVars
    BY <1>10, <1>12 DEF Diff, CaughtUp
  <2>2. CASE EnsureNodeLabels("resync", twant["resync"])
    BY <1>5, <1>10, <2>1, <2>2 DEF EnsureNodeLabels
  <2>3. CASE /\ Goto("resync", "idle")
             /\ twant' = [twant EXCEPT !["resync"] = NoLabels]
    BY <1>10, <2>1, <2>3 DEF Goto, viewVars, CaughtUp, ThreadsOK
  <2> QED BY <1>12, <2>2, <2>3 DEF Diff
<1> QED
  BY <1>2, <1>3, <1>4, <1>7, <1>8, <1>9, <1>11, <1>12, NextCases

(* The updates of EnsureNodeLabels make their own kind of labels agree,    *)
(* and leave the other kind alone.                                         *)
LEMMA AgreementStep ==
    ASSUME LabelsOK, ThreadsOK, NodeOK, CaughtUp, [Next]_vars, labels' = labels
    PROVE  /\ ComputeAgrees => ComputeAgrees'
           /\ BlobAgrees => BlobAgrees'
<1> DEFINE Goal == /\ ComputeAgrees => ComputeAgrees'
                   /\ BlobAgrees => BlobAgrees'
<1>0. slabels \in Labels
  BY DEF NodeOK
<1>1. ASSUME UNCHANGED slabels PROVE Goal
  BY <1>1 DEF ComputeAgrees, BlobAgrees
<1>2. ASSUME NEW t \in Threads, SetComputeOnly(t), slabels' # slabels PROVE Goal
  <2>1. tpc[t] = "setCompute" /\ twant[t] = labels
    BY <1>2 DEF SetComputeOnly, CaughtUp
  <2>2. PICK c \in {"true", "false", "unset"} :
            /\ c = "true" <=> labels.compute = "true"
            /\ slabels' = [slabels EXCEPT !.compute = c]
    BY <1>2, <2>1 DEF SetComputeOnly, Applied, Refused, stosVars
  <2>3. slabels'.compute = c /\ slabels'.blob = slabels.blob
    BY <1>0, <2>2 DEF Labels
  <2> QED
    BY <2>2, <2>3 DEF ComputeAgrees, BlobAgrees
<1>3. ASSUME NEW t \in Threads, UpdateLabels(t), slabels' # slabels PROVE Goal
  <2>1. tpc[t] = "setBlob" /\ twant[t] = labels
    BY <1>3 DEF UpdateLabels, CaughtUp
  <2>2. slabels' = [slabels EXCEPT !.blob = labels.blob]
    BY <1>3, <2>1 DEF UpdateLabels, Applied, Refused, stosVars
  <2>3. slabels'.compute = slabels.compute /\ slabels'.blob = labels.blob
    BY <1>0, <2>2 DEF Labels
  <2> QED
    BY <2>3 DEF ComputeAgrees, BlobAgrees
<1>4. \/ UNCHANGED slabels
      \/ \E t \in Threads : SetComputeOnly(t) \/ UpdateLabels(t)
  BY NextCases DEF SetLabels, RegisterCSI, JoinCluster, UpdateNode, NodeEvent, Crash,
                   Reconcile, Resync, Diff, EnsureComputeOnly,
                   EnsureUnreservedNodeLabels, ReadNode, Done, vars, stosVars
<1> HIDE DEF Goal
<1>5. Goal
  BY <1>1, <1>2, <1>3, <1>4
<1> QED
  BY <1>5 DEF Goal

(* Once informer, worker and resync have caught up with the labels of the  *)
(* node, EnsureNodeLabels undoes nothing that is in sync, whatever values  *)
(* the labels have and whatever fails: what TLC shows to be reached in the *)
(* end (ComputeOnlySynced, UnreservedSynced) is kept from then on.         *)
THEOREM SyncedStays == Spec => SyncStays
<1> DEFINE Stays == CaughtUp /\ labels' = labels =>
                        /\ CaughtUp'
                        /\ ComputeAgrees => ComputeAgrees'
                        /\ BlobAgrees => BlobAgrees'
<1>1. IInv /\ [Next]_vars => [Stays]_vars
  <2> SUFFICES ASSUME IInv, [Next]_vars, CaughtUp, labels' = labels
               PROVE  /\ CaughtUp'
                      /\ ComputeAgrees => ComputeAgrees'
                      /\ BlobAgrees => BlobAgrees'
    OBVIOUS
  <2>1. LabelsOK /\ ThreadsOK /\ NodeOK
    BY TypeParts DEF IInv
  <2> QED
    BY <2>1, CaughtUpStep, AgreementStep
<1>2. SyncStays <=> [][Stays]_vars
  BY DEF SyncStays
<1> QED
  BY NodeLabelsInductive, <1>1, <1>2, PTL DEF Spec

=============================================================================
