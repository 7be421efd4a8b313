----------------------------- MODULE NodeLabels -----------------------------
(***************************************************************************)
(* The sync of the labels of a Kubernetes node to the StorageOS node of    *)
(* the same name: controllers/node-label, the metadata-sync reconciler it  *)
(* runs on, and EnsureNodeLabels of internal/pkg/storageos.                *)
(*                                                                         *)
(* Two threads may be at work on the one node: a worker, for a request of  *)
(* the queue, and the periodic resync.  Both take the labels from the      *)
(* informer, the resync before it asks StorageOS whether they differ, and  *)
(* apply them in two independent steps, each of which reads the StorageOS  *)
(* node again and updates it at the version read.                          *)
(***************************************************************************)
EXTENDS Naturals

CONSTANTS
    Blobs,       \* values of the unreserved labels as a whole
    Blob0,       \* the one with no label
    MaxEnv,      \* bound on the changes by users, Kubernetes and StorageOS
    MaxFaults    \* bound on failing calls and crashes

ASSUME ConstantsAssumption ==
    /\ Blob0 \in Blobs
    /\ MaxEnv \in Nat
    /\ MaxFaults \in Nat

(* compute: the compute-only label ("bad" is no boolean); odd: some        *)
(* reserved label that nodes do not have.                                  *)
Labels == [blob : Blobs, compute : {"unset", "true", "false", "bad"}, odd : BOOLEAN]
NoLabels == [blob |-> Blob0, compute |-> "unset", odd |-> FALSE]

Threads == {"worker", "resync"}

VARIABLES
    \* Kubernetes: the labels, and whether the CSI driver is registered
    labels, csi,
    \* what the informer has of them, and the work queue
    labelsView, csiView, queued,
    \* StorageOS: whether it knows the node, and its labels
    known, slabels,
    \* the threads: the labels to apply; whether the node is as it was read;
    \* whether there was an error
    tpc, twant, tfresh, terr,
    env, faults

k8sVars    == <<labels, csi>>
viewVars   == <<labelsView, csiView>>
stosVars   == <<known, slabels>>
threadVars == <<tpc, twant, tfresh, terr>>
vars == <<k8sVars, viewVars, queued, stosVars, threadVars, env, faults>>

(* The type of every variable; a node that StorageOS does not know has no  *)
(* labels, and reserved ones that are not for nodes never get there.       *)
TypeOK ==
    /\ labels \in Labels /\ csi \in BOOLEAN
    /\ labelsView \in Labels /\ csiView \in BOOLEAN
    /\ queued \in BOOLEAN
    /\ known \in BOOLEAN
    /\ slabels \in {l \in Labels : ~l.odd /\ l.compute # "bad"}
    /\ ~known => slabels = NoLabels
    /\ tpc \in [Threads -> {"idle", "diff", "compute", "setCompute", "blob", "setBlob",
                           "done"}]
    /\ twant \in [Threads -> Labels]
    /\ tfresh \in [Threads -> BOOLEAN]
    /\ terr \in [Threads -> BOOLEAN]
    /\ env \in Nat /\ faults \in Nat

Init ==
    /\ labels = NoLabels /\ csi = FALSE
    /\ labelsView = labels /\ csiView = csi
    /\ queued = FALSE
    /\ known = FALSE /\ slabels = NoLabels
    /\ tpc = [t \in Threads |-> "idle"]
    /\ twant = [t \in Threads |-> NoLabels]
    /\ tfresh = [t \in Threads |-> FALSE]
    /\ terr = [t \in Threads |-> FALSE]
    /\ env = 0 /\ faults = 0

-----------------------------------------------------------------------------
(* Users, Kubernetes and StorageOS.                                        *)

EnvStep ==
    /\ env < MaxEnv
    /\ env' = env + 1
    /\ UNCHANGED <<viewVars, queued, tpc, twant, terr, faults>>

SetLabels(l) ==
    /\ EnvStep
    /\ l # labels
    /\ labels' = l
    /\ UNCHANGED <<csi, stosVars, tfresh>>

(* The node starts running StorageOS: its driver is registered with the    *)
(* kubelet and it joins the StorageOS cluster, in either order.            *)
RegisterCSI ==
    /\ EnvStep
    /\ ~csi
    /\ csi' = TRUE
    /\ UNCHANGED <<labels, stosVars, tfresh>>

JoinCluster ==
    /\ EnvStep
    /\ ~known
    /\ known' = TRUE
    /\ UNCHANGED <<k8sVars, slabels, tfresh>>

NodeChanges == tfresh' = [t \in Threads |-> FALSE]

(* The StorageOS node changes otherwise: its version moves on. *)
UpdateNode ==
    /\ EnvStep
    /\ \E t \in Threads : tfresh[t]
    /\ NodeChanges
    /\ UNCHANGED <<k8sVars, stosVars>>

(* An update event, let through by the predicate when the driver was just  *)
(* registered or the labels differ.                                        *)
NodeEvent ==
    /\ <<labelsView, csiView>> # <<labels, csi>>
    /\ labelsView' = labels
    /\ csiView' = csi
    /\ queued' = (queued \/ (csi /\ (~csiView \/ labels # labelsView)))
    /\ UNCHANGED <<k8sVars, stosVars, threadVars, env, faults>>

-----------------------------------------------------------------------------
(* The worker and the resync.                                              *)

Fault == faults < MaxFaults /\ faults' = faults + 1
NoFault == UNCHANGED faults

Goto(t, pc) == tpc' = [tpc EXCEPT ![t] = pc]

(* EnsureNodeLabels: errors in the labels are kept for the end. *)
EnsureNodeLabels(t, l) ==
    /\ Goto(t, "compute")
    /\ twant' = [twant EXCEPT ![t] = l]
    /\ terr' = [terr EXCEPT ![t] = l.odd \/ l.compute = "bad"]

Reconcile ==
    /\ queued
    /\ tpc["worker"] = "idle"
    /\ queued' = FALSE
    /\ EnsureNodeLabels("worker", labelsView)
    /\ UNCHANGED <<k8sVars, viewVars, stosVars, tfresh, env, faults>>

(* Mutant: no resync. *)
M_Resync == FALSE

(* The resync lists the nodes of the informer. *)
Resync ==
    /\ tpc["resync"] = "idle"
    /\ Goto("resync", "diff")
    /\ twant' = [twant EXCEPT !["resync"] = labelsView]
    /\ UNCHANGED <<k8sVars, viewVars, queued, stosVars, tfresh, terr, env, faults>>

(* Then the nodes of StorageOS: the labels are ensured if the node is      *)
(* known, and its labels, all of them, differ.                             *)
Diff ==
    /\ tpc["resync"] = "diff"
    /\ \/ /\ known /\ slabels # twant["resync"]
          /\ NoFault
          /\ EnsureNodeLabels("resync", twant["resync"])
       \/ /\ ((~known \/ slabels = twant["resync"]) /\ NoFault) \/ Fault
          /\ Goto("resync", "idle")
          /\ twant' = [twant EXCEPT !["resync"] = NoLabels]
          /\ UNCHANGED terr
    /\ UNCHANGED <<k8sVars, viewVars, queued, stosVars, tfresh, env>>

(* A thread reads the node: there is nothing to do (the node is unknown,   *)
(* or as wanted), or it is to be updated at this version, or the call      *)
(* fails.                                                                  *)
ReadNode(t, ok, update, next) ==
    /\ \/ /\ NoFault
          /\ IF ~known \/ ok
               THEN Goto(t, next) /\ UNCHANGED tfresh
               ELSE Goto(t, update) /\ tfresh' = [tfresh EXCEPT ![t] = TRUE]
          /\ UNCHANGED terr
       \/ /\ Fault
          /\ Goto(t, next)
          /\ terr' = [terr EXCEPT ![t] = TRUE]
          /\ UNCHANGED tfresh
    /\ UNCHANGED <<k8sVars, viewVars, queued, stosVars, twant, env>>

(* The update is made, or the API refuses it. *)
Applied(t, l, next) ==
    /\ tfresh[t]
    /\ NoFault
    /\ slabels' = l
    /\ NodeChanges
    /\ Goto(t, next)
    /\ UNCHANGED <<k8sVars, viewVars, queued, known, twant, terr, env>>

Refused(t, why, next) ==
    /\ ((~tfresh[t] \/ why) /\ NoFault) \/ Fault
    /\ terr' = [terr EXCEPT ![t] = TRUE]
    /\ tfresh' = [tfresh EXCEPT ![t] = FALSE]
    /\ Goto(t, next)
    /\ UNCHANGED <<k8sVars, viewVars, queued, stosVars, twant, env>>

(* Mutant: a node without the label is left as it is. *)
M_EnsureComputeOnly(t) ==
    /\ tpc[t] = "compute"
    /\ ReadNode(t, \/ twant[t].compute = "unset"
                   \/ (twant[t].compute = "true") = (slabels.compute = "true"),
                "setCompute", "blob")

(* An unset or bad label means false. *)
EnsureComputeOnly(t) ==
    /\ tpc[t] = "compute"
    /\ ReadNode(t, (twant[t].compute = "true") = (slabels.compute = "true"),
                "setCompute", "blob")

(* Mutant: the label is passed on as it is. *)
M_SetComputeOnly(t) ==
    /\ tpc[t] = "setCompute"
    /\ \/ Applied(t, [slabels EXCEPT !.compute = twant[t].compute], "blob")
       \/ Refused(t, FALSE, "blob")

(* Compute-only switched off leaves the label false, or none. *)
SetComputeOnly(t) ==
    /\ tpc[t] = "setCompute"
    /\ \/ \E c \in IF twant[t].compute = "true" THEN {"true"} ELSE {"false", "unset"} :
             Applied(t, [slabels EXCEPT !.compute = c], "blob")
       \/ Refused(t, FALSE, "blob")

EnsureUnreservedNodeLabels(t) ==
    /\ tpc[t] = "blob"
    /\ ReadNode(t, slabels.blob = twant[t].blob, "setBlob", "done")

(* Mutant: the update takes the place of all labels. *)
M_UpdateLabels(t) ==
    /\ tpc[t] = "setBlob"
    /\ \/ Applied(t, [NoLabels EXCEPT !.blob = twant[t].blob], "done")
       \/ Refused(t, FALSE, "done")

(* The update holds the unreserved labels alone: the API refuses it when   *)
(* the node has a reserved one.                                            *)
UpdateLabels(t) ==
    /\ tpc[t] = "setBlob"
    /\ \/ /\ slabels.compute = "unset"
          /\ Applied(t, [slabels EXCEPT !.blob = twant[t].blob], "done")
       \/ Refused(t, slabels.compute # "unset", "done")

(* An error puts the worker's request back into the queue. *)
Done(t) ==
    /\ tpc[t] = "done"
    /\ Goto(t, "idle")
    /\ queued' = (queued \/ (t = "worker" /\ terr[t]))
    /\ twant' = [twant EXCEPT ![t] = NoLabels]
    /\ terr' = [terr EXCEPT ![t] = FALSE]
    /\ UNCHANGED <<k8sVars, viewVars, stosVars, tfresh, env, faults>>

(* The process restarts: the informer lists the node anew, and the         *)
(* predicate ignores that.                                                 *)
Crash ==
    /\ Fault
    /\ labelsView' = labels
    /\ csiView' = csi
    /\ queued' = FALSE
    /\ tpc' = [t \in Threads |-> "idle"]
    /\ twant' = [t \in Threads |-> NoLabels]
    /\ tfresh' = [t \in Threads |-> FALSE]
    /\ terr' = [t \in Threads |-> FALSE]
    /\ UNCHANGED <<k8sVars, stosVars, env>>

Step(t) ==
    \/ EnsureComputeOnly(t) \/ SetComputeOnly(t)
    \/ EnsureUnreservedNodeLabels(t) \/ UpdateLabels(t) \/ Done(t)

Next ==
    \/ \E l \in Labels : SetLabels(l)
    \/ RegisterCSI \/ JoinCluster \/ UpdateNode \/ NodeEvent
    \/ Reconcile \/ Resync \/ Diff
    \/ \E t \in Threads : Step(t)
    \/ Crash

(* Informer, queue, resync timer and threads get their turn. *)
Fairness ==
    /\ WF_vars(NodeEvent) /\ WF_vars(Reconcile)
    /\ WF_vars(Resync) /\ WF_vars(Diff)
    /\ \A t \in Threads : WF_vars(Step(t))

Spec == Init /\ [][Next]_vars
FairSpec == Spec /\ Fairness

-----------------------------------------------------------------------------
(* Properties.                                                             *)

(* The compute-only behaviour of a known node ends up as its label says,   *)
(* unset or bad meaning false, whatever events were missed and whatever    *)
(* worker and resync wrote over each other.                                *)
ComputeOnlySynced ==
    <>[](known => (slabels.compute = "true") = (labels.compute = "true"))

(* The same for the unreserved labels, of nodes that have no compute-only  *)
(* label in StorageOS.                                                     *)
UnreservedSynced ==
    <>[](known /\ slabels.compute = "unset" => slabels.blob = labels.blob)

(* Informer and threads have no labels but the present ones. *)
CaughtUp ==
    /\ labelsView = labels
    /\ \A t \in Threads : tpc[t] # "idle" => twant[t] = labels

ComputeAgrees == (slabels.compute = "true") = (labels.compute = "true")
BlobAgrees == slabels.blob = labels.blob

(* What is in sync stays in sync once informer, worker and resync have     *)
(* caught up with the labels, until these change: no update of theirs      *)
(* undoes what another one made, nor does a restart, whichever of the two  *)
(* kinds of labels it is about (EnsureNodeLabels makes two updates).       *)
SyncStays ==
    [][CaughtUp /\ labels' = labels =>
          /\ CaughtUp'
          /\ ComputeAgrees => ComputeAgrees'
          /\ BlobAgrees => BlobAgrees']_vars

(* "the whole set of labels will be retried until they all succeed": the   *)
(* same for all nodes.                                                     *)
AllUnreservedSynced == <>[](known => slabels.blob = labels.blob)

=============================================================================
