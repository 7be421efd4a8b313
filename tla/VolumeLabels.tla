---------------------------- MODULE VolumeLabels ----------------------------
(***************************************************************************)
(* The sync of the labels of a PVC to its StorageOS volume:                *)
(* controllers/pvc-label, the metadata-sync reconciler it runs on,         *)
(* EnsureVolumeLabels of internal/pkg/storageos and the StorageClass       *)
(* checks of internal/pkg/provisioner.                                     *)
(*                                                                         *)
(* One PVC is provisioned and bound while its labels are edited and its    *)
(* StorageClass is re-created.  A worker applies the labels, overlaid on   *)
(* the defaults of the StorageClass, in three independent steps: replicas, *)
(* failure mode and unreserved labels, each of which reads the volume      *)
(* again and updates it at the version read.                               *)
(***************************************************************************)
EXTENDS Naturals, Sequences, TLC

CONSTANTS
    None,        \* a model value: nothing there
    Blobs,       \* values of the unreserved labels as a whole
    MaxEnv,      \* bound on the changes by users and StorageOS
    MaxFaults    \* bound on failing calls and restarts

(* The labels of a PVC: "unset" for one it does not have, "bad" for a      *)
(* value that does not parse, "many" for a number of replicas that parses  *)
(* (ParseUint takes 64 bits) and that StorageOS refuses; fixed: it has     *)
(* nocache or nocompress.                                                  *)
Labels == [blob : Blobs, replicas : {"unset", "1", "many", "bad"},
           mode : {"unset", "soft", "bad"}, fixed : BOOLEAN]

(* The labels of a volume that the sync is about. *)
Volumes == [blob : Blobs, replicas : {"0", "1"}, mode : {"unset", "soft", "hard"}]

ASSUME ConstantsAssumption ==
    /\ Blobs # {}
    /\ None \notin Labels \cup Volumes
    /\ MaxEnv \in Nat
    /\ MaxFaults \in Nat

VARIABLES
    \* Kubernetes: labels of the PVC, the UID of the StorageClass in its
    \* annotation (0: none) and its phase; the replicas parameter of each
    \* StorageClass there has been, where the UID is the index, and how many of
    \* them have a creation time (in seconds) that is not after the PVC's
    labels, annotation, phase, classes, early,
    \* the StorageClass that the manager's cache has
    cachedClass,
    \* what the informer has of the PVC; whether it has a label change to
    \* report; the work queue
    view, changed, queued,
    \* StorageOS: the volume, None before it is provisioned
    volume,
    \* the worker: the StorageClass to annotate the PVC with; the labels to
    \* apply; whether the volume is as it was read; whether there was an error
    wpc, wuid, wwant, wfresh, werr,
    \* history: the PVC had a replicas label; the StorageClass that the volume
    \* was provisioned with, and the one in the cache then (0: none yet); the
    \* process was restarted
    asked, made, held, crashed,
    env, faults

pvc        == <<labels, annotation, phase>>
classVars  == <<classes, early, cachedClass>>
viewVars   == <<view, changed, queued>>
workerVars == <<wpc, wuid, wwant, wfresh, werr>>
histVars   == <<asked, made, held, crashed>>
vars == <<pvc, classVars, viewVars, volume, workerVars, histVars, env, faults>>

(* The type of every variable; a bound PVC has a volume, the worker only   *)
(* updates labels of one, and it has labels exactly while it is at work.   *)
TypeOK ==
    /\ labels \in Labels
    /\ annotation \in 0..Len(classes)
    /\ phase \in {"pending", "provisioned", "bound"}
    /\ classes \in Seq({"unset", "1"}) /\ early \in 1..Len(classes)
    /\ cachedClass \in 1..Len(classes)
    /\ made \in 0..Len(classes) /\ (made = 0 <=> phase = "pending")
    /\ held \in 0..made /\ (held = 0 <=> phase = "pending")
    /\ view \in Labels \X Nat \X {"pending", "provisioned", "bound"}
    /\ changed \in BOOLEAN /\ queued \in BOOLEAN
    /\ IF phase = "pending" THEN volume = None ELSE volume \in Volumes
    /\ wpc \in {"idle", "annotate", "replicas", "setReplicas", "mode", "setMode",
                "blob", "setBlob", "done"}
    /\ wpc \in {"replicas", "setReplicas", "mode", "setMode", "blob", "setBlob"}
         => phase = "bound"
    /\ wuid \in 0..Len(classes)
    /\ wuid # 0 <=> wpc = "annotate"
    /\ wwant \in Labels \cup {None}
    /\ wpc \in {"idle", "done"} => wwant = None
    /\ wwant = None => wpc \in {"idle", "annotate", "done"}
    /\ wfresh \in BOOLEAN /\ werr \in BOOLEAN /\ asked \in BOOLEAN
    /\ crashed \in BOOLEAN
    /\ env \in Nat /\ faults \in Nat

-----------------------------------------------------------------------------
(* The labels to apply: StorageClassReservedParams of class k, overlaid    *)
(* with the labels of the PVC.                                             *)
EnsureLabels(l, k) == [l EXCEPT !.replicas = IF @ = "unset" THEN classes[k] ELSE @]

(* A number of replicas that is unset or does not parse means 0. *)
Replicas(l) == IF l.replicas \in {"unset", "bad"} THEN "0" ELSE l.replicas

(* No failure mode means hard. *)
ParseFailureMode(l) == IF l.mode = "unset" THEN "hard" ELSE l.mode

(* Errors found in the labels before any is applied. *)
LabelErrors(l) == l.fixed \/ l.replicas = "bad"

(* Mutant: the timestamps of class and claim are not compared. *)
M_ValidStorageClass(uid) == uid \in {0, cachedClass}

(* The class, as the cache has it, is the one of the annotation or, where  *)
(* there is none, was not created in a later second than the PVC.          *)
ValidStorageClass(uid) ==
    IF uid # 0 THEN uid = cachedClass ELSE cachedClass <= early

Init ==
    /\ \E b \in Blobs, f \in BOOLEAN :
          labels = [blob |-> b, replicas |-> "unset", mode |-> "unset", fixed |-> f]
    /\ annotation \in {0, 1}
    /\ phase = "pending"
    /\ classes \in {<<"unset">>, <<"1">>}
    /\ early = 1
    /\ cachedClass = 1
    /\ view = pvc /\ changed = FALSE /\ queued = FALSE
    /\ volume = None
    /\ wpc = "idle" /\ wuid = 0 /\ wwant = None /\ wfresh = FALSE /\ werr = FALSE
    /\ asked = FALSE
    /\ made = 0 /\ held = 0
    /\ crashed = FALSE
    /\ env = 0 /\ faults = 0

-----------------------------------------------------------------------------
(* Users, the CSI provisioner and StorageOS.                               *)

EnvStep ==
    /\ env < MaxEnv
    /\ env' = env + 1
    /\ UNCHANGED <<phase, view, queued, volume, wpc, wuid, wwant, werr, made, held,
                   crashed, faults>>

(* Fixed labels are there from the creation of the PVC. *)
SetLabels(l) ==
    /\ EnvStep
    /\ l # labels
    /\ l.fixed = labels.fixed
    /\ labels' = l
    /\ changed' = TRUE
    /\ asked' = (asked \/ l.replicas # "unset")
    /\ UNCHANGED <<annotation, classVars, wfresh>>

(* The StorageClass is deleted and created again, with other parameters,   *)
(* perhaps in the very second in which the PVC was created.                *)
RecreateStorageClass(r) ==
    /\ EnvStep
    /\ classes' = Append(classes, r)
    /\ \/ UNCHANGED early
       \/ early = Len(classes) /\ early' = early + 1
    /\ UNCHANGED <<labels, annotation, cachedClass, changed, asked, wfresh>>

RemoveAnnotation ==
    /\ EnvStep
    /\ annotation # 0
    /\ annotation' = 0
    /\ UNCHANGED <<labels, classVars, changed, asked, wfresh>>

(* StorageOS changes the volume otherwise: its version moves on. *)
UpdateVolume ==
    /\ EnvStep
    /\ wfresh
    /\ wfresh' = FALSE
    /\ UNCHANGED <<labels, annotation, classVars, changed, asked>>

(* The provisioner creates the volume with the labels the PVC has, and     *)
(* Kubernetes binds the PVC to it later.                                   *)
Provision ==
    /\ phase = "pending"
    /\ labels.replicas \in {"unset", "1"} /\ labels.mode # "bad"
    /\ phase' = "provisioned"
    /\ made' = Len(classes)
    /\ held' = cachedClass
    /\ volume' = [blob |-> labels.blob,
                  replicas |-> Replicas(EnsureLabels(labels, Len(classes))),
                  mode |-> labels.mode]
    /\ UNCHANGED <<labels, annotation, classVars, viewVars, workerVars, asked, crashed,
                   env, faults>>

Bind ==
    /\ phase = "provisioned"
    /\ phase' = "bound"
    /\ UNCHANGED <<labels, annotation, classVars, viewVars, volume, workerVars,
                   histVars, env, faults>>

(* Update events, let through by the predicate when the labels differ. *)
PVCEvent ==
    /\ view # pvc \/ changed
    /\ view' = pvc
    /\ changed' = FALSE
    /\ queued' = (queued \/ changed)
    /\ UNCHANGED <<pvc, classVars, volume, workerVars, histVars, env, faults>>

(* The cache gets the next of the classes. *)
ClassEvent ==
    /\ cachedClass < Len(classes)
    /\ cachedClass' = cachedClass + 1
    /\ UNCHANGED <<pvc, classes, early, viewVars, volume, workerVars, histVars, env,
                   faults>>

-----------------------------------------------------------------------------
(* The worker.                                                             *)

Fault == faults < MaxFaults /\ faults' = faults + 1
NoFault == UNCHANGED faults

(* Ensure is over; an error puts the request back into the queue. *)
End(err) ==
    /\ wpc' = "done"
    /\ wuid' = 0
    /\ wwant' = None
    /\ werr' = err

(* Ensure, up to the calls that change anything: the StorageClass is read  *)
(* and compared, a PVC without the annotation gets one, and one that is    *)
(* not bound is an error.  wwant is None where that error is to come.  A   *)
(* cache that is behind may be between the deletion of a class and the     *)
(* creation of the next one, and have none.                                *)
Reconcile ==
    /\ wpc = "idle"
    /\ queued
    /\ queued' = FALSE
    /\ \/ Fault /\ End(TRUE)
       \/ cachedClass < Len(classes) /\ NoFault /\ End(TRUE)
       \/ /\ ~ValidStorageClass(view[2])
          /\ NoFault
          /\ End(FALSE)
       \/ /\ ValidStorageClass(view[2])
          /\ NoFault
          /\ IF view[2] # 0 /\ view[3] # "bound"
               THEN End(TRUE)
               ELSE /\ wpc' = IF view[2] = 0 THEN "annotate" ELSE "replicas"
                    /\ wuid' = IF view[2] = 0 THEN cachedClass ELSE 0
                    /\ wwant' = IF view[3] = "bound" THEN EnsureLabels(view[1], cachedClass)
                                                    ELSE None
                    /\ werr' = LabelErrors(view[1])
    /\ UNCHANGED <<pvc, classVars, view, changed, volume, wfresh, histVars, env>>

(* Mutant: the worker goes on without a PV name. *)
M_SetStorageClassUID ==
    /\ wpc = "annotate"
    /\ view = pvc /\ ~changed
    /\ NoFault
    /\ annotation' = wuid
    /\ wpc' = "replicas"
    /\ wuid' = 0
    /\ UNCHANGED <<labels, phase, classVars, viewVars, volume, wwant, werr, wfresh,
                   histVars, env>>

(* The PVC of the cache is updated: a stale one is refused. *)
SetStorageClassUID ==
    /\ wpc = "annotate"
    /\ \/ /\ view = pvc /\ ~changed
          /\ NoFault
          /\ annotation' = wuid
          /\ IF wwant = None THEN End(TRUE)
                             ELSE wpc' = "replicas" /\ wuid' = 0 /\ UNCHANGED <<wwant, werr>>
       \/ /\ ((view # pvc \/ changed) /\ NoFault) \/ Fault
          /\ End(TRUE)
          /\ UNCHANGED annotation
    /\ UNCHANGED <<labels, phase, classVars, viewVars, volume, wfresh, histVars, env>>

(* The next of the three steps; the last one ends EnsureVolumeLabels. *)
Continue(next, err) ==
    IF next = "done" THEN End(werr \/ err)
                     ELSE wpc' = next /\ werr' = (werr \/ err) /\ UNCHANGED <<wuid, wwant>>

(* A step reads the volume: it is as wanted, or it is to be updated at     *)
(* this version, or the call fails or the label does not parse.            *)
ReadVolume(ok, parses, update, next) ==
    /\ \/ ok /\ NoFault /\ Continue(next, FALSE) /\ UNCHANGED wfresh
       \/ /\ ~ok /\ parses
          /\ NoFault
          /\ wpc' = update
          /\ wfresh' = TRUE
          /\ UNCHANGED <<wuid, wwant, werr>>
       \/ /\ (~ok /\ ~parses /\ NoFault) \/ Fault
          /\ Continue(next, TRUE)
          /\ UNCHANGED wfresh
    /\ UNCHANGED <<pvc, classVars, viewVars, volume, histVars, env>>

(* The update is made, or the API refuses it: always at a stale version,   *)
(* or if it is for too many replicas.                                      *)
SetVolume(new, next) ==
    /\ \/ /\ wfresh /\ new.replicas # "many"
          /\ NoFault
          /\ volume' = new
          /\ Continue(next, FALSE)
       \/ /\ ((~wfresh \/ new.replicas = "many") /\ NoFault) \/ Fault
          /\ Continue(next, TRUE)
          /\ UNCHANGED volume
    /\ wfresh' = FALSE
    /\ UNCHANGED <<pvc, classVars, viewVars, histVars, env>>

EnsureReplicas ==
    /\ wpc = "replicas"
    /\ ReadVolume(volume.replicas = Replicas(wwant), TRUE, "setReplicas", "mode")

SetReplicas ==
    /\ wpc = "setReplicas"
    /\ SetVolume([volume EXCEPT !.replicas = Replicas(wwant)], "mode")

EnsureFailureMode ==
    /\ wpc = "mode"
    /\ ReadVolume(volume.mode = wwant.mode, wwant.mode # "bad", "setMode", "blob")

SetFailureMode ==
    /\ wpc = "setMode"
    /\ SetVolume([volume EXCEPT !.mode = ParseFailureMode(wwant)], "blob")

EnsureUnreservedVolumeLabels ==
    /\ wpc = "blob"
    /\ ReadVolume(volume.blob = wwant.blob, TRUE, "setBlob", "done")

(* Mutant: the update leaves the reserved labels of the volume out. *)
M_UpdateVolumeLabels ==
    /\ wpc = "setBlob"
    /\ SetVolume([blob |-> wwant.blob, replicas |-> "0", mode |-> "unset"], "done")

(* The update carries the reserved labels of the volume along. *)
UpdateVolumeLabels ==
    /\ wpc = "setBlob"
    /\ SetVolume([volume EXCEPT !.blob = wwant.blob], "done")

(* Mutant: a request that failed is not queued again. *)
M_Done ==
    /\ wpc = "done"
    /\ wpc' = "idle"
    /\ werr' = FALSE
    /\ UNCHANGED <<pvc, classVars, viewVars, volume, wuid, wwant, wfresh,
                   histVars, env, faults>>

Done ==
    /\ wpc = "done"
    /\ wpc' = "idle"
    /\ queued' = (queued \/ werr)
    /\ werr' = FALSE
    /\ UNCHANGED <<pvc, classVars, view, changed, volume, wuid, wwant, wfresh,
                   histVars, env, faults>>

(* The process restarts: its caches list PVC and class anew, and the       *)
(* predicate ignores that.                                                 *)
Crash ==
    /\ Fault
    /\ crashed' = TRUE
    /\ view' = pvc /\ changed' = FALSE /\ queued' = FALSE
    /\ wpc' = "idle" /\ wuid' = 0 /\ wwant' = None /\ wfresh' = FALSE /\ werr' = FALSE
    /\ cachedClass' = Len(classes)
    /\ UNCHANGED <<pvc, classes, early, volume, asked, made, held, env>>

Step ==
    \/ SetStorageClassUID
    \/ EnsureReplicas \/ SetReplicas
    \/ EnsureFailureMode \/ SetFailureMode
    \/ EnsureUnreservedVolumeLabels \/ UpdateVolumeLabels
    \/ Done

Next ==
    \/ \E l \in Labels : SetLabels(l)
    \/ \E r \in {"unset", "1"} : RecreateStorageClass(r)
    \/ RemoveAnnotation \/ UpdateVolume \/ Provision \/ Bind
    \/ PVCEvent \/ ClassEvent \/ Reconcile \/ Step \/ Crash

(* The informers, the queue and the worker get their turn, and Kubernetes  *)
(* binds what was provisioned.                                             *)
Fairness ==
    /\ WF_vars(Bind)
    /\ WF_vars(PVCEvent) /\ WF_vars(ClassEvent)
    /\ WF_vars(Reconcile) /\ WF_vars(Step)

(* -pvc-label-resync-interval=0s: no resync. *)
Spec == Init /\ [][Next]_vars
FairSpec == Spec /\ Fairness

(* With the resync: Diff looks the PVC up among the volumes by its own     *)
(* name and namespace, while a volume has the name of the PV and the id of *)
(* a namespace.  What Diff returns is ensured.                             *)
ClaimKey  == [name |-> "pvc", namespace |-> "namespace"]
VolumeKey == [name |-> "pv", namespace |-> "namespace-id"]

VolumeObjects == IF volume = None THEN <<>> ELSE VolumeKey :> volume

Diff ==
    /\ ClaimKey \in DOMAIN VolumeObjects
    /\ VolumeObjects[ClaimKey].blob # view[1].blob

Resync ==
    /\ Diff
    /\ ~queued
    /\ queued' = TRUE
    /\ UNCHANGED <<pvc, classVars, view, changed, volume, workerVars, histVars, env,
                   faults>>

ResyncSpec == Init /\ [][Next \/ Resync]_vars /\ Fairness /\ WF_vars(Resync)

-----------------------------------------------------------------------------
(* Properties.                                                             *)

(* The replicas that class k gives where a PVC asks for none. *)
DefaultReplicas(k) == Replicas([replicas |-> classes[k]])

(* A StorageClass that was re-created does not bring its defaults to the   *)
(* volumes provisioned before (the reason for the StorageClass annotation  *)
(* in controllers/pvc-label/controller.go): as long as the PVC never had a *)
(* replicas label, the volume keeps the replicas of the class it was       *)
(* provisioned with.  Two windows are left, and bounded: a cache that was  *)
(* behind at the provisioning may still bring the class it held then, or   *)
(* one it gets after that, and a class counts as older than the PVC if it  *)
(* was created in the second of the PVC's creation (early).  Without       *)
(* either, held..early adds nothing to made.  The comparison of creation   *)
(* times makes this hold for PVCs without the annotation too, also after a *)
(* user removed it, although controllers/pvc-label/README.md says that the *)
(* parameters of the new class are then applied.                           *)
ProvisionedDefaultKept ==
    ~asked /\ volume # None =>
        volume.replicas \in {DefaultReplicas(k) : k \in {made} \cup (held..early)}

(* The original StorageClass is there. *)
SameClass == phase = "bound" /\ Len(classes) = 1

(* The volume has the labels of the PVC, each kind by itself. *)
BlobAgrees == volume.blob = labels.blob
ReplicasAgree == volume.replicas = Replicas(EnsureLabels(labels, Len(classes)))
ModeAgrees ==
    \/ labels.mode = volume.mode
    \/ labels.mode = "unset" /\ volume.mode = "hard"

(* Without restarts, labels that change before, while or after the PVC is  *)
(* provisioned and bound get to the volume, despite failing calls, version *)
(* conflicts and errors in other labels of the PVC; a replicas label that  *)
(* is unset or bad counts as the default, or as 0, and one that StorageOS  *)
(* refuses holds up none of the other labels.                              *)
LabelsSynced ==
    <>[](~crashed /\ SameClass =>
            /\ BlobAgrees
            /\ ReplicasAgree \/ labels.replicas = "many"
            /\ ModeAgrees \/ labels.mode = "bad")

(* What the caches have, and the labels the worker is about to apply, are  *)
(* those of the PVC and the class as they are now.                         *)
CaughtUp ==
    /\ view[1] = labels
    /\ cachedClass = Len(classes)
    /\ wwant # None => wwant = EnsureLabels(labels, Len(classes))

(* From then on the worker of EnsureVolumeLabels undoes nothing: as long   *)
(* as labels and class stay, whatever agrees with them goes on agreeing,   *)
(* through failing calls, requeues and restarts, and an update of one kind *)
(* of labels leaves the others as they are.                                *)
SyncStays ==
    [][CaughtUp /\ UNCHANGED <<labels, classes>> =>
          /\ CaughtUp'
          /\ phase = "bound" =>
                /\ BlobAgrees => BlobAgrees'
                /\ ReplicasAgree => ReplicasAgree'
                /\ ModeAgrees => ModeAgrees']_vars

(* "In case a PVC label update event was missed during a restart or        *)
(* outage, a resync runs periodically.  It re-applies the set of           *)
(* Kubernetes PVC labels to StorageOS volumes." (the README of pvc-label)  *)
ResyncRepairs == <>[](SameClass => volume.blob = labels.blob)

=============================================================================
