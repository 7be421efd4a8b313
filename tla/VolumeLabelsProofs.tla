------------------------- MODULE VolumeLabelsProofs -------------------------
(***************************************************************************)
(* Which re-created StorageClasses can change the replicas of a volume     *)
(* whose PVC asked for none, and that labels in sync stay so, for any      *)
(* number of label edits, re-creations, failing calls and restarts.        *)
(***************************************************************************)
EXTENDS VolumeLabels, TLAPS

Phases == {"pending", "provisioned", "bound"}
Updating == {"replicas", "setReplicas", "mode", "setMode", "blob", "setBlob"}

(* TypeOK, by the variables concerned. *)
ClusterOK ==
    /\ labels \in Labels
    /\ annotation \in 0..Len(classes)
    /\ phase \in Phases
    /\ classes \in Seq({"unset", "1"})
    /\ early \in 1..Len(classes)
    /\ cachedClass \in 1..Len(classes)
    /\ made \in 0..Len(classes)
    /\ made = 0 <=> phase = "pending"
    /\ held \in 0..made
    /\ held = 0 <=> phase = "pending"

ViewOK ==
    /\ view \in Labels \X Nat \X Phases
    /\ changed \in BOOLEAN
    /\ queued \in BOOLEAN

VolumeOK == IF phase = "pending" THEN volume = None ELSE volume \in Volumes

WorkerOK ==
    /\ wpc \in {"idle", "annotate", "done"} \cup Updating
    /\ wpc \in Updating => phase = "bound"
    /\ wuid \in 0..Len(classes)
    /\ wuid # 0 <=> wpc = "annotate"
    /\ wwant \in Labels \cup {None}
    /\ wpc \in {"idle", "done"} => wwant = None
    /\ wwant = None => wpc \in {"idle", "annotate", "done"}

FlagsOK ==
    /\ wfresh \in BOOLEAN
    /\ werr \in BOOLEAN
    /\ asked \in BOOLEAN
    /\ crashed \in BOOLEAN
    /\ env \in Nat
    /\ faults \in Nat

(* The PVC is only ever annotated with a class that counts as older. *)
Known == annotation <= early /\ view[2] <= early /\ wuid <= early

(* What the informer and the worker take for bound is bound. *)
BoundSeen ==
    /\ view[3] = "bound" => phase = "bound"
    /\ wwant # None => phase = "bound"

(* A replicas label that the PVC never had is in no copy of its labels. *)
Unasked == ~asked => labels.replicas = "unset" /\ view[1].replicas = "unset"

(* The cache only moves on from what it held at the provisioning. *)
HeldBehind == held <= cachedClass

(* The classes whose defaults the volume may have. *)
Defaults == {DefaultReplicas(k) : k \in {made} \cup (held..early)}

(* What the worker is about to apply is one of these defaults. *)
WantedDefault == wwant # None /\ ~asked => Replicas(wwant) \in Defaults

(* The worker only sets a failure mode that it could parse. *)
ParsedMode == wpc = "setMode" => wwant.mode # "bad"

IInv ==
    /\ TypeOK
    /\ ParsedMode
    /\ Known
    /\ BoundSeen
    /\ Unasked
    /\ HeldBehind
    /\ WantedDefault
    /\ ProvisionedDefaultKept

-----------------------------------------------------------------------------
(* TypeOK is the conjunction of its parts. *)
LEMMA TypeParts == TypeOK <=> ClusterOK /\ ViewOK /\ VolumeOK /\ WorkerOK /\ FlagsOK
BY DEF TypeOK, ClusterOK, ViewOK, VolumeOK, WorkerOK, FlagsOK, Phases, Updating

(* Len and the elements of the sequence of classes. *)
LEMMA ClassFacts ==
    ASSUME ClusterOK
    PROVE  /\ Len(classes) \in Nat /\ Len(classes) >= 1
           /\ \A k \in 1..Len(classes) : classes[k] \in {"unset", "1"}
BY DEF ClusterOK

(* Appending a class keeps the older ones. *)
LEMMA AppendFacts ==
    ASSUME ClusterOK, NEW r \in {"unset", "1"}, classes' = Append(classes, r)
    PROVE  /\ classes' \in Seq({"unset", "1"})
           /\ Len(classes') = Len(classes) + 1
           /\ \A i \in 1..Len(classes) : classes'[i] = classes[i]
BY DEF ClusterOK

(* What EnsureLabels returns. *)
LEMMA EnsureType ==
    ASSUME ClusterOK, NEW l \in Labels, NEW k \in 1..Len(classes)
    PROVE  EnsureLabels(l, k) \in Labels
<1>1. classes[k] \in {"unset", "1"}
  BY ClassFacts
<1> QED
  BY <1>1 DEF EnsureLabels, Labels

(* Only the replicas label counts for the number of replicas. *)
LEMMA SameReplicas ==
    ASSUME NEW a, NEW b, a.replicas = b
    PROVE  Replicas(a) = Replicas([replicas |-> b])
BY DEF Replicas

(* Where the PVC asks for no replicas it is the class that decides. *)
LEMMA ClassDecides ==
    ASSUME NEW l \in Labels, l.replicas = "unset", NEW k
    PROVE  Replicas(EnsureLabels(l, k)) = DefaultReplicas(k)
<1>1. EnsureLabels(l, k).replicas = classes[k]
  BY DEF EnsureLabels, Labels
<1> QED
  BY <1>1, SameReplicas DEF DefaultReplicas

(* Replicas of labels, as the volume can have it or not. *)
LEMMA ReplicasType ==
    ASSUME NEW l, l.replicas \in {"unset", "1", "many", "bad"}
    PROVE  Replicas(l) \in {"0", "1", "many"}
BY DEF Replicas

(* The volume that Provision makes. *)
LEMMA ProvisionType ==
    ASSUME ClusterOK, labels.replicas \in {"unset", "1"}, labels.mode # "bad"
    PROVE  [blob |-> labels.blob,
            replicas |-> Replicas(EnsureLabels(labels, Len(classes))),
            mode |-> labels.mode] \in Volumes
<1>1. labels \in Labels
  BY DEF ClusterOK
<1>2. EnsureLabels(labels, Len(classes)).replicas \in {"unset", "1"}
  BY <1>1, ClassFacts DEF EnsureLabels, Labels
<1>3. Replicas(EnsureLabels(labels, Len(classes))) \in {"0", "1"}
  BY <1>2 DEF Replicas
<1>4. labels.blob \in Blobs /\ labels.mode \in {"unset", "soft", "bad"}
  BY <1>1 DEF Labels
<1> QED
  BY <1>3, <1>4 DEF Volumes

-----------------------------------------------------------------------------
(* Which steps change what.                                                *)

(* The steps of the users and the provisioner, as far as the cluster goes. *)
ClusterSteps ==
    \/ \E l \in Labels : SetLabels(l)
    \/ \E r \in {"unset", "1"} : RecreateStorageClass(r)
    \/ RemoveAnnotation \/ Provision \/ Bind \/ SetStorageClassUID
    \/ ClassEvent \/ Crash

(* The steps that make or change the volume. *)
VolumeSteps == Provision \/ SetReplicas \/ SetFailureMode \/ UpdateVolumeLabels

(* The cluster only changes in its own steps. *)
LEMMA ClusterFrame ==
    ASSUME [Next]_vars
    PROVE  ClusterSteps \/ UNCHANGED <<pvc, classVars, made, held>>
<1>1. CASE UNCHANGED vars
  BY <1>1 DEF vars, histVars
<1>2. CASE UpdateVolume
  BY <1>2 DEF UpdateVolume, EnvStep, pvc
<1>3. CASE PVCEvent
  BY <1>3 DEF PVCEvent, histVars
<1>4. CASE Reconcile
  BY <1>4 DEF Reconcile, histVars
<1>5. CASE EnsureReplicas \/ EnsureFailureMode \/ EnsureUnreservedVolumeLabels
  BY Zenon, <1>5 DEF EnsureReplicas, EnsureFailureMode, EnsureUnreservedVolumeLabels,
              ReadVolume, histVars
<1>6. CASE SetReplicas \/ SetFailureMode \/ UpdateVolumeLabels
  BY Zenon, <1>6 DEF SetReplicas, SetFailureMode, UpdateVolumeLabels, SetVolume, histVars
<1>7. CASE Done
  BY <1>7 DEF Done, histVars
<1> QED
  BY <1>1, <1>2, <1>3, <1>4, <1>5, <1>6, <1>7 DEF Next, Step, ClusterSteps

(* The volume only changes in its own steps. *)
LEMMA VolumeFrame ==
    ASSUME [Next]_vars
    PROVE  VolumeSteps \/ UNCHANGED volume
<1>1. CASE UNCHANGED vars
  BY <1>1 DEF vars
<1>2. ASSUME NEW l, SetLabels(l) PROVE UNCHANGED volume
  BY <1>2 DEF SetLabels, EnvStep
<1>3. ASSUME NEW r, RecreateStorageClass(r) PROVE UNCHANGED volume
  BY <1>3 DEF RecreateStorageClass, EnvStep
<1>4. CASE RemoveAnnotation \/ UpdateVolume
  BY <1>4 DEF RemoveAnnotation, UpdateVolume, EnvStep
<1>5. CASE Bind \/ PVCEvent \/ ClassEvent \/ Reconcile \/ Crash \/ Done \/ SetStorageClassUID
  BY Zenon, <1>5 DEF Bind, PVCEvent, ClassEvent, Reconcile, Crash, Done, SetStorageClassUID
<1>6. CASE EnsureReplicas \/ EnsureFailureMode \/ EnsureUnreservedVolumeLabels
  BY Zenon, <1>6 DEF EnsureReplicas, EnsureFailureMode, EnsureUnreservedVolumeLabels, ReadVolume
<1> QED
  BY <1>1, <1>2, <1>3, <1>4, <1>5, <1>6 DEF Next, Step, VolumeSteps


(* The worker's steps end it, or go on with the same labels. *)
LEMMA ContinueShape ==
    ASSUME NEW next, NEW e, Continue(next, e)
    PROVE  \/ wpc' = "done" /\ wuid' = 0 /\ wwant' = None
           \/ next # "done" /\ wpc' = next /\ UNCHANGED <<wuid, wwant>>
BY DEF Continue, End

-----------------------------------------------------------------------------
(* Each part of the invariant is preserved.                                *)

(* The cluster stays well-formed, and what it was is kept: classes are     *)
(* only added, a bound PVC stays bound and a volume stays provisioned.     *)
LEMMA ClusterStep ==
    ASSUME IInv, [Next]_vars
    PROVE  /\ ClusterOK'
           /\ early' >= early /\ Len(classes') >= Len(classes)
           /\ cachedClass' >= cachedClass
           /\ IF made # 0 THEN made' = made /\ held' = held
                          ELSE held' \in {0, cachedClass}
           /\ \A i \in 1..Len(classes) : classes'[i] = classes[i]
           /\ phase = "bound" => phase' = "bound"
<1> DEFINE Goal == /\ ClusterOK'
                   /\ early' >= early /\ Len(classes') >= Len(classes)
                   /\ cachedClass' >= cachedClass
                   /\ IF made # 0 THEN made' = made /\ held' = held
                                  ELSE held' \in {0, cachedClass}
                   /\ \A i \in 1..Len(classes) : classes'[i] = classes[i]
                   /\ phase = "bound" => phase' = "bound"
<1>0. ClusterOK /\ WorkerOK
  BY TypeParts DEF IInv
<1>a. early \in Nat /\ Len(classes) \in Nat /\ Len(classes) >= 1
  BY <1>0, ClassFacts DEF ClusterOK
<1>1. CASE UNCHANGED <<pvc, classVars, made, held>>
  BY <1>0, <1>a, <1>1 DEF ClusterOK, pvc, classVars
<1>2. ASSUME NEW l \in Labels, SetLabels(l) PROVE Goal
  <2>1. labels' = l /\ UNCHANGED <<annotation, phase, classes, early, cachedClass, made, held>>
    BY <1>2 DEF SetLabels, EnvStep, classVars
  <2> QED BY <2>1, <1>0, <1>a DEF ClusterOK
<1>3. ASSUME NEW r \in {"unset", "1"}, RecreateStorageClass(r) PROVE Goal
  <2>1. /\ classes' = Append(classes, r)
        /\ early' = early \/ early' = early + 1
        /\ UNCHANGED <<labels, annotation, phase, cachedClass, made, held>>
    BY <1>3 DEF RecreateStorageClass, EnvStep
  <2>2. /\ classes' \in Seq({"unset", "1"}) /\ Len(classes') = Len(classes) + 1
        /\ \A i \in 1..Len(classes) : classes'[i] = classes[i]
    BY <1>0, <2>1, AppendFacts
  <2> QED BY <2>1, <2>2, <1>0, <1>a DEF ClusterOK
<1>4. CASE RemoveAnnotation
  <2>1. annotation' = 0 /\ UNCHANGED <<labels, phase, classes, early, cachedClass, made, held>>
    BY <1>4 DEF RemoveAnnotation, EnvStep, classVars
  <2> QED BY <2>1, <1>0, <1>a DEF ClusterOK
<1>5. CASE Provision
  <2>1. /\ phase = "pending" /\ phase' = "provisioned" /\ made' = Len(classes)
        /\ held' = cachedClass
        /\ UNCHANGED <<labels, annotation, classes, early, cachedClass>>
    BY <1>5 DEF Provision, classVars
  <2> QED BY <2>1, <1>0, <1>a DEF ClusterOK, Phases
<1>6. CASE Bind
  <2>1. /\ phase = "provisioned" /\ phase' = "bound"
        /\ UNCHANGED <<labels, annotation, classes, early, cachedClass, made, held>>
    BY <1>6 DEF Bind, classVars, histVars
  <2> QED BY <2>1, <1>0, <1>a DEF ClusterOK, Phases
<1>7. CASE SetStorageClassUID
  <2>1. /\ annotation' \in {annotation, wuid}
        /\ UNCHANGED <<labels, phase, classes, early, cachedClass, made, held>>
    BY Zenon, <1>7 DEF SetStorageClassUID, classVars, histVars
  <2>2. wuid \in 0..Len(classes)
    BY <1>0 DEF WorkerOK
  <2> QED BY <2>1, <2>2, <1>0, <1>a DEF ClusterOK
<1>8. CASE ClassEvent \/ Crash
  <2>1. /\ cachedClass' \in {cachedClass + 1, Len(classes)} /\ cachedClass' <= Len(classes)
        /\ UNCHANGED <<labels, annotation, phase, classes, early, made, held>>
    BY <1>0, <1>a, <1>8 DEF ClassEvent, Crash, ClusterOK, pvc, histVars
  <2> QED BY <2>1, <1>0, <1>a DEF ClusterOK
<1> HIDE DEF Goal
<1> QED
  BY <1>1, <1>2, <1>3, <1>4, <1>5, <1>6, <1>7, <1>8, ClusterFrame DEF ClusterSteps, Goal

(* The informer's copy is one of the PVC. *)
LEMMA ViewShape ==
    ASSUME [Next]_vars
    PROVE  view' = view \/ view' = <<labels, annotation, phase>>
<1>1. CASE UNCHANGED vars
  BY <1>1 DEF vars, viewVars
<1>2. ASSUME NEW l, SetLabels(l) PROVE UNCHANGED view
  BY <1>2 DEF SetLabels, EnvStep
<1>3. ASSUME NEW r, RecreateStorageClass(r) PROVE UNCHANGED view
  BY <1>3 DEF RecreateStorageClass, EnvStep
<1>4. CASE RemoveAnnotation \/ UpdateVolume
  BY <1>4 DEF RemoveAnnotation, UpdateVolume, EnvStep
<1>5. CASE Bind \/ Provision \/ ClassEvent \/ Reconcile \/ Done \/ SetStorageClassUID
  BY Zenon, <1>5 DEF Bind, Provision, ClassEvent, Reconcile, Done, SetStorageClassUID, viewVars
<1>6. CASE EnsureReplicas \/ EnsureFailureMode \/ EnsureUnreservedVolumeLabels
  BY Zenon, <1>6 DEF EnsureReplicas, EnsureFailureMode, EnsureUnreservedVolumeLabels, ReadVolume,
              viewVars
<1>7. CASE SetReplicas \/ SetFailureMode \/ UpdateVolumeLabels
  BY Zenon, <1>7 DEF SetReplicas, SetFailureMode, UpdateVolumeLabels, SetVolume, viewVars
<1>8. CASE PVCEvent
  BY <1>8 DEF PVCEvent, pvc
<1>9. CASE Crash
  BY <1>9 DEF Crash, pvc
<1> QED
  BY <1>1, <1>2, <1>3, <1>4, <1>5, <1>6, <1>7, <1>8, <1>9 DEF Next, Step


(* The worker starts on a request; it goes on with the labels it has; or   *)
(* it ends, or is as it was.                                               *)
Starts ==
    /\ ValidStorageClass(view[2])
    /\ view[2] = 0 \/ view[3] = "bound"
    /\ wpc' = IF view[2] = 0 THEN "annotate" ELSE "replicas"
    /\ wuid' = IF view[2] = 0 THEN cachedClass ELSE 0
    /\ wwant' = IF view[3] = "bound" THEN EnsureLabels(view[1], cachedClass) ELSE None
    /\ UNCHANGED <<pvc, classVars, histVars>>

GoesOn == wwant # None /\ wpc' \in Updating /\ wuid' = 0 /\ wwant' = wwant

Ends == wpc' \in {"idle", "done"} /\ wuid' = 0 /\ wwant' = None

(* One of these is what a step does to the worker. *)
LEMMA WorkerShape ==
    ASSUME WorkerOK, [Next]_vars
    PROVE  Starts \/ GoesOn \/ Ends \/ UNCHANGED <<wpc, wuid, wwant>>
<1> DEFINE Goal == Starts \/ GoesOn \/ Ends \/ UNCHANGED <<wpc, wuid, wwant>>
<1>1. CASE UNCHANGED vars
  BY <1>1 DEF vars, workerVars
<1>2. ASSUME NEW l, SetLabels(l) PROVE Goal
  BY <1>2 DEF SetLabels, EnvStep
<1>3. ASSUME NEW r, RecreateStorageClass(r) PROVE Goal
  BY <1>3 DEF RecreateStorageClass, EnvStep
<1>4. CASE RemoveAnnotation \/ UpdateVolume
  BY <1>4 DEF RemoveAnnotation, UpdateVolume, EnvStep
<1>5. CASE Bind \/ Provision \/ PVCEvent \/ ClassEvent
  BY <1>5 DEF Bind, Provision, PVCEvent, ClassEvent, workerVars
<1>6. CASE Reconcile
  <2>1. CASE End(TRUE) \/ End(FALSE)
    BY <2>1 DEF End, Ends
  <2>2. CASE ValidStorageClass(view[2]) /\ view[2] # 0 /\ view[3] # "bound" /\ End(TRUE)
    BY <2>2 DEF End, Ends
  <2>3. CASE /\ ValidStorageClass(view[2])
             /\ ~(view[2] # 0 /\ view[3] # "bound")
             /\ wpc' = IF view[2] = 0 THEN "annotate" ELSE "replicas"
             /\ wuid' = IF view[2] = 0 THEN cachedClass ELSE 0
             /\ wwant' = IF view[3] = "bound" THEN EnsureLabels(view[1], cachedClass) ELSE None
    <3>1. UNCHANGED <<pvc, classVars, histVars>>
      BY <1>6 DEF Reconcile
    <3> QED BY <2>3, <3>1 DEF Starts
  <2> QED BY Zenon, <1>6, <2>1, <2>2, <2>3 DEF Reconcile
<1>7. CASE SetStorageClassUID
  <2>1. CASE End(TRUE)
    BY <2>1 DEF End, Ends
  <2>2. CASE wwant # None /\ wpc' = "replicas" /\ wuid' = 0 /\ UNCHANGED <<wwant, werr>>
    BY <2>2 DEF GoesOn, Updating
  <2> QED BY Zenon, <1>7, <2>1, <2>2 DEF SetStorageClassUID
<1>8. ASSUME wpc \in Updating, NEW next \in Updating \cup {"done"}, NEW e, Continue(next, e)
      PROVE  Goal
  <2>1. wwant # None /\ wuid = 0
    BY <1>8 DEF WorkerOK, Updating
  <2> QED BY <1>8, <2>1, ContinueShape DEF GoesOn, Ends, Updating
<1>9. ASSUME wpc \in Updating, NEW ok, NEW parses, NEW update \in Updating,
             NEW next \in Updating \cup {"done"}, ReadVolume(ok, parses, update, next)
      PROVE  Goal
  <2>1. CASE Continue(next, FALSE) \/ Continue(next, TRUE)
    BY Zenon, <1>8, <1>9, <2>1
  <2>2. CASE wpc' = update /\ UNCHANGED <<wuid, wwant, werr>>
    <3>1. wwant # None /\ wuid = 0
      BY <1>9 DEF WorkerOK, Updating
    <3> QED BY <1>9, <2>2, <3>1 DEF GoesOn
  <2> QED BY Zenon, <1>9, <2>1, <2>2 DEF ReadVolume
<1>10. ASSUME wpc \in Updating, NEW new, NEW next \in Updating \cup {"done"},
              SetVolume(new, next)
       PROVE  Goal
  <2>1. Continue(next, FALSE) \/ Continue(next, TRUE)
    BY Zenon, <1>10 DEF SetVolume
  <2> QED BY Zenon, <1>8, <1>10, <2>1
<1>11. CASE EnsureReplicas \/ EnsureFailureMode \/ EnsureUnreservedVolumeLabels
  BY Zenon, <1>9, <1>11 DEF EnsureReplicas, EnsureFailureMode, EnsureUnreservedVolumeLabels,
                     Updating
<1>12. CASE SetReplicas \/ SetFailureMode \/ UpdateVolumeLabels
  BY <1>10, <1>12 DEF SetReplicas, SetFailureMode, UpdateVolumeLabels, Updating
<1>13. CASE Done
  <2>1. wpc = "done" /\ wpc' = "idle" /\ UNCHANGED <<wuid, wwant>>
    BY <1>13 DEF Done
  <2>2. wuid = 0 /\ wwant = None
    BY <2>1 DEF WorkerOK
  <2> QED BY <2>1, <2>2 DEF Ends
<1>14. CASE Crash
  BY <1>14 DEF Crash, Ends
<1> HIDE DEF Goal
<1> QED
  BY <1>1, <1>2, <1>3, <1>4, <1>5, <1>6, <1>7, <1>11, <1>12, <1>13, <1>14
     DEF Next, Step, Goal

(* The worker's state stays well-formed. *)
LEMMA WorkerStep ==
    ASSUME IInv, [Next]_vars
    PROVE  WorkerOK' /\ (wwant # None => phase = "bound")'
<1>0. ClusterOK /\ ViewOK /\ WorkerOK /\ BoundSeen
  BY TypeParts DEF IInv
<1>1. /\ Len(classes) \in Nat /\ Len(classes) >= 1 /\ Len(classes') \in Nat
      /\ Len(classes') >= Len(classes)
      /\ phase = "bound" => phase' = "bound"
  BY <1>0, ClassFacts, ClusterStep DEF ClusterOK
<1>2. CASE Starts
  <2>1. view[1] \in Labels
    BY <1>0 DEF ViewOK
  <2>2. EnsureLabels(view[1], cachedClass) \in Labels /\ cachedClass \in 1..Len(classes)
    BY <1>0, <2>1, EnsureType DEF ClusterOK
  <2>3. classes' = classes /\ phase' = phase
    BY <1>2 DEF Starts, pvc, classVars
  <2>4. view[3] = "bound" => phase = "bound"
    BY <1>0 DEF BoundSeen
  <2>5. None \notin Labels
    BY ConstantsAssumption
  <2>6. wwant' \in Labels \cup {None} /\ (wwant' # None => phase' = "bound")
    BY <1>2, <2>2, <2>3, <2>4 DEF Starts
  <2>7. CASE view[2] = 0
    <3>1. wpc' = "annotate" /\ wuid' = cachedClass
      BY <1>2, <2>7 DEF Starts
    <3> QED BY <1>1, <2>2, <2>3, <2>6, <3>1 DEF WorkerOK, Updating
  <2>8. CASE view[2] # 0
    <3>1. wpc' = "replicas" /\ wuid' = 0 /\ wwant' = EnsureLabels(view[1], cachedClass)
          /\ phase' = "bound"
      BY <1>2, <2>3, <2>4, <2>8 DEF Starts
    <3> QED BY <1>1, <2>2, <2>5, <2>6, <3>1 DEF WorkerOK, Updating
  <2> QED BY <2>7, <2>8
<1>3. CASE GoesOn
  <2>1. wwant \in Labels /\ phase' = "bound"
    BY <1>0, <1>1, <1>3 DEF GoesOn, WorkerOK, BoundSeen
  <2> QED BY <1>1, <1>3, <2>1 DEF GoesOn, WorkerOK, Updating
<1>4. CASE Ends
  BY <1>1, <1>4 DEF Ends, WorkerOK, Updating
<1>5. CASE UNCHANGED <<wpc, wuid, wwant>>
  BY <1>0, <1>1, <1>5 DEF WorkerOK, BoundSeen
<1> QED
  BY <1>0, <1>2, <1>3, <1>4, <1>5, WorkerShape


(* The informer's copy and the queue stay well-formed. *)
LEMMA ViewStep ==
    ASSUME IInv, [Next]_vars
    PROVE  ViewOK'
<1>0. ClusterOK /\ ViewOK /\ FlagsOK
  BY TypeParts DEF IInv
<1>1. view' \in Labels \X Nat \X Phases
  <2>1. labels \in Labels /\ annotation \in Nat /\ phase \in Phases
    BY <1>0, ClassFacts DEF ClusterOK
  <2>2. view \in Labels \X Nat \X Phases
    BY <1>0 DEF ViewOK
  <2> QED BY <2>1, <2>2, ViewShape
<1>2. changed \in BOOLEAN /\ queued \in BOOLEAN /\ werr \in BOOLEAN
  BY <1>0 DEF ViewOK, FlagsOK
<1>3. changed' \in BOOLEAN /\ queued' \in BOOLEAN
  <2> DEFINE Goal == changed' \in BOOLEAN /\ queued' \in BOOLEAN
  <2>1. CASE UNCHANGED vars
    BY <1>2, <2>1 DEF vars, viewVars
  <2>2. ASSUME NEW l, SetLabels(l) PROVE Goal
    BY <1>2, <2>2 DEF SetLabels, EnvStep
  <2>3. ASSUME NEW r, RecreateStorageClass(r) PROVE Goal
    BY <1>2, <2>3 DEF RecreateStorageClass, EnvStep
  <2>4. CASE RemoveAnnotation \/ UpdateVolume
    BY <1>2, <2>4 DEF RemoveAnnotation, UpdateVolume, EnvStep
  <2>5. CASE Bind \/ Provision \/ ClassEvent \/ SetStorageClassUID
    BY Zenon, <1>2, <2>5 DEF Bind, Provision, ClassEvent, SetStorageClassUID, viewVars
  <2>6. CASE EnsureReplicas \/ EnsureFailureMode \/ EnsureUnreservedVolumeLabels
    BY Zenon, <1>2, <2>6 DEF EnsureReplicas, EnsureFailureMode, EnsureUnreservedVolumeLabels,
                      ReadVolume, viewVars
  <2>7. CASE SetReplicas \/ SetFailureMode \/ UpdateVolumeLabels
    BY Zenon, <1>2, <2>7 DEF SetReplicas, SetFailureMode, UpdateVolumeLabels, SetVolume, viewVars
  <2>8. CASE PVCEvent \/ Reconcile \/ Done \/ Crash
    BY Zenon, <1>2, <2>8 DEF PVCEvent, Reconcile, Done, Crash
  <2> HIDE DEF Goal
  <2> QED
    BY <2>1, <2>2, <2>3, <2>4, <2>5, <2>6, <2>7, <2>8 DEF Next, Step, Goal
<1> QED
  BY <1>1, <1>3 DEF ViewOK

(* The labels of the PVC are edited by users, who may ask for replicas. *)
LEMMA LabelsShape ==
    ASSUME [Next]_vars
    PROVE  \/ UNCHANGED <<labels, asked>>
           \/ \E l \in Labels : labels' = l /\ asked' = (asked \/ l.replicas # "unset")
<1>1. ASSUME NEW l \in Labels, SetLabels(l)
      PROVE  labels' = l /\ asked' = (asked \/ l.replicas # "unset")
  BY <1>1 DEF SetLabels
<1>2. ASSUME NEW r, RecreateStorageClass(r) PROVE UNCHANGED <<labels, asked>>
  BY <1>2 DEF RecreateStorageClass
<1>3. CASE RemoveAnnotation \/ UpdateVolume
  BY <1>3 DEF RemoveAnnotation, UpdateVolume
<1>4. CASE Bind \/ Provision \/ ClassEvent \/ SetStorageClassUID
  BY Zenon, <1>4 DEF Bind, Provision, ClassEvent, SetStorageClassUID, pvc, histVars
<1>5. CASE EnsureReplicas \/ EnsureFailureMode \/ EnsureUnreservedVolumeLabels
  BY Zenon, <1>5 DEF EnsureReplicas, EnsureFailureMode, EnsureUnreservedVolumeLabels,
              ReadVolume, pvc, histVars
<1>6. CASE SetReplicas \/ SetFailureMode \/ UpdateVolumeLabels
  BY Zenon, <1>6 DEF SetReplicas, SetFailureMode, UpdateVolumeLabels, SetVolume, pvc, histVars
<1>7. CASE PVCEvent \/ Reconcile \/ Done \/ Crash
  BY Zenon, <1>7 DEF PVCEvent, Reconcile, Done, Crash, pvc, histVars
<1>8. CASE UNCHANGED vars
  BY <1>8 DEF vars, pvc, histVars
<1> QED
  BY <1>1, <1>2, <1>3, <1>4, <1>5, <1>6, <1>7, <1>8 DEF Next, Step

(* The worker's flags. *)
LEMMA WorkerFlagsStep ==
    ASSUME IInv, [Next]_vars
    PROVE  wfresh' \in BOOLEAN /\ werr' \in BOOLEAN
<1> DEFINE Goal == wfresh' \in BOOLEAN /\ werr' \in BOOLEAN
<1>0. ViewOK /\ FlagsOK
  BY TypeParts DEF IInv
<1>a. wfresh \in BOOLEAN /\ werr \in BOOLEAN
  BY <1>0 DEF FlagsOK
<1>1. ASSUME NEW l, SetLabels(l) PROVE Goal
  BY <1>a, <1>1 DEF SetLabels, EnvStep
<1>2. ASSUME NEW r, RecreateStorageClass(r) PROVE Goal
  BY <1>a, <1>2 DEF RecreateStorageClass, EnvStep
<1>3. CASE RemoveAnnotation \/ UpdateVolume
  BY Zenon, <1>a, <1>3 DEF RemoveAnnotation, UpdateVolume, EnvStep
<1>4. CASE Bind \/ Provision \/ PVCEvent \/ ClassEvent
  BY <1>a, <1>4 DEF Bind, Provision, PVCEvent, ClassEvent, workerVars
<1>5. CASE UNCHANGED vars
  BY <1>a, <1>5 DEF vars, workerVars
<1>6. ASSUME NEW next, NEW e \in BOOLEAN, Continue(next, e) PROVE werr' \in BOOLEAN
  BY <1>a, <1>6 DEF Continue, End
<1>7. ASSUME NEW ok, NEW parses, NEW update, NEW next, ReadVolume(ok, parses, update, next)
      PROVE  Goal
  <2>1. CASE Continue(next, FALSE) /\ UNCHANGED wfresh
    BY Zenon, <1>6, <1>a, <2>1
  <2>2. CASE wfresh' = TRUE /\ UNCHANGED <<wuid, wwant, werr>>
    BY <1>a, <2>2
  <2>3. CASE Continue(next, TRUE) /\ UNCHANGED wfresh
    BY Zenon, <1>6, <1>a, <2>3
  <2> QED BY Zenon, <1>7, <2>1, <2>2, <2>3 DEF ReadVolume
<1>8. ASSUME NEW new, NEW next, SetVolume(new, next) PROVE Goal
  <2>1. wfresh' = FALSE /\ (Continue(next, FALSE) \/ Continue(next, TRUE))
    BY Zenon, <1>8 DEF SetVolume
  <2> QED BY Zenon, <1>6, <2>1
<1>9. CASE EnsureReplicas \/ EnsureFailureMode \/ EnsureUnreservedVolumeLabels
  BY Zenon, <1>7, <1>9 DEF EnsureReplicas, EnsureFailureMode, EnsureUnreservedVolumeLabels
<1>10. CASE SetReplicas \/ SetFailureMode \/ UpdateVolumeLabels
  BY <1>8, <1>10 DEF SetReplicas, SetFailureMode, UpdateVolumeLabels
<1>11. CASE Reconcile
  <2>1. LabelErrors(view[1]) \in BOOLEAN
    BY DEF LabelErrors
  <2>2. werr' \in {TRUE, FALSE, LabelErrors(view[1])} /\ wfresh' = wfresh
    BY Zenon, <1>11 DEF Reconcile, End
  <2> QED BY Zenon, <1>a, <2>1, <2>2
<1>12. CASE SetStorageClassUID
  BY Zenon, <1>a, <1>12 DEF SetStorageClassUID, End
<1>13. CASE Done \/ Crash
  BY Zenon, <1>a, <1>13 DEF Done, Crash
<1> HIDE DEF Goal
<1> QED
  BY <1>1, <1>2, <1>3, <1>4, <1>5, <1>9, <1>10, <1>11, <1>12, <1>13 DEF Next, Step, Goal


(* The counters only count. *)
LEMMA CountersShape ==
    ASSUME [Next]_vars
    PROVE  /\ env' = env \/ env' = env + 1
           /\ faults' = faults \/ faults' = faults + 1
           /\ crashed' = crashed \/ crashed' = TRUE
<1> DEFINE Goal == /\ env' = env \/ env' = env + 1
                   /\ faults' = faults \/ faults' = faults + 1
                   /\ crashed' = crashed \/ crashed' = TRUE
<1>1. ASSUME NEW l, SetLabels(l) PROVE Goal
  BY <1>1 DEF SetLabels, EnvStep
<1>2. ASSUME NEW r, RecreateStorageClass(r) PROVE Goal
  BY <1>2 DEF RecreateStorageClass, EnvStep
<1>3. CASE RemoveAnnotation \/ UpdateVolume
  BY <1>3 DEF RemoveAnnotation, UpdateVolume, EnvStep
<1>4. CASE Bind \/ Provision \/ PVCEvent \/ ClassEvent \/ Done
  BY <1>4 DEF Bind, Provision, PVCEvent, ClassEvent, Done, histVars
<1>5. CASE UNCHANGED vars
  BY <1>5 DEF vars, histVars
<1>6. CASE EnsureReplicas \/ EnsureFailureMode \/ EnsureUnreservedVolumeLabels
  BY Zenon, <1>6 DEF EnsureReplicas, EnsureFailureMode, EnsureUnreservedVolumeLabels,
              ReadVolume, Fault, NoFault, histVars
<1>7. CASE SetReplicas \/ SetFailureMode \/ UpdateVolumeLabels
  BY Zenon, <1>7 DEF SetReplicas, SetFailureMode, UpdateVolumeLabels, SetVolume, Fault, NoFault,
              histVars
<1>8. CASE Reconcile \/ SetStorageClassUID
  BY Zenon, <1>8 DEF Reconcile, SetStorageClassUID, Fault, NoFault, histVars
<1>9. CASE Crash
  BY <1>9 DEF Crash, Fault
<1> HIDE DEF Goal
<1> QED
  BY Zenon, <1>1, <1>2, <1>3, <1>4, <1>5, <1>6, <1>7, <1>8, <1>9 DEF Next, Step, Goal

(* Flags and counters keep their types. *)
LEMMA FlagsStep ==
    ASSUME IInv, [Next]_vars
    PROVE  FlagsOK'
<1>0. FlagsOK
  BY TypeParts DEF IInv
<1>1. asked' \in BOOLEAN
  BY Zenon, <1>0, LabelsShape DEF FlagsOK
<1>a. /\ env' = env \/ env' = env + 1
      /\ faults' = faults \/ faults' = faults + 1
  BY Zenon, CountersShape
<1>b. env \in Nat /\ faults \in Nat
  BY Zenon, <1>0 DEF FlagsOK
<1>2. env' \in Nat /\ faults' \in Nat
  BY SMT, <1>a, <1>b
<1>3. crashed' \in BOOLEAN
  BY Zenon, <1>0, CountersShape DEF FlagsOK
<1> QED
  BY <1>1, <1>2, <1>3, WorkerFlagsStep DEF FlagsOK

(* A failure mode that does not parse is an error, and skipped. *)
LEMMA ParsedModeStep ==
    ASSUME IInv, [Next]_vars
    PROVE  ParsedMode'
<1>0. WorkerOK /\ ParsedMode
  BY TypeParts DEF IInv
<1> DEFINE Kept == wpc' # "setMode" \/ UNCHANGED <<wpc, wwant>>
           Parsed == wwant' = wwant /\ wwant.mode # "bad"
<1>1. ASSUME NEW l, SetLabels(l) PROVE Kept
  BY <1>1 DEF SetLabels, EnvStep
<1>2. ASSUME NEW r, RecreateStorageClass(r) PROVE Kept
  BY <1>2 DEF RecreateStorageClass, EnvStep
<1>3. ASSUME RemoveAnnotation \/ UpdateVolume PROVE Kept
  BY <1>3 DEF RemoveAnnotation, UpdateVolume, EnvStep
<1>4. ASSUME Bind \/ Provision \/ PVCEvent \/ ClassEvent \/ UNCHANGED vars PROVE Kept
  BY <1>4 DEF Bind, Provision, PVCEvent, ClassEvent, vars, workerVars
<1>5. ASSUME Done \/ Crash \/ Reconcile \/ SetStorageClassUID PROVE Kept
  BY <1>5 DEF Done, Crash, Reconcile, SetStorageClassUID, End
<1>6. ASSUME NEW next \in {"mode", "blob", "done"}, NEW e, Continue(next, e) PROVE Kept
  BY <1>6, ContinueShape
<1>7. ASSUME EnsureReplicas \/ EnsureUnreservedVolumeLabels PROVE Kept
  BY Zenon, <1>6, <1>7 DEF EnsureReplicas, EnsureUnreservedVolumeLabels, ReadVolume
<1>8. ASSUME SetReplicas \/ SetFailureMode \/ UpdateVolumeLabels PROVE Kept
  BY Zenon, <1>6, <1>8 DEF SetReplicas, SetFailureMode, UpdateVolumeLabels, SetVolume
<1>9. ASSUME EnsureFailureMode PROVE Kept \/ Parsed
  BY Zenon, <1>6, <1>9 DEF EnsureFailureMode, ReadVolume
<1> HIDE DEF Kept, Parsed
<1>10. Kept \/ Parsed
  BY <1>1, <1>2, <1>3, <1>4, <1>5, <1>7, <1>8, <1>9 DEF Next, Step
<1> QED
  BY <1>0, <1>10 DEF Kept, Parsed, ParsedMode

(* A step of the worker that updates the volume changes one label of it,   *)
(* and never to a number of replicas that StorageOS refuses.               *)
LEMMA VolumeShape ==
    ASSUME WorkerOK, VolumeOK, ParsedMode, [Next]_vars
    PROVE  \/ UNCHANGED volume
           \/ Provision
           \/ /\ phase = "bound" /\ UNCHANGED <<phase, classVars, made, held, asked>>
              /\ wwant # None
              /\ volume' \in Volumes
              /\ volume'.replicas \in {volume.replicas, Replicas(wwant)}
<1> DEFINE Updated == /\ volume' \in Volumes
                      /\ volume'.replicas \in {volume.replicas, Replicas(wwant)}
<1>1. ASSUME SetReplicas \/ SetFailureMode \/ UpdateVolumeLabels
      PROVE  UNCHANGED volume \/ Updated
  <2>1. wpc \in Updating
    BY <1>1 DEF SetReplicas, SetFailureMode, UpdateVolumeLabels, Updating
  <2>2. volume \in Volumes /\ wwant \in Labels
    BY <2>1 DEF WorkerOK, VolumeOK, Updating
  <2>3. CASE SetReplicas
    <3>1. Replicas(wwant) \in {"0", "1", "many"}
      BY <2>2, ReplicasType DEF Labels
    <3> DEFINE new == [volume EXCEPT !.replicas = Replicas(wwant)]
    <3>2. new.replicas = Replicas(wwant) /\ (new.replicas # "many" => new \in Volumes)
      BY <2>2, <3>1 DEF Volumes
    <3>3. UNCHANGED volume \/ (volume' = new /\ new.replicas # "many")
      BY Zenon, <2>3 DEF SetReplicas, SetVolume
    <3> HIDE DEF new
    <3> QED BY <3>2, <3>3
  <2>4. CASE SetFailureMode
    <3> DEFINE new == [volume EXCEPT !.mode = ParseFailureMode(wwant)]
    <3>1. UNCHANGED volume \/ volume' = new
      BY Zenon, <2>4 DEF SetFailureMode, SetVolume
    <3>2. wwant.mode # "bad"
      BY <2>4 DEF SetFailureMode, ParsedMode
    <3>3. new \in Volumes /\ new.replicas = volume.replicas
      BY <2>2, <3>2 DEF Volumes, ParseFailureMode, Labels
    <3> HIDE DEF new
    <3> QED BY <3>1, <3>3
  <2>5. CASE UpdateVolumeLabels
    <3> DEFINE new == [volume EXCEPT !.blob = wwant.blob]
    <3>1. UNCHANGED volume \/ volume' = new
      BY Zenon, <2>5 DEF UpdateVolumeLabels, SetVolume
    <3>2. new \in Volumes /\ new.replicas = volume.replicas
      BY <2>2 DEF Volumes, Labels
    <3> HIDE DEF new
    <3> QED BY <3>1, <3>2
  <2> QED BY <1>1, <2>3, <2>4, <2>5
<1>2. ASSUME SetReplicas \/ SetFailureMode \/ UpdateVolumeLabels
      PROVE  phase = "bound" /\ UNCHANGED <<phase, classVars, made, held, asked>> /\ wwant # None
  <2>1. wpc \in Updating
    BY <1>2 DEF SetReplicas, SetFailureMode, UpdateVolumeLabels, Updating
  <2>2. phase = "bound" /\ wwant # None
    BY <2>1 DEF WorkerOK, Updating
  <2>3. UNCHANGED <<phase, classVars, made, held, asked>>
    BY Zenon, <1>2 DEF SetReplicas, SetFailureMode, UpdateVolumeLabels, SetVolume, pvc, histVars
  <2> QED BY <2>2, <2>3
<1> HIDE DEF Updated
<1> QED
  BY <1>1, <1>2, VolumeFrame DEF VolumeSteps, Updated


(* There is a volume from the provisioning on. *)
LEMMA VolumeStep ==
    ASSUME IInv, [Next]_vars
    PROVE  VolumeOK'
<1>0. ClusterOK /\ VolumeOK /\ WorkerOK /\ ParsedMode
  BY TypeParts DEF IInv
<1>1. CASE Provision
  <2>1. /\ phase' = "provisioned" /\ labels.replicas \in {"unset", "1"}
        /\ labels.mode # "bad"
        /\ volume' = [blob |-> labels.blob,
                      replicas |-> Replicas(EnsureLabels(labels, Len(classes))),
                      mode |-> labels.mode]
    BY <1>1 DEF Provision
  <2>2. volume' \in Volumes
    BY <1>0, <2>1, ProvisionType
  <2> QED BY <2>1, <2>2 DEF VolumeOK
<1>2. CASE phase = "bound" /\ UNCHANGED phase /\ volume' \in Volumes
  BY <1>2 DEF VolumeOK
<1>3. CASE UNCHANGED volume /\ ~Provision
  <2>1. (phase' = "pending") <=> (phase = "pending")
    <3>1. ASSUME NEW l, SetLabels(l) PROVE UNCHANGED phase
      BY <3>1 DEF SetLabels, EnvStep
    <3>2. ASSUME NEW r, RecreateStorageClass(r) PROVE UNCHANGED phase
      BY <3>2 DEF RecreateStorageClass, EnvStep
    <3>3. ASSUME RemoveAnnotation \/ SetStorageClassUID PROVE UNCHANGED phase
      BY Zenon, <3>3 DEF RemoveAnnotation, SetStorageClassUID, EnvStep
    <3>4. CASE Bind
      BY <3>4 DEF Bind
    <3>5. ASSUME ClassEvent \/ Crash PROVE UNCHANGED phase
      BY <3>5 DEF ClassEvent, Crash, pvc
    <3> QED BY <1>3, <3>1, <3>2, <3>3, <3>4, <3>5, ClusterFrame DEF ClusterSteps, pvc
  <2> QED BY <1>0, <1>3, <2>1 DEF VolumeOK
<1> QED
  BY <1>0, <1>1, <1>2, <1>3, VolumeShape

(* The classes that the PVC is, or will be, annotated with. *)
LEMMA KnownStep ==
    ASSUME IInv, [Next]_vars
    PROVE  Known'
<1>0. ClusterOK /\ ViewOK /\ WorkerOK /\ Known
  BY TypeParts DEF IInv
<1>1. early' >= early /\ early \in Nat /\ early' \in Nat /\ Len(classes) \in Nat
  BY <1>0, ClusterStep, ClassFacts DEF ClusterOK
<1>a. annotation \in Nat /\ wuid \in Nat /\ view[2] \in Nat
  BY <1>0, <1>1 DEF ClusterOK, WorkerOK, ViewOK
<1>2. annotation' <= early'
  <2>1. ASSUME NEW l, SetLabels(l) PROVE UNCHANGED annotation
    BY <2>1 DEF SetLabels
  <2>2. ASSUME NEW r, RecreateStorageClass(r) PROVE UNCHANGED annotation
    BY <2>2 DEF RecreateStorageClass
  <2>3. ASSUME RemoveAnnotation PROVE annotation' = 0
    BY <2>3 DEF RemoveAnnotation
  <2>4. ASSUME Provision \/ Bind \/ ClassEvent \/ Crash PROVE UNCHANGED annotation
    BY <2>4 DEF Provision, Bind, ClassEvent, Crash, pvc
  <2>5. ASSUME SetStorageClassUID PROVE annotation' \in {annotation, wuid}
    BY Zenon, <2>5 DEF SetStorageClassUID
  <2>6. annotation' \in {annotation, wuid, 0}
    BY <2>1, <2>2, <2>3, <2>4, <2>5, ClusterFrame DEF ClusterSteps, pvc
  <2> QED BY <1>0, <1>1, <1>a, <2>6 DEF Known
<1>3. view'[2] <= early'
  <2>1. view'[2] \in {view[2], annotation}
    BY ViewShape
  <2> QED BY <1>0, <1>1, <1>a, <2>1 DEF Known
<1>4. wuid' <= early'
  <2>1. CASE Starts
    <3>1. wuid' = IF view[2] = 0 THEN cachedClass ELSE 0
      BY <2>1 DEF Starts
    <3>2. view[2] = 0 => cachedClass <= early
      BY <2>1 DEF Starts, ValidStorageClass
    <3>3. cachedClass \in Nat
      BY <1>0, <1>1 DEF ClusterOK
    <3> QED BY <1>1, <3>1, <3>2, <3>3
  <2>2. CASE GoesOn \/ Ends
    BY <1>1, <2>2 DEF GoesOn, Ends
  <2>3. CASE UNCHANGED <<wpc, wuid, wwant>>
    BY <1>0, <1>1, <1>a, <2>3 DEF Known
  <2> QED BY <1>0, <2>1, <2>2, <2>3, WorkerShape
<1> QED
  BY <1>2, <1>3, <1>4 DEF Known

(* Bound is for good. *)
LEMMA BoundSeenStep ==
    ASSUME IInv, [Next]_vars
    PROVE  BoundSeen'
<1>0. BoundSeen
  BY DEF IInv
<1>1. (view[3] = "bound" => phase = "bound")'
  <2>1. view'[3] \in {view[3], phase}
    BY ViewShape
  <2> QED BY <1>0, <2>1, ClusterStep DEF BoundSeen
<1> QED
  BY <1>1, WorkerStep DEF BoundSeen

(* No copy has a replicas label that was not asked for. *)
LEMMA UnaskedStep ==
    ASSUME IInv, [Next]_vars
    PROVE  Unasked' /\ (asked => asked')
<1>0. Unasked
  BY DEF IInv
<1>1. (asked => asked') /\ (~asked' => labels'.replicas = "unset")
  <2>1. CASE UNCHANGED <<labels, asked>>
    BY <1>0, <2>1 DEF Unasked
  <2>2. ASSUME NEW l \in Labels, labels' = l, asked' = (asked \/ l.replicas # "unset")
        PROVE  (asked => asked') /\ (~asked' => labels'.replicas = "unset")
    BY Zenon, <2>2
  <2> QED BY <2>1, <2>2, LabelsShape
<1>2. view'[1] \in {view[1], labels}
  BY ViewShape
<1> QED
  BY <1>0, <1>1, <1>2 DEF Unasked


(* The cache moves on, and holds what was in it at the provisioning. *)
LEMMA HeldBehindStep ==
    ASSUME IInv, [Next]_vars
    PROVE  HeldBehind'
<1>0. ClusterOK /\ HeldBehind
  BY TypeParts DEF IInv
<1>1. /\ held \in Nat /\ cachedClass \in Nat /\ cachedClass' \in Nat
      /\ cachedClass' >= cachedClass
      /\ held' \in {held, 0, cachedClass}
  BY <1>0, ClusterStep, ClassFacts DEF ClusterOK
<1> QED
  BY <1>0, <1>1 DEF HeldBehind

(* After the provisioning, a default that the volume may have remains one. *)
LEMMA DefaultsStep ==
    ASSUME IInv, [Next]_vars, phase # "pending", NEW r \in Defaults
    PROVE  r \in Defaults'
<1>0. ClusterOK
  BY TypeParts DEF IInv
<1>1. /\ made \in 1..Len(classes) /\ held \in 1..made
      /\ early \in 1..Len(classes) /\ Len(classes) \in Nat
  BY <1>0, ClassFacts DEF ClusterOK
<1>2. made' = made /\ held' = held /\ early' >= early /\ early' \in Nat
  BY <1>1, ClusterStep, ClassFacts DEF ClusterOK
<1>3. PICK k \in {made} \cup (held..early) : r = DefaultReplicas(k)
  BY DEF Defaults
<1>4. k \in 1..Len(classes)
  BY <1>1, <1>3
<1>5. classes'[k] = classes[k]
  BY <1>4, ClusterStep
<1>6. r = DefaultReplicas(k)'
  BY Zenon, <1>3, <1>5 DEF DefaultReplicas, Replicas
<1>7. k \in {made'} \cup (held'..early')
  BY <1>1, <1>2, <1>3
<1> QED
  BY Zenon, <1>6, <1>7 DEF Defaults

(* The worker takes its defaults from these classes. *)
LEMMA WantedDefaultStep ==
    ASSUME IInv, [Next]_vars
    PROVE  WantedDefault'
<1>0. /\ ClusterOK /\ ViewOK /\ WorkerOK /\ BoundSeen /\ Unasked /\ WantedDefault
      /\ Known /\ HeldBehind
  BY TypeParts DEF IInv
<1> SUFFICES ASSUME wwant' # None, ~asked'
             PROVE  Replicas(wwant)' \in Defaults'
  BY Zenon DEF WantedDefault
<1>1. ~asked
  BY UnaskedStep
<1>2. CASE Starts
  <2>1. /\ view[3] = "bound" /\ wwant' = EnsureLabels(view[1], cachedClass)
        /\ ValidStorageClass(view[2])
    BY <1>2 DEF Starts
  <2>2. view[2] \in Nat /\ view[2] <= early
    BY <1>0 DEF Known, ViewOK
  <2>3. /\ cachedClass \in Nat /\ held \in Nat /\ early \in Nat
        /\ held <= cachedClass /\ phase # "pending"
    BY <1>0, <2>1, ClassFacts DEF ClusterOK, HeldBehind, BoundSeen
  <2>4. cachedClass \in held..early
    BY <2>1, <2>2, <2>3 DEF ValidStorageClass
  <2>5. DefaultReplicas(cachedClass) \in Defaults
    BY Zenon, <2>4 DEF Defaults
  <2>6. view[1] \in Labels /\ view[1].replicas = "unset"
    BY <1>0, <1>1 DEF ViewOK, Unasked
  <2>7. Replicas(wwant') = DefaultReplicas(cachedClass)
    BY Zenon, <2>1, <2>6, ClassDecides
  <2> QED
    BY Zenon, <2>3, <2>5, <2>7, DefaultsStep DEF Replicas
<1>3. CASE wwant' = wwant
  <2>1. phase # "pending"
    BY <1>0, <1>3 DEF BoundSeen
  <2>2. Replicas(wwant) \in Defaults
    BY <1>0, <1>1, <1>3 DEF WantedDefault
  <2> QED BY Zenon, <1>3, <2>1, <2>2, DefaultsStep DEF Replicas
<1> QED
  BY <1>0, <1>2, <1>3, WorkerShape DEF GoesOn, Ends

(* So does the volume. *)
LEMMA DefaultKeptStep ==
    ASSUME IInv, [Next]_vars
    PROVE  ProvisionedDefaultKept'
<1>0. /\ ClusterOK /\ VolumeOK /\ WorkerOK /\ ParsedMode /\ Unasked
      /\ WantedDefault /\ ProvisionedDefaultKept
  BY TypeParts DEF IInv
<1> SUFFICES ASSUME volume' # None, ~asked'
             PROVE  volume'.replicas \in Defaults'
  BY Zenon DEF ProvisionedDefaultKept, Defaults
<1>1. ~asked
  BY UnaskedStep
<1>2. CASE Provision
  <2>1. /\ volume'.replicas = Replicas(EnsureLabels(labels, Len(classes)))
        /\ classes' = classes /\ made' = Len(classes)
    BY <1>2 DEF Provision, classVars
  <2>2. labels \in Labels /\ labels.replicas = "unset"
    BY <1>0, <1>1 DEF ClusterOK, Unasked
  <2>3. volume'.replicas = DefaultReplicas(made)'
    BY Zenon, <2>1, <2>2, ClassDecides DEF DefaultReplicas, Replicas
  <2> QED BY Zenon, <2>3 DEF Defaults
<1>3. CASE UNCHANGED volume
  <2>1. phase # "pending"
    BY <1>0, <1>3 DEF VolumeOK
  <2>2. volume.replicas \in Defaults
    BY Zenon, <1>0, <1>1, <1>3 DEF ProvisionedDefaultKept, Defaults
  <2> QED BY Zenon, <1>3, <2>1, <2>2, DefaultsStep
<1>4. CASE /\ phase = "bound" /\ wwant # None
           /\ volume'.replicas \in {volume.replicas, Replicas(wwant)}
  <2>1. volume # None /\ phase # "pending"
    BY <1>0, <1>4, ConstantsAssumption DEF VolumeOK
  <2>2. volume.replicas \in Defaults
    BY Zenon, <1>0, <1>1, <2>1 DEF ProvisionedDefaultKept, Defaults
  <2>3. Replicas(wwant) \in Defaults
    BY Zenon, <1>0, <1>1, <1>4 DEF WantedDefault
  <2> QED BY Zenon, <1>4, <2>1, <2>2, <2>3, DefaultsStep
<1> QED
  BY <1>0, <1>2, <1>3, <1>4, VolumeShape

-----------------------------------------------------------------------------
(* The invariant holds at the start. *)
LEMMA InitLabels == Init => IInv
<1> SUFFICES ASSUME Init PROVE IInv
  OBVIOUS
<1>1. /\ labels \in Labels /\ labels.replicas = "unset"
      /\ annotation \in {0, 1} /\ phase = "pending" /\ early = 1
      /\ cachedClass = 1 /\ made = 0 /\ held = 0
      /\ classes \in {<<"unset">>, <<"1">>}
  BY DEF Init, Labels
<1>a. classes \in Seq({"unset", "1"}) /\ Len(classes) = 1
  <2>1. CASE classes = <<"unset">>
    BY <2>1
  <2>2. CASE classes = <<"1">>
    BY <2>2
  <2> QED BY <1>1, <2>1, <2>2
<1>2. ClusterOK
  BY <1>1, <1>a DEF ClusterOK, Phases
<1>3. /\ view = <<labels, annotation, phase>>
      /\ volume = None /\ wpc = "idle" /\ wuid = 0 /\ wwant = None
  BY DEF Init, pvc
<1>4. ViewOK
  <2>1. changed = FALSE /\ queued = FALSE
    BY DEF Init
  <2>2. annotation \in Nat
    BY <1>1
  <2> QED BY Zenon, <1>1, <1>3, <2>1, <2>2 DEF ViewOK, Phases
<1>5. VolumeOK /\ WorkerOK
  BY <1>1, <1>3 DEF VolumeOK, WorkerOK, Updating
<1>6. FlagsOK
  BY Zenon DEF Init, FlagsOK
<1>7. Known /\ BoundSeen /\ ParsedMode
  BY <1>1, <1>3 DEF Known, BoundSeen, ParsedMode
<1>8. Unasked /\ HeldBehind /\ WantedDefault /\ ProvisionedDefaultKept
  BY <1>1, <1>3 DEF Unasked, HeldBehind, WantedDefault, ProvisionedDefaultKept
<1> QED
  BY <1>2, <1>4, <1>5, <1>6, <1>7, <1>8, TypeParts DEF IInv

(* The inductive invariant: with the types, what the informers and the     *)
(* worker know is behind the cluster (Known, BoundSeen, Unasked), and the  *)
(* cache of the classes only moves on (HeldBehind), so that the worker     *)
(* only ever wants the defaults of a class that it may (WantedDefault).    *)
THEOREM LabelsInductive == Spec => []IInv
<1>1. Init => IInv
  BY InitLabels
<1>2. IInv /\ [Next]_vars => IInv'
  <2> SUFFICES ASSUME IInv, [Next]_vars PROVE IInv'
    OBVIOUS
  <2>1. TypeOK'
    BY ClusterStep, ViewStep, VolumeStep, WorkerStep, FlagsStep, TypeParts
       DEF TypeOK, ClusterOK, ViewOK, VolumeOK, WorkerOK, FlagsOK, Phases, Updating
  <2> QED
    BY <2>1, ParsedModeStep, KnownStep, BoundSeenStep, UnaskedStep, HeldBehindStep,
       WantedDefaultStep, DefaultKeptStep DEF IInv
<1> QED
  BY <1>1, <1>2, PTL DEF Spec

(* Every variable keeps its type: a PVC has a volume from the provisioning *)
(* on, and the worker of EnsureVolumeLabels only runs for a bound PVC.     *)
THEOREM LabelsTypeCorrect == Spec => []TypeOK
BY LabelsInductive, PTL DEF IInv

(* The volume of a PVC without a replicas label keeps the replicas that it *)
(* was provisioned with, however often its StorageClass is re-created, but *)
(* for the classes that a cache behind at the provisioning still gets, and *)
(* those re-created in the second of the PVC's creation.                   *)
THEOREM DefaultsKept == Spec => []ProvisionedDefaultKept
BY LabelsInductive, PTL DEF IInv

-----------------------------------------------------------------------------
(* Labels in sync stay in sync.                                            *)

(* As long as labels and class stay, nobody gets hold of other labels. *)
LEMMA CaughtUpStep ==
    ASSUME IInv, CaughtUp, [Next]_vars, UNCHANGED <<labels, classes>>
    PROVE  CaughtUp'
<1>0. ClusterOK /\ WorkerOK
  BY TypeParts DEF IInv
<1>1. view[1] = labels /\ cachedClass = Len(classes) /\ (wwant # None => wwant = EnsureLabels(labels, Len(classes)))
  BY DEF CaughtUp
<1>2. view'[1] = labels
  BY <1>1, ViewShape
<1>3. wwant' # None => wwant' = EnsureLabels(labels, Len(classes))
  BY <1>0, <1>1, WorkerShape DEF Starts, GoesOn, Ends
<1>a. cachedClass' = Len(classes)
  BY <1>0, <1>1, ClusterStep, ClassFacts DEF ClusterOK
<1>4. EnsureLabels(labels, Len(classes))' = EnsureLabels(labels, Len(classes))
  BY DEF EnsureLabels
<1> QED
  BY <1>2, <1>3, <1>4, <1>a DEF CaughtUp

(* An update makes one kind of labels agree, and leaves the others alone. *)
LEMMA AgreementStep ==
    ASSUME WorkerOK, VolumeOK, ClusterOK, CaughtUp, [Next]_vars,
           UNCHANGED <<labels, classes>>, phase = "bound"
    PROVE  /\ BlobAgrees => BlobAgrees'
           /\ ReplicasAgree => ReplicasAgree'
           /\ ModeAgrees => ModeAgrees'
<1> DEFINE Goal == /\ BlobAgrees => BlobAgrees'
                   /\ ReplicasAgree => ReplicasAgree'
                   /\ ModeAgrees => ModeAgrees'
<1>0. volume \in Volumes /\ labels \in Labels
  BY DEF VolumeOK, ClusterOK
<1>1. Replicas(EnsureLabels(labels, Len(classes)))' = Replicas(EnsureLabels(labels, Len(classes)))
  BY DEF Replicas, EnsureLabels
<1>2. CASE UNCHANGED volume
  BY <1>1, <1>2 DEF BlobAgrees, ReplicasAgree, ModeAgrees
<1>3. ASSUME wpc \in Updating
      PROVE  /\ Replicas(wwant) = Replicas(EnsureLabels(labels, Len(classes)))
             /\ wwant.mode = labels.mode /\ wwant.blob = labels.blob
  <2>1. wwant = EnsureLabels(labels, Len(classes))
    BY <1>3 DEF WorkerOK, CaughtUp, Updating
  <2> QED
    BY <1>0, <2>1 DEF EnsureLabels, Labels
<1>4. CASE SetReplicas
  <2>1. \/ UNCHANGED volume
        \/ volume' = [volume EXCEPT !.replicas = Replicas(EnsureLabels(labels, Len(classes)))]
    BY Zenon, <1>3, <1>4 DEF SetReplicas, SetVolume, Updating
  <2>2. ASSUME volume' = [volume EXCEPT !.replicas = Replicas(EnsureLabels(labels, Len(classes)))]
        PROVE  /\ volume'.replicas = Replicas(EnsureLabels(labels, Len(classes)))
               /\ volume'.blob = volume.blob /\ volume'.mode = volume.mode
    BY <1>0, <2>2 DEF Volumes
  <2> QED
    BY <1>1, <1>2, <2>1, <2>2 DEF BlobAgrees, ReplicasAgree, ModeAgrees
<1>5. CASE SetFailureMode
  <2>1. \/ UNCHANGED volume
        \/ volume' = [volume EXCEPT !.mode = ParseFailureMode(labels)]
    BY Zenon, <1>3, <1>5 DEF SetFailureMode, SetVolume, ParseFailureMode, Updating
  <2>2. ASSUME volume' = [volume EXCEPT !.mode = ParseFailureMode(labels)]
        PROVE  /\ volume'.mode = ParseFailureMode(labels)
               /\ volume'.blob = volume.blob /\ volume'.replicas = volume.replicas
    BY <1>0, <2>2 DEF Volumes
  <2> QED
    BY <1>1, <1>2, <2>1, <2>2 DEF BlobAgrees, ReplicasAgree, ModeAgrees, ParseFailureMode
<1>6. CASE UpdateVolumeLabels
  <2>1. UNCHANGED volume \/ volume' = [volume EXCEPT !.blob = labels.blob]
    BY Zenon, <1>3, <1>6 DEF UpdateVolumeLabels, SetVolume, Updating
  <2>2. ASSUME volume' = [volume EXCEPT !.blob = labels.blob]
        PROVE  /\ volume'.blob = labels.blob
               /\ volume'.replicas = volume.replicas /\ volume'.mode = volume.mode
    BY <1>0, <2>2 DEF Volumes
  <2> QED
    BY <1>1, <1>2, <2>1, <2>2 DEF BlobAgrees, ReplicasAgree, ModeAgrees
<1>7. ~Provision
  BY DEF Provision
<1> HIDE DEF Goal
<1>8. Goal
  BY <1>2, <1>4, <1>5, <1>6, <1>7, VolumeFrame DEF VolumeSteps, Goal
<1> QED
  BY <1>8 DEF Goal

(* Once informer and worker have caught up with the PVC and its class,     *)
(* EnsureVolumeLabels undoes nothing that is in sync, whatever fails: what *)
(* TLC shows to be reached in the end (LabelsSynced) is kept from then on, *)
(* also by a process that is restarted.                                    *)
THEOREM SyncedStays == Spec => SyncStays
<1> DEFINE Stays == CaughtUp /\ UNCHANGED <<labels, classes>> =>
                        /\ CaughtUp'
                        /\ phase = "bound" =>
                              /\ BlobAgrees => BlobAgrees'
                              /\ ReplicasAgree => ReplicasAgree'
                              /\ ModeAgrees => ModeAgrees'
<1>1. IInv /\ [Next]_vars => [Stays]_vars
  <2> SUFFICES ASSUME IInv, [Next]_vars, CaughtUp, UNCHANGED <<labels, classes>>
               PROVE  /\ CaughtUp'
                      /\ phase = "bound" =>
                            /\ BlobAgrees => BlobAgrees'
                            /\ ReplicasAgree => ReplicasAgree'
                            /\ ModeAgrees => ModeAgrees'
    OBVIOUS
  <2>1. WorkerOK /\ VolumeOK /\ ClusterOK
    BY TypeParts DEF IInv
  <2> QED
    BY <2>1, CaughtUpStep, AgreementStep
<1>2. SyncStays <=> [][Stays]_vars
  BY DEF SyncStays
<1> QED
  BY LabelsInductive, <1>1, <1>2, PTL DEF Spec

=============================================================================
