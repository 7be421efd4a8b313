---------------------------- MODULE FencerProofs ----------------------------
(***************************************************************************)
(* Proofs about Fencer, for any sets of nodes, pods, claims, volumes and   *)
(* actions.                                                                *)
(***************************************************************************)
EXTENDS Fencer, TLAPS

(* Wherever a node object is held, an offline one stems from a node that   *)
(* was offline.                                                            *)
OfflineReported ==
    \A n \in Nodes :
        /\ health[n] = "offline" => n \in everOffline
        /\ pending[n] # None /\ pending[n].health = "offline" => n \in everOffline
        /\ cache[n] # None /\ cache[n].health = "offline" => n \in everOffline
        /\ working[n] # None /\ working[n].health = "offline" => n \in everOffline

(* A sick volume of an action's pod is still to be read, or fencePod does  *)
(* not know of it; none is to be read at the delete.                       *)
SoundlyRead(pc, pod, check, unread, sick, online) ==
    /\ sick \cap online = {}
    /\ pc \in {"volumes", "delete"} =>
          \A c \in ClaimsOf[pod] :
              PVDriver[c] = "storageos" /\ VolumeOf[c] \in sick =>
                  VolumeOf[c] \in check \/ <<pod, c>> \in unread
    /\ pc = "delete" => check = {}

VolumesRead ==
    \A a \in Actions :
        SoundlyRead(apc[a], apod[a], acheck[a], aunread[a], asick[a], volOnline)

(* The attachments an action listed are of its node, and gone with the run. *)
AttachmentsOfNode ==
    \A a \in Actions :
        /\ \A va \in avas[a] : va[2] = anode[a]
        /\ apc[a] = "wait" => avas[a] = {}

(* Labelled pods are, in Kubernetes and in the informer, where a labelled  *)
(* pod of that name was placed.                                            *)
SeenPlaced ==
    \A p \in Pods :
        /\ pods[p] # None /\ pods[p].fenced => <<p, pods[p].node>> \in placed
        /\ podView[p] # None /\ podView[p].fenced => <<p, podView[p].node>> \in placed

(* The pods an action still has to look at, and the one fencePod is at     *)
(* work on, were placed on its node; what fencePod detaches are claims of  *)
(* the pod it deleted.                                                     *)
WellPlaced(pc, node, todo, pod, detach, seen, gone) ==
    /\ \A p \in todo : <<p, node>> \in seen
    /\ pc \notin {"pods", "volumes", "delete", "detach"} => todo = {}
    /\ pod # None => <<pod, node>> \in seen /\ detach \subseteq ClaimsOf[pod]
    /\ pc = "detach" => <<pod, node>> \in gone

PodsPlaced ==
    \A a \in Actions : WellPlaced(apc[a], anode[a], atodo[a], apod[a], adetach[a],
                                  placed, evicted)

IInv ==
    /\ StateOK
    /\ HistoryTypes
    /\ SeenPlaced
    /\ PodsPlaced
    /\ OfflineReported
    /\ OnlyOfflineNodesFenced
    /\ VolumesRead
    /\ AttachmentsOfNode

-----------------------------------------------------------------------------

(* What podPVCs and stosVolumes return are claims of the pod and volumes,  *)
(* and the volumes of StorageOS are all among them, but for those whose PV *)
(* was not read.                                                           *)
LEMMA PodPVCsFinds ==
    ASSUME NEW p \in Pods, NEW unread
    PROVE  /\ PodPVCs(p, unread) \subseteq ClaimsOf[p]
           /\ PodPVCs(p, unread) \subseteq Claims
           /\ VolKeys(PodPVCs(p, unread)) \subseteq Volumes
           /\ \A c \in ClaimsOf[p] :
                 PVDriver[c] = "storageos" /\ VolumeOf[c] # None =>
                     VolumeOf[c] \in VolKeys(PodPVCs(p, unread)) \/ <<p, c>> \in unread
<1>1. PodPVCs(p, unread) \subseteq ClaimsOf[p] /\ ClaimsOf[p] \subseteq Claims
  BY ConstantsAssumption DEF PodPVCs
<1>2. VolKeys(PodPVCs(p, unread)) \subseteq Volumes
  BY <1>1, ConstantsAssumption DEF VolKeys
<1>3. ASSUME NEW c \in ClaimsOf[p], PVDriver[c] = "storageos", VolumeOf[c] # None,
             <<p, c>> \notin unread
      PROVE  VolumeOf[c] \in VolKeys(PodPVCs(p, unread))
  <2>1. c \in PodPVCs(p, unread)
    BY <1>1, <1>3, ConstantsAssumption DEF PodPVCs
  <2> QED
    BY <1>3, <2>1 DEF VolKeys
<1> QED
  BY <1>1, <1>2, <1>3

(* What getTargetPods returns are pods. *)
LEMMA TargetPods == \A n, unread : GetTargetPods(n, unread) \subseteq Pods
  BY DEF GetTargetPods, Labelled

(* A call that looks up PVs fails or does not. *)
LEMMA ReadPVsFaults == \A unread : ReadPVs(unread) => Fault \/ NoFault
  BY DEF ReadPVs

(* fencePod gives up on the pod, or goes on with the claims it finds. *)
FencePodSkips == UNCHANGED <<apc, apod, acheck, adetach, aunread>>

FencePodReads(a, p, unread) ==
    /\ apc' = [apc EXCEPT ![a] = IF VolKeys(PodPVCs(p, unread)) = {}
                                 THEN "delete" ELSE "volumes"]
    /\ apod' = [apod EXCEPT ![a] = p]
    /\ acheck' = [acheck EXCEPT ![a] = VolKeys(PodPVCs(p, unread))]
    /\ adetach' = [adetach EXCEPT ![a] = PodPVCs(p, unread)]
    /\ aunread' = [aunread EXCEPT ![a] = unread]

LEMMA FencePodCases ==
    ASSUME NEW a \in Actions, NEW p \in Pods, FencePod(a, p)
    PROVE  /\ apc[a] = "pods" /\ p \in atodo[a]
           /\ atodo' = [atodo EXCEPT ![a] = @ \ {p}]
           /\ Fault \/ NoFault
           /\ UNCHANGED <<stosVars, k8sVars, pollVars, ctrlVars, anode, avas, aexpired,
                          env, histVars>>
           /\ FencePodSkips \/ \E unread \in SUBSET Lookups : FencePodReads(a, p, unread)
<1>1. \A unread : unread \in SUBSET {l \in Lookups : l[1] = p} => unread \in SUBSET Lookups
  OBVIOUS
<1> QED
  BY Zenon, <1>1, ReadPVsFaults DEF FencePod, FencePodSkips, FencePodReads

(* The state in which NewReconciler leaves the process satisfies the       *)
(* invariant.                                                              *)
LEMMA InitInv == Init => IInv
<1> SUFFICES ASSUME Init PROVE IInv
  OBVIOUS
<1>1. StateOK
  BY Zenon, ConstantsAssumption
     DEF Init, ProcessInit, StateOK, EnvironmentTypes, ProcessTypes, ActionTypes,
         ActionsCoherent, Health, ActionPC, VA
<1>2. OfflineReported /\ OnlyOfflineNodesFenced /\ VolumesRead /\ AttachmentsOfNode
  BY DEF Init, ProcessInit, OfflineReported, OnlyOfflineNodesFenced,
         VolumesRead, SoundlyRead, AttachmentsOfNode
<1>3. HistoryTypes /\ SeenPlaced
  <2>1. pods \in [Pods -> Pod \cup {None}] /\ podView = pods
    BY DEF Init
  <2>2. placed = {pn \in Pods \X Nodes : pods[pn[1]] = [node |-> pn[2], fenced |-> TRUE]}
    BY DEF Init
  <2>3. ASSUME NEW p \in Pods, pods[p] # None, pods[p].fenced
        PROVE  <<p, pods[p].node>> \in placed
    <3>1. pods[p] \in Pod
      BY <2>1, <2>3
    <3>2. pods[p].node \in Nodes /\ pods[p] = [node |-> pods[p].node, fenced |-> TRUE]
      BY Zenon, <2>3, <3>1 DEF Pod
    <3> QED
      BY <2>2, <3>2
  <2>4. HistoryTypes
    BY <2>2 DEF Init, HistoryTypes
  <2> QED
    BY <2>1, <2>3, <2>4 DEF SeenPlaced
<1>4. PodsPlaced
  BY DEF Init, ProcessInit, PodsPlaced, WellPlaced
<1> QED
  BY <1>1, <1>2, <1>3, <1>4 DEF IInv

(* Changes by StorageOS, Kubernetes, users and the informer of pods keep   *)
(* the types.                                                              *)
LEMMA EnvironmentType == StateOK /\ Environment => StateOK'
<1> SUFFICES ASSUME StateOK, Environment PROVE StateOK'
  OBVIOUS
<1> USE ConstantsAssumption
        DEF StateOK, EnvironmentTypes, ProcessTypes, ActionTypes, ActionsCoherent,
            EnvStep, stosVars, k8sVars, pollVars, ctrlVars, actVars, histVars
<1>1. CASE \E n \in Nodes, h \in Health : SetHealth(n, h)
  BY <1>1 DEF SetHealth
<1>2. CASE \E n \in Nodes : UpdateNode(n)
  BY <1>2 DEF UpdateNode
<1>3. CASE \E n \in Nodes : DeleteK8sNode(n)
  BY <1>3 DEF DeleteK8sNode
<1>4. CASE \E v \in Volumes : VolumeFails(v)
  BY <1>4 DEF VolumeFails
<1>5. CASE \E v \in Volumes : VolumeRecovers(v)
  BY <1>5 DEF VolumeRecovers
<1>6. CASE \E p \in Pods : RemovePod(p)
  BY <1>6 DEF RemovePod
<1>7. CASE \E p \in Pods : PodEvent(p)
  BY <1>7 DEF PodEvent
<1>8. CASE \E p \in Pods, pod \in Pod : CreatePod(p, pod)
  BY <1>8 DEF CreatePod
<1>9. CASE \E c \in Claims : DeletePVC(c)
  BY <1>9 DEF DeletePVC
<1>10. CASE \E v \in Volumes, n \in Nodes : Attach(v, n)
  BY <1>10 DEF Attach, VA
<1>11. CASE \E v \in Volumes, n \in Nodes : Detach(v, n)
  BY <1>11 DEF Detach
<1> QED
  BY Zenon, <1>1, <1>2, <1>3, <1>4, <1>5, <1>6, <1>7, <1>8, <1>9, <1>10, <1>11
     DEF Environment

(* A step of an action that leaves the process and the environment alone   *)
(* but for the pods and the attachments it deletes.                        *)
ActionFrame ==
    /\ UNCHANGED <<stosVars, k8sNodes, podView, pvcs, pollVars, ctrlVars, env,
                   everOffline>>
    /\ pods' \in [Pods -> Pod \cup {None}]
    /\ vas' \subseteq vas
    /\ faults' \in Nat

(* What fencePod deletes leaves the types of StorageOS, Kubernetes, the    *)
(* poller and the workers alone.                                           *)
LEMMA FrameTypes ==
    ASSUME StateOK, ActionFrame
    PROVE  EnvironmentTypes' /\ ProcessTypes'
  BY DEF StateOK, ActionFrame, EnvironmentTypes, ProcessTypes, stosVars, pollVars,
         ctrlVars

(* A step that deletes nothing, and calls an API server or not.            *)
LEMMA QuietFrame ==
    ASSUME StateOK,
           UNCHANGED <<stosVars, k8sVars, pollVars, ctrlVars, env, everOffline>>,
           Fault \/ NoFault
    PROVE  ActionFrame
  BY DEF StateOK, ActionFrame, EnvironmentTypes, Fault, NoFault, k8sVars

(* A step of the poller, the cache or a worker that starts no action.      *)
ProcessFrame ==
    /\ UNCHANGED <<stosVars, k8sVars, actVars, env, histVars>>
    /\ Fault \/ NoFault

(* Such a step need only keep the types of the process. *)
LEMMA ProcessFrameType ==
    ASSUME StateOK, ProcessFrame, ProcessTypes' PROVE StateOK'
  BY DEF StateOK, ProcessFrame, EnvironmentTypes, ActionTypes, ActionsCoherent,
         Fault, NoFault, stosVars, k8sVars, actVars, histVars

(* Which steps these are. *)
LEMMA ProcessFrames ==
    ASSUME \/ StartController \/ ListNodes \/ ApiReset
           \/ \E n \in Nodes : \/ SendNode(n) \/ CacheExpires(n) \/ GetObject(n)
                               \/ ReconcileIgnores(n) \/ ReconcileFails(n)
    PROVE  ProcessFrame
  BY Zenon DEF StartController, ListNodes, ApiReset, SendNode, CacheExpires, GetObject,
         ReconcileIgnores, ReconcileFails, ProcessFrame, NoFault

(* The steps of the poller, the cache and the workers (pollNodes,          *)
(* CacheMiss, Reconcile), and a restart, keep the types.                   *)
LEMMA ProcessType ==
    ASSUME StateOK,
           \/ StartController \/ ListNodes \/ ApiReset \/ Crash
           \/ \E n \in Nodes : \/ SendNode(n) \/ CacheExpires(n)
                               \/ Reconcile(n) \/ ReconcileFails(n)
    PROVE  StateOK'
<1> USE ProcessFrames, ProcessFrameType DEF StateOK
<1>1. CASE StartController
  <2>1. ProcessTypes'
    BY <1>1 DEF StartController, ProcessTypes, ctrlVars
  <2> QED
    BY <1>1, <2>1
<1>2. CASE ListNodes
  <2>1. [n \in Nodes |-> NodeObject(n)] \in [Nodes -> Object \cup {None}]
    BY DEF NodeObject, Object, EnvironmentTypes
  <2>2. ProcessTypes'
    BY <1>2, <2>1 DEF ListNodes, ProcessTypes, ctrlVars
  <2> QED
    BY <1>2, <2>2
<1>3. CASE ApiReset
  <2>1. ProcessTypes'
    BY <1>3 DEF ApiReset, ProcessTypes, ctrlVars
  <2> QED
    BY <1>3, <2>1
<1>4. CASE Crash
  <2>1. EnvironmentTypes'
    <3>1. UNCHANGED <<stosVars, k8sVars, env, everOffline>> /\ Fault
      BY <1>4 DEF Crash
    <3> QED
      BY <3>1 DEF EnvironmentTypes, Fault, stosVars, k8sVars
  <2>2. ProcessTypes'
    BY Zenon, <1>4 DEF Crash, ProcessTypes
  <2>3. ActionTypes' /\ ActionsCoherent'
    BY <1>4 DEF Crash, ActionTypes, ActionsCoherent, ActionPC
  <2> QED
    BY <2>1, <2>2, <2>3
<1>5. ASSUME NEW n \in Nodes, SendNode(n) PROVE StateOK'
  <2>1. ProcessTypes'
    BY <1>5 DEF SendNode, ProcessTypes
  <2> QED
    BY <1>5, <2>1
<1>6. ASSUME NEW n \in Nodes, CacheExpires(n) PROVE StateOK'
  <2>1. ProcessTypes'
    BY <1>6 DEF CacheExpires, ProcessTypes, pollVars
  <2> QED
    BY <1>6, <2>1
<1>7. ASSUME NEW n \in Nodes, GetObject(n) PROVE StateOK'
  <2>1. ProcessTypes'
    BY <1>7 DEF GetObject, ProcessTypes, pollVars
  <2> QED
    BY <1>7, <2>1
<1>8. ASSUME NEW n \in Nodes, ReconcileIgnores(n) \/ ReconcileFails(n) PROVE StateOK'
  <2>1. ProcessTypes'
    BY <1>8 DEF ReconcileIgnores, ReconcileFails, ProcessTypes, pollVars
  <2> QED
    BY <1>8, <2>1
<1>9. ASSUME NEW n \in Nodes, NEW a \in Actions, RunActionManager(n, a) PROVE StateOK'
  <2>1. EnvironmentTypes'
    BY <1>9 DEF RunActionManager, EnvironmentTypes, stosVars, k8sVars, histVars
  <2>2. ProcessTypes'
    BY <1>9 DEF RunActionManager, ProcessTypes, pollVars
  <2>3. ActionTypes'
    BY <1>9 DEF RunActionManager, ActionTypes, ActionPC, histVars
  <2>4. ActionsCoherent'
    BY <1>9, ConstantsAssumption DEF RunActionManager, ActionTypes, ActionsCoherent
  <2> QED
    BY <2>1, <2>2, <2>3, <2>4
<1> QED
  BY <1>1, <1>2, <1>3, <1>4, <1>5, <1>6, <1>7, <1>8, <1>9 DEF Reconcile

(* The steps of an action (RunAction with fenceNode, fencePod and Check)   *)
(* keep the types and the coherence of its fields.                         *)
LEMMA ActionType ==
    ASSUME StateOK, NEW a \in Actions, ActionStep(a) \/ ContextExpires(a)
    PROVE  StateOK'
<1> USE DEF StateOK
<1>1. CASE ListVAs(a)
  <2>1. ActionFrame
    BY <1>1, QuietFrame DEF ListVAs
  <2>2. ActionTypes'
    <3>1. vas \subseteq VA /\ Volumes \ volOnline \subseteq Volumes
      BY DEF EnvironmentTypes
    <3> QED
      BY <1>1, <3>1 DEF ListVAs, RunReturns, ActionTypes, ActionPC
  <2>3. ActionsCoherent'
    BY <1>1 DEF ListVAs, RunReturns, ActionTypes, ActionsCoherent
  <2> QED
    BY <2>1, <2>2, <2>3, FrameTypes
<1>2. CASE ListPods(a)
  <2>1. ActionFrame
    BY <1>2, QuietFrame, ReadPVsFaults DEF ListPods
  <2>2. ActionTypes'
    BY <1>2, TargetPods DEF ListPods, RunReturns, ActionTypes, ActionPC
  <2>3. ActionsCoherent'
    BY <1>2 DEF ListPods, RunReturns, ActionTypes, ActionsCoherent
  <2> QED
    BY <2>1, <2>2, <2>3, FrameTypes
<1>3. CASE RunEnds(a)
  <2>1. ActionFrame
    BY Zenon, <1>3, QuietFrame DEF RunEnds, NoFault
  <2>2. ActionTypes' /\ ActionsCoherent'
    BY <1>3 DEF RunEnds, RunReturns, ActionTypes, ActionsCoherent, ActionPC
  <2> QED
    BY <2>1, <2>2, FrameTypes
<1>4. ASSUME NEW p \in Pods, FencePod(a, p) PROVE StateOK'
  <2>1. ActionFrame
    BY <1>4, FencePodCases, QuietFrame DEF histVars
  <2>2. /\ apc[a] = "pods" /\ UNCHANGED <<anode, avas, aexpired, asick>>
        /\ atodo' = [atodo EXCEPT ![a] = @ \ {p}]
    BY <1>4, FencePodCases DEF histVars
  <2>3. ASSUME FencePodSkips PROVE StateOK'
    BY <2>1, <2>2, <2>3, FrameTypes DEF FencePodSkips, ActionTypes, ActionsCoherent
  <2>4. ASSUME NEW unread \in SUBSET Lookups, FencePodReads(a, p, unread) PROVE StateOK'
    <3>1. ActionTypes'
      BY <2>2, <2>4, PodPVCsFinds DEF FencePodReads, ActionTypes, ActionPC
    <3>2. ActionsCoherent'
      BY <2>2, <2>4, ConstantsAssumption DEF FencePodReads, ActionTypes, ActionsCoherent
    <3> QED
      BY <2>1, <3>1, <3>2, FrameTypes
  <2> QED
    BY <1>4, <2>3, <2>4, FencePodCases
<1>5. ASSUME NEW v \in Volumes, GetVolume(a, v) PROVE StateOK'
  <2>1. ActionFrame
    BY <1>5, QuietFrame DEF GetVolume, CallSucceeds, CallFails, histVars
  <2>2. ActionTypes'
    BY <1>5 DEF GetVolume, LeavePod, ActionTypes, ActionPC, histVars
  <2>3. ActionsCoherent'
    BY <1>5 DEF GetVolume, LeavePod, ActionTypes, ActionsCoherent
  <2> QED
    BY <2>1, <2>2, <2>3, FrameTypes
<1>6. CASE DeletePod(a)
  <2>1. ActionFrame
    <3>1. /\ UNCHANGED <<stosVars, k8sNodes, podView, pvcs, vas, pollVars, ctrlVars,
                         env, everOffline>>
          /\ Fault \/ NoFault
      BY Zenon, <1>6 DEF DeletePod, CallSucceeds, CallFails, histVars
    <3>2. pods' = pods \/ pods' = [pods EXCEPT ![apod[a]] = None]
      BY Zenon, <1>6 DEF DeletePod
    <3> QED
      BY <3>1, <3>2 DEF ActionFrame, EnvironmentTypes, Fault, NoFault
  <2>2. ActionTypes'
    BY <1>6 DEF DeletePod, LeavePod, ActionTypes, ActionPC, histVars
  <2>3. ActionsCoherent'
    BY <1>6 DEF DeletePod, LeavePod, ActionTypes, ActionsCoherent
  <2> QED
    BY <2>1, <2>2, <2>3, FrameTypes
<1>7. ASSUME NEW c \in Claims, DeleteVA(a, c) PROVE StateOK'
  <2>1. ActionFrame
    <3>1. /\ UNCHANGED <<stosVars, k8sNodes, pods, podView, pvcs, pollVars, ctrlVars,
                         env, everOffline>>
          /\ Fault \/ NoFault
      BY Zenon, <1>7 DEF DeleteVA, CallSucceeds, CallFails, histVars
    <3>2. vas' \subseteq vas
      BY <1>7 DEF DeleteVA
    <3> QED
      BY <3>1, <3>2 DEF ActionFrame, EnvironmentTypes, Fault, NoFault
  <2>2. ActionTypes' /\ ActionsCoherent'
    BY <1>7 DEF DeleteVA, ActionTypes, ActionsCoherent, histVars
  <2> QED
    BY <2>1, <2>2, FrameTypes
<1>8. CASE PodFenced(a)
  <2>1. ActionFrame
    BY Zenon, <1>8, QuietFrame DEF PodFenced, histVars, NoFault
  <2>2. ActionTypes' /\ ActionsCoherent'
    BY <1>8 DEF PodFenced, LeavePod, ActionTypes, ActionsCoherent, ActionPC, histVars
  <2> QED
    BY <2>1, <2>2, FrameTypes
<1>9. CASE CheckReruns(a)
  <2>1. ActionFrame
    BY Zenon, <1>9, QuietFrame, ReadPVsFaults DEF CheckReruns, histVars
  <2>2. ActionTypes' /\ ActionsCoherent'
    BY Zenon, <1>9 DEF CheckReruns, ActionTypes, ActionsCoherent, ActionPC, histVars
  <2> QED
    BY <2>1, <2>2, FrameTypes
<1>10. CASE CheckSucceeds(a) \/ ContextDone(a)
  <2>1. ActionFrame
    BY Zenon, <1>10, QuietFrame, ReadPVsFaults DEF CheckSucceeds, ContextDone, NoFault, histVars
  <2>2. apc[a] = "wait" /\ FreeAction(a) /\ UNCHANGED asick
    BY Zenon, <1>10 DEF CheckSucceeds, ContextDone, histVars
  <2>3. ActionTypes' /\ ActionsCoherent'
    BY <2>2 DEF FreeAction, ActionTypes, ActionsCoherent, ActionPC
  <2> QED
    BY <2>1, <2>3, FrameTypes
<1>11. CASE ContextExpires(a)
  <2>1. ActionFrame
    BY <1>11, QuietFrame DEF ContextExpires, histVars
  <2>2. ActionTypes' /\ ActionsCoherent'
    BY <1>11 DEF ContextExpires, ActionTypes, ActionsCoherent, histVars
  <2> QED
    BY <2>1, <2>2, FrameTypes
<1> QED
  BY <1>1, <1>2, <1>3, <1>4, <1>5, <1>6, <1>7, <1>8, <1>9, <1>10, <1>11
     DEF ActionStep

(* Every step keeps the types. *)
LEMMA NextType == StateOK /\ [Next]_vars => StateOK'
<1> SUFFICES ASSUME StateOK, [Next]_vars PROVE StateOK'
  OBVIOUS
<1>1. CASE UNCHANGED vars
  BY <1>1
     DEF StateOK, EnvironmentTypes, ProcessTypes, ActionTypes, ActionsCoherent, vars,
         stosVars, k8sVars, pollVars, ctrlVars, actVars, histVars
<1>2. CASE Next
  BY <1>2, EnvironmentType, ProcessType, ActionType DEF Next
<1> QED
  BY <1>1, <1>2

-----------------------------------------------------------------------------
(* Each part of the invariant, step by step.                               *)

(* The fields of the actions other than a stay. *)
OthersStay(a) ==
    \A b \in Actions \ {a} :
        /\ apc'[b] = apc[b] /\ anode'[b] = anode[b] /\ avas'[b] = avas[b]
        /\ apod'[b] = apod[b] /\ acheck'[b] = acheck[b] /\ asick'[b] = asick[b]
        /\ atodo'[b] = atodo[b] /\ adetach'[b] = adetach[b] /\ aunread'[b] = aunread[b]

(* What the steps of an action have in common: they are about a busy       *)
(* action, leave the others alone, and keep its node until it is freed.    *)
LEMMA ActionStepFrame ==
    ASSUME StateOK, NEW a \in Actions, ActionStep(a) \/ ContextExpires(a)
    PROVE  /\ UNCHANGED <<stosVars, pollVars, ctrlVars, everOffline>>
           /\ OthersStay(a)
           /\ apc[a] # "free"
           /\ apc'[a] = "free" \/ anode'[a] = anode[a]
<1> USE DEF StateOK, ActionTypes
<1>1. UNCHANGED <<stosVars, pollVars, ctrlVars, everOffline>>
  BY Zenon DEF ActionStep, ListVAs, ListPods, RunEnds, FencePod, GetVolume, DeletePod,
         DeleteVA, PodFenced, CheckReruns, CheckSucceeds, ContextDone,
         ContextExpires, histVars
<1>2. apc[a] # "free"
  BY Zenon DEF ActionStep, ListVAs, ListPods, RunEnds, FencePod, GetVolume, DeletePod,
         DeleteVA, PodFenced, CheckReruns, CheckSucceeds, ContextDone,
         ContextExpires
<1> DEFINE Kept == OthersStay(a) /\ (apc'[a] = "free" \/ anode'[a] = anode[a])
<1>3. ASSUME ListVAs(a) PROVE Kept
  BY <1>3 DEF ListVAs, RunReturns, OthersStay
<1>4. ASSUME ListPods(a) PROVE Kept
  BY <1>4 DEF ListPods, RunReturns, OthersStay
<1>5. ASSUME RunEnds(a) \/ CheckReruns(a) PROVE Kept
  BY Zenon, <1>5 DEF RunEnds, RunReturns, CheckReruns, OthersStay, histVars
<1>6. ASSUME NEW p \in Pods, FencePod(a, p) PROVE Kept
  <2>1. UNCHANGED <<anode, avas, asick>>
    BY <1>6, FencePodCases DEF histVars
  <2>2. \A b \in Actions \ {a} : atodo'[b] = atodo[b]
    BY <1>6, FencePodCases
  <2>3. \A b \in Actions \ {a} :
            /\ apc'[b] = apc[b] /\ apod'[b] = apod[b] /\ acheck'[b] = acheck[b]
            /\ adetach'[b] = adetach[b] /\ aunread'[b] = aunread[b]
    BY <1>6, FencePodCases DEF FencePodSkips, FencePodReads
  <2> QED
    BY Zenon, <2>1, <2>2, <2>3 DEF OthersStay
<1>7. ASSUME NEW v \in Volumes, GetVolume(a, v) PROVE Kept
  BY <1>7 DEF GetVolume, LeavePod, OthersStay, histVars
<1>8. ASSUME DeletePod(a) PROVE Kept
  BY <1>8 DEF DeletePod, LeavePod, OthersStay, histVars
<1>9. ASSUME NEW c \in Claims, DeleteVA(a, c) PROVE Kept
  BY <1>9 DEF DeleteVA, OthersStay, histVars
<1>10. ASSUME PodFenced(a) PROVE Kept
  BY <1>10 DEF PodFenced, LeavePod, OthersStay, histVars
<1>11. ASSUME CheckSucceeds(a) \/ ContextDone(a) PROVE Kept
  <2>1. FreeAction(a) /\ UNCHANGED asick
    BY Zenon, <1>11 DEF CheckSucceeds, ContextDone, histVars
  <2> QED
    BY <2>1, <1>1, <1>2 DEF FreeAction, OthersStay
<1>12. ASSUME ContextExpires(a) PROVE Kept
  BY <1>12 DEF ContextExpires, OthersStay, histVars
<1> QED
  BY Zenon, <1>1, <1>2, <1>3, <1>4, <1>5, <1>6, <1>7, <1>8, <1>9, <1>10, <1>11, <1>12
     DEF ActionStep

(* Every step keeps that offline reports stem from offline nodes, from     *)
(* the list of the nodes to RequireAction, and that actions are on such    *)
(* nodes.                                                                  *)
LEMMA NextOffline ==
    ASSUME IInv, [Next]_vars
    PROVE  OfflineReported' /\ OnlyOfflineNodesFenced'
<1> DEFINE Goal == OfflineReported' /\ OnlyOfflineNodesFenced'
<1> USE DEF IInv
<1>a. ProcessTypes /\ ActionTypes /\ health \in [Nodes -> Health]
  BY DEF StateOK, EnvironmentTypes
<1>b. ASSUME UNCHANGED <<actVars, histVars>> PROVE OnlyOfflineNodesFenced'
  BY <1>b DEF OnlyOfflineNodesFenced, actVars, histVars
<1>1. CASE UNCHANGED <<health, pollVars, ctrlVars, actVars, everOffline>>
  BY <1>1 DEF OfflineReported, OnlyOfflineNodesFenced, pollVars, ctrlVars, actVars
<1>2. ASSUME NEW n \in Nodes, NEW h \in Health, SetHealth(n, h) PROVE Goal
  BY <1>2, <1>a DEF SetHealth, EnvStep, OfflineReported, OnlyOfflineNodesFenced,
                    pollVars, ctrlVars, actVars
<1>3. ASSUME Environment, \A n \in Nodes, h \in Health : ~SetHealth(n, h) PROVE Goal
  <2> UNCHANGED <<health, pollVars, ctrlVars, actVars, everOffline>>
    BY Zenon, <1>3 DEF Environment, EnvStep, UpdateNode, DeleteK8sNode, VolumeFails,
                VolumeRecovers, RemovePod, PodEvent, CreatePod, DeletePVC, Attach,
                Detach, stosVars, histVars
  <2> QED
    BY <1>1
<1>4. CASE StartController \/ ApiReset
  BY Zenon, <1>4, <1>b DEF StartController, ApiReset, OfflineReported, stosVars, ctrlVars,
                    histVars
<1>5. CASE ListNodes
  <2>1. \A n \in Nodes : NodeObject(n).health = health[n]
    BY DEF NodeObject
  <2>2. OfflineReported'
    BY <1>5, <2>1 DEF ListNodes, OfflineReported, stosVars, ctrlVars, histVars
  <2> QED
    BY <1>5, <1>b, <2>2 DEF ListNodes
<1>6. CASE Crash
  BY Zenon, <1>6 DEF Crash, OfflineReported, OnlyOfflineNodesFenced, stosVars
<1>7. ASSUME NEW n \in Nodes, SendNode(n) PROVE Goal
  <2>1. OfflineReported'
    BY <1>7, <1>a DEF SendNode, OfflineReported, ProcessTypes, stosVars, histVars
  <2> QED
    BY <1>7, <1>b, <2>1 DEF SendNode
<1>8. ASSUME NEW n \in Nodes, CacheExpires(n) \/ GetObject(n) PROVE Goal
  <2>1. OfflineReported'
    BY <1>8, <1>a DEF CacheExpires, GetObject, OfflineReported, ProcessTypes, stosVars,
                      pollVars, histVars
  <2> QED
    BY <1>8, <1>b, <2>1 DEF CacheExpires, GetObject
<1>9. ASSUME NEW n \in Nodes, ReconcileIgnores(n) \/ ReconcileFails(n) PROVE Goal
  <2>1. OfflineReported'
    BY <1>9, <1>a DEF ReconcileIgnores, ReconcileFails, OfflineReported, ProcessTypes,
                      stosVars, pollVars, histVars
  <2> QED
    BY <1>9, <1>b, <2>1 DEF ReconcileIgnores, ReconcileFails
<1>10. ASSUME NEW n \in Nodes, NEW a \in Actions, RunActionManager(n, a) PROVE Goal
  <2>1. OfflineReported'
    BY <1>10, <1>a DEF RunActionManager, OfflineReported, ProcessTypes, stosVars,
                       pollVars, histVars
  <2>2. OnlyOfflineNodesFenced'
    BY Zenon, <1>10, <1>a DEF RunActionManager, RequireAction, OfflineReported,
                       OnlyOfflineNodesFenced, ActionTypes, histVars
  <2> QED
    BY <2>1, <2>2
<1>11. ASSUME NEW a \in Actions, ActionStep(a) \/ ContextExpires(a) PROVE Goal
  <2>1. /\ UNCHANGED <<stosVars, pollVars, ctrlVars, everOffline>>
        /\ OthersStay(a)
        /\ apc[a] # "free"
        /\ apc'[a] = "free" \/ anode'[a] = anode[a]
    BY Zenon, <1>11, ActionStepFrame
  <2>2. OfflineReported'
    BY Zenon, <2>1 DEF OfflineReported, stosVars, pollVars, ctrlVars
  <2>3. OnlyOfflineNodesFenced'
    BY Zenon, <2>1 DEF OnlyOfflineNodesFenced, OthersStay
  <2> QED
    BY <2>2, <2>3
<1>12. CASE UNCHANGED vars
  BY <1>1, <1>12 DEF vars, stosVars, histVars
<1> QED
  BY <1>2, <1>3, <1>4, <1>5, <1>6, <1>7, <1>8, <1>9, <1>10, <1>11, <1>12
     DEF Next, Reconcile

(* VolumesRead in the next state: the volumes of a pod are constant.       *)
LEMMA VolumesReadNext ==
    VolumesRead' <=>
        \A a \in Actions :
            SoundlyRead(apc'[a], apod'[a], acheck'[a], aunread'[a], asick'[a], volOnline')
  BY DEF VolumesRead, SoundlyRead

(* A step about one action need only be looked at for that action. *)
LEMMA OneAction ==
    ASSUME VolumesRead, AttachmentsOfNode, NEW a \in Actions,
           UNCHANGED volOnline, OthersStay(a),
           SoundlyRead(apc'[a], apod'[a], acheck'[a], aunread'[a], asick'[a], volOnline),
           \A va \in avas'[a] : va[2] = anode'[a],
           apc'[a] = "wait" => avas'[a] = {}
    PROVE  VolumesRead' /\ AttachmentsOfNode'
<1>1. VolumesRead'
  BY VolumesReadNext DEF VolumesRead, OthersStay
<1>2. AttachmentsOfNode'
  <2> SUFFICES ASSUME NEW b \in Actions
               PROVE  /\ \A va \in avas'[b] : va[2] = anode'[b]
                      /\ apc'[b] = "wait" => avas'[b] = {}
    BY Zenon DEF AttachmentsOfNode
  <2>1. CASE b = a
    BY Zenon, <2>1
  <2>2. CASE b # a
    <3>1. avas'[b] = avas[b] /\ anode'[b] = anode[b] /\ apc'[b] = apc[b]
      BY Zenon, <2>2 DEF OthersStay
    <3> QED
      BY Zenon, <3>1 DEF AttachmentsOfNode
  <2> QED
    BY Zenon, <2>1, <2>2
<1> QED
  BY <1>1, <1>2

(* Every step keeps what an action knows of the volumes it has read and    *)
(* of the attachments it has listed.                                       *)
LEMMA NextActions ==
    ASSUME IInv, [Next]_vars
    PROVE  VolumesRead' /\ AttachmentsOfNode'
<1> DEFINE Goal == VolumesRead' /\ AttachmentsOfNode'
<1> USE DEF IInv
<1>a. ActionTypes /\ ActionsCoherent
  BY DEF StateOK
<1>1. CASE UNCHANGED <<volOnline, actVars, asick>>
  BY Zenon, <1>1, VolumesReadNext DEF VolumesRead, AttachmentsOfNode, actVars
<1>2. ASSUME NEW v \in Volumes, VolumeFails(v) \/ VolumeRecovers(v) PROVE Goal
  <2>1. UNCHANGED actVars
    BY Zenon, <1>2 DEF VolumeFails, VolumeRecovers, EnvStep
  <2>2. \A a \in Actions : /\ asick'[a] \subseteq asick[a]
                          /\ asick'[a] \cap volOnline' = {}
    BY <1>2 DEF VolumeFails, VolumeRecovers, VolumesRead, SoundlyRead, histVars
  <2>3. VolumesRead'
    BY Zenon, <2>1, <2>2, VolumesReadNext DEF VolumesRead, SoundlyRead, actVars
  <2>4. AttachmentsOfNode'
    BY <2>1 DEF AttachmentsOfNode, actVars
  <2> QED
    BY <2>3, <2>4
<1>3. CASE Crash
  <2>1. VolumesRead'
    BY Zenon, <1>3, VolumesReadNext DEF Crash, SoundlyRead
  <2>2. AttachmentsOfNode'
    BY <1>3 DEF Crash, AttachmentsOfNode
  <2> QED
    BY <2>1, <2>2
<1>4. ASSUME NEW n \in Nodes, NEW a \in Actions, RunActionManager(n, a) PROVE Goal
  <2>1. anode[a] = None
    BY Zenon, <1>4, <1>a DEF RunActionManager, ActionsCoherent
  <2>2. \A va \in VA : va[2] \in Nodes
    BY DEF VA
  <2>3. avas'[a] = {}
    BY Zenon, <1>4, <1>a, <2>1, <2>2, ConstantsAssumption
       DEF RunActionManager, ActionTypes, AttachmentsOfNode
  <2>4. apc'[a] = "listVAs" /\ OthersStay(a)
    BY Zenon, <1>4, <1>a DEF RunActionManager, ActionTypes, OthersStay, histVars
  <2>5. UNCHANGED <<volOnline, apod, acheck, aunread, asick>>
    BY <1>4 DEF RunActionManager, stosVars, histVars
  <2>6. SoundlyRead(apc'[a], apod'[a], acheck'[a], aunread'[a], asick'[a], volOnline)
    BY Zenon, <2>4, <2>5 DEF VolumesRead, SoundlyRead
  <2> QED
    BY Zenon, <2>3, <2>4, <2>5, <2>6, OneAction
<1>5. ASSUME NEW a \in Actions, ActionStep(a) \/ ContextExpires(a) PROVE Goal
  <2> DEFINE Sound == SoundlyRead(apc'[a], apod'[a], acheck'[a], aunread'[a], asick'[a],
                                  volOnline)
             Listed == /\ \A va \in avas'[a] : va[2] = anode'[a]
                       /\ apc'[a] = "wait" => avas'[a] = {}
  <2> USE <1>a DEF ActionTypes
  <2>1. UNCHANGED volOnline /\ OthersStay(a)
    BY Zenon, <1>5, ActionStepFrame DEF stosVars
  <2>2. SoundlyRead(apc[a], apod[a], acheck[a], aunread[a], asick[a], volOnline)
    BY DEF VolumesRead
  <2>3. /\ \A va \in avas[a] : va[2] = anode[a]
        /\ apc[a] = "wait" => avas[a] = {}
    BY DEF AttachmentsOfNode
  <2>4. ASSUME ListVAs(a) PROVE Sound /\ Listed
    <3>1. /\ apc'[a] \in {"listPods", "wait"}
          /\ asick'[a] = {} \/ asick'[a] = Volumes \ volOnline
      BY <2>4 DEF ListVAs, RunReturns
    <3>2. Sound
      BY Zenon, <3>1 DEF SoundlyRead
    <3>3. Listed
      <4>1. UNCHANGED anode
        BY <2>4 DEF ListVAs
      <4>2. \/ avas'[a] = {}
            \/ apc'[a] = "listPods" /\ avas'[a] = {va \in vas : va[2] = anode[a]}
        BY <2>4 DEF ListVAs, RunReturns
      <4> QED
        BY Zenon, <2>3, <4>1, <4>2
    <3> QED
      BY Zenon, <3>2, <3>3
  <2>5. ASSUME ListPods(a) \/ RunEnds(a) \/ CheckReruns(a) PROVE Sound /\ Listed
    <3>1. /\ UNCHANGED anode /\ apc'[a] \in {"pods", "wait", "listVAs"}
          /\ asick'[a] = {} \/ asick'[a] = asick[a]
          /\ avas'[a] = {} \/ (avas'[a] = avas[a] /\ apc'[a] # "wait")
      BY Zenon, <2>5 DEF ListPods, RunEnds, CheckReruns, RunReturns, histVars
    <3> QED
      BY Zenon, <2>2, <2>3, <3>1 DEF SoundlyRead
  <2>6. ASSUME NEW p \in Pods, FencePod(a, p) PROVE Sound /\ Listed
    <3>1. UNCHANGED <<asick, avas, anode>>
      BY <2>6, FencePodCases DEF histVars
    <3>2. ASSUME FencePodSkips PROVE Sound /\ Listed
      BY Zenon, <2>2, <2>3, <3>1, <3>2 DEF FencePodSkips, SoundlyRead
    <3>3. ASSUME NEW unread, FencePodReads(a, p, unread) PROVE Sound /\ Listed
      <4>1. /\ apc'[a] = "delete" => acheck'[a] = {}
            /\ apc'[a] # "wait" /\ apod'[a] = p /\ acheck'[a] = VolKeys(PodPVCs(p, unread))
            /\ aunread'[a] = unread
        BY <3>3 DEF FencePodReads
      <4>2. \A c \in ClaimsOf[p] :
                PVDriver[c] = "storageos" /\ VolumeOf[c] \in asick[a] =>
                    VolumeOf[c] \in VolKeys(PodPVCs(p, unread)) \/ <<p, c>> \in unread
        BY PodPVCsFinds, ConstantsAssumption
      <4> QED
        BY Zenon, <2>2, <2>3, <3>1, <4>1, <4>2 DEF SoundlyRead
    <3> QED
      BY Zenon, <2>6, <3>2, <3>3, FencePodCases
  <2>7. ASSUME NEW v \in Volumes, GetVolume(a, v) PROVE Sound /\ Listed
    <3>1. UNCHANGED <<asick, avas, anode>> /\ apc[a] = "volumes"
      BY <2>7 DEF GetVolume, histVars
    <3>2. CASE LeavePod(a)
      <4>1. apc'[a] = "pods"
        BY <3>2 DEF LeavePod
      <4> QED
        BY Zenon, <2>2, <2>3, <3>1, <4>1 DEF SoundlyRead
    <3>3. CASE ~LeavePod(a)
      <4>1. /\ v \in volOnline
            /\ UNCHANGED <<apod, aunread>>
            /\ acheck'[a] = acheck[a] \ {v}
            /\ apc'[a] = IF acheck[a] = {v} THEN "delete" ELSE apc[a]
        BY <2>7, <3>3 DEF GetVolume
      <4> QED
        BY Zenon, <2>2, <2>3, <3>1, <4>1 DEF SoundlyRead
    <3> QED
      BY Zenon, <3>2, <3>3
  <2>8. ASSUME DeletePod(a) \/ PodFenced(a) PROVE Sound /\ Listed
    BY Zenon, <2>2, <2>3, <2>8 DEF DeletePod, PodFenced, LeavePod, SoundlyRead, histVars
  <2>9. ASSUME NEW c \in Claims, DeleteVA(a, c) PROVE Sound /\ Listed
    BY <2>2, <2>3, <2>9 DEF DeleteVA, histVars
  <2>10. ASSUME CheckSucceeds(a) \/ ContextDone(a) PROVE Sound /\ Listed
    <3>1. FreeAction(a) /\ UNCHANGED asick /\ apc[a] = "wait"
      BY Zenon, <2>10 DEF CheckSucceeds, ContextDone, histVars
    <3> QED
      BY Zenon, <2>2, <2>3, <3>1 DEF FreeAction, SoundlyRead
  <2>11. ASSUME ContextExpires(a) PROVE Sound /\ Listed
    BY <2>2, <2>3, <2>11 DEF ContextExpires, histVars
  <2>12. Sound /\ Listed
    BY Zenon, <1>5, <2>4, <2>5, <2>6, <2>7, <2>8, <2>9, <2>10, <2>11 DEF ActionStep
  <2> QED
    BY Zenon, <2>1, <2>12, OneAction
<1>6. CASE UNCHANGED vars
  BY <1>1, <1>6 DEF vars, stosVars, histVars
<1>7. CASE Environment
  BY Zenon, <1>1, <1>2, <1>7
     DEF Environment, EnvStep, SetHealth, UpdateNode, DeleteK8sNode, RemovePod,
         PodEvent, CreatePod, DeletePVC, Attach, Detach, stosVars, histVars
<1>8. CASE \/ StartController \/ ListNodes \/ ApiReset
           \/ \E n \in Nodes : \/ SendNode(n) \/ CacheExpires(n) \/ GetObject(n)
                               \/ ReconcileIgnores(n) \/ ReconcileFails(n)
  BY <1>1, <1>8, ProcessFrames DEF ProcessFrame, stosVars, histVars
<1> QED
  BY <1>3, <1>4, <1>5, <1>6, <1>7, <1>8 DEF Next, Reconcile

(* PodsPlaced in the next state: the claims of a pod are constant. *)
LEMMA PodsPlacedNext ==
    PodsPlaced' <=>
        \A a \in Actions : WellPlaced(apc'[a], anode'[a], atodo'[a], apod'[a],
                                      adetach'[a], placed', evicted')
  BY Zenon DEF PodsPlaced, WellPlaced

(* A step about one action need only be looked at for that action, as the  *)
(* histories only grow.                                                    *)
LEMMA OnePlaced ==
    ASSUME PodsPlaced, NEW a \in Actions, OthersStay(a),
           placed \subseteq placed', evicted \subseteq evicted',
           WellPlaced(apc'[a], anode'[a], atodo'[a], apod'[a], adetach'[a],
                      placed', evicted')
    PROVE  PodsPlaced'
<1>1. ASSUME NEW b \in Actions, b # a
      PROVE  WellPlaced(apc'[b], anode'[b], atodo'[b], apod'[b], adetach'[b],
                        placed', evicted')
  <2>1. WellPlaced(apc[b], anode[b], atodo[b], apod[b], adetach[b], placed, evicted)
    BY Zenon DEF PodsPlaced
  <2>2. /\ apc'[b] = apc[b] /\ anode'[b] = anode[b] /\ atodo'[b] = atodo[b]
        /\ apod'[b] = apod[b] /\ adetach'[b] = adetach[b]
    BY Zenon, <1>1 DEF OthersStay
  <2> QED
    BY Zenon, <2>1, <2>2 DEF WellPlaced
<1> QED
  BY Zenon, <1>1, PodsPlacedNext

(* Every step keeps track of where labelled pods were, from Kubernetes     *)
(* through the informer and getTargetPods to fencePod.                     *)
LEMMA NextPlaced ==
    ASSUME IInv, [Next]_vars
    PROVE  HistoryTypes' /\ SeenPlaced' /\ PodsPlaced'
<1> DEFINE Goal == HistoryTypes' /\ SeenPlaced' /\ PodsPlaced'
<1> USE DEF IInv
<1>a. /\ ActionTypes /\ ActionsCoherent
      /\ pods \in [Pods -> Pod \cup {None}] /\ podView \in [Pods -> Pod \cup {None}]
  BY DEF StateOK, EnvironmentTypes
<1>b. ASSUME UNCHANGED <<pods, podView, podHist>> PROVE HistoryTypes' /\ SeenPlaced'
  BY <1>b DEF HistoryTypes, SeenPlaced, podHist
<1>1. CASE UNCHANGED <<pods, podView, podHist, actVars>>
  BY Zenon, <1>1, <1>b, PodsPlacedNext DEF PodsPlaced, podHist, actVars
<1>2. ASSUME NEW p \in Pods, NEW pod \in Pod, CreatePod(p, pod) PROVE Goal
  <2>1. /\ UNCHANGED <<actVars, podView, evicted>>
        /\ pods' = [pods EXCEPT ![p] = pod]
        /\ placed' = IF pod.fenced THEN placed \cup {<<p, pod.node>>} ELSE placed
    BY <1>2 DEF CreatePod, EnvStep
  <2>2. placed \subseteq placed' /\ pod.node \in Nodes
    BY <2>1 DEF Pod
  <2>3. HistoryTypes'
    BY <2>1, <2>2 DEF HistoryTypes
  <2>4. SeenPlaced'
    BY Zenon, <1>a, <2>1, <2>2 DEF SeenPlaced
  <2>5. PodsPlaced'
    BY Zenon, <2>1, <2>2, PodsPlacedNext DEF PodsPlaced, WellPlaced, actVars
  <2> QED
    BY <2>3, <2>4, <2>5
<1>3. ASSUME NEW p \in Pods, RemovePod(p) \/ PodEvent(p) PROVE Goal
  <2>1. /\ UNCHANGED <<actVars, podHist>>
        /\ \/ UNCHANGED podView /\ pods' = [pods EXCEPT ![p] = None]
           \/ UNCHANGED pods /\ podView' = [podView EXCEPT ![p] = pods[p]]
    BY <1>3 DEF RemovePod, PodEvent, EnvStep, histVars
  <2>2. HistoryTypes'
    BY <2>1 DEF HistoryTypes, podHist
  <2>3. SeenPlaced'
    BY Zenon, <1>a, <2>1 DEF SeenPlaced, podHist
  <2>4. PodsPlaced'
    BY Zenon, <2>1, PodsPlacedNext DEF PodsPlaced, actVars, podHist
  <2> QED
    BY <2>2, <2>3, <2>4
<1>4. CASE Crash
  <2>1. HistoryTypes' /\ SeenPlaced'
    BY <1>4, <1>b DEF Crash, k8sVars
  <2>2. PodsPlaced'
    BY Zenon, <1>4, PodsPlacedNext DEF Crash, WellPlaced
  <2> QED
    BY <2>1, <2>2
<1>5. ASSUME NEW n \in Nodes, NEW a \in Actions, RunActionManager(n, a) PROVE Goal
  <2>1. UNCHANGED <<pods, podView, podHist, atodo, apod, adetach>>
    BY <1>5 DEF RunActionManager, k8sVars, histVars
  <2>2. apc[a] = "free" /\ apod[a] = None /\ apc'[a] = "listVAs" /\ OthersStay(a)
    BY Zenon, <1>5, <1>a DEF RunActionManager, ActionTypes, ActionsCoherent, OthersStay, histVars
  <2>3. atodo[a] = {}
    BY Zenon, <2>2 DEF PodsPlaced, WellPlaced
  <2>4. WellPlaced(apc'[a], anode'[a], atodo'[a], apod'[a], adetach'[a], placed', evicted')
    BY Zenon, <2>1, <2>2, <2>3 DEF WellPlaced
  <2> QED
    BY Zenon, <1>b, <2>1, <2>2, <2>4, OnePlaced DEF podHist
<1>6. ASSUME NEW a \in Actions, ActionStep(a) \/ ContextExpires(a) PROVE Goal
  <2> DEFINE Placed == WellPlaced(apc'[a], anode'[a], atodo'[a], apod'[a], adetach'[a],
                                  placed', evicted')
             Quiet == UNCHANGED <<pods, podView, podHist>>
  <2> USE <1>a DEF ActionTypes
  <2>1. OthersStay(a)
    BY Zenon, <1>6, ActionStepFrame
  <2>2. WellPlaced(apc[a], anode[a], atodo[a], apod[a], adetach[a], placed, evicted)
    BY DEF PodsPlaced
  <2>3. ASSUME Quiet, Placed PROVE Goal
    BY Zenon, <1>b, <2>1, <2>3, OnePlaced DEF podHist
  <2>4. ASSUME ListVAs(a) PROVE Quiet /\ Placed
    BY Zenon, <2>2, <2>4 DEF ListVAs, RunReturns, k8sVars, podHist, WellPlaced
  <2>5. ASSUME ListPods(a) PROVE Quiet /\ Placed
    <3>1. Quiet /\ UNCHANGED <<anode, apod, adetach>> /\ apc[a] = "listPods"
      BY <2>5 DEF ListPods, k8sVars
    <3>2. \/ apc'[a] = "pods" /\ \E unread : atodo'[a] = GetTargetPods(anode[a], unread)
          \/ UNCHANGED atodo /\ apc'[a] = "wait"
      BY <2>5 DEF ListPods, RunReturns
    <3>3. \A unread : \A p \in GetTargetPods(anode[a], unread) : <<p, anode[a]>> \in placed
      <4>1. \A p \in Labelled(anode[a]) : <<p, anode[a]>> \in placed
        BY Zenon DEF Labelled, SeenPlaced
      <4> QED
        BY <4>1 DEF GetTargetPods
    <3>4. \/ apc'[a] = "pods" /\ \A p \in atodo'[a] : <<p, anode[a]>> \in placed
          \/ apc'[a] = "wait" /\ UNCHANGED atodo
      BY <3>2, <3>3
    <3> QED
      BY Zenon, <2>2, <3>1, <3>4 DEF WellPlaced, podHist
  <2>6. ASSUME NEW p \in Pods, FencePod(a, p) PROVE Quiet /\ Placed
    <3>1. /\ Quiet /\ UNCHANGED anode /\ apc[a] = "pods"
          /\ p \in atodo[a] /\ atodo'[a] = atodo[a] \ {p}
      BY <2>6, FencePodCases DEF k8sVars, histVars
    <3>2. \/ UNCHANGED <<apc, apod, adetach>>
          \/ /\ apc'[a] \in {"volumes", "delete"} /\ apod'[a] = p
             /\ adetach'[a] \subseteq ClaimsOf[p]
      <4>1. ASSUME NEW unread, FencePodReads(a, p, unread)
            PROVE  /\ apc'[a] \in {"volumes", "delete"} /\ apod'[a] = p
                   /\ adetach'[a] = PodPVCs(p, unread)
        BY <4>1 DEF FencePodReads
      <4>2. \A unread : PodPVCs(p, unread) \subseteq ClaimsOf[p]
        BY Zenon, PodPVCsFinds
      <4>3. ASSUME FencePodSkips PROVE UNCHANGED <<apc, apod, adetach>>
        BY <4>3 DEF FencePodSkips
      <4>4. FencePodSkips \/ \E unread : FencePodReads(a, p, unread)
        BY Zenon, <2>6, FencePodCases
      <4> QED
        BY Zenon, <4>1, <4>2, <4>3, <4>4
    <3> QED
      BY Zenon, <2>2, <3>1, <3>2 DEF WellPlaced, podHist
  <2>7. ASSUME LeavePod(a), Quiet, UNCHANGED <<anode, atodo>> PROVE Placed
    BY Zenon, <2>2, <2>7 DEF LeavePod, WellPlaced, podHist
  <2>8. ASSUME NEW v \in Volumes, GetVolume(a, v) PROVE Quiet /\ Placed
    <3>1. Quiet /\ UNCHANGED <<anode, atodo>> /\ apc[a] = "volumes"
      BY Zenon, <2>8 DEF GetVolume, k8sVars, histVars
    <3>2. \/ LeavePod(a)
          \/ UNCHANGED <<apod, adetach>> /\ apc'[a] \in {"volumes", "delete"}
      BY <2>8 DEF GetVolume
    <3> QED
      BY Zenon, <2>2, <2>7, <3>1, <3>2 DEF WellPlaced, podHist
  <2>9. ASSUME DeletePod(a) PROVE Goal
    <3>1. UNCHANGED <<podView, anode, atodo, placed>> /\ apc[a] = "delete"
      BY <2>9 DEF DeletePod
    <3>2. CASE LeavePod(a) /\ UNCHANGED <<pods, evicted>>
      BY Zenon, <2>3, <2>7, <3>1, <3>2 DEF podHist
    <3>3. CASE /\ pods' = [pods EXCEPT ![apod[a]] = None]
               /\ evicted' = evicted \cup {<<apod[a], anode[a]>>}
               /\ apc'[a] = "detach" /\ UNCHANGED <<apod, adetach>>
      <4>1. <<apod[a], anode[a]>> \in placed
        BY Zenon, <2>2, <3>1 DEF WellPlaced, ActionsCoherent
      <4>2. HistoryTypes'
        BY <3>1, <3>3, <4>1 DEF HistoryTypes
      <4>3. SeenPlaced'
        BY Zenon, <3>1, <3>3 DEF SeenPlaced
      <4>4. Placed
        BY Zenon, <2>2, <3>1, <3>3 DEF WellPlaced
      <4> QED
        BY Zenon, <2>1, <3>1, <3>3, <4>2, <4>3, <4>4, OnePlaced
    <3> QED
      BY Zenon, <2>9, <3>2, <3>3 DEF DeletePod
  <2>10. ASSUME NEW c \in Claims, DeleteVA(a, c) PROVE Quiet /\ Placed
    <3>1. Quiet /\ UNCHANGED <<apc, anode, atodo, apod>> /\ adetach'[a] \subseteq adetach[a]
      BY <2>10 DEF DeleteVA, histVars
    <3> QED
      BY Zenon, <2>2, <3>1 DEF WellPlaced, podHist
  <2>11. ASSUME PodFenced(a) PROVE Quiet /\ Placed
    BY Zenon, <2>7, <2>11 DEF PodFenced, k8sVars, histVars
  <2>12. ASSUME RunEnds(a) \/ CheckReruns(a) PROVE Quiet /\ Placed
    <3>1. /\ Quiet /\ UNCHANGED <<anode, atodo, apod, adetach>>
          /\ apc'[a] \in {"wait", "listVAs"}
          /\ apc[a] = "wait" \/ atodo[a] = {}
      BY Zenon, <2>12 DEF RunEnds, RunReturns, CheckReruns, k8sVars, histVars
    <3> QED
      BY Zenon, <2>2, <3>1 DEF WellPlaced, podHist
  <2>13. ASSUME CheckSucceeds(a) \/ ContextDone(a) PROVE Quiet /\ Placed
    <3>1. apc[a] = "wait" /\ FreeAction(a) /\ Quiet
      BY Zenon, <2>13 DEF CheckSucceeds, ContextDone, k8sVars, histVars
    <3>2. atodo[a] = {} /\ apod[a] = None
      BY Zenon, <2>2, <3>1 DEF WellPlaced, ActionsCoherent
    <3> QED
      BY Zenon, <3>1, <3>2 DEF FreeAction, WellPlaced
  <2>14. ASSUME ContextExpires(a) PROVE Quiet /\ Placed
    BY <2>2, <2>14 DEF ContextExpires, k8sVars, histVars, podHist
  <2> QED
    BY Zenon, <1>6, <2>3, <2>4, <2>5, <2>6, <2>8, <2>9, <2>10, <2>11, <2>12, <2>13, <2>14
       DEF ActionStep
<1>7. CASE UNCHANGED vars
  BY <1>1, <1>7 DEF vars, k8sVars, histVars
<1>8. CASE Environment
  BY Zenon, <1>1, <1>2, <1>3, <1>8
     DEF Environment, EnvStep, SetHealth, UpdateNode, DeleteK8sNode, VolumeFails,
         VolumeRecovers, DeletePVC, Attach, Detach, k8sVars, histVars
<1>9. CASE \/ StartController \/ ListNodes \/ ApiReset
           \/ \E n \in Nodes : \/ SendNode(n) \/ CacheExpires(n) \/ GetObject(n)
                               \/ ReconcileIgnores(n) \/ ReconcileFails(n)
  BY <1>1, <1>9, ProcessFrames DEF ProcessFrame, k8sVars, histVars
<1> QED
  BY <1>4, <1>5, <1>6, <1>7, <1>8, <1>9 DEF Next, Reconcile

(* The invariant that the theorems rest on is inductive. *)
THEOREM Inductive == Spec => []IInv
<1>1. IInv /\ [Next]_vars => IInv'
  BY NextType, NextOffline, NextActions, NextPlaced DEF IInv
<1> QED
  BY InitInv, <1>1, PTL DEF Spec

-----------------------------------------------------------------------------
(* Every variable keeps its type, and the fields of an action are set and  *)
(* dropped together, whatever the number of concurrent actions.            *)
THEOREM TypeCorrect == Spec => []TypeOK
<1>1. IInv => TypeOK
  BY DEF IInv, TypeOK
<1> QED
  BY Inductive, <1>1, PTL

(* Every action is on a node that StorageOS reported offline at some time: *)
(* RequireAction is never satisfied by an object from any other node,      *)
(* however long poller, cache and queue held it.                           *)
THEOREM OfflineOnly == Spec => []OnlyOfflineNodesFenced
<1>1. IInv => OnlyOfflineNodesFenced
  BY DEF IInv
<1> QED
  BY Inductive, <1>1, PTL

(* fencePod only gets to its delete when no StorageOS volume of the pod,   *)
(* by the driver of its PV, has been unhealthy throughout the run, but for *)
(* those whose PV podPVCs failed to look up.                               *)
THEOREM SickVolumesRespected == Spec => []SickVolumePodsKept
<1>1. IInv => SickVolumePodsKept
  BY DEF IInv, VolumesRead, SoundlyRead, SickVolumePodsKept
<1> QED
  BY Inductive, <1>1, PTL

(* The attachments an action deletes are of its node, which was offline;   *)
(* any other attachment that goes was detached when no longer in use.      *)
THEOREM AttachmentsKept == Spec => HealthyAttachmentsKept
<1> DEFINE Kept == \A va \in vas \ vas' : va[2] \in everOffline \/ ~InUse(va[1], va[2])
<1>1. IInv /\ [Next]_vars => [Kept]_vars
  <2> SUFFICES ASSUME IInv, Next PROVE Kept
    OBVIOUS
  <2> USE DEF stosVars, k8sVars, pollVars, ctrlVars, actVars, histVars
  <2>1. CASE UNCHANGED vas
    BY <2>1
  <2>2. ASSUME NEW v \in Volumes, NEW n \in Nodes, Attach(v, n) \/ Detach(v, n)
        PROVE  Kept
    <3>1. CASE Attach(v, n)
      BY <3>1 DEF Attach
    <3>2. CASE Detach(v, n)
      <4>1. ~InUse(v, n) /\ \A va \in vas \ vas' : va = <<v, n>>
        BY <3>2 DEF Detach
      <4> QED
        BY <4>1
    <3> QED
      BY <2>2, <3>1, <3>2
  <2>3. ASSUME NEW a \in Actions, NEW c \in Claims, DeleteVA(a, c)
        PROVE  Kept
    <3>1. vas \ vas' \subseteq PvcVA(a, c) /\ apc[a] # "free"
      BY Zenon, <2>3 DEF DeleteVA
    <3>2. \A va \in PvcVA(a, c) : va[2] = anode[a]
      BY DEF PvcVA, IInv, AttachmentsOfNode
    <3> QED
      BY <3>1, <3>2 DEF IInv, OnlyOfflineNodesFenced
  <2>4. CASE Environment
    BY Zenon, <2>1, <2>2, <2>4
       DEF Environment, EnvStep, SetHealth, UpdateNode, DeleteK8sNode, RemovePod,
           PodEvent, CreatePod, DeletePVC, VolumeFails, VolumeRecovers
  <2>5. ASSUME NEW a \in Actions, ActionStep(a) \/ ContextExpires(a)
        PROVE  Kept
    BY Zenon, <2>1, <2>3, <2>5
       DEF ActionStep, ListVAs, ListPods, RunEnds, FencePod, GetVolume, DeletePod,
           PodFenced, CheckReruns, CheckSucceeds, ContextDone, ContextExpires
  <2>6. CASE \/ StartController \/ ListNodes \/ ApiReset \/ Crash
             \/ \E n \in Nodes : \/ SendNode(n) \/ CacheExpires(n) \/ Reconcile(n)
                                 \/ ReconcileFails(n)
    BY Zenon, <2>1, <2>6
       DEF StartController, ListNodes, ApiReset, Crash, SendNode, CacheExpires,
           Reconcile, GetObject, ReconcileIgnores, ReconcileFails, RunActionManager
  <2> QED
    BY <2>4, <2>5, <2>6 DEF Next
<1>2. HealthyAttachmentsKept <=> [][Kept]_vars
  BY DEF HealthyAttachmentsKept
<1> QED
  BY Inductive, <1>1, <1>2, PTL DEF Spec

-----------------------------------------------------------------------------
(* The fencer evicts pods as Eviction says.                                *)

(* A step that leaves pods and attachments alone, or that the environment  *)
(* makes, is one the promise allows anyone.                                *)
LEMMA EnvironmentEvicts ==
    ASSUME IInv, Environment
    PROVE  Evictions!Next \/ UNCHANGED Evictions!vars
<1> USE DEF stosVars, k8sVars, histVars, podHist
<1>1. CASE UNCHANGED <<pods, vas, everOffline, podHist>>
  BY <1>1 DEF Evictions!vars
<1>2. ASSUME NEW n \in Nodes, NEW h \in Health, SetHealth(n, h)
      PROVE  Evictions!Report(n) \/ UNCHANGED Evictions!vars
  BY <1>2 DEF SetHealth, Evictions!Report, Evictions!vars
<1>3. ASSUME NEW p \in Pods, NEW pod \in Pod, CreatePod(p, pod)
      PROVE  Evictions!Run(p, pod)
  BY <1>3 DEF CreatePod, Evictions!Run
<1>4. ASSUME NEW p \in Pods, RemovePod(p) PROVE Evictions!Remove(p)
  BY <1>4 DEF RemovePod, Evictions!Remove
<1>5. \A v, n : InUse(v, n) <=> Evictions!Used(v, n)
  BY DEF InUse, Evictions!Used
<1>6. ASSUME NEW v \in Volumes, NEW n \in Nodes, Attach(v, n) PROVE Evictions!Attach(v, n)
  BY <1>5, <1>6 DEF Attach, Evictions!Attach
<1>7. ASSUME NEW v \in Volumes, NEW n \in Nodes, Detach(v, n) PROVE Evictions!Detach(v, n)
  BY <1>5, <1>7 DEF Detach, Evictions!Detach
<1>8. ASSUME \/ \E n \in Nodes : UpdateNode(n) \/ DeleteK8sNode(n)
             \/ \E v \in Volumes : VolumeFails(v) \/ VolumeRecovers(v)
             \/ \E p \in Pods : PodEvent(p)
             \/ \E c \in Claims : DeletePVC(c)
      PROVE  UNCHANGED <<pods, vas, everOffline, podHist>>
  BY <1>8 DEF UpdateNode, DeleteK8sNode, VolumeFails, VolumeRecovers, PodEvent, DeletePVC
<1>9. Evictions!Pod = Pod
  BY DEF Pod, Evictions!Pod
<1> QED
  BY <1>1, <1>2, <1>3, <1>4, <1>6, <1>7, <1>8, <1>9 DEF Environment, Evictions!Next

(* The delete of fencePod is an eviction, for the node of its action ... *)
LEMMA DeletePodEvicts ==
    ASSUME IInv, NEW a \in Actions, DeletePod(a)
    PROVE  Evictions!Next \/ UNCHANGED Evictions!vars
<1>1. /\ UNCHANGED <<vas, everOffline, placed>>
      /\ apc[a] = "delete"
      /\ \/ UNCHANGED <<pods, evicted>>
         \/ /\ pods' = [pods EXCEPT ![apod[a]] = None]
            /\ evicted' = evicted \cup {<<apod[a], anode[a]>>}
  BY Zenon DEF DeletePod
<1>2. /\ apod[a] \in Pods /\ apod[a] # None
      /\ anode[a] \in Nodes /\ anode[a] \in everOffline
  BY <1>1, ConstantsAssumption DEF IInv, StateOK, EnvironmentTypes, ActionTypes, ActionsCoherent,
              OnlyOfflineNodesFenced
<1>3. <<apod[a], anode[a]>> \in placed
  BY Zenon, <1>1, <1>2 DEF IInv, PodsPlaced, WellPlaced
<1>4. CASE UNCHANGED <<pods, evicted>>
  BY Zenon, <1>1, <1>4 DEF Evictions!vars
<1>5. CASE /\ pods' = [pods EXCEPT ![apod[a]] = None]
           /\ evicted' = evicted \cup {<<apod[a], anode[a]>>}
  <2>1. Evictions!Evict(apod[a], anode[a])
    BY Zenon, <1>1, <1>2, <1>3, <1>5 DEF Evictions!Evict
  <2> QED
    BY Zenon, <1>2, <2>1 DEF Evictions!Next
<1> QED
  BY Zenon, <1>1, <1>4, <1>5

(* ... and the attachment it then deletes is of that pod and that node. *)
LEMMA DeleteVADetaches ==
    ASSUME IInv, NEW a \in Actions, NEW c \in Claims, DeleteVA(a, c)
    PROVE  Evictions!Next \/ UNCHANGED Evictions!vars
<1>1. /\ UNCHANGED <<pods, everOffline, placed, evicted>>
      /\ apc[a] = "detach" /\ c \in adetach[a]
      /\ UNCHANGED vas \/ (PVDriver[c] = "storageos" /\ vas' = vas \ PvcVA(a, c))
  BY Zenon DEF DeleteVA, histVars, podHist
<1>2. /\ avas[a] \subseteq VA /\ vas \subseteq VA
      /\ apod[a] \in Pods /\ apod[a] # None /\ anode[a] \in Nodes
  BY <1>1, ConstantsAssumption DEF IInv, StateOK, EnvironmentTypes, ActionTypes, ActionsCoherent
<1>3. <<apod[a], anode[a]>> \in evicted /\ c \in ClaimsOf[apod[a]]
  BY Zenon, <1>1, <1>2 DEF IInv, PodsPlaced, WellPlaced
<1>4. \A va \in PvcVA(a, c) : va = <<VolumeOf[c], anode[a]>> /\ VolumeOf[c] \in Volumes
  <2>1. \A va \in avas[a] : va = <<va[1], va[2]>> /\ va[1] \in Volumes /\ va[2] = anode[a]
    BY <1>2 DEF IInv, AttachmentsOfNode, VA
  <2> QED
    BY <2>1 DEF PvcVA
<1>5. CASE vas' = vas
  BY <1>1, <1>5 DEF Evictions!vars
<1>6. CASE vas' # vas
  <2>1. PvcVA(a, c) # {} /\ vas' = vas \ PvcVA(a, c) /\ PVDriver[c] = "storageos"
    BY Zenon, <1>1, <1>6
  <2>2. PvcVA(a, c) = {<<VolumeOf[c], anode[a]>>} /\ VolumeOf[c] \in Volumes
    BY <1>4, <2>1
  <2>3. VolumeOf[c] \in StosVolumes(apod[a])
    BY <1>3, <2>1, <2>2, ConstantsAssumption DEF StosVolumes, VolKeys
  <2>4. Evictions!ForceDetach(apod[a], anode[a], VolumeOf[c])
    BY Zenon, <1>1, <1>3, <2>1, <2>2, <2>3 DEF Evictions!ForceDetach
  <2> QED
    BY Zenon, <1>2, <2>2, <2>4 DEF Evictions!Next
<1> QED
  BY <1>5, <1>6

(* Poller, cache, workers, informer and the other steps of an action make  *)
(* no difference to pods and attachments.                                  *)
LEMMA EvictionStep ==
    ASSUME IInv, [Next]_vars
    PROVE  [Evictions!Next]_(Evictions!vars)
<1> USE DEF stosVars, k8sVars, histVars, podHist
<1>1. ASSUME UNCHANGED <<pods, vas, everOffline, podHist>>
      PROVE  UNCHANGED Evictions!vars
  BY <1>1 DEF Evictions!vars
<1>2. CASE UNCHANGED vars
  BY <1>1, <1>2 DEF vars
<1>3. CASE \/ StartController \/ ListNodes \/ ApiReset \/ Crash
           \/ \E n \in Nodes : \/ SendNode(n) \/ CacheExpires(n) \/ Reconcile(n)
                               \/ ReconcileFails(n)
  <2>1. UNCHANGED <<pods, vas, everOffline, podHist>>
    BY Zenon, <1>3
       DEF StartController, ListNodes, ApiReset, Crash, SendNode, CacheExpires,
           Reconcile, GetObject, ReconcileIgnores, ReconcileFails, RunActionManager
  <2> QED
    BY <1>1, <2>1
<1>4. ASSUME NEW a \in Actions, ActionStep(a) \/ ContextExpires(a),
             ~DeletePod(a), \A c \in Claims : ~DeleteVA(a, c)
      PROVE  UNCHANGED Evictions!vars
  <2>1. UNCHANGED <<pods, vas, everOffline, podHist>>
    BY Zenon, <1>4
       DEF ActionStep, ListVAs, ListPods, RunEnds, FencePod, GetVolume, PodFenced,
           CheckReruns, CheckSucceeds, ContextDone, ContextExpires
  <2> QED
    BY <1>1, <2>1
<1> QED
  BY <1>2, <1>3, <1>4, EnvironmentEvicts, DeletePodEvicts, DeleteVADetaches DEF Next

(* For any number of nodes, pods, volumes and concurrent actions, whatever *)
(* fails or crashes in between, fencePod deletes a pod only for a node     *)
(* that was offline and had a labelled pod of that name, and deletes only  *)
(* attachments, to that node, of volumes of a pod it deleted before.       *)
THEOREM EvictionImplemented == Spec => ImplementsEviction
<1>1. Init => Evictions!Init
  BY DEF Init, Evictions!Init, Evictions!Pod, Evictions!Used, Pod, VA
<1>2. IInv /\ [Next]_vars => [Evictions!Next]_(Evictions!vars)
  BY EvictionStep
<1> QED
  BY <1>1, <1>2, Inductive, PTL DEF Spec, ImplementsEviction, Evictions!Spec

=============================================================================
