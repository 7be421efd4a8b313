------------------------------- MODULE Fencer -------------------------------
(***************************************************************************)
(* The pod fencer: controllers/fencer, the node cache of                   *)
(* internal/pkg/cache, and the stateless-action reconciler it runs on.     *)
(*                                                                         *)
(* A poller lists the StorageOS nodes and sends them to the controller's   *)
(* event source.  An event whose node differs from the cached one is       *)
(* cached and enqueued.  A worker that finds the cached node offline       *)
(* starts an action: a goroutine that deletes the labelled pods of the     *)
(* node whose StorageOS volumes are all healthy, with their volume         *)
(* attachments, and repeats until there is nothing left or its context     *)
(* expires.                                                                *)
(*                                                                         *)
(* StorageOS, Kubernetes and the informer of pods are the environment.     *)
(***************************************************************************)
EXTENDS Naturals, FiniteSets

CONSTANTS
    Nodes,       \* StorageOS nodes, and the Kubernetes nodes of the same name
    Pods,        \* pod names: a re-created StatefulSet pod keeps its name
    Claims,      \* PersistentVolumeClaims
    Volumes,     \* StorageOS volumes
    Actions,     \* slots for the goroutines of RunActionManager (a bound)
    None,
    ClaimsOf,    \* the claims a pod mounts
    VolumeOf,    \* the volume a claim is bound to, None if unbound
    Annotation,  \* a claim's provisioner annotation: storageos, other or none
    PVDriver,    \* the CSI driver of its PV: storageos, other or none
    Workers,     \* MaxConcurrentReconciles
    MaxEnv,      \* bound on the changes made by StorageOS, users and Kubernetes
    MaxFaults    \* bound on failing calls, mid-run timeouts and crashes

Driver == {"storageos", "other", "none"}

(* The PVs that podPVCs looks up: for each pod, those of its claims that   *)
(* have no provisioner annotation.                                         *)
Lookups == {pc \in Pods \X Claims : pc[2] \in ClaimsOf[pc[1]] /\ Annotation[pc[2]] = "none"}

ASSUME ConstantsAssumption ==
    /\ None \notin Nodes \cup Pods \cup Claims \cup Volumes \cup Actions
    /\ ClaimsOf \in [Pods -> SUBSET Claims]
    /\ VolumeOf \in [Claims -> Volumes \cup {None}]
    /\ Annotation \in [Claims -> Driver]
    /\ PVDriver \in [Claims -> Driver]
    /\ \A c \in Claims : Annotation[c] # "none" /\ VolumeOf[c] # None
          => PVDriver[c] = Annotation[c]
    /\ Workers \in Nat \ {0}
    /\ MaxEnv \in Nat
    /\ MaxFaults \in Nat

(* What nodeToCR keeps of a node: its health and everything else (version, *)
(* labels, capacity), here a counter.                                      *)
Health == {"online", "offline", "unknown"}
Object == [health : Health, rest : Nat]
Pod == [node : Nodes, fenced : BOOLEAN]
VA == Volumes \X Nodes

VARIABLES
    \* StorageOS
    health, rest, volOnline,
    \* Kubernetes, and the informer's copy of the pods
    k8sNodes, pods, podView, pvcs, vas,
    \* the api-manager process: poller, cache, work queue, workers
    started, ppc, pending, cache, queue, working,
    \* the action goroutines; aunread is history: the lookups of a PV that failed
    \* when the claims of the action's pod were read
    apc, anode, avas, atodo, apod, acheck, adetach, aunread, aexpired,
    \* bounds
    env, faults,
    \* history: nodes that were ever offline; for each action the volumes that
    \* have been unhealthy ever since its current run began; the <<pod, node>>
    \* where a labelled pod was, and for which the fencer deleted one
    everOffline, asick, placed, evicted

stosVars == <<health, rest, volOnline>>
k8sVars  == <<k8sNodes, pods, podView, pvcs, vas>>
pollVars == <<started, ppc, pending>>
ctrlVars == <<cache, queue, working>>
actVars  == <<apc, anode, avas, atodo, apod, acheck, adetach, aunread, aexpired>>
podHist  == <<placed, evicted>>
histVars == <<everOffline, asick, podHist>>
vars == <<stosVars, k8sVars, pollVars, ctrlVars, actVars, env, faults, histVars>>

ActionPC ==
    {"free", "listVAs", "listPods", "pods", "volumes", "delete", "detach", "wait"}

EnvironmentTypes ==
    /\ health \in [Nodes -> Health]
    /\ rest \in [Nodes -> Nat]
    /\ volOnline \in SUBSET Volumes
    /\ k8sNodes \in SUBSET Nodes
    /\ pods \in [Pods -> Pod \cup {None}]
    /\ podView \in [Pods -> Pod \cup {None}]
    /\ pvcs \in SUBSET Claims
    /\ vas \in SUBSET VA
    /\ env \in Nat
    /\ faults \in Nat
    /\ everOffline \in SUBSET Nodes

ProcessTypes ==
    /\ started \in BOOLEAN
    /\ ppc \in {"idle", "sending", "resetting"}
    /\ pending \in [Nodes -> Object \cup {None}]
    /\ cache \in [Nodes -> Object \cup {None}]
    /\ queue \in SUBSET Nodes
    /\ working \in [Nodes -> Object \cup {None}]

ActionTypes ==
    /\ apc \in [Actions -> ActionPC]
    /\ anode \in [Actions -> Nodes \cup {None}]
    /\ avas \in [Actions -> SUBSET VA]
    /\ atodo \in [Actions -> SUBSET Pods]
    /\ apod \in [Actions -> Pods \cup {None}]
    /\ acheck \in [Actions -> SUBSET Volumes]
    /\ adetach \in [Actions -> SUBSET Claims]
    /\ aunread \in [Actions -> SUBSET Lookups]
    /\ aexpired \in [Actions -> BOOLEAN]
    /\ asick \in [Actions -> SUBSET Volumes]

(* An action in progress has a node, and a pod exactly while fencePod is   *)
(* at work on one.                                                         *)
ActionsCoherent ==
    \A a \in Actions :
        /\ apc[a] = "free" <=> anode[a] = None
        /\ apc[a] \in {"volumes", "delete", "detach"} <=> apod[a] # None

StateOK == EnvironmentTypes /\ ProcessTypes /\ ActionTypes /\ ActionsCoherent

HistoryTypes ==
    /\ placed \in SUBSET (Pods \X Nodes)
    /\ evicted \in SUBSET (Pods \X Nodes)

(* The type of every variable, and the coherence of an action's fields     *)
(* (RunAction, fenceNode and fencePod set and drop them together).         *)
TypeOK == StateOK /\ HistoryTypes

-----------------------------------------------------------------------------
(* What the fencer reads.                                                  *)

(* podPVCs fails when any claim of the pod cannot be read ... *)
PodPVCsFail(p) == \E c \in ClaimsOf[p] : c \notin pvcs

(* Mutant: claims without the annotation are left out. *)
M_PodPVCs(p, unread) == {c \in ClaimsOf[p] : Annotation[c] = "storageos"}

(* ... and otherwise keeps the claims of StorageOS, by their annotation or *)
(* the driver of their PV.  One whose PV cannot be read is dropped, and    *)
(* that is no error.                                                       *)
PodPVCs(p, unread) ==
    {c \in ClaimsOf[p] :
        \/ Annotation[c] = "storageos"
        \/ Annotation[c] = "none" /\ <<p, c>> \notin unread /\ PVDriver[c] = "storageos"}

VolKeys(claims) == {VolumeOf[c] : c \in claims} \ {None}

(* The StorageOS volumes of a pod, whatever the fencer takes for such. *)
StosVolumes(p) == VolKeys({c \in ClaimsOf[p] : PVDriver[c] = "storageos"})

(* The pods the informer has on the node, with the label set to true. *)
Labelled(n) == {p \in Pods : /\ podView[p] # None
                             /\ podView[p].node = n
                             /\ podView[p].fenced}

GetTargetPodsFail(n) == \E p \in Labelled(n) : PodPVCsFail(p)

GetTargetPods(n, unread) == {p \in Labelled(n) : VolKeys(PodPVCs(p, unread)) # {}}

NodeObject(n) == [health |-> health[n], rest |-> rest[n]]

-----------------------------------------------------------------------------
(* The states the process starts in, and restarts in after a crash.        *)

ProcessInit ==
    /\ started = FALSE
    /\ ppc = "idle"
    /\ pending = [n \in Nodes |-> None]
    /\ cache = [n \in Nodes |-> None]
    /\ queue = {}
    /\ working = [n \in Nodes |-> None]
    /\ apc = [a \in Actions |-> "free"]
    /\ anode = [a \in Actions |-> None]
    /\ avas = [a \in Actions |-> {}]
    /\ atodo = [a \in Actions |-> {}]
    /\ apod = [a \in Actions |-> None]
    /\ acheck = [a \in Actions |-> {}]
    /\ adetach = [a \in Actions |-> {}]
    /\ aunread = [a \in Actions |-> {}]
    /\ aexpired = [a \in Actions |-> FALSE]
    /\ asick = [a \in Actions |-> {}]

Init ==
    /\ health = [n \in Nodes |-> "online"]
    /\ rest = [n \in Nodes |-> 0]
    /\ volOnline = Volumes
    /\ k8sNodes = Nodes
    /\ pods \in [Pods -> Pod \cup {None}]
    /\ podView = pods
    /\ pvcs = Claims
    /\ vas = {va \in VA : \E p \in Pods : /\ pods[p] # None
                                          /\ pods[p].node = va[2]
                                          /\ va[1] \in StosVolumes(p)}
    /\ ProcessInit
    /\ env = 0
    /\ faults = 0
    /\ everOffline = {}
    /\ placed = {pn \in Pods \X Nodes : pods[pn[1]] = [node |-> pn[2], fenced |-> TRUE]}
    /\ evicted = {}

-----------------------------------------------------------------------------
(* The environment.                                                        *)

EnvStep ==
    /\ env < MaxEnv
    /\ env' = env + 1
    /\ UNCHANGED <<pollVars, ctrlVars, actVars, faults>>

SetHealth(n, h) ==
    /\ EnvStep
    /\ h # health[n]
    /\ health' = [health EXCEPT ![n] = h]
    /\ everOffline' = IF h = "offline" THEN everOffline \cup {n} ELSE everOffline
    /\ UNCHANGED <<rest, volOnline, k8sVars, asick, podHist>>

UpdateNode(n) ==
    /\ EnvStep
    /\ rest' = [rest EXCEPT ![n] = @ + 1]
    /\ UNCHANGED <<health, volOnline, k8sVars, histVars>>

VolumeFails(v) ==
    /\ EnvStep
    /\ v \in volOnline
    /\ volOnline' = volOnline \ {v}
    /\ UNCHANGED <<health, rest, k8sVars, histVars>>

VolumeRecovers(v) ==
    /\ EnvStep
    /\ v \notin volOnline
    /\ volOnline' = volOnline \cup {v}
    /\ asick' = [a \in Actions |-> asick[a] \ {v}]
    /\ UNCHANGED <<health, rest, k8sVars, everOffline, podHist>>

DeleteK8sNode(n) ==
    /\ EnvStep
    /\ n \in k8sNodes
    /\ k8sNodes' = k8sNodes \ {n}
    /\ UNCHANGED <<stosVars, pods, podView, pvcs, vas, histVars>>

CreatePod(p, pod) ==
    /\ EnvStep
    /\ pods[p] = None
    /\ pods' = [pods EXCEPT ![p] = pod]
    /\ placed' = IF pod.fenced THEN placed \cup {<<p, pod.node>>} ELSE placed
    /\ UNCHANGED <<stosVars, k8sNodes, podView, pvcs, vas, everOffline, asick, evicted>>

RemovePod(p) ==
    /\ EnvStep
    /\ pods[p] # None
    /\ pods' = [pods EXCEPT ![p] = None]
    /\ UNCHANGED <<stosVars, k8sNodes, podView, pvcs, vas, histVars>>

DeletePVC(c) ==
    /\ EnvStep
    /\ c \in pvcs
    /\ pvcs' = pvcs \ {c}
    /\ UNCHANGED <<stosVars, k8sNodes, pods, podView, vas, histVars>>

(* The informer catches up with one pod. *)
PodEvent(p) ==
    /\ podView[p] # pods[p]
    /\ podView' = [podView EXCEPT ![p] = pods[p]]
    /\ UNCHANGED <<stosVars, k8sNodes, pods, pvcs, vas, pollVars, ctrlVars,
                   actVars, env, faults, histVars>>

(* The attach/detach controller; a shared volume is attached to several    *)
(* nodes.                                                                  *)
InUse(v, n) ==
    \E p \in Pods : pods[p] # None /\ pods[p].node = n /\ v \in StosVolumes(p)

Attach(v, n) ==
    /\ InUse(v, n)
    /\ <<v, n>> \notin vas
    /\ vas' = vas \cup {<<v, n>>}
    /\ UNCHANGED <<stosVars, k8sNodes, pods, podView, pvcs, pollVars, ctrlVars,
                   actVars, env, faults, histVars>>

Detach(v, n) ==
    /\ <<v, n>> \in vas
    /\ ~InUse(v, n)
    /\ vas' = vas \ {<<v, n>>}
    /\ UNCHANGED <<stosVars, k8sNodes, pods, podView, pvcs, pollVars, ctrlVars,
                   actVars, env, faults, histVars>>

Environment ==
    \/ \E n \in Nodes, h \in Health : SetHealth(n, h)
    \/ \E n \in Nodes : UpdateNode(n) \/ DeleteK8sNode(n)
    \/ \E v \in Volumes : VolumeFails(v) \/ VolumeRecovers(v)
    \/ \E p \in Pods : RemovePod(p) \/ PodEvent(p)
    \/ \E p \in Pods, pod \in Pod : CreatePod(p, pod)
    \/ \E c \in Claims : DeletePVC(c)
    \/ \E v \in Volumes, n \in Nodes : Attach(v, n) \/ Detach(v, n)

-----------------------------------------------------------------------------
(* The poller (pollNodes), the event source and the cache.                 *)

Fault == faults < MaxFaults /\ faults' = faults + 1
NoFault == UNCHANGED faults

(* podPVCs, where the lookups in unread fail. *)
ReadPVs(unread) == IF unread = {} THEN NoFault ELSE Fault

(* The controller is started, once this instance leads: only then does     *)
(* anything receive from the event source.                                 *)
StartController ==
    /\ ~started
    /\ started' = TRUE
    /\ UNCHANGED <<stosVars, k8sVars, ppc, pending, ctrlVars, actVars, env,
                   faults, histVars>>

ListNodes ==
    /\ ppc = "idle"
    /\ \/ /\ NoFault
          /\ pending' = [n \in Nodes |-> NodeObject(n)]
          /\ ppc' = "sending"
       \/ /\ Fault
          /\ ppc' = "resetting"
          /\ UNCHANGED pending
    /\ UNCHANGED <<stosVars, k8sVars, started, ctrlVars, actVars, env, histVars>>

(* The API client takes the reset request the poller is blocked on. *)
ApiReset ==
    /\ ppc = "resetting"
    /\ ppc' = "idle"
    /\ UNCHANGED <<stosVars, k8sVars, started, pending, ctrlVars, actVars, env,
                   faults, histVars>>

(* A node that is not equal to the cached one is cached and enqueued. *)
CacheMiss(n, obj) == cache[n] # obj

(* The poller sends a node, and the event source passes it to the handler. *)
(* The order of the listed nodes is left open; the source's buffer, which  *)
(* only adds to the delay already in pending, is left out.                 *)
SendNode(n) ==
    /\ ppc = "sending"
    /\ started
    /\ pending[n] # None
    /\ pending' = [pending EXCEPT ![n] = None]
    /\ ppc' = IF \A m \in Nodes \ {n} : pending[m] = None THEN "idle" ELSE ppc
    /\ IF CacheMiss(n, pending[n])
         THEN /\ cache' = [cache EXCEPT ![n] = pending[n]]
              /\ queue' = queue \cup {n}
         ELSE UNCHANGED <<cache, queue>>
    /\ UNCHANGED <<stosVars, k8sVars, started, working, actVars, env, faults,
                   histVars>>

(* Mutant: cached nodes never expire. *)
M_CacheExpires(n) == FALSE

CacheExpires(n) ==
    /\ cache[n] # None
    /\ cache' = [cache EXCEPT ![n] = None]
    /\ UNCHANGED <<stosVars, k8sVars, pollVars, queue, working, actVars, env,
                   faults, histVars>>

-----------------------------------------------------------------------------
(* The reconciler.  A node that is not cached is an error: the request     *)
(* goes back to the queue, which changes nothing.                          *)

GetObject(n) ==
    /\ n \in queue
    /\ working[n] = None
    /\ Cardinality({m \in Nodes : working[m] # None}) < Workers
    /\ cache[n] # None
    /\ queue' = queue \ {n}
    /\ working' = [working EXCEPT ![n] = cache[n]]
    /\ UNCHANGED <<stosVars, k8sVars, pollVars, cache, actVars, env, faults,
                   histVars>>

(* Mutant: an unknown node is fenced like an offline one. *)
M_RequireAction(n) == n \in k8sNodes /\ working[n].health # "online"

RequireAction(n) == n \in k8sNodes /\ working[n].health = "offline"

ReconcileIgnores(n) ==
    /\ working[n] # None
    /\ ~RequireAction(n)
    /\ working' = [working EXCEPT ![n] = None]
    /\ UNCHANGED <<stosVars, k8sVars, pollVars, cache, queue, actVars, env,
                   faults, histVars>>

(* The Kubernetes node cannot be read. *)
ReconcileFails(n) ==
    /\ working[n] # None
    /\ Fault
    /\ working' = [working EXCEPT ![n] = None]
    /\ queue' = queue \cup {n}
    /\ UNCHANGED <<stosVars, k8sVars, pollVars, cache, actVars, env, histVars>>

RunActionManager(n, a) ==
    /\ working[n] # None
    /\ RequireAction(n)
    /\ apc[a] = "free"
    /\ working' = [working EXCEPT ![n] = None]
    /\ apc' = [apc EXCEPT ![a] = "listVAs"]
    /\ anode' = [anode EXCEPT ![a] = n]
    /\ UNCHANGED <<stosVars, k8sVars, pollVars, cache, queue, avas, atodo, apod,
                   acheck, adetach, aunread, aexpired, env, faults, histVars>>

-----------------------------------------------------------------------------
(* An action: RunAction, whose every run is fenceNode.                     *)

(* Mutant: the attachments of all nodes are listed. *)
M_ListVAs(a) ==
    /\ apc[a] = "listVAs"
    /\ NoFault
    /\ avas' = [avas EXCEPT ![a] = vas]
    /\ apc' = [apc EXCEPT ![a] = "listPods"]
    /\ asick' = [asick EXCEPT ![a] = Volumes \ volOnline]
    /\ UNCHANGED <<stosVars, k8sVars, pollVars, ctrlVars, anode, atodo, apod,
                   acheck, adetach, aunread, aexpired, env, everOffline, podHist>>

(* fenceNode returns: the action waits for the retry period. *)
RunReturns(a) ==
    /\ apc' = [apc EXCEPT ![a] = "wait"]
    /\ avas' = [avas EXCEPT ![a] = {}]
    /\ asick' = [asick EXCEPT ![a] = {}]

(* A run begins: the attachments of the node are listed before its pods.   *)
ListVAs(a) ==
    /\ apc[a] = "listVAs"
    /\ \/ /\ NoFault
          /\ avas' = [avas EXCEPT ![a] = {va \in vas : va[2] = anode[a]}]
          /\ apc' = [apc EXCEPT ![a] = "listPods"]
          /\ asick' = [asick EXCEPT ![a] = Volumes \ volOnline]
       \/ Fault /\ RunReturns(a)
    /\ UNCHANGED <<stosVars, k8sVars, pollVars, ctrlVars, anode, atodo, apod,
                   acheck, adetach, aunread, aexpired, env, everOffline, podHist>>

ListPods(a) ==
    /\ apc[a] = "listPods"
    /\ \/ /\ ~GetTargetPodsFail(anode[a])
          /\ \E unread \in SUBSET Lookups :
                /\ ReadPVs(unread)
                /\ atodo' = [atodo EXCEPT ![a] = GetTargetPods(anode[a], unread)]
          /\ apc' = [apc EXCEPT ![a] = "pods"]
          /\ UNCHANGED <<avas, asick>>
       \/ /\ (GetTargetPodsFail(anode[a]) /\ NoFault) \/ Fault
          /\ RunReturns(a)
          /\ UNCHANGED atodo
    /\ UNCHANGED <<stosVars, k8sVars, pollVars, ctrlVars, anode, apod, acheck,
                   adetach, aunread, aexpired, env, everOffline, podHist>>

(* The loop over the listed pods: fencePod reads the claims again.  With   *)
(* no volume among those it finds there is nothing to check.               *)
FencePod(a, p) ==
    /\ apc[a] = "pods"
    /\ p \in atodo[a]
    /\ atodo' = [atodo EXCEPT ![a] = @ \ {p}]
    /\ \/ /\ (PodPVCsFail(p) /\ NoFault) \/ Fault
          /\ UNCHANGED <<apc, apod, acheck, adetach, aunread>>
       \/ /\ ~PodPVCsFail(p)
          /\ \E unread \in SUBSET {l \in Lookups : l[1] = p} :
                LET claims == PodPVCs(p, unread) IN
                /\ ReadPVs(unread)
                /\ apc' = [apc EXCEPT ![a] = IF VolKeys(claims) = {} THEN "delete"
                                             ELSE "volumes"]
                /\ acheck' = [acheck EXCEPT ![a] = VolKeys(claims)]
                /\ adetach' = [adetach EXCEPT ![a] = claims]
                /\ aunread' = [aunread EXCEPT ![a] = unread]
          /\ apod' = [apod EXCEPT ![a] = p]
    /\ UNCHANGED <<stosVars, k8sVars, pollVars, ctrlVars, anode, avas, aexpired,
                   env, histVars>>

RunEnds(a) ==
    /\ apc[a] = "pods"
    /\ atodo[a] = {}
    /\ RunReturns(a)
    /\ UNCHANGED <<stosVars, k8sVars, pollVars, ctrlVars, anode, atodo, apod, acheck,
                   adetach, aunread, aexpired, env, faults, everOffline, podHist>>

(* Mutant: the pod is not forgotten. *)
M_LeavePod(a) ==
    /\ apc' = [apc EXCEPT ![a] = "pods"]
    /\ acheck' = [acheck EXCEPT ![a] = {}]
    /\ adetach' = [adetach EXCEPT ![a] = {}]
    /\ aunread' = [aunread EXCEPT ![a] = {}]
    /\ UNCHANGED apod

(* fencePod gives up on its pod and returns to the loop. *)
LeavePod(a) ==
    /\ apc' = [apc EXCEPT ![a] = "pods"]
    /\ apod' = [apod EXCEPT ![a] = None]
    /\ acheck' = [acheck EXCEPT ![a] = {}]
    /\ adetach' = [adetach EXCEPT ![a] = {}]
    /\ aunread' = [aunread EXCEPT ![a] = {}]

(* A call to an API server with the action's context. *)
CallFails(a) == (aexpired[a] /\ NoFault) \/ Fault
CallSucceeds(a) == ~aexpired[a] /\ NoFault

(* stosVolumes and the health check, one volume at a time. *)
GetVolume(a, v) ==
    /\ apc[a] = "volumes"
    /\ v \in acheck[a]
    /\ \/ /\ CallSucceeds(a)
          /\ v \in volOnline
          /\ acheck' = [acheck EXCEPT ![a] = @ \ {v}]
          /\ apc' = [apc EXCEPT ![a] = IF acheck[a] = {v} THEN "delete" ELSE @]
          /\ UNCHANGED <<apod, adetach, aunread>>
       \/ /\ (CallSucceeds(a) /\ v \notin volOnline) \/ CallFails(a)
          /\ LeavePod(a)
    /\ UNCHANGED <<stosVars, k8sVars, pollVars, ctrlVars, anode, avas, atodo,
                   aexpired, env, histVars>>

(* Mutant: whether or not the pod was deleted, its volumes are detached. *)
M_DeletePod(a) ==
    /\ apc[a] = "delete"
    /\ NoFault
    /\ IF CallSucceeds(a) /\ pods[apod[a]] # None
         THEN /\ pods' = [pods EXCEPT ![apod[a]] = None]
              /\ evicted' = evicted \cup {<<apod[a], anode[a]>>}
         ELSE UNCHANGED <<pods, evicted>>
    /\ apc' = [apc EXCEPT ![a] = "detach"]
    /\ UNCHANGED <<stosVars, k8sNodes, podView, pvcs, vas, pollVars, ctrlVars,
                   anode, avas, atodo, apod, acheck, adetach, aunread, aexpired, env,
                   everOffline, asick, placed>>

(* The pod is deleted by name, whichever pod now has that name. *)
DeletePod(a) ==
    /\ apc[a] = "delete"
    /\ \/ /\ CallSucceeds(a)
          /\ pods[apod[a]] # None
          /\ pods' = [pods EXCEPT ![apod[a]] = None]
          /\ evicted' = evicted \cup {<<apod[a], anode[a]>>}
          /\ apc' = [apc EXCEPT ![a] = "detach"]
          /\ UNCHANGED <<apod, acheck, adetach, aunread>>
       \/ /\ (CallSucceeds(a) /\ pods[apod[a]] = None) \/ CallFails(a)
          /\ LeavePod(a)
          /\ UNCHANGED <<pods, evicted>>
    /\ UNCHANGED <<stosVars, k8sNodes, podView, pvcs, vas, pollVars, ctrlVars,
                   anode, avas, atodo, aexpired, env, everOffline, asick, placed>>

(* pvcVA: the attachment of the claim's volume among the listed ones. *)
PvcVA(a, c) == {va \in avas[a] : va[1] = VolumeOf[c]}

DeleteVA(a, c) ==
    /\ apc[a] = "detach"
    /\ c \in adetach[a]
    /\ adetach' = [adetach EXCEPT ![a] = @ \ {c}]
    /\ \/ /\ CallSucceeds(a)
          /\ PVDriver[c] = "storageos"
          /\ vas' = vas \ PvcVA(a, c)
       \/ /\ (PVDriver[c] # "storageos" /\ NoFault) \/ CallFails(a)
          /\ UNCHANGED vas
    /\ UNCHANGED <<stosVars, k8sNodes, pods, podView, pvcs, pollVars, ctrlVars,
                   apc, anode, avas, atodo, apod, acheck, aunread, aexpired, env,
                   histVars>>

PodFenced(a) ==
    /\ apc[a] = "detach"
    /\ adetach[a] = {}
    /\ LeavePod(a)
    /\ UNCHANGED <<stosVars, k8sVars, pollVars, ctrlVars, anode, avas, atodo,
                   aexpired, env, faults, histVars>>

(* The goroutine returns. *)
FreeAction(a) ==
    /\ apc' = [apc EXCEPT ![a] = "free"]
    /\ anode' = [anode EXCEPT ![a] = None]
    /\ aexpired' = [aexpired EXCEPT ![a] = FALSE]
    /\ UNCHANGED <<avas, atodo, apod, acheck, adetach, aunread>>

(* After the retry period: Check.  An error waits for another period,      *)
(* which changes nothing.                                                  *)
CheckReruns(a) ==
    /\ apc[a] = "wait"
    /\ ~aexpired[a]
    /\ cache[anode[a]] # None
    /\ cache[anode[a]].health = "offline"
    /\ ~GetTargetPodsFail(anode[a])
    /\ \E unread \in SUBSET Lookups :
          ReadPVs(unread) /\ GetTargetPods(anode[a], unread) # {}
    /\ apc' = [apc EXCEPT ![a] = "listVAs"]
    /\ UNCHANGED <<stosVars, k8sVars, pollVars, ctrlVars, anode, avas, atodo,
                   apod, acheck, adetach, aunread, aexpired, env, histVars>>

CheckSucceeds(a) ==
    /\ apc[a] = "wait"
    /\ ~aexpired[a]
    /\ cache[anode[a]] # None
    /\ \/ cache[anode[a]].health # "offline" /\ NoFault
       \/ /\ ~GetTargetPodsFail(anode[a])
          /\ \E unread \in SUBSET Lookups :
                ReadPVs(unread) /\ GetTargetPods(anode[a], unread) = {}
    /\ FreeAction(a)
    /\ UNCHANGED <<stosVars, k8sVars, pollVars, ctrlVars, env, histVars>>

(* Mutant: the action's context has no deadline. *)
M_ContextDone(a) == FALSE

(* The context expires: while the action waits, which ends it ... *)
ContextDone(a) ==
    /\ apc[a] = "wait"
    /\ FreeAction(a)
    /\ UNCHANGED <<stosVars, k8sVars, pollVars, ctrlVars, env, faults, histVars>>

(* ... or during a run, which goes on with every remaining call failing. *)
ContextExpires(a) ==
    /\ apc[a] \notin {"free", "wait"}
    /\ ~aexpired[a]
    /\ Fault
    /\ aexpired' = [aexpired EXCEPT ![a] = TRUE]
    /\ UNCHANGED <<stosVars, k8sVars, pollVars, ctrlVars, apc, anode, avas,
                   atodo, apod, acheck, adetach, aunread, env, histVars>>

-----------------------------------------------------------------------------

(* The process dies and is restarted: everything it held is lost. *)
Crash ==
    /\ started
    /\ Fault
    /\ started' = FALSE
    /\ ppc' = "idle"
    /\ pending' = [n \in Nodes |-> None]
    /\ cache' = [n \in Nodes |-> None]
    /\ queue' = {}
    /\ working' = [n \in Nodes |-> None]
    /\ apc' = [a \in Actions |-> "free"]
    /\ anode' = [a \in Actions |-> None]
    /\ avas' = [a \in Actions |-> {}]
    /\ atodo' = [a \in Actions |-> {}]
    /\ apod' = [a \in Actions |-> None]
    /\ acheck' = [a \in Actions |-> {}]
    /\ adetach' = [a \in Actions |-> {}]
    /\ aunread' = [a \in Actions |-> {}]
    /\ aexpired' = [a \in Actions |-> FALSE]
    /\ asick' = [a \in Actions |-> {}]
    /\ UNCHANGED <<stosVars, k8sVars, env, everOffline, podHist>>

ActionStep(a) ==
    \/ ListVAs(a) \/ ListPods(a) \/ RunEnds(a)
    \/ \E p \in Pods : FencePod(a, p)
    \/ \E v \in Volumes : GetVolume(a, v)
    \/ DeletePod(a)
    \/ \E c \in Claims : DeleteVA(a, c)
    \/ PodFenced(a)
    \/ CheckReruns(a) \/ CheckSucceeds(a) \/ ContextDone(a)

Reconcile(n) ==
    \/ GetObject(n) \/ ReconcileIgnores(n)
    \/ \E a \in Actions : RunActionManager(n, a)

Next ==
    \/ Environment
    \/ StartController \/ ListNodes \/ ApiReset
    \/ \E n \in Nodes : SendNode(n) \/ CacheExpires(n)
    \/ \E n \in Nodes : Reconcile(n) \/ ReconcileFails(n)
    \/ \E a \in Actions : ActionStep(a) \/ ContextExpires(a)
    \/ Crash

(* Tickers, channels, timers and goroutines all get their turn.  A         *)
(* context's deadline is fixed when the action starts and stays passed, so *)
(* an action that keeps coming back to its select finds it (SF).  A cached *)
(* node lives for an hour, so a worker cannot forever find it expired      *)
(* (SF).  Nothing is assumed of the environment but that the informer      *)
(* catches up.                                                             *)
Fairness ==
    /\ WF_vars(StartController)
    /\ WF_vars(ListNodes)
    /\ WF_vars(ApiReset)
    /\ \A n \in Nodes : WF_vars(SendNode(n))
    /\ \A n \in Nodes : WF_vars(CacheExpires(n))
    /\ \A n \in Nodes : SF_vars(Reconcile(n))
    /\ \A a \in Actions : WF_vars(ActionStep(a))
    /\ \A a \in Actions : SF_vars(ContextDone(a))
    /\ \A p \in Pods : WF_vars(PodEvent(p))

Spec == Init /\ [][Next]_vars
FairSpec == Spec /\ Fairness

-----------------------------------------------------------------------------
(* Properties.                                                             *)

(* An action only ever works on a node that StorageOS has reported         *)
(* offline: neither "unknown" nor a node it has never heard of is fenced   *)
(* (RequireAction), whatever the delay between poll, cache and worker.     *)
OnlyOfflineNodesFenced ==
    \A a \in Actions : apc[a] # "free" => anode[a] \in everOffline

(* fencePod does not come to delete a pod one of whose StorageOS volumes   *)
(* has been unhealthy ever since the run began ("No changes are made to    *)
(* Pods that have StorageOS volumes that are unhealthy", the README of the *)
(* fencer), but for a volume whose PV it could not look up: that error is  *)
(* taken for a volume of no concern, and the README's claim fails.  The    *)
(* volumes are read one by one, and may have failed again by the time of   *)
(* the delete.                                                             *)
SickVolumePodsKept ==
    \A a \in Actions : apc[a] = "delete" =>
        \A c \in ClaimsOf[apod[a]] :
            PVDriver[c] = "storageos" /\ VolumeOf[c] \in asick[a] =>
                <<apod[a], c>> \in aunread[a]

(* A volume attachment in use on a node that was never offline stays:      *)
(* fencing the old node of a pod does not detach the volumes of the pod    *)
(* re-created elsewhere (the list of attachments is by node).              *)
HealthyAttachmentsKept ==
    [][\A va \in vas \ vas' : va[2] \in everOffline \/ ~InUse(va[1], va[2])]_vars

(* The actions together evict pods in good order, whatever the delays      *)
(* between poll, informer and delete, and whatever fails or crashes in     *)
(* between (fencePod): a pod is deleted only for a node that was offline   *)
(* and on which a pod of that name ran with the fencing label, and a       *)
(* volume is detached by force only after the delete of a pod that uses    *)
(* it, and only from that node.                                            *)
Evictions == INSTANCE Eviction WITH
    VolumesOf <- StosVolumes,
    offline <- everOffline

ImplementsEviction == Evictions!Spec

(* Every action ends, also when pods with unhealthy volumes make each      *)
(* Check ask for another run: the context of RunAction has a deadline.     *)
ActionsEnd == \A a \in Actions : apc[a] # "free" ~> apc[a] = "free"

(* The pod is one the fencer should evict. *)
Evictable(p) ==
    /\ pods[p] # None
    /\ pods[p].fenced
    /\ health[pods[p].node] = "offline"
    /\ pods[p].node \in k8sNodes
    /\ ~PodPVCsFail(p)
    /\ StosVolumes(p) # {}
    /\ StosVolumes(p) \subseteq volOnline

(* A labelled pod with healthy volumes does not stay on an offline node,   *)
(* provided the claims of the node's labelled pods can all be read:        *)
(* failed calls, expired contexts, lost actions and crashes are made up    *)
(* for, at the latest when the node expires from the cache.                *)
FencingProgress ==
    \A p \in Pods :
        []<>~(/\ Evictable(p)
              /\ \A q \in Pods : pods[q] # None => ~PodPVCsFail(q))

=============================================================================
