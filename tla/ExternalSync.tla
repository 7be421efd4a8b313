---------------------------- MODULE ExternalSync ----------------------------
(***************************************************************************)
(* The removal from StorageOS of nodes and namespaces that are gone from   *)
(* Kubernetes: controllers/node-delete and controllers/namespace-delete,   *)
(* the external-object-sync reconciler they run on, and DeleteNode and     *)
(* DeleteNamespace of internal/pkg/storageos.                              *)
(*                                                                         *)
(* A worker takes the requests that delete events put into the queue, and  *)
(* a garbage collector compares the two lists from time to time.  Both     *)
(* look an object up by name and delete it by the id and version found.    *)
(***************************************************************************)
EXTENDS Naturals

CONSTANTS
    None,        \* a model value: nothing there
    Objects,     \* names of nodes or namespaces
    Kind,        \* "node" or "namespace"
    MaxEnv,      \* bound on the changes by users, Kubernetes and StorageOS
    MaxFaults    \* bound on failing calls and restarts

ASSUME ConstantsAssumption ==
    /\ None \notin Objects
    /\ Kind \in {"node", "namespace"}
    /\ MaxEnv \in Nat
    /\ MaxFaults \in Nat

Threads == {"worker", "gc"}

VARIABLES
    \* Kubernetes: the objects there are, and the nodes with the annotation
    \* of the StorageOS driver
    k8s, csi,
    \* the objects the informer has, and the work queue
    view, queue,
    \* StorageOS: the objects it has, and those it refuses to delete (nodes
    \* that are online, locked or hold masters; namespaces with volumes)
    stos, busy,
    \* the threads: the object at hand; how it is now, compared to the one
    \* that was read; the collector's list of Kubernetes objects, and of
    \* those to delete
    pc, obj, read, listed, garbage,
    \* history: objects whose delete event was let through and that are in
    \* StorageOS since; whether a call without response brought it down; for
    \* each thread what Kubernetes and the informer had when it began its
    \* deletion or collection, and what was not deleted there since
    owed, panicked, kept,
    env, faults

threadVars == <<pc, obj, read, listed, garbage>>
vars == <<k8s, csi, view, queue, stos, busy, threadVars, owed, panicked, kept, env, faults>>

(* The type of every variable; only the collector has lists, a thread has  *)
(* an object exactly while it deletes it, and what is busy is there.       *)
TypeOK ==
    /\ k8s \subseteq Objects /\ csi \subseteq Objects
    /\ view \subseteq Objects /\ queue \subseteq Objects
    /\ stos \subseteq Objects /\ busy \subseteq stos
    /\ pc \in [Threads -> {"idle", "list", "collect", "read", "delete"}]
    /\ pc["worker"] \notin {"list", "collect"}
    /\ obj \in [Threads -> Objects \cup {None}]
    /\ \A t \in Threads : obj[t] # None <=> pc[t] \in {"read", "delete"}
    /\ read \in [Threads -> {"same", "changed", "gone"}]
    /\ \A t \in Threads : pc[t] = "delete" /\ read[t] # "gone" => obj[t] \in stos
    /\ listed \subseteq Objects /\ garbage \subseteq Objects
    /\ pc["gc"] = "idle" => garbage = {}
    /\ owed \subseteq stos \ k8s
    /\ panicked \in BOOLEAN
    /\ kept \in [Threads -> SUBSET Objects]
    /\ env \in Nat /\ faults \in Nat

Init ==
    /\ k8s \in SUBSET Objects
    /\ csi = {} /\ view = k8s /\ queue = {}
    /\ stos = {} /\ busy = {}
    /\ pc = [t \in Threads |-> "idle"]
    /\ obj = [t \in Threads |-> None]
    /\ read = [t \in Threads |-> "gone"]
    /\ listed = {} /\ garbage = {}
    /\ owed = {} /\ panicked = FALSE
    /\ kept = [t \in Threads |-> {}]
    /\ env = 0 /\ faults = 0

-----------------------------------------------------------------------------
(* Kubernetes and StorageOS.                                               *)

EnvStep ==
    /\ env < MaxEnv
    /\ env' = env + 1
    /\ UNCHANGED <<view, queue, pc, obj, listed, garbage, panicked, faults>>

(* One of the same name comes back once its deletion was seen. *)
Create(o) ==
    /\ EnvStep
    /\ o \notin k8s \cup view
    /\ k8s' = k8s \cup {o}
    /\ csi' = csi \ {o}
    /\ owed' = owed \ {o}
    /\ UNCHANGED <<stos, busy, read, kept>>

Delete(o) ==
    /\ EnvStep
    /\ o \in k8s
    /\ k8s' = k8s \ {o}
    /\ kept' = [t \in Threads |-> kept[t] \ {o}]
    /\ UNCHANGED <<csi, stos, busy, read, owed>>

RegisterCSI(o) ==
    /\ EnvStep
    /\ Kind = "node"
    /\ o \in k8s \ csi
    /\ csi' = csi \cup {o}
    /\ UNCHANGED <<k8s, stos, busy, read, owed, kept>>

(* An object that changes in StorageOS gets another version. *)
Changes(o, how) ==
    read' = [t \in Threads |-> IF obj[t] = o /\ read[t] # "gone" THEN how ELSE read[t]]

(* The node joins, or a volume is provisioned in the namespace: in use at  *)
(* first.  It may do so late, after the deletion in Kubernetes.            *)
Join(o) ==
    /\ EnvStep
    /\ o \notin stos
    /\ stos' = stos \cup {o}
    /\ busy' = busy \cup {o}
    /\ UNCHANGED <<k8s, csi, read, owed, kept>>

Use(o) ==
    /\ EnvStep
    /\ o \in stos
    /\ busy' = IF o \in busy THEN busy \ {o} ELSE busy \cup {o}
    /\ Changes(o, "changed")
    /\ UNCHANGED <<k8s, csi, stos, owed, kept>>

(* The informer: the predicates let delete events through only, and of     *)
(* nodes those with the annotation.                                        *)
CreateEvent(o) ==
    /\ o \in k8s \ view
    /\ view' = view \cup {o}
    /\ UNCHANGED <<k8s, csi, queue, stos, busy, threadVars, owed, panicked, kept, env,
                   faults>>

(* The annotation of the node names the CSI driver of StorageOS. *)
IsStorageOSNode(o) == o \in csi

DeleteEvent(o) ==
    /\ o \in view \ k8s
    /\ view' = view \ {o}
    /\ IF Kind = "namespace" \/ IsStorageOSNode(o)
         THEN queue' = queue \cup {o} /\ owed' = owed \cup ({o} \cap stos)
         ELSE UNCHANGED <<queue, owed>>
    /\ UNCHANGED <<k8s, csi, stos, busy, threadVars, panicked, kept, env, faults>>

-----------------------------------------------------------------------------
(* The worker and the garbage collector.                                   *)

Fault == faults < MaxFaults /\ faults' = faults + 1
NoFault == UNCHANGED faults

(* A thread begins a deletion or a collection (history only). *)
Begin(t) == kept' = [kept EXCEPT ![t] = k8s \cap view]

(* A thread takes an object to delete. *)
Take(t, o) ==
    /\ pc' = [pc EXCEPT ![t] = "read"]
    /\ obj' = [obj EXCEPT ![t] = o]

(* Mutant: whatever was deleted is removed, though it may be back. *)
M_Reconcile(o) ==
    /\ pc["worker"] = "idle"
    /\ o \in queue
    /\ queue' = queue \ {o}
    /\ Take("worker", o) /\ Begin("worker")
    /\ UNCHANGED <<k8s, csi, view, stos, busy, read, listed, garbage, owed, panicked,
                   env, faults>>

(* Reconcile: an object that the cache has again is left alone. *)
Reconcile(o) ==
    /\ pc["worker"] = "idle"
    /\ o \in queue
    /\ queue' = queue \ {o}
    /\ IF o \in view
         THEN UNCHANGED <<pc, obj, kept>>
         ELSE Take("worker", o) /\ Begin("worker")
    /\ UNCHANGED <<k8s, csi, view, stos, busy, read, listed, garbage, owed, panicked,
                   env, faults>>

(* collectGarbage: the Kubernetes objects of the cache are listed first,   *)
(* those of StorageOS second, and the difference is deleted one by one.    *)
ListKubernetes ==
    /\ pc["gc"] = "idle"
    /\ pc' = [pc EXCEPT !["gc"] = "list"]
    /\ listed' = view
    /\ Begin("gc")
    /\ UNCHANGED <<k8s, csi, view, queue, stos, busy, obj, read, garbage, owed, panicked,
                   env, faults>>

(* Mutant: the difference the other way round. *)
M_ListExternal ==
    /\ pc["gc"] = "list"
    /\ NoFault
    /\ pc' = [pc EXCEPT !["gc"] = "collect"]
    /\ garbage' = listed \ stos
    /\ UNCHANGED <<k8s, csi, view, queue, stos, busy, obj, read, listed, owed, panicked,
                   kept, env>>

ListExternal ==
    /\ pc["gc"] = "list"
    /\ \/ /\ NoFault
          /\ pc' = [pc EXCEPT !["gc"] = "collect"]
          /\ garbage' = stos \ listed
       \/ /\ Fault
          /\ pc' = [pc EXCEPT !["gc"] = "idle"]
          /\ UNCHANGED garbage
    /\ UNCHANGED <<k8s, csi, view, queue, stos, busy, obj, read, listed, owed, panicked,
                   kept, env>>

Collect(o) ==
    /\ pc["gc"] = "collect"
    /\ o \in garbage
    /\ garbage' = garbage \ {o}
    /\ Take("gc", o)
    /\ UNCHANGED <<k8s, csi, view, queue, stos, busy, read, listed, owed, panicked,
                   kept, env, faults>>

CollectEnds ==
    /\ pc["gc"] = "collect"
    /\ garbage = {}
    /\ pc' = [pc EXCEPT !["gc"] = "idle"]
    /\ listed' = {}
    /\ kept' = [kept EXCEPT !["gc"] = {}]
    /\ UNCHANGED <<k8s, csi, view, queue, stos, busy, obj, read, garbage, owed, panicked,
                   env, faults>>

(* Mutant: an error is logged, as the collector does. *)
M_Finish(t, err) ==
    /\ pc' = [pc EXCEPT ![t] = IF t = "worker" THEN "idle" ELSE "collect"]
    /\ obj' = [obj EXCEPT ![t] = None]
    /\ UNCHANGED queue

(* Mutant: the first error ends the collection. *)
M_FinishReturns(t, err) ==
    /\ pc' = [pc EXCEPT ![t] = IF t = "worker" \/ err THEN "idle" ELSE "collect"]
    /\ obj' = [obj EXCEPT ![t] = None]
    /\ queue' = IF t = "worker" /\ err THEN queue \cup {obj[t]} ELSE queue

(* A thread is done with its object.  An error of the worker puts the      *)
(* request back into the queue, one of the collector is logged.            *)
Finish(t, err) ==
    /\ pc' = [pc EXCEPT ![t] = IF t = "worker" THEN "idle" ELSE "collect"]
    /\ obj' = [obj EXCEPT ![t] = None]
    /\ queue' = IF t = "worker" /\ err THEN queue \cup {obj[t]} ELSE queue

(* getNodeByKey, getNamespace: not to be found is success. *)
GetByKey(t) ==
    /\ pc[t] = "read"
    /\ \/ /\ obj[t] \notin stos
          /\ NoFault
          /\ Finish(t, FALSE)
          /\ UNCHANGED read
       \/ /\ obj[t] \in stos
          /\ NoFault
          /\ pc' = [pc EXCEPT ![t] = "delete"]
          /\ read' = [read EXCEPT ![t] = "same"]
          /\ UNCHANGED <<obj, queue>>
       \/ /\ Fault
          /\ Finish(t, TRUE)
          /\ UNCHANGED read
    /\ UNCHANGED <<k8s, csi, view, stos, busy, listed, garbage, owed, panicked, kept, env>>

(* The deletion of the object at the version read. *)
DeleteObject(t) ==
    /\ pc[t] = "delete"
    /\ read[t] = "same"
    /\ obj[t] \notin busy
    /\ NoFault
    /\ stos' = stos \ {obj[t]}
    /\ owed' = owed \ {obj[t]}
    /\ read' = [u \in Threads |-> IF obj[u] = obj[t] THEN "gone" ELSE read[u]]
    /\ Finish(t, FALSE)
    /\ UNCHANGED <<k8s, csi, view, busy, listed, garbage, panicked, kept, env>>

(* The API does not have that id any more, which is success, or it         *)
(* refuses, or fails.                                                      *)
DeleteRefused(t) ==
    /\ pc[t] = "delete"
    /\ \/ read[t] = "gone" /\ NoFault /\ Finish(t, FALSE)
       \/ /\ (read[t] # "gone" /\ (read[t] = "changed" \/ obj[t] \in busy) /\ NoFault) \/ Fault
          /\ Finish(t, TRUE)
    /\ read' = [read EXCEPT ![t] = "gone"]
    /\ UNCHANGED <<k8s, csi, view, stos, busy, listed, garbage, owed, panicked, kept, env>>

(* The process restarts: the informer lists anew, and no delete event      *)
(* tells of what went meanwhile.                                           *)
Restart ==
    /\ Fault
    /\ view' = k8s
    /\ queue' = {}
    /\ pc' = [t \in Threads |-> "idle"]
    /\ obj' = [t \in Threads |-> None]
    /\ read' = [t \in Threads |-> "gone"]
    /\ listed' = {} /\ garbage' = {}
    /\ kept' = [t \in Threads |-> {}]
    /\ UNCHANGED <<k8s, csi, stos, busy, env>>

Crash ==
    /\ Restart
    /\ owed' = {}
    /\ UNCHANGED panicked

(* The connection fails: there is an error and no response, and reading    *)
(* the status code of that panics.                                         *)
DeletePanics(t) ==
    /\ pc[t] = "delete"
    /\ Restart
    /\ panicked' = TRUE
    /\ UNCHANGED owed

Step(t) == GetByKey(t) \/ DeleteObject(t) \/ DeleteRefused(t)

Collector ==
    \/ ListKubernetes \/ ListExternal \/ CollectEnds
    \/ \E o \in Objects : Collect(o)
    \/ Step("gc")

Next ==
    \/ \E o \in Objects :
          \/ Create(o) \/ Delete(o) \/ RegisterCSI(o) \/ Join(o) \/ Use(o)
          \/ CreateEvent(o) \/ DeleteEvent(o) \/ Reconcile(o)
    \/ Collector
    \/ Step("worker")
    \/ \E t \in Threads : DeletePanics(t)
    \/ Crash

(* The informer, the queue, the worker and the collector's ticker and      *)
(* loop get their turn.                                                    *)
Fairness ==
    /\ \A o \in Objects : WF_vars(CreateEvent(o) \/ DeleteEvent(o)) /\ WF_vars(Reconcile(o))
    /\ WF_vars(Step("worker"))
    /\ WF_vars(Collector)

Spec == Init /\ [][Next]_vars
FairSpec == Spec /\ Fairness

-----------------------------------------------------------------------------
(* Properties.                                                             *)

(* The worker has a deletion until it succeeded, whatever the collector    *)
(* does beside it: what was deleted in Kubernetes is in the queue or at    *)
(* hand for as long as StorageOS has it, if the process was not restarted. *)
DeletesRetried == ~panicked => owed \subseteq queue \cup {obj["worker"]}

(* Neither thread ever has at hand an object that Kubernetes has had, and  *)
(* the informer too, ever since the thread began: the worker its deletion  *)
(* (Reconcile looks again), the collector its round, at whatever time      *)
(* after its two lists it comes to the object (collectGarbage).            *)
PresentSpared == \A t \in Threads : obj[t] \notin kept[t]

(* What Kubernetes does not have is removed from StorageOS once it is not  *)
(* in use, after missed events, restarts and failing calls too, and also   *)
(* what joined late or never had the annotation.                           *)
DeletedRemoved == <>[](stos \subseteq k8s \cup busy)

(* "If the delete request failed, it will be requeued and retried after a  *)
(* backoff period." (the READMEs of node-delete and namespace-delete)      *)
FailedDeleteRequeued == owed \subseteq queue \cup {obj["worker"]}

=============================================================================
