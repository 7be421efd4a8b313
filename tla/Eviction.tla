------------------------------ MODULE Eviction ------------------------------
(***************************************************************************)
(* What the fencer promises to the owners of pods, without its polls,      *)
(* caches, queues and goroutines: a pod is evicted for the sake of a node  *)
(* only if that node was reported offline and a pod of that name, with the *)
(* fencing label, ran there; and a volume is detached by force only from a *)
(* node for whose sake a pod that uses it was evicted before.  The pod     *)
(* goes by its name: it may have come back elsewhere.                      *)
(***************************************************************************)

CONSTANTS
    None,          \* no pod of that name
    Nodes,
    Pods,          \* names of pods
    Volumes,
    VolumesOf(_)   \* the volumes that a pod of that name uses

VARIABLES
    pods,          \* the pods there are: their node, and whether labelled
    vas,           \* the attachments <<volume, node>>
    offline,       \* the nodes that were reported offline
    placed,        \* <<pod, node>>: a labelled pod of that name was there
    evicted        \* <<pod, node>>: it was evicted for the sake of the node

vars == <<pods, vas, offline, placed, evicted>>

Pod == [node : Nodes, fenced : BOOLEAN]

(* The volume is used on the node. *)
Used(v, n) == \E p \in Pods : pods[p] # None /\ pods[p].node = n /\ v \in VolumesOf(p)

Init ==
    /\ pods \in [Pods -> Pod \cup {None}]
    /\ vas = {va \in Volumes \X Nodes : Used(va[1], va[2])}
    /\ offline = {}
    /\ placed = {pn \in Pods \X Nodes : pods[pn[1]] = [node |-> pn[2], fenced |-> TRUE]}
    /\ evicted = {}

Report(n) ==
    /\ offline' = offline \cup {n}
    /\ UNCHANGED <<pods, vas, placed, evicted>>

(* Pods come and go by others' doing. *)
Run(p, pod) ==
    /\ pods[p] = None
    /\ pods' = [pods EXCEPT ![p] = pod]
    /\ placed' = IF pod.fenced THEN placed \cup {<<p, pod.node>>} ELSE placed
    /\ UNCHANGED <<vas, offline, evicted>>

Remove(p) ==
    /\ pods' = [pods EXCEPT ![p] = None]
    /\ UNCHANGED <<vas, offline, placed, evicted>>

(* Attachments follow the use of the volumes. *)
Attach(v, n) ==
    /\ Used(v, n)
    /\ vas' = vas \cup {<<v, n>>}
    /\ UNCHANGED <<pods, offline, placed, evicted>>

Detach(v, n) ==
    /\ ~Used(v, n)
    /\ vas' = vas \ {<<v, n>>}
    /\ UNCHANGED <<pods, offline, placed, evicted>>

(* The fencer. *)
Evict(p, n) ==
    /\ n \in offline
    /\ <<p, n>> \in placed
    /\ pods' = [pods EXCEPT ![p] = None]
    /\ evicted' = evicted \cup {<<p, n>>}
    /\ UNCHANGED <<vas, offline, placed>>

ForceDetach(p, n, v) ==
    /\ <<p, n>> \in evicted
    /\ v \in VolumesOf(p)
    /\ vas' = vas \ {<<v, n>>}
    /\ UNCHANGED <<pods, offline, placed, evicted>>

Next ==
    \/ \E n \in Nodes : Report(n)
    \/ \E p \in Pods, pod \in Pod : Run(p, pod)
    \/ \E p \in Pods : Remove(p)
    \/ \E v \in Volumes, n \in Nodes : Attach(v, n) \/ Detach(v, n)
    \/ \E p \in Pods, n \in Nodes : Evict(p, n) \/ \E v \in Volumes : ForceDetach(p, n, v)

Spec == Init /\ [][Next]_vars

=============================================================================
