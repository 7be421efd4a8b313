----------------------------- MODULE PodMutator -----------------------------
(***************************************************************************)
(* The Pod admission webhook (controllers/pod-mutator): the scheduler      *)
(* setter, which gives a pod that mounts a StorageOS volume the StorageOS  *)
(* scheduler, and the predicates of internal/pkg/provisioner it asks.      *)
(*                                                                         *)
(* A request leaves no state behind, so the webhook is a function of what  *)
(* it reads: the pod, and the claims and StorageClasses of the cluster     *)
(* through the composite client, which looks in the informers' cache first *)
(* and, for an object that is not there, at the API server.  Where the     *)
(* answer depends on the order of a list, there is a set of answers.       *)
(***************************************************************************)
EXTENDS Naturals, Sequences, FiniteSets

CONSTANTS
    None,
    Classes,      \* the names of StorageClasses
    Claims,       \* the names of claims
    MaxVolumes    \* bound on the volumes of a pod

Class == [storageos : BOOLEAN, default : BOOLEAN]

(* The class a claim asks for, in its spec or in the beta annotation. *)
Claim == [spec : Classes \cup {""}, beta : Classes \cup {""}]

ASSUME PodConstants ==
    /\ None \notin Classes \cup Claims \cup Class \cup Claim
    /\ "" \notin Classes
    /\ IsFiniteSet(Classes)
    /\ MaxVolumes \in Nat

Objects(names, kind) == [names -> kind \cup {None}]

(* What the cache may hold of the claims: each, or not yet.  The class of  *)
(* a claim never changes; that one of the name was deleted before, and is  *)
(* still in the cache, is left out.  Of the classes it may hold older or   *)
(* deleted ones.                                                           *)
Behind(objs) == {view \in [DOMAIN objs -> {objs[k] : k \in DOMAIN objs} \cup {None}] :
                    \A k \in DOMAIN objs : view[k] \in {objs[k], None}}

(* The pods with claims of a set: their volumes, None where a volume has   *)
(* no claim.  A pod opts out with the scheduler annotation set to false.   *)
PodsWith(claims) ==
    [vols : UNION {[1..n -> claims \cup {None}] : n \in 0..MaxVolumes}, optOut : BOOLEAN]

Pod == PodsWith(Claims)

-----------------------------------------------------------------------------
(* The provisioner package, on a state k: the cluster, the cache, and      *)
(* whether the process was given a scheduler to set.  An answer is one of  *)
(* "yes", "no" and "error".                                                *)

(* Mutant: the manager's client, which has the cache only. *)
M_Get(cached, live, key) == cached[key]

Get(cached, live, key) == IF cached[key] # None THEN cached[key] ELSE live[key]

PVCStorageClassName(pvc) == IF pvc.spec # "" THEN pvc.spec ELSE pvc.beta

IsProvisionedStorageClass(sc) == IF sc.storageos THEN "yes" ELSE "no"

(* Lists come from the cache only. *)
DefaultStorageClasses(k) ==
    {s \in Classes : k.classView[s] # None /\ k.classView[s].default}

IsProvisionedPVC(k, pvc) ==
    LET name == PVCStorageClassName(pvc)
        sc == Get(k.classView, k.class, name)
    IN  IF name # "" THEN {IF sc = None THEN "error" ELSE IsProvisionedStorageClass(sc)}
        ELSE IF DefaultStorageClasses(k) = {} THEN {"error"}
        ELSE {IsProvisionedStorageClass(k.classView[s]) : s \in DefaultStorageClasses(k)}

IsStorageOSVolume(k, claim) ==
    IF claim = None THEN {"no"}
    ELSE LET pvc == Get(k.claimView, k.claim, claim)
         IN  IF pvc = None THEN {"error"} ELSE IsProvisionedPVC(k, pvc)

-----------------------------------------------------------------------------
(* The webhook: an error for any volume is the answer to the request, and  *)
(* leaves the pod as it was (failurePolicy=ignore).                        *)

MutatePod(k, pod) ==
    LET n == Len(pod.vols)
        possible == UNION {IsStorageOSVolume(k, pod.vols[i]) : i \in 1..n}
        answers == {a \in [1..n -> possible] :
                       \A i \in 1..n : a[i] \in IsStorageOSVolume(k, pod.vols[i])}
        Has(a, x) == \E i \in 1..n : a[i] = x
    IN  IF ~k.scheduler \/ pod.optOut THEN {"kept"}
        ELSE {IF Has(a, "error") THEN "error" ELSE IF Has(a, "yes") THEN "set" ELSE "kept" :
                 a \in answers}

-----------------------------------------------------------------------------
(* Properties.                                                             *)

(* The class that a claim gets: the one it names, or the only default. *)
ClassOf(k, c) ==
    LET name == IF k.claim[c].spec = "" THEN k.claim[c].beta ELSE k.claim[c].spec
        defaults == {s \in Classes : k.class[s] # None /\ k.class[s].default}
    IN  IF name # "" THEN name
        ELSE IF Cardinality(defaults) = 1 THEN CHOOSE s \in defaults : TRUE ELSE None

ClaimsOf(pod) == {pod.vols[i] : i \in DOMAIN pod.vols} \ {None}

(* The claim and its class exist. *)
Resolved(k, c) ==
    /\ k.claim[c] # None
    /\ ClassOf(k, c) # None
    /\ k.class[ClassOf(k, c)] # None

(* The cache has no older class under the name that the claim asks for; or *)
(* it has the default class as it is, and no other one marked as such.     *)
NotOutdated(k, c) ==
    LET sc == ClassOf(k, c)
    IN  IF PVCStorageClassName(k.claim[c]) # ""
          THEN k.classView[sc] \in {k.class[sc], None}
          ELSE /\ k.classView[sc] = k.class[sc]
               /\ \A s \in Classes \ {sc} : k.classView[s] # None => ~k.classView[s].default

Backed(k, c) == k.class[ClassOf(k, c)].storageos

(* "If at least one volume is backed by StorageOS, the SchedulerName will  *)
(* be changed", and otherwise, or where none is configured, it is not: for *)
(* a pod whose claims and whose claims' classes exist, although the cache  *)
(* has not seen them yet, and whatever outdated classes it has besides.    *)
SchedulerRight ==
    \A class \in Objects(Classes, Class), claim \in Objects(Claims, Claim) :
    \A claimView \in Behind(claim), classView \in Objects(Classes, Class), scheduler \in BOOLEAN :
        LET k == [scheduler |-> scheduler,
                  class |-> class, classView |-> classView,
                  claim |-> claim, claimView |-> claimView]
            usable == {c \in Claims : Resolved(k, c) /\ NotOutdated(k, c)}
        IN  \A pod \in PodsWith(usable) :
                MutatePod(k, pod) =
                    {IF scheduler /\ ~pod.optOut /\ \E c \in ClaimsOf(pod) : Backed(k, c)
                       THEN "set" ELSE "kept"}

=============================================================================
