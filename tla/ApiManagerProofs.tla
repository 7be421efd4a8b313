-------------------------- MODULE ApiManagerProofs --------------------------
(***************************************************************************)
(* That the Pod webhook sets the scheduler of exactly the pods that have a *)
(* StorageOS volume, for any number of classes, claims and volumes of a    *)
(* pod, whatever the informers' cache lacks of them, and whatever outdated *)
(* classes of other names it has.                                          *)
(***************************************************************************)
EXTENDS ApiManager, FiniteSetTheorems, TLAPS

(* A state of the cluster and of the cache. *)
Clusters ==
    {k \in [scheduler : BOOLEAN,
            class : Objects(Classes, Class), classView : Objects(Classes, Class),
            claim : Objects(Claims, Claim), claimView : Objects(Claims, Claim)] :
        k.claimView \in Behind(k.claim)}

(* A cache behind the cluster has its objects or none. *)
LEMMA BehindView ==
    ASSUME NEW names, NEW kind, NEW objs \in Objects(names, kind), NEW view \in Behind(objs)
    PROVE  /\ view \in Objects(names, kind)
           /\ \A n \in names : view[n] = objs[n] \/ view[n] = None
BY DEF Objects, Behind

(* The parts of a cluster. *)
LEMMA ClusterParts ==
    ASSUME NEW k \in Clusters
    PROVE  /\ k.class \in Objects(Classes, Class)
           /\ k.claim \in Objects(Claims, Claim) /\ k.claimView \in Behind(k.claim)
BY DEF Clusters

(* The composite client finds what the cluster has, if the cache has that  *)
(* or nothing.                                                             *)
LEMMA GetFinds ==
    ASSUME NEW view, NEW objs, NEW n, view[n] = objs[n] \/ view[n] = None
    PROVE  Get(view, objs, n) = objs[n]
BY DEF Get

(* The only default class is the only one in the cache too. *)
LEMMA OnlyDefault ==
    ASSUME NEW k \in Clusters, NEW c \in Claims, k.claim[c] # None,
           PVCStorageClassName(k.claim[c]) = "", Resolved(k, c), NotOutdated(k, c)
    PROVE  /\ ClassOf(k, c) \in Classes
           /\ DefaultStorageClasses(k) = {ClassOf(k, c)}
           /\ k.classView[ClassOf(k, c)] = k.class[ClassOf(k, c)]
<1> DEFINE defaults == {s \in Classes : k.class[s] # None /\ k.class[s].default}
<1>1. IsFiniteSet(defaults)
  BY PodConstants, FS_Subset
<1>2. k.claim[c].spec = "" /\ k.claim[c].beta = ""
  BY DEF PVCStorageClassName
<1>3. ClassOf(k, c) = IF Cardinality(defaults) = 1 THEN CHOOSE s \in defaults : TRUE ELSE None
  BY <1>2 DEF ClassOf
<1>4. Cardinality(defaults) = 1
  BY <1>3 DEF Resolved
<1>5. PICK d : defaults = {d}
  BY <1>1, <1>4, FS_Singleton
<1>6. ClassOf(k, c) = d /\ d \in Classes
  BY <1>3, <1>4, <1>5
<1>7. \A s \in Classes \ {d} : k.classView[s] # None => ~k.classView[s].default
  BY <1>6 DEF NotOutdated
<1>8. k.classView[d] = k.class[d]
  BY <1>6 DEF NotOutdated
<1>9. DefaultStorageClasses(k) = {d}
  <2>1. d \in DefaultStorageClasses(k)
    BY <1>5, <1>6, <1>8 DEF DefaultStorageClasses
  <2>2. \A s \in DefaultStorageClasses(k) : s = d
    BY <1>7 DEF DefaultStorageClasses
  <2> QED BY <1>5, <2>1, <2>2
<1> QED
  BY <1>6, <1>8, <1>9

(* IsStorageOSVolume has one answer for a volume whose claim and class     *)
(* exist, and the right one.                                               *)
LEMMA VolumeAnswer ==
    ASSUME NEW k \in Clusters, NEW c \in Claims, Resolved(k, c), NotOutdated(k, c)
    PROVE  IsStorageOSVolume(k, c) = {IF Backed(k, c) THEN "yes" ELSE "no"}
<1>1. c # None /\ k.claim[c] \in Claim
  BY PodConstants, ClusterParts DEF Objects, Resolved
<1>2. Get(k.claimView, k.claim, c) = k.claim[c]
  BY ClusterParts, BehindView, GetFinds
<1>3. IsStorageOSVolume(k, c) = IsProvisionedPVC(k, k.claim[c])
  BY <1>1, <1>2 DEF IsStorageOSVolume, Resolved
<1>4. CASE PVCStorageClassName(k.claim[c]) # ""
  <2>1. ClassOf(k, c) = PVCStorageClassName(k.claim[c])
    BY <1>4 DEF ClassOf, PVCStorageClassName
  <2>2. \/ k.classView[ClassOf(k, c)] = k.class[ClassOf(k, c)]
        \/ k.classView[ClassOf(k, c)] = None
    BY <1>4 DEF NotOutdated
  <2>3. Get(k.classView, k.class, ClassOf(k, c)) = k.class[ClassOf(k, c)]
    BY <2>2 DEF Get
  <2> QED
    BY <1>3, <1>4, <2>1, <2>3
       DEF IsProvisionedPVC, IsProvisionedStorageClass, Resolved, Backed
<1>5. CASE PVCStorageClassName(k.claim[c]) = ""
  <2>1. /\ DefaultStorageClasses(k) = {ClassOf(k, c)}
        /\ k.classView[ClassOf(k, c)] = k.class[ClassOf(k, c)]
    BY <1>5, OnlyDefault DEF Resolved
  <2> QED
    BY <1>3, <1>5, <2>1 DEF IsProvisionedPVC, IsProvisionedStorageClass, Backed
<1> QED
  BY <1>4, <1>5

(* The answer for a pod follows from those for its volumes. *)
LEMMA PodAnswer ==
    ASSUME NEW k \in Clusters, NEW pod \in Pod,
           \A c \in ClaimsOf(pod) : Resolved(k, c) /\ NotOutdated(k, c)
    PROVE  MutatePod(k, pod) =
               {IF k.scheduler /\ ~pod.optOut /\ \E c \in ClaimsOf(pod) : Backed(k, c)
                  THEN "set" ELSE "kept"}
<1> DEFINE n == Len(pod.vols)
           possible == UNION {IsStorageOSVolume(k, pod.vols[i]) : i \in 1..n}
           answers == {a \in [1..n -> possible] :
                          \A i \in 1..n : a[i] \in IsStorageOSVolume(k, pod.vols[i])}
           Has(a, x) == \E i \in 1..n : a[i] = x
           Yes(i) == pod.vols[i] # None /\ Backed(k, pod.vols[i])
           right == [i \in 1..n |-> IF Yes(i) THEN "yes" ELSE "no"]
<1>1. pod.vols \in [1..n -> Claims \cup {None}] /\ DOMAIN pod.vols = 1..n
  BY DEF Pod, PodsWith
<1>2. \A i \in 1..n : pod.vols[i] # None => pod.vols[i] \in ClaimsOf(pod) \cap Claims
  BY <1>1 DEF ClaimsOf
<1>3. \A i \in 1..n : IsStorageOSVolume(k, pod.vols[i]) = {right[i]}
  <2> SUFFICES ASSUME NEW i \in 1..n PROVE IsStorageOSVolume(k, pod.vols[i]) = {right[i]}
    OBVIOUS
  <2>1. CASE pod.vols[i] = None
    BY <2>1 DEF IsStorageOSVolume
  <2>2. CASE pod.vols[i] # None
    BY <1>2, <2>2, VolumeAnswer
  <2> QED BY <2>1, <2>2
<1>4. answers = {right}
  <2>1. right \in answers
    <3>1. \A i \in 1..n : right[i] \in possible
      BY <1>3
    <3> QED BY <1>3, <3>1
  <2>2. ASSUME NEW a \in answers PROVE a = right
    BY <1>3, <2>2
  <2> QED BY <2>1, <2>2
<1>5. ~Has(right, "error") /\ (Has(right, "yes") <=> \E c \in ClaimsOf(pod) : Backed(k, c))
  BY <1>1, <1>2 DEF ClaimsOf
<1>6. MutatePod(k, pod) =
          IF ~k.scheduler \/ pod.optOut THEN {"kept"}
          ELSE {IF Has(a, "error") THEN "error" ELSE IF Has(a, "yes") THEN "set" ELSE "kept" :
                   a \in answers}
  BY DEF MutatePod
<1> HIDE DEF answers, possible, right, Has
<1>7. {IF Has(a, "error") THEN "error" ELSE IF Has(a, "yes") THEN "set" ELSE "kept" :
          a \in answers}
        = {IF Has(right, "yes") THEN "set" ELSE "kept"}
  BY <1>4, <1>5
<1> QED
  BY <1>5, <1>6, <1>7

(* The webhook is right about every pod, in every cluster. *)
LEMMA WebhookRight == SchedulerRight
<1> DEFINE Cluster(class, claim, classView, claimView, scheduler) ==
               [scheduler |-> scheduler, class |-> class, classView |-> classView,
                claim |-> claim, claimView |-> claimView]
           Usable(k) == {c \in Claims : Resolved(k, c) /\ NotOutdated(k, c)}
           Right(k, pod) ==
               MutatePod(k, pod) =
                   {IF k.scheduler /\ ~pod.optOut /\ \E c \in ClaimsOf(pod) : Backed(k, c)
                      THEN "set" ELSE "kept"}
<1>1. ASSUME NEW class \in Objects(Classes, Class), NEW claim \in Objects(Claims, Claim),
             NEW claimView \in Behind(claim), NEW classView \in Objects(Classes, Class),
             NEW scheduler \in BOOLEAN
      PROVE  LET k == Cluster(class, claim, classView, claimView, scheduler)
             IN  \A pod \in PodsWith(Usable(k)) : Right(k, pod)
  <2> DEFINE k == Cluster(class, claim, classView, claimView, scheduler)
  <2>1. k \in Clusters
    BY BehindView DEF Clusters
  <2> HIDE DEF k
  <2>2. ASSUME NEW pod \in PodsWith(Usable(k)) PROVE Right(k, pod)
    <3>1. pod \in Pod
      BY DEF Pod, PodsWith
    <3>2. \A c \in ClaimsOf(pod) : c \in Usable(k)
      BY DEF ClaimsOf, PodsWith
    <3> QED
      BY <2>1, <3>1, <3>2, PodAnswer
  <2> QED
    BY <2>2 DEF k
<1> QED
  BY <1>1 DEF SchedulerRight

-----------------------------------------------------------------------------
(* While the process serves, whatever its client and its lease are doing,  *)
(* the webhook sets the scheduler of exactly the pods that have a volume   *)
(* backed by StorageOS and have not opted out (MutatePod), unless the      *)
(* cache has an older class under a name that the pod's claims ask for.    *)
THEOREM PodsScheduledAlways == Spec => []PodsScheduled
<1>1. PodsScheduled
  BY WebhookRight DEF PodsScheduled
<1> QED
  BY <1>1, PTL

=============================================================================
