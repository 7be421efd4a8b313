------------------------- MODULE SharedVolumeProofs -------------------------
(***************************************************************************)
(* Proofs about SharedVolume, for any number of managers and volumes.      *)
(*                                                                         *)
(* The managers share nothing but what is in Kubernetes and StorageOS, and *)
(* read the former from informers of any age.  What makes them agree is    *)
(* that every copy of a service, wherever it is, is of one that the volume *)
(* had, and that a volume whose service nobody touched has had only one.   *)
(***************************************************************************)
EXTENDS SharedVolume, TLAPS

(* A copy s of the service of v. *)
CopyOf(v, s) ==
    s # None => s.ip \in everIP[v] /\ (v \in touched \/ (s.decl = "nfs" /\ s.single))

Copies ==
    /\ \A v \in Volumes : CopyOf(v, svc[v])
    /\ \A m \in Managers, v \in Volumes : CopyOf(v, svcView[m][v])
    /\ \A m \in Managers : mvol[m] # None => CopyOf(mvol[m], msvc[m])

(* A volume that others left alone has had at most its present service. *)
OneService ==
    \A v \in Volumes \ touched :
        everIP[v] = {} \/ (svc[v] # None /\ everIP[v] = {svc[v].ip})

(* Endpoints that are known to anyone have existed. *)
EndpointsExisted ==
    /\ \A v \in Volumes : eps[v] # None => everTarget[v] # {}
    /\ \A m \in Managers, v \in Volumes : epsView[m][v] # None => everTarget[v] # {}
    /\ \A m \in Managers :
          mpc[m] \in {"publish", "setExt"} => everTarget[mvol[m]] # {} /\ msvc[m].single
    /\ \A m \in Managers :
          mpc[m] \in {"getEps", "createEps", "waitEps", "updEps"} => msvc[m].single

(* What is published is the address of a service. *)
PublishedIsCopy ==
    \A v \in Volumes : ext[v] # None =>
        ext[v][1] \in everIP[v] /\ everTarget[v] # {} /\ (v \in touched \/ ext[v][2] = "nfs")

IInv == TypeOK /\ Copies /\ OneService /\ EndpointsExisted /\ PublishedIsCopy

-----------------------------------------------------------------------------
(* Types.                                                                  *)

LocalOK ==
    /\ mpc \in [Managers -> MPC]
    /\ mvol \in [Managers -> Volumes \cup {None}]
    /\ msv \in [Managers -> SV \cup {None}]
    /\ msvc \in [Managers -> Svc \cup {None}]
    /\ meps \in [Managers -> Eps \cup {None}]
    /\ mfresh \in [Managers -> BOOLEAN]
    /\ \A m \in Managers :
          /\ mvol[m] = None <=> mpc[m] \in {"idle", "resetting", "loop"}
          /\ msv[m] = None <=> mvol[m] = None
          /\ mpc[m] \in {"updSvc", "getEps", "createEps", "waitEps", "updEps",
                         "publish", "setExt"} <=> msvc[m] # None

K8sOK ==
    /\ nfs \in [Volumes -> Internal \cup {None}]
    /\ pvc \in SUBSET Volumes
    /\ svc \in [Volumes -> Svc \cup {None}]
    /\ eps \in [Volumes -> Eps \cup {None}]
    /\ leftover \in SUBSET Volumes
    /\ everIP \in [Volumes -> SUBSET IPs]
    /\ everTarget \in [Volumes -> SUBSET Internal]
    /\ touched \in SUBSET Volumes

ViewsOK ==
    /\ ext \in [Volumes -> External \cup {None}]
    /\ pvcView \in [Managers -> SUBSET Volumes]
    /\ svcView \in [Managers -> [Volumes -> Svc \cup {None}]]
    /\ epsView \in [Managers -> [Volumes -> Eps \cup {None}]]
    /\ vcache \in [Managers -> [Volumes -> SV \cup {None}]]
    /\ mtodo \in [Managers -> [Volumes -> SV \cup {None}]]
    /\ env \in Nat /\ faults \in Nat

(* The type invariant in three parts. *)
LEMMA TypeParts ==
    /\ TypeOK <=> LocalOK /\ K8sOK /\ ViewsOK
    /\ TypeOK' <=> LocalOK' /\ K8sOK' /\ ViewsOK'
BY DEF TypeOK, LocalOK, K8sOK, ViewsOK

(* Objects that the controller makes, for shared_volume_types.go. *)
LEMMA ObjectTypes ==
    ASSUME NEW i \in Internal
    PROVE  /\ \A ip \in IPs : Service(i, ip) \in Svc
           /\ \A s \in Svc : ServiceUpdate(i, s) \in Svc
           /\ \A e \in Eps : EndpointsUpdate(i, e) \in Eps
           /\ Endpoints(i) \in Eps
<1>1. i[2] \in Ports
  BY DEF Ports
<1>2. \A ip \in IPs : Service(i, ip) \in Svc
  BY <1>1 DEF Service, Svc, Decl
<1>3. \A s \in Svc : ServiceUpdate(i, s) \in Svc
  BY Zenon, <1>1 DEF ServiceUpdate, Svc, Decl
<1>4. Endpoints(i) \in Eps
  BY DEF Endpoints, Eps, Decl
<1>5. \A e \in Eps : EndpointsUpdate(i, e) \in Eps
  BY <1>4 DEF EndpointsUpdate, Eps
<1> QED
  BY <1>2, <1>3, <1>4, <1>5

(* The address of a service, for Frontend. *)
LEMMA FrontendType ==
    ASSUME NEW s \in Svc
    PROVE  Frontend(s) \in External \cup {None}
BY DEF Frontend, External, Svc

(* The volume at hand in ensureService, for mvol, msv and msvc. *)
LEMMA AtHand ==
    ASSUME LocalOK, NEW m \in Managers, mpc[m] \notin {"idle", "resetting", "loop"}
    PROVE  /\ mvol[m] \in Volumes
           /\ msv[m] \in SV /\ msv[m].int \in Internal
           /\ mpc[m] \in {"updSvc", "getEps", "createEps", "waitEps", "updEps",
                          "publish", "setExt"} => msvc[m] \in Svc
BY ConstantsAssumption DEF LocalOK, SV

(* What informers have, for svcView and epsView. *)
LEMMA ViewTypes ==
    ASSUME ViewsOK, NEW m \in Managers, NEW v \in Volumes
    PROVE  svcView[m][v] \in Svc \cup {None} /\ epsView[m][v] \in Eps \cup {None}
BY DEF ViewsOK

(* Only the local state of m changes, to where there is no volume at hand. *)
LEMMA LeaveType ==
    ASSUME LocalOK, NEW m \in Managers, LeaveVolume(m)
    PROVE  LocalOK'
<1>1. /\ mpc' \in [Managers -> MPC]
      /\ mvol' \in [Managers -> Volumes \cup {None}]
      /\ msv' \in [Managers -> SV \cup {None}]
      /\ msvc' \in [Managers -> Svc \cup {None}]
      /\ meps' \in [Managers -> Eps \cup {None}]
      /\ mfresh' \in [Managers -> BOOLEAN]
  BY DEF LocalOK, LeaveVolume, MPC
<1>2. \A n \in Managers :
         /\ mpc'[n] = (IF n = m THEN "loop" ELSE mpc[n])
         /\ mvol'[n] = (IF n = m THEN None ELSE mvol[n])
         /\ msv'[n] = (IF n = m THEN None ELSE msv[n])
         /\ msvc'[n] = (IF n = m THEN None ELSE msvc[n])
  BY DEF LocalOK, LeaveVolume
<1> QED
  BY <1>1, <1>2 DEF LocalOK

(* ensureService goes on with a service, for HaveService. *)
LEMMA HaveServiceType ==
    ASSUME LocalOK, NEW m \in Managers, NEW s \in Svc, HaveService(m, s),
           mpc[m] \notin {"idle", "resetting", "loop"}
    PROVE  LocalOK'
<1>0. s # None
  BY ConstantsAssumption
<1>1. /\ mpc' \in [Managers -> MPC]
      /\ msvc' \in [Managers -> Svc \cup {None}]
  BY DEF LocalOK, HaveService, MPC
<1>2. \A n \in Managers :
         /\ n # m => mpc'[n] = mpc[n]
         /\ mpc'[m] \in {"getEps", "updSvc"}
         /\ msvc'[n] = (IF n = m THEN s ELSE msvc[n])
  BY DEF LocalOK, HaveService
<1>3. UNCHANGED <<mvol, msv, meps, mfresh>>
  BY DEF HaveService
<1> QED
  BY <1>0, <1>1, <1>2, <1>3 DEF LocalOK

(* ensureService goes on with the endpoints, for HaveEndpoints. *)
LEMMA HaveEndpointsType ==
    ASSUME LocalOK, NEW m \in Managers, NEW e \in Eps, HaveEndpoints(m, e),
           mpc[m] \in {"getEps", "waitEps"}
    PROVE  LocalOK'
<1>1. /\ mpc' \in [Managers -> MPC]
      /\ meps' \in [Managers -> Eps \cup {None}]
  BY DEF LocalOK, HaveEndpoints, MPC
<1>2. \A n \in Managers :
         /\ n # m => mpc'[n] = mpc[n]
         /\ mpc'[m] \in {"publish", "updEps"}
  BY DEF LocalOK, HaveEndpoints
<1>3. UNCHANGED <<mvol, msv, msvc, mfresh>>
  BY DEF HaveEndpoints
<1> QED
  BY <1>1, <1>2, <1>3 DEF LocalOK

(* A step inside ensureService that only moves on. *)
LEMMA MoveType ==
    ASSUME LocalOK, NEW m \in Managers, NEW where \in MPC,
           mpc' = [mpc EXCEPT ![m] = where],
           UNCHANGED <<mvol, msv, msvc, meps>>, mfresh' \in [Managers -> BOOLEAN],
           where \in {"idle", "resetting", "loop"} <=> mpc[m] \in {"idle", "resetting", "loop"},
           \/ mpc[m] \in {"idle", "resetting", "loop"}
           \/ {mpc[m], where} \subseteq {"getSvc", "createSvc", "waitSvc"}
           \/ {mpc[m], where} \subseteq {"updSvc", "getEps", "createEps", "waitEps", "updEps",
                                         "publish", "setExt"}
    PROVE  LocalOK'
<1>1. mpc' \in [Managers -> MPC]
  BY DEF LocalOK
<1>2. \A n \in Managers : mpc'[n] = (IF n = m THEN where ELSE mpc[n])
  BY DEF LocalOK
<1> QED
  BY <1>1, <1>2 DEF LocalOK

(* A step of the environment leaves managers alone, but for versions. *)
LEMMA EnvironmentLocal ==
    ASSUME LocalOK, Environment
    PROVE  LocalOK' /\ UNCHANGED <<mpc, mvol, msv, msvc, meps, mtodo, vcache, ext>>
<1>1. UNCHANGED <<mpc, mvol, msv, msvc, meps, mtodo, vcache>>
  BY DEF Environment, SetNFS, UpdateVolume, DeletePVC, DeleteService, DeleteEndpoints, EditService,
     EditEndpoints, CollectService, CollectEndpoints, PvcEvent, SvcEvent, EpsEvent, EnvStep, localVars
<1>2. ext' = ext
  BY DEF Environment, SetNFS, UpdateVolume, DeletePVC, DeleteService, DeleteEndpoints, EditService,
     EditEndpoints, CollectService, CollectEndpoints, PvcEvent, SvcEvent, EpsEvent, stosVars
<1>3. mfresh' = mfresh \/ \E v \in Volumes : VolumeChanges(v)
  BY DEF Environment, SetNFS, UpdateVolume, DeletePVC, DeleteService, DeleteEndpoints, EditService,
     EditEndpoints, CollectService, CollectEndpoints, PvcEvent, SvcEvent, EpsEvent
<1>4. mfresh' \in [Managers -> BOOLEAN]
  <2>1. ASSUME NEW v \in Volumes, VolumeChanges(v)
        PROVE  mfresh' \in [Managers -> BOOLEAN]
    <3>1. \A m \in Managers : (mfresh[m] /\ mvol[m] # v) \in BOOLEAN
      BY DEF LocalOK
    <3> QED
      BY <2>1, <3>1, Zenon DEF VolumeChanges
  <2> QED
    BY <1>3, <2>1 DEF LocalOK
<1>5. LocalOK'
  BY <1>1, <1>4 DEF LocalOK
<1> QED
  BY <1>1, <1>2, <1>5

(* Every step keeps the types of local state, for LocalOK. *)
LEMMA LocalStep ==
    ASSUME TypeOK, [Next]_vars
    PROVE  LocalOK'
<1>0. LocalOK /\ ViewsOK
  BY TypeParts
<1> USE <1>0
<1>1. ASSUME UNCHANGED <<mpc, mvol, msv, msvc, meps, mfresh>>
      PROVE  LocalOK'
  BY <1>1 DEF LocalOK
<1>2. CASE UNCHANGED vars
  BY <1>1, <1>2 DEF vars, localVars
<1>3. CASE Environment
  BY <1>3, EnvironmentLocal
<1>4. ASSUME NEW m \in Managers, NEW v \in Volumes, CacheExpires(m, v)
      PROVE  LocalOK'
  BY <1>1, <1>4 DEF CacheExpires, localVars
<1>5. ASSUME NEW m \in Managers, Crash(m)
      PROVE  LocalOK'
  <2>1. /\ mpc' \in [Managers -> MPC]
        /\ mvol' \in [Managers -> Volumes \cup {None}]
        /\ msv' \in [Managers -> SV \cup {None}]
        /\ msvc' \in [Managers -> Svc \cup {None}]
        /\ meps' \in [Managers -> Eps \cup {None}]
        /\ mfresh' \in [Managers -> BOOLEAN]
    BY <1>5 DEF LocalOK, Crash, MPC
  <2>2. \A n \in Managers :
           /\ mpc'[n] = (IF n = m THEN "idle" ELSE mpc[n])
           /\ mvol'[n] = (IF n = m THEN None ELSE mvol[n])
           /\ msv'[n] = (IF n = m THEN None ELSE msv[n])
           /\ msvc'[n] = (IF n = m THEN None ELSE msvc[n])
    BY <1>5 DEF LocalOK, Crash
  <2> QED
    BY <2>1, <2>2 DEF LocalOK
<1>6. ASSUME NEW m \in Managers, ManagerStep(m)
      PROVE  LocalOK'
  <2>1. ASSUME LeaveVolume(m) PROVE LocalOK'
    BY <2>1, LeaveType
  <2>2. CASE ListSharedVolumes(m) \/ ApiReset(m) \/ LoopEnds(m)
    <3>1. PICK where \in {"idle", "resetting", "loop"} : mpc' = [mpc EXCEPT ![m] = where]
      BY <2>2 DEF ListSharedVolumes, ApiReset, LoopEnds
    <3>2. UNCHANGED <<mvol, msv, msvc, meps, mfresh>> /\ mpc[m] \in {"idle", "resetting", "loop"}
      BY <2>2 DEF ListSharedVolumes, ApiReset, LoopEnds, localVars
    <3>3. where \in MPC /\ mfresh' \in [Managers -> BOOLEAN]
      BY <3>2 DEF MPC, LocalOK
    <3> QED
      BY Zenon, <3>1, <3>2, <3>3, MoveType
  <2>3. ASSUME NEW v \in Volumes, NextVolume(m, v)
        PROVE  LocalOK'
    <3>1. CASE UNCHANGED <<mpc, mvol, msv>>
      BY <1>1, <2>3, <3>1 DEF NextVolume
    <3>2. CASE /\ mpc' = [mpc EXCEPT ![m] = "getSvc"]
               /\ mvol' = [mvol EXCEPT ![m] = v]
               /\ msv' = [msv EXCEPT ![m] = mtodo[m][v]]
      <4>1. mtodo[m][v] \in SV /\ mtodo[m][v] # None /\ UNCHANGED <<msvc, meps, mfresh>>
            /\ mpc[m] = "loop"
        BY <2>3 DEF NextVolume, ViewsOK
      <4>2. v # None
        BY ConstantsAssumption
      <4>3. /\ mpc' \in [Managers -> MPC]
            /\ mvol' \in [Managers -> Volumes \cup {None}]
            /\ msv' \in [Managers -> SV \cup {None}]
        BY <3>2, <4>1 DEF LocalOK, MPC
      <4>4. \A n \in Managers :
               /\ mpc'[n] = (IF n = m THEN "getSvc" ELSE mpc[n])
               /\ mvol'[n] = (IF n = m THEN v ELSE mvol[n])
               /\ msv'[n] = (IF n = m THEN mtodo[m][v] ELSE msv[n])
        BY <3>2 DEF LocalOK
      <4> QED
        BY <4>1, <4>2, <4>3, <4>4 DEF LocalOK
    <3> QED
      BY <2>3, <3>1, <3>2 DEF NextVolume
  <2>4. CASE GetService(m)
    <3>1. CASE svcView[m][mvol[m]] = None
      <4>1. mpc[m] = "getSvc" /\ mpc' = [mpc EXCEPT ![m] = "createSvc"]
            /\ UNCHANGED <<mvol, msv, msvc, meps, mfresh>>
        BY <2>4, <3>1 DEF GetService
      <4>2. "createSvc" \in MPC /\ mfresh' \in [Managers -> BOOLEAN]
        BY <4>1 DEF MPC, LocalOK
      <4> QED
        BY Zenon, <4>1, <4>2, MoveType
    <3>2. CASE svcView[m][mvol[m]] # None
      <4>0. mvol[m] \in Volumes
        BY <2>4, AtHand DEF GetService
      <4>1. svcView[m][mvol[m]] \in Svc
        BY <3>2, <4>0, ViewTypes
      <4> QED
        BY <2>4, <3>2, <4>1, HaveServiceType DEF GetService
    <3> QED
      BY <3>1, <3>2
  <2>5. CASE CreateService(m)
    <3>1. CASE mpc' = [mpc EXCEPT ![m] = "waitSvc"] /\ UNCHANGED <<mvol, msv, msvc, meps, mfresh>>
      <4>1. mpc[m] = "createSvc" /\ mpc' = [mpc EXCEPT ![m] = "waitSvc"]
            /\ UNCHANGED <<mvol, msv, msvc, meps, mfresh>>
        BY <2>5, <3>1 DEF CreateService
      <4>2. "waitSvc" \in MPC /\ mfresh' \in [Managers -> BOOLEAN]
        BY <4>1 DEF MPC, LocalOK
      <4> QED
        BY Zenon, <4>1, <4>2, MoveType
    <3> QED
      BY <2>1, <2>5, <3>1 DEF CreateService
  <2>6. CASE WaitForClusterIP(m)
    <3>1. CASE svcView[m][mvol[m]] # None
      <4>0. mvol[m] \in Volumes
        BY <2>6, AtHand DEF WaitForClusterIP
      <4>1. svcView[m][mvol[m]] \in Svc
        BY <3>1, <4>0, ViewTypes
      <4> QED
        BY <2>6, <3>1, <4>1, HaveServiceType DEF WaitForClusterIP
    <3> QED
      BY <2>1, <2>6, <3>1 DEF WaitForClusterIP
  <2>7. CASE UpdateService(m)
    <3> DEFINE s == ServiceUpdate(msv[m].int, msvc[m])
    <3>1. CASE /\ msvc' = [msvc EXCEPT ![m] = s]
               /\ mpc' = [mpc EXCEPT ![m] = "getEps"]
               /\ UNCHANGED <<mvol, msv, meps, mfresh>>
      <4>1. mpc[m] = "updSvc"
        BY <2>7 DEF UpdateService
      <4>2. s \in Svc /\ s # None
        BY <4>1, AtHand, ObjectTypes, ConstantsAssumption
      <4>3. mpc' \in [Managers -> MPC] /\ msvc' \in [Managers -> Svc \cup {None}]
        BY <3>1, <4>2 DEF LocalOK, MPC
      <4>4. \A n \in Managers :
               /\ mpc'[n] = (IF n = m THEN "getEps" ELSE mpc[n])
               /\ msvc'[n] = (IF n = m THEN s ELSE msvc[n])
        BY <3>1 DEF LocalOK
      <4> QED
        BY Zenon, <3>1, <4>1, <4>2, <4>3, <4>4 DEF LocalOK
    <3> QED
      BY <2>1, <2>7, <3>1 DEF UpdateService
  <2>8. CASE GetEndpoints(m)
    <3>1. CASE epsView[m][mvol[m]] = None
      <4>1. mpc[m] = "getEps" /\ mpc' = [mpc EXCEPT ![m] = "createEps"]
            /\ UNCHANGED <<mvol, msv, msvc, meps, mfresh>>
        BY <2>8, <3>1 DEF GetEndpoints
      <4>2. "createEps" \in MPC /\ mfresh' \in [Managers -> BOOLEAN]
        BY <4>1 DEF MPC, LocalOK
      <4> QED
        BY Zenon, <4>1, <4>2, MoveType
    <3>2. CASE epsView[m][mvol[m]] # None
      <4>0. mvol[m] \in Volumes
        BY <2>8, AtHand DEF GetEndpoints
      <4>1. epsView[m][mvol[m]] \in Eps
        BY <3>2, <4>0, ViewTypes
      <4> QED
        BY <2>8, <3>2, <4>1, HaveEndpointsType DEF GetEndpoints
    <3> QED
      BY <3>1, <3>2
  <2>9. CASE CreateEndpoints(m)
    <3>1. CASE mpc' = [mpc EXCEPT ![m] = "waitEps"] /\ UNCHANGED <<mvol, msv, msvc, meps, mfresh>>
      <4>1. mpc[m] = "createEps" /\ mpc' = [mpc EXCEPT ![m] = "waitEps"]
            /\ UNCHANGED <<mvol, msv, msvc, meps, mfresh>>
        BY <2>9, <3>1 DEF CreateEndpoints
      <4>2. "waitEps" \in MPC /\ mfresh' \in [Managers -> BOOLEAN]
        BY <4>1 DEF MPC, LocalOK
      <4> QED
        BY Zenon, <4>1, <4>2, MoveType
    <3> QED
      BY <2>1, <2>9, <3>1 DEF CreateEndpoints
  <2>10. CASE WaitForAvailable(m)
    <3>1. CASE epsView[m][mvol[m]] = None
      <4>1. mpc[m] = "waitEps" /\ mpc' = [mpc EXCEPT ![m] = "updEps"]
            /\ UNCHANGED <<mvol, msv, msvc, meps, mfresh>>
        BY <2>10, <3>1 DEF WaitForAvailable
      <4>2. "updEps" \in MPC /\ mfresh' \in [Managers -> BOOLEAN]
        BY <4>1 DEF MPC, LocalOK
      <4> QED
        BY Zenon, <4>1, <4>2, MoveType
    <3>2. CASE epsView[m][mvol[m]] # None
      <4>0. mvol[m] \in Volumes
        BY <2>10, AtHand DEF WaitForAvailable
      <4>1. epsView[m][mvol[m]] \in Eps
        BY <3>2, <4>0, ViewTypes
      <4> QED
        BY <2>10, <3>2, <4>1, HaveEndpointsType DEF WaitForAvailable
    <3> QED
      BY <3>1, <3>2
  <2>11. CASE UpdateEndpoints(m)
    <3>1. CASE mpc' = [mpc EXCEPT ![m] = "publish"] /\ UNCHANGED <<mvol, msv, msvc, meps, mfresh>>
      <4>1. mpc[m] = "updEps" /\ mpc' = [mpc EXCEPT ![m] = "publish"]
            /\ UNCHANGED <<mvol, msv, msvc, meps, mfresh>>
        BY <2>11, <3>1 DEF UpdateEndpoints
      <4>2. "publish" \in MPC /\ mfresh' \in [Managers -> BOOLEAN]
        BY <4>1 DEF MPC, LocalOK
      <4> QED
        BY Zenon, <4>1, <4>2, MoveType
    <3> QED
      BY <2>1, <2>11, <3>1 DEF UpdateEndpoints
  <2>12. CASE PublishEndpoint(m)
    <3>1. CASE /\ mpc' = [mpc EXCEPT ![m] = "setExt"]
               /\ mfresh' = [mfresh EXCEPT ![m] = TRUE]
               /\ UNCHANGED <<vcache, mvol, msv, msvc, meps>>
      <4>1. mpc[m] = "publish"
        BY <2>12 DEF PublishEndpoint
      <4>2. "setExt" \in MPC /\ mfresh' \in [Managers -> BOOLEAN]
        BY <3>1 DEF MPC, LocalOK
      <4> QED
        BY Zenon, <3>1, <4>1, <4>2, MoveType
    <3> QED
      BY <2>1, <2>12, <3>1 DEF PublishEndpoint, CacheVolume
  <2>13. CASE SetExternalEndpoint(m)
    <3>1. CASE /\ mfresh' = [n \in Managers |-> mfresh[n] /\ mvol[n] # mvol[m]]
               /\ mpc' = [mpc EXCEPT ![m] = "loop"]
               /\ mvol' = [mvol EXCEPT ![m] = None]
               /\ msv' = [msv EXCEPT ![m] = None]
               /\ msvc' = [msvc EXCEPT ![m] = None]
               /\ meps' = [meps EXCEPT ![m] = None]
      <4>1. mfresh' \in [Managers -> BOOLEAN]
        <5>1. \A n \in Managers : (mfresh[n] /\ mvol[n] # mvol[m]) \in BOOLEAN
          BY DEF LocalOK
        <5> QED
          BY <3>1, <5>1, Zenon
      <4>2. /\ mpc' \in [Managers -> MPC]
            /\ mvol' \in [Managers -> Volumes \cup {None}]
            /\ msv' \in [Managers -> SV \cup {None}]
            /\ msvc' \in [Managers -> Svc \cup {None}]
            /\ meps' \in [Managers -> Eps \cup {None}]
        BY <3>1 DEF LocalOK, MPC
      <4>3. \A n \in Managers :
               /\ mpc'[n] = (IF n = m THEN "loop" ELSE mpc[n])
               /\ mvol'[n] = (IF n = m THEN None ELSE mvol[n])
               /\ msv'[n] = (IF n = m THEN None ELSE msv[n])
               /\ msvc'[n] = (IF n = m THEN None ELSE msvc[n])
        BY <3>1 DEF LocalOK
      <4> QED
        BY <4>1, <4>2, <4>3 DEF LocalOK
    <3> QED
      BY <2>1, <2>13, <3>1 DEF SetExternalEndpoint
  <2> QED
    BY <1>6, <2>2, <2>3, <2>4, <2>5, <2>6, <2>7, <2>8, <2>9, <2>10, <2>11, <2>12, <2>13
    DEF ManagerStep
<1> QED
  BY <1>2, <1>3, <1>4, <1>5, <1>6 DEF Next


-----------------------------------------------------------------------------
(* What a step does to services and endpoints.                             *)

SvcKept == UNCHANGED <<svc, everIP, touched>>

SvcCreated(v, s) ==
    /\ svc[v] = None
    /\ s.decl = "nfs" /\ s.single
    /\ svc' = [svc EXCEPT ![v] = s]
    /\ everIP' = [everIP EXCEPT ![v] = @ \cup {s.ip}]
    /\ UNCHANGED touched

(* A manager updates the service it has read; others touch it. *)
SvcUpdated(v, s) ==
    /\ svc[v] # None
    /\ s.ip = svc[v].ip
    /\ s.single
    /\ s.decl = "nfs" \/ s.decl = svc[v].decl
    /\ svc' = [svc EXCEPT ![v] = s]
    /\ UNCHANGED <<everIP, touched>>

SvcTouched(v, s) ==
    /\ svc[v] # None
    /\ s # None => s.ip = svc[v].ip
    /\ svc' = [svc EXCEPT ![v] = s]
    /\ touched' = touched \cup {v}
    /\ UNCHANGED everIP

(* The steps that concern services. *)
LEMMA SvcStep ==
    ASSUME TypeOK, [Next]_vars
    PROVE  \/ SvcKept
           \/ \E v \in Volumes, s \in Svc : SvcCreated(v, s) \/ SvcUpdated(v, s)
           \/ \E v \in Volumes, s \in Svc \cup {None} : SvcTouched(v, s)
<1> DEFINE Goal == \/ SvcKept
                   \/ \E v \in Volumes, s \in Svc : SvcCreated(v, s) \/ SvcUpdated(v, s)
                   \/ \E v \in Volumes, s \in Svc \cup {None} : SvcTouched(v, s)
<1> SUFFICES Goal
  OBVIOUS
<1> HIDE DEF Goal
<1>0. LocalOK /\ K8sOK
  BY TypeParts
<1>1. ASSUME SvcKept PROVE Goal
  BY <1>1 DEF Goal
<1>2. CASE UNCHANGED vars
  BY <1>1, <1>2 DEF vars, k8sVars, histVars, SvcKept
<1>3. CASE Environment
  <2>1. ASSUME NEW v \in Volumes, DeleteService(v) \/ CollectService(v)
        PROVE  Goal
    <3>1. SvcTouched(v, None)
      BY <2>1 DEF DeleteService, CollectService, RemoveService, EnvStep, SvcTouched
    <3> QED
      BY <3>1 DEF Goal
  <2>2. ASSUME NEW v \in Volumes, EditService(v)
        PROVE  Goal
    <3>1. svc[v] \in Svc
      BY <1>0, <2>2 DEF EditService, K8sOK
    <3>2. PICK s \in Svc : svc' = [svc EXCEPT ![v] = s] /\ s.ip = svc[v].ip
      <4>1. [svc[v] EXCEPT !.decl = "other"] \in Svc /\ [svc[v] EXCEPT !.single = FALSE] \in Svc
        BY Zenon, <3>1 DEF Svc, Decl
      <4>2. [svc[v] EXCEPT !.decl = "other"].ip = svc[v].ip
            /\ [svc[v] EXCEPT !.single = FALSE].ip = svc[v].ip
        BY <3>1 DEF Svc
      <4> QED
        BY Zenon, <2>2, <4>1, <4>2 DEF EditService
    <3>3. SvcTouched(v, s)
      BY <2>2, <3>2 DEF EditService, EnvStep, SvcTouched
    <3> QED
      BY <3>3 DEF Goal
  <2>3. ASSUME NEW v \in Volumes, NEW i \in Internal \cup {None}, SetNFS(v, i)
        PROVE  SvcKept
    BY <2>3 DEF SetNFS, EnvStep, k8sVars, SvcKept
  <2>4. ASSUME NEW v \in Volumes,
               \/ UpdateVolume(v) \/ DeletePVC(v) \/ DeleteEndpoints(v) \/ EditEndpoints(v)
               \/ CollectEndpoints(v)
        PROVE  SvcKept
    BY <2>4 DEF UpdateVolume, DeletePVC, DeleteEndpoints, EditEndpoints, CollectEndpoints, EnvStep,
       k8sVars, histVars, SvcKept
  <2>5. ASSUME NEW m \in Managers, NEW v \in Volumes,
               PvcEvent(m, v) \/ SvcEvent(m, v) \/ EpsEvent(m, v)
        PROVE  SvcKept
    BY <2>5 DEF PvcEvent, SvcEvent, EpsEvent, k8sVars, histVars, SvcKept
  <2> QED
    BY <1>1, <1>3, <2>1, <2>2, <2>3, <2>4, <2>5 DEF Environment
<1>4. ASSUME NEW m \in Managers, ManagerStep(m)
      PROVE  Goal
  <2>1. CASE CreateService(m)
    <3>1. CASE UNCHANGED <<svc, everIP>>
      BY <1>1, <2>1, <3>1 DEF CreateService, SvcKept
    <3>2. ASSUME NEW ip \in FreeIPs, svc[mvol[m]] = None,
                 svc' = [svc EXCEPT ![mvol[m]] = Service(msv[m].int, ip)],
                 everIP' = [everIP EXCEPT ![mvol[m]] = @ \cup {ip}]
          PROVE  Goal
      <4>1. PICK v \in Volumes : v = mvol[m] /\ msv[m].int \in Internal
        BY <1>0, <2>1, AtHand DEF CreateService
      <4>2. PICK s \in Svc : s = Service(msv[m].int, ip)
        BY <4>1, ObjectTypes DEF FreeIPs
      <4>3. s.ip = ip /\ s.decl = "nfs" /\ s.single
        BY <4>2 DEF Service
      <4>4. SvcCreated(v, s)
        BY <2>1, <3>2, <4>1, <4>2, <4>3 DEF SvcCreated, CreateService
      <4> QED
        BY <4>4 DEF Goal
    <3> QED
      BY <2>1, <3>1, <3>2 DEF CreateService
  <2>2. CASE UpdateService(m)
    <3>1. CASE UNCHANGED svc
      BY <1>1, <2>2, <3>1 DEF UpdateService, SvcKept, histVars
    <3>2. CASE svc[mvol[m]] = msvc[m]
               /\ svc' = [svc EXCEPT ![mvol[m]] = ServiceUpdate(msv[m].int, msvc[m])]
      <4>1. PICK v \in Volumes : v = mvol[m] /\ msv[m].int \in Internal /\ msvc[m] \in Svc
        BY Zenon, <1>0, <2>2, AtHand DEF UpdateService
      <4>2. PICK s \in Svc : s = ServiceUpdate(msv[m].int, msvc[m])
        BY <4>1, ObjectTypes
      <4>3. s.ip = msvc[m].ip /\ s.single /\ (s.decl = "nfs" \/ s.decl = msvc[m].decl)
        BY <4>1, <4>2 DEF ServiceUpdate, Svc
      <4>4. SvcUpdated(v, s)
        BY <2>2, <3>2, <4>1, <4>2, <4>3, ConstantsAssumption DEF SvcUpdated, UpdateService, histVars
      <4> QED
        BY <4>4 DEF Goal
    <3> QED
      BY Zenon, <2>2, <3>1, <3>2 DEF UpdateService
  <2>3. CASE ListSharedVolumes(m) \/ ApiReset(m) \/ LoopEnds(m) \/ \E v \in Volumes : NextVolume(m, v)
    BY <1>1, <2>3 DEF ListSharedVolumes, ApiReset, LoopEnds, NextVolume, k8sVars, histVars, SvcKept
  <2>4. CASE GetService(m) \/ WaitForClusterIP(m) \/ GetEndpoints(m) \/ WaitForAvailable(m)
    BY Zenon, <1>1, <2>4 DEF GetService, WaitForClusterIP, GetEndpoints, WaitForAvailable, k8sVars, histVars,
       SvcKept
  <2>5. CASE CreateEndpoints(m) \/ UpdateEndpoints(m)
    BY Zenon, <1>1, <2>5 DEF CreateEndpoints, UpdateEndpoints, SvcKept
  <2>6. CASE PublishEndpoint(m) \/ SetExternalEndpoint(m)
    BY <1>1, <2>6 DEF PublishEndpoint, SetExternalEndpoint, k8sVars, histVars, SvcKept
  <2> QED
    BY <1>4, <2>1, <2>2, <2>3, <2>4, <2>5, <2>6 DEF ManagerStep
<1>5. ASSUME NEW m \in Managers, Crash(m) \/ \E v \in Volumes : CacheExpires(m, v)
      PROVE  Goal
  BY <1>1, <1>5 DEF Crash, CacheExpires, k8sVars, histVars, SvcKept
<1> QED
  BY <1>2, <1>3, <1>4, <1>5 DEF Next

EpsWritten(v, e, i) ==
    /\ eps' = [eps EXCEPT ![v] = e]
    /\ everTarget' = [everTarget EXCEPT ![v] = @ \cup {i}]

EpsTouched(v, e) ==
    /\ e # None => eps[v] # None
    /\ eps' = [eps EXCEPT ![v] = e]
    /\ UNCHANGED everTarget

(* The steps that concern endpoints. *)
LEMMA EpsStep ==
    ASSUME TypeOK, [Next]_vars
    PROVE  \/ UNCHANGED <<eps, everTarget>>
           \/ \E v \in Volumes, e \in Eps, i \in Internal : EpsWritten(v, e, i)
           \/ \E v \in Volumes, e \in Eps \cup {None} : EpsTouched(v, e)
<1> DEFINE Goal == \/ UNCHANGED <<eps, everTarget>>
                   \/ \E v \in Volumes, e \in Eps, i \in Internal : EpsWritten(v, e, i)
                   \/ \E v \in Volumes, e \in Eps \cup {None} : EpsTouched(v, e)
<1> SUFFICES Goal
  OBVIOUS
<1> HIDE DEF Goal
<1>0. LocalOK /\ K8sOK
  BY TypeParts
<1>1. ASSUME UNCHANGED <<eps, everTarget>> PROVE Goal
  BY <1>1 DEF Goal
<1>2. CASE UNCHANGED vars
  BY <1>1, <1>2 DEF vars, k8sVars, histVars
<1>3. CASE Environment
  <2>1. ASSUME NEW v \in Volumes, DeleteEndpoints(v) \/ CollectEndpoints(v)
        PROVE  Goal
    <3>1. EpsTouched(v, None) \/ UNCHANGED <<eps, everTarget>>
      BY <2>1 DEF DeleteEndpoints, CollectEndpoints, EnvStep, EpsTouched, histVars
    <3> QED
      BY <1>1, <3>1 DEF Goal
  <2>2. ASSUME NEW v \in Volumes, EditEndpoints(v)
        PROVE  Goal
    <3>1. eps[v] \in Eps
      BY <1>0, <2>2 DEF EditEndpoints, K8sOK
    <3>2. PICK e \in Eps : eps' = [eps EXCEPT ![v] = e]
      <4>1. [eps[v] EXCEPT !.decl = "other"] \in Eps
            /\ \A s \in {"more", "other"} : [eps[v] EXCEPT !.shape = s] \in Eps
        BY <3>1 DEF Eps, Decl
      <4> QED
        BY <2>2, <4>1 DEF EditEndpoints
    <3>3. EpsTouched(v, e)
      BY <2>2, <3>2 DEF EditEndpoints, EnvStep, EpsTouched
    <3> QED
      BY <3>3 DEF Goal
  <2>3. ASSUME NEW v \in Volumes, NEW i \in Internal \cup {None}, SetNFS(v, i)
        PROVE  UNCHANGED <<eps, everTarget>>
    BY <2>3 DEF SetNFS, EnvStep, k8sVars
  <2>4. ASSUME NEW v \in Volumes,
               \/ UpdateVolume(v) \/ DeletePVC(v) \/ DeleteService(v) \/ EditService(v)
               \/ CollectService(v)
        PROVE  UNCHANGED <<eps, everTarget>>
    BY <2>4 DEF UpdateVolume, DeletePVC, DeleteService, EditService, CollectService, EnvStep, k8sVars
  <2>5. ASSUME NEW m \in Managers, NEW v \in Volumes,
               PvcEvent(m, v) \/ SvcEvent(m, v) \/ EpsEvent(m, v)
        PROVE  UNCHANGED <<eps, everTarget>>
    BY <2>5 DEF PvcEvent, SvcEvent, EpsEvent, k8sVars, histVars
  <2> QED
    BY <1>1, <1>3, <2>1, <2>2, <2>3, <2>4, <2>5 DEF Environment
<1>4. ASSUME NEW m \in Managers, ManagerStep(m)
      PROVE  Goal
  <2>1. CASE CreateEndpoints(m) \/ UpdateEndpoints(m)
    <3>1. CASE UNCHANGED <<eps, everTarget>>
      BY <1>1, <3>1
    <3>2. ASSUME NEW e \in Eps,
                 eps' = [eps EXCEPT ![mvol[m]] = e],
                 everTarget' = [everTarget EXCEPT ![mvol[m]] = @ \cup {msv[m].int}]
          PROVE  Goal
      <4>1. PICK v \in Volumes, i \in Internal : v = mvol[m] /\ i = msv[m].int
        BY <1>0, <2>1, AtHand DEF CreateEndpoints, UpdateEndpoints
      <4>2. EpsWritten(v, e, i)
        BY <3>2, <4>1 DEF EpsWritten
      <4> QED
        BY <4>2 DEF Goal
    <3>3. msv[m].int \in Internal /\ meps[m] \in Eps \cup {None}
      BY <1>0, <2>1, AtHand DEF CreateEndpoints, UpdateEndpoints, LocalOK
    <3>4. Endpoints(msv[m].int) \in Eps
          /\ (meps[m] # None => EndpointsUpdate(msv[m].int, meps[m]) \in Eps)
      BY <3>3, ObjectTypes
    <3> QED
      BY <2>1, <3>1, <3>2, <3>4 DEF CreateEndpoints, UpdateEndpoints
  <2>2. CASE ListSharedVolumes(m) \/ ApiReset(m) \/ LoopEnds(m) \/ \E v \in Volumes : NextVolume(m, v)
    BY <1>1, <2>2 DEF ListSharedVolumes, ApiReset, LoopEnds, NextVolume, k8sVars, histVars
  <2>3. CASE GetService(m) \/ WaitForClusterIP(m) \/ GetEndpoints(m) \/ WaitForAvailable(m)
    BY Zenon, <1>1, <2>3 DEF GetService, WaitForClusterIP, GetEndpoints, WaitForAvailable, k8sVars, histVars
  <2>4. CASE CreateService(m) \/ UpdateService(m)
    BY Zenon, <1>1, <2>4 DEF CreateService, UpdateService, histVars
  <2>5. CASE PublishEndpoint(m) \/ SetExternalEndpoint(m)
    BY <1>1, <2>5 DEF PublishEndpoint, SetExternalEndpoint, k8sVars, histVars
  <2> QED
    BY <1>4, <2>1, <2>2, <2>3, <2>4, <2>5 DEF ManagerStep
<1>5. ASSUME NEW m \in Managers, Crash(m) \/ \E v \in Volumes : CacheExpires(m, v)
      PROVE  Goal
  BY <1>1, <1>5 DEF Crash, CacheExpires, k8sVars, histVars
<1> QED
  BY <1>2, <1>3, <1>4, <1>5 DEF Next


(* Every step keeps the types of what is in Kubernetes, for K8sOK. *)
LEMMA K8sStep ==
    ASSUME TypeOK, [Next]_vars
    PROVE  K8sOK'
<1>0. K8sOK
  BY TypeParts
<1>1. /\ svc' \in [Volumes -> Svc \cup {None}]
      /\ everIP' \in [Volumes -> SUBSET IPs]
      /\ touched' \in SUBSET Volumes
  <2>1. CASE SvcKept
    BY <1>0, <2>1 DEF SvcKept, K8sOK
  <2>2. ASSUME NEW v \in Volumes, NEW s \in Svc, SvcCreated(v, s) \/ SvcUpdated(v, s)
        PROVE  /\ svc' \in [Volumes -> Svc \cup {None}]
               /\ everIP' \in [Volumes -> SUBSET IPs]
               /\ touched' \in SUBSET Volumes
    <3>1. s.ip \in IPs
      BY DEF Svc
    <3> QED
      BY <1>0, <2>2, <3>1 DEF SvcCreated, SvcUpdated, K8sOK
  <2>3. ASSUME NEW v \in Volumes, NEW s \in Svc \cup {None}, SvcTouched(v, s)
        PROVE  /\ svc' \in [Volumes -> Svc \cup {None}]
               /\ everIP' \in [Volumes -> SUBSET IPs]
               /\ touched' \in SUBSET Volumes
    BY <1>0, <2>3 DEF SvcTouched, K8sOK
  <2> QED
    BY <2>1, <2>2, <2>3, SvcStep
<1>2. /\ eps' \in [Volumes -> Eps \cup {None}]
      /\ everTarget' \in [Volumes -> SUBSET Internal]
  BY <1>0, EpsStep DEF EpsWritten, EpsTouched, K8sOK
<1>3. /\ nfs' \in [Volumes -> Internal \cup {None}]
      /\ pvc' \in SUBSET Volumes
      /\ leftover' \in SUBSET Volumes
  <2>1. CASE Environment
    BY <1>0, <2>1 DEF Environment, SetNFS, UpdateVolume, DeletePVC, DeleteService, DeleteEndpoints,
       EditService, EditEndpoints, CollectService, CollectEndpoints, RemoveService, PvcEvent, SvcEvent,
       EpsEvent, stosVars, k8sVars, K8sOK
  <2>2. ASSUME NEW m \in Managers, ManagerStep(m)
        PROVE  UNCHANGED <<nfs, pvc, leftover>>
    BY Zenon, <2>2 DEF ManagerStep, ListSharedVolumes, ApiReset, LoopEnds, NextVolume, GetService,
       CreateService, WaitForClusterIP, UpdateService, GetEndpoints, CreateEndpoints,
       WaitForAvailable, UpdateEndpoints, PublishEndpoint, SetExternalEndpoint, stosVars, k8sVars
  <2>3. ASSUME NEW m \in Managers, Crash(m) \/ \E v \in Volumes : CacheExpires(m, v)
        PROVE  UNCHANGED <<nfs, pvc, leftover>>
    BY <2>3 DEF Crash, CacheExpires, stosVars, k8sVars
  <2>4. CASE UNCHANGED vars
    BY <1>0, <2>4 DEF vars, stosVars, k8sVars, K8sOK
  <2> QED
    BY <1>0, <2>1, <2>2, <2>3, <2>4 DEF Next, K8sOK
<1> QED
  BY <1>1, <1>2, <1>3 DEF K8sOK

(* One entry of one manager is changed, for vcache and the informers. *)
LEMMA EntryType ==
    ASSUME NEW S, NEW f \in [Managers -> [Volumes -> S]], NEW m \in Managers,
           NEW v \in Volumes, NEW x \in S
    PROVE  [f EXCEPT ![m][v] = x] \in [Managers -> [Volumes -> S]]
OBVIOUS

(* ... which leaves the other entries as they are. *)
LEMMA EntryRead ==
    ASSUME NEW S, NEW f \in [Managers -> [Volumes -> S]], NEW n \in Managers,
           NEW w \in Volumes, NEW x \in S, NEW m \in Managers, NEW v \in Volumes
    PROVE  [f EXCEPT ![n][w] = x][m][v] = IF m = n /\ v = w THEN x ELSE f[m][v]
OBVIOUS

(* The volume that a manager writes is typed, for CacheVolume. *)
LEMMA CachedType ==
    ASSUME LocalOK, NEW m \in Managers, mpc[m] \in {"publish", "setExt"}
    PROVE  /\ mvol[m] \in Volumes
           /\ Frontend(msvc[m]) \in External \cup {None}
           /\ [int |-> msv[m].int, ext |-> Frontend(msvc[m])] \in SV
<1>1. mvol[m] \in Volumes /\ msv[m].int \in Internal /\ msvc[m] \in Svc
  BY AtHand
<1>2. Frontend(msvc[m]) \in External \cup {None}
  BY <1>1, FrontendType
<1> QED
  BY <1>1, <1>2 DEF SV

(* Every step keeps the types of what managers and StorageOS have, for     *)
(* ViewsOK.                                                                *)
LEMMA ViewsStep ==
    ASSUME TypeOK, [Next]_vars
    PROVE  ViewsOK'
<1>0. LocalOK /\ K8sOK /\ ViewsOK
  BY TypeParts
<1> USE <1>0
<1>1. CASE UNCHANGED vars
  BY <1>1 DEF vars, stosVars, viewVars, localVars, ViewsOK
<1>2. env' \in Nat /\ faults' \in Nat
  <2>1. CASE Environment
    <3>1. (env' = env \/ env' = env + 1) /\ faults' = faults
      BY <2>1 DEF Environment, SetNFS, UpdateVolume, DeletePVC, DeleteService, DeleteEndpoints,
         EditService, EditEndpoints, CollectService, CollectEndpoints, PvcEvent, SvcEvent,
         EpsEvent, EnvStep
    <3> QED
      BY <3>1 DEF ViewsOK
  <2>2. ASSUME NEW m \in Managers, ManagerStep(m)
        PROVE  env' = env /\ (Fault \/ NoFault)
    BY Zenon, <2>2 DEF ManagerStep, ListSharedVolumes, ApiReset, LoopEnds, NextVolume, GetService,
       CreateService, WaitForClusterIP, UpdateService, GetEndpoints, CreateEndpoints,
       WaitForAvailable, UpdateEndpoints, PublishEndpoint, SetExternalEndpoint, NoFault
  <2>3. ASSUME NEW m \in Managers, Crash(m) \/ \E v \in Volumes : CacheExpires(m, v)
        PROVE  env' = env /\ (Fault \/ NoFault)
    BY <2>3 DEF Crash, CacheExpires, NoFault
  <2>4. ASSUME env' = env, Fault \/ NoFault
        PROVE  env' \in Nat /\ faults' \in Nat
    BY <2>4 DEF Fault, NoFault, ViewsOK
  <2>5. CASE UNCHANGED vars
    BY <2>5 DEF vars, ViewsOK
  <2> QED
    BY <2>1, <2>2, <2>3, <2>4, <2>5 DEF Next
<1> DEFINE Goal == /\ ext' \in [Volumes -> External \cup {None}]
                   /\ pvcView' \in [Managers -> SUBSET Volumes]
                   /\ svcView' \in [Managers -> [Volumes -> Svc \cup {None}]]
                   /\ epsView' \in [Managers -> [Volumes -> Eps \cup {None}]]
                   /\ vcache' \in [Managers -> [Volumes -> SV \cup {None}]]
                   /\ mtodo' \in [Managers -> [Volumes -> SV \cup {None}]]
<1>3. ASSUME UNCHANGED <<ext, viewVars, vcache, mtodo>> PROVE Goal
  BY <1>3 DEF viewVars, ViewsOK
<1>4. ASSUME Environment PROVE Goal
  <2>1. UNCHANGED <<ext, vcache, mtodo>>
    BY <1>4, EnvironmentLocal
  <2>2. ASSUME NEW m \in Managers, NEW v \in Volumes,
               PvcEvent(m, v) \/ SvcEvent(m, v) \/ EpsEvent(m, v)
        PROVE  Goal
    <3>1. CASE PvcEvent(m, v)
      BY <2>1, <3>1 DEF PvcEvent, ViewsOK
    <3>2. CASE SvcEvent(m, v)
      <4>1. svc[v] \in Svc \cup {None} /\ svcView' = [svcView EXCEPT ![m][v] = svc[v]]
            /\ UNCHANGED <<pvcView, epsView>>
        BY <3>2 DEF SvcEvent, K8sOK
      <4> QED
        BY <2>1, <4>1 DEF ViewsOK
    <3>3. CASE EpsEvent(m, v)
      <4>1. eps[v] \in Eps \cup {None} /\ epsView' = [epsView EXCEPT ![m][v] = eps[v]]
            /\ UNCHANGED <<pvcView, svcView>>
        BY <3>3 DEF EpsEvent, K8sOK
      <4> QED
        BY <2>1, <4>1 DEF ViewsOK
    <3> QED
      BY <2>2, <3>1, <3>2, <3>3
  <2>3. ASSUME NEW v \in Volumes,
               \/ UpdateVolume(v) \/ DeletePVC(v) \/ DeleteService(v) \/ DeleteEndpoints(v)
               \/ EditService(v) \/ EditEndpoints(v) \/ CollectService(v) \/ CollectEndpoints(v)
        PROVE  UNCHANGED viewVars
    BY <2>3 DEF UpdateVolume, DeletePVC, DeleteService, DeleteEndpoints,
       EditService, EditEndpoints, CollectService, CollectEndpoints, EnvStep, viewVars
  <2>4. ASSUME NEW v \in Volumes, NEW i \in Internal \cup {None}, SetNFS(v, i)
        PROVE  UNCHANGED viewVars
    BY <2>4 DEF SetNFS, EnvStep, viewVars
  <2>5. CASE UNCHANGED viewVars
    BY Zenon, <1>3, <2>1, <2>5
  <2> QED
    BY <1>4, <2>2, <2>3, <2>4, <2>5 DEF Environment
<1>5. ASSUME NEW m \in Managers, ManagerStep(m)
      PROVE  Goal
  <2>1. UNCHANGED viewVars
    BY Zenon, <1>5 DEF ManagerStep, ListSharedVolumes, ApiReset, LoopEnds, NextVolume, GetService,
       CreateService, WaitForClusterIP, UpdateService, GetEndpoints, CreateEndpoints,
       WaitForAvailable, UpdateEndpoints, PublishEndpoint, SetExternalEndpoint
  <2>2. CASE ListSharedVolumes(m)
    <3>1. UNCHANGED <<ext, vcache>>
      BY Zenon, <2>2 DEF ListSharedVolumes, stosVars
    <3>2. [v \in Volumes |-> IF nfs[v] = None THEN None ELSE [int |-> nfs[v], ext |-> ext[v]]]
             \in [Volumes -> SV \cup {None}]
      BY DEF ViewsOK, K8sOK, SV
    <3>3. mtodo' \in [Managers -> [Volumes -> SV \cup {None}]]
      BY Zenon, <2>2, <3>2 DEF ListSharedVolumes, ViewsOK
    <3> QED
      BY <2>1, <3>1, <3>3 DEF viewVars, ViewsOK
  <2>3. ASSUME NEW v \in Volumes, NextVolume(m, v)
        PROVE  Goal
    BY Zenon, <2>1, <2>3 DEF NextVolume, stosVars, viewVars, ViewsOK
  <2>4. CASE ApiReset(m) \/ LoopEnds(m) \/ GetService(m) \/ CreateService(m) \/ WaitForClusterIP(m)
    BY <1>3, <2>1, <2>4 DEF ApiReset, LoopEnds, GetService, CreateService, WaitForClusterIP, stosVars,
       localVars
  <2>5. CASE \/ UpdateService(m) \/ GetEndpoints(m) \/ CreateEndpoints(m) \/ WaitForAvailable(m)
             \/ UpdateEndpoints(m)
    BY Zenon, <1>3, <2>1, <2>5 DEF UpdateService, GetEndpoints, CreateEndpoints, WaitForAvailable,
       UpdateEndpoints, stosVars
  <2>6. CASE PublishEndpoint(m)
    <3>1. UNCHANGED <<ext, mtodo>>
      BY Zenon, <2>6 DEF PublishEndpoint, stosVars
    <3>2. vcache' \in [Managers -> [Volumes -> SV \cup {None}]]
      <4>1. \/ UNCHANGED vcache
            \/ vcache' = [vcache EXCEPT ![m][mvol[m]] =
                             [int |-> msv[m].int, ext |-> Frontend(msvc[m])]]
        BY <2>6 DEF PublishEndpoint, CacheVolume
      <4>2. mpc[m] \in {"publish", "setExt"}
        BY Zenon, <2>6 DEF PublishEndpoint
      <4>3. PICK v \in Volumes, w \in SV :
               v = mvol[m] /\ w = [int |-> msv[m].int, ext |-> Frontend(msvc[m])]
        BY Zenon, <4>2, CachedType
      <4>4. UNCHANGED vcache \/ vcache' = [vcache EXCEPT ![m][v] = w]
        BY <4>1, <4>3
      <4>5. vcache \in [Managers -> [Volumes -> SV \cup {None}]]
        BY DEF ViewsOK
      <4> QED
        BY <4>4, <4>5, EntryType
    <3> QED
      BY <2>1, <3>1, <3>2 DEF viewVars, ViewsOK
  <2>7. CASE SetExternalEndpoint(m)
    <3>1. UNCHANGED mtodo
      BY <2>7 DEF SetExternalEndpoint
    <3>2. mpc[m] \in {"publish", "setExt"}
      BY <2>7 DEF SetExternalEndpoint
    <3>3. PICK v \in Volumes, a \in External \cup {None}, w \in SV :
             /\ v = mvol[m] /\ a = Frontend(msvc[m])
             /\ w = [int |-> msv[m].int, ext |-> Frontend(msvc[m])]
      BY Zenon, <3>2, CachedType
    <3>4. UNCHANGED vcache \/ vcache' = [vcache EXCEPT ![m][v] = w]
      BY <2>7, <3>3 DEF SetExternalEndpoint
    <3>5. UNCHANGED ext \/ ext' = [ext EXCEPT ![v] = a]
      BY <2>7, <3>3 DEF SetExternalEndpoint
    <3>6. vcache' \in [Managers -> [Volumes -> SV \cup {None}]]
      <4>1. vcache \in [Managers -> [Volumes -> SV \cup {None}]]
        BY DEF ViewsOK
      <4> QED
        BY <3>4, <4>1, EntryType
    <3>7. ext' \in [Volumes -> External \cup {None}]
      BY Zenon, <3>5 DEF ViewsOK
    <3> QED
      BY <2>1, <3>1, <3>6, <3>7 DEF viewVars, ViewsOK
  <2> QED
    BY <1>5, <2>2, <2>3, <2>4, <2>5, <2>6, <2>7 DEF ManagerStep
<1>6. ASSUME NEW m \in Managers, Crash(m) \/ \E v \in Volumes : CacheExpires(m, v)
      PROVE  Goal
  <2>1. UNCHANGED <<ext, viewVars>>
    BY <1>6 DEF Crash, CacheExpires, stosVars
  <2>2. CASE Crash(m)
    BY <2>1, <2>2 DEF Crash, viewVars, ViewsOK
  <2>3. ASSUME NEW v \in Volumes, CacheExpires(m, v)
        PROVE  Goal
    BY Zenon, <2>1, <2>3 DEF CacheExpires, localVars, viewVars, ViewsOK
  <2> QED
    BY <1>6, <2>2, <2>3
<1>7. Goal
  BY <1>1, <1>3, <1>4, <1>5, <1>6 DEF Next, ViewsOK
<1> QED
  BY <1>2, <1>7 DEF ViewsOK


-----------------------------------------------------------------------------
(* What a step does to the local state of a manager.                       *)

(* The state of a manager changes only in its own steps, for ManagerStep. *)
LEMMA OthersStay ==
    ASSUME TypeOK, [Next]_vars, NEW m \in Managers, ~ManagerStep(m), ~Crash(m)
    PROVE  mpc'[m] = mpc[m] /\ mvol'[m] = mvol[m] /\ msvc'[m] = msvc[m]
<1>0. LocalOK
  BY TypeParts
<1>1. CASE UNCHANGED vars
  BY <1>1 DEF vars, localVars
<1>2. CASE Environment
  BY <1>0, <1>2, EnvironmentLocal
<1>3. ASSUME NEW n \in Managers, NEW v \in Volumes, CacheExpires(n, v)
      PROVE  UNCHANGED <<mpc, mvol, msvc>>
  BY <1>3 DEF CacheExpires, localVars
<1>4. ASSUME NEW n \in Managers, n # m, Crash(n)
      PROVE  mpc'[m] = mpc[m] /\ mvol'[m] = mvol[m] /\ msvc'[m] = msvc[m]
  BY <1>0, <1>4 DEF Crash, LocalOK
<1>5. ASSUME NEW n \in Managers, n # m, ManagerStep(n)
      PROVE  mpc'[m] = mpc[m] /\ mvol'[m] = mvol[m] /\ msvc'[m] = msvc[m]
  <2>1. ASSUME LeaveVolume(n)
        PROVE  mpc'[m] = mpc[m] /\ mvol'[m] = mvol[m] /\ msvc'[m] = msvc[m]
    BY Zenon, <1>0, <1>5, <2>1 DEF LeaveVolume, LocalOK
  <2>2. CASE ListSharedVolumes(n) \/ ApiReset(n) \/ LoopEnds(n) \/ \E v \in Volumes : NextVolume(n, v)
    BY <1>0, <1>5, <2>2 DEF ListSharedVolumes, ApiReset, LoopEnds, NextVolume, localVars, LocalOK
  <2>3. CASE GetService(n) \/ WaitForClusterIP(n)
    BY Zenon, <1>0, <1>5, <2>1, <2>3 DEF GetService, WaitForClusterIP, HaveService, LocalOK
  <2>4. CASE CreateService(n) \/ UpdateService(n)
    BY <1>0, <1>5, <2>1, <2>4 DEF CreateService, UpdateService, LocalOK
  <2>5. CASE GetEndpoints(n) \/ WaitForAvailable(n)
    BY Zenon, <1>0, <1>5, <2>5 DEF GetEndpoints, WaitForAvailable, HaveEndpoints, LocalOK
  <2>6. CASE CreateEndpoints(n) \/ UpdateEndpoints(n)
    BY <1>0, <1>5, <2>1, <2>6 DEF CreateEndpoints, UpdateEndpoints, LocalOK
  <2>7. CASE PublishEndpoint(n)
    BY <1>0, <1>5, <2>1, <2>7 DEF PublishEndpoint, CacheVolume, LocalOK
  <2>8. CASE SetExternalEndpoint(n)
    BY <1>0, <1>5, <2>1, <2>8 DEF SetExternalEndpoint, LocalOK
  <2> QED
    BY Zenon, <1>5, <2>2, <2>3, <2>4, <2>5, <2>6, <2>7, <2>8 DEF ManagerStep
<1> QED
  BY Zenon, <1>1, <1>2, <1>3, <1>4, <1>5 DEF Next

(* Where the service at hand comes from, and what is known of it when      *)
(* ensureService goes on.                                                  *)
AtHandStep(m) ==
    \/ msvc'[m] = None /\ mpc'[m] \in {"idle", "resetting", "loop", "getSvc", "createSvc", "waitSvc"}
    \/ /\ mvol'[m] = mvol[m] /\ msvc'[m] = msvc[m] /\ mpc'[m] = mpc[m]
    \/ /\ mvol'[m] = mvol[m] /\ mvol[m] \in Volumes
       /\ msvc'[m] \in {svcView[m][mvol[m]], svc'[mvol[m]]}
       /\ mpc'[m] \in {"updSvc", "getEps"}
       /\ mpc'[m] = "getEps" => msvc'[m].single
    \/ /\ mvol'[m] = mvol[m] /\ msvc'[m] = msvc[m] /\ mvol[m] \in Volumes
       /\ mpc[m] \in {"getEps", "createEps", "waitEps", "updEps"}
       /\ mpc'[m] \in {"createEps", "waitEps", "updEps"}
    \/ /\ mvol'[m] = mvol[m] /\ msvc'[m] = msvc[m] /\ mvol[m] \in Volumes
       /\ mpc[m] \in {"getEps", "waitEps", "updEps", "publish"}
       /\ mpc'[m] \in {"publish", "setExt"}
       /\ mpc[m] = "publish" \/ epsView[m][mvol[m]] # None \/ everTarget'[mvol[m]] # {}

(* Every step of a manager is of one of these forms, for ensureService. *)
LEMMA AtHandSteps ==
    ASSUME TypeOK, NEW m \in Managers, ManagerStep(m)
    PROVE  AtHandStep(m)
<1>0. LocalOK /\ K8sOK /\ ViewsOK
  BY TypeParts
<1> USE <1>0
<1>1. ASSUME LeaveVolume(m) PROVE AtHandStep(m)
  <2>1. mpc'[m] = "loop" /\ msvc'[m] = None
    BY <1>1 DEF LeaveVolume, LocalOK
  <2> QED
    BY <2>1 DEF AtHandStep
<1>2. CASE ListSharedVolumes(m) \/ ApiReset(m) \/ LoopEnds(m)
  <2>1. PICK where \in {"idle", "resetting", "loop"} : mpc' = [mpc EXCEPT ![m] = where]
    BY Zenon, <1>2 DEF ListSharedVolumes, ApiReset, LoopEnds
  <2>2. mpc[m] \in {"idle", "resetting", "loop"} /\ UNCHANGED msvc
    BY <1>2 DEF ListSharedVolumes, ApiReset, LoopEnds, localVars
  <2>3. msvc'[m] = None /\ mpc'[m] \in {"idle", "resetting", "loop"}
    BY Zenon, <2>1, <2>2 DEF LocalOK
  <2> QED
    BY Zenon, <2>3 DEF AtHandStep
<1>3. ASSUME NEW v \in Volumes, NextVolume(m, v)
      PROVE  AtHandStep(m)
  <2>1. msvc'[m] = None /\ mpc'[m] \in {"loop", "getSvc"}
    BY <1>3 DEF NextVolume, LocalOK
  <2> QED
    BY <2>1 DEF AtHandStep
<1>4. ASSUME NEW s \in Svc, HaveService(m, s), s = svcView[m][mvol[m]], mvol[m] \in Volumes
      PROVE  AtHandStep(m)
  <2>1. msvc'[m] = s /\ mvol'[m] = mvol[m] /\ mpc'[m] \in {"updSvc", "getEps"}
    BY Zenon, <1>4 DEF HaveService, LocalOK
  <2>2. mpc'[m] = "getEps" => ServiceIsEqual(msv[m].int, s)
    BY <1>4 DEF HaveService, LocalOK
  <2>3. mpc'[m] = "getEps" => msvc'[m].single
    BY <2>1, <2>2 DEF ServiceIsEqual
  <2> QED
    BY Zenon, <1>4, <2>1, <2>3 DEF AtHandStep
<1>5. CASE GetService(m)
  <2>1. mvol[m] \in Volumes /\ msvc[m] = None
    BY <1>5, AtHand DEF GetService, LocalOK
  <2>2. CASE svcView[m][mvol[m]] = None
    <3>1. msvc'[m] = None /\ mpc'[m] = "createSvc"
      BY <1>5, <2>1, <2>2 DEF GetService, LocalOK
    <3> QED
      BY Zenon, <3>1 DEF AtHandStep
  <2>3. CASE svcView[m][mvol[m]] # None
    <3>1. svcView[m][mvol[m]] \in Svc
      BY Zenon, <2>1, <2>3, ViewTypes
    <3> QED
      BY Zenon, <1>4, <1>5, <2>1, <2>3, <3>1 DEF GetService
  <2> QED
    BY Zenon, <2>2, <2>3
<1>6. CASE CreateService(m)
  <2>1. CASE mpc' = [mpc EXCEPT ![m] = "waitSvc"] /\ UNCHANGED msvc
    <3>1. msvc'[m] = None /\ mpc'[m] = "waitSvc"
      BY <1>6, <2>1 DEF CreateService, LocalOK
    <3> QED
      BY Zenon, <3>1 DEF AtHandStep
  <2> QED
    BY <1>1, <1>6, <2>1 DEF CreateService
<1>7. CASE WaitForClusterIP(m)
  <2>1. mvol[m] \in Volumes
    BY Zenon, <1>7, AtHand DEF WaitForClusterIP
  <2>2. CASE svcView[m][mvol[m]] # None
    <3>1. svcView[m][mvol[m]] \in Svc
      BY Zenon, <2>1, <2>2, ViewTypes
    <3> QED
      BY <1>4, <1>7, <2>1, <2>2, <3>1 DEF WaitForClusterIP
  <2> QED
    BY Zenon, <1>1, <1>7, <2>2 DEF WaitForClusterIP
<1>8. CASE UpdateService(m)
  <2>1. mvol[m] \in Volumes /\ msvc[m] \in Svc
    BY <1>8, AtHand DEF UpdateService
  <2> DEFINE s == ServiceUpdate(msv[m].int, msvc[m])
  <2>2. CASE /\ svc' = [svc EXCEPT ![mvol[m]] = s]
             /\ msvc' = [msvc EXCEPT ![m] = s]
             /\ mpc' = [mpc EXCEPT ![m] = "getEps"]
             /\ UNCHANGED mvol
    <3>1. msvc'[m] = s /\ svc'[mvol[m]] = s /\ mpc'[m] = "getEps" /\ mvol'[m] = mvol[m]
      BY <2>1, <2>2 DEF LocalOK, K8sOK
    <3>2. s.single
      BY Zenon, <2>1 DEF ServiceUpdate, Svc
    <3> QED
      BY Zenon, <2>1, <3>1, <3>2 DEF AtHandStep
  <2> QED
    BY Zenon, <1>1, <1>8, <2>2 DEF UpdateService
<1>9. ASSUME HaveEndpoints(m, epsView[m][mvol[m]]), epsView[m][mvol[m]] # None,
             mpc[m] \in {"getEps", "waitEps"}
      PROVE  AtHandStep(m)
  <2>1. mvol'[m] = mvol[m] /\ msvc'[m] = msvc[m] /\ mpc'[m] \in {"publish", "updEps"}
    BY Zenon, <1>9 DEF HaveEndpoints, LocalOK
  <2>2. mvol[m] \in Volumes
    BY Zenon, <1>9, AtHand
  <2> QED
    BY Zenon, <1>9, <2>1, <2>2 DEF AtHandStep
<1>10. ASSUME NEW where \in {"createEps", "waitEps", "updEps"},
              mpc' = [mpc EXCEPT ![m] = where], UNCHANGED <<mvol, msvc>>,
              mpc[m] \in {"getEps", "createEps", "waitEps", "updEps"}
       PROVE  AtHandStep(m)
  <2>1. mpc'[m] = where /\ mvol[m] \in Volumes
    BY <1>10, AtHand DEF LocalOK
  <2> QED
    BY <1>10, <2>1 DEF AtHandStep
<1>11. CASE GetEndpoints(m)
  BY Zenon, <1>9, <1>10, <1>11 DEF GetEndpoints
<1>12. CASE CreateEndpoints(m)
  BY <1>1, <1>10, <1>12 DEF CreateEndpoints
<1>13. CASE WaitForAvailable(m)
  BY Zenon, <1>9, <1>10, <1>13 DEF WaitForAvailable
<1>14. CASE UpdateEndpoints(m)
  <2>1. CASE /\ everTarget' = [everTarget EXCEPT ![mvol[m]] = @ \cup {msv[m].int}]
             /\ mpc' = [mpc EXCEPT ![m] = "publish"]
             /\ UNCHANGED <<mvol, msvc>>
    <3>1. mpc[m] = "updEps" /\ mvol[m] \in Volumes
      BY <1>14, AtHand DEF UpdateEndpoints
    <3>2. mpc'[m] = "publish" /\ everTarget'[mvol[m]] # {}
      BY <2>1, <3>1 DEF LocalOK, K8sOK
    <3> QED
      BY Zenon, <2>1, <3>1, <3>2 DEF AtHandStep
  <2> QED
    BY Zenon, <1>1, <1>14, <2>1 DEF UpdateEndpoints
<1>15. CASE PublishEndpoint(m)
  <2>1. CASE mpc' = [mpc EXCEPT ![m] = "setExt"] /\ UNCHANGED <<mvol, msvc>>
    <3>1. mpc[m] = "publish" /\ mvol[m] \in Volumes
      BY <1>15, AtHand DEF PublishEndpoint
    <3>2. mpc'[m] = "setExt"
      BY <2>1 DEF LocalOK
    <3> QED
      BY Zenon, <2>1, <3>1, <3>2 DEF AtHandStep
  <2> QED
    BY Zenon, <1>1, <1>15, <2>1 DEF PublishEndpoint, CacheVolume
<1>16. CASE SetExternalEndpoint(m)
  <2>1. CASE mpc' = [mpc EXCEPT ![m] = "loop"] /\ msvc' = [msvc EXCEPT ![m] = None]
    <3>1. mpc'[m] = "loop" /\ msvc'[m] = None
      BY <2>1 DEF LocalOK
    <3> QED
      BY <3>1 DEF AtHandStep
  <2> QED
    BY <1>1, <1>16, <2>1 DEF SetExternalEndpoint
<1> QED
  BY <1>2, <1>3, <1>5, <1>6, <1>7, <1>8, <1>11, <1>12, <1>13, <1>14, <1>15, <1>16 DEF ManagerStep

(* ... and so is what any other step does to it. *)
LEMMA AtHandAlways ==
    ASSUME TypeOK, [Next]_vars, NEW m \in Managers
    PROVE  AtHandStep(m)
<1>1. CASE ManagerStep(m)
  BY <1>1, AtHandSteps
<1>2. CASE Crash(m)
  <2>1. mpc'[m] = "idle" /\ msvc'[m] = None
    BY <1>2, TypeParts DEF Crash, LocalOK
  <2> QED
    BY <2>1 DEF AtHandStep
<1>3. CASE ~ManagerStep(m) /\ ~Crash(m)
  BY Zenon, <1>3, OthersStay DEF AtHandStep
<1> QED
  BY <1>1, <1>2, <1>3


(* Informers come to have what is in Kubernetes, for SvcEvent and EpsEvent. *)
LEMMA InformersStep ==
    ASSUME TypeOK, [Next]_vars, NEW m \in Managers, NEW v \in Volumes
    PROVE  /\ svcView'[m][v] \in {svcView[m][v], svc[v]}
           /\ epsView'[m][v] \in {epsView[m][v], eps[v]}
<1>0. ViewsOK /\ K8sOK
  BY TypeParts
<1>1. ASSUME UNCHANGED viewVars
      PROVE  svcView' = svcView /\ epsView' = epsView
  BY <1>1 DEF viewVars
<1>2. ASSUME NEW n \in Managers, NEW w \in Volumes, SvcEvent(n, w) \/ EpsEvent(n, w) \/ PvcEvent(n, w)
      PROVE  /\ svcView' = svcView \/ svcView' = [svcView EXCEPT ![n][w] = svc[w]]
             /\ epsView' = epsView \/ epsView' = [epsView EXCEPT ![n][w] = eps[w]]
  BY <1>2 DEF SvcEvent, EpsEvent, PvcEvent
<1>3. ASSUME NEW n \in Managers, NEW w \in Volumes,
             /\ svcView' = svcView \/ svcView' = [svcView EXCEPT ![n][w] = svc[w]]
             /\ epsView' = epsView \/ epsView' = [epsView EXCEPT ![n][w] = eps[w]]
      PROVE  /\ svcView'[m][v] \in {svcView[m][v], svc[v]}
             /\ epsView'[m][v] \in {epsView[m][v], eps[v]}
  <2>1. svcView \in [Managers -> [Volumes -> Svc \cup {None}]] /\ svc[w] \in Svc \cup {None}
    BY <1>0 DEF ViewsOK, K8sOK
  <2>2. epsView \in [Managers -> [Volumes -> Eps \cup {None}]] /\ eps[w] \in Eps \cup {None}
    BY <1>0 DEF ViewsOK, K8sOK
  <2>3. svcView'[m][v] \in {svcView[m][v], svc[v]}
    BY <1>3, <2>1, EntryRead
  <2>4. epsView'[m][v] \in {epsView[m][v], eps[v]}
    BY <1>3, <2>2, EntryRead
  <2> QED
    BY <2>3, <2>4
<1>4. ASSUME NEW w \in Volumes,
             \/ UpdateVolume(w) \/ DeletePVC(w) \/ DeleteService(w) \/ DeleteEndpoints(w)
             \/ EditService(w) \/ EditEndpoints(w) \/ CollectService(w) \/ CollectEndpoints(w)
             \/ \E i \in Internal \cup {None} : SetNFS(w, i)
      PROVE  UNCHANGED viewVars
  BY <1>4 DEF UpdateVolume, DeletePVC, DeleteService, DeleteEndpoints, EditService, EditEndpoints,
     CollectService, CollectEndpoints, SetNFS, EnvStep, viewVars
<1>5. ASSUME NEW n \in Managers, ManagerStep(n)
      PROVE  UNCHANGED viewVars
  BY Zenon, <1>5 DEF ManagerStep, ListSharedVolumes, ApiReset, LoopEnds, NextVolume, GetService,
     CreateService, WaitForClusterIP, UpdateService, GetEndpoints, CreateEndpoints,
     WaitForAvailable, UpdateEndpoints, PublishEndpoint, SetExternalEndpoint
<1>6. ASSUME NEW n \in Managers, Crash(n) \/ \E w \in Volumes : CacheExpires(n, w)
      PROVE  UNCHANGED viewVars
  BY <1>6 DEF Crash, CacheExpires
<1>7. CASE Environment
  BY Zenon, <1>1, <1>2, <1>3, <1>4, <1>7 DEF Environment
<1>8. CASE UNCHANGED vars
  BY <1>1, <1>8 DEF vars
<1> QED
  BY <1>1, <1>5, <1>6, <1>7, <1>8 DEF Next

(* Only SetExternalEndpoint publishes. *)
LEMMA ExtStep ==
    ASSUME TypeOK, [Next]_vars
    PROVE  \/ ext' = ext
           \/ \E m \in Managers :
                 /\ mpc[m] = "setExt"
                 /\ ext' = [ext EXCEPT ![mvol[m]] = Frontend(msvc[m])]
                 /\ UNCHANGED histVars
<1>1. CASE Environment
  BY <1>1, EnvironmentLocal, TypeParts
<1>2. ASSUME NEW m \in Managers, ManagerStep(m)
      PROVE  \/ ext' = ext
             \/ /\ mpc[m] = "setExt"
                /\ ext' = [ext EXCEPT ![mvol[m]] = Frontend(msvc[m])]
                /\ UNCHANGED histVars
  BY Zenon, <1>2 DEF ManagerStep, ListSharedVolumes, ApiReset, LoopEnds, NextVolume, GetService,
     CreateService, WaitForClusterIP, UpdateService, GetEndpoints, CreateEndpoints,
     WaitForAvailable, UpdateEndpoints, PublishEndpoint, SetExternalEndpoint, stosVars
<1>3. ASSUME NEW m \in Managers, Crash(m) \/ \E v \in Volumes : CacheExpires(m, v)
      PROVE  ext' = ext
  BY Zenon, <1>3 DEF Crash, CacheExpires, stosVars
<1>4. CASE UNCHANGED vars
  BY <1>4 DEF vars, stosVars
<1> QED
  BY Zenon, <1>1, <1>2, <1>3, <1>4 DEF Next

-----------------------------------------------------------------------------
(* The inductive invariant.                                                *)

(* What a volume had is not forgotten, for the history. *)
LEMMA HistoryGrows ==
    ASSUME TypeOK, [Next]_vars
    PROVE  /\ touched \subseteq touched'
           /\ \A v \in Volumes : everIP[v] \subseteq everIP'[v]
           /\ \A v \in Volumes : everTarget[v] \subseteq everTarget'[v]
<1>0. K8sOK
  BY TypeParts
<1>1. touched \subseteq touched' /\ \A v \in Volumes : everIP[v] \subseteq everIP'[v]
  <2>1. \/ UNCHANGED everIP
        \/ \E w \in Volumes, s \in Svc : everIP' = [everIP EXCEPT ![w] = @ \cup {s.ip}]
    BY SvcStep DEF SvcKept, SvcCreated, SvcUpdated, SvcTouched
  <2>2. UNCHANGED touched \/ \E w \in Volumes : touched' = touched \cup {w}
    BY SvcStep DEF SvcKept, SvcCreated, SvcUpdated, SvcTouched
  <2>3. everIP \in [Volumes -> SUBSET IPs]
    BY <1>0 DEF K8sOK
  <2> QED
    BY <2>1, <2>2, <2>3
<1>2. \A v \in Volumes : everTarget[v] \subseteq everTarget'[v]
  BY <1>0, EpsStep DEF EpsWritten, EpsTouched, K8sOK
<1> QED
  BY <1>1, <1>2

(* A copy of a service after a step. *)
NewCopyOf(v, s) ==
    s # None => s.ip \in everIP'[v] /\ (v \in touched' \/ (s.decl = "nfs" /\ s.single))

(* A copy remains one. *)
LEMMA CopyRemains ==
    ASSUME TypeOK, [Next]_vars
    PROVE  \A v \in Volumes : \A s \in Svc \cup {None} : CopyOf(v, s) => NewCopyOf(v, s)
BY Zenon, HistoryGrows DEF CopyOf, NewCopyOf

(* All copies of services after a step are copies, for Copies. *)
LEMMA CopiesStep ==
    ASSUME TypeOK, Copies, [Next]_vars
    PROVE  Copies'
<1>0. LocalOK /\ K8sOK /\ ViewsOK
  BY TypeParts
<1>1. \A v \in Volumes : NewCopyOf(v, svc'[v])
  <2> SUFFICES ASSUME NEW v \in Volumes PROVE NewCopyOf(v, svc'[v])
    OBVIOUS
  <2>0. svc[v] \in Svc \cup {None} /\ CopyOf(v, svc[v]) /\ DOMAIN svc = Volumes
        /\ DOMAIN everIP = Volumes
    BY <1>0 DEF K8sOK, Copies
  <2>1. CASE svc'[v] = svc[v]
    BY <2>0, <2>1, CopyRemains
  <2>2. ASSUME NEW w \in Volumes, NEW s \in Svc, SvcCreated(w, s)
        PROVE  NewCopyOf(v, svc'[v])
    <3>1. CASE v = w
      BY <2>0, <2>2, <3>1 DEF SvcCreated, NewCopyOf
    <3> QED
      BY <2>0, <2>1, <2>2, <3>1 DEF SvcCreated
  <2>3. ASSUME NEW w \in Volumes, NEW s \in Svc, SvcUpdated(w, s)
        PROVE  NewCopyOf(v, svc'[v])
    <3>1. CASE v = w
      BY <2>0, <2>3, <3>1 DEF SvcUpdated, NewCopyOf, CopyOf
    <3> QED
      BY <2>0, <2>1, <2>3, <3>1 DEF SvcUpdated
  <2>4. ASSUME NEW w \in Volumes, NEW s \in Svc \cup {None}, SvcTouched(w, s)
        PROVE  NewCopyOf(v, svc'[v])
    <3>1. CASE v = w
      BY <2>0, <2>4, <3>1 DEF SvcTouched, NewCopyOf, CopyOf
    <3> QED
      BY <2>0, <2>1, <2>4, <3>1 DEF SvcTouched
  <2> QED
    BY <2>1, <2>2, <2>3, <2>4, SvcStep DEF SvcKept
<1>2. \A m \in Managers, v \in Volumes : NewCopyOf(v, svcView'[m][v])
  <2> SUFFICES ASSUME NEW m \in Managers, NEW v \in Volumes PROVE NewCopyOf(v, svcView'[m][v])
    OBVIOUS
  <2>1. {svcView[m][v], svc[v]} \subseteq Svc \cup {None}
    BY <1>0 DEF K8sOK, ViewsOK
  <2>2. CopyOf(v, svcView[m][v]) /\ CopyOf(v, svc[v])
    BY Zenon DEF Copies
  <2> QED
    BY <2>1, <2>2, CopyRemains, InformersStep
<1>3. \A m \in Managers : mvol'[m] # None => NewCopyOf(mvol'[m], msvc'[m])
  <2> SUFFICES ASSUME NEW m \in Managers, mvol'[m] # None PROVE NewCopyOf(mvol'[m], msvc'[m])
    OBVIOUS
  <2>1. AtHandStep(m)
    BY AtHandAlways
  <2>2. CASE msvc'[m] = None
    BY <2>2 DEF NewCopyOf
  <2>3. CASE mvol'[m] = mvol[m] /\ msvc'[m] = msvc[m]
    <3>1. mvol[m] \in Volumes /\ msvc[m] \in Svc \cup {None} /\ CopyOf(mvol[m], msvc[m])
      BY Zenon, <1>0, <2>3 DEF LocalOK, Copies
    <3> QED
      BY <2>3, <3>1, CopyRemains
  <2>4. CASE mvol'[m] = mvol[m] /\ mvol[m] \in Volumes
             /\ msvc'[m] \in {svcView[m][mvol[m]], svc'[mvol[m]]}
    <3>1. svcView[m][mvol[m]] \in Svc \cup {None} /\ CopyOf(mvol[m], svcView[m][mvol[m]])
      BY <1>0, <2>4 DEF ViewsOK, Copies
    <3>2. NewCopyOf(mvol[m], svcView[m][mvol[m]])
      BY Zenon, <2>4, <3>1, CopyRemains
    <3>3. NewCopyOf(mvol[m], svc'[mvol[m]])
      BY <1>1, <2>4
    <3> QED
      BY Zenon, <2>4, <3>2, <3>3
  <2> QED
    BY <2>1, <2>2, <2>3, <2>4 DEF AtHandStep
<1> QED
  BY <1>1, <1>2, <1>3 DEF Copies, CopyOf, NewCopyOf

(* A second service takes that the first is deleted, for OneService. *)
LEMMA OneServiceStep ==
    ASSUME TypeOK, OneService, [Next]_vars
    PROVE  OneService'
<1>0. K8sOK
  BY Zenon, TypeParts
<1> SUFFICES ASSUME NEW v \in Volumes, v \notin touched'
             PROVE  everIP'[v] = {} \/ (svc'[v] # None /\ everIP'[v] = {svc'[v].ip})
  BY DEF OneService
<1>1. v \notin touched /\ (everIP[v] = {} \/ (svc[v] # None /\ everIP[v] = {svc[v].ip}))
  BY HistoryGrows DEF OneService
<1>2. CASE SvcKept
  BY <1>1, <1>2 DEF SvcKept
<1>3. ASSUME NEW w \in Volumes, NEW s \in Svc, SvcCreated(w, s) \/ SvcUpdated(w, s)
      PROVE  everIP'[v] = {} \/ (svc'[v] # None /\ everIP'[v] = {svc'[v].ip})
  <2>1. s # None
    BY ConstantsAssumption
  <2>2. CASE SvcCreated(w, s)
    BY <1>0, <1>1, <2>1, <2>2 DEF SvcCreated, K8sOK
  <2>3. CASE SvcUpdated(w, s)
    BY <1>0, <1>1, <2>1, <2>3 DEF SvcUpdated, K8sOK
  <2> QED
    BY <1>3, <2>2, <2>3
<1>4. ASSUME NEW w \in Volumes, NEW s \in Svc \cup {None}, SvcTouched(w, s)
      PROVE  everIP'[v] = {} \/ (svc'[v] # None /\ everIP'[v] = {svc'[v].ip})
  BY Zenon, <1>0, <1>1, <1>4 DEF SvcTouched, K8sOK
<1> QED
  BY <1>2, <1>3, <1>4, SvcStep

(* ensureService comes to its end with endpoints, for EndpointsExisted. *)
LEMMA EndpointsStep ==
    ASSUME TypeOK, EndpointsExisted, [Next]_vars
    PROVE  EndpointsExisted'
<1>0. LocalOK /\ K8sOK /\ ViewsOK
  BY TypeParts
<1>1. \A v \in Volumes : eps'[v] # None => everTarget'[v] # {}
  <2>1. CASE UNCHANGED <<eps, everTarget>>
    BY <2>1 DEF EndpointsExisted
  <2>2. ASSUME NEW w \in Volumes, NEW e \in Eps, NEW i \in Internal, EpsWritten(w, e, i)
        PROVE  \A v \in Volumes : eps'[v] # None => everTarget'[v] # {}
    BY <1>0, <2>2 DEF EpsWritten, EndpointsExisted, K8sOK
  <2>3. ASSUME NEW w \in Volumes, NEW e \in Eps \cup {None}, EpsTouched(w, e)
        PROVE  \A v \in Volumes : eps'[v] # None => everTarget'[v] # {}
    BY <1>0, <2>3 DEF EpsTouched, EndpointsExisted, K8sOK
  <2> QED
    BY Zenon, <2>1, <2>2, <2>3, EpsStep
<1>2. \A m \in Managers, v \in Volumes : epsView'[m][v] # None => everTarget'[v] # {}
  <2> SUFFICES ASSUME NEW m \in Managers, NEW v \in Volumes, epsView'[m][v] # None
               PROVE  everTarget'[v] # {}
    OBVIOUS
  <2>1. epsView'[m][v] \in {epsView[m][v], eps[v]}
    BY Zenon, InformersStep
  <2>2. everTarget[v] # {}
    BY Zenon, <2>1 DEF EndpointsExisted
  <2> QED
    BY <2>2, HistoryGrows
<1>3. ASSUME NEW m \in Managers
      PROVE  /\ mpc'[m] \in {"publish", "setExt"} => everTarget'[mvol'[m]] # {} /\ msvc'[m].single
             /\ mpc'[m] \in {"getEps", "createEps", "waitEps", "updEps"} => msvc'[m].single
  <2>1. AtHandStep(m)
    BY AtHandAlways
  <2>2. mpc[m] \in {"publish", "setExt"} => mvol[m] \in Volumes
    BY <1>0, AtHand
  <2>3. mpc[m] \in {"publish", "setExt"} => everTarget'[mvol[m]] # {}
    BY <2>2, HistoryGrows DEF EndpointsExisted
  <2>4. mvol[m] \in Volumes /\ epsView[m][mvol[m]] # None => everTarget'[mvol[m]] # {}
    BY HistoryGrows DEF EndpointsExisted
  <2>5. mpc[m] \in {"getEps", "createEps", "waitEps", "updEps", "publish", "setExt"} => msvc[m].single
    BY DEF EndpointsExisted
  <2> QED
    BY <2>1, <2>3, <2>4, <2>5 DEF AtHandStep
<1> QED
  BY Zenon, <1>1, <1>2, <1>3 DEF EndpointsExisted

(* What is published is a copy's address, for PublishedIsCopy. *)
LEMMA PublishedStep ==
    ASSUME TypeOK, Copies, EndpointsExisted, PublishedIsCopy, [Next]_vars
    PROVE  PublishedIsCopy'
<1>0. LocalOK /\ ViewsOK
  BY TypeParts
<1> SUFFICES ASSUME NEW v \in Volumes, ext'[v] # None
             PROVE  /\ ext'[v][1] \in everIP'[v] /\ everTarget'[v] # {}
                    /\ v \in touched' \/ ext'[v][2] = "nfs"
  BY DEF PublishedIsCopy
<1>1. CASE ext'[v] = ext[v]
  BY <1>1, HistoryGrows DEF PublishedIsCopy
<1>2. ASSUME NEW m \in Managers, mpc[m] = "setExt",
             ext' = [ext EXCEPT ![mvol[m]] = Frontend(msvc[m])], UNCHANGED histVars
      PROVE  /\ ext'[v][1] \in everIP'[v] /\ everTarget'[v] # {}
             /\ v \in touched' \/ ext'[v][2] = "nfs"
  <2>1. mvol[m] \in Volumes /\ msvc[m] \in Svc
    BY <1>0, <1>2, AtHand
  <2>2. CopyOf(mvol[m], msvc[m]) /\ everTarget[mvol[m]] # {} /\ msvc[m].single
    BY Zenon, <1>2, <2>1, ConstantsAssumption DEF Copies, EndpointsExisted
  <2>3. CASE v # mvol[m]
    BY <1>0, <1>1, <1>2, <2>3 DEF ViewsOK
  <2>4. CASE v = mvol[m]
    <3>1. ext'[v] = <<msvc[m].ip, msvc[m].decl>>
      BY Zenon, <1>0, <1>2, <2>1, <2>2, <2>4 DEF ViewsOK, Frontend
    <3>2. msvc[m] # None
      BY <2>1, ConstantsAssumption
    <3>3. msvc[m].ip \in everIP[v] /\ everTarget[v] # {} /\ (v \in touched \/ msvc[m].decl = "nfs")
      BY Zenon, <2>2, <2>4, <3>2 DEF CopyOf
    <3>4. UNCHANGED <<everIP, everTarget, touched>>
      BY <1>2 DEF histVars
    <3>5. ext'[v][1] = msvc[m].ip /\ ext'[v][2] = msvc[m].decl
      BY <3>1
    <3> QED
      BY Zenon, <3>3, <3>4, <3>5
  <2> QED
    BY <2>3, <2>4
<1> QED
  BY <1>1, <1>2, ExtStep

(* The invariant holds at first and is kept by every step of SharedVolume. *)
THEOREM VolumesInductive == Spec => []IInv
<1>1. Init => IInv
  <2> SUFFICES ASSUME Init PROVE IInv
    BY Zenon
  <2>1. TypeOK
    BY Zenon DEF Init, TypeOK, MPC
  <2>2. Copies /\ OneService /\ EndpointsExisted /\ PublishedIsCopy
    BY DEF Init, Copies, CopyOf, OneService, EndpointsExisted, PublishedIsCopy
  <2> QED
    BY <2>1, <2>2 DEF IInv
<1>2. IInv /\ [Next]_vars => IInv'
  BY TypeParts, LocalStep, K8sStep, ViewsStep, CopiesStep, OneServiceStep, EndpointsStep,
     PublishedStep DEF IInv
<1> QED
  BY <1>1, <1>2, PTL DEF Spec

(* The types of SharedVolume, for all sets of volumes and managers. *)
THEOREM VolumesTypeCorrect == Spec => []TypeOK
BY VolumesInductive, PTL DEF IInv

(* A published endpoint is that of a service of the volume which had       *)
(* endpoints, for any number of managers.                                  *)
THEOREM PublishedServed == Spec => []PublishedIsServed
<1>1. IInv => PublishedIsServed
  BY Zenon DEF IInv, PublishedIsCopy, PublishedIsServed
<1> QED
  BY <1>1, VolumesInductive, PTL


-----------------------------------------------------------------------------
(* SharedVolume implements Directory.                                      *)

ready == {v \in Volumes : everTarget[v] # {}}

(* Steps that publish nothing, as steps of Directory. *)
LEMMA HistoryStep ==
    ASSUME IInv, [Next]_vars, ext' = ext
    PROVE  [Published!Next]_(Published!vars)
<1>0. TypeOK /\ LocalOK /\ K8sOK /\ OneService
  BY TypeParts DEF IInv
<1> USE <1>0
<1>1. CASE UNCHANGED <<everIP, touched>>
  <2>1. CASE UNCHANGED <<eps, everTarget>>
    BY <1>1, <2>1 DEF Published!vars
  <2>2. ASSUME NEW v \in Volumes, NEW e \in Eps, NEW i \in Internal, EpsWritten(v, e, i)
        PROVE  Published!Next
    <3>1. ready' = ready \cup {v}
      BY <2>2 DEF EpsWritten, ready, K8sOK
    <3>2. Published!Ready(v)
      BY Zenon, <1>1, <3>1 DEF Published!Ready, ready
    <3> QED
      BY <3>2 DEF Published!Next
  <2>3. ASSUME NEW v \in Volumes, NEW e \in Eps \cup {None}, EpsTouched(v, e)
        PROVE  UNCHANGED Published!vars
    BY <1>1, <2>3 DEF EpsTouched, Published!vars
  <2> QED
    BY <2>1, <2>2, <2>3, EpsStep
<1>2. CASE ~UNCHANGED <<everIP, touched>>
  <2>0. UNCHANGED everTarget
    <3>1. ASSUME NEW m \in Managers, ManagerStep(m)
          PROVE  UNCHANGED everTarget \/ UNCHANGED <<everIP, touched>>
      BY Zenon, <3>1 DEF ManagerStep, ListSharedVolumes, ApiReset, LoopEnds, NextVolume, GetService,
         CreateService, WaitForClusterIP, UpdateService, GetEndpoints, CreateEndpoints,
         WaitForAvailable, UpdateEndpoints, PublishEndpoint, SetExternalEndpoint, histVars
    <3>2. CASE Environment
      BY <3>2 DEF Environment, SetNFS, UpdateVolume, DeletePVC, DeleteService, DeleteEndpoints,
         EditService, EditEndpoints, CollectService, CollectEndpoints, PvcEvent, SvcEvent, EpsEvent,
         EnvStep, histVars
    <3>3. ASSUME NEW m \in Managers, Crash(m) \/ \E v \in Volumes : CacheExpires(m, v)
          PROVE  UNCHANGED everTarget
      BY <3>3 DEF Crash, CacheExpires, histVars
    <3> QED
      BY <1>2, <3>1, <3>2, <3>3 DEF Next, vars, histVars
  <2>1. ready' = ready
    BY <2>0 DEF ready
  <2>2. ASSUME NEW v \in Volumes, NEW s \in Svc, SvcCreated(v, s)
        PROVE  Published!Next
    <3>1. PICK ip \in IPs : ip = s.ip
      BY DEF Svc
    <3>2. v \in touched \/ everIP[v] = {}
      BY Zenon, <2>2 DEF SvcCreated, OneService
    <3>3. Published!Allocate(v, ip)
      BY <2>1, <2>2, <3>1, <3>2 DEF SvcCreated, Published!Allocate, ready
    <3> QED
      BY <3>3 DEF Published!Next
  <2>3. ASSUME NEW v \in Volumes, NEW s \in Svc \cup {None}, SvcTouched(v, s)
        PROVE  Published!Next
    <3>1. Published!Touch(v)
      BY <2>1, <2>3 DEF SvcTouched, Published!Touch, ready
    <3> QED
      BY <3>1 DEF Published!Next
  <2> QED
    BY <1>2, <2>2, <2>3, SvcStep DEF SvcKept, SvcUpdated
<1> QED
  BY <1>1, <1>2

(* Every step of SharedVolume is one of Directory, or changes nothing there. *)
LEMMA DirectoryStep ==
    ASSUME IInv, [Next]_vars
    PROVE  [Published!Next]_(Published!vars)
<1>0. LocalOK /\ ViewsOK /\ K8sOK /\ TypeOK
  BY TypeParts DEF IInv
<1>1. CASE ext' = ext
  BY <1>1, HistoryStep
<1>2. ASSUME NEW m \in Managers, mpc[m] = "setExt",
             ext' = [ext EXCEPT ![mvol[m]] = Frontend(msvc[m])], UNCHANGED histVars
      PROVE  [Published!Next]_(Published!vars)
  <2>1. PICK v \in Volumes : v = mvol[m] /\ msvc[m] \in Svc
    BY <1>0, <1>2, AtHand
  <2>2. CopyOf(v, msvc[m]) /\ everTarget[v] # {} /\ msvc[m].single
    BY Zenon, <1>2, <2>1, ConstantsAssumption DEF IInv, Copies, EndpointsExisted
  <2>3. PICK ip \in IPs, d \in Decl : ip = msvc[m].ip /\ d = msvc[m].decl
    BY Zenon, <2>1 DEF Svc
  <2>4. ip \in everIP[v] /\ (v \in touched \/ d = "nfs")
    BY <2>1, <2>2, <2>3, ConstantsAssumption DEF CopyOf
  <2>5. ext' = [ext EXCEPT ![v] = <<ip, d>>]
    BY Zenon, <1>2, <2>1, <2>2, <2>3 DEF Frontend
  <2>6. UNCHANGED <<everIP, everTarget, touched>> /\ ready' = ready /\ v \in ready
    BY <1>2, <2>2 DEF histVars, ready
  <2>7. CASE v \in touched \/ ext[v] = None
    <3>1. Published!List(v, ip, d)
      BY <2>4, <2>5, <2>6, <2>7 DEF Published!List, ready
    <3> QED
      BY <3>1 DEF Published!Next
  <2>8. CASE v \notin touched /\ ext[v] # None
    <3>1. ext[v] \in External /\ ext[v][1] \in everIP[v] /\ ext[v][2] = "nfs"
      BY <1>0, <2>8 DEF IInv, PublishedIsCopy, ViewsOK
    <3>2. everIP[v] = {ip}
      BY <2>4, <2>8 DEF IInv, OneService
    <3>3. ext[v] = <<ip, d>>
      BY <2>4, <2>8, <3>1, <3>2 DEF External
    <3>4. ext' = ext
      BY Zenon, <1>0, <2>5, <3>3 DEF ViewsOK
    <3> QED
      BY Zenon, <2>6, <3>4 DEF Published!vars, ready
  <2> QED
    BY Zenon, <2>7, <2>8
<1> QED
  BY <1>0, <1>1, <1>2, ExtStep

(* SharedVolume implements Directory, for all sets of volumes, managers,    *)
(* cluster IPs and NFS servers: without leader election, several managers   *)
(* publish what one would.                                                  *)
THEOREM DirectoryImplemented == Spec => ImplementsDirectory
<1>1. Init => Published!Init
  BY DEF Init, Published!Init
<1>2. IInv /\ [Next]_vars => [Published!Next]_(Published!vars)
  BY DirectoryStep
<1> QED
  BY <1>1, <1>2, VolumesInductive, PTL DEF Spec, ImplementsDirectory, Published!Spec

(* The address of a volume does not change while its service is left alone. *)
THEOREM EndpointsStable == Spec => EndpointStable
<1>1. IInv /\ [Next]_vars => [\A v \in Volumes \ touched : ext[v] # None => ext'[v] = ext[v]]_vars
  <2> SUFFICES ASSUME IInv, [Next]_vars, NEW v \in Volumes \ touched, ext[v] # None
               PROVE  ext'[v] = ext[v]
    OBVIOUS
  <2>1. [Published!Next]_(Published!vars)
    BY DirectoryStep
  <2>2. CASE UNCHANGED Published!vars
    BY Zenon, <2>2 DEF Published!vars
  <2>3. CASE Published!Next
    <3>1. DOMAIN ext = Volumes
      BY DEF IInv, TypeOK
    <3> QED
      BY Zenon, <2>3, <3>1 DEF Published!Next, Published!Allocate, Published!Ready, Published!List,
         Published!Touch
  <2> QED
    BY <2>1, <2>2, <2>3
<1> QED
  BY <1>1, VolumesInductive, PTL DEF Spec, EndpointStable

-----------------------------------------------------------------------------
(* What is settled stays settled.                                          *)

(* As long as StorageOS and users leave things alone, a service whose PVC  *)
(* is there is changed by managers only, and so are its Endpoints.         *)
LEMMA QuietStep ==
    ASSUME TypeOK, [Next]_vars, env' = env
    PROVE  /\ UNCHANGED <<nfs, pvc>>
           /\ \/ \E m \in Managers : ManagerStep(m)
              \/ \A v \in Volumes :
                    svc[v] # None /\ v \in pvc => svc'[v] = svc[v] /\ eps'[v] = eps[v]
<1> DEFINE Goal == /\ UNCHANGED <<nfs, pvc>>
                   /\ \/ \E m \in Managers : ManagerStep(m)
                      \/ \A v \in Volumes : svc[v] # None /\ v \in pvc =>
                                                svc'[v] = svc[v] /\ eps'[v] = eps[v]
<1>0. K8sOK /\ ViewsOK
  BY TypeParts
<1>1. ~EnvStep
  <2>1. env \in Nat
    BY <1>0 DEF ViewsOK
  <2> QED BY <2>1 DEF EnvStep
<1>2. ASSUME NEW m \in Managers, ManagerStep(m) PROVE Goal
  <2>1. UNCHANGED <<nfs, pvc>>
    BY Zenon, <1>2 DEF ManagerStep, ListSharedVolumes, ApiReset, LoopEnds, NextVolume, GetService,
       CreateService, WaitForClusterIP, UpdateService, GetEndpoints, CreateEndpoints,
       WaitForAvailable, UpdateEndpoints, PublishEndpoint, SetExternalEndpoint, stosVars, k8sVars
  <2> QED
    BY Zenon, <1>2, <2>1
<1>3. ASSUME UNCHANGED <<stosVars, k8sVars>> PROVE Goal
  BY <1>3 DEF stosVars, k8sVars
<1>4. ASSUME NEW m \in Managers, Crash(m) \/ \E v \in Volumes : CacheExpires(m, v) PROVE Goal
  BY <1>3, <1>4 DEF Crash, CacheExpires
<1>5. ASSUME NEW m \in Managers, NEW v \in Volumes,
             PvcEvent(m, v) \/ SvcEvent(m, v) \/ EpsEvent(m, v)
      PROVE  Goal
  BY <1>3, <1>5 DEF PvcEvent, SvcEvent, EpsEvent
<1>6. ASSUME NEW w \in Volumes, CollectService(w) PROVE Goal
  BY <1>0, <1>6 DEF CollectService, RemoveService, stosVars, K8sOK
<1>7. ASSUME NEW w \in Volumes, CollectEndpoints(w) PROVE Goal
  BY <1>0, <1>7 DEF CollectEndpoints, stosVars, K8sOK
<1>8. ASSUME Environment PROVE Goal
  <2>1. \/ \E w \in Volumes : CollectService(w) \/ CollectEndpoints(w)
        \/ \E m \in Managers, v \in Volumes :
              PvcEvent(m, v) \/ SvcEvent(m, v) \/ EpsEvent(m, v)
    BY <1>1, <1>8 DEF Environment, SetNFS, UpdateVolume, DeletePVC, DeleteService,
       DeleteEndpoints, EditService, EditEndpoints
  <2> HIDE DEF Goal
  <2> QED
    BY <1>5, <1>6, <1>7, <2>1
<1>9. ASSUME UNCHANGED vars PROVE Goal
  BY Zenon, <1>3, <1>9 DEF vars
<1> HIDE DEF Goal
<1>10. Goal
  BY <1>2, <1>4, <1>8, <1>9 DEF Next
<1> QED
  BY <1>10 DEF Goal

(* A service in step is neither replaced by CreateService nor given another *)
(* address by UpdateService, which sends the target of the NFS server.      *)
LEMMA ServiceKept ==
    ASSUME TypeOK, [Next]_vars, env' = env, NEW v \in Volumes, InStep(v)
    PROVE  /\ svc'[v] # None /\ svc'[v].single
           /\ Frontend(svc'[v]) = Frontend(svc[v])
           /\ svc'[v].target \in {svc[v].target, nfs[v][2]}
<1> DEFINE Goal == /\ svc'[v] # None /\ svc'[v].single
                   /\ Frontend(svc'[v]) = Frontend(svc[v])
                   /\ svc'[v].target \in {svc[v].target, nfs[v][2]}
<1>0. LocalOK /\ K8sOK
  BY TypeParts
<1>1. svc[v] \in Svc /\ svc[v] # None /\ svc[v].single /\ v \in pvc /\ nfs[v] \in Internal
  BY Zenon, <1>0 DEF InStep, K8sOK
<1>2. ASSUME svc'[v] = svc[v] PROVE Goal
  BY <1>1, <1>2
<1>3. ASSUME NEW m \in Managers, CreateService(m) PROVE Goal
  <2>1. mvol[m] \in Volumes
    BY Zenon, <1>0, <1>3, AtHand DEF CreateService
  <2>2. svc'[v] = svc[v]
    BY Zenon, <1>0, <1>1, <1>3, <2>1 DEF CreateService, K8sOK
  <2> QED
    BY Zenon, <1>2, <2>2
<1>4. ASSUME NEW m \in Managers, UpdateService(m) PROVE Goal
  <2>1. mvol[m] \in Volumes /\ mpc[m] = "updSvc"
    BY Zenon, <1>0, <1>4, AtHand DEF UpdateService
  <2>2. \/ svc' = svc
        \/ /\ svc[mvol[m]] = msvc[m]
           /\ svc' = [svc EXCEPT ![mvol[m]] = ServiceUpdate(msv[m].int, msvc[m])]
    BY Zenon, <1>4 DEF UpdateService
  <2>3. CASE svc' = svc \/ mvol[m] # v
    <3>1. svc'[v] = svc[v]
      BY Zenon, <1>0, <2>1, <2>2, <2>3 DEF K8sOK
    <3> QED
      BY <1>2, <3>1
  <2>4. CASE svc' # svc /\ mvol[m] = v
    <3>1. msv[m].int = nfs[v]
      BY <2>4 DEF InStep
    <3>2. svc'[v] = [svc[v] EXCEPT !.target = nfs[v][2]]
      BY <1>0, <1>1, <2>1, <2>2, <2>4, <3>1 DEF ServiceUpdate, K8sOK
    <3>3. /\ svc'[v].single /\ svc'[v].target = nfs[v][2]
          /\ svc'[v].ip = svc[v].ip /\ svc'[v].decl = svc[v].decl
      BY <1>1, <3>2 DEF Svc
    <3>4. svc'[v] # None
      <4>1. nfs[v][2] \in Ports
        BY <1>1 DEF Ports
      <4>2. svc'[v] \in Svc
        BY <1>1, <3>2, <4>1 DEF Svc
      <4> QED
        BY <4>2, ConstantsAssumption
    <3> QED
      BY <1>1, <3>3, <3>4 DEF Frontend
  <2> QED
    BY Zenon, <2>3, <2>4
<1>5. ASSUME NEW m \in Managers, ManagerStep(m), ~CreateService(m), ~UpdateService(m)
      PROVE  svc' = svc
  BY Zenon, <1>5 DEF ManagerStep, ListSharedVolumes, ApiReset, LoopEnds, NextVolume, GetService,
     WaitForClusterIP, GetEndpoints, CreateEndpoints, WaitForAvailable, UpdateEndpoints,
     PublishEndpoint, SetExternalEndpoint, k8sVars
<1> HIDE DEF Goal
<1>6. Goal
  BY <1>1, <1>2, <1>3, <1>4, <1>5, QuietStep
<1> QED
  BY Zenon, <1>6 DEF Goal

(* Endpoints are only ever pointed at the NFS server. *)
LEMMA EndpointsKept ==
    ASSUME TypeOK, [Next]_vars, env' = env, NEW v \in Volumes, InStep(v), eps[v] # None
    PROVE  eps'[v] # None /\ eps'[v].target \in {eps[v].target, nfs[v]}
<1> DEFINE Goal == eps'[v] # None /\ eps'[v].target \in {eps[v].target, nfs[v]}
<1>0. LocalOK /\ K8sOK
  BY TypeParts
<1>1. eps[v] \in Eps /\ svc[v] # None /\ v \in pvc /\ nfs[v] \in Internal
  BY Zenon, <1>0 DEF InStep, K8sOK
<1>2. ASSUME eps'[v] = eps[v] PROVE Goal
  BY <1>1, <1>2
<1>3. ASSUME NEW m \in Managers, CreateEndpoints(m) PROVE Goal
  <2>1. mvol[m] \in Volumes
    BY Zenon, <1>0, <1>3, AtHand DEF CreateEndpoints
  <2>2. eps'[v] = eps[v]
    BY Zenon, <1>0, <1>3, <2>1 DEF CreateEndpoints, K8sOK
  <2> QED
    BY <1>2, <2>2
<1>4. ASSUME NEW m \in Managers, UpdateEndpoints(m) PROVE Goal
  <2>1. mvol[m] \in Volumes
    BY Zenon, <1>0, <1>4, AtHand DEF UpdateEndpoints
  <2>2. \/ eps' = eps
        \/ /\ eps[mvol[m]] = meps[m]
           /\ eps' = [eps EXCEPT ![mvol[m]] = EndpointsUpdate(msv[m].int, meps[m])]
    BY Zenon, <1>4 DEF UpdateEndpoints
  <2>3. CASE eps' = eps \/ mvol[m] # v
    <3>1. eps'[v] = eps[v]
      BY Zenon, <1>0, <2>1, <2>2, <2>3 DEF K8sOK
    <3> QED
      BY <1>2, <3>1
  <2>4. CASE eps' # eps /\ mvol[m] = v
    <3>1. msv[m].int = nfs[v]
      BY <2>4 DEF InStep
    <3>2. eps'[v] = EndpointsUpdate(nfs[v], eps[v])
      BY Zenon, <1>0, <2>1, <2>2, <2>4, <3>1 DEF K8sOK
    <3>3. eps'[v].target = nfs[v]
      BY <1>1, <3>2 DEF EndpointsUpdate, Endpoints, Eps
    <3>4. eps'[v] \in Eps
      BY Zenon, <1>1, <3>2, ObjectTypes
    <3> QED
      BY <3>3, <3>4, ConstantsAssumption
  <2> QED
    BY <2>3, <2>4
<1>5. ASSUME NEW m \in Managers, ManagerStep(m), ~CreateEndpoints(m), ~UpdateEndpoints(m)
      PROVE  eps' = eps
  BY Zenon, <1>5 DEF ManagerStep, ListSharedVolumes, ApiReset, LoopEnds, NextVolume, GetService,
     CreateService, WaitForClusterIP, UpdateService, GetEndpoints, WaitForAvailable,
     PublishEndpoint, SetExternalEndpoint, k8sVars
<1> HIDE DEF Goal
<1>6. Goal
  BY Zenon, <1>1, <1>2, <1>3, <1>4, <1>5, QuietStep
<1> QED
  BY <1>6 DEF Goal

(* What a manager has of a volume comes from its list, and the list from   *)
(* StorageOS as it is.                                                     *)
LEMMA ListedStep ==
    ASSUME TypeOK, [Next]_vars, NEW m \in Managers, NEW v \in Volumes
    PROVE  /\ \/ mtodo'[m][v] \in {mtodo[m][v], None}
              \/ mtodo'[m][v] = [int |-> nfs[v], ext |-> ext[v]]
           /\ mvol'[m] = v => \/ mvol[m] = v /\ msv'[m] = msv[m]
                              \/ mtodo[m][v] # None /\ msv'[m] = mtodo[m][v]
<1> DEFINE Goal ==
        /\ \/ mtodo'[m][v] \in {mtodo[m][v], None}
           \/ mtodo'[m][v] = [int |-> nfs[v], ext |-> ext[v]]
        /\ mvol'[m] = v => \/ mvol[m] = v /\ msv'[m] = msv[m]
                           \/ mtodo[m][v] # None /\ msv'[m] = mtodo[m][v]
<1>0. LocalOK /\ ViewsOK
  BY TypeParts
<1>1. None \notin Volumes
  BY ConstantsAssumption
<1>2. ASSUME UNCHANGED <<mtodo, mvol, msv>> PROVE Goal
  BY <1>2
<1>3. ASSUME NEW n \in Managers, UNCHANGED mtodo,
             mvol' = [mvol EXCEPT ![n] = None], msv' = [msv EXCEPT ![n] = None]
      PROVE  Goal
  BY <1>0, <1>1, <1>3 DEF LocalOK
<1>4. ASSUME NEW n \in Managers, ListSharedVolumes(n) PROVE Goal
  <2> DEFINE all == [w \in Volumes |-> IF nfs[w] = None THEN None
                                       ELSE [int |-> nfs[w], ext |-> ext[w]]]
  <2>1. UNCHANGED <<mvol, msv>> /\ (UNCHANGED mtodo \/ mtodo' = [mtodo EXCEPT ![n] = all])
    BY <1>4 DEF ListSharedVolumes
  <2>2. CASE mtodo' = [mtodo EXCEPT ![n] = all]
    <3>1. mtodo'[m] = IF m = n THEN all ELSE mtodo[m]
      BY <1>0, <2>2 DEF ViewsOK
    <3>2. all[v] = None \/ all[v] = [int |-> nfs[v], ext |-> ext[v]]
      OBVIOUS
    <3> HIDE DEF all
    <3>3. \/ mtodo'[m][v] \in {mtodo[m][v], None}
          \/ mtodo'[m][v] = [int |-> nfs[v], ext |-> ext[v]]
      BY Zenon, <3>1, <3>2
    <3> QED
      BY <2>1, <3>3
  <2> QED
    BY Zenon, <1>2, <2>1, <2>2
<1>5. ASSUME NEW n \in Managers, NEW w \in Volumes, NextVolume(n, w) PROVE Goal
  <2>1. mtodo' = [mtodo EXCEPT ![n][w] = None] /\ mtodo[n][w] # None
    BY <1>5 DEF NextVolume
  <2>2. mtodo'[m][v] \in {mtodo[m][v], None}
    BY <1>0, <2>1, EntryRead DEF ViewsOK
  <2>3. \/ UNCHANGED <<mvol, msv>>
        \/ mvol' = [mvol EXCEPT ![n] = w] /\ msv' = [msv EXCEPT ![n] = mtodo[n][w]]
    BY <1>5 DEF NextVolume
  <2>4. mvol'[m] = v => \/ mvol[m] = v /\ msv'[m] = msv[m]
                        \/ mtodo[m][v] # None /\ msv'[m] = mtodo[m][v]
    BY <1>0, <2>1, <2>3 DEF LocalOK
  <2> QED
    BY <2>2, <2>4
<1>6. ASSUME NEW n \in Managers, Crash(n) PROVE Goal
  BY Zenon, <1>0, <1>1, <1>6 DEF Crash, LocalOK, ViewsOK
<1>7. ASSUME NEW n \in Managers, ManagerStep(n), ~ListSharedVolumes(n),
             ~\E w \in Volumes : NextVolume(n, w)
      PROVE  \/ UNCHANGED <<mtodo, mvol, msv>>
             \/ /\ UNCHANGED mtodo
                /\ mvol' = [mvol EXCEPT ![n] = None] /\ msv' = [msv EXCEPT ![n] = None]
  BY Zenon, <1>7 DEF ManagerStep, ApiReset, LoopEnds, GetService, HaveService,
     CreateService, WaitForClusterIP, UpdateService, GetEndpoints, HaveEndpoints,
     CreateEndpoints, WaitForAvailable, UpdateEndpoints, PublishEndpoint, CacheVolume,
     SetExternalEndpoint, LeaveVolume, localVars
<1>8. ASSUME Environment \/ UNCHANGED vars \/ \E n \in Managers, w \in Volumes : CacheExpires(n, w)
      PROVE  Goal
  BY <1>0, <1>2, <1>8, EnvironmentLocal DEF vars, localVars, CacheExpires
<1> HIDE DEF Goal
<1>9. Goal
  BY <1>2, <1>3, <1>4, <1>5, <1>6, <1>7, <1>8 DEF Next
<1> QED
  BY <1>9 DEF Goal

(* The managers stay in step. *)
LEMMA InStepKept ==
    ASSUME TypeOK, [Next]_vars, env' = env, NEW v \in Volumes, InStep(v)
    PROVE  InStep(v)'
<1>1. UNCHANGED <<nfs, pvc>>
  BY Zenon, QuietStep
<1>2. svc'[v] # None /\ svc'[v].single /\ Frontend(svc'[v]) = Frontend(svc[v])
  BY Zenon, ServiceKept
<1>3. ASSUME NEW m \in Managers
      PROVE  /\ mtodo'[m][v] # None => mtodo'[m][v].int = nfs[v]
             /\ mvol'[m] = v => msv'[m].int = nfs[v]
  <2>1. [int |-> nfs[v], ext |-> ext[v]].int = nfs[v]
    OBVIOUS
  <2>2. /\ mtodo[m][v] # None => mtodo[m][v].int = nfs[v]
        /\ mvol[m] = v => msv[m].int = nfs[v]
    BY <1>3 DEF InStep
  <2>3. /\ \/ mtodo'[m][v] = mtodo[m][v] \/ mtodo'[m][v] = None
           \/ mtodo'[m][v] = [int |-> nfs[v], ext |-> ext[v]]
        /\ mvol'[m] = v => \/ mvol[m] = v /\ msv'[m] = msv[m]
                           \/ mtodo[m][v] # None /\ msv'[m] = mtodo[m][v]
    BY <1>3, ListedStep
  <2> QED
    BY Zenon, <2>1, <2>2, <2>3
<1>4. ASSUME NEW m \in Managers, svcView'[m][v] # None
      PROVE  Frontend(svcView'[m][v]) = Frontend(svc[v])
  <2>1. svcView'[m][v] \in {svcView[m][v], svc[v]}
    BY Zenon, <1>4, InformersStep
  <2> QED
    BY Zenon, <1>4, <2>1 DEF InStep
<1>5. ASSUME NEW m \in Managers, mvol'[m] = v, msvc'[m] # None
      PROVE  Frontend(msvc'[m]) = Frontend(svc[v])
  <2>1. AtHandStep(m)
    BY Zenon, <1>5, AtHandAlways
  <2>2. mvol[m] = v /\ msvc'[m] \in {msvc[m], svcView[m][v], svc'[v]}
    BY Zenon, <1>5, <2>1 DEF AtHandStep
  <2> QED
    BY Zenon, <1>2, <1>5, <2>2 DEF InStep
<1>6. nfs'[v] # None /\ v \in pvc'
  BY Zenon, <1>1 DEF InStep
<1>7. ASSUME NEW m \in Managers
      PROVE  /\ mtodo'[m][v] # None => mtodo'[m][v].int = nfs'[v]
             /\ mvol'[m] = v => msv'[m].int = nfs'[v]
             /\ svcView'[m][v] # None => Frontend(svcView'[m][v]) = Frontend(svc'[v])
             /\ mvol'[m] = v /\ msvc'[m] # None => Frontend(msvc'[m]) = Frontend(svc'[v])
  BY Zenon, <1>1, <1>2, <1>3, <1>4, <1>5
<1> QED
  BY Zenon, <1>2, <1>6, <1>7 DEF InStep, Frontend

(* ... and so does what they settled. *)
LEMMA SettledKept ==
    ASSUME TypeOK, [Next]_vars, env' = env, NEW v \in Volumes, InStep(v), Settled(v)
    PROVE  Settled(v)'
<1>0. LocalOK /\ ViewsOK
  BY TypeParts
<1>1. UNCHANGED <<nfs, pvc>>
  BY QuietStep
<1>2. /\ svc'[v] # None /\ Frontend(svc'[v]) = Frontend(svc[v])
      /\ svc'[v].target = nfs[v][2]
  BY ServiceKept DEF Settled
<1>3. eps'[v] # None /\ eps'[v].target = nfs[v]
  BY EndpointsKept DEF Settled
<1>4. ext'[v] = Frontend(svc[v])
  <2>1. CASE ext' = ext
    BY <2>1 DEF Settled
  <2>2. ASSUME NEW m \in Managers, mpc[m] = "setExt",
               ext' = [ext EXCEPT ![mvol[m]] = Frontend(msvc[m])]
        PROVE  ext'[v] = Frontend(svc[v])
    <3>1. msvc[m] # None
      BY <1>0, <2>2 DEF LocalOK
    <3>2. mvol[m] = v => Frontend(msvc[m]) = Frontend(svc[v])
      BY <3>1 DEF InStep
    <3> QED
      BY Zenon, <1>0, <2>2, <3>2 DEF Settled, ViewsOK
  <2> QED
    BY <2>1, <2>2, ExtStep
<1> QED
  BY <1>1, <1>2, <1>3, <1>4 DEF Settled, Frontend

(* Once service, Endpoints and published address agree and no manager      *)
(* holds anything that contradicts them, they agree until StorageOS or a   *)
(* user changes something, for any number of managers without a leader:    *)
(* what TLC shows to be reached (Converges) is kept from then on.          *)
THEOREM VolumesStaySettled == Spec => SettledStays
<1> DEFINE Stays == \A v \in Volumes :
                       InStep(v) /\ Settled(v) /\ env' = env => (InStep(v) /\ Settled(v))'
<1>1. TypeOK /\ [Next]_vars => [Stays]_vars
  <2> SUFFICES ASSUME TypeOK, [Next]_vars, NEW v \in Volumes, InStep(v), Settled(v), env' = env
               PROVE  InStep(v)' /\ Settled(v)'
    OBVIOUS
  <2> QED
    BY InStepKept, SettledKept
<1>2. SettledStays <=> [][Stays]_vars
  BY DEF SettledStays
<1> QED
  BY <1>1, <1>2, VolumesTypeCorrect, PTL DEF Spec

-----------------------------------------------------------------------------
(* What is gone stays gone.                                                *)

(* A PVC that is gone from Kubernetes, or for a manager, does not return,  *)
(* and a manager starts on a volume only if it has the PVC.                *)
LEMMA ClaimsStep ==
    ASSUME TypeOK, [Next]_vars
    PROVE  /\ pvc' \subseteq pvc
           /\ \A m \in Managers : pvcView'[m] \subseteq pvcView[m]
           /\ \A m \in Managers, v \in Volumes :
                 mvol'[m] = v => mvol[m] = v \/ v \in pvcView[m]
<1>0. LocalOK /\ ViewsOK
  BY TypeParts
<1>1. pvc' \subseteq pvc
  <2>1. ASSUME NEW m \in Managers, ManagerStep(m) PROVE pvc' = pvc
    BY Zenon, <2>1 DEF ManagerStep, ListSharedVolumes, ApiReset, LoopEnds, NextVolume, GetService,
       CreateService, WaitForClusterIP, UpdateService, GetEndpoints, CreateEndpoints,
       WaitForAvailable, UpdateEndpoints, PublishEndpoint, SetExternalEndpoint, k8sVars
  <2>2. ASSUME Environment PROVE pvc' \subseteq pvc
    BY <2>2 DEF Environment, SetNFS, UpdateVolume, DeletePVC, DeleteService, DeleteEndpoints,
       EditService, EditEndpoints, CollectService, CollectEndpoints, PvcEvent, SvcEvent,
       EpsEvent, k8sVars
  <2>3. ASSUME NEW m \in Managers, Crash(m) \/ \E v \in Volumes : CacheExpires(m, v)
        PROVE  pvc' = pvc
    BY <2>3 DEF Crash, CacheExpires, k8sVars
  <2>4. CASE UNCHANGED vars
    BY <2>4 DEF vars, k8sVars
  <2> QED
    BY <2>1, <2>2, <2>3, <2>4 DEF Next
<1>2. ASSUME NEW m \in Managers PROVE pvcView'[m] \subseteq pvcView[m]
  <2>1. ASSUME NEW n \in Managers, ManagerStep(n) PROVE pvcView' = pvcView
    BY Zenon, <2>1 DEF ManagerStep, ListSharedVolumes, ApiReset, LoopEnds, NextVolume, GetService,
       CreateService, WaitForClusterIP, UpdateService, GetEndpoints, CreateEndpoints,
       WaitForAvailable, UpdateEndpoints, PublishEndpoint, SetExternalEndpoint, viewVars
  <2>2. ASSUME NEW n \in Managers, NEW v \in Volumes, PvcEvent(n, v)
        PROVE  pvcView'[m] \subseteq pvcView[m]
    BY <1>0, <2>2 DEF PvcEvent, ViewsOK
  <2>3. ASSUME Environment, ~\E n \in Managers, v \in Volumes : PvcEvent(n, v)
        PROVE  pvcView' = pvcView
    BY <2>3 DEF Environment, SetNFS, UpdateVolume, DeletePVC, DeleteService, DeleteEndpoints,
       EditService, EditEndpoints, CollectService, CollectEndpoints, SvcEvent, EpsEvent,
       EnvStep, viewVars
  <2>4. ASSUME NEW n \in Managers, Crash(n) \/ \E v \in Volumes : CacheExpires(n, v)
        PROVE  pvcView' = pvcView
    BY <2>4 DEF Crash, CacheExpires, viewVars
  <2>5. CASE UNCHANGED vars
    BY <2>5 DEF vars, viewVars
  <2> QED
    BY <2>1, <2>2, <2>3, <2>4, <2>5 DEF Next
<1>3. ASSUME NEW m \in Managers, NEW v \in Volumes, mvol'[m] = v
      PROVE  mvol[m] = v \/ v \in pvcView[m]
  <2>1. None \notin Volumes
    BY ConstantsAssumption
  <2>2. ASSUME NEW w \in Volumes, NextVolume(m, w) PROVE mvol[m] = v \/ v \in pvcView[m]
    BY <1>0, <1>3, <2>2 DEF NextVolume, LocalOK
  <2>3. ASSUME ManagerStep(m), ~\E w \in Volumes : NextVolume(m, w)
        PROVE  mvol' = mvol \/ mvol' = [mvol EXCEPT ![m] = None]
    BY Zenon, <2>3 DEF ManagerStep, ListSharedVolumes, ApiReset, LoopEnds, GetService,
       HaveService, CreateService, WaitForClusterIP, UpdateService, GetEndpoints,
       HaveEndpoints, CreateEndpoints, WaitForAvailable, UpdateEndpoints, PublishEndpoint,
       CacheVolume, SetExternalEndpoint, LeaveVolume, localVars
  <2>4. CASE ManagerStep(m)
    BY Zenon, <1>0, <1>3, <2>1, <2>2, <2>3, <2>4 DEF LocalOK
  <2>5. CASE Crash(m)
    BY Zenon, <1>0, <1>3, <2>1, <2>5 DEF Crash, LocalOK
  <2>6. CASE ~ManagerStep(m) /\ ~Crash(m)
    BY Zenon, <1>3, <2>6, OthersStay
  <2> QED
    BY <2>4, <2>5, <2>6
<1> QED
  BY <1>1, <1>2, <1>3

(* Only a manager at work on the volume creates its service. *)
LEMMA CreatedAtHand ==
    ASSUME TypeOK, [Next]_vars, NEW v \in Volumes, svc[v] = None,
           \A m \in Managers : mvol[m] # v
    PROVE  svc'[v] = None
<1>0. LocalOK /\ K8sOK
  BY TypeParts
<1>1. ASSUME NEW m \in Managers, CreateService(m) PROVE svc'[v] = None
  BY Zenon, <1>0, <1>1 DEF CreateService, K8sOK
<1>2. ASSUME NEW m \in Managers, UpdateService(m) PROVE svc'[v] = None
  BY Zenon, <1>0, <1>2 DEF UpdateService, K8sOK
<1>3. ASSUME NEW m \in Managers, ManagerStep(m), ~CreateService(m), ~UpdateService(m)
      PROVE  svc' = svc
  BY Zenon, <1>3 DEF ManagerStep, ListSharedVolumes, ApiReset, LoopEnds, NextVolume, GetService,
     WaitForClusterIP, GetEndpoints, CreateEndpoints, WaitForAvailable, UpdateEndpoints,
     PublishEndpoint, SetExternalEndpoint, k8sVars
<1>4. ASSUME NEW w \in Volumes, DeleteService(w) \/ CollectService(w) \/ EditService(w)
      PROVE  svc'[v] = None
  BY <1>0, <1>4 DEF DeleteService, CollectService, EditService, RemoveService, K8sOK
<1>5. ASSUME Environment, ~\E w \in Volumes : DeleteService(w) \/ CollectService(w) \/ EditService(w)
      PROVE  svc' = svc
  BY <1>5 DEF Environment, SetNFS, UpdateVolume, DeletePVC, DeleteEndpoints, EditEndpoints,
     CollectEndpoints, PvcEvent, SvcEvent, EpsEvent, k8sVars
<1>6. ASSUME NEW m \in Managers, Crash(m) \/ \E w \in Volumes : CacheExpires(m, w)
      PROVE  svc' = svc
  BY <1>6 DEF Crash, CacheExpires, k8sVars
<1>7. CASE UNCHANGED vars
  BY <1>7 DEF vars, k8sVars
<1> QED
  BY Zenon, <1>1, <1>2, <1>3, <1>4, <1>5, <1>6, <1>7 DEF Next

(* The service of a deleted PVC that all managers have forgotten is never  *)
(* created again, for any number of managers: what TLC shows to be reached *)
(* (ServicesCollected) is kept from then on.                               *)
THEOREM ServicesStayGone == Spec => GoneStays
<1>1. TypeOK /\ [Next]_vars => [\A v \in Volumes : Gone(v) => Gone(v)']_vars
  <2> SUFFICES ASSUME TypeOK, [Next]_vars, NEW v \in Volumes, Gone(v)
               PROVE  Gone(v)'
    OBVIOUS
  <2>1. v \notin pvc' /\ \A m \in Managers : v \notin pvcView'[m] /\ mvol'[m] # v
    BY ClaimsStep DEF Gone
  <2>2. svc'[v] = None
    BY CreatedAtHand DEF Gone
  <2> QED
    BY <2>1, <2>2 DEF Gone
<1> QED
  BY <1>1, VolumesTypeCorrect, PTL DEF Spec, GoneStays

=============================================================================
