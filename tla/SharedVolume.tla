---------------------------- MODULE SharedVolume ----------------------------
(***************************************************************************)
(* The shared volume controller (internal/controllers/sharedvolume) with   *)
(* the API helpers it calls (internal/pkg/storageos/shared_volume*.go).    *)
(*                                                                         *)
(* Each manager process lists the shared volumes and makes sure that each  *)
(* has a Service, Endpoints that point at its NFS server, and the address  *)
(* of the Service published on the volume.  A volume that is listed as it  *)
(* was last verified is left alone until it expires from a cache.  Leader  *)
(* election is off by default, so several managers may be at it.           *)
(*                                                                         *)
(* Reads of Kubernetes objects come from the informers of the process;     *)
(* writes go to the API server, which refuses an update of an object that  *)
(* has changed since it was read.                                          *)
(***************************************************************************)
EXTENDS Naturals

CONSTANTS
    Volumes,     \* StorageOS volumes, each with its PVC, Service and Endpoints
    Managers,    \* api-manager processes
    IPs,         \* cluster IPs
    Internal,    \* NFS server endpoints <<address, port>>
    None,
    Changes,     \* what else users change: a part of UserChanges
    MaxEnv,      \* bound on the changes by StorageOS and users
    MaxFaults    \* bound on failing calls and crashes

(* Users update the volume, delete its PVC, Service and Endpoints, and     *)
(* edit the port of the last two, the ports of the Service and the subsets *)
(* of the Endpoints.                                                       *)
UserChanges == {"volume", "pvc", "service", "endpoints", "decl", "ports", "subsets"}

(* How a port is declared: as the NFS defaults (name, number, protocol) or *)
(* otherwise.                                                              *)
Decl == {"nfs", "other"}
Ports == {i[2] : i \in Internal}

(* What the controller sees of its objects.  single: one port; owned: the  *)
(* PVC is the owner; shape: one subset with one address and one port, one  *)
(* subset with more of them, or any other.                                 *)
Svc == [ip : IPs, decl : Decl, target : Ports, single : BOOLEAN, owned : BOOLEAN]
Eps == [target : Internal, decl : Decl, shape : {"one", "more", "other"}]
External == IPs \X Decl
SV == [int : Internal, ext : External \cup {None}]

ASSUME ConstantsAssumption ==
    /\ None \notin Volumes \cup IPs \cup Internal \cup Svc \cup Eps
    /\ Changes \subseteq UserChanges
    /\ MaxEnv \in Nat
    /\ MaxFaults \in Nat

VARIABLES
    \* StorageOS: the NFS server and the mount-endpoint label of a volume
    nfs, ext,
    \* Kubernetes; leftover: volumes whose Endpoints are still to be removed
    pvc, svc, eps, leftover,
    \* per manager: its informers, cache, and the loop with the volume at hand
    pvcView, svcView, epsView, vcache,
    mpc, mtodo, mvol, msv, msvc, meps, mfresh,
    \* bounds
    env, faults,
    \* history: the IPs the service had, the targets of the Endpoints
    everIP, everTarget,
    \* volumes whose service was deleted or edited by others than the managers
    touched

stosVars  == <<nfs, ext>>
k8sVars   == <<pvc, svc, eps, leftover>>
viewVars  == <<pvcView, svcView, epsView>>
localVars == <<mtodo, mvol, msv, msvc, meps>>
histVars  == <<everIP, everTarget, touched>>
vars == <<stosVars, k8sVars, viewVars, vcache, mpc, localVars, mfresh, env,
          faults, histVars>>

MPC == {"idle", "resetting", "loop", "getSvc", "createSvc", "waitSvc", "updSvc",
        "getEps", "createEps", "waitEps", "updEps", "publish", "setExt"}

(* The type of every variable; the loop has a volume at hand exactly while *)
(* it is inside ensureService or SetExternalEndpoint, and has its Service  *)
(* from when ensureService has read it.                                    *)
TypeOK ==
    /\ nfs \in [Volumes -> Internal \cup {None}]
    /\ ext \in [Volumes -> External \cup {None}]
    /\ pvc \in SUBSET Volumes
    /\ svc \in [Volumes -> Svc \cup {None}]
    /\ eps \in [Volumes -> Eps \cup {None}]
    /\ leftover \in SUBSET Volumes
    /\ pvcView \in [Managers -> SUBSET Volumes]
    /\ svcView \in [Managers -> [Volumes -> Svc \cup {None}]]
    /\ epsView \in [Managers -> [Volumes -> Eps \cup {None}]]
    /\ vcache \in [Managers -> [Volumes -> SV \cup {None}]]
    /\ mpc \in [Managers -> MPC]
    /\ mtodo \in [Managers -> [Volumes -> SV \cup {None}]]
    /\ mvol \in [Managers -> Volumes \cup {None}]
    /\ msv \in [Managers -> SV \cup {None}]
    /\ msvc \in [Managers -> Svc \cup {None}]
    /\ meps \in [Managers -> Eps \cup {None}]
    /\ mfresh \in [Managers -> BOOLEAN]
    /\ env \in Nat /\ faults \in Nat
    /\ everIP \in [Volumes -> SUBSET IPs]
    /\ everTarget \in [Volumes -> SUBSET Internal]
    /\ touched \in SUBSET Volumes
    /\ \A m \in Managers :
          /\ mvol[m] = None <=> mpc[m] \in {"idle", "resetting", "loop"}
          /\ msv[m] = None <=> mvol[m] = None
          /\ mpc[m] \in {"updSvc", "getEps", "createEps", "waitEps", "updEps",
                         "publish", "setExt"} <=> msvc[m] # None

-----------------------------------------------------------------------------
(* The desired objects (shared_volume_types.go).                           *)

(* Mutant: the PVC is not made the owner. *)
M_Service(i, ip) == [ip |-> ip, decl |-> "nfs", target |-> i[2],
                     single |-> TRUE, owned |-> FALSE]

Service(i, ip) == [ip |-> ip, decl |-> "nfs", target |-> i[2],
                   single |-> TRUE, owned |-> TRUE]

ServiceIsEqual(i, s) == s.single /\ s.decl = "nfs" /\ s.target = i[2]

(* Of a service with one port only the target port is updated. *)
ServiceUpdate(i, s) ==
    IF s.single THEN [s EXCEPT !.target = i[2]]
    ELSE [s EXCEPT !.single = TRUE, !.decl = "nfs", !.target = i[2]]

Endpoints(i) == [target |-> i, decl |-> "nfs", shape |-> "one"]

(* target is the first address and the first port. *)
EndpointsIsEqual(i, e) == e.shape # "other" /\ e.decl = "nfs" /\ e.target = i

EndpointsUpdate(i, e) ==
    IF e.shape = "one" THEN [e EXCEPT !.target = i] ELSE Endpoints(i)

(* Mutant: the endpoint has the target port. *)
M_Frontend(s) == IF s.single THEN <<s.ip, s.target>> ELSE None

Frontend(s) == IF s.single THEN <<s.ip, s.decl>> ELSE None

-----------------------------------------------------------------------------

Init ==
    /\ nfs = [v \in Volumes |-> None]
    /\ ext = [v \in Volumes |-> None]
    /\ pvc = Volumes
    /\ svc = [v \in Volumes |-> None]
    /\ eps = [v \in Volumes |-> None]
    /\ leftover = {}
    /\ pvcView = [m \in Managers |-> Volumes]
    /\ svcView = [m \in Managers |-> svc]
    /\ epsView = [m \in Managers |-> eps]
    /\ vcache = [m \in Managers |-> [v \in Volumes |-> None]]
    /\ mpc = [m \in Managers |-> "idle"]
    /\ mtodo = [m \in Managers |-> [v \in Volumes |-> None]]
    /\ mvol = [m \in Managers |-> None]
    /\ msv = [m \in Managers |-> None]
    /\ msvc = [m \in Managers |-> None]
    /\ meps = [m \in Managers |-> None]
    /\ mfresh = [m \in Managers |-> FALSE]
    /\ env = 0
    /\ faults = 0
    /\ everIP = [v \in Volumes |-> {}]
    /\ everTarget = [v \in Volumes |-> {}]
    /\ touched = {}

-----------------------------------------------------------------------------
(* StorageOS, users and Kubernetes.                                        *)

EnvStep ==
    /\ env < MaxEnv
    /\ env' = env + 1
    /\ UNCHANGED <<viewVars, vcache, mpc, localVars, faults, everIP, everTarget>>

(* The version of the volume moves on: what a manager read of it is old. *)
VolumeChanges(v) == mfresh' = [m \in Managers |-> mfresh[m] /\ mvol[m] # v]

(* The volume is attached as shared, fails over or is detached. *)
SetNFS(v, i) ==
    /\ EnvStep
    /\ nfs[v] # i
    /\ nfs' = [nfs EXCEPT ![v] = i]
    /\ VolumeChanges(v)
    /\ UNCHANGED <<ext, k8sVars, touched>>

UpdateVolume(v) ==
    /\ EnvStep
    /\ "volume" \in Changes
    /\ \E m \in Managers : mfresh[m] /\ mvol[m] = v
    /\ VolumeChanges(v)
    /\ UNCHANGED <<stosVars, k8sVars, touched>>

DeletePVC(v) ==
    /\ EnvStep
    /\ "pvc" \in Changes
    /\ v \in pvc
    /\ pvc' = pvc \ {v}
    /\ UNCHANGED <<stosVars, svc, eps, leftover, mfresh, touched>>

RemoveService(v) ==
    /\ svc' = [svc EXCEPT ![v] = None]
    /\ leftover' = leftover \cup {v}
    /\ touched' = touched \cup {v}

DeleteService(v) ==
    /\ EnvStep
    /\ "service" \in Changes
    /\ svc[v] # None
    /\ RemoveService(v)
    /\ UNCHANGED <<stosVars, pvc, eps, mfresh>>

DeleteEndpoints(v) ==
    /\ EnvStep
    /\ "endpoints" \in Changes
    /\ eps[v] # None
    /\ eps' = [eps EXCEPT ![v] = None]
    /\ UNCHANGED <<stosVars, pvc, svc, leftover, mfresh, touched>>

EditService(v) ==
    /\ EnvStep
    /\ svc[v] # None
    /\ \/ "decl" \in Changes /\ svc' = [svc EXCEPT ![v].decl = "other"]
       \/ "ports" \in Changes /\ svc' = [svc EXCEPT ![v].single = FALSE]
    /\ touched' = touched \cup {v}
    /\ UNCHANGED <<stosVars, pvc, eps, leftover, mfresh>>

EditEndpoints(v) ==
    /\ EnvStep
    /\ eps[v] # None
    /\ \/ "decl" \in Changes /\ eps' = [eps EXCEPT ![v].decl = "other"]
       \/ /\ "subsets" \in Changes
          /\ \E s \in {"more", "other"} : eps' = [eps EXCEPT ![v].shape = s]
    /\ UNCHANGED <<stosVars, pvc, svc, leftover, mfresh, touched>>

(* The garbage collector deletes a service whose owner is gone ...  *)
CollectService(v) ==
    /\ svc[v] # None
    /\ svc[v].owned
    /\ v \notin pvc
    /\ RemoveService(v)
    /\ UNCHANGED <<stosVars, pvc, eps, viewVars, vcache, mpc, localVars, mfresh,
                   env, faults, everIP, everTarget>>

(* ... and the endpoints controller, told of a deleted service, its        *)
(* Endpoints, unless the service is back.                                  *)
CollectEndpoints(v) ==
    /\ v \in leftover
    /\ leftover' = leftover \ {v}
    /\ eps' = IF svc[v] = None THEN [eps EXCEPT ![v] = None] ELSE eps
    /\ UNCHANGED <<stosVars, pvc, svc, viewVars, vcache, mpc, localVars, mfresh,
                   env, faults, histVars>>

(* An informer of a manager catches up. *)
PvcEvent(m, v) ==
    /\ v \in pvcView[m] \ pvc
    /\ pvcView' = [pvcView EXCEPT ![m] = @ \ {v}]
    /\ UNCHANGED <<stosVars, k8sVars, svcView, epsView, vcache, mpc, localVars,
                   mfresh, env, faults, histVars>>

SvcEvent(m, v) ==
    /\ svcView[m][v] # svc[v]
    /\ svcView' = [svcView EXCEPT ![m][v] = svc[v]]
    /\ UNCHANGED <<stosVars, k8sVars, pvcView, epsView, vcache, mpc, localVars,
                   mfresh, env, faults, histVars>>

EpsEvent(m, v) ==
    /\ epsView[m][v] # eps[v]
    /\ epsView' = [epsView EXCEPT ![m][v] = eps[v]]
    /\ UNCHANGED <<stosVars, k8sVars, pvcView, svcView, vcache, mpc, localVars,
                   mfresh, env, faults, histVars>>

Environment ==
    \/ \E v \in Volumes, i \in Internal \cup {None} : SetNFS(v, i)
    \/ \E v \in Volumes :
          \/ UpdateVolume(v) \/ DeletePVC(v) \/ DeleteService(v)
          \/ DeleteEndpoints(v) \/ EditService(v) \/ EditEndpoints(v)
          \/ CollectService(v) \/ CollectEndpoints(v)
    \/ \E m \in Managers, v \in Volumes :
          PvcEvent(m, v) \/ SvcEvent(m, v) \/ EpsEvent(m, v)

-----------------------------------------------------------------------------
(* The loop of a manager (Start).                                          *)

Fault == faults < MaxFaults /\ faults' = faults + 1
NoFault == UNCHANGED faults

(* ListSharedVolumes keeps the volumes with a valid NFS endpoint; when it  *)
(* fails the loop asks for a reset of the API client.                      *)
ListSharedVolumes(m) ==
    /\ mpc[m] = "idle"
    /\ \/ /\ NoFault
          /\ mtodo' = [mtodo EXCEPT ![m] =
                          [v \in Volumes |-> IF nfs[v] = None THEN None
                                             ELSE [int |-> nfs[v], ext |-> ext[v]]]]
          /\ mpc' = [mpc EXCEPT ![m] = "loop"]
       \/ /\ Fault
          /\ mpc' = [mpc EXCEPT ![m] = "resetting"]
          /\ UNCHANGED mtodo
    /\ UNCHANGED <<stosVars, k8sVars, viewVars, vcache, mvol, msv, msvc, meps,
                   mfresh, env, histVars>>

ApiReset(m) ==
    /\ mpc[m] = "resetting"
    /\ mpc' = [mpc EXCEPT ![m] = "loop"]
    /\ UNCHANGED <<stosVars, k8sVars, viewVars, vcache, localVars, mfresh, env,
                   faults, histVars>>

(* Mutant: a volume whose PVC is not found is not skipped. *)
M_NextVolume(m, v) ==
    /\ mpc[m] = "loop"
    /\ mtodo[m][v] # None
    /\ mtodo' = [mtodo EXCEPT ![m][v] = None]
    /\ IF vcache[m][v] = mtodo[m][v]
         THEN UNCHANGED <<mpc, mvol, msv>>
         ELSE /\ mpc' = [mpc EXCEPT ![m] = "getSvc"]
              /\ mvol' = [mvol EXCEPT ![m] = v]
              /\ msv' = [msv EXCEPT ![m] = mtodo[m][v]]
    /\ UNCHANGED <<stosVars, k8sVars, viewVars, vcache, msvc, meps, mfresh, env,
                   faults, histVars>>

(* The next volume: skipped when listed as it is cached (IsEqual), or when *)
(* its PVC is not found.  The order of the list is left open.              *)
NextVolume(m, v) ==
    /\ mpc[m] = "loop"
    /\ mtodo[m][v] # None
    /\ mtodo' = [mtodo EXCEPT ![m][v] = None]
    /\ IF vcache[m][v] = mtodo[m][v] \/ v \notin pvcView[m]
         THEN UNCHANGED <<mpc, mvol, msv>>
         ELSE /\ mpc' = [mpc EXCEPT ![m] = "getSvc"]
              /\ mvol' = [mvol EXCEPT ![m] = v]
              /\ msv' = [msv EXCEPT ![m] = mtodo[m][v]]
    /\ UNCHANGED <<stosVars, k8sVars, viewVars, vcache, msvc, meps, mfresh, env,
                   faults, histVars>>

LoopEnds(m) ==
    /\ mpc[m] = "loop"
    /\ \A v \in Volumes : mtodo[m][v] = None
    /\ mpc' = [mpc EXCEPT ![m] = "idle"]
    /\ UNCHANGED <<stosVars, k8sVars, viewVars, vcache, localVars, mfresh, env,
                   faults, histVars>>

(* Mutant: the service at hand is kept. *)
M_LeaveVolume(m) ==
    /\ mpc' = [mpc EXCEPT ![m] = "loop"]
    /\ mvol' = [mvol EXCEPT ![m] = None]
    /\ msv' = [msv EXCEPT ![m] = None]
    /\ meps' = [meps EXCEPT ![m] = None]
    /\ mfresh' = [mfresh EXCEPT ![m] = FALSE]
    /\ UNCHANGED msvc

(* The volume at hand is done with: continue. *)
LeaveVolume(m) ==
    /\ mpc' = [mpc EXCEPT ![m] = "loop"]
    /\ mvol' = [mvol EXCEPT ![m] = None]
    /\ msv' = [msv EXCEPT ![m] = None]
    /\ msvc' = [msvc EXCEPT ![m] = None]
    /\ meps' = [meps EXCEPT ![m] = None]
    /\ mfresh' = [mfresh EXCEPT ![m] = FALSE]

(* ensureService goes on with the service s, or with the endpoints e. *)
HaveService(m, s) ==
    /\ msvc' = [msvc EXCEPT ![m] = s]
    /\ mpc' = [mpc EXCEPT ![m] =
                  IF ServiceIsEqual(msv[m].int, s) THEN "getEps" ELSE "updSvc"]
    /\ UNCHANGED <<mvol, msv, meps, mfresh>>

HaveEndpoints(m, e) ==
    /\ meps' = [meps EXCEPT ![m] = e]
    /\ mpc' = [mpc EXCEPT ![m] =
                  IF EndpointsIsEqual(msv[m].int, e) THEN "publish" ELSE "updEps"]
    /\ UNCHANGED <<mvol, msv, msvc, mfresh>>

GetService(m) ==
    /\ mpc[m] = "getSvc"
    /\ IF svcView[m][mvol[m]] = None
         THEN /\ mpc' = [mpc EXCEPT ![m] = "createSvc"]
              /\ UNCHANGED <<mvol, msv, msvc, meps, mfresh>>
         ELSE HaveService(m, svcView[m][mvol[m]])
    /\ UNCHANGED <<stosVars, k8sVars, viewVars, vcache, mtodo, env, faults,
                   histVars>>

FreeIPs == {ip \in IPs : \A v \in Volumes : svc[v] = None \/ svc[v].ip # ip}

(* Mutant: a service that is there is replaced. *)
M_CreateService(m) ==
    /\ mpc[m] = "createSvc"
    /\ NoFault
    /\ LET v == mvol[m] IN
       \E ip \in FreeIPs :
          /\ svc' = [svc EXCEPT ![v] = Service(msv[m].int, ip)]
          /\ everIP' = [everIP EXCEPT ![v] = @ \cup {ip}]
    /\ mpc' = [mpc EXCEPT ![m] = "waitSvc"]
    /\ UNCHANGED <<stosVars, pvc, eps, leftover, viewVars, vcache, localVars, mfresh,
                   env, everTarget, touched>>

(* The API server creates the service with a cluster IP, unless it exists. *)
CreateService(m) ==
    /\ mpc[m] = "createSvc"
    /\ LET v == mvol[m] IN
       \/ /\ svc[v] = None
          /\ NoFault
          /\ \E ip \in FreeIPs :
                /\ svc' = [svc EXCEPT ![v] = Service(msv[m].int, ip)]
                /\ everIP' = [everIP EXCEPT ![v] = @ \cup {ip}]
          /\ mpc' = [mpc EXCEPT ![m] = "waitSvc"]
          /\ UNCHANGED <<mvol, msv, msvc, meps, mfresh>>
       \/ /\ ((svc[v] # None \/ FreeIPs = {}) /\ NoFault) \/ Fault
          /\ LeaveVolume(m)
          /\ UNCHANGED <<svc, everIP>>
    /\ UNCHANGED <<stosVars, pvc, eps, leftover, viewVars, vcache, mtodo, env,
                   everTarget, touched>>

(* Mutant: a service that does not appear in time is removed again. *)
M_WaitForClusterIP(m) ==
    /\ mpc[m] = "waitSvc"
    /\ IF svcView[m][mvol[m]] = None THEN RemoveService(mvol[m]) /\ LeaveVolume(m)
       ELSE HaveService(m, svcView[m][mvol[m]]) /\ UNCHANGED <<svc, leftover, touched>>
    /\ UNCHANGED <<stosVars, pvc, eps, viewVars, vcache, mtodo, env, faults, everIP,
                   everTarget>>

(* The new service is read back, or does not appear in time. *)
WaitForClusterIP(m) ==
    /\ mpc[m] = "waitSvc"
    /\ IF svcView[m][mvol[m]] = None THEN LeaveVolume(m)
       ELSE HaveService(m, svcView[m][mvol[m]])
    /\ UNCHANGED <<stosVars, k8sVars, viewVars, vcache, mtodo, env, faults,
                   histVars>>

UpdateService(m) ==
    /\ mpc[m] = "updSvc"
    /\ LET v == mvol[m]
           s == ServiceUpdate(msv[m].int, msvc[m]) IN
       \/ /\ svc[v] = msvc[m]
          /\ NoFault
          /\ svc' = [svc EXCEPT ![v] = s]
          /\ msvc' = [msvc EXCEPT ![m] = s]
          /\ mpc' = [mpc EXCEPT ![m] = "getEps"]
          /\ UNCHANGED <<mvol, msv, meps, mfresh>>
       \/ /\ (svc[v] # msvc[m] /\ NoFault) \/ Fault
          /\ LeaveVolume(m)
          /\ UNCHANGED svc
    /\ UNCHANGED <<stosVars, pvc, eps, leftover, viewVars, vcache, mtodo, env,
                   histVars>>

(* Mutant: the endpoints are left to somebody else. *)
M_GetEndpoints(m) ==
    /\ mpc[m] = "getEps"
    /\ mpc' = [mpc EXCEPT ![m] = "publish"]
    /\ UNCHANGED <<stosVars, k8sVars, viewVars, vcache, localVars, mfresh, env,
                   faults, histVars>>

GetEndpoints(m) ==
    /\ mpc[m] = "getEps"
    /\ IF epsView[m][mvol[m]] = None
         THEN /\ mpc' = [mpc EXCEPT ![m] = "createEps"]
              /\ UNCHANGED <<mvol, msv, msvc, meps, mfresh>>
         ELSE HaveEndpoints(m, epsView[m][mvol[m]])
    /\ UNCHANGED <<stosVars, k8sVars, viewVars, vcache, mtodo, env, faults,
                   histVars>>

CreateEndpoints(m) ==
    /\ mpc[m] = "createEps"
    /\ LET v == mvol[m] IN
       \/ /\ eps[v] = None
          /\ NoFault
          /\ eps' = [eps EXCEPT ![v] = Endpoints(msv[m].int)]
          /\ everTarget' = [everTarget EXCEPT ![v] = @ \cup {msv[m].int}]
          /\ mpc' = [mpc EXCEPT ![m] = "waitEps"]
          /\ UNCHANGED <<mvol, msv, msvc, meps, mfresh>>
       \/ /\ (eps[v] # None /\ NoFault) \/ Fault
          /\ LeaveVolume(m)
          /\ UNCHANGED <<eps, everTarget>>
    /\ UNCHANGED <<stosVars, pvc, svc, leftover, viewVars, vcache, mtodo, env,
                   everIP, touched>>

(* The endpoints are read back once: not finding them is no error either,  *)
(* and leaves an object without a name, which is not equal.                *)
WaitForAvailable(m) ==
    /\ mpc[m] = "waitEps"
    /\ IF epsView[m][mvol[m]] = None
         THEN /\ mpc' = [mpc EXCEPT ![m] = "updEps"]
              /\ UNCHANGED <<mvol, msv, msvc, meps, mfresh>>
         ELSE HaveEndpoints(m, epsView[m][mvol[m]])
    /\ UNCHANGED <<stosVars, k8sVars, viewVars, vcache, mtodo, env, faults,
                   histVars>>

UpdateEndpoints(m) ==
    /\ mpc[m] = "updEps"
    /\ LET v == mvol[m] IN
       \/ /\ meps[m] # None
          /\ eps[v] = meps[m]
          /\ NoFault
          /\ eps' = [eps EXCEPT ![v] = EndpointsUpdate(msv[m].int, meps[m])]
          /\ everTarget' = [everTarget EXCEPT ![v] = @ \cup {msv[m].int}]
          /\ mpc' = [mpc EXCEPT ![m] = "publish"]
          /\ UNCHANGED <<mvol, msv, msvc, meps, mfresh>>
       \/ /\ ((meps[m] = None \/ eps[v] # meps[m]) /\ NoFault) \/ Fault
          /\ LeaveVolume(m)
          /\ UNCHANGED <<eps, everTarget>>
    /\ UNCHANGED <<stosVars, pvc, svc, leftover, viewVars, vcache, mtodo, env,
                   everIP, touched>>

(* The volume is verified and published: it is cached with its endpoint.   *)
CacheVolume(m) ==
    /\ vcache' = [vcache EXCEPT ![m][mvol[m]] =
                     [int |-> msv[m].int, ext |-> Frontend(msvc[m])]]
    /\ LeaveVolume(m)

(* Nothing to publish, by the listed volume or (SetExternalEndpoint) by    *)
(* the volume as it is now; or else the version to be updated is noted.    *)
PublishEndpoint(m) ==
    /\ mpc[m] = "publish"
    /\ LET e == Frontend(msvc[m]) IN
       \/ /\ e \in {msv[m].ext, ext[mvol[m]]}
          /\ NoFault
          /\ CacheVolume(m)
       \/ /\ e \notin {msv[m].ext, ext[mvol[m]]}
          /\ NoFault
          /\ mpc' = [mpc EXCEPT ![m] = "setExt"]
          /\ mfresh' = [mfresh EXCEPT ![m] = TRUE]
          /\ UNCHANGED <<vcache, mvol, msv, msvc, meps>>
       \/ /\ e # msv[m].ext
          /\ Fault
          /\ LeaveVolume(m)
          /\ UNCHANGED vcache
    /\ UNCHANGED <<stosVars, k8sVars, viewVars, mtodo, env, histVars>>

(* The control plane refuses the update of an old version. *)
SetExternalEndpoint(m) ==
    /\ mpc[m] = "setExt"
    /\ LET v == mvol[m] IN
       \/ /\ mfresh[m]
          /\ NoFault
          /\ ext' = [ext EXCEPT ![v] = Frontend(msvc[m])]
          /\ vcache' = [vcache EXCEPT ![m][v] =
                           [int |-> msv[m].int, ext |-> Frontend(msvc[m])]]
          /\ mfresh' = [n \in Managers |-> mfresh[n] /\ mvol[n] # v]
          /\ mpc' = [mpc EXCEPT ![m] = "loop"]
          /\ mvol' = [mvol EXCEPT ![m] = None]
          /\ msv' = [msv EXCEPT ![m] = None]
          /\ msvc' = [msvc EXCEPT ![m] = None]
          /\ meps' = [meps EXCEPT ![m] = None]
       \/ /\ (~mfresh[m] /\ NoFault) \/ Fault
          /\ LeaveVolume(m)
          /\ UNCHANGED <<ext, vcache>>
    /\ UNCHANGED <<nfs, k8sVars, viewVars, mtodo, env, histVars>>

(* Mutant: cached volumes never expire. *)
M_CacheExpires(m, v) == FALSE

CacheExpires(m, v) ==
    /\ vcache[m][v] # None
    /\ vcache' = [vcache EXCEPT ![m][v] = None]
    /\ UNCHANGED <<stosVars, k8sVars, viewVars, mpc, localVars, mfresh, env,
                   faults, histVars>>

(* The process of a manager dies and is restarted. *)
Crash(m) ==
    /\ Fault
    /\ vcache' = [vcache EXCEPT ![m] = [v \in Volumes |-> None]]
    /\ mtodo' = [mtodo EXCEPT ![m] = [v \in Volumes |-> None]]
    /\ mpc' = [mpc EXCEPT ![m] = "idle"]
    /\ mvol' = [mvol EXCEPT ![m] = None]
    /\ msv' = [msv EXCEPT ![m] = None]
    /\ msvc' = [msvc EXCEPT ![m] = None]
    /\ meps' = [meps EXCEPT ![m] = None]
    /\ mfresh' = [mfresh EXCEPT ![m] = FALSE]
    /\ UNCHANGED <<stosVars, k8sVars, viewVars, env, histVars>>

ManagerStep(m) ==
    \/ ListSharedVolumes(m) \/ ApiReset(m) \/ LoopEnds(m)
    \/ \E v \in Volumes : NextVolume(m, v)
    \/ GetService(m) \/ CreateService(m) \/ WaitForClusterIP(m) \/ UpdateService(m)
    \/ GetEndpoints(m) \/ CreateEndpoints(m) \/ WaitForAvailable(m)
    \/ UpdateEndpoints(m) \/ PublishEndpoint(m) \/ SetExternalEndpoint(m)

Next ==
    \/ Environment
    \/ \E m \in Managers : ManagerStep(m) \/ Crash(m)
    \/ \E m \in Managers, v \in Volumes : CacheExpires(m, v)

(* The loop, the timers of the cache, the informers and the collectors of  *)
(* Kubernetes all get their turn.                                          *)
Fairness ==
    /\ \A m \in Managers : WF_vars(ManagerStep(m))
    /\ \A m \in Managers, v \in Volumes :
          /\ WF_vars(CacheExpires(m, v))
          /\ WF_vars(PvcEvent(m, v)) /\ WF_vars(SvcEvent(m, v))
          /\ WF_vars(EpsEvent(m, v))
    /\ \A v \in Volumes : WF_vars(CollectService(v)) /\ WF_vars(CollectEndpoints(v))

Spec == Init /\ [][Next]_vars
FairSpec == Spec /\ Fairness

-----------------------------------------------------------------------------
(* Properties.                                                             *)

(* A published endpoint is the cluster IP of a service of this very        *)
(* volume, and is published only after Endpoints of the volume existed     *)
(* (ensureService returns before SetExternalEndpoint is called), whatever  *)
(* the managers do at the same time and however old their informers are.   *)
PublishedIsServed ==
    \A v \in Volumes :
        ext[v] # None => ext[v][1] \in everIP[v] /\ everTarget[v] # {}

(* "During failover and update, the Service endpoint does not change": as  *)
(* long as nobody else deletes or edits the service, the endpoint once     *)
(* published stays, however many managers are at work.                     *)
EndpointStable ==
    [][\A v \in Volumes \ touched : ext[v] # None => ext'[v] = ext[v]]_vars

(* All managers together keep a directory of addresses, in which a volume  *)
(* has one IP and one address until others touch its service: no manager   *)
(* publishes what another did not allocate to this very volume, or before  *)
(* there were Endpoints.                                                   *)
Published == INSTANCE Directory WITH
    address <- ext,
    allocated <- everIP,
    ready <- {v \in Volumes : everTarget[v] # {}}

ImplementsDirectory == Published!Spec

(* The service, the endpoints and the label of a shared volume agree. *)
Settled(v) ==
    /\ svc[v] # None /\ eps[v] # None
    /\ svc[v].target = nfs[v][2]
    /\ eps[v].target = nfs[v]
    /\ ext[v] = Frontend(svc[v])

(* Once StorageOS and the users leave it alone, every shared volume with a *)
(* PVC gets and keeps a service to its current NFS server, published under *)
(* the service's current address, whichever manager did what before.       *)
Converges ==
    <>[](\A v \in Volumes : nfs[v] # None /\ v \in pvc => Settled(v))

(* Nothing that a manager still holds of the volume, from a list or from   *)
(* its informer, leads to another NFS server or to another address than    *)
(* the service has.  It may be old otherwise, or be missing.               *)
InStep(v) ==
    /\ nfs[v] # None /\ v \in pvc
    /\ svc[v] # None /\ svc[v].single
    /\ \A m \in Managers :
          /\ mtodo[m][v] # None => mtodo[m][v].int = nfs[v]
          /\ mvol[m] = v => msv[m].int = nfs[v]
          /\ svcView[m][v] # None => Frontend(svcView[m][v]) = Frontend(svc[v])
          /\ mvol[m] = v /\ msvc[m] # None => Frontend(msvc[m]) = Frontend(svc[v])

(* From then on no manager undoes what another one, or itself, has settled *)
(* as long as StorageOS and the users leave it alone: not by a create or   *)
(* an update based on an old read, nor by a failing call or a restart      *)
(* between the steps of ensureService and SetExternalEndpoint.             *)
SettledStays ==
    [][\A v \in Volumes :
          InStep(v) /\ Settled(v) /\ env' = env => (InStep(v) /\ Settled(v))']_vars

(* Once its PVC is deleted, the service of a volume is gone for good, also *)
(* when a manager with an old view of the PVC re-creates it: the PVC is    *)
(* the owner.                                                              *)
ServicesCollected == \A v \in Volumes : v \notin pvc ~> [](svc[v] = None)

(* The service of a deleted PVC is gone, and no manager is at work on the  *)
(* volume or still believes in the PVC.                                    *)
Gone(v) ==
    /\ v \notin pvc /\ svc[v] = None
    /\ \A m \in Managers : v \notin pvcView[m] /\ mvol[m] # v

(* From then on nobody brings the service back, however long StorageOS     *)
(* goes on listing the volume and whatever lists or caches the managers    *)
(* hold: a volume whose PVC is not found is passed over.                   *)
GoneStays == [][\A v \in Volumes : Gone(v) => Gone(v)']_vars

=============================================================================
