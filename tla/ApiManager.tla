---------------------------- MODULE ApiManager -----------------------------
(***************************************************************************)
(* The api-manager process as a whole: the life of the process and its API *)
(* client, with the Pod webhook that its manager serves.                   *)
(***************************************************************************)
EXTENDS ApiClient, PodMutator

(* mgr.Start serves the webhooks, on a standby too; the API server takes a *)
(* request that nobody answers for an error.                               *)
Serving == stage = "running"

(* While the process serves, whatever its API client and its lease are     *)
(* doing, a pod gets the StorageOS scheduler exactly if one of its volumes *)
(* is backed by StorageOS and it has not opted out; what that needs of     *)
(* the cluster and of the cache is in SchedulerRight.                      *)
PodsScheduled == Serving => SchedulerRight

=============================================================================
