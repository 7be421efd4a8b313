------------------------------ MODULE MCFencer ------------------------------
(***************************************************************************)
(* Instances of Fencer for TLC.  Claim c1 was provisioned dynamically, c2  *)
(* statically (no annotation, the PV names the driver), c3 belongs to      *)
(* another driver.                                                         *)
(***************************************************************************)
EXTENDS Fencer, TLC

CONSTANTS p1, p2, c1, c2, c3, v1, v2

(* One pod with every claim; two pods sharing c1. *)
MCClaimsOfOne == p1 :> {c1, c2, c3}
MCClaimsOfShared == p1 :> {c1} @@ p2 :> {c1}

MCVolumeOf == [c \in Claims |-> IF c = c1 THEN v1 ELSE IF c = c2 THEN v2 ELSE None]
MCAnnotation ==
    [c \in Claims |-> IF c = c1 THEN "storageos" ELSE IF c = c2 THEN "none" ELSE "other"]
MCPVDriver == [c \in Claims |-> IF c = c3 THEN "other" ELSE "storageos"]

(* The pods are there and labelled at first; others are created later, and *)
(* in the place of those that are deleted.                                 *)
LabelledInit == Init /\ \A p \in Pods : pods[p] # None /\ pods[p].fenced

LabelledSpec == LabelledInit /\ [][Next]_vars
LabelledFairSpec == LabelledSpec /\ Fairness

(* Nodes, pods and actions are interchangeable where each pod mounts c1. *)
Symm == Permutations(Nodes) \cup Permutations(Pods) \cup Permutations(Actions)
=============================================================================
