--------------------------- MODULE MCVolumeLabels ---------------------------
(* Instances of VolumeLabels for TLC. *)
EXTENDS VolumeLabels

CONSTANT b0      \* the unreserved labels at the start

(* A PVC starts with the labels b0, as good as any; fixed labels, which    *)
(* only ever make for one error more, with one class and its annotation.   *)
LiveInit ==
    /\ Init
    /\ labels.blob = b0
    /\ labels.fixed => annotation = 1 /\ classes = <<"unset">>

LiveSpec == LiveInit /\ [][Next]_vars /\ Fairness
=============================================================================
