--------------------------- MODULE MCSharedVolume ---------------------------
(* Instances of SharedVolume for TLC. *)
EXTENDS SharedVolume, TLC

(* The two NFS servers differ in address and port. *)
MCInternal == {<<"a", 1>>, <<"b", 2>>}
MCInternal1 == {<<"a", 1>>}

Symm == Permutations(Volumes) \cup Permutations(Managers) \cup Permutations(IPs)
=============================================================================
