---------------------------- MODULE MCKeyManager ----------------------------
(* Instances of KeyManager for TLC. *)
EXTENDS KeyManager

CONSTANTS c1, c2

(* One claim is any that differs for the mutators; the other, with which   *)
(* it competes, is to be encrypted, and may name the same secret.  Of the  *)
(* classes, those that neither asks for are not there.                     *)
RivalAsks ==
    /\ asks[c1].encryption # "on" => asks[c1].ref = None
    /\ asks[c1].cross => asks[c1].encryption = "on" /\ asks[c1].ref = None
    /\ asks[c2].class = "stos" /\ asks[c2].encryption = "on" /\ ~asks[c2].cross
    /\ classes \subseteq {asks[c1].class, asks[c2].class}

RivalInit == Init /\ RivalAsks

RivalFairSpec == RivalInit /\ [][Next]_vars /\ Fairness
=============================================================================
