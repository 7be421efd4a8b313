------------------------------ MODULE KeyStore ------------------------------
(***************************************************************************)
(* What the admission of PVCs promises about encryption keys, without the  *)
(* steps and caches it takes: a store in which every secret is written     *)
(* once, every volume key is wrapped with the key of the namespace, and a  *)
(* claim that gets a key is bound for good to a secret that is there.      *)
(* Users may take a secret away, and what they took is lost.               *)
(***************************************************************************)

CONSTANTS
    None,        \* nothing there
    Claims,
    NsName,      \* name of the secret with the namespace key
    VolNames,    \* names of volume key secrets
    Key(_),      \* the key in a secret
    WrappedWith(_)  \* the key that one is wrapped with, or None

VARIABLES
    store,       \* the secrets by name
    lost,        \* the secrets that users took away
    bound        \* the volume key secret of each admitted claim

vars == <<store, lost, bound>>

Names == {NsName} \cup VolNames

Init ==
    /\ store = [n \in Names |-> None]
    /\ lost = {}
    /\ bound = [c \in Claims |-> None]

NsKey == IF store[NsName] = None THEN None ELSE Key(store[NsName])

(* A secret is written where there is none.  One that is wrapped is        *)
(* wrapped with the key of the namespace.                                  *)
Put(n) ==
    /\ store[n] = None
    /\ store'[n] # None
    /\ WrappedWith(store'[n]) \in {None, NsKey} \/ NsName \in lost
    /\ store' = [store EXCEPT ![n] = store'[n]]
    /\ UNCHANGED <<lost, bound>>

Lose(n) ==
    /\ store[n] # None
    /\ store' = [store EXCEPT ![n] = None]
    /\ lost' = lost \cup {n}
    /\ UNCHANGED bound

Bind(c, n) ==
    /\ bound[c] = None
    /\ store[n] # None \/ n \in lost
    /\ bound' = [bound EXCEPT ![c] = n]
    /\ UNCHANGED <<store, lost>>

Next ==
    \/ \E n \in Names : Put(n) \/ Lose(n)
    \/ \E c \in Claims, n \in VolNames : Bind(c, n)

Spec == Init /\ [][Next]_vars

=============================================================================
