----------------------------- MODULE Directory ------------------------------
(***************************************************************************)
(* What the shared volume controller promises to the clients of volumes,   *)
(* however many managers keep it: a directory of mount addresses.  The     *)
(* address of a volume is one that was allocated to this volume, it is     *)
(* listed only after there was something to mount, and it stays for as     *)
(* long as nobody else touches the service behind it.                      *)
(***************************************************************************)

CONSTANTS
    None,        \* no address
    Volumes,
    IPs,
    Decl         \* the ports of an address

VARIABLES
    address,     \* the listed address of each volume
    allocated,   \* the IPs that were allocated to it
    ready,       \* volumes that there was a server for
    touched      \* volumes whose service others deleted or edited

vars == <<address, allocated, ready, touched>>

Init ==
    /\ address = [v \in Volumes |-> None]
    /\ allocated = [v \in Volumes |-> {}]
    /\ ready = {}
    /\ touched = {}

(* A volume is allocated a second IP only when its service was touched. *)
Allocate(v, ip) ==
    /\ v \in touched \/ allocated[v] = {}
    /\ allocated' = [allocated EXCEPT ![v] = @ \cup {ip}]
    /\ UNCHANGED <<address, ready, touched>>

Ready(v) ==
    /\ ready' = ready \cup {v}
    /\ UNCHANGED <<address, allocated, touched>>

List(v, ip, d) ==
    /\ ip \in allocated[v]
    /\ v \in ready
    /\ v \in touched \/ address[v] = None
    /\ address' = [address EXCEPT ![v] = <<ip, d>>]
    /\ UNCHANGED <<allocated, ready, touched>>

Touch(v) ==
    /\ touched' = touched \cup {v}
    /\ UNCHANGED <<address, allocated, ready>>

Next ==
    \E v \in Volumes :
        \/ Ready(v) \/ Touch(v)
        \/ \E ip \in IPs : Allocate(v, ip)
        \/ \E ip \in IPs, d \in Decl : List(v, ip, d)

Spec == Init /\ [][Next]_vars

=============================================================================
