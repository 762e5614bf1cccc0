----------------------------- MODULE Acquisition -----------------------------
(***************************************************************************)
(* What paid launching promises, without the ledger's tables, the provider *)
(* or the processes: a request is tried, an attempt may end with an        *)
(* unknown outcome, nothing is tried again while an outcome is open, and a *)
(* request that has acquired a resource keeps exactly that resource and is *)
(* never tried again.                                                      *)
(***************************************************************************)
CONSTANTS
    Requests,   \* provisioning requests
    Pods,       \* provider resources
    NoPod       \* no resource

VARIABLES
    state,      \* request -> where the request stands
    resource    \* request -> the resource it acquired, or NoPod

vars == <<state, resource>>

Init ==
    /\ state = [r \in Requests |-> "absent"]
    /\ resource = [r \in Requests |-> NoPod]

(* A request is tried for the first time, or after a settled failure. *)
Try(r) ==
    /\ state[r] \in {"absent", "failed"}
    /\ state' = [state EXCEPT ![r] = "pending"]
    /\ UNCHANGED resource

(* The outcome of the attempt is not known. *)
LoseSight(r) ==
    /\ state[r] = "pending"
    /\ state' = [state EXCEPT ![r] = "uncertain"]
    /\ UNCHANGED resource

(* The attempt is known to have acquired nothing. *)
Fail(r) ==
    /\ state[r] \in {"pending", "uncertain"}
    /\ state' = [state EXCEPT ![r] = "failed"]
    /\ UNCHANGED resource

(* The attempt is known to have acquired a resource. *)
Acquire(r, p) ==
    /\ state[r] \in {"pending", "uncertain"}
    /\ resource[r] = NoPod
    /\ state' = [state EXCEPT ![r] = "succeeded"]
    /\ resource' = [resource EXCEPT ![r] = p]

Next ==
    \E r \in Requests :
        \/ Try(r)
        \/ LoseSight(r)
        \/ Fail(r)
        \/ \E p \in Pods : Acquire(r, p)

Spec == Init /\ [][Next]_vars
=============================================================================
