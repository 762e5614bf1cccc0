--------------------------- MODULE MCProvisioning ---------------------------
(***************************************************************************)
(* Instances of Provisioning for TLC.                                      *)
(***************************************************************************)
EXTENDS ProvisioningOneReconciler, TLC

CONSTANTS r1, r2

TwoRequests == {r1, r2}

Plan(connector, name) == [connector |-> connector, name |-> name]

(* A RunPod launch of "alpha" beside another of the same name ("launch run *)
(* --name alpha" repeated), one of another name, or a Sesterce launch. *)
PlansBeside ==
    r1 :> {Plan("runpod", "alpha")} @@
    r2 :> {Plan("runpod", "alpha"), Plan("runpod", "beta"), Plan("sesterce", "alpha")}

AllRunpod == r1 :> {Plan("runpod", "alpha")} @@ r2 :> {Plan("runpod", "beta")}
=============================================================================
