------------------------- MODULE MCProvisioningRace -------------------------
(***************************************************************************)
(* Provisioning with two reconcile commands at a time, for TLC.            *)
(***************************************************************************)
EXTENDS Provisioning, TLC

CONSTANT r1

OneRequest == {r1}
OnePlan == r1 :> {[connector |-> "runpod", name |-> "alpha"]}
=============================================================================
