---------------------------- MODULE MCFleetHosts ----------------------------
(***************************************************************************)
(* Instances of FleetHosts for TLC.                                        *)
(***************************************************************************)
EXTENDS FleetHosts, TLC

CONSTANTS h1, h2

TwoHosts == {h1, h2}
BothProviders == h1 :> "sesterce" @@ h2 :> "runpod"

Symmetry == Permutations(Commands)
=============================================================================
