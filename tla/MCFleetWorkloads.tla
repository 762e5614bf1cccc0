-------------------------- MODULE MCFleetWorkloads --------------------------
(***************************************************************************)
(* Instances of FleetWorkloads for TLC.                                    *)
(***************************************************************************)
EXTENDS FleetWorkloads, TLC

CONSTANTS h1, w1, w2, monitor

OneHost == {h1}
OneWork == {w1}
TwoWorks == {w1, w2}
OnSesterce == h1 :> "sesterce"
OnFirst == w1 :> h1
BothOnFirst == w1 :> h1 @@ w2 :> h1
Monitored == h1 :> monitor
=============================================================================
