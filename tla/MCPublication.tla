---------------------------- MODULE MCPublication ----------------------------
(***************************************************************************)
(* Instances of WorkloadPublication for TLC, in two environments.  In one  *)
(* every publisher is punctual: it ends before its lease does, and reads   *)
(* what is stored.  In the other it may outlast its lease, and a read of   *)
(* the latest manifest may fail.                                           *)
(***************************************************************************)
EXTENDS WorkloadPublication, TLC

VARIABLE punctual

Late == INSTANCE WorkloadPublication WITH Outlasting <- TRUE, Unreadable <- TRUE

EitherInit == Init /\ punctual \in BOOLEAN

EitherNext ==
    /\ \/ punctual /\ Next
       \/ ~punctual /\ Late!Next
    /\ UNCHANGED punctual

EitherSpec == EitherInit /\ [][EitherNext]_<<vars, punctual>>

(* HistoryIsRetained, of punctual publishers: their transactions are in    *)
(* sequence, so what one of them has checked is what it replaces. *)
PunctualHistoryIsRetained ==
    [][punctual /\ latest # Nothing => latest' # Nothing /\ Retains(latest, latest')]_vars

Symmetry == Permutations(Publishers) \cup Permutations(Values)
=============================================================================
