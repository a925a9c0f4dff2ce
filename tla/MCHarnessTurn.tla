---------------------------- MODULE MCHarnessTurn ----------------------------
(***************************************************************************)
(* HarnessTurn for TLC.  Turns, workers and cancellers are model values;   *)
(* both runs check liveness, so there is no symmetry.                      *)
(***************************************************************************)
EXTENDS HarnessTurn

=============================================================================
