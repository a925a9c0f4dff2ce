------------------------ MODULE MCCapabilityLedger ------------------------
(***************************************************************************)
(* CapabilityLedger for TLC.  Turns are interchangeable.                   *)
(***************************************************************************)
EXTENDS CapabilityLedger, TLC

Symmetry == Permutations(Turns)

=============================================================================
