-------------------------- MODULE MCFeishuProcesses --------------------------
(***************************************************************************)
(* FeishuProcesses for TLC.  Two names are enough for a child and the      *)
(* child of a parent that died, a third for one more of these.             *)
(***************************************************************************)
EXTENDS FeishuProcesses

=============================================================================
