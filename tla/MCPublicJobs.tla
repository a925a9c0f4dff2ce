----------------------------- MODULE MCPublicJobs -----------------------------
(***************************************************************************)
(* PublicJobs for TLC: the requests and the bounds are in the              *)
(* configuration.  No symmetry: JobEnds is a liveness property.            *)
(***************************************************************************)
EXTENDS PublicJobs

=============================================================================
