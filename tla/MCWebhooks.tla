----------------------------- MODULE MCWebhooks ------------------------------
(***************************************************************************)
(* Webhooks for TLC.  Two threads are enough for a delivery that is        *)
(* claimed again after its lease: the daemon hands it over, and then who   *)
(* has staged it.                                                          *)
(***************************************************************************)
EXTENDS Webhooks

=============================================================================
