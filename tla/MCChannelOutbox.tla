--------------------------- MODULE MCChannelOutbox ---------------------------
(***************************************************************************)
(* ChannelOutbox for TLC.  Rows are model values; the bounds are in the    *)
(* configurations.                                                         *)
(***************************************************************************)
EXTENDS ChannelOutbox

=============================================================================
