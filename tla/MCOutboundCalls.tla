--------------------------- MODULE MCOutboundCalls ---------------------------
(* OutboundCalls for TLC. *)
EXTENDS OutboundCalls
=============================================================================
