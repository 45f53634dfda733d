--------------------------- MODULE MCRfPacketSocket ---------------------------
(* The instance of RfPacketSocket for TLC is given by the configuration. *)
EXTENDS RfPacketSocket
=============================================================================
