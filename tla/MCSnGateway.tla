----------------------------- MODULE MCSnGateway -----------------------------
(* The instance of SnGateway for TLC is given by the configuration. *)
EXTENDS SnGateway
=============================================================================
