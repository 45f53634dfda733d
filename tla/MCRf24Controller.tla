--------------------------- MODULE MCRf24Controller ---------------------------
(***************************************************************************)
(* Two writes, two packets received, any of them invalid or forwarded, and *)
(* reboots after two empty reads instead of eleven, at any time, also      *)
(* while main is starting.                                                 *)
(***************************************************************************)
EXTENDS Rf24Controller
===============================================================================
