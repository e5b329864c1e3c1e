---------------------------- MODULE MCTransports ----------------------------
(***************************************************************************)
(* An instance of Transports for TLC.                                      *)
(***************************************************************************)
EXTENDS Transports
=============================================================================
