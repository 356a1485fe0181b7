------------------------------- MODULE MCHost -------------------------------
(* An instance of Host for TLC; the constants are small numbers. *)
EXTENDS Host
=============================================================================
