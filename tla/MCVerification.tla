--------------------------- MODULE MCVerification ---------------------------
(* Instances of Verification for TLC; the constants are small numbers. *)
EXTENDS Verification
=============================================================================
