----------------------------- MODULE MCCaseFile -----------------------------
(* An instance of CaseFile for TLC. *)
EXTENDS CaseFile
=============================================================================
