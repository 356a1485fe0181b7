---------------------------- MODULE MCDeployment ----------------------------
(***************************************************************************)
(* Deployment with one module of each kind.                                *)
(***************************************************************************)
EXTENDS Deployment
=============================================================================
