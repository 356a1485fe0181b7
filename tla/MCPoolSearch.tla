---------------------------- MODULE MCPoolSearch ----------------------------
(* An instance of PoolSearch for TLC. *)
EXTENDS PoolSearch

CONSTANTS w1, w2

Processes == {w1, w2}
=============================================================================
