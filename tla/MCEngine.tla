------------------------------ MODULE MCEngine ------------------------------
(* An instance of Engine for TLC. *)
EXTENDS Engine

\* No password opens the wallet, a late one does, two in different chunks
\* or in one do, and only one the user skips does.
SomeWallets == {{}, {6}, {3, 4}, {1}}
=============================================================================
