-------------------------------- MODULE Sweep --------------------------------
(***************************************************************************)
(* What a resumable password search promises: "interrupt and continue      *)
(* password recoveries without losing progress" (btcrecover/README.md).    *)
(* The passwords have a fixed order, and the progress that survives the    *)
(* process is a number of leading passwords.  It never goes back, it never *)
(* passes a password that would have opened the wallet, and the result of  *)
(* any sitting is the same as that of one undisturbed sitting.             *)
(*                                                                         *)
(* Engine implements this specification.                                   *)
(***************************************************************************)
EXTENDS Integers

CONSTANTS
    N,         \* the passwords are 1 .. N in the order they are generated
    Skip,      \* the --skip option: leading passwords the user gives up
    None, Exhausted  \* results: none yet, and no password opens the wallet

VARIABLES
    targets,   \* the passwords that open the wallet
    progress,  \* the leading passwords no sitting will look at again
    result     \* what the latest sitting has reported

vars == <<targets, progress, result>>

\* The passwords that remain after p of them are the ones above p.
Remaining(p) == {t \in targets : t > p}

Init ==
    /\ targets \in SUBSET (1 .. N)
    /\ progress = Skip
    /\ result = None

\* Progress is saved past passwords that have been found wrong.
Advance ==
    /\ progress' >= progress
    /\ \A t \in Remaining(progress) : t > progress'
    /\ UNCHANGED <<targets, result>>

\* The first password that opens the wallet is reported.
Report ==
    /\ result' \in Remaining(progress)
    /\ \A t \in Remaining(progress) : result' <= t
    /\ UNCHANGED <<targets, progress>>

\* A sitting ends with the answer that no password opens the wallet.
GiveUp ==
    /\ Remaining(progress) = {}
    /\ result' = Exhausted
    /\ UNCHANGED <<targets, progress>>

\* A new sitting begins, or one ends without an answer.
Forget ==
    /\ result' = None
    /\ UNCHANGED <<targets, progress>>

Next == Advance \/ Report \/ GiveUp \/ Forget

Spec == Init /\ [][Next]_vars
==============================================================================
