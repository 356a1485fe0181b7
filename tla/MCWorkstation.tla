---------------------------- MODULE MCWorkstation ----------------------------
(* An instance of Workstation for TLC: two tabs, four kinds of licence.  Keys *)
(* are pasted in the first tab only, and the build is modified only while     *)
(* both tabs show the lab.                                                    *)
EXTENDS Workstation

CONSTANTS s1, s2, i1, i2, p1, p2

Unbound == [genuine |-> TRUE, expires |-> 2, fp |-> AnyMachine]
Bound == [genuine |-> TRUE, expires |-> 1, fp |-> i1]
Unsigned == [genuine |-> FALSE, expires |-> 2, fp |-> AnyMachine]
NoMachine == [genuine |-> TRUE, expires |-> 2, fp |-> None]

Keys == {Unbound, Bound, Unsigned, NoMachine}

MCInit == Init /\ intact /\ totp_file # p2

MCNext ==
    /\ Next
    /\ ses'[s2].click \notin Keys
    /\ intact # intact' => \A s \in Sessions : ses[s].screen = "lab"

MCSpec == MCInit /\ [][MCNext]_vars /\ Fairness
=============================================================================
