------------------------------- MODULE Search -------------------------------
(***************************************************************************)
(* What every search engine of the lab promises its caller.  It is given a *)
(* collection of candidates, examines each of them at most once and in any *)
(* order, and reports those that pass its test.  A run that ends without   *)
(* the flag "truncated" has examined everything; a truncated one ended     *)
(* because it had results.  The caller's progress callback may also end a  *)
(* run (a Streamlit rerun or stop unwinds through it), and so may an error *)
(* that its caller does not catch.                                         *)
(*                                                                         *)
(* PoolSearch and SeedSearch implement this specification.                 *)
(***************************************************************************)
EXTENDS Naturals, FiniteSets

CONSTANTS
    Inputs,   \* the collections: functions from places to candidates
    Good      \* the candidates that pass the engine's test

VARIABLES
    input,    \* the collection being searched
    todo,     \* the places not examined yet
    found,    \* the good candidates seen so far
    outcome   \* how the run stands

vars == <<input, todo, found, outcome>>

Outcomes == {"running", "exhausted", "stopped", "aborted", "refused"}

\* The good candidates at the places S of the collection f.
GoodAt(f, S) == {f[p] : p \in S} \cap Good

Init ==
    /\ input \in Inputs
    /\ todo = DOMAIN input
    /\ found = {}
    /\ outcome = "running"

\* An engine raises before it has examined anything.
Refuse ==
    /\ outcome = "running"
    /\ todo = DOMAIN input
    /\ found = {}
    /\ outcome' = "refused"
    /\ UNCHANGED <<input, todo, found>>

\* A batch of candidates is examined and all its hits are kept.
Examine ==
    /\ outcome = "running"
    /\ \E S \in SUBSET todo :
          /\ todo' = todo \ S
          /\ found' = found \cup GoodAt(input, S)
    /\ UNCHANGED <<input, outcome>>

\* The run ends with the results it has; of a last batch it may keep
\* only some of the hits.
Stop ==
    /\ outcome = "running"
    /\ \E S \in SUBSET todo :
          \E H \in SUBSET GoodAt(input, S) :
             /\ todo' = todo \ S
             /\ found' = found \cup H
    /\ found' # {}
    /\ outcome' = "stopped"
    /\ UNCHANGED input

Exhaust ==
    /\ outcome = "running"
    /\ todo = {}
    /\ outcome' = "exhausted"
    /\ UNCHANGED <<input, todo, found>>

\* The callback raises, or a batch does: a last batch may have been examined,
\* and the results are lost to the caller.
Abort ==
    /\ outcome = "running"
    /\ \E S \in SUBSET todo :
          \E H \in SUBSET GoodAt(input, S) :
             /\ todo' = todo \ S
             /\ found' = found \cup H
    /\ outcome' = "aborted"
    /\ UNCHANGED input

Next == Refuse \/ Examine \/ Stop \/ Exhaust \/ Abort

Spec == Init /\ [][Next]_vars

-----------------------------------------------------------------------------

TypeOK ==
    /\ input \in Inputs
    /\ todo \subseteq DOMAIN input
    /\ found \subseteq GoodAt(input, DOMAIN input)
    /\ outcome \in Outcomes

\* Everything good among the places examined by an unfinished or exhausted
\* run has been found.
NothingSkipped ==
    outcome \in {"running", "exhausted"} =>
        found = GoodAt(input, DOMAIN input \ todo)

\* The promise to the caller: the result of a run that was not truncated is
\* exactly the good candidates of the collection, and a truncated run has
\* results.
Promise ==
    /\ outcome = "exhausted" => found = GoodAt(input, DOMAIN input)
    /\ outcome = "stopped" => found # {}

IInv == TypeOK /\ NothingSkipped /\ Promise
         /\ (outcome = "exhausted" => todo = {})

\* Results are never taken back, places never re-examined, and a run that
\* has ended stays as it is.
Progressive ==
    [][ /\ found \subseteq found' /\ todo' \subseteq todo
        /\ outcome = "running" ]_vars
=============================================================================
