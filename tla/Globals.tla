------------------------------- MODULE Globals -------------------------------
(***************************************************************************)
(* The module globals that the session threads of one server share without *)
(* a lock: live_utils._LAST_CALL_TIME, read and written by every lookup in *)
(* LIVE ANALYSIS mode, and recovery_utils._SOUNDEX_INDEX, filled word by   *)
(* word by the first typo search that finds it empty.                      *)
(*                                                                         *)
(* Times are ages in ticks, none kept beyond Gap: what the rate limit      *)
(* compares is only how long ago something happened.                       *)
(***************************************************************************)
EXTENDS Integers, FiniteSets

CONSTANTS
    Sessions,  \* the sessions, each a thread
    Gap,       \* the minimum wait between two requests, one second
    Words      \* the number of words of the list

ASSUME GlobalsAssumption ==
    IsFiniteSet(Sessions) /\ Gap \in Nat \ {0} /\ Words \in Nat \ {0}

VARIABLES
    _LAST_CALL_TIME,  \* its age, Gap for any greater one
    _SOUNDEX_INDEX,   \* word -> how many times it is in the list of its code
    th,               \* session -> its thread, see IdleThread
    requests,         \* history: age -> how many were sent that are at most that old
    filled            \* history: the sessions that have filled the index

gvars == <<_LAST_CALL_TIME, _SOUNDEX_INDEX, th, requests, filled>>

\* left is what remains of a sleep, age that of the time taken and not yet
\* stored, pos the word to be filled in next; seen are the words a search
\* found in the index it took up: one that somebody had filled, or only begun.
IdleThread == [pc |-> "idle", left |-> 0, age |-> 0, pos |-> 1, seen |-> {}, took |-> "whole"]

GlobalsStart ==
    [_LAST_CALL_TIME |-> Gap,
     _SOUNDEX_INDEX |-> [w \in 1..Words |-> 0],
     th |-> [s \in Sessions |-> IdleThread],
     requests |-> [a \in 0..(Gap - 1) |-> 0],
     filled |-> {}]

GlobalsInit ==
    /\ _LAST_CALL_TIME = GlobalsStart._LAST_CALL_TIME
    /\ _SOUNDEX_INDEX = GlobalsStart._SOUNDEX_INDEX
    /\ th = GlobalsStart.th
    /\ requests = GlobalsStart.requests
    /\ filled = GlobalsStart.filled

Becomes(s, t) == th' = [th EXCEPT ![s] = t]

-----------------------------------------------------------------------------
(* _rate_limit and the request after it *)

\* A lookup whose input was accepted reads the clock and the last time.  (A
\* newer time stored between the two reads only makes the sleep longer.)
EnterLimit(s) ==
    /\ th[s].pc = "idle"
    /\ Becomes(s, IF _LAST_CALL_TIME < Gap
                  THEN [IdleThread EXCEPT !.pc = "sleep", !.left = Gap - _LAST_CALL_TIME]
                  ELSE [IdleThread EXCEPT !.pc = "stamp"])
    /\ UNCHANGED <<_LAST_CALL_TIME, _SOUNDEX_INDEX, requests, filled>>

\* Mutant: the last time is tested again after the sleep.
Wake_Retests(s) ==
    /\ th[s].pc = "sleep" /\ th[s].left = 0
    /\ Becomes(s, IF _LAST_CALL_TIME < Gap
                  THEN [th[s] EXCEPT !.left = Gap - _LAST_CALL_TIME]
                  ELSE [th[s] EXCEPT !.pc = "stamp"])
    /\ UNCHANGED <<_LAST_CALL_TIME, _SOUNDEX_INDEX, requests, filled>>

\* time.sleep returns, not before its time.
Wake(s) ==
    /\ th[s].pc = "sleep" /\ th[s].left = 0
    /\ Becomes(s, [th[s] EXCEPT !.pc = "stamp"])
    /\ UNCHANGED <<_LAST_CALL_TIME, _SOUNDEX_INDEX, requests, filled>>

\* time.time() ...
TakeTime(s) ==
    /\ th[s].pc = "stamp"
    /\ Becomes(s, [th[s] EXCEPT !.pc = "store", !.age = 0])
    /\ UNCHANGED <<_LAST_CALL_TIME, _SOUNDEX_INDEX, requests, filled>>

\* Mutant: no global statement, the assignment is to a local.
StoreTime_Local(s) ==
    /\ th[s].pc = "store"
    /\ Becomes(s, [th[s] EXCEPT !.pc = "request"])
    /\ UNCHANGED <<_LAST_CALL_TIME, _SOUNDEX_INDEX, requests, filled>>

\* ... and the assignment.
StoreTime(s) ==
    /\ th[s].pc = "store"
    /\ _LAST_CALL_TIME' = th[s].age
    /\ Becomes(s, [th[s] EXCEPT !.pc = "request"])
    /\ UNCHANGED <<_SOUNDEX_INDEX, requests, filled>>

\* requests.get sends.  Whether it returns, raises or times out, and when, is
\* how long the session then stays idle.
Request(s) ==
    /\ th[s].pc = "request"
    /\ Becomes(s, IdleThread)
    /\ requests' = [a \in 0..(Gap - 1) |-> requests[a] + 1]
    /\ UNCHANGED <<_LAST_CALL_TIME, _SOUNDEX_INDEX, filled>>

-----------------------------------------------------------------------------
(* _get_soundex_index and the search that uses it *)

NoIndex == \A w \in 1..Words : _SOUNDEX_INDEX[w] = 0

CheckIndex(s) ==
    /\ th[s].pc = "idle"
    /\ Becomes(s, IF NoIndex THEN [IdleThread EXCEPT !.pc = "fill"]
                  ELSE [IdleThread EXCEPT !.pc = "search", !.took = IF filled = {} THEN "begun" ELSE "whole"])
    /\ UNCHANGED <<_LAST_CALL_TIME, _SOUNDEX_INDEX, requests, filled>>

\* Mutant: the first word starts a new index.
FillWord_Fresh(s) ==
    /\ th[s].pc = "fill"
    /\ _SOUNDEX_INDEX' = [w \in 1..Words |-> IF w = th[s].pos THEN 1
                                             ELSE IF th[s].pos = 1 THEN 0
                                             ELSE _SOUNDEX_INDEX[w]]
    /\ Becomes(s, IF th[s].pos = Words THEN [th[s] EXCEPT !.pc = "search"]
                  ELSE [th[s] EXCEPT !.pos = @ + 1])
    /\ filled' = IF th[s].pos = Words THEN filled \cup {s} ELSE filled
    /\ UNCHANGED <<_LAST_CALL_TIME, requests>>

\* setdefault(code, []).append(w) for the next word.
FillWord(s) ==
    /\ th[s].pc = "fill"
    /\ _SOUNDEX_INDEX' = [_SOUNDEX_INDEX EXCEPT ![th[s].pos] = @ + 1]
    /\ Becomes(s, IF th[s].pos = Words THEN [th[s] EXCEPT !.pc = "search"]
                  ELSE [th[s] EXCEPT !.pos = @ + 1])
    /\ filled' = IF th[s].pos = Words THEN filled \cup {s} ELSE filled
    /\ UNCHANGED <<_LAST_CALL_TIME, requests>>

\* The words of a code, repetitions dropped by seen.setdefault.
Candidates == {w \in 1..Words : _SOUNDEX_INDEX[w] > 0}

\* suggest_typo_corrections and recover_with_typos look words up.
Search(s) ==
    /\ th[s].pc = "search"
    /\ Becomes(s, [th[s] EXCEPT !.pc = "shown", !.seen = Candidates])
    /\ UNCHANGED <<_LAST_CALL_TIME, _SOUNDEX_INDEX, requests, filled>>

Leave(s) ==
    /\ th[s].pc = "shown"
    /\ Becomes(s, IdleThread)
    /\ UNCHANGED <<_LAST_CALL_TIME, _SOUNDEX_INDEX, requests, filled>>

-----------------------------------------------------------------------------

Older(a) == IF a < Gap THEN a + 1 ELSE a

Tick ==
    /\ _LAST_CALL_TIME' = Older(_LAST_CALL_TIME)
    /\ th' = [s \in Sessions |->
                [th[s] EXCEPT !.left = IF @ = 0 THEN 0 ELSE @ - 1,
                              !.age = IF th[s].pc = "store" THEN Older(@) ELSE 0]]
    /\ requests' = [a \in 0..(Gap - 1) |-> IF a = 0 THEN 0 ELSE requests[a - 1]]
    /\ UNCHANGED <<_SOUNDEX_INDEX, filled>>

Thread(s) ==
    \/ Wake(s) \/ TakeTime(s) \/ StoreTime(s) \/ Request(s)
    \/ FillWord(s) \/ Search(s) \/ Leave(s)

GlobalsNext ==
    \/ \E s \in Sessions : EnterLimit(s) \/ CheckIndex(s) \/ Thread(s)
    \/ Tick

Threads ==
    [pc : {"idle", "sleep", "stamp", "store", "request", "fill", "search", "shown"},
     left : Int, age : Nat, pos : 1..Words, seen : SUBSET (1..Words),
     took : {"whole", "begun"}]

\* No search finds the index empty after it has filled it once, so no word
\* is in it more often than there are sessions.
GlobalsTypeOK ==
    /\ _LAST_CALL_TIME \in 0..Gap
    /\ _SOUNDEX_INDEX \in [1..Words -> 0..Cardinality(Sessions)]
    /\ th \in [Sessions -> Threads]
    /\ \A s \in Sessions : {th[s].left, th[s].age} \subseteq 0..Gap
    /\ requests \in [0..(Gap - 1) -> Nat]
    /\ filled \subseteq Sessions

\* What _rate_limit comes to when sessions race through it: n sessions send at
\* most n (n + 3) / 2 requests within one Gap, that is two from one session and
\* five from two.  A thread held up between time.time() and the assignment puts
\* an old time back, and each session can do that once for each of the others;
\* one held up after the assignment adds a request whose time is from before
\* the Gap.  (The docstring promises a "minimum 1s wait": one request.)
BurstBounded ==
    LET n == Cardinality(Sessions)
    IN  2 * requests[Gap - 1] <= n * (n + 3)

\* A typo search considers every word of the list, also when two threads have
\* filled the index at once and every word is in it twice; only one that
\* found the index begun and never finished by anyone may miss words.
SearchComplete ==
    \A s \in Sessions :
        th[s].pc = "shown" /\ th[s].took = "whole" => th[s].seen = 1..Words
=============================================================================
