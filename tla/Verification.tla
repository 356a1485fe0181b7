---------------------------- MODULE Verification ----------------------------
(***************************************************************************)
(* The pages that hand candidates to the BTCRecover engine, and the runner *)
(* btcrecover_utils._run behind them: a child process, the pipe it prints  *)
(* to, the temp files it is given, and the verdict the page draws.         *)
(*                                                                         *)
(*   hybrid : phase 1 left `total` checksum-valid seeds.  Up to BatchLimit *)
(*            are verified one child each, more in one child that reads a  *)
(*            list from a temp file.                                       *)
(*   wallet : one child is given wallet.dat and a password list, both as   *)
(*            temp files.                                                  *)
(*                                                                         *)
(* The typo page is a hybrid run with one candidate.  Drawing on the page  *)
(* is where Streamlit stops a script whose user clicked elsewhere: the     *)
(* exception it raises is no Exception, so only `finally` sees it.  An     *)
(* ordinary exception out of the reading loop ends the call of _run and is *)
(* its error.                                                              *)
(***************************************************************************)
EXTENDS Naturals, Sequences, FiniteSets

CONSTANTS
    MaxSeeds,    \* bound on the candidates phase 1 leaves
    BatchLimit,  \* 100 in the code
    Timeout,     \* the `timeout` of _run, in ticks
    MaxAge,      \* bound on a child's age, in ticks
    MaxOrphans   \* bound on children nobody waits for

ASSUME BoundsAssumption ==
    /\ {MaxSeeds, BatchLimit, Timeout, MaxAge, MaxOrphans} \subseteq Nat
    /\ MaxSeeds > BatchLimit /\ BatchLimit > 0
    /\ MaxAge > Timeout /\ Timeout > 0 /\ MaxOrphans > 0

VARIABLES
    available,  \* whether the engine's files are in place
    page,       \* the handler: see Idle
    local,      \* found and result_str of the call of _run under way
    child,      \* the engine's process: see NoChild
    pipe,       \* the lines printed and not yet read
    files,      \* the complete temp files of this run that are on disk
    orphans,    \* children that run on with nobody waiting for them
    right,      \* the candidate that matches the target, 0 if none
    checked     \* candidates an engine that ended its work has examined

vars == <<available, page, local, child, pipe, files, orphans, right, checked>>

\* A line says that a match was found, or its value; 0 is no value.
Line(kind, seed) == [kind |-> kind, seed |-> seed]

Nothing == [found |-> FALSE, result |-> 0, error |-> FALSE]

\* known is what the handler's path variables hold, hw its hw_result; refused
\* are the files whose unlink failed, left whether it left an engine running.
Idle == [pc |-> "idle", kind |-> "hybrid", total |-> 1, batch |-> FALSE, idx |-> 1,
         known |-> {}, hw |-> Nothing, shown |-> "blank", since |-> 0,
         refused |-> {}, left |-> FALSE]

\* says is what the child has yet to print; idle children have age 0.
NoChild == [st |-> "none", says |-> <<>>, age |-> 0, died |-> FALSE]

Alive(c) == c.st \in {"running", "closing"}

Init ==
    /\ available \in BOOLEAN
    /\ page = Idle /\ local = Nothing /\ child = NoChild /\ pipe = <<>>
    /\ files = {} /\ orphans = 0
    /\ right = 0 /\ checked = {}

\* The candidates the child of this call is given.
Handed == IF page.batch THEN 1..page.total ELSE {page.idx}

-----------------------------------------------------------------------------
(* The handler of the RUN buttons, up to the call. *)

Begin(p, candidates) ==
    /\ page.pc = "idle" /\ available /\ orphans < MaxOrphans
    /\ page' = p
    /\ right' \in 0..candidates
    /\ checked' = {} /\ local' = Nothing /\ child' = NoChild /\ pipe' = <<>>
    /\ files' = {}
    /\ UNCHANGED <<available, orphans>>

RunWallet == Begin([Idle EXCEPT !.kind = "wallet", !.batch = TRUE, !.pc = "write"], 1)

RunHybrid == Begin([Idle EXCEPT !.pc = "sweep"], MaxSeeds)

\* Phase 1 (module SeedSearch) ends, after which the way of phase 2 is chosen.
SweepEnds ==
    /\ page.pc = "sweep"
    /\ \E total \in 0..MaxSeeds :
          /\ right <= total
          /\ page' = CASE total = 0 ->
                           [page EXCEPT !.pc = "finally", !.shown = "no candidates"]
                      [] total > BatchLimit /\ available ->
                           [page EXCEPT !.pc = "write", !.total = total, !.batch = TRUE]
                      [] OTHER -> [page EXCEPT !.pc = "call", !.total = total]
    /\ UNCHANGED <<available, local, child, pipe, files, orphans, right, checked>>

\* The places write_ram_temp_file tries, the last one by write_temp_file.
Places == <<"/dev/shm", "/run/shm", "/tmp", "temp dir">>

\* The list of seeds goes to the first place where writing works.  (A place
\* that fails keeps an incomplete file whose path nobody has.)  If all fail,
\* the exception leaves the handler through its finally clause.
WriteSeedlist ==
    /\ page.pc = "write" /\ page.kind = "hybrid"
    /\ \/ \E n \in 1..4 :
            /\ files' = files \cup {Places[n]}
            /\ page' = [page EXCEPT !.pc = "call", !.known = {Places[n]}]
       \/ /\ page' = [page EXCEPT !.pc = "finally", !.shown = "exception"]
          /\ files' = files
    /\ UNCHANGED <<available, local, child, pipe, orphans, right, checked>>

\* wallet.dat, then the list of passwords; a failed write ends the handler.
WriteWalletFile ==
    /\ page.pc = "write" /\ page.kind = "wallet"
    /\ LET f == IF page.known = {} THEN "wallet.dat" ELSE "passwords"
       IN  \/ /\ files' = files \cup {f}
              /\ page' = [page EXCEPT !.known = @ \cup {f},
                                      !.pc = IF f = "passwords" THEN "call" ELSE "write"]
           \/ /\ page' = [page EXCEPT !.pc = "finally", !.shown = "exception"]
              /\ files' = files
    /\ UNCHANGED <<available, local, child, pipe, orphans, right, checked>>

-----------------------------------------------------------------------------
(* _run: one call. *)

Returned_KeepsOnlyClean(hw) ==
    LET kept == IF hw.error THEN [Nothing EXCEPT !.error = TRUE] ELSE hw
    IN  IF ~page.batch /\ ~kept.found /\ page.idx < page.total
        THEN [page EXCEPT !.pc = "call", !.idx = @ + 1, !.hw = kept]
        ELSE [page EXCEPT !.pc = "finally", !.hw = kept]

Returned_SameCandidate(hw) ==
    IF ~page.batch /\ ~hw.found /\ page.idx < page.total
    THEN [page EXCEPT !.pc = "call", !.hw = hw]
    ELSE [page EXCEPT !.pc = "finally", !.hw = hw]

\* The page gets the result: the next candidate, or the end.
Returned(hw) ==
    IF ~page.batch /\ ~hw.found /\ page.idx < page.total
    THEN [page EXCEPT !.pc = "call", !.idx = @ + 1, !.hw = hw]
    ELSE [page EXCEPT !.pc = "finally", !.hw = hw]

\* The engine is missing, or the process cannot be started.
CallFails ==
    /\ page.pc = "call"
    /\ page' = Returned([Nothing EXCEPT !.error = TRUE])
    /\ UNCHANGED <<available, local, child, pipe, files, orphans, right, checked>>

\* What the engine prints when it is given the candidates c: a line of
\* progress, and on a match the headline and the value.
Output(c) ==
    <<Line("other", 0)>> \o
    (IF right \in c THEN <<Line("match", 0), Line("value", right)>> ELSE <<>>)

Spawn ==
    /\ page.pc = "call" /\ available
    /\ page' = [page EXCEPT !.pc = "reading"]
    /\ local' = Nothing /\ pipe' = <<>>
    /\ child' = [NoChild EXCEPT !.st = "running", !.says = Output(Handed)]
    /\ UNCHANGED <<available, files, orphans, right, checked>>

Parsed(line) ==
    CASE line.kind = "match" -> [local EXCEPT !.found = TRUE]
      [] line.kind = "value" -> [local EXCEPT !.found = TRUE, !.result = line.seed]
      [] OTHER -> local

\* A line is read, parsed and drawn.
ReadLine ==
    /\ page.pc = "reading" /\ pipe # <<>>
    /\ local' = Parsed(Head(pipe))
    /\ pipe' = Tail(pipe)
    /\ UNCHANGED <<available, page, child, files, orphans, right, checked>>

\* Nobody waits for the child of this call any more; it may run on.
AbandonChild ==
    /\ orphans' = orphans + (IF Alive(child) THEN 1 ELSE 0)
    /\ child' = NoChild /\ pipe' = <<>>

StopInCallback_NoFinally ==
    /\ page.pc = "reading" /\ pipe # <<>>
    /\ page' = [page EXCEPT !.pc = "idle", !.shown = "stopped", !.left = @ \/ Alive(child)]
    /\ local' = Parsed(Head(pipe))
    /\ AbandonChild
    /\ UNCHANGED <<available, files, right, checked>>

\* The script is stopped while it draws the line it has parsed: nothing kills
\* the child.
StopInCallback ==
    /\ page.pc = "reading" /\ pipe # <<>>
    /\ page' = [page EXCEPT !.pc = "finally", !.shown = "stopped", !.left = @ \/ Alive(child)]
    /\ local' = Parsed(Head(pipe))
    /\ AbandonChild
    /\ UNCHANGED <<available, files, right, checked>>

\* The drawing of a line, or the reading of the next, raises an exception:
\* _run returns what it has with the error and neither kills the child nor
\* waits for it.  (The bound on orphans leaves room for one more.)
LoopRaises ==
    /\ page.pc = "reading"
    /\ \/ local' = local
       \/ pipe # <<>> /\ local' = Parsed(Head(pipe))
    /\ page' = [Returned([local' EXCEPT !.error = TRUE]) EXCEPT !.left = @ \/ Alive(child)]
    /\ Alive(child) => orphans + 1 < MaxOrphans
    /\ AbandonChild
    /\ UNCHANGED <<available, files, right, checked>>

\* What ends a script that draws: its user, or an exception.
Broken == {"stopped", "exception"}

\* The script ends while it draws its progress before the call.  (The batch of
\* a hybrid run draws before it writes its file.)
EndBeforeCall ==
    /\ \/ page.pc = "sweep"
       \/ page.pc = "write" /\ page.kind = "hybrid"
       \/ page.pc = "call" /\ ~(page.kind = "hybrid" /\ page.batch)
    /\ \E how \in Broken : page' = [page EXCEPT !.pc = "finally", !.shown = how]
    /\ UNCHANGED <<available, local, child, pipe, files, orphans, right, checked>>

\* The for loop over proc.stdout ends when the child has closed it.
EndOfOutput ==
    /\ page.pc = "reading" /\ pipe = <<>> /\ child.st # "running"
    /\ page' = [page EXCEPT !.pc = "waiting", !.since = child.age]
    /\ UNCHANGED <<available, local, child, pipe, files, orphans, right, checked>>

\* proc.wait returns; the return code is passed on and not looked at.
Wait ==
    /\ page.pc = "waiting" /\ child.st = "exited"
    /\ page' = Returned(local)
    /\ checked' = IF child.died THEN checked ELSE checked \cup Handed
    /\ UNCHANGED <<available, local, child, pipe, files, orphans, right>>

\* proc.wait gives up: kill, and what was found is still returned.
TimeoutExpired ==
    /\ page.pc = "waiting" /\ Alive(child) /\ child.age >= page.since + Timeout
    /\ page' = Returned([local EXCEPT !.error = TRUE])
    /\ child' = [child EXCEPT !.st = "exited", !.died = TRUE]
    /\ UNCHANGED <<available, local, pipe, files, orphans, right, checked>>

\* The finally clause removes the files one by one, wallet.dat before the
\* passwords.
DeleteFile ==
    /\ page.pc = "finally"
    /\ \E f \in page.known :
          /\ f = "passwords" => "wallet.dat" \notin page.known
          /\ files' = files \ {f}
          /\ page' = [page EXCEPT !.known = @ \ {f}]
    /\ UNCHANGED <<available, local, child, pipe, orphans, right, checked>>

\* An unlink fails.  The hybrid page goes on without a word; in the wallet
\* page it ends the handler, the other file included.
UnlinkFails ==
    /\ page.pc = "finally"
    /\ \E f \in page.known :
          /\ f = "passwords" => "wallet.dat" \notin page.known
          /\ page' = IF page.kind = "hybrid"
                     THEN [page EXCEPT !.known = {}, !.refused = {f}]
                     ELSE [page EXCEPT !.known = {}, !.refused = {f},
                                       !.pc = "idle", !.shown = "exception"]
    /\ UNCHANGED <<available, local, child, pipe, files, orphans, right, checked>>

\* A script that was ended ends here; the others have a verdict to draw.
FinallyEnds ==
    /\ page.pc = "finally" /\ page.known = {}
    /\ page' = [page EXCEPT !.pc = IF page.shown = "blank" THEN "verdict" ELSE "idle"]
    /\ UNCHANGED <<available, local, child, pipe, files, orphans, right, checked>>

Verdict(hw) ==
    CASE hw.found /\ hw.result # 0 -> "found"
      [] ~(hw.found /\ hw.result # 0) /\ hw.error -> "error"
      [] OTHER -> "no match"

DrawVerdict ==
    /\ page.pc = "verdict"
    /\ page' = [page EXCEPT !.pc = "idle", !.shown = Verdict(page.hw)]
    /\ UNCHANGED <<available, local, child, pipe, files, orphans, right, checked>>

\* The verdict takes several calls to draw, and the script may end at any of
\* them before the value is on the page.
EndAtVerdict ==
    /\ page.pc = "verdict"
    /\ \E how \in Broken : page' = [page EXCEPT !.pc = "idle", !.shown = how]
    /\ UNCHANGED <<available, local, child, pipe, files, orphans, right, checked>>

-----------------------------------------------------------------------------
(* The engine and the world. *)

Prints ==
    /\ child.st = "running" /\ child.says # <<>>
    /\ pipe' = Append(pipe, Head(child.says))
    /\ child' = [child EXCEPT !.says = Tail(@)]
    /\ UNCHANGED <<available, page, local, files, orphans, right, checked>>

ClosesOutput ==
    /\ child.st = "running" /\ child.says = <<>>
    /\ child' = [child EXCEPT !.st = "closing"]
    /\ UNCHANGED <<available, page, local, pipe, files, orphans, right, checked>>

Exits ==
    /\ child.st = "closing"
    /\ child' = [child EXCEPT !.st = "exited"]
    /\ UNCHANGED <<available, page, local, pipe, files, orphans, right, checked>>

\* The engine fails on its own: an exception, no memory, a signal.
Dies ==
    /\ Alive(child)
    /\ child' = [child EXCEPT !.st = "exited", !.died = TRUE]
    /\ UNCHANGED <<available, page, local, pipe, files, orphans, right, checked>>

OrphanEnds ==
    /\ orphans > 0
    /\ orphans' = orphans - 1
    /\ UNCHANGED <<available, page, local, child, pipe, files, right, checked>>

Tick ==
    /\ Alive(child) /\ child.age < MaxAge
    /\ child' = [child EXCEPT !.age = @ + 1]
    /\ UNCHANGED <<available, page, local, pipe, files, orphans, right, checked>>

\* The engine's directory is installed or removed.
EngineMoves ==
    /\ available' = ~available
    /\ UNCHANGED <<page, local, child, pipe, files, orphans, right, checked>>

Handler ==
    \/ SweepEnds \/ WriteSeedlist \/ WriteWalletFile
    \/ CallFails \/ Spawn
    \/ ReadLine \/ EndOfOutput \/ Wait \/ TimeoutExpired
    \/ DeleteFile \/ UnlinkFails \/ FinallyEnds \/ DrawVerdict

\* What may end the script, or a call of it, at a line it draws.
Disturbance == StopInCallback \/ LoopRaises \/ EndBeforeCall \/ EndAtVerdict

Engine == Prints \/ ClosesOutput \/ Exits \/ Dies

Next ==
    \/ RunHybrid \/ RunWallet
    \/ Handler
    \/ Disturbance
    \/ Engine \/ OrphanEnds \/ Tick \/ EngineMoves

Spec == Init /\ [][Next]_vars

\* The script thread goes on while it can, and an engine ends its search.
FairSpec == Spec /\ WF_vars(Handler) /\ WF_vars(Engine)

-----------------------------------------------------------------------------

TempFiles == {Places[i] : i \in 1..4} \cup {"wallet.dat", "passwords"}

Results == [found : BOOLEAN, result : 0..MaxSeeds, error : BOOLEAN]

TypeOK ==
    /\ available \in BOOLEAN /\ local \in Results
    /\ page \in [pc : {"idle", "sweep", "write", "call", "reading", "waiting", "finally",
                       "verdict"},
                 kind : {"hybrid", "wallet"}, total : 1..MaxSeeds,
                 batch : BOOLEAN, idx : 1..MaxSeeds,
                 known : SUBSET TempFiles, hw : Results, since : 0..MaxAge,
                 refused : SUBSET TempFiles, left : BOOLEAN,
                 shown : {"blank", "no candidates", "stopped", "exception",
                          "found", "error", "no match"}]
    /\ child.st \in {"none", "running", "closing", "exited"} /\ child.age \in 0..MaxAge
    /\ Len(pipe) + Len(child.says) <= 3
    /\ files \subseteq TempFiles
    /\ orphans \in 0..MaxOrphans /\ right \in 0..MaxSeeds /\ checked \subseteq 1..MaxSeeds

\* Whatever ends the handler (a verdict, a stop or an exception in the middle
\* of a line, a failed write), no complete temp file with seeds or passwords
\* outlives it but one whose unlink failed and, in the wallet page, the
\* passwords behind a wallet.dat whose unlink failed.  The engine of the last
\* call has ended or was given up by an exception, and a page that gave up
\* the engine of its batch does not say that nothing matched.
NothingLeft ==
    page.pc = "idle" =>
        /\ \A f \in files :
              f \in page.refused \/ (f = "passwords" /\ "wallet.dat" \in page.refused)
        /\ ~Alive(child)
        /\ page.batch /\ page.left => page.shown # "no match"

\* A value the engine printed and _run read is the one that matches, and it is
\* shown, unless the script was ended, by its user or an exception, before it
\* had drawn it: an expired wait, or an error in the reading loop, does not
\* turn it into an error or into "no match".
FoundIsShown ==
    page.pc = "idle" /\ local.result # 0 =>
        /\ local.result = right
        /\ page.shown \in {"found"} \cup Broken

\* Every run of the handler ends, when engines end.
RunEnds == (page.pc # "idle") ~> (page.pc = "idle")

\* "max seconds before forceful kill": no engine outlives the timeout.
TimeoutBounds == child.age > Timeout => ~Alive(child)

\* "None of the N candidates matched": every one of them was examined by an
\* engine that ended its work.
NoMatchMeansChecked ==
    page.pc = "idle" /\ page.shown = "no match" => 1..page.total \subseteq checked
=============================================================================
