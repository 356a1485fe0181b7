------------------------- MODULE VerificationProofs -------------------------
(* Proofs about Verification, for every number of candidates, every batch     *)
(* limit and every timeout: the types, what a handler may leave behind, and   *)
(* what becomes of a value the engine printed and _run read.                  *)
EXTENDS Verification, TLAPS

-----------------------------------------------------------------------------
(* The inductive invariant. *)

\* The lines an engine prints: no value but the candidate that matches.
SaidLines == {Line("other", 0), Line("match", 0), Line("value", right)}

Pages ==
    [pc : {"idle", "sweep", "write", "call", "reading", "waiting", "finally",
           "verdict"},
     kind : {"hybrid", "wallet"}, total : 1..MaxSeeds, batch : BOOLEAN,
     idx : 1..MaxSeeds, known : SUBSET TempFiles, hw : Results,
     since : 0..MaxAge, refused : SUBSET TempFiles, left : BOOLEAN,
     shown : {"blank", "no candidates", "stopped", "exception",
              "found", "error", "no match"}]

Children ==
    [st : {"none", "running", "closing", "exited"},
     says : Seq(SaidLines), age : 0..MaxAge, died : BOOLEAN]

\* Types, and the contents of what the child says and of the pipe.
Typed ==
    /\ available \in BOOLEAN
    /\ local \in Results
    /\ page \in Pages
    /\ child \in Children
    /\ pipe \in Seq(SaidLines)
    /\ files \subseteq TempFiles
    /\ orphans \in 0..MaxOrphans
    /\ right \in 0..MaxSeeds
    /\ checked \subseteq 1..MaxSeeds

\* What the child printed and has yet to print is at most three lines.
Few == Len(pipe) + Len(child.says) <= 3

\* A complete temp file is one whose path the handler has, or one whose
\* unlink failed; the list of seeds is the only file of its handler, and the
\* wallet page has its two in their order.
FilesKnown ==
    /\ page.pc # "idle" => files \subseteq page.known \cup page.refused
    /\ page.pc \notin {"finally", "verdict", "idle"} => page.refused = {}
    /\ page.pc # "idle" /\ page.refused # {} => page.known = {}
    /\ page.pc = "verdict" => page.known = {}
    /\ page.kind = "hybrid" => \A x, y \in page.known : x = y
    /\ page.kind = "wallet" => page.known \subseteq {"wallet.dat", "passwords"}
    /\ page.pc = "sweep" => page.kind = "hybrid"
    /\ page.pc = "sweep" \/ (page.pc = "write" /\ page.kind = "hybrid") =>
          page.known = {}
    /\ page.pc = "idle" =>
          \A f \in files :
             f \in page.refused \/ (f = "passwords" /\ "wallet.dat" \in page.refused)

\* The handler leaves _run only when the child of the call has ended, or is
\* counted among those nobody waits for; there is room to count one more
\* until a handler gives one up.
ChildEnded ==
    /\ page.pc \notin {"reading", "waiting"} => ~Alive(child)
    /\ page.pc \in {"sweep", "write", "call", "reading", "waiting"} =>
          orphans < MaxOrphans

\* A batch whose engine was given up has the error of it, or is ended.
GivenUp ==
    /\ page.pc = "sweep" => page.left = FALSE
    /\ page.batch /\ page.left => page.pc \in {"finally", "verdict", "idle"}
    /\ page.batch /\ page.left /\ page.pc \in {"finally", "verdict"} =>
          page.hw.error \/ page.shown \in Broken
    /\ page.batch /\ page.left => page.shown # "no match"

\* The value read is the candidate that matches, it comes with found, and no
\* step between the call that read it and the verdict drops it, unless it ends
\* the script.
ResultKept ==
    /\ local.result # 0 => local.found = TRUE /\ local.result = right
    /\ page.hw.result # 0 => page.hw.result = right
    /\ page.pc \in {"sweep", "write", "call"} => local.result = 0
    /\ page.pc \in {"sweep", "write", "call", "reading", "waiting", "verdict"} =>
          page.shown = "blank"
    /\ page.pc = "finally" => page.shown \in {"blank", "no candidates"} \cup Broken
    /\ page.pc \in {"finally", "verdict"} /\ local.result # 0 =>
          \/ page.shown \in Broken
          \/ /\ page.shown = "blank"
             /\ page.hw.found = TRUE /\ page.hw.result = local.result
    /\ page.pc = "idle" /\ local.result # 0 => page.shown \in {"found"} \cup Broken
    /\ page.pc = "idle" /\ page.shown = "found" => page.hw.result # 0

IInv == Typed /\ Few /\ FilesKnown /\ ChildEnded /\ GivenUp /\ ResultKept

-----------------------------------------------------------------------------
(* What the operators return. *)

\* The bounds are numbers.
LEMMA Bounds ==
    /\ MaxSeeds \in Nat /\ MaxSeeds >= 1 /\ BatchLimit \in Nat
    /\ MaxAge \in Nat /\ MaxOrphans \in Nat
  BY BoundsAssumption

\* No result is a result.
LEMMA NothingType == Nothing \in Results
  BY Bounds DEF Nothing, Results

\* A page at rest is a page.
LEMMA IdleType == Idle \in Pages
  BY Bounds, NothingType DEF Idle, Pages

\* The page goes on with the next candidate only when nothing was found, it
\* keeps its paths and what it shows, and it has the result.
LEMMA ReturnedPage ==
    ASSUME page \in Pages, NEW hw \in Results
    PROVE  /\ Returned(hw) \in Pages
           /\ Returned(hw).pc \in {"call", "finally"}
           /\ Returned(hw).pc = "call" => hw.found = FALSE /\ ~page.batch
           /\ Returned(hw).kind = page.kind /\ Returned(hw).batch = page.batch
           /\ Returned(hw).refused = page.refused /\ Returned(hw).left = page.left
           /\ Returned(hw).known = page.known
           /\ Returned(hw).shown = page.shown
           /\ Returned(hw).hw = hw
<1>1. CASE ~page.batch /\ ~hw.found /\ page.idx < page.total
  <2>1. page.idx + 1 \in 1..MaxSeeds
    <3>1. page.idx \in 1..MaxSeeds /\ page.total \in 1..MaxSeeds
      BY DEF Pages
    <3> QED
      BY <1>1, <3>1, Bounds
  <2>2. Returned(hw) = [page EXCEPT !.pc = "call", !.idx = page.idx + 1, !.hw = hw]
    BY <1>1 DEF Returned, Pages
  <2>3. hw.found = FALSE /\ ~page.batch
    BY <1>1 DEF Results
  <2> QED
    BY <2>1, <2>2, <2>3 DEF Pages
<1>2. CASE ~(~page.batch /\ ~hw.found /\ page.idx < page.total)
  <2>1. Returned(hw) = [page EXCEPT !.pc = "finally", !.hw = hw]
    BY <1>2 DEF Returned
  <2> QED
    BY <2>1 DEF Pages
<1> QED
  BY <1>1, <1>2

\* The engine may say these lines.
LEMMA LinesSaid ==
    /\ Line("other", 0) \in SaidLines
    /\ Line("match", 0) \in SaidLines
    /\ Line("value", right) \in SaidLines
  BY DEF SaidLines

\* An engine prints one line, or three with the match.
LEMMA OutputLines ==
    ASSUME NEW c
    PROVE  Output(c) \in Seq(SaidLines) /\ Len(Output(c)) <= 3
<1> DEFINE o == Line("other", 0)
           m == Line("match", 0)
           v == Line("value", right)
<1>1. o \in SaidLines /\ m \in SaidLines /\ v \in SaidLines
  BY LinesSaid
<1>2. Output(c) = <<o>> \o (IF right \in c THEN <<m, v>> ELSE <<>>)
  BY DEF Output
<1> HIDE DEF o, m, v
<1>3. <<o>> \in Seq(SaidLines) /\ Len(<<o>>) = 1
  BY <1>1
<1>4. <<m, v>> \in Seq(SaidLines) /\ Len(<<m, v>>) = 2
  BY <1>1
<1>5. <<>> \in Seq(SaidLines) /\ Len(<<>>) = 0
  OBVIOUS
<1>6. CASE right \in c
  BY <1>2, <1>3, <1>4, <1>6
<1>7. CASE right \notin c
  BY <1>2, <1>3, <1>5, <1>7
<1> QED
  BY <1>6, <1>7

\* What a line makes of the local variables of _run: a value is the right one
\* and sets found, and no line takes back what an earlier one said.
LEMMA ParsedResult ==
    ASSUME local \in Results, right \in 0..MaxSeeds, NEW line \in SaidLines
    PROVE  /\ Parsed(line) \in Results
           /\ \/ Parsed(line) = local
              \/ /\ Parsed(line).found = TRUE
                 /\ Parsed(line).result \in {local.result, right}
<1>1. CASE line = Line("other", 0)
  BY <1>1 DEF Parsed, Line
<1>2. CASE line = Line("match", 0)
  BY <1>2 DEF Parsed, Line, Results
<1>3. CASE line = Line("value", right)
  BY <1>3 DEF Parsed, Line, Results
<1> QED
  BY <1>1, <1>2, <1>3 DEF SaidLines
-----------------------------------------------------------------------------
(* The steps. *)

\* The steps of a handler that was started, and of the world around it.
RunStep ==
    \/ Handler \/ Disturbance \/ Engine \/ OrphanEnds \/ Tick \/ EngineMoves
    \/ UNCHANGED vars

\* What the end of phase 1 does to the page.
LEMMA SweepPage ==
    ASSUME page \in Pages, SweepEnds
    PROVE  /\ page'.kind = page.kind /\ page'.known = page.known
           /\ page'.refused = page.refused /\ page'.hw = page.hw
           /\ page'.left = page.left
           /\ \/ page'.pc = "finally" /\ page'.shown = "no candidates"
              \/ page'.pc \in {"write", "call"} /\ page'.shown = page.shown
<1>1. PICK total \in 0..MaxSeeds :
        page' = CASE total = 0 ->
                       [page EXCEPT !.pc = "finally", !.shown = "no candidates"]
                  [] total > BatchLimit /\ available ->
                       [page EXCEPT !.pc = "write", !.total = total, !.batch = TRUE]
                  [] OTHER -> [page EXCEPT !.pc = "call", !.total = total]
  BY DEF SweepEnds
<1>2. page' \in {[page EXCEPT !.pc = "finally", !.shown = "no candidates"],
                 [page EXCEPT !.pc = "write", !.total = total, !.batch = TRUE],
                 [page EXCEPT !.pc = "call", !.total = total]}
  BY <1>1
<1> QED
  BY <1>2 DEF Pages

\* What the steps at the end of a handler do to the page.
LEMMA UnlinkPage ==
    ASSUME page \in Pages, UnlinkFails
    PROVE  /\ page' \in Pages
           /\ page'.hw = page.hw /\ page'.left = page.left
           /\ page'.batch = page.batch /\ page'.kind = page.kind
           /\ \/ page'.pc = "finally" /\ page'.shown = page.shown
              \/ page'.pc = "idle" /\ page'.shown = "exception"
<1>1. PICK f \in page.known :
        page' = IF page.kind = "hybrid"
                THEN [page EXCEPT !.known = {}, !.refused = {f}]
                ELSE [page EXCEPT !.known = {}, !.refused = {f},
                                  !.pc = "idle", !.shown = "exception"]
  BY DEF UnlinkFails
<1>2. {f} \in SUBSET TempFiles
  BY DEF Pages
<1>3. page.pc = "finally"
  BY DEF UnlinkFails
<1>4. CASE page.kind = "hybrid"
  <2>1. page' = [page EXCEPT !.known = {}, !.refused = {f}]
    BY <1>1, <1>4
  <2> QED
    BY <1>2, <1>3, <2>1 DEF Pages
<1>5. CASE page.kind # "hybrid"
  <2>1. page' = [page EXCEPT !.known = {}, !.refused = {f}, !.pc = "idle", !.shown = "exception"]
    BY <1>1, <1>5
  <2> QED
    BY <1>2, <2>1 DEF Pages
<1> QED
  BY <1>4, <1>5

LEMMA BrokenPage ==
    ASSUME page \in Pages, EndBeforeCall \/ EndAtVerdict
    PROVE  /\ page' \in Pages
           /\ page'.hw = page.hw /\ page'.left = page.left /\ page'.known = page.known
           /\ page'.batch = page.batch /\ page'.kind = page.kind
           /\ page'.refused = page.refused
           /\ page'.shown \in Broken
           /\ EndBeforeCall => page'.pc = "finally"
           /\ EndAtVerdict => page'.pc = "idle"
<1>1. Broken \subseteq {"stopped", "exception"}
  BY DEF Broken
<1>2. CASE EndBeforeCall
  <2>1. PICK how \in Broken : page' = [page EXCEPT !.pc = "finally", !.shown = how]
    BY <1>2 DEF EndBeforeCall
  <2>2. page.pc # "verdict"
    BY <1>2 DEF EndBeforeCall
  <2> QED
    BY <1>1, <2>1, <2>2 DEF Pages, EndAtVerdict
<1>3. CASE EndAtVerdict
  <2>1. PICK how \in Broken : page' = [page EXCEPT !.pc = "idle", !.shown = how]
    BY <1>3 DEF EndAtVerdict
  <2>2. page.pc = "verdict"
    BY <1>3 DEF EndAtVerdict
  <2>3. ~EndBeforeCall
    BY <2>2 DEF EndBeforeCall
  <2> QED
    BY <1>1, <2>1, <2>3 DEF Pages
<1> QED
  BY <1>2, <1>3

\* An exception in the reading loop: the line may have been parsed.
LEMMA LoopRaisesLocal ==
    ASSUME IInv, LoopRaises
    PROVE  /\ local' \in Results
           /\ \/ local' = local
              \/ local'.found = TRUE /\ local'.result \in {local.result, right}
<1> USE DEF IInv, Typed
<1>1. CASE local' = local
  BY <1>1
<1>2. CASE pipe # <<>> /\ local' = Parsed(Head(pipe))
  <2>1. Head(pipe) \in SaidLines
    BY <1>2
  <2> QED
    BY <1>2, <2>1, ParsedResult
<1> QED
  BY <1>1, <1>2 DEF LoopRaises

\* The page goes on as after any call, with the error.
LEMMA LoopRaisesPage ==
    ASSUME IInv, LoopRaises
    PROVE  /\ page' \in Pages
           /\ page'.pc \in {"call", "finally"}
           /\ page'.pc = "call" => local'.found = FALSE /\ ~page.batch
           /\ page'.known = page.known /\ page'.shown = page.shown
           /\ page'.kind = page.kind /\ page'.batch = page.batch
           /\ page'.refused = page.refused
           /\ page'.hw.result = local'.result /\ page'.hw.found = local'.found
           /\ page'.hw.error = TRUE
<1> DEFINE hw == [local' EXCEPT !.error = TRUE]
           q == Returned(hw)
<1>1. /\ hw \in Results
      /\ hw.result = local'.result /\ hw.found = local'.found /\ hw.error = TRUE
  BY LoopRaisesLocal DEF Results
<1>2. page \in Pages
  BY DEF IInv, Typed
<1>3. page' = [q EXCEPT !.left = page.left \/ Alive(child)]
  <2>1. q.left = page.left
    BY <1>1, <1>2, ReturnedPage
  <2> HIDE DEF hw
  <2>2. page' = [q EXCEPT !.left = q.left \/ Alive(child)]
    BY DEF LoopRaises, hw
  <2> QED
    BY <2>1, <2>2
<1> HIDE DEF hw
<1>4. /\ q \in Pages /\ q.pc \in {"call", "finally"}
      /\ q.pc = "call" => hw.found = FALSE /\ ~page.batch
      /\ q.known = page.known /\ q.shown = page.shown /\ q.hw = hw
      /\ q.kind = page.kind /\ q.batch = page.batch /\ q.refused = page.refused
  BY <1>1, <1>2, ReturnedPage
<1> HIDE DEF q
<1>5. page.left \in BOOLEAN
  BY <1>2 DEF Pages
<1> QED
  BY <1>1, <1>3, <1>4, <1>5 DEF Pages, Alive

\* The types.
LEMMA TypedKept == IInv /\ RunStep => Typed'
<1> SUFFICES ASSUME IInv, RunStep PROVE Typed'
  OBVIOUS
<1> USE DEF IInv, Typed
<1>0. right' = right => SaidLines' = SaidLines /\ Children' = Children
  BY DEF SaidLines, Children
<1>1. CASE SweepEnds
  <2>1. PICK total \in 0..MaxSeeds :
            page' = CASE total = 0 ->
                           [page EXCEPT !.pc = "finally", !.shown = "no candidates"]
                      [] total > BatchLimit /\ available ->
                           [page EXCEPT !.pc = "write", !.total = total, !.batch = TRUE]
                      [] OTHER -> [page EXCEPT !.pc = "call", !.total = total]
    BY <1>1 DEF SweepEnds
  <2>2. page' \in Pages
    <3>1. CASE total = 0
      <4>1. page' = [page EXCEPT !.pc = "finally", !.shown = "no candidates"]
        BY <2>1, <3>1, Bounds
      <4> QED
        BY <4>1 DEF Pages
    <3>2. CASE total # 0
      <4>1. total \in 1..MaxSeeds
        BY <3>2, Bounds
      <4> QED
        BY <2>1, <3>2, <4>1 DEF Pages
    <3> QED
      BY <3>1, <3>2
  <2> QED
    BY <1>1, <2>2, <1>0 DEF SweepEnds
<1>2. CASE WriteSeedlist
  <2>1. page' \in Pages /\ files' \subseteq TempFiles
    <3>1. ASSUME NEW n \in 1..4, files' = files \cup {Places[n]},
                 page' = [page EXCEPT !.pc = "call", !.known = {Places[n]}]
          PROVE  page' \in Pages /\ files' \subseteq TempFiles
      <4>1. Places[n] \in TempFiles
        BY DEF TempFiles
      <4> QED
        BY <3>1, <4>1 DEF Pages
    <3>2. ASSUME page' = [page EXCEPT !.pc = "finally", !.shown = "exception"],
                 files' = files
          PROVE  page' \in Pages /\ files' \subseteq TempFiles
      BY <3>2 DEF Pages
    <3> QED
      BY <1>2, <3>1, <3>2 DEF WriteSeedlist
  <2> QED
    BY <1>2, <2>1, <1>0 DEF WriteSeedlist
<1>3. CASE WriteWalletFile
  <2> DEFINE f == IF page.known = {} THEN "wallet.dat" ELSE "passwords"
  <2>1. f \in TempFiles
    BY DEF TempFiles
  <2>2. CASE files' = files \cup {f} /\
             page' = [page EXCEPT !.known = page.known \cup {f},
                                  !.pc = IF f = "passwords" THEN "call" ELSE "write"]
    <3> HIDE DEF f
    <3>1. page' \in Pages
      BY <2>1, <2>2 DEF Pages
    <3> QED
      BY <1>3, <2>1, <2>2, <3>1, <1>0 DEF WriteWalletFile
  <2>3. CASE files' = files /\ page' = [page EXCEPT !.pc = "finally", !.shown = "exception"]
    <3>1. page' \in Pages
      BY <2>3 DEF Pages
    <3> QED
      BY <1>3, <2>3, <3>1, <1>0 DEF WriteWalletFile
  <2> QED
    BY <1>3, <2>2, <2>3 DEF WriteWalletFile
<1>4. CASE CallFails
  <2>1. [Nothing EXCEPT !.error = TRUE] \in Results
    BY NothingType DEF Results
  <2>2. page' \in Pages
    BY <1>4, <2>1, ReturnedPage DEF CallFails
  <2> QED
    BY <1>4, <2>2, <1>0 DEF CallFails
<1>5. CASE Spawn
  <2>1. page' \in Pages
    BY <1>5 DEF Spawn, Pages
  <2>2. child' \in Children
    <3>1. child' = [st |-> "running", says |-> Output(Handed), age |-> 0, died |-> FALSE]
      BY <1>5 DEF Spawn, NoChild
    <3>2. Children' = Children /\ Output(Handed) \in Seq(SaidLines)
      BY <1>5, <1>0, OutputLines DEF Spawn
    <3> QED
      BY <3>1, <3>2, Bounds DEF Children
  <2> QED
    BY <1>5, <2>1, <2>2, <1>0, NothingType DEF Spawn
<1>6. CASE ReadLine
  <2>1. Head(pipe) \in SaidLines /\ pipe' \in Seq(SaidLines)
    BY <1>6 DEF ReadLine
  <2>2. local' \in Results
    BY <1>6, <2>1, ParsedResult DEF ReadLine
  <2> QED
    BY <1>6, <2>1, <2>2, <1>0 DEF ReadLine
<1>7. CASE EndOfOutput
  <2>1. page' \in Pages
    BY <1>7 DEF EndOfOutput, Pages, Children
  <2> QED
    BY <1>7, <2>1, <1>0 DEF EndOfOutput
<1>8. CASE Wait
  <2>1. page' \in Pages
    BY <1>8, ReturnedPage DEF Wait
  <2>2. Handed \subseteq 1..MaxSeeds
    <3>1. page.total \in 1..MaxSeeds /\ page.idx \in 1..MaxSeeds
      BY DEF Pages
    <3> QED
      BY <3>1, Bounds DEF Handed
  <2>3. checked' \subseteq 1..MaxSeeds
    BY <1>8, <2>2 DEF Wait
  <2> QED
    BY <1>8, <2>1, <2>3, <1>0 DEF Wait
<1>9. CASE TimeoutExpired
  <2>1. [local EXCEPT !.error = TRUE] \in Results
    BY DEF Results
  <2>2. page' \in Pages
    BY <1>9, <2>1, ReturnedPage DEF TimeoutExpired
  <2>3. child' \in Children
    BY <1>9 DEF TimeoutExpired, Children
  <2> QED
    BY <1>9, <2>2, <2>3, <1>0 DEF TimeoutExpired
<1>10. CASE DeleteFile
  <2>1. page' \in Pages
    <3>1. PICK f \in page.known : page' = [page EXCEPT !.known = page.known \ {f}]
      BY <1>10 DEF DeleteFile
    <3>2. page.known \ {f} \in SUBSET TempFiles
      BY DEF Pages
    <3> QED
      BY <3>1, <3>2 DEF Pages
  <2> QED
    BY <1>10, <2>1, <1>0 DEF DeleteFile
<1>11. CASE StopInCallback
  <2>1. page' \in Pages
    BY <1>11 DEF StopInCallback, Pages, Alive
  <2>2. orphans' \in 0..MaxOrphans
    BY <1>11, Bounds DEF StopInCallback, AbandonChild, IInv, ChildEnded
  <2>3. child' \in Children /\ pipe' \in Seq(SaidLines)
    BY <1>11, Bounds DEF StopInCallback, AbandonChild, Children, NoChild
  <2>4. local' \in Results
    <3>1. Head(pipe) \in SaidLines
      BY <1>11 DEF StopInCallback
    <3> QED
      BY <1>11, <3>1, ParsedResult DEF StopInCallback
  <2> QED
    BY <1>11, <2>1, <2>2, <2>3, <2>4, <1>0 DEF StopInCallback
<1>12. CASE EndBeforeCall
  <2>1. page' \in Pages
    BY <1>12, BrokenPage
  <2> QED
    BY <1>12, <2>1, <1>0 DEF EndBeforeCall
<1>13. CASE Prints
  <2>1. child.says \in Seq(SaidLines)
    BY DEF Children
  <2>2. Head(child.says) \in SaidLines /\ Tail(child.says) \in Seq(SaidLines)
    BY <1>13, <2>1 DEF Prints
  <2>3. pipe' \in Seq(SaidLines)
    BY <1>13, <2>2 DEF Prints
  <2>4. child' \in Children
    BY <1>13, <2>2 DEF Prints, Children
  <2> QED
    BY <1>13, <2>3, <2>4, <1>0 DEF Prints
<1>14. CASE ClosesOutput
  <2>1. child' \in Children
    BY <1>14 DEF ClosesOutput, Children
  <2> QED
    BY <1>14, <2>1, <1>0 DEF ClosesOutput
<1>15. CASE Exits
  <2>1. child' \in Children
    BY <1>15 DEF Exits, Children
  <2> QED
    BY <1>15, <2>1, <1>0 DEF Exits
<1>16. CASE Dies
  <2>1. child' \in Children
    BY <1>16 DEF Dies, Children
  <2> QED
    BY <1>16, <2>1, <1>0 DEF Dies
<1>17. CASE OrphanEnds
  <2>1. orphans' \in 0..MaxOrphans
    BY <1>17, Bounds DEF OrphanEnds
  <2> QED
    BY <1>17, <2>1, <1>0 DEF OrphanEnds
<1>18. CASE Tick
  <2>1. child.age + 1 \in 0..MaxAge
    <3>1. child.age \in 0..MaxAge
      BY DEF Children
    <3> QED
      BY <1>18, <3>1, Bounds DEF Tick
  <2>2. child' \in Children
    BY <1>18, <2>1 DEF Tick, Children
  <2> QED
    BY <1>18, <2>2, <1>0 DEF Tick
<1>19. CASE EngineMoves
  BY <1>19, <1>0 DEF EngineMoves
<1>20. CASE UNCHANGED vars
  BY <1>20, <1>0 DEF vars
<1>21. CASE UnlinkFails
  <2>3. page' \in Pages
    BY <1>21, UnlinkPage
  <2> QED
    BY <1>21, <2>3, <1>0 DEF UnlinkFails
<1>22. CASE FinallyEnds
  <2>1. page' \in Pages
    BY <1>22 DEF FinallyEnds, Pages
  <2> QED
    BY <1>22, <2>1, <1>0 DEF FinallyEnds
<1>23. CASE DrawVerdict
  <2>1. page' \in Pages
    BY <1>23 DEF DrawVerdict, Pages, Verdict
  <2> QED
    BY <1>23, <2>1, <1>0 DEF DrawVerdict
<1>24. CASE LoopRaises
  <2>1. local' \in Results
    BY <1>24, LoopRaisesLocal
  <2>2. page' \in Pages
    BY <1>24, LoopRaisesPage
  <2>3. orphans' \in 0..MaxOrphans
    BY <1>24, Bounds DEF LoopRaises, AbandonChild, IInv, ChildEnded
  <2>4. child' \in Children /\ pipe' \in Seq(SaidLines)
    BY <1>24, Bounds DEF LoopRaises, AbandonChild, Children, NoChild
  <2> QED
    BY <1>24, <2>1, <2>2, <2>3, <2>4, <1>0 DEF LoopRaises
<1>25. CASE EndAtVerdict
  <2>1. page' \in Pages
    BY <1>25, BrokenPage
  <2> QED
    BY <1>25, <2>1, <1>0 DEF EndAtVerdict
<1> QED
  BY <1>1, <1>2, <1>3, <1>4, <1>5, <1>6, <1>7, <1>8, <1>9, <1>10,
     <1>11, <1>12, <1>13, <1>14, <1>15, <1>16, <1>17, <1>18, <1>19, <1>20,
     <1>21, <1>22, <1>23, <1>24, <1>25
     DEF RunStep, Handler, Disturbance, Engine

\* A line leaves the pipe, or goes from the child to the pipe.
LEMMA FewKept == IInv /\ RunStep => Few'
<1> SUFFICES ASSUME IInv, RunStep PROVE Few'
  OBVIOUS
<1> USE DEF IInv, Typed, Few
<1>0. /\ child.says \in Seq(SaidLines) /\ pipe \in Seq(SaidLines)
      /\ Len(pipe) \in Nat /\ Len(child.says) \in Nat
  BY DEF Children
<1>1. CASE SweepEnds
  BY <1>1 DEF SweepEnds
<1>2. CASE WriteSeedlist
  BY <1>2 DEF WriteSeedlist
<1>3. CASE WriteWalletFile
  BY <1>3 DEF WriteWalletFile
<1>4. CASE CallFails
  BY <1>4 DEF CallFails
<1>5. CASE Spawn
  BY <1>5, OutputLines DEF Spawn, NoChild, Children
<1>6. CASE ReadLine
  <2>1. Len(Tail(pipe)) = Len(pipe) - 1
    BY <1>6 DEF ReadLine
  <2> QED
    BY <1>6, <2>1, <1>0 DEF ReadLine
<1>7. CASE EndOfOutput
  BY <1>7 DEF EndOfOutput
<1>8. CASE Wait
  BY <1>8 DEF Wait
<1>9. CASE TimeoutExpired
  <2>1. child'.says = child.says
    BY <1>9 DEF TimeoutExpired, Children
  <2> QED
    BY <1>9, <2>1 DEF TimeoutExpired
<1>10. CASE DeleteFile
  BY <1>10 DEF DeleteFile
<1>11. CASE StopInCallback
  BY <1>11 DEF StopInCallback, AbandonChild, NoChild
<1>12. CASE EndBeforeCall
  BY <1>12 DEF EndBeforeCall
<1>13. CASE Prints
  <2>1. child'.says = Tail(child.says)
    BY <1>13 DEF Prints, Children
  <2>2. Len(Tail(child.says)) = Len(child.says) - 1
    BY <1>13, <1>0 DEF Prints
  <2>3. Head(child.says) \in SaidLines
    BY <1>13, <1>0 DEF Prints
  <2>4. Len(pipe') = Len(pipe) + 1
    BY <1>13, <1>0, <2>3 DEF Prints
  <2> QED
    <3>1. Len(child'.says) = Len(child.says) - 1
      BY <2>1, <2>2
    <3> DEFINE read == Len(pipe)
               said == Len(child.says)
    <3>2. read \in Nat /\ said \in Nat /\ read + said <= 3
      BY <1>0
    <3> HIDE DEF read, said
    <3>3. (read + 1) + (said - 1) <= 3
      BY <3>2
    <3> QED
      BY <2>4, <3>1, <3>3 DEF read, said
<1>14. CASE ClosesOutput
  <2>1. child'.says = child.says
    BY <1>14 DEF ClosesOutput, Children
  <2> QED
    BY <1>14, <2>1 DEF ClosesOutput
<1>15. CASE Exits
  <2>1. child'.says = child.says
    BY <1>15 DEF Exits, Children
  <2> QED
    BY <1>15, <2>1 DEF Exits
<1>16. CASE Dies
  <2>1. child'.says = child.says
    BY <1>16 DEF Dies, Children
  <2> QED
    BY <1>16, <2>1 DEF Dies
<1>17. CASE OrphanEnds
  BY <1>17 DEF OrphanEnds
<1>18. CASE Tick
  <2>1. child'.says = child.says
    BY <1>18 DEF Tick, Children
  <2> QED
    BY <1>18, <2>1 DEF Tick
<1>19. CASE EngineMoves
  BY <1>19 DEF EngineMoves
<1>20. CASE UNCHANGED vars
  BY <1>20 DEF vars
<1>21. CASE UnlinkFails
  BY <1>21 DEF UnlinkFails
<1>22. CASE FinallyEnds
  BY <1>22 DEF FinallyEnds
<1>23. CASE DrawVerdict
  BY <1>23 DEF DrawVerdict
<1>24. CASE LoopRaises
  BY <1>24 DEF LoopRaises, AbandonChild, NoChild
<1>25. CASE EndAtVerdict
  BY <1>25 DEF EndAtVerdict
<1> QED
  BY <1>1, <1>2, <1>3, <1>4, <1>5, <1>6, <1>7, <1>8, <1>9, <1>10,
     <1>11, <1>12, <1>13, <1>14, <1>15, <1>16, <1>17, <1>18, <1>19, <1>20,
     <1>21, <1>22, <1>23, <1>24, <1>25
     DEF RunStep, Handler, Disturbance, Engine

\* A file is written together with its path, and the finally clause goes over
\* every file whose path it has.
LEMMA FilesKept == IInv /\ RunStep => FilesKnown'
<1> SUFFICES ASSUME IInv, RunStep PROVE FilesKnown'
  OBVIOUS
<1> USE DEF IInv, Typed, FilesKnown
<1>0. ASSUME page.pc \in {"call", "reading", "waiting"},
             page'.pc \in {"call", "reading", "waiting", "finally"},
             page'.known = page.known, page'.kind = page.kind,
             page'.refused = page.refused, files' = files
      PROVE  FilesKnown'
  BY <1>0
<1>1. CASE SweepEnds
  <2>1. /\ page'.pc \in {"finally", "write", "call"} /\ page'.kind = page.kind
        /\ page'.known = page.known /\ page'.refused = page.refused
    BY <1>1, SweepPage
  <2>2. page.pc = "sweep" /\ files' = files
    BY <1>1 DEF SweepEnds
  <2> QED
    BY <2>1, <2>2
<1>2. CASE WriteSeedlist
  <2>1. ASSUME NEW n \in 1..4, files' = files \cup {Places[n]},
               page' = [page EXCEPT !.pc = "call", !.known = {Places[n]}]
        PROVE  FilesKnown'
    BY <1>2, <2>1 DEF WriteSeedlist, Pages
  <2>2. ASSUME files' = files, page' = [page EXCEPT !.pc = "finally", !.shown = "exception"]
        PROVE  FilesKnown'
    BY <1>2, <2>2 DEF WriteSeedlist, Pages
  <2> QED
    BY <1>2, <2>1, <2>2 DEF WriteSeedlist
<1>3. CASE WriteWalletFile
  <2> DEFINE f == IF page.known = {} THEN "wallet.dat" ELSE "passwords"
  <2>1. CASE files' = files \cup {f} /\
             page' = [page EXCEPT !.known = page.known \cup {f},
                                  !.pc = IF f = "passwords" THEN "call" ELSE "write"]
    <3>0. f \in {"wallet.dat", "passwords"}
      OBVIOUS
    <3> HIDE DEF f
    <3>1. /\ page'.known = page.known \cup {f} /\ page'.refused = page.refused
          /\ page'.kind = "wallet" /\ page.kind = "wallet" /\ page.pc = "write"
      BY <1>3, <2>1 DEF WriteWalletFile, Pages
    <3>2. page'.pc \in {"call", "write"}
      BY <2>1 DEF Pages
    <3>3. page.refused = {} /\ files \subseteq page.known
      BY <3>1
    <3> QED
      BY <2>1, <3>0, <3>1, <3>2, <3>3
  <2>2. CASE files' = files /\ page' = [page EXCEPT !.pc = "finally", !.shown = "exception"]
    BY <1>3, <2>2 DEF WriteWalletFile, Pages
  <2> QED
    BY <1>3, <2>1, <2>2 DEF WriteWalletFile
<1>4. CASE CallFails
  <2>1. [Nothing EXCEPT !.error = TRUE] \in Results
    BY NothingType DEF Results
  <2> QED
    BY <1>0, <1>4, <2>1, ReturnedPage DEF CallFails
<1>5. CASE Spawn
  BY <1>0, <1>5 DEF Spawn, Pages
<1>6. CASE ReadLine
  BY <1>6 DEF ReadLine
<1>7. CASE EndOfOutput
  BY <1>0, <1>7 DEF EndOfOutput, Pages
<1>8. CASE Wait
  BY <1>0, <1>8, ReturnedPage DEF Wait
<1>9. CASE TimeoutExpired
  <2>1. [local EXCEPT !.error = TRUE] \in Results
    BY DEF Results
  <2> QED
    BY <1>0, <1>9, <2>1, ReturnedPage DEF TimeoutExpired
<1>10. CASE DeleteFile
  <2>1. PICK f \in page.known :
          /\ files' = files \ {f}
          /\ page' = [page EXCEPT !.known = page.known \ {f}]
    BY <1>10 DEF DeleteFile
  <2>2. page.pc = "finally" /\ page.refused = {}
    BY <1>10, <2>1 DEF DeleteFile
  <2>3. /\ page'.pc = page.pc /\ page'.kind = page.kind /\ page'.refused = page.refused
        /\ page'.known = page.known \ {f}
    BY <2>1 DEF Pages
  <2> QED
    BY <2>1, <2>2, <2>3
<1>11. CASE StopInCallback
  BY <1>0, <1>11 DEF StopInCallback, Pages
<1>12. CASE EndBeforeCall
  <2>1. /\ page'.known = page.known /\ page'.kind = page.kind
        /\ page'.refused = page.refused /\ page'.pc = "finally"
    BY <1>12, BrokenPage
  <2>2. page.pc \in {"sweep", "write", "call"} /\ files' = files
    BY <1>12 DEF EndBeforeCall
  <2> QED
    BY <2>1, <2>2
<1>13. CASE Prints
  BY <1>13 DEF Prints
<1>14. CASE ClosesOutput
  BY <1>14 DEF ClosesOutput
<1>15. CASE Exits
  BY <1>15 DEF Exits
<1>16. CASE Dies
  BY <1>16 DEF Dies
<1>17. CASE OrphanEnds
  BY <1>17 DEF OrphanEnds
<1>18. CASE Tick
  BY <1>18 DEF Tick
<1>19. CASE EngineMoves
  BY <1>19 DEF EngineMoves
<1>20. CASE UNCHANGED vars
  BY <1>20 DEF vars
<1>21. CASE UnlinkFails
  <2>1. PICK f \in page.known :
          /\ f = "passwords" => "wallet.dat" \notin page.known
          /\ page' = IF page.kind = "hybrid"
                     THEN [page EXCEPT !.known = {}, !.refused = {f}]
                     ELSE [page EXCEPT !.known = {}, !.refused = {f},
                                       !.pc = "idle", !.shown = "exception"]
    BY <1>21 DEF UnlinkFails
  <2>2. page.pc = "finally" /\ page.refused = {} /\ files' = files /\ files \subseteq page.known
    BY <1>21, <2>1 DEF UnlinkFails
  <2>3. page'.known = {} /\ page'.refused = {f} /\ page'.kind = page.kind
    BY <2>1 DEF Pages
  <2>4. CASE page.kind = "hybrid"
    <3>1. page'.pc = "finally"
      BY <2>1, <2>2, <2>4 DEF Pages
    <3>2. files \subseteq {f}
      BY <2>1, <2>2, <2>4
    <3> QED
      BY <2>2, <2>3, <2>4, <3>1, <3>2
  <2>5. CASE page.kind = "wallet"
    <3>1. page'.pc = "idle"
      BY <2>1, <2>5 DEF Pages
    <3>2. \A g \in files : g = f \/ (g = "passwords" /\ f = "wallet.dat")
      BY <2>1, <2>2, <2>5
    <3> QED
      BY <2>2, <2>3, <2>5, <3>1, <3>2
  <2> QED
    BY <2>4, <2>5 DEF Pages
<1>22. CASE FinallyEnds
  <2>1. /\ page'.pc \in {"verdict", "idle"} /\ page'.known = {} /\ page'.refused = page.refused
        /\ page'.kind = page.kind
    BY <1>22 DEF FinallyEnds, Pages
  <2>2. files' = files /\ files \subseteq page.refused
    BY <1>22 DEF FinallyEnds
  <2> QED
    BY <2>1, <2>2
<1>23. CASE DrawVerdict
  BY <1>23 DEF DrawVerdict, Pages
<1>24. CASE LoopRaises
  BY <1>0, <1>24, LoopRaisesPage DEF LoopRaises
<1>25. CASE EndAtVerdict
  <2>1. /\ page'.known = page.known /\ page'.kind = page.kind
        /\ page'.refused = page.refused /\ page'.pc = "idle"
    BY <1>25, BrokenPage
  <2>2. page.pc = "verdict" /\ files' = files
    BY <1>25 DEF EndAtVerdict
  <2> QED
    BY <2>1, <2>2
<1> QED
  BY <1>1, <1>2, <1>3, <1>4, <1>5, <1>6, <1>7, <1>8, <1>9, <1>10,
     <1>11, <1>12, <1>13, <1>14, <1>15, <1>16, <1>17, <1>18, <1>19, <1>20,
     <1>21, <1>22, <1>23, <1>24, <1>25
     DEF RunStep, Handler, Disturbance, Engine

\* _run returns only after the child has exited or was killed, or gives it up.
LEMMA ChildKept == IInv /\ RunStep => ChildEnded'
<1> SUFFICES ASSUME IInv, RunStep PROVE ChildEnded'
  OBVIOUS
<1> USE DEF IInv, Typed, ChildEnded, Alive
<1>1. CASE SweepEnds
  BY <1>1, SweepPage DEF SweepEnds
<1>2. CASE WriteSeedlist
  BY <1>2 DEF WriteSeedlist, Pages
<1>3. CASE WriteWalletFile
  BY <1>3 DEF WriteWalletFile, Pages
<1>4. CASE CallFails
  <2>1. [Nothing EXCEPT !.error = TRUE] \in Results
    BY NothingType DEF Results
  <2> QED
    BY <1>4, <2>1, ReturnedPage DEF CallFails
<1>5. CASE Spawn
  BY <1>5 DEF Spawn, Pages
<1>6. CASE ReadLine
  BY <1>6 DEF ReadLine
<1>7. CASE EndOfOutput
  BY <1>7 DEF EndOfOutput, Pages
<1>8. CASE Wait
  BY <1>8, ReturnedPage DEF Wait
<1>9. CASE TimeoutExpired
  <2>1. [local EXCEPT !.error = TRUE] \in Results
    BY DEF Results
  <2>2. page'.pc \in {"call", "finally"}
    BY <1>9, <2>1, ReturnedPage DEF TimeoutExpired
  <2>3. child'.st = "exited"
    BY <1>9 DEF TimeoutExpired, Children
  <2> QED
    BY <1>9, <2>2, <2>3 DEF TimeoutExpired
<1>10. CASE DeleteFile
  BY <1>10 DEF DeleteFile, Pages
<1>11. CASE StopInCallback
  BY <1>11, Bounds DEF StopInCallback, AbandonChild, Pages, Children, NoChild
<1>12. CASE EndBeforeCall
  BY <1>12, BrokenPage DEF EndBeforeCall
<1>13. CASE Prints
  BY <1>13, Bounds DEF Prints, Pages, Children, NoChild
<1>14. CASE ClosesOutput
  BY <1>14, Bounds DEF ClosesOutput, Pages, Children, NoChild
<1>15. CASE Exits
  BY <1>15, Bounds DEF Exits, Pages, Children, NoChild
<1>16. CASE Dies
  BY <1>16, Bounds DEF Dies, Pages, Children, NoChild
<1>17. CASE OrphanEnds
  BY <1>17, Bounds DEF OrphanEnds
<1>18. CASE Tick
  BY <1>18, Bounds DEF Tick, Pages, Children, NoChild
<1>19. CASE EngineMoves
  BY <1>19 DEF EngineMoves
<1>20. CASE UNCHANGED vars
  BY <1>20 DEF vars
<1>21. CASE UnlinkFails
  BY <1>21, UnlinkPage DEF UnlinkFails
<1>22. CASE FinallyEnds
  BY <1>22 DEF FinallyEnds, Pages
<1>23. CASE DrawVerdict
  BY <1>23 DEF DrawVerdict, Pages
<1>24. CASE LoopRaises
  <2>1. orphans' < MaxOrphans /\ child' = NoChild
    BY <1>24, Bounds DEF LoopRaises, AbandonChild
  <2> QED
    BY <2>1 DEF NoChild
<1>25. CASE EndAtVerdict
  BY <1>25, BrokenPage DEF EndAtVerdict
<1> QED
  BY <1>1, <1>2, <1>3, <1>4, <1>5, <1>6, <1>7, <1>8, <1>9, <1>10,
     <1>11, <1>12, <1>13, <1>14, <1>15, <1>16, <1>17, <1>18, <1>19, <1>20,
     <1>21, <1>22, <1>23, <1>24, <1>25
     DEF RunStep, Handler, Disturbance, Engine

\* A value read stays the result of the call, of the page and of the verdict.
LEMMA ResultStays == IInv /\ RunStep => ResultKept'
<1> SUFFICES ASSUME IInv, RunStep PROVE ResultKept'
  OBVIOUS
<1> USE DEF IInv, Typed, ResultKept
<1>1. CASE SweepEnds
  <2>1. /\ page'.hw = page.hw
        /\ \/ page'.pc = "finally" /\ page'.shown = "no candidates"
           \/ page'.pc \in {"write", "call"} /\ page'.shown = page.shown
    BY <1>1, SweepPage
  <2>2. page.pc = "sweep" /\ local.result = 0 /\ UNCHANGED <<local, right>>
    BY <1>1 DEF SweepEnds
  <2> QED
    BY <2>1, <2>2
<1>2. CASE WriteSeedlist
  BY <1>2 DEF WriteSeedlist, Pages, Broken
<1>3. CASE WriteWalletFile
  BY <1>3 DEF WriteWalletFile, Pages, Broken
<1>4. CASE CallFails
  <2>1. /\ [Nothing EXCEPT !.error = TRUE] \in Results
        /\ [Nothing EXCEPT !.error = TRUE].result = 0
    BY NothingType DEF Results, Nothing
  <2>2. page'.hw.result = 0 /\ page'.pc \in {"call", "finally"} /\ page'.shown = page.shown
    BY <1>4, <2>1, ReturnedPage DEF CallFails
  <2> QED
    BY <1>4, <2>2 DEF CallFails
<1>5. CASE Spawn
  BY <1>5, NothingType DEF Spawn, Pages, Nothing
<1>6. CASE ReadLine
  <2>1. Head(pipe) \in SaidLines
    BY <1>6 DEF ReadLine
  <2>2. \/ local' = local
        \/ local'.found = TRUE /\ local'.result \in {local.result, right}
    BY <1>6, <2>1, ParsedResult DEF ReadLine
  <2> QED
    BY <1>6, <2>2 DEF ReadLine
<1>7. CASE EndOfOutput
  BY <1>7 DEF EndOfOutput, Pages
<1>8. CASE Wait
  <2>1. /\ page'.hw = local /\ page'.shown = page.shown
        /\ page'.pc \in {"call", "finally"}
        /\ page'.pc = "call" => local.found = FALSE
    BY <1>8, ReturnedPage DEF Wait
  <2> QED
    BY <1>8, <2>1 DEF Wait
<1>9. CASE TimeoutExpired
  <2>1. /\ [local EXCEPT !.error = TRUE] \in Results
        /\ [local EXCEPT !.error = TRUE].result = local.result
        /\ [local EXCEPT !.error = TRUE].found = local.found
    BY DEF Results
  <2>2. /\ page'.hw.result = local.result /\ page'.hw.found = local.found
        /\ page'.shown = page.shown
        /\ page'.pc \in {"call", "finally"}
        /\ page'.pc = "call" => local.found = FALSE
    BY <1>9, <2>1, ReturnedPage DEF TimeoutExpired
  <2> QED
    BY <1>9, <2>2 DEF TimeoutExpired
<1>10. CASE DeleteFile
  BY <1>10 DEF DeleteFile, Pages
<1>11. CASE StopInCallback
  <2>1. Head(pipe) \in SaidLines
    BY <1>11 DEF StopInCallback
  <2>2. \/ local' = local
        \/ local'.found = TRUE /\ local'.result \in {local.result, right}
    BY <1>11, <2>1, ParsedResult DEF StopInCallback
  <2>3. page'.pc = "finally" /\ page'.shown = "stopped" /\ page'.hw = page.hw /\ right' = right
    BY <1>11 DEF StopInCallback, Pages
  <2> QED
    BY <2>2, <2>3 DEF Broken
<1>12. CASE EndBeforeCall
  <2>1. page'.pc = "finally" /\ page'.shown \in Broken /\ page'.hw = page.hw
    BY <1>12, BrokenPage
  <2> QED
    BY <1>12, <2>1 DEF EndBeforeCall
<1>13. CASE Prints
  BY <1>13 DEF Prints
<1>14. CASE ClosesOutput
  BY <1>14 DEF ClosesOutput
<1>15. CASE Exits
  BY <1>15 DEF Exits
<1>16. CASE Dies
  BY <1>16 DEF Dies
<1>17. CASE OrphanEnds
  BY <1>17 DEF OrphanEnds
<1>18. CASE Tick
  BY <1>18 DEF Tick
<1>19. CASE EngineMoves
  BY <1>19 DEF EngineMoves
<1>20. CASE UNCHANGED vars
  BY <1>20 DEF vars
<1>21. CASE UnlinkFails
  <2>1. /\ page'.hw = page.hw
        /\ \/ page'.pc = "finally" /\ page'.shown = page.shown
           \/ page'.pc = "idle" /\ page'.shown = "exception"
    BY <1>21, UnlinkPage
  <2> QED
    BY <1>21, <2>1 DEF UnlinkFails, Broken
<1>22. CASE FinallyEnds
  <2>1. /\ page'.hw = page.hw /\ page'.shown = page.shown
        /\ page'.pc = IF page.shown = "blank" THEN "verdict" ELSE "idle"
    BY <1>22 DEF FinallyEnds, Pages
  <2>2. page.pc = "finally" /\ UNCHANGED <<local, right>>
    BY <1>22 DEF FinallyEnds
  <2>3. CASE page.shown = "blank"
    <3>1. page.shown \notin Broken
      BY <2>3 DEF Broken
    <3> QED
      BY <2>1, <2>2, <2>3, <3>1
  <2>4. CASE page.shown # "blank"
    <3>1. "found" \notin Broken
      BY DEF Broken
    <3> QED
      BY <2>1, <2>2, <2>4, <3>1
  <2> QED
    BY <2>3, <2>4
<1>23. CASE DrawVerdict
  <2>1. page'.hw = page.hw /\ page'.pc = "idle" /\ page'.shown = Verdict(page.hw)
    BY <1>23 DEF DrawVerdict, Pages
  <2>2. Verdict(page.hw) = "found" => page.hw.result # 0
    BY DEF Verdict
  <2>3. page.hw.found = TRUE /\ page.hw.result # 0 => Verdict(page.hw) = "found"
    BY DEF Verdict
  <2>4. page.shown = "blank" /\ page.shown \notin Broken
    BY <1>23 DEF DrawVerdict, Broken
  <2> QED
    BY <1>23, <2>1, <2>2, <2>3, <2>4 DEF DrawVerdict
<1>24. CASE LoopRaises
  <2>1. \/ local' = local
        \/ local'.found = TRUE /\ local'.result \in {local.result, right}
    BY <1>24, LoopRaisesLocal
  <2>2. /\ page'.hw.result = local'.result /\ page'.hw.found = local'.found
        /\ page'.shown = page.shown
        /\ page'.pc \in {"call", "finally"}
        /\ page'.pc = "call" => local'.found = FALSE
    BY <1>24, LoopRaisesPage
  <2>3. right' = right /\ page.shown = "blank"
    BY <1>24 DEF LoopRaises
  <2> QED
    BY <2>1, <2>2, <2>3
<1>25. CASE EndAtVerdict
  <2>1. page'.hw = page.hw /\ page'.pc = "idle" /\ page'.shown \in Broken
    BY <1>25, BrokenPage
  <2> QED
    BY <1>25, <2>1 DEF EndAtVerdict, Broken
<1> QED
  BY <1>1, <1>2, <1>3, <1>4, <1>5, <1>6, <1>7, <1>8, <1>9, <1>10,
     <1>11, <1>12, <1>13, <1>14, <1>15, <1>16, <1>17, <1>18, <1>19, <1>20,
     <1>21, <1>22, <1>23, <1>24, <1>25
     DEF RunStep, Handler, Disturbance, Engine

\* A batch has one call: giving up its engine ends it, with the error or the
\* script.
LEMMA GivenUpKept == IInv /\ RunStep => GivenUp'
<1> SUFFICES ASSUME IInv, RunStep PROVE GivenUp'
  OBVIOUS
<1> USE DEF IInv, Typed, GivenUp
<1>0. [Nothing EXCEPT !.error = TRUE] \in Results /\ [local EXCEPT !.error = TRUE] \in Results
  BY NothingType DEF Results
<1>1. CASE SweepEnds
  <2>1. page'.left = page.left /\ page.left = FALSE
    BY <1>1, SweepPage DEF SweepEnds
  <2> QED
    BY <2>1
<1>2. CASE WriteSeedlist \/ WriteWalletFile
  <2>1. /\ page'.left = page.left /\ page'.batch = page.batch
        /\ page'.pc \in {"write", "call", "finally"}
    BY <1>2 DEF WriteSeedlist, WriteWalletFile, Pages
  <2>2. page.pc = "write"
    BY <1>2 DEF WriteSeedlist, WriteWalletFile
  <2>3. ~(page'.batch /\ page'.left)
    BY <2>1, <2>2
  <2> QED
    BY <2>1, <2>3
<1>4. CASE CallFails \/ Wait \/ TimeoutExpired
  <2>1. PICK hw \in Results : page' = Returned(hw)
    BY <1>0, <1>4 DEF CallFails, Wait, TimeoutExpired
  <2>2. /\ page'.left = page.left /\ page'.batch = page.batch
        /\ page'.pc \in {"call", "finally"}
    BY <2>1, ReturnedPage
  <2>3. page.pc \in {"call", "waiting"}
    BY <1>4 DEF CallFails, Wait, TimeoutExpired
  <2> QED
    BY <2>2, <2>3
<1>5. CASE Spawn
  BY <1>5 DEF Spawn, Pages
<1>6. CASE ReadLine
  BY <1>6 DEF ReadLine
<1>7. CASE EndOfOutput
  BY <1>7 DEF EndOfOutput, Pages
<1>8. CASE DeleteFile
  BY <1>8 DEF DeleteFile, Pages
<1>9. CASE UnlinkFails
  <2>1. /\ page'.hw = page.hw /\ page'.left = page.left /\ page'.batch = page.batch
        /\ \/ page'.pc = "finally" /\ page'.shown = page.shown
           \/ page'.pc = "idle" /\ page'.shown = "exception"
    BY <1>9, UnlinkPage
  <2> QED
    BY <1>9, <2>1 DEF UnlinkFails
<1>10. CASE FinallyEnds
  BY <1>10 DEF FinallyEnds, Pages
<1>11. CASE DrawVerdict
  <2>1. /\ page'.shown = Verdict(page.hw) /\ page'.pc = "idle"
        /\ page'.left = page.left /\ page'.batch = page.batch
    BY <1>11 DEF DrawVerdict, Pages
  <2>2. page.hw.error => Verdict(page.hw) \in {"found", "error"}
    BY DEF Verdict
  <2>3. page.pc = "verdict" /\ page.shown \notin Broken
    BY <1>11 DEF DrawVerdict, ResultKept, Broken
  <2> QED
    BY <2>1, <2>2, <2>3
<1>12. CASE StopInCallback
  <2>1. page'.pc = "finally" /\ page'.shown = "stopped"
    BY <1>12 DEF StopInCallback, Pages
  <2> QED
    BY <2>1 DEF Broken
<1>13. CASE LoopRaises
  <2>1. page'.shown = "blank" /\ page'.hw.error = TRUE
    BY <1>13, LoopRaisesPage DEF LoopRaises, ResultKept
  <2>2. page'.pc \in {"call", "finally"} /\ (page'.batch => page'.pc = "finally")
    BY <1>13, LoopRaisesPage
  <2> QED
    BY <2>1, <2>2
<1>14. CASE EndBeforeCall
  <2>1. page'.pc = "finally" /\ page'.shown \in Broken
    BY <1>14, BrokenPage
  <2> QED
    BY <2>1 DEF Broken
<1>15. CASE EndAtVerdict
  <2>1. page'.pc = "idle" /\ page'.shown \in Broken
    BY <1>15, BrokenPage
  <2> QED
    BY <2>1 DEF Broken
<1>16. CASE Engine \/ OrphanEnds \/ Tick \/ EngineMoves \/ UNCHANGED vars
  <2>1. page' = page
    BY <1>16 DEF Engine, Prints, ClosesOutput, Exits, Dies, OrphanEnds, Tick, EngineMoves, vars
  <2> QED
    BY <2>1
<1> QED
  BY <1>1, <1>2, <1>4, <1>5, <1>6, <1>7, <1>8, <1>9, <1>10,
     <1>11, <1>12, <1>13, <1>14, <1>15, <1>16 DEF RunStep, Handler, Disturbance

\* A RUN button starts from a page at rest: no file, and no engine that runs.
LEMMA BeginStep ==
    ASSUME IInv, NEW p \in Pages, NEW n \in 0..MaxSeeds, Begin(p, n),
           p.pc \in {"sweep", "write"}, p.known = {}, p.hw = Nothing,
           p.shown = "blank", p.refused = {}, p.left = FALSE,
           p.pc = "sweep" => p.kind = "hybrid"
    PROVE  IInv'
<1> USE DEF IInv, Begin
<1>1. <<>> \in Seq(SaidLines') /\ Len(<<>>) = 0
  OBVIOUS
<1>2. child' \in Children' /\ pipe' \in Seq(SaidLines')
  BY <1>1, Bounds DEF Children, NoChild
<1>3. Typed'
  BY <1>2, NothingType, Bounds DEF Typed
<1>4. Few'
  BY <1>1 DEF Few, NoChild
<1>5. FilesKnown'
  BY DEF FilesKnown
<1>6. ChildEnded'
  BY DEF ChildEnded, Alive, NoChild
<1>7. ResultKept'
  BY DEF ResultKept, Nothing
<1>8. GivenUp'
  BY DEF GivenUp
<1> QED
  BY <1>3, <1>4, <1>5, <1>6, <1>7, <1>8

\* The start of a session.
LEMMA InitInv == Init => IInv
<1> SUFFICES ASSUME Init PROVE IInv
  OBVIOUS
<1>1. <<>> \in Seq(SaidLines) /\ Len(<<>>) = 0
  OBVIOUS
<1>2. child \in Children /\ pipe \in Seq(SaidLines)
  BY <1>1, Bounds DEF Init, Children, NoChild
<1>3. Typed
  BY <1>2, NothingType, IdleType, Bounds DEF Init, Typed
<1>4. Few
  BY <1>1 DEF Init, Few, NoChild
<1>5. FilesKnown /\ ChildEnded /\ GivenUp
  BY DEF Init, Idle, FilesKnown, ChildEnded, GivenUp, Alive, NoChild
<1>6. ResultKept
  BY DEF Init, Idle, ResultKept, Nothing
<1> QED
  BY <1>3, <1>4, <1>5, <1>6 DEF IInv

\* Every step keeps the invariant.
LEMMA NextInv == IInv /\ [Next]_vars => IInv'
<1> SUFFICES ASSUME IInv, [Next]_vars PROVE IInv'
  OBVIOUS
<1>1. CASE RunHybrid
  <2> DEFINE p == [Idle EXCEPT !.pc = "sweep"]
  <2>1. /\ p \in Pages /\ p.pc = "sweep" /\ p.known = {} /\ p.hw = Nothing /\ p.shown = "blank"
        /\ p.refused = {} /\ p.left = FALSE /\ (p.pc = "sweep" => p.kind = "hybrid")
    BY IdleType DEF Idle, Pages
  <2>2. Begin(p, MaxSeeds) /\ MaxSeeds \in 0..MaxSeeds
    BY <1>1, Bounds DEF RunHybrid
  <2> QED
    BY <2>1, <2>2, BeginStep
<1>2. CASE RunWallet
  <2> DEFINE p == [Idle EXCEPT !.kind = "wallet", !.batch = TRUE, !.pc = "write"]
  <2>1. /\ p \in Pages /\ p.pc = "write" /\ p.known = {} /\ p.hw = Nothing /\ p.shown = "blank"
        /\ p.refused = {} /\ p.left = FALSE /\ (p.pc = "sweep" => p.kind = "hybrid")
    BY IdleType DEF Idle, Pages
  <2>2. Begin(p, 1) /\ 1 \in 0..MaxSeeds
    BY <1>2, Bounds DEF RunWallet
  <2> QED
    BY <2>1, <2>2, BeginStep
<1>3. CASE RunStep
  BY <1>3, TypedKept, FewKept, FilesKept, ChildKept, GivenUpKept, ResultStays DEF IInv
<1> QED
  BY <1>1, <1>2, <1>3 DEF Next, RunStep

\* The inductive invariant holds in every state.
THEOREM Invariant == Spec => []IInv
  BY InitInv, NextInv, PTL DEF Spec

-----------------------------------------------------------------------------
(* The results. *)

\* Every variable keeps its type; the pipe never holds more than an engine
\* prints, and the engines nobody waits for stay within their bound.
THEOREM Types == Spec => []TypeOK
<1>1. IInv => TypeOK
  BY DEF IInv, Typed, Few, Pages, Children, TypeOK
<1> QED
  BY <1>1, Invariant, PTL

\* Whatever ends the handler of a RUN button, no complete temp file outlives
\* it but those a failed unlink leaves, the engine of its last call has ended
\* or was given up by an exception, and a page that gave up the engine of its
\* batch does not say that nothing matched.
THEOREM LeavesNothing == Spec => []NothingLeft
<1>1. IInv => NothingLeft
  BY DEF IInv, FilesKnown, ChildEnded, GivenUp, NothingLeft
<1> QED
  BY <1>1, Invariant, PTL

\* A value the engine printed and _run read is the candidate that matches and
\* is shown, unless the script was ended before it was drawn: neither an
\* expired wait nor an error in the reading loop hides it.
THEOREM ShowsFound == Spec => []FoundIsShown
<1>1. IInv => FoundIsShown
  BY DEF IInv, ResultKept, FoundIsShown
<1> QED
  BY <1>1, Invariant, PTL

\* A page that shows "found" has the candidate that matches, and there is one.
FoundIsRight ==
    page.pc = "idle" /\ page.shown = "found" =>
        page.hw.result = right /\ right # 0

\* No page shows a find that is not one (hw_result of an earlier run is reset).
THEOREM ShowsOnlyFound == Spec => []FoundIsRight
<1>1. IInv => FoundIsRight
  BY DEF IInv, ResultKept, FoundIsRight
<1> QED
  BY <1>1, Invariant, PTL
=============================================================================
