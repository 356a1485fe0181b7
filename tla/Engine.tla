------------------------------- MODULE Engine -------------------------------
(***************************************************************************)
(* A password search of the bundled BTCRecover engine with --autosave: the *)
(* sitting of main(), its pool of workers, the two save slots of the       *)
(* autosave file, and what interrupts, errors and a lost process leave for *)
(* the next sitting (btcrecover/btcrecover/btcrpass.py, POSIX signals).    *)
(*                                                                         *)
(* Passwords are 1 .. N in generation order (module Stream is about that   *)
(* order); the wallet's test is membership of targets.  A slot is the skip *)
(* count it holds or Erased: zero bytes, truncated, or half written, which *)
(* pickle.load refuses alike.                                              *)
(***************************************************************************)
EXTENDS Integers, FiniteSets

CONSTANTS
    N,            \* how many passwords the options generate
    Wallets,      \* the sets of passwords that may open the wallet
    Skip,         \* the --skip option of the first command line
    ChunkSizes,   \* what the benchmark may suggest as chunksize
    Threads,      \* values of spawned_threads; 0 verifies in the main process
    Periods,      \* estimates of the passwords tried in five minutes
    MaxSittings,  \* bound on the times the user starts the engine
    None, Exhausted

ASSUME ConstantsAssumption ==
    /\ N \in Nat /\ Skip \in Nat
    /\ Wallets \subseteq SUBSET (1 .. N)
    /\ ChunkSizes \subseteq Nat \ {0}
    /\ Threads \subseteq Nat
    /\ Periods \subseteq Nat \ {0}
    /\ MaxSittings \in Nat
    /\ None \notin Nat /\ Exhausted \notin Nat /\ None # Exhausted

VARIABLES
    targets,    \* the passwords that open the wallet
    slot,       \* autosave file: save slot -> skip count or Erased
    empty,      \* the autosave file is empty or does not exist
    pc,         \* where main() stands; "off" when no process runs
    skip,       \* args.skip
    nextslot,   \* autosave_nextslot
    saving,     \* the argument of the do_autosave call under way
    return,     \* where main() continues after that call
    chunksize, threads, period,  \* period is est_passwords_per_5min
    fed,        \* passwords up to this one have been handed to workers
    busy, done, \* chunks under test, and tested chunks not yet received
    last,       \* the result being handled
    tried,      \* passwords_tried
    verdict,    \* password_found as main() will return it
    result,     \* what the latest sitting told the user
    sittings    \* how often the engine was started

disk == <<slot, empty>>
plan == <<chunksize, threads, period>>
pool == <<fed, busy, done>>
vars == <<targets, disk, pc, skip, nextslot, saving, return, plan, pool, last,
          tried, verdict, result, sittings>>

Erased == -1

Slots == {0, 1}

\* A chunk is the passwords after one number up to another.
Chunks == [from : Nat, to : Nat]

Least(a, b) == IF a <= b THEN a ELSE b

Readable == {s \in Slots : slot[s] # Erased}

UseSlot_First == 0

\* load_savestate: the readable slot with the larger skip count, the first
\* one when they are equal.
UseSlot ==
    IF slot[0] # Erased /\ (slot[1] = Erased \/ slot[0] >= slot[1])
    THEN 0 ELSE 1

\* The passwords of a chunk that open the wallet.
Hits(c) == {t \in targets : c.from < t /\ t <= c.to}

\* return_verified_password_or_false: the first of them with its place in
\* the chunk, or the length of the chunk when there is none.
Verify(c) ==
    \E t \in targets \cup {None} :
        /\ IF Hits(c) = {} THEN t = None
           ELSE t \in Hits(c) /\ \A u \in Hits(c) : t <= u
        /\ last' = [found |-> t,
                    count |-> (IF t = None THEN c.to ELSE t) - c.from]

Init ==
    /\ targets \in Wallets
    /\ slot = [s \in Slots |-> Erased]
    /\ empty = TRUE
    /\ pc = "off"
    /\ skip = Skip
    /\ nextslot = 0
    /\ saving = 0 /\ return = "loop"
    /\ chunksize = 1 /\ threads = 0 /\ period = 1
    /\ fed = 0 /\ busy = {} /\ done = {}
    /\ last = [found |-> None, count |-> 0]
    /\ tried = 0
    /\ verdict = None
    /\ result = None
    /\ sittings = 0

-----------------------------------------------------------------------------
\* Starting

Begin ==
    /\ pc = "off"
    /\ sittings < MaxSittings
    /\ sittings' = sittings + 1
    /\ result' = None
    /\ tried' = 0
    /\ verdict' = None
    /\ UNCHANGED <<targets, disk, saving, return, plan, pool, last>>

\* An empty or missing file: a new savestate.
StartNew ==
    /\ Begin
    /\ empty
    /\ skip' = Skip
    /\ nextslot' = 0
    /\ pc' = "ready"

\* Data in the file: --autosave and --restore both resume from it, and the
\* next save goes to the other slot.
StartRestored ==
    /\ Begin
    /\ ~empty /\ Readable # {}
    /\ skip' = slot[UseSlot]
    /\ nextslot' = 1 - UseSlot
    /\ pc' = "ready"

\* Neither slot can be read: load_savestate raises.
StartRaises ==
    /\ Begin
    /\ ~empty /\ Readable = {}
    /\ pc' = "off"
    /\ UNCHANGED <<skip, nextslot>>

\* do_autosave(n) called from main(), which continues at "r".
Autosave(n, r) ==
    /\ pc' = "erase"
    /\ saving' = n
    /\ return' = r

\* The chunk size and the number of workers: few passwords are shared out
\* evenly among no more workers than passwords.
Shares(count, t, c) ==
    IF t * c > count
    THEN [threads |-> Least(t, count),
          chunksize |-> (count - 1) \div Least(t, count) + 1]
    ELSE [threads |-> t, chunksize |-> c]

Whole_Raw(p, c) == p

\* The save period is a multiple of the chunk size, and at least one chunk.
Whole(p, c) == (IF p \div c = 0 THEN 1 ELSE p \div c) * c

\* Everything is skipped: main() returns before any save.  With --no-eta it
\* has not counted, and notices only when there is less than it must skip.
SkippedAll ==
    /\ pc = "ready"
    /\ skip >= N
    /\ pc' = "exit"
    /\ verdict' = Exhausted
    /\ UNCHANGED <<targets, disk, skip, nextslot, saving, return, plan, pool,
                   last, tried, result, sittings>>

\* The benchmark, the count unless --no-eta, the iterator moved past
\* args.skip, and the save of the starting state.
Prepare ==
    /\ pc = "ready"
    /\ \E eta \in BOOLEAN, t \in Threads, c \in ChunkSizes, p \in Periods :
          LET share == IF eta THEN Shares(N - skip, t, c)
                       ELSE [threads |-> t, chunksize |-> c]
          IN  /\ IF eta THEN skip < N ELSE skip <= N
              /\ threads' = share.threads
              /\ chunksize' = share.chunksize
              /\ period' = Whole(p, share.chunksize)
    /\ Autosave(skip, "spawn")
    /\ UNCHANGED <<targets, disk, skip, nextslot, pool, last, tried, verdict,
                   result, sittings>>

\* The pool and its result iterator are created.
Spawn ==
    /\ pc = "spawn"
    /\ fed' = skip /\ busy' = {} /\ done' = {}
    /\ pc' = "loop"
    /\ UNCHANGED <<targets, disk, skip, nextslot, saving, return, plan, last,
                   tried, verdict, result, sittings>>

-----------------------------------------------------------------------------
\* do_autosave: signals are ignored until it returns

EraseSlot ==
    /\ pc = "erase"
    /\ slot' = [slot EXCEPT ![nextslot] = Erased]
    /\ empty' = FALSE
    /\ pc' = "write"
    /\ UNCHANGED <<targets, skip, nextslot, saving, return, plan, pool, last,
                   tried, verdict, result, sittings>>

WriteSlot_SameSlot ==
    /\ pc = "write"
    /\ slot' = [slot EXCEPT ![nextslot] = saving]
    /\ pc' = return
    /\ UNCHANGED <<targets, empty, skip, nextslot, saving, return, plan, pool,
                   last, tried, verdict, result, sittings>>

WriteSlot ==
    /\ pc = "write"
    /\ slot' = [slot EXCEPT ![nextslot] = saving]
    /\ nextslot' = 1 - nextslot
    /\ pc' = return
    /\ UNCHANGED <<targets, empty, skip, saving, return, plan, pool, last,
                   tried, verdict, result, sittings>>

-----------------------------------------------------------------------------
\* The workers.  What they do once main() has left its loop is never read.

Polling ==
    \/ pc \in {"loop", "got", "counted"}
    \/ pc \in {"erase", "write"} /\ return = "loop"

NextChunk == [from |-> fed, to |-> Least(fed + chunksize, N)]

\* A worker takes the next chunk of the password iterator.
TakeChunk ==
    /\ Polling
    /\ fed < N
    /\ Cardinality(busy) < threads
    /\ busy' = busy \cup {NextChunk}
    /\ fed' = NextChunk.to
    /\ UNCHANGED <<targets, disk, pc, skip, nextslot, saving, return, plan,
                   done, last, tried, verdict, result, sittings>>

\* A worker has tested its chunk, in any order with the others.
FinishChunk ==
    /\ Polling
    /\ \E c \in busy :
          /\ busy' = busy \ {c}
          /\ done' = done \cup {c}
    /\ UNCHANGED <<targets, disk, pc, skip, nextslot, saving, return, plan,
                   fed, last, tried, verdict, result, sittings>>

-----------------------------------------------------------------------------
\* The loop of main()

\* Without a pool the main process tests the next chunk itself.
VerifyInline ==
    /\ pc = "loop"
    /\ threads = 0
    /\ fed < N
    /\ Verify(NextChunk)
    /\ fed' = NextChunk.to
    /\ pc' = "got"
    /\ UNCHANGED <<targets, disk, skip, nextslot, saving, return, plan, busy,
                   done, tried, verdict, result, sittings>>

\* pool.imap hands out results in the order of the chunks.
Receive ==
    /\ pc = "loop"
    /\ \E c \in done :
          /\ c.from = skip + tried
          /\ Verify(c)
          /\ done' = done \ {c}
    /\ pc' = "got"
    /\ UNCHANGED <<targets, disk, skip, nextslot, saving, return, plan, fed,
                   busy, tried, verdict, result, sittings>>

Count_PastFound ==
    /\ pc = "got"
    /\ tried' = tried + last.count
    /\ pc' = "counted"
    /\ UNCHANGED <<targets, disk, skip, nextslot, saving, return, plan, pool,
                   last, verdict, result, sittings>>

\* passwords_tried stops just before a password that was found.
Count ==
    /\ pc = "got"
    /\ tried' = IF last.found = None THEN tried + last.count
                                     ELSE tried + last.count - 1
    /\ pc' = "counted"
    /\ UNCHANGED <<targets, disk, skip, nextslot, saving, return, plan, pool,
                   last, verdict, result, sittings>>

\* break: the final save follows.
Found ==
    /\ pc = "counted"
    /\ last.found # None
    /\ verdict' = last.found
    /\ Autosave(skip + tried, "exit")
    /\ UNCHANGED <<targets, disk, skip, nextslot, plan, pool, last, tried,
                   result, sittings>>

\* Another five minutes of passwords have been tried.
AutosaveDue == tried % period = 0

PeriodicSave ==
    /\ pc = "counted"
    /\ last.found = None
    /\ AutosaveDue
    /\ Autosave(skip + tried, "loop")
    /\ UNCHANGED <<targets, disk, skip, nextslot, plan, pool, last, tried,
                   verdict, result, sittings>>

Continue ==
    /\ pc = "counted"
    /\ last.found = None
    /\ ~AutosaveDue
    /\ pc' = "loop"
    /\ UNCHANGED <<targets, disk, skip, nextslot, saving, return, plan, pool,
                   last, tried, verdict, result, sittings>>

\* The iterator is exhausted: the pool is joined and the final save follows.
EndOfPasswords ==
    /\ pc = "loop"
    /\ fed = N /\ busy = {} /\ done = {}
    /\ verdict' = Exhausted
    /\ Autosave(skip + tried, "exit")
    /\ UNCHANGED <<targets, disk, skip, nextslot, plan, pool, last, tried,
                   result, sittings>>

\* main() returns and the caller tells the user.
Return ==
    /\ pc = "exit"
    /\ result' = verdict
    /\ pc' = "off"
    /\ UNCHANGED <<targets, disk, skip, nextslot, saving, return, plan, pool,
                   last, tried, verdict, sittings>>

-----------------------------------------------------------------------------
\* Disturbances.  MaxSittings bounds them: the last sitting is left alone.

Disturbed == sittings < MaxSittings

\* Ctrl-C, SIGTERM or SIGHUP in the loop, or running out of memory there
\* while duplicates are still being recorded: the final save follows.
Interrupt ==
    /\ Disturbed
    /\ pc \in {"loop", "got", "counted"}
    /\ verdict' = None
    /\ Autosave(skip + tried, "exit")
    /\ UNCHANGED <<targets, disk, skip, nextslot, plan, pool, last, tried,
                   result, sittings>>

\* Any other exception in the loop, or an interrupt or an exception before
\* it, ends the sitting without a save; so does the loss of the process at
\* any moment, between erasing a slot and writing it too.
Die ==
    /\ Disturbed
    /\ pc # "off"
    /\ pc' = "off"
    /\ UNCHANGED <<targets, disk, skip, nextslot, saving, return, plan, pool,
                   last, tried, verdict, result, sittings>>

-----------------------------------------------------------------------------

Main ==
    \/ StartNew \/ StartRestored \/ StartRaises
    \/ SkippedAll \/ Prepare \/ Spawn
    \/ EraseSlot \/ WriteSlot
    \/ VerifyInline \/ Receive \/ Count
    \/ Found \/ PeriodicSave \/ Continue \/ EndOfPasswords \/ Return

Next == Main \/ TakeChunk \/ FinishChunk \/ Interrupt \/ Die

Spec == Init /\ [][Next]_vars

\* The processes are scheduled, and the user starts the engine again.
FairSpec == Spec /\ WF_vars(Main) /\ WF_vars(TakeChunk) /\ WF_vars(FinishChunk)

-----------------------------------------------------------------------------
\* Properties

\* The progress a new sitting would resume from.
Saved == IF Readable = {} THEN Skip ELSE slot[UseSlot]

Abstract == INSTANCE Sweep WITH progress <- Saved

TypeOK ==
    /\ targets \in SUBSET (1 .. N)
    /\ slot \in [Slots -> Nat \cup {Erased}]
    /\ empty \in BOOLEAN
    /\ pc \in {"off", "ready", "erase", "write", "spawn", "loop", "got",
               "counted", "exit"}
    /\ skip \in Nat /\ saving \in Nat /\ fed \in Nat /\ tried \in Nat
    /\ nextslot \in Slots
    /\ return \in {"spawn", "loop", "exit"}
    /\ chunksize \in Nat \ {0} /\ period \in Nat \ {0} /\ threads \in Nat
    /\ busy \subseteq Chunks /\ done \subseteq Chunks
    /\ last \in [found : targets \cup {None}, count : Nat]
    /\ verdict \in targets \cup {None, Exhausted}
    /\ result \in targets \cup {None, Exhausted}
    /\ sittings \in 0 .. MaxSittings

\* README.md:128, "interrupt and continue password recoveries without losing
\* progress": whatever is interrupted, killed and resumed, what a readable
\* slot holds never passes an untried password that opens the wallet, saved
\* progress never goes back, and every answer is that of one undisturbed
\* sitting (do_autosave, load_savestate and the loop of main()).
ImplementsSweep == Abstract!Spec

\* Both slots are unreadable only while the very first save of a new file
\* is under way, or after the process was lost in it; afterwards one of
\* them always holds the latest completed save, and the slot that the next
\* save will erase is never the only good one (do_autosave erases the slot
\* that load_savestate did not choose).
OneSlotSurvives ==
    /\ Readable = {} /\ pc # "off" => nextslot = 0 /\ skip = Skip /\ tried = 0
    /\ Readable # {} /\ pc # "off" =>
          \E s \in Readable : s # nextslot /\ slot[s] = Saved

\* Passwords whose results were received, those being counted included.
Front == IF pc = "got" THEN skip + tried + last.count ELSE skip + tried

\* A result was handled, and the save that may follow is not complete.
Handling ==
    \/ pc \in {"got", "counted"}
    \/ pc \in {"erase", "write"} /\ return # "spawn"

\* Of the passwords whose results main() has received, a sitting resumed from
\* the file repeats at most one save period, wherever the process is lost:
\* less than one while main() waits for a result, a whole one when it is lost
\* in a save that is due.  The period is a multiple of the chunk size, so the
\* remainder test in the loop of main() is met once per period and not jumped
\* over.  Chunks that workers have tested and main() has not received are
\* repeated besides, and nothing bounds those: pool.imap keeps them back for
\* as long as an earlier chunk takes.
LostWorkBounded ==
    /\ pc = "loop" => Front - Saved < period
    /\ Handling => Front - Saved <= period

\* No password after a, up to b, opens the wallet.
Clean(a, b) == \A t \in targets : ~(a < t /\ t <= b)

Searching ==
    \/ pc = "loop"
    \/ pc \in {"got", "counted"} /\ last.found = None
    \/ pc \in {"erase", "write"} /\ return = "loop"

\* The slot that the next save will not touch is the newer one.
SlotsOK ==
    /\ empty => Readable = {} /\ pc # "write"
    /\ pc # "off" => slot[1 - nextslot] >= slot[nextslot]
    /\ Readable = {} /\ pc # "off" => nextslot = 0 /\ skip = Skip /\ tried = 0
    /\ pc \in {"spawn", "loop", "got", "counted"}
       \/ (pc \in {"erase", "write"} /\ return # "spawn") => Readable # {}

\* Saved progress, and progress about to be saved, is past wrong passwords
\* only.
ProgressOK ==
    /\ Skip <= Saved /\ Clean(Skip, Saved)
    /\ pc = "ready" => skip = Saved /\ tried = 0
    /\ pc \in {"erase", "write"} => Saved <= saving /\ Clean(Skip, saving)
    /\ pc \in {"erase", "write", "spawn"} /\ return = "spawn" =>
          skip = saving /\ tried = 0
    /\ pc \in {"erase", "write"} /\ return = "loop" => saving = skip + tried
    /\ pc \in {"spawn", "loop", "got", "counted"} =>
          Saved <= skip + tried /\ Clean(Skip, skip + tried)
    /\ pc = "spawn" => return = "spawn"
    /\ pc = "got" /\ last.found = None =>
          Clean(skip + tried, skip + tried + last.count)
    /\ pc = "got" /\ last.found # None =>
          /\ last.found = skip + tried + last.count
          /\ last.count > 0
          /\ Clean(skip + tried, last.found - 1)
    /\ pc = "counted" /\ last.found # None => last.found = skip + tried + 1

\* Every password between those received and those handed out is in a chunk
\* that a worker holds or has tested.
PoolOK ==
    Searching =>
        /\ Front <= fed
        /\ \A c \in busy \cup done : c.from < c.to /\ c.to <= fed
        /\ \A i \in Front + 1 .. fed :
              \E c \in busy \cup done : c.from < i /\ i <= c.to
        /\ threads = 0 => busy = {} /\ done = {}

\* An answer, given or about to be given, is that of an undisturbed sitting.
RightAnswer(v) ==
    /\ v \in targets => v > Skip /\ Clean(Skip, v - 1)
    /\ v = Exhausted => Clean(Skip, N)

IInv ==
    /\ TypeOK /\ SlotsOK /\ ProgressOK /\ PoolOK
    /\ RightAnswer(verdict) /\ RightAnswer(result)

\* In the end, left alone by interrupts and crashes, a sitting answers:
\* with the first password that opens the wallet, or that there is none.
\* The exception is a file whose first save was torn, which every later
\* start refuses.
Answers ==
    <>[](\/ result \in Abstract!Remaining(Skip)
         \/ result = Exhausted /\ Abstract!Remaining(Skip) = {}
         \/ ~empty /\ Readable = {})
=============================================================================
