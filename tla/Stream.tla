------------------------------- MODULE Stream -------------------------------
(***************************************************************************)
(* The order in which the BTCRecover engine tries passwords: the generator *)
(* password_generator with its duplicate checker and worker split, the     *)
(* protocol by which password_generator_factory counts and skips with it,  *)
(* and the options a restored session may change (btcrpass.py).            *)
(*                                                                         *)
(* The base generator and its modifications are a fixed sequence raw; the  *)
(* regex, length and custom checks are membership of Rejected.  A sitting  *)
(* may end after any chunk of its search; module Engine is about what is   *)
(* then saved, and about the pool that tests the chunks.                   *)
(***************************************************************************)
EXTENDS Integers, Sequences, FiniteSets, SequencesExt

CONSTANTS
    Values,       \* passwords
    Lists,        \* the sequences the base generator may produce
    Rejected,     \* passwords the filters drop
    Excluded,     \* passwords of the --exclude-passwordlist file
    BadChecksum,  \* seeds the generator drops, if told to verify checksums
    Between,      \* PASSWORDS_BETWEEN_UPDATES
    ChunkSizes,   \* values of chunksize
    Skips,        \* values of the --skip option
    Workers,      \* --worker options: the zero-based ids, and the total
    MaxSittings,  \* bound on the sittings
    None

ASSUME ConstantsAssumption ==
    /\ Rejected \subseteq Values /\ Excluded \subseteq Values /\ BadChecksum \subseteq Values
    /\ Lists \subseteq Seq(Values)
    /\ Between \in Nat \ {0}
    /\ ChunkSizes \subseteq Nat \ {0} /\ Skips \subseteq Nat
    /\ \A w \in Workers : w.ids \subseteq Nat /\ w.total \in Nat \ {0}
    /\ MaxSittings \in Nat
    /\ None \notin Nat

VARIABLES
    raw,        \* what the base generator and the modifications produce
    opts,       \* the command line
    changed,    \* history: a restored sitting has changed --no-dupchecks
    phase,      \* what the generator is being used for
    gen,        \* the generator: place, chunk size, mode and pending chunk
    checker,    \* password_dups
    chunksize,  \* the chunk size of the search
    wish,       \* the --skip option of the first command line
    skip,       \* args.skip
    counted,    \* passwords_counted
    total,      \* total_passwords in the savestate, or None
    searched,   \* the passwords this sitting has searched, in order
    sizes,      \* the sizes of the chunks they came in
    skipped,    \* the passwords this sitting has skipped
    tested,     \* the passwords some sitting has tested
    sittings

vars == <<raw, opts, changed, phase, gen, checker, chunksize, wish, skip,
          counted, total, searched, sizes, skipped, tested, sittings>>

-----------------------------------------------------------------------------
\* The duplicate checker

EXCLUDE == 1000

NoChecker == [run |-> 0, tracking |-> FALSE, seen |-> <<>>, dups |-> <<>>]

\* A fresh checker, with the exclude file read into it.
NewChecker(o) ==
    [run |-> 0, tracking |-> o.dupcheck,
     seen |-> [x \in Excluded |-> EXCLUDE], dups |-> <<>>]

\* Without the checks and without an exclude file there is no checker.
HasChecker(o) == o.dupcheck \/ Excluded # {}

Set(f, x, v) == [y \in DOMAIN f \cup {x} |-> IF y = x THEN v ELSE f[y]]

Drop(f, x) == [y \in DOMAIN f \ {x} |-> f[y]]

IsDuplicate_Late(c, x) ==
    IF c.run = 0
    THEN x \in DOMAIN c.dups \cup DOMAIN c.seen
    ELSE x \in DOMAIN c.dups /\ c.dups[x] >= c.run

\* is_duplicate(x): its answer and the checker after it.
IsDuplicate(c, x) ==
    IF c.run = 0
    THEN x \in DOMAIN c.dups \cup DOMAIN c.seen
    ELSE x \in DOMAIN c.dups /\ c.dups[x] > c.run

AfterIsDuplicate(c, x) ==
    CASE c.run = 0 /\ x \in DOMAIN c.dups -> c
      [] c.run = 0 /\ x \in DOMAIN c.seen \ DOMAIN c.dups ->
            [c EXCEPT !.dups = Set(@, x, c.seen[x]), !.seen = Drop(@, x)]
      [] c.run = 0 /\ x \notin DOMAIN c.seen \cup DOMAIN c.dups ->
            IF c.tracking THEN [c EXCEPT !.seen = Set(@, x, 1)] ELSE c
      [] c.run > 0 /\ x \in DOMAIN c.dups /\ c.dups[x] <= c.run ->
            [c EXCEPT !.dups = Set(@, x, c.run + 1)]
      [] OTHER -> c

\* run_finished()
RunFinished(c) ==
    [c EXCEPT !.run = @ + 1, !.seen = IF c.run = 0 THEN <<>> ELSE @]

-----------------------------------------------------------------------------
\* The generator

\* password_generator(n): at is the place in raw, wait says that it
\* has yielded and waits to be resumed, over that it has run out.
NewGen(n) ==
    [at |-> 0, n |-> n, count |-> 0, got |-> <<>>, share |-> 0,
     wait |-> FALSE, over |-> FALSE]

\* send((n, mode)): a new chunk size, and nothing pending.  Both modes are
\* alike here: a caller that only counts looks at the length.
Send(g, n) ==
    [g EXCEPT !.n = n, !.count = 0, !.got = <<>>, !.wait = FALSE]

\* Resumed without a message.
Resume(g) == [g EXCEPT !.count = 0, !.got = <<>>, !.wait = FALSE]

Mine(o, share) ==
    o.worker # None => share % o.worker.total \in o.worker.ids

\* One password of raw goes through the filters, the duplicate check, the
\* worker split and the checksum, into the pending chunk.
Produce ==
    /\ phase # "off" /\ ~gen.wait /\ ~gen.over
    /\ gen.at < Len(raw)
    /\ LET x == raw[gen.at + 1]
           passes == x \notin Rejected
           fresh == passes /\ ~(HasChecker(opts) /\ IsDuplicate(checker, x))
           keep == fresh /\ Mine(opts, gen.share) /\ x \notin BadChecksum
           n == gen.count + IF keep THEN 1 ELSE 0
       IN  /\ gen' = [gen EXCEPT !.at = @ + 1,
                                 !.share = @ + IF fresh THEN 1 ELSE 0,
                                 !.count = n,
                                 !.got = IF keep THEN Append(@, x) ELSE @,
                                 !.wait = keep /\ n >= gen.n]
           /\ checker' = IF passes /\ HasChecker(opts)
                         THEN AfterIsDuplicate(checker, x) ELSE checker
    /\ UNCHANGED <<raw, wish, opts, changed, phase, chunksize, skip, counted, total,
                   searched, sizes, skipped, tested, sittings>>

RunOut_NoRest ==
    /\ phase # "off" /\ ~gen.wait /\ ~gen.over
    /\ gen.at = Len(raw)
    /\ gen' = [gen EXCEPT !.over = TRUE]
    /\ checker' = IF HasChecker(opts) THEN RunFinished(checker) ELSE checker
    /\ UNCHANGED <<raw, wish, opts, changed, phase, chunksize, skip, counted, total,
                   searched, sizes, skipped, tested, sittings>>

\* The end of raw: the run of the checker is finished, and what is pending
\* is yielded as a last, shorter chunk.
RunOut ==
    /\ phase # "off" /\ ~gen.wait /\ ~gen.over
    /\ gen.at = Len(raw)
    /\ gen' = [gen EXCEPT !.over = TRUE, !.wait = gen.count > 0]
    /\ checker' = IF HasChecker(opts) THEN RunFinished(checker) ELSE checker
    /\ UNCHANGED <<raw, wish, opts, changed, phase, chunksize, skip, counted, total,
                   searched, sizes, skipped, tested, sittings>>

-----------------------------------------------------------------------------
\* Sittings

Options == [eta : BOOLEAN, dupcheck : BOOLEAN, worker : Workers \cup {None}]

\* clean_autosave_args lets --no-eta and --no-dupchecks differ from the
\* saved command line, but not --worker.  The other options it lets differ
\* are those of threads, of the display, and of the GPU; that the last may
\* switch BadChecksum on or off is not modelled.
MayRestoreWith(o) == o.worker = opts.worker

\* The generator of the search: nothing to skip, little, or a lot.
ToSkip(n) ==
    CASE n = 0 -> /\ phase' = "search"
                  /\ gen' = NewGen(chunksize')
      [] n > 0 /\ n <= Between -> /\ phase' = "skip"
                                  /\ gen' = NewGen(n)
      [] OTHER -> /\ phase' = "skip_much"
                  /\ gen' = NewGen(Between)

\* The engine starts.  It counts first, unless --no-eta, or the count is
\* saved and no duplicate check needs a first run.
Start ==
    /\ phase = "off"
    /\ sittings < MaxSittings
    /\ sittings' = sittings + 1
    /\ opts' \in {o \in Options : sittings = 0 \/ MayRestoreWith(o)}
    /\ changed' = (sittings > 0 /\ (changed \/ opts'.dupcheck # opts.dupcheck))
    /\ chunksize' \in ChunkSizes
    /\ checker' = IF HasChecker(opts') THEN NewChecker(opts') ELSE NoChecker
    /\ counted' = 0
    /\ searched' = <<>> /\ sizes' = <<>>
    /\ skipped' = {}
    /\ IF opts'.eta /\ ~(total # None /\ ~opts'.dupcheck)
       THEN phase' = "count" /\ gen' = NewGen(Between)
       ELSE ToSkip(skip)
    /\ UNCHANGED <<raw, wish, skip, total, tested>>

\* A batch is counted.
CountBatch ==
    /\ phase = "count" /\ gen.wait
    /\ counted' = counted + gen.count
    /\ gen' = Resume(gen)
    /\ UNCHANGED <<raw, wish, opts, changed, phase, checker, chunksize, skip, total,
                   searched, sizes, skipped, tested, sittings>>

\* Everything is counted.  A restored session asserts that the count is the
\* saved one; when all is skipped the engine is done.
Counted ==
    /\ phase = "count" /\ gen.over /\ ~gen.wait
    /\ total' = IF total = None THEN counted ELSE total
    /\ counted' = 0
    /\ chunksize' = chunksize
    /\ IF total' = counted /\ counted > skip
       THEN ToSkip(skip)
       ELSE phase' = "off" /\ gen' = gen
    /\ UNCHANGED <<raw, wish, opts, changed, checker, skip, searched, sizes, skipped,
                   tested, sittings>>

SkippedNow == skipped \cup ToSet(gen.got)

\* The passwords to skip are few: one batch of exactly that many.
SkipFew ==
    /\ phase = "skip" /\ gen.wait
    /\ counted' = gen.count
    /\ skipped' = SkippedNow
    /\ gen' = Send(gen, chunksize)
    /\ phase' = "search"
    /\ UNCHANGED <<raw, wish, opts, changed, checker, chunksize, skip, total,
                   searched, sizes, tested, sittings>>

\* They are many: whole batches while more than one is left, then a batch
\* of the rest.
SkipBatch ==
    /\ phase = "skip_much" /\ gen.wait
    /\ counted' = counted + gen.count
    /\ skipped' = SkippedNow
    /\ IF counted' >= skip - Between
       THEN /\ phase' = "skip_rest"
            /\ gen' = Send(gen, skip - counted')
       ELSE phase' = phase /\ gen' = Resume(gen)
    /\ UNCHANGED <<raw, wish, opts, changed, checker, chunksize, skip, total,
                   searched, sizes, tested, sittings>>

SkipRest ==
    /\ phase = "skip_rest" /\ gen.wait
    /\ counted' = counted + gen.count
    /\ skipped' = SkippedNow
    /\ gen' = Send(gen, chunksize)
    /\ phase' = "search"
    /\ UNCHANGED <<raw, wish, opts, changed, checker, chunksize, skip, total,
                   searched, sizes, tested, sittings>>

\* Less than args.skip was there to skip.
SkippedAll ==
    /\ \/ phase \in {"skip", "skip_much", "skip_rest"} /\ gen.over /\ ~gen.wait
       \/ phase = "search" /\ counted < skip
    /\ phase' = "off"
    /\ UNCHANGED <<raw, wish, opts, changed, gen, checker, chunksize, skip, counted,
                   total, searched, sizes, skipped, tested, sittings>>

\* The pool tests a chunk.
Search ==
    /\ phase = "search" /\ counted = skip /\ gen.wait
    /\ searched' = searched \o gen.got
    /\ sizes' = Append(sizes, gen.count)
    /\ tested' = tested \cup ToSet(gen.got)
    /\ gen' = Resume(gen)
    /\ UNCHANGED <<raw, wish, opts, changed, phase, checker, chunksize, skip, counted,
                   total, skipped, sittings>>

\* passwords_tried
Tried == Len(searched)

EndSitting_Generated ==
    /\ phase = "search" /\ counted = skip
    /\ sittings < MaxSittings \/ (gen.over /\ ~gen.wait)
    /\ skip' = skip + Tried + gen.count
    /\ phase' = "off"
    /\ UNCHANGED <<raw, wish, opts, changed, gen, checker, chunksize, counted, total,
                   searched, sizes, skipped, tested, sittings>>

\* The sitting ends, interrupted or because all passwords are tried, and
\* saves args.skip + passwords_tried.  MaxSittings bounds the interrupts.
EndSitting ==
    /\ phase = "search" /\ counted = skip
    /\ sittings < MaxSittings \/ (gen.over /\ ~gen.wait)
    /\ skip' = skip + Tried
    /\ phase' = "off"
    /\ UNCHANGED <<raw, wish, opts, changed, gen, checker, chunksize, counted, total,
                   searched, sizes, skipped, tested, sittings>>

Init ==
    /\ raw \in Lists
    /\ opts = [eta |-> TRUE, dupcheck |-> TRUE, worker |-> None] /\ changed = FALSE
    /\ phase = "off"
    /\ gen = NewGen(1)
    /\ checker = NoChecker
    /\ chunksize = 1
    /\ wish \in Skips /\ skip = wish
    /\ counted = 0 /\ total = None
    /\ searched = <<>> /\ sizes = <<>> /\ skipped = {} /\ tested = {}
    /\ sittings = 0

Next ==
    \/ Start \/ Produce \/ RunOut
    \/ CountBatch \/ Counted
    \/ SkipFew \/ SkipBatch \/ SkipRest \/ SkippedAll
    \/ Search \/ EndSitting

Spec == Init /\ [][Next]_vars

\* The engine runs on, and the user starts it again.
FairSpec == Spec /\ WF_vars(Next)

-----------------------------------------------------------------------------
\* Properties

\* How many of the places I come before the place n.
Before(I, n) == Cardinality({i \in I : i < n})

\* The places of raw whose passwords the options o let through: not rejected,
\* not excluded and, if duplicates are checked, there for the first time.
Fresh(o) ==
    {i \in DOMAIN raw :
        /\ raw[i] \notin Rejected \cup Excluded
        /\ o.dupcheck => \A j \in 1 .. i - 1 : raw[j] # raw[i]}

\* A worker's share of them, without those the generator finds to be no seed.
Due(o) == {i \in Fresh(o) : Mine(o, Before(Fresh(o), i)) /\ raw[i] \notin BadChecksum}

\* What the options ask for, in the order of raw.
Expected(o) ==
    [k \in 1 .. Cardinality(Due(o)) |->
        raw[CHOOSE i \in Due(o) : Before(Due(o), i) = k - 1]]

Searching == phase = "search" /\ counted = skip

\* A table of the checker: some of the passwords, each with a run number.
IsTable(f) == DOMAIN f \subseteq Values /\ f \in [DOMAIN f -> Nat]

IsChecker(c) ==
    /\ DOMAIN c = {"run", "tracking", "seen", "dups"}
    /\ c.run \in 0 .. 2 /\ c.tracking \in BOOLEAN
    /\ IsTable(c.seen) /\ IsTable(c.dups)

TypeOK ==
    /\ raw \in Lists
    /\ opts \in Options /\ changed \in BOOLEAN
    /\ phase \in {"off", "count", "skip", "skip_much", "skip_rest", "search"}
    /\ gen \in [at : 0 .. Len(raw), n : Nat \ {0}, count : Nat, got : Seq(Values),
               share : Nat, wait : BOOLEAN, over : BOOLEAN]
    /\ IsChecker(checker)
    /\ chunksize \in Nat \ {0}
    /\ wish \in Nat /\ skip \in Nat /\ counted \in Nat
    /\ total \in Nat \cup {None}
    /\ searched \in Seq(Values) /\ sizes \in Seq(Nat)
    /\ skipped \subseteq Values /\ tested \subseteq Values
    /\ sittings \in 0 .. MaxSittings

\* Only the last chunk may be shorter than chunksize (the comment on
\* password_generator: "only the last integer might be < than chunksize");
\* the periodic save of main() relies on it.
ChunksFull ==
    \A k \in DOMAIN sizes :
        IF k < Len(sizes) THEN sizes[k] = chunksize ELSE sizes[k] \in 1 .. chunksize

\* The search of a sitting gets exactly the passwords that the options ask
\* for, from the one after those skipped on, in full chunks: the count that
\* ran before it with the same duplicate checker, the batches of the skip and
\* the messages sent to the generator lose none and repeat none
\* (password_generator_factory, DuplicateChecker).
StreamExact ==
    /\ ChunksFull
    /\ Searching =>
          LET given == searched \o gen.got
              due == SubSeq(Expected(opts), skip + 1, Len(Expected(opts)))
          IN  /\ IsPrefix(given, due)
              /\ gen.over /\ ~gen.wait => given = due

\* The total that a session saves is the number of passwords it generates,
\* whichever of its sittings counted it.
CountExact == total # None /\ ~changed => total = Len(Expected(opts))

\* The passwords the user gives up with --skip, and the others.
GivenUp == {Expected(opts)[k] : k \in DOMAIN Expected(opts) \cap 1 .. wish}
Wanted == ToSet(Expected(opts)) \ GivenUp

\* A restored sitting skips only passwords that an earlier one has tested:
\* "Last session ended having finished password #" is about the passwords of
\* this session too (parse_arguments, clean_autosave_args).  A session may go
\* on with or without --no-eta.  If it goes on without --no-dupchecks the
\* number means other passwords, and only the recount of main() would tell.
SkipsOnlyTried == Searching /\ ~changed => skipped \ GivenUp \subseteq tested

\* Interrupted and restored, a session in the end tests everything.
EverythingTested == <>[](changed \/ Wanted \subseteq tested)
=============================================================================
