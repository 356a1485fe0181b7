----------------------------- MODULE SeedSearch -----------------------------
(***************************************************************************)
(* The mnemonic searches of recovery_utils.py: recover_missing_words,      *)
(* recover_word_order, recover_with_typos and recover_extra_word.  Each    *)
(* refuses bad or too large inputs, cuts its search space into tasks, and  *)
(* runs them one after the other in the calling thread, with a progress    *)
(* callback after each.                                                    *)
(*                                                                         *)
(* A word is its rank in the sorted wordlist, a mnemonic a sequence of     *)
(* words; the checksum is membership of Valid and the address filter       *)
(* membership of Owned.  The trials of a task are a set: within a task no  *)
(* enumeration (product, permutations, unique_permutations) repeats one.   *)
(***************************************************************************)
EXTENDS Integers, Sequences, FiniteSets, FiniteSetsExt, SequencesExt

CONSTANTS
    Wordlist,         \* a set of numbers, the BIP39 words in their order
    Jobs,             \* the calls: see IsJob
    Valid,            \* mnemonics whose checksum is right
    Owned,            \* mnemonics whose first address is the target
    Overflows,        \* mnemonics of a wrong length, whose checksum raises an error
    Alternatives,     \* token -> wordlist words that look or sound like it
    Lengths,          \* the lengths a mnemonic may have
    ChunkSize,        \* first-position words in a task of recover_missing_words
    MAX_MISSING_WORDS,
    SEARCH_SPACE_CAP,
    MAX_PERMUTATIONS,
    TYPO_SEARCH_CAP,
    MAX_RETURNED_CANDIDATES

\* A phrase is a sequence of tokens, see Word below.
IsPhrase(ph, kinds) ==
    /\ ph \in Seq([kind : kinds, words : SUBSET Int])
    /\ \A i \in DOMAIN ph :
          /\ IsFiniteSet(ph[i].words)
          /\ ph[i].kind = "word" => \E w \in ph[i].words : ph[i].words = {w}
          /\ ph[i].kind = "unknown" => ph[i].words = Wordlist

IsJob(j) ==
    /\ j.target \in BOOLEAN
    /\ \/ /\ j.engine = "missing" /\ j.max_returned \in Nat
          /\ IsPhrase(j.phrase, {"word", "unknown", "pattern"})
       \/ /\ j.engine = "order" /\ j.pool \in Seq(Int)
          /\ IsPhrase(j.phrase, {"word", "unknown"})
       \/ /\ j.engine = "typos" /\ j.words \in Seq(Int) /\ j.max_typo_words \in Int
          /\ \A i \in DOMAIN j.words : Alternatives[j.words[i]] \subseteq Wordlist
       \/ /\ j.engine = "extra" /\ j.words \in Seq(Int)

ASSUME ConstantsAssumption ==
    /\ Wordlist \subseteq Nat /\ IsFiniteSet(Wordlist)
    /\ IsFiniteSet(Valid)
    /\ ChunkSize \in Nat \ {0} /\ MAX_RETURNED_CANDIDATES \in Nat
    /\ \A j \in Jobs : IsJob(j)

VARIABLES
    job, pc,
    tasks,            \* the sets of trials, in the order they are run
    limit,            \* number of candidates that ends the run, 0 for none
    next,             \* index of the next task
    candidates, checked, checksum_passed, truncated

vars == <<job, pc, tasks, limit, next, candidates, checked, checksum_passed, truncated>>

\* A token of a phrase with "?" or "abc*" in it.
Word(w) == [kind |-> "word", words |-> {w}]
UNKNOWN_TOKEN == [kind |-> "unknown", words |-> Wordlist]
Pattern(S) == [kind |-> "pattern", words |-> S]

\* The places of a phrase that are to be filled in.
Variable(ph) == {i \in DOMAIN ph : ph[i].kind # "word"}
Placeholders(ph) == {i \in DOMAIN ph : ph[i].kind = "unknown"}

\* Every filling of the phrase by words its tokens allow.
Fillings(ph) ==
    {f \in [DOMAIN ph -> UNION {ph[i].words : i \in DOMAIN ph}] :
        \A i \in DOMAIN ph : f[i] \in ph[i].words}

Accepted == IF job.target THEN Valid \cap Owned ELSE Valid

\* The order in which product() yields fillings of sorted lists.
Before(f, g) ==
    \E i \in DOMAIN f : f[i] < g[i] /\ \A j \in 1..(i - 1) : f[j] = g[j]

FirstFew(S, k) == {f \in S : Cardinality({g \in S : Before(g, f)}) < k}

\* The loops "total *= n" and "total += n" over a sequence of numbers: the
\* total after each of its places.
Products(c) ==
    LET total[i \in 0..Len(c)] == IF i = 0 THEN 1 ELSE total[i - 1] * c[i]
    IN  total

Sums(c) ==
    LET total[i \in 0..Len(c)] == IF i = 0 THEN 0 ELSE total[i - 1] + c[i]
    IN  total

factorial(n) == Products([i \in 1..n |-> i])[n]

-----------------------------------------------------------------------------
(* recover_missing_words: job.phrase, job.max_returned, job.target. *)

\* total_combinations: a factor for each place to fill in.
space(ph) ==
    Products([i \in DOMAIN ph |->
        IF i \in Variable(ph) THEN Cardinality(ph[i].words) ELSE 1])[Len(ph)]

MissingRefused(ph) ==
    \/ /\ \A i \in DOMAIN ph : ph[i].kind # "pattern"
       /\ Cardinality(Placeholders(ph)) > MAX_MISSING_WORDS
    \/ /\ Variable(ph) # {}
       /\ \/ \E i \in DOMAIN ph \ Variable(ph) : ~ ph[i].words \subseteq Wordlist
          \/ \E i \in Variable(ph) : ph[i].words = {}
          \/ space(ph) > SEARCH_SPACE_CAP

Rank(w, S) == Cardinality({x \in S : x < w})

MissingTasks_LastChunkLost(ph) ==
    LET pos0 == Min(Variable(ph))
        firsts == ph[pos0].words
        n == Cardinality(firsts) \div ChunkSize
    IN  [c \in 1..n |->
            {f \in Fillings(ph) : Rank(f[pos0], firsts) \div ChunkSize = c - 1}]

\* One task for each chunk of the words for the first variable place.
MissingTasks(ph) ==
    LET pos0 == Min(Variable(ph))
        firsts == ph[pos0].words
        n == (Cardinality(firsts) + ChunkSize - 1) \div ChunkSize
    IN  [c \in 1..n |->
            {f \in Fillings(ph) : Rank(f[pos0], firsts) \div ChunkSize = c - 1}]

-----------------------------------------------------------------------------
(* recover_word_order: job.phrase (without patterns), job.pool, job.target. *)

Count(s, w) == Cardinality({i \in DOMAIN s : s[i] = w})

\* The fillings of the "?" places that use each word of the pool once.
Arrangements(ph, pool) ==
    {f \in Fillings(ph) :
        \A w \in Wordlist :
            Cardinality({i \in Variable(ph) : f[i] = w}) = Count(pool, w)}

total_permutations_PlainFactorial(pool) == factorial(Len(pool))

\* A division for each distinct word, where it comes first in the pool.
total_permutations(pool) ==
    LET total[i \in 0..Len(pool)] ==
            IF i = 0 THEN factorial(Len(pool))
            ELSE IF \E j \in 1..(i - 1) : pool[j] = pool[i] THEN total[i - 1]
            ELSE total[i - 1] \div factorial(Count(pool, pool[i]))
    IN  total[Len(pool)]

OrderRefused(ph, pool) ==
    \/ pool = << >>
    \/ \E i \in DOMAIN ph \ Variable(ph) : ~ ph[i].words \subseteq Wordlist
    \/ ~ Range(pool) \subseteq Wordlist
    \/ Cardinality(Variable(ph)) # Len(pool)
    \/ total_permutations(pool) > MAX_PERMUTATIONS

\* One task for each distinct word of the pool, placed first; the order of
\* list(set(pool_words)) is that of the strings' hashes.
OrderTasks(ph, pool) ==
    {[k \in DOMAIN ws |->
        {f \in Arrangements(ph, pool) : f[Min(Variable(ph))] = ws[k]}] :
     ws \in {s \in [1..Cardinality(Range(pool)) -> Range(pool)] : IsInjective(s)}}

-----------------------------------------------------------------------------
(* recover_with_typos: job.words, job.max_typo_words, job.target. *)

per_position(ws) == {i \in DOMAIN ws : Alternatives[ws[i]] # {}}

Combos(ws, n) == {P \in SUBSET per_position(ws) : Cardinality(P) = n}

\* The order in which combinations(sorted(...), n) yields the sets of places.
Earlier(P, Q) == \E i \in P \ Q : \A j \in 1..(i - 1) : j \in P <=> j \in Q

SortedCombos(ws, n) ==
    LET C == Combos(ws, n)
    IN  [k \in 1..Cardinality(C) |->
            CHOOSE P \in C : Cardinality({Q \in C : Earlier(Q, P)}) = k - 1]

Substituted(ws, P) ==
    {f \in [DOMAIN ws -> Range(ws) \cup Wordlist] :
        \A i \in DOMAIN ws :
            IF i \in P THEN f[i] \in Alternatives[ws[i]] ELSE f[i] = ws[i]}

\* The sets of places in the order of the loops: single ones, then pairs.
PosCombos(ws, max) ==
    IF max = 1 THEN SortedCombos(ws, 1) ELSE SortedCombos(ws, 1) \o SortedCombos(ws, 2)

TypoTasks(ws, max) ==
    [k \in DOMAIN PosCombos(ws, max) |-> Substituted(ws, PosCombos(ws, max)[k])]

combo_count(ws, P) ==
    Products([i \in DOMAIN ws |->
        IF i \in P THEN Cardinality(Alternatives[ws[i]]) ELSE 1])[Len(ws)]

total_search_space(ws, max) ==
    LET cs == PosCombos(ws, max)
    IN  Sums([k \in DOMAIN cs |-> combo_count(ws, cs[k])])[Len(cs)]

TypoRefused(ws, max) ==
    \/ max \notin 1..2
    \/ total_search_space(ws, max) > TYPO_SEARCH_CAP

-----------------------------------------------------------------------------
(* recover_extra_word: job.words, job.target.  Each word is left out once. *)

ExtraRefused(ws) == Len(ws) - 1 \notin Lengths

ExtraTasks(ws) == [i \in DOMAIN ws |-> {RemoveAt(ws, i)}]

-----------------------------------------------------------------------------

Init ==
    /\ job \in Jobs
    /\ pc = "called"
    /\ tasks = << >> /\ limit = 0 /\ next = 1
    /\ candidates = {} /\ checked = 0 /\ checksum_passed = 0
    /\ truncated = FALSE

Refused ==
    CASE job.engine = "missing" -> MissingRefused(job.phrase)
      [] job.engine = "order" -> OrderRefused(job.phrase, job.pool)
      [] job.engine = "typos" -> TypoRefused(job.words, job.max_typo_words)
      [] job.engine = "extra" -> ExtraRefused(job.words)

RaiseValueError ==
    /\ pc = "called" /\ Refused
    /\ pc' = "raised"
    /\ UNCHANGED <<job, tasks, limit, next, candidates, checked, checksum_passed, truncated>>

Start(ts, lim) ==
    /\ pc = "called" /\ ~Refused
    /\ pc' = "running" /\ tasks' = ts /\ limit' = lim
    /\ UNCHANGED <<job, next, candidates, checked, checksum_passed, truncated>>

\* A phrase with nothing to fill in is validated as it is.
StartAsIs ==
    /\ job.engine = "missing" /\ Variable(job.phrase) = {}
    /\ Start(<<Fillings(job.phrase)>>, 0)

StartMissing ==
    /\ job.engine = "missing" /\ Variable(job.phrase) # {}
    /\ Start(MissingTasks(job.phrase), job.max_returned)

StartOrder ==
    /\ job.engine = "order"
    /\ \E ts \in OrderTasks(job.phrase, job.pool) : Start(ts, MAX_RETURNED_CANDIDATES)

StartTypos ==
    /\ job.engine = "typos"
    /\ Start(TypoTasks(job.words, job.max_typo_words), MAX_RETURNED_CANDIDATES)

StartExtra ==
    /\ job.engine = "extra"
    /\ Start(ExtraTasks(job.words), 0)

Kept_FromTheEnd(new) ==
    IF job.engine = "missing" /\ limit > 0
    THEN {f \in new : Cardinality({g \in new : Before(f, g)})
                         < limit - Cardinality(candidates)}
    ELSE new

\* The hits added: recover_missing_words leaves the loop over them when it
\* reaches its limit; the other searches add them all.
Kept(new) ==
    IF job.engine = "missing" /\ limit > 0
    THEN FirstFew(new, limit - Cardinality(candidates))
    ELSE new

\* _bip39_fast_checksum_valid, which only recover_missing_words calls, raises an
\* error for some mnemonics that are not 12, 15, 18, 21 or 24 words long.
Unpacked(task) ==
    IF job.engine = "missing" /\ Variable(job.phrase) # {} THEN task \cap Overflows ELSE {}

\* A task is run and its result added up.
RunTask ==
    /\ pc = "running" /\ ~truncated /\ next <= Len(tasks)
    /\ Unpacked(tasks[next]) = {}
    /\ next' = next + 1
    /\ checked' = checked + Cardinality(tasks[next])
    /\ checksum_passed' = checksum_passed + Cardinality(tasks[next] \cap Valid)
    /\ candidates' = candidates \cup Kept((tasks[next] \cap Accepted) \ candidates)
    /\ truncated' = (limit > 0 /\ Cardinality(candidates') >= limit)

\* One turn of the loop, with its progress callback.
Turn == RunTask /\ UNCHANGED <<job, pc, tasks, limit>>

\* The progress callback raises and the call unwinds; the phrase validated
\* as it is has no callback.
CallbackRaises ==
    /\ ~(job.engine = "missing" /\ Variable(job.phrase) = {})
    /\ RunTask
    /\ pc' = "aborted"
    /\ UNCHANGED <<job, tasks, limit>>

\* The error unwinds the call.  It is an OverflowError, which no caller catches
\* (its pages catch ValueError), or for 27 words and more a ValueError, from a
\* negative shift.
TaskRaises ==
    /\ pc = "running" /\ ~truncated /\ next <= Len(tasks)
    /\ Unpacked(tasks[next]) # {}
    /\ pc' = "aborted"
    /\ UNCHANGED <<job, tasks, limit, next, candidates, checked, checksum_passed, truncated>>

Return_OneTaskEarly ==
    /\ pc = "running" /\ (truncated \/ next >= Len(tasks))
    /\ pc' = "returned"
    /\ UNCHANGED <<job, tasks, limit, next, candidates, checked, checksum_passed, truncated>>

Return ==
    /\ pc = "running" /\ (truncated \/ next > Len(tasks))
    /\ pc' = "returned"
    /\ UNCHANGED <<job, tasks, limit, next, candidates, checked, checksum_passed, truncated>>

Ended == pc \in {"raised", "aborted", "returned"}

Next ==
    \/ RaiseValueError \/ StartAsIs \/ StartMissing \/ StartOrder
    \/ StartTypos \/ StartExtra \/ Turn \/ CallbackRaises \/ TaskRaises
    \/ Return
    \/ Ended /\ UNCHANGED vars

Spec == Init /\ [][Next]_vars

-----------------------------------------------------------------------------

\* What the caller asked for, without any account of tasks or order: the
\* fillings, the arrangements, the phrases with at most that many words
\* replaced by alternatives, the phrases with one word left out.
AskedBy(j) ==
    CASE j.engine = "missing" -> Fillings(j.phrase)
      [] j.engine = "order" -> Arrangements(j.phrase, j.pool)
      [] j.engine = "typos" ->
            UNION {Substituted(j.words, P) : P \in
                {Q \in SUBSET per_position(j.words) :
                    Cardinality(Q) \in 1..j.max_typo_words}}
      [] j.engine = "extra" -> {RemoveAt(j.words, i) : i \in DOMAIN j.words}

Asked == AskedBy(job)

\* A search that was not truncated returns every acceptable mnemonic it was
\* asked about, and no search returns another.
ResultExact ==
    /\ candidates \subseteq Asked \cap Accepted
    /\ pc = "returned" /\ ~truncated => candidates = Asked \cap Accepted

search_space ==
    CASE job.engine = "missing" -> space(job.phrase)
      [] job.engine = "order" -> total_permutations(job.pool)
      [] job.engine = "typos" -> total_search_space(job.words, job.max_typo_words)
      [] job.engine = "extra" -> Len(job.words)

\* The figures returned are those of the search: a complete search for missing
\* words or an order has tried everything once, and no more mnemonics are
\* returned than passed the checksum, nor passed it than were tried.
CountsExact ==
    pc = "returned" =>
        /\ ~truncated /\ job.engine \in {"missing", "order"} =>
                checked = Cardinality(Asked)
        /\ Cardinality(candidates) <= checksum_passed
        /\ checksum_passed <= checked

\* The search space shown to the user before the search is what a complete
\* search counts, and its figures are exact.
SpaceExact ==
    /\ CountsExact
    /\ pc = "returned" =>
          /\ checked <= search_space
          /\ ~truncated => checked = search_space

\* recover_missing_words never returns more than it was asked for, and when
\* its list is full that is the first of what there is, in the order of the
\* wordlist.
FirstInOrder ==
    job.engine = "missing" =>
        /\ limit > 0 => Cardinality(candidates) <= limit
        /\ pc = "returned" =>
              \A f \in candidates, g \in (Asked \cap Accepted) \ candidates : Before(f, g)

\* The searches implement Search: a place of the collection is a mnemonic
\* asked about, and its value says under which filter it is judged.
Judged(S, target) == {<<f, target>> : f \in S}

Tried == UNION {tasks[k] : k \in 1..(next - 1)}

Outcome ==
    CASE pc = "raised" -> "refused"
      [] pc = "aborted" -> "aborted"
      [] truncated /\ pc \in {"running", "returned"} -> "stopped"
      [] pc = "returned" /\ ~truncated -> "exhausted"
      [] pc \in {"called", "running"} /\ ~truncated -> "running"

Collections == {[f \in AskedBy(j) |-> <<f, j.target>>] : j \in Jobs}

AcceptedUnder == Judged(Valid, FALSE) \cup Judged(Valid \cap Owned, TRUE)

Abstract == INSTANCE Search WITH
    Inputs <- Collections,
    Good <- AcceptedUnder,
    input <- [f \in Asked |-> <<f, job.target>>],
    todo <- Asked \ Tried,
    found <- Judged(candidates, job.target),
    outcome <- Outcome

ImplementsSearch == Abstract!Spec
=============================================================================
