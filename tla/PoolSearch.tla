----------------------------- MODULE PoolSearch -----------------------------
(***************************************************************************)
(* The dictionary engines that run on a multiprocessing.Pool, which share  *)
(* one shape: recover_passphrase, attack_bip38, recover_slip39_passphrase, *)
(* recover_electrum_v2_passphrase, attack_brain_wallet and attack_wallet.  *)
(* The parent cuts the candidate list into chunks, hands them to the pool, *)
(* takes results in whatever order they arrive (imap_unordered), calls the *)
(* progress callback after each, and terminates the pool once it has       *)
(* enough matches.  They differ in the chunk size, in the cap on matches,  *)
(* and in whether a repeated match is kept: SLIP39 and Electrum extend the *)
(* list, the others look the passphrase up first.                          *)
(*                                                                         *)
(* A candidate is a value and the cryptographic test is membership of      *)
(* Good; a test that raises counts as a miss in every worker.              *)
(***************************************************************************)
EXTENDS Integers, Sequences, FiniteSets

CONSTANTS
    Values,      \* candidate texts
    Good,        \* those whose derived address or key matches the target
    MaxLen,      \* bound on the length of the candidate list
    ChunkSize,   \* chunk_size
    Cap,         \* the number of matches that ends a run
    Dedup,       \* whether a repeated match is dropped
    Workers,     \* the processes of the pool
    MaxDeaths    \* bound on the processes killed from outside

ASSUME ConstantsAssumption ==
    /\ Good \subseteq Values
    /\ MaxLen \in Nat
    /\ ChunkSize \in Nat \ {0}
    /\ Cap \in Nat \ {0}
    /\ Dedup \in BOOLEAN
    /\ MaxDeaths \in Nat

\* The engines: their default chunk size, the matches that end a run, and
\* whether a match is looked up before it is added.
Engine(chunk, cap, dedup) == [ChunkSize |-> chunk, Cap |-> cap, Dedup |-> dedup]

recover_passphrase == Engine(64, 10, TRUE)
attack_bip38 == Engine(8, 5, TRUE)
recover_slip39_passphrase == Engine(16, 5, FALSE)
recover_electrum_v2_passphrase == Engine(32, 5, FALSE)
attack_brain_wallet == Engine(256, 10, TRUE)
attack_wallet == Engine(100, 3, TRUE)

Engines == {recover_passphrase, attack_bip38, recover_slip39_passphrase,
            recover_electrum_v2_passphrase, attack_brain_wallet, attack_wallet}

ASSUME EnginesAssumption ==
    \A e \in Engines : e.ChunkSize \in Nat \ {0} /\ e.Cap \in Nat \ {0}

VARIABLES
    pc,         \* where the parent stands
    candidates, \* the argument of the engine
    queue,      \* offsets of the chunks no process has taken
    busy,       \* process -> offset of the chunk it tests, or Idle
    results,    \* offsets of the chunks tested and not yet received
    collected,  \* offsets of the chunks whose result the parent has received
    lost,       \* offsets of the chunks that died with their process
    matches,    \* places in candidates of the matches kept
    checked,    \* the count shown as CANDIDATES TESTED
    truncated

parentVars == <<matches, checked, truncated>>
poolVars == <<queue, busy, results, collected, lost>>
vars == <<pc, candidates, poolVars, parentVars>>

Idle == -1

CandidateLists == UNION {[1..n -> Values] : n \in 0..MaxLen}

total == Len(candidates)

\* range(0, len(candidates), chunk_size)
Offsets == {o \in 0..(total - 1) : o % ChunkSize = 0}

\* The places of candidates[o : o + chunk_size].
Chunk(o) == {p \in 1..total : o < p /\ p <= o + ChunkSize}

\* What the worker reports of a chunk: each candidate of it that passes.
Hits(o) == {p \in Chunk(o) : candidates[p] \in Good}

Reported_Whole(o) == ChunkSize

\* The "checked" of the worker's report.
Reported(o) == Cardinality(Chunk(o))

Enough_Late(n) == n > Cap

\* Whether n matches end the run.
Enough(n) == n >= Cap

ValuesAt(S) == {candidates[p] : p \in S}

NewMatches_NoLookup(o) == Hits(o)

\* The entries a result adds to the list of matches.  An engine that looks
\* a match up first adds one entry for each text it does not have.
NewMatches(o) ==
    IF Dedup
    THEN {CHOOSE p \in Hits(o) : candidates[p] = v :
              v \in ValuesAt(Hits(o)) \ ValuesAt(matches)}
    ELSE Hits(o)

-----------------------------------------------------------------------------

Init ==
    /\ pc = "called"
    /\ candidates \in CandidateLists
    /\ queue = {} /\ results = {} /\ collected = {} /\ lost = {}
    /\ busy = [w \in Workers |-> Idle]
    /\ matches = {} /\ checked = 0 /\ truncated = FALSE

\* ValueError: candidates list is empty.
RaiseEmpty ==
    /\ pc = "called"
    /\ total = 0
    /\ pc' = "raised"
    /\ UNCHANGED <<candidates, poolVars, parentVars>>

StartPool_FullChunksOnly ==
    /\ pc = "called"
    /\ total > 0
    /\ pc' = "polling"
    /\ queue' = {o \in Offsets : o + ChunkSize <= total}
    /\ UNCHANGED <<candidates, busy, results, collected, lost, parentVars>>

\* The chunks are built and the pool is started with all of them queued.
StartPool ==
    /\ pc = "called"
    /\ total > 0
    /\ pc' = "polling"
    /\ queue' = Offsets
    /\ UNCHANGED <<candidates, busy, results, collected, lost, parentVars>>

\* An idle process takes the chunk at the head of the task queue.
TakeTask(w) ==
    /\ pc = "polling"
    /\ busy[w] = Idle
    /\ \E o \in queue :
          /\ \A q \in queue : o <= q
          /\ queue' = queue \ {o}
          /\ busy' = [busy EXCEPT ![w] = o]
    /\ UNCHANGED <<pc, candidates, results, collected, lost, parentVars>>

\* The process returns {"matches": ..., "checked": ...} for its chunk.
FinishTask(w) ==
    /\ pc = "polling"
    /\ busy[w] # Idle
    /\ results' = results \cup {busy[w]}
    /\ busy' = [busy EXCEPT ![w] = Idle]
    /\ UNCHANGED <<pc, candidates, queue, collected, lost, parentVars>>

\* The operating system kills a process.  The pool starts another in its
\* place, but the chunk it held is never tested.
WorkerDies(w) ==
    /\ pc = "polling"
    /\ busy[w] # Idle
    /\ Cardinality(lost) < MaxDeaths
    /\ lost' = lost \cup {busy[w]}
    /\ busy' = [busy EXCEPT ![w] = Idle]
    /\ UNCHANGED <<pc, candidates, queue, results, collected, parentVars>>

\* The parent receives the result of chunk o and adds it up.
Receive(o) ==
    /\ pc = "polling" /\ ~truncated
    /\ o \in results
    /\ results' = results \ {o}
    /\ collected' = collected \cup {o}
    /\ checked' = checked + Reported(o)
    /\ matches' = matches \cup NewMatches(o)
    /\ truncated' = Enough(Cardinality(matches'))

\* One turn of the loop over imap_unordered, the progress callback included.
CollectResult(o) ==
    /\ Receive(o)
    /\ UNCHANGED <<pc, candidates, queue, busy, lost>>

\* The progress callback raises (a rerun of the page); leaving the with
\* block terminates the pool.
CallbackRaises(o) ==
    /\ Receive(o)
    /\ pc' = "aborted"
    /\ queue' = {} /\ busy' = [w \in Workers |-> Idle]
    /\ UNCHANGED <<candidates, lost>>

\* pool.terminate(), break, return with truncated set.
ReturnTruncated ==
    /\ pc = "polling" /\ truncated
    /\ pc' = "returned"
    /\ queue' = {} /\ busy' = [w \in Workers |-> Idle] /\ results' = {}
    /\ UNCHANGED <<candidates, collected, lost, parentVars>>

\* An iterator that ended with the task queue.
ReturnAll_QueueEmpty ==
    /\ pc = "polling" /\ ~truncated
    /\ queue = {} /\ results = {}
    /\ pc' = "returned"
    /\ UNCHANGED <<candidates, poolVars, parentVars>>

\* The iterator is exhausted: a result came back for every chunk.
ReturnAll ==
    /\ pc = "polling" /\ ~truncated
    /\ collected = Offsets
    /\ pc' = "returned"
    /\ UNCHANGED <<candidates, poolVars, parentVars>>

Ended == pc \in {"raised", "aborted", "returned"}

Idling == Ended /\ UNCHANGED vars

Next ==
    \/ RaiseEmpty \/ StartPool \/ ReturnTruncated \/ ReturnAll
    \/ \E w \in Workers : TakeTask(w) \/ FinishTask(w) \/ WorkerDies(w)
    \/ \E o \in Offsets : CollectResult(o) \/ CallbackRaises(o)
    \/ Idling

Spec == Init /\ [][Next]_vars

\* The parent and the processes of the pool keep running; nothing is assumed
\* of the callback, and nothing makes a process die.
Fairness ==
    /\ WF_vars(RaiseEmpty \/ StartPool \/ ReturnTruncated \/ ReturnAll)
    /\ WF_vars(\E o \in Offsets : CollectResult(o))
    /\ \A w \in Workers : WF_vars(TakeTask(w)) /\ WF_vars(FinishTask(w))

FairSpec == Spec /\ Fairness

-----------------------------------------------------------------------------

TypeOK ==
    /\ pc \in {"called", "polling", "returned", "raised", "aborted"}
    /\ candidates \in CandidateLists
    /\ queue \subseteq Offsets /\ results \subseteq Offsets
    /\ collected \subseteq Offsets /\ lost \subseteq Offsets
    /\ busy \in [Workers -> Offsets \cup {Idle}]
    /\ matches \subseteq 1..total
    /\ checked \in Nat
    /\ truncated \in BOOLEAN

\* No chunk is tested twice or forgotten: while the parent polls, each chunk
\* is in exactly one place.
InHand == {busy[w] : w \in Workers} \ {Idle}

EachChunkOnce ==
    pc = "polling" =>
        /\ queue \cup InHand \cup results \cup collected \cup lost = Offsets
        /\ \A o \in Offsets :
              /\ o \in queue => o \notin InHand \cup results \cup collected \cup lost
              /\ o \in InHand => o \notin results \cup collected \cup lost
              /\ o \in results => o \notin collected \cup lost
              /\ o \in collected => o \notin lost
        /\ \A v, w \in Workers : busy[v] = busy[w] /\ v # w => busy[v] = Idle

Examined == UNION {Chunk(o) : o \in collected}

\* The list of matches holds exactly the good texts of the chunks received,
\* and no text twice in an engine that looks it up first.
MatchesExact ==
    /\ ValuesAt(matches) = ValuesAt(Examined) \cap Good
    /\ Dedup => \A p, q \in matches : candidates[p] = candidates[q] => p = q

\* Before the pool is started there is nothing in it.
NothingYet ==
    /\ collected = {} /\ results = {} /\ lost = {} /\ ~truncated
    /\ busy = [w \in Workers |-> Idle]

\* The inductive invariant: the chunks handed to imap_unordered and the matches
\* taken from their results, from the call to the return.
IInv ==
    /\ TypeOK /\ EachChunkOnce /\ MatchesExact
    /\ pc \in {"called", "raised"} => NothingYet
    /\ truncated => matches # {}
    /\ pc = "returned" => truncated \/ collected = Offsets

\* CANDIDATES TESTED counts the candidates of the chunks received, each once:
\* it never passes the total, and reaches it when nothing was cut short.
CheckedExact ==
    /\ checked = Cardinality(Examined)
    /\ pc = "returned" /\ ~truncated => checked = total

\* The last chunk received may carry the list past the cap, but by less than
\* one chunk.
CapOvershoot == Cardinality(matches) < Cap + ChunkSize

\* The parent waits for a result that cannot come only when a process died
\* with its chunk.
WaitingInVain ==
    /\ pc = "polling" /\ ~truncated
    /\ queue = {} /\ InHand = {} /\ results = {}
    /\ collected # Offsets

HangsOnlyAfterDeath == WaitingInVain => lost # {}

\* The engine implements Search.  Its outcome is what the caller sees.
Outcome ==
    CASE pc \in {"called", "polling"} -> "running"
      [] pc = "raised" -> "refused"
      [] pc = "aborted" -> "aborted"
      [] pc = "returned" /\ truncated -> "stopped"
      [] pc = "returned" /\ ~truncated -> "exhausted"

Abstract == INSTANCE Search WITH
    Inputs <- CandidateLists, input <- candidates,
    todo <- (1..total) \ Examined, found <- ValuesAt(matches),
    outcome <- Outcome

ImplementsSearch == Abstract!Spec

\* Every call of an engine ends, unless a process dies with its chunk.
EventuallyEnds == <>(Ended \/ lost # {})
=============================================================================
