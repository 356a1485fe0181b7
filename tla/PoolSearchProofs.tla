-------------------------- MODULE PoolSearchProofs --------------------------
(***************************************************************************)
(* The pool engines, for every candidate list, chunk size, cap, number of  *)
(* processes and number of processes killed: the invariant IInv, the       *)
(* refinement of Search that rests on it, and the counts that are shown.   *)
(***************************************************************************)
EXTENDS PoolSearch, FiniteSetTheorems, TLAPS

\* The offset of the chunk that holds place p.
Home(p) == ChunkSize * ((p - 1) \div ChunkSize)

\* Chunking loses no candidate: each place of the list is in the chunk at
\* one of the offsets, the short last chunk included.
LEMMA ChunksCover ==
  ASSUME candidates \in CandidateLists
  PROVE  UNION {Chunk(o) : o \in Offsets} = 1..total
<1>1. total \in Nat
  BY ConstantsAssumption DEF total, CandidateLists
<1>2. ASSUME NEW p \in 1..total
      PROVE  Home(p) \in Offsets /\ p \in Chunk(Home(p))
  <2> DEFINE q == (p - 1) \div ChunkSize
             r == (p - 1) % ChunkSize
  <2>1. ChunkSize \in Nat /\ ChunkSize > 0 /\ p - 1 \in Nat
    BY <1>1, <1>2, ConstantsAssumption
  <2>2. q \in Nat
    BY <2>1
  <2>3. r \in 0..(ChunkSize - 1)
    BY <2>1
  <2>4. p - 1 = ChunkSize * q + r
    BY <2>1
  <2>5. (ChunkSize * q) % ChunkSize = 0
    BY <2>1, <2>2
  <2>6. ChunkSize * q \in Nat
    BY <2>1, <2>2
  <2> DEFINE b == ChunkSize * q
  <2>7. b \in Nat /\ p - 1 = b + r /\ b % ChunkSize = 0 /\ Home(p) = b
    BY <2>4, <2>5, <2>6 DEF Home
  <2> HIDE DEF q, r, b
  <2>8. b \in 0..(total - 1) /\ b < p /\ p <= b + ChunkSize
    BY <1>1, <2>1, <2>3, <2>7
  <2> QED
    BY <2>7, <2>8 DEF Offsets, Chunk
<1> QED
  BY <1>2 DEF Chunk

\* A chunk is finite, so that the worker's "checked" is a number.
LEMMA ReportedNat ==
  ASSUME candidates \in CandidateLists, NEW o
  PROVE  Reported(o) \in Nat
<1>1. total \in Nat
  BY ConstantsAssumption DEF total, CandidateLists
<1>2. IsFiniteSet(1..total)
  BY <1>1, FS_Interval
<1>3. IsFiniteSet(Chunk(o))
  BY <1>2, FS_Subset DEF Chunk
<1> QED
  BY <1>3, FS_CardinalityType DEF Reported

\* The entries added for a result are hits of its chunk, stand for every
\* good text of the chunk that the list lacked, and, in an engine that looks
\* texts up first, repeat none.
LEMMA NewMatchesExact ==
  ASSUME candidates \in CandidateLists, NEW o,
         MatchesExact, matches \subseteq 1..total
  PROVE  /\ NewMatches(o) \subseteq Hits(o)
         /\ ValuesAt(matches \cup NewMatches(o))
              = ValuesAt(matches) \cup (ValuesAt(Chunk(o)) \cap Good)
         /\ Dedup => \A p, q \in matches \cup NewMatches(o) :
                        candidates[p] = candidates[q] => p = q
<1>1. CASE ~Dedup
  BY <1>1 DEF NewMatches, ValuesAt, Hits
<1>2. CASE Dedup
  <2> DEFINE F(v) == CHOOSE p \in Hits(o) : candidates[p] = v
             New == ValuesAt(Hits(o)) \ ValuesAt(matches)
  <2>1. NewMatches(o) = {F(v) : v \in New}
    BY <1>2 DEF NewMatches
  <2>2. ASSUME NEW v \in New PROVE F(v) \in Hits(o) /\ candidates[F(v)] = v
    BY DEF ValuesAt
  <2>3. ValuesAt(Hits(o)) = ValuesAt(Chunk(o)) \cap Good
    BY DEF ValuesAt, Hits
  <2> HIDE DEF F
  <2>4. NewMatches(o) \subseteq Hits(o)
    BY <2>1, <2>2
  <2>5. ValuesAt(matches \cup NewMatches(o))
              = ValuesAt(matches) \cup (ValuesAt(Chunk(o)) \cap Good)
    <3>1. ValuesAt(NewMatches(o)) = New
      BY <2>1, <2>2 DEF ValuesAt
    <3>2. ValuesAt(matches \cup NewMatches(o))
            = ValuesAt(matches) \cup ValuesAt(NewMatches(o))
      BY DEF ValuesAt
    <3> QED
      BY <3>1, <3>2, <2>3
  <2>6. ASSUME NEW p \in matches \cup NewMatches(o),
               NEW q \in matches \cup NewMatches(o),
               candidates[p] = candidates[q]
        PROVE  p = q
    <3>1. CASE p \in matches /\ q \in matches
      BY <3>1, <2>6, <1>2 DEF MatchesExact
    <3>2. CASE p \in NewMatches(o) /\ q \in NewMatches(o)
      BY <3>2, <2>6, <2>1, <2>2
    <3>3. CASE p \in matches /\ q \in NewMatches(o)
      BY <3>3, <2>6, <2>1, <2>2 DEF ValuesAt
    <3>4. CASE p \in NewMatches(o) /\ q \in matches
      BY <3>4, <2>6, <2>1, <2>2 DEF ValuesAt
    <3> QED
      BY <3>1, <3>2, <3>3, <3>4
  <2> QED
    BY <2>4, <2>5, <2>6
<1> QED
  BY <1>1, <1>2

\* What a step that leaves the argument alone leaves alone with it.
LEMMA SameArgument ==
  ASSUME candidates' = candidates
  PROVE  /\ total' = total /\ Offsets' = Offsets
         /\ \A o : Chunk(o)' = Chunk(o)
         /\ \A S : ValuesAt(S)' = ValuesAt(S)
BY DEF total, Offsets, Chunk, ValuesAt

\* The effect of receiving one result on the parent's own variables.
LEMMA ReceiveStep ==
  ASSUME IInv, NEW o \in Offsets, Receive(o), candidates' = candidates
  PROVE  /\ matches' \subseteq 1..total
         /\ checked' \in Nat
         /\ truncated' \in BOOLEAN
         /\ truncated' => matches' # {}
         /\ Examined' = Examined \cup Chunk(o)
         /\ MatchesExact'
<1> USE DEF Receive
<1>1. candidates \in CandidateLists /\ matches \subseteq 1..total /\ checked \in Nat
  BY DEF IInv, TypeOK
<1>2. /\ NewMatches(o) \subseteq Hits(o)
      /\ ValuesAt(matches \cup NewMatches(o))
           = ValuesAt(matches) \cup (ValuesAt(Chunk(o)) \cap Good)
      /\ Dedup => \A p, q \in matches \cup NewMatches(o) :
                     candidates[p] = candidates[q] => p = q
  BY <1>1, NewMatchesExact DEF IInv
<1>3. matches' \subseteq 1..total
  BY <1>1, <1>2 DEF Hits, Chunk
<1>4. checked' \in Nat
  BY <1>1, ReportedNat
<1>5. truncated' \in BOOLEAN /\ (truncated' => matches' # {})
  <2>1. ~Enough(Cardinality({}))
    BY FS_EmptySet, ConstantsAssumption DEF Enough
  <2>2. \A n : Enough(n) \in BOOLEAN
    BY DEF Enough
  <2>3. truncated' = Enough(Cardinality(matches'))
    OBVIOUS
  <2>4. truncated' \in BOOLEAN
    BY <2>2, <2>3, Zenon
  <2>5. ASSUME matches' = {} PROVE ~truncated'
    BY <2>1, <2>3, <2>5, Zenon
  <2> QED
    BY <2>4, <2>5
<1>6. Examined' = Examined \cup Chunk(o)
  <2>1. Examined' = UNION {Chunk(x) : x \in collected \cup {o}}
    BY SameArgument DEF Examined
  <2> QED
    BY <2>1 DEF Examined
<1>7. MatchesExact'
  <2>1. ValuesAt(matches)' = ValuesAt(matches \cup NewMatches(o))
    BY SameArgument DEF ValuesAt
  <2>2. ValuesAt(Examined)' = ValuesAt(Examined \cup Chunk(o))
    BY <1>6 DEF ValuesAt
  <2>3. ValuesAt(Examined \cup Chunk(o)) = ValuesAt(Examined) \cup ValuesAt(Chunk(o))
    BY DEF ValuesAt
  <2>4. ValuesAt(matches) = ValuesAt(Examined) \cap Good
    BY DEF IInv, MatchesExact
  <2>5. ValuesAt(matches)' = ValuesAt(Examined)' \cap Good
    <3> DEFINE C == ValuesAt(Chunk(o))
               E == ValuesAt(Examined)
    <3>1. ValuesAt(matches)' = (E \cap Good) \cup (C \cap Good)
      BY <1>2, <2>1, <2>4, Zenon
    <3>2. ValuesAt(Examined)' = E \cup C
      BY <2>2, <2>3, Zenon
    <3> HIDE DEF C, E
    <3> QED
      BY <3>1, <3>2
  <2>6. (\A p, q \in matches : candidates[p] = candidates[q] => p = q)' \/ ~Dedup
    BY <1>2
  <2> QED
    BY <2>5, <2>6 DEF MatchesExact
<1> QED
  BY <1>3, <1>4, <1>5, <1>6, <1>7

\* Steps that touch neither the argument nor what has been received keep the
\* list exact.
LEMMA MatchesKept ==
  ASSUME MatchesExact, UNCHANGED <<candidates, collected, matches>>
  PROVE  MatchesExact'
<1>1. Examined' = Examined /\ ValuesAt(matches)' = ValuesAt(matches)
        /\ ValuesAt(Examined)' = ValuesAt(Examined)
  BY SameArgument DEF Examined, ValuesAt
<1> QED
  BY <1>1 DEF MatchesExact

\* One step of an engine keeps the invariant.
LEMMA PoolStep == IInv /\ [Next]_vars => IInv'
<1> SUFFICES ASSUME IInv, [Next]_vars PROVE IInv'
  OBVIOUS
<1> USE DEF poolVars, parentVars
<1>0. Offsets \subseteq Nat /\ Idle \notin Offsets
  <2>1. total \in Nat
    BY ConstantsAssumption DEF IInv, TypeOK, CandidateLists, total
  <2> QED
    BY <2>1 DEF Offsets, Idle
<1>1. CASE RaiseEmpty
  <2> USE <1>1 DEF RaiseEmpty
  <2>1. MatchesExact'
    BY MatchesKept DEF IInv
  <2> QED
    BY <2>1, SameArgument DEF IInv, TypeOK, EachChunkOnce, NothingYet
<1>2. CASE StartPool
  <2> USE <1>2 DEF StartPool
  <2>1. MatchesExact'
    BY MatchesKept DEF IInv
  <2>2. TypeOK'
    BY SameArgument DEF IInv, TypeOK
  <2> QED
    BY <2>1, <2>2, SameArgument DEF IInv, TypeOK, EachChunkOnce, InHand, NothingYet
<1>3. CASE ReturnTruncated
  <2> USE <1>3 DEF ReturnTruncated
  <2>1. MatchesExact'
    BY MatchesKept DEF IInv
  <2> QED
    BY <2>1, SameArgument DEF IInv, TypeOK, EachChunkOnce, NothingYet
<1>4. CASE ReturnAll
  <2> USE <1>4 DEF ReturnAll
  <2>1. MatchesExact'
    BY MatchesKept DEF IInv
  <2> QED
    BY <2>1, SameArgument DEF IInv, TypeOK, EachChunkOnce, NothingYet
<1>5. ASSUME NEW w \in Workers, TakeTask(w) PROVE IInv'
  <2> USE <1>5 DEF TakeTask
  <2>1. MatchesExact'
    BY MatchesKept DEF IInv
  <2>2. PICK o \in queue : queue' = queue \ {o} /\ busy' = [busy EXCEPT ![w] = o]
    OBVIOUS
  <2>3. o \in Offsets /\ busy \in [Workers -> Offsets \cup {Idle}]
    BY DEF IInv, TypeOK
  <2>4. TypeOK'
    BY <2>2, <2>3, SameArgument DEF IInv, TypeOK
  <2>5. InHand' = InHand \cup {o}
    BY <2>2, <2>3, <1>0 DEF InHand
  <2>6. EachChunkOnce'
    <3>1. \A u, v \in Workers : busy'[u] = busy'[v] /\ u # v => busy'[u] = Idle
      BY <2>2, <2>3 DEF IInv, EachChunkOnce, InHand
    <3> QED
      BY <2>2, <2>3, <2>5, <3>1, SameArgument DEF IInv, EachChunkOnce
  <2> QED
    BY <2>1, <2>4, <2>6, SameArgument DEF IInv
<1>6. ASSUME NEW w \in Workers, busy[w] # Idle, pc = "polling",
             NEW R, NEW L,
             results' = results \cup R, lost' = lost \cup L,
             R \cup L = {busy[w]}, R \cap L = {},
             busy' = [busy EXCEPT ![w] = Idle],
             UNCHANGED <<pc, candidates, queue, collected, parentVars>>
      PROVE  IInv'
  <2> DEFINE o == busy[w]
  <2>1. MatchesExact'
    BY <1>6, MatchesKept DEF IInv
  <2>2. o \in Offsets /\ busy \in [Workers -> Offsets \cup {Idle}]
    BY <1>6 DEF IInv, TypeOK
  <2>3. TypeOK'
    BY <1>6, <2>2, SameArgument DEF IInv, TypeOK
  <2>4. \A u \in Workers : u # w => busy[u] # o
    BY <1>6 DEF IInv, EachChunkOnce
  <2>5. InHand' = InHand \ {o}
    BY <1>6, <2>2, <2>4, <1>0 DEF InHand
  <2>6. o \in InHand
    BY <1>6 DEF InHand
  <2>7. EachChunkOnce'
    <3>1. \A u, v \in Workers : busy'[u] = busy'[v] /\ u # v => busy'[u] = Idle
      BY <1>6, <2>2 DEF IInv, EachChunkOnce
    <3> QED
      BY <1>6, <2>2, <2>5, <2>6, <3>1, SameArgument DEF IInv, EachChunkOnce
  <2> QED
    BY <1>6, <2>1, <2>3, <2>7, SameArgument DEF IInv
<1>7. ASSUME NEW w \in Workers, FinishTask(w) PROVE IInv'
  <2>1. /\ results' = results \cup {busy[w]} /\ lost' = lost \cup {}
        /\ {busy[w]} \cup {} = {busy[w]} /\ {busy[w]} \cap {} = {}
    BY <1>7 DEF FinishTask
  <2>2. /\ busy[w] # Idle /\ pc = "polling" /\ busy' = [busy EXCEPT ![w] = Idle]
        /\ UNCHANGED <<pc, candidates, queue, collected, parentVars>>
    BY <1>7 DEF FinishTask
  <2> QED
    BY <2>1, <2>2, <1>6
<1>8. ASSUME NEW w \in Workers, WorkerDies(w) PROVE IInv'
  <2>1. /\ results' = results \cup {} /\ lost' = lost \cup {busy[w]}
        /\ {} \cup {busy[w]} = {busy[w]} /\ {} \cap {busy[w]} = {}
    BY <1>8 DEF WorkerDies
  <2>2. /\ busy[w] # Idle /\ pc = "polling" /\ busy' = [busy EXCEPT ![w] = Idle]
        /\ UNCHANGED <<pc, candidates, queue, collected, parentVars>>
    BY <1>8 DEF WorkerDies
  <2> QED
    BY <2>1, <2>2, <1>6
<1>9. ASSUME NEW o \in Offsets, CollectResult(o) PROVE IInv'
  <2> USE <1>9 DEF CollectResult
  <2>1. /\ matches' \subseteq 1..total /\ checked' \in Nat
        /\ truncated' \in BOOLEAN /\ (truncated' => matches' # {})
        /\ MatchesExact'
    BY ReceiveStep
  <2>2. /\ pc = "polling" /\ o \in results /\ results' = results \ {o}
        /\ collected' = collected \cup {o}
    BY DEF Receive
  <2>3. TypeOK'
    BY <2>1, <2>2, SameArgument DEF IInv, TypeOK
  <2>4. InHand' = InHand
    BY DEF InHand
  <2>5. EachChunkOnce'
    BY <2>2, <2>4, SameArgument DEF IInv, TypeOK, EachChunkOnce, NothingYet
  <2> QED
    BY <2>1, <2>2, <2>3, <2>5 DEF IInv
<1>10. ASSUME NEW o \in Offsets, CallbackRaises(o) PROVE IInv'
  <2> USE <1>10 DEF CallbackRaises
  <2>1. /\ matches' \subseteq 1..total /\ checked' \in Nat
        /\ truncated' \in BOOLEAN /\ (truncated' => matches' # {})
        /\ MatchesExact'
    BY ReceiveStep
  <2>2. results' = results \ {o} /\ collected' = collected \cup {o}
    BY DEF Receive
  <2>3. TypeOK'
    BY <2>1, <2>2, SameArgument DEF IInv, TypeOK
  <2> QED
    BY <2>1, <2>3 DEF IInv, EachChunkOnce
<1>11. CASE UNCHANGED vars
  <2> USE <1>11 DEF vars
  <2>1. MatchesExact'
    BY MatchesKept DEF IInv
  <2>2. InHand' = InHand
    BY DEF InHand
  <2> QED
    BY <2>1, <2>2, SameArgument DEF IInv, TypeOK, EachChunkOnce, NothingYet
<1> QED
  BY <1>1, <1>2, <1>3, <1>4, <1>5, <1>7, <1>8, <1>9, <1>10, <1>11
     DEF Next, Idling

\* Every engine keeps its books: each chunk is in one place only, and the
\* matches are exactly the good texts of the chunks received, whatever the
\* order of the results and whichever processes die.
THEOREM PoolInvariant == Spec => []IInv
<1>1. Init => IInv
  <2> SUFFICES ASSUME Init PROVE IInv
    OBVIOUS
  <2>1. Examined = {}
    BY DEF Init, Examined
  <2> QED
    BY <2>1 DEF Init, IInv, TypeOK, EachChunkOnce, MatchesExact, ValuesAt, NothingYet
<1> QED
  BY <1>1, PoolStep, PTL DEF Spec

\* The places still to be examined, as Search sees them.
Todo == (1..total) \ Examined

\* Receiving a result is a batch of Search: the places of the chunk.
LEMMA ReceiveExamines ==
  ASSUME IInv, NEW o \in Offsets, Receive(o), candidates' = candidates
  PROVE  \E S \in SUBSET Todo :
            /\ Todo' = Todo \ S
            /\ ValuesAt(matches)' = ValuesAt(matches) \cup Abstract!GoodAt(candidates, S)
<1>1. Examined' = Examined \cup Chunk(o) /\ MatchesExact'
  BY ReceiveStep
<1> DEFINE S == Chunk(o) \ Examined
<1>2. S \in SUBSET Todo
  BY DEF Todo, Chunk
<1>3. Todo' = Todo \ S
  BY <1>1, SameArgument DEF Todo
<1>4. ValuesAt(matches)' = ValuesAt(Examined)' \cap Good
  BY <1>1 DEF MatchesExact
<1>5. ValuesAt(Examined)' = ValuesAt(Examined) \cup ValuesAt(S)
  BY <1>1 DEF ValuesAt
<1>6. ValuesAt(matches) = ValuesAt(Examined) \cap Good
  BY DEF IInv, MatchesExact
<1>7. Abstract!GoodAt(candidates, S) = ValuesAt(S) \cap Good
  BY DEF Abstract!GoodAt, ValuesAt
<1>8. ValuesAt(matches)' = ValuesAt(matches) \cup Abstract!GoodAt(candidates, S)
  <2> DEFINE E == ValuesAt(Examined)
             T == ValuesAt(S)
  <2>1. ValuesAt(matches)' = (E \cup T) \cap Good
    BY <1>4, <1>5, Zenon
  <2>2. ValuesAt(matches) \cup Abstract!GoodAt(candidates, S)
          = (E \cap Good) \cup (T \cap Good)
    BY <1>6, <1>7, Zenon
  <2> HIDE DEF E, T
  <2> QED
    BY <2>1, <2>2
<1> QED
  BY <1>2, <1>3, <1>8

\* Steps of the pool's processes are invisible to Search.
LEMMA PoolStutters ==
  ASSUME UNCHANGED <<candidates, collected, matches, truncated>>
  PROVE  Todo' = Todo /\ ValuesAt(matches)' = ValuesAt(matches)
BY SameArgument DEF Todo, Examined, ValuesAt

\* Each step of an engine is a step of Search or changes nothing it sees.
LEMMA PoolRefinesStep ==
  IInv /\ IInv' /\ [Next]_vars => [Abstract!Next]_(Abstract!vars)
<1> SUFFICES ASSUME IInv, IInv', [Next]_vars
             PROVE  Abstract!Next \/ UNCHANGED Abstract!vars
  OBVIOUS
<1> USE DEF poolVars, parentVars
<1>a. candidates \in CandidateLists /\ DOMAIN candidates = 1..total
  BY DEF IInv, TypeOK, CandidateLists, total
<1>b. truncated \in BOOLEAN /\ truncated' \in BOOLEAN
  BY DEF IInv, TypeOK
<1>1. CASE RaiseEmpty
  <2> USE <1>1 DEF RaiseEmpty
  <2>1. Examined = {} /\ ValuesAt(matches) = {}
    BY DEF IInv, NothingYet, Examined, MatchesExact, ValuesAt
  <2>2. Todo' = Todo /\ ValuesAt(matches)' = ValuesAt(matches)
    BY PoolStutters
  <2>3. Todo = DOMAIN candidates
    BY <1>a, <2>1 DEF Todo
  <2>4. Outcome = "running" /\ Outcome' = "refused"
    BY DEF Outcome
  <2> QED
    BY <2>1, <2>2, <2>3, <2>4 DEF Abstract!Next, Abstract!Refuse, Todo
<1>2. CASE StartPool
  <2> USE <1>2 DEF StartPool
  <2>1. Todo' = Todo /\ ValuesAt(matches)' = ValuesAt(matches)
    BY PoolStutters
  <2>2. Outcome' = Outcome
    BY DEF Outcome
  <2> QED
    BY <2>1, <2>2 DEF Abstract!vars, Todo
<1>3. CASE ReturnTruncated
  <2> USE <1>3 DEF ReturnTruncated
  <2>1. Todo' = Todo /\ ValuesAt(matches)' = ValuesAt(matches)
    BY PoolStutters
  <2>2. Outcome = "running" /\ Outcome' = "stopped"
    BY DEF Outcome
  <2>3. ValuesAt(matches)' # {}
    BY <2>1 DEF IInv, ValuesAt
  <2>4. \E S \in SUBSET Todo : \E H \in SUBSET Abstract!GoodAt(candidates, S) :
           Todo' = Todo \ S /\ ValuesAt(matches)' = ValuesAt(matches) \cup H
    <3>1. {} \in SUBSET Todo /\ {} \in SUBSET Abstract!GoodAt(candidates, {})
      OBVIOUS
    <3>2. Todo' = Todo \ {} /\ ValuesAt(matches)' = ValuesAt(matches) \cup {}
      BY <2>1
    <3> QED
      BY <3>1, <3>2
  <2> QED
    BY <2>2, <2>3, <2>4 DEF Abstract!Next, Abstract!Stop, Todo
<1>4. CASE ReturnAll
  <2> USE <1>4 DEF ReturnAll
  <2>1. Todo' = Todo /\ ValuesAt(matches)' = ValuesAt(matches)
    BY PoolStutters
  <2>2. Outcome = "running" /\ Outcome' = "exhausted"
    BY DEF Outcome
  <2>3. Todo = {}
    BY <1>a, ChunksCover DEF Todo, Examined
  <2> QED
    BY <2>1, <2>2, <2>3 DEF Abstract!Next, Abstract!Exhaust, Todo
<1>5. ASSUME NEW w \in Workers, TakeTask(w) \/ FinishTask(w) \/ WorkerDies(w)
      PROVE  UNCHANGED Abstract!vars
  <2> USE <1>5 DEF TakeTask, FinishTask, WorkerDies
  <2>1. Todo' = Todo /\ ValuesAt(matches)' = ValuesAt(matches)
    BY PoolStutters
  <2>2. Outcome' = Outcome
    BY DEF Outcome
  <2> QED
    BY <2>1, <2>2 DEF Abstract!vars, Todo
<1>6. ASSUME NEW o \in Offsets, CollectResult(o)
      PROVE  Abstract!Next
  <2> USE <1>6 DEF CollectResult
  <2>1. Outcome = "running" /\ Outcome' = "running"
    BY DEF Receive, Outcome
  <2>2. \E S \in SUBSET Todo :
            /\ Todo' = Todo \ S
            /\ ValuesAt(matches)' = ValuesAt(matches) \cup Abstract!GoodAt(candidates, S)
    BY ReceiveExamines
  <2> QED
    BY <2>1, <2>2 DEF Abstract!Next, Abstract!Examine, Todo
<1>7. ASSUME NEW o \in Offsets, CallbackRaises(o)
      PROVE  Abstract!Next
  <2> USE <1>7 DEF CallbackRaises
  <2>1. Outcome = "running" /\ Outcome' = "aborted"
    BY DEF Receive, Outcome
  <2>2. \E S \in SUBSET Todo :
            /\ Todo' = Todo \ S
            /\ ValuesAt(matches)' = ValuesAt(matches) \cup Abstract!GoodAt(candidates, S)
    BY ReceiveExamines
  <2>3. \E S \in SUBSET Todo : \E H \in SUBSET Abstract!GoodAt(candidates, S) :
           Todo' = Todo \ S /\ ValuesAt(matches)' = ValuesAt(matches) \cup H
    BY <2>2
  <2> QED
    BY <2>1, <2>3 DEF Abstract!Next, Abstract!Abort, Todo
<1>8. CASE UNCHANGED vars
  <2> USE <1>8 DEF vars
  <2>1. Todo' = Todo /\ ValuesAt(matches)' = ValuesAt(matches)
    BY PoolStutters
  <2>2. Outcome' = Outcome
    BY DEF Outcome
  <2> QED
    BY <2>1, <2>2 DEF Abstract!vars, Todo
<1> QED
  BY <1>1, <1>2, <1>3, <1>4, <1>5, <1>6, <1>7, <1>8 DEF Next, Idling

\* The six pool engines implement Search: no interleaving of results, death
\* of a process, early stop or raising callback makes one report a wrong
\* text, or end as complete with a candidate untested.
THEOREM PoolImplementsSearch == Spec => ImplementsSearch
<1>1. Init => Abstract!Init
  <2> SUFFICES ASSUME Init PROVE Abstract!Init
    OBVIOUS
  <2>1. Examined = {} /\ ValuesAt(matches) = {} /\ DOMAIN candidates = 1..total
    BY DEF Init, Examined, ValuesAt, CandidateLists, total
  <2>2. Outcome = "running"
    BY DEF Init, Outcome
  <2> QED
    BY <2>1, <2>2 DEF Init, Abstract!Init
<1> QED
  BY <1>1, PoolInvariant, PoolRefinesStep, PTL
     DEF Spec, ImplementsSearch, Abstract!Spec

\* A caller never waits for a result that cannot come unless a process of
\* the pool died with its chunk.
THEOREM PoolNeverStuckAlone == Spec => []HangsOnlyAfterDeath
<1>1. IInv => HangsOnlyAfterDeath
  BY DEF IInv, EachChunkOnce, HangsOnlyAfterDeath, WaitingInVain
<1> QED
  BY <1>1, PoolInvariant, PTL

-----------------------------------------------------------------------------
(* What the caller may conclude *)

\* The promise of Search, kept by the pool engines: a call that returns
\* without "truncated" returns every good text of its argument and nothing
\* else, a truncated one returns at least one, and a call that is under way
\* has every good text of what it has examined.
THEOREM PoolKeepsPromise == Spec => []Abstract!IInv
<1>1. IInv => Abstract!IInv
  <2> SUFFICES ASSUME IInv PROVE Abstract!IInv
    OBVIOUS
  <2>1. candidates \in CandidateLists /\ DOMAIN candidates = 1..total
    BY DEF IInv, TypeOK, CandidateLists, total
  <2>2. Examined \subseteq 1..total
    BY DEF Examined, Chunk
  <2>3. ValuesAt(matches) = Abstract!GoodAt(candidates, Examined)
    BY DEF IInv, MatchesExact, ValuesAt, Abstract!GoodAt
  <2>4. DOMAIN candidates \ Todo = Examined
    BY <2>1, <2>2 DEF Todo
  <2>5. Outcome \in Abstract!Outcomes
    <3>1. truncated \in BOOLEAN
      BY DEF IInv, TypeOK
    <3> QED
      BY <3>1 DEF IInv, TypeOK, Outcome, Abstract!Outcomes
  <2>6. Outcome = "exhausted" => Todo = {}
    <3> SUFFICES ASSUME Outcome = "exhausted" PROVE Todo = {}
      OBVIOUS
    <3>1. pc = "returned" /\ ~truncated
      BY DEF IInv, TypeOK, Outcome
    <3>2. collected = Offsets
      BY <3>1 DEF IInv
    <3> QED
      BY <2>1, <3>2, ChunksCover DEF Todo, Examined
  <2>7. Outcome = "stopped" => ValuesAt(matches) # {}
    <3> SUFFICES ASSUME Outcome = "stopped" PROVE ValuesAt(matches) # {}
      OBVIOUS
    <3>1. truncated
      BY DEF IInv, TypeOK, Outcome
    <3>2. matches # {}
      BY <3>1 DEF IInv
    <3> QED
      BY <3>2 DEF ValuesAt
  <2>8. Abstract!TypeOK
    BY <2>1, <2>2, <2>3, <2>5 DEF Abstract!TypeOK, Abstract!GoodAt
  <2>9. Abstract!NothingSkipped
    BY <2>3, <2>4 DEF Abstract!NothingSkipped, Todo
  <2>10. Abstract!Promise
    <3>1. Outcome = "exhausted" => Examined = DOMAIN candidates
      BY <2>1, <2>2, <2>6 DEF Todo
    <3> QED
      BY <2>3, <2>7, <3>1 DEF Abstract!Promise
  <2> QED
    BY <2>6, <2>8, <2>9, <2>10 DEF Abstract!IInv, Todo
<1> QED
  BY <1>1, PoolInvariant, PTL

\* A step of Search never takes a result back, returns to a candidate, or
\* goes on after the end; so no step of an engine does.
THEOREM PoolProgresses == Spec => Abstract!Progressive
<1> DEFINE Forward == /\ ValuesAt(matches) \subseteq ValuesAt(matches)'
                      /\ ((1..total) \ Examined)' \subseteq (1..total) \ Examined
                      /\ Outcome = "running"
<1>1. [Abstract!Next]_(Abstract!vars) => [Forward]_(Abstract!vars)
  <2> SUFFICES ASSUME Abstract!Next PROVE Forward
    OBVIOUS
  <2> QED
    BY DEF Abstract!Next, Abstract!Refuse, Abstract!Examine, Abstract!Stop,
           Abstract!Exhaust, Abstract!Abort
<1> QED
  BY <1>1, PoolImplementsSearch, PTL DEF ImplementsSearch, Abstract!Spec, Abstract!Progressive

-----------------------------------------------------------------------------
(* The counts that are shown *)

\* Two chunks share no candidate.
LEMMA ChunksDisjoint ==
  ASSUME candidates \in CandidateLists, NEW o \in Offsets, NEW q \in Offsets, o # q
  PROVE  Chunk(o) \cap Chunk(q) = {}
<1>1. total \in Nat
  BY ConstantsAssumption DEF total, CandidateLists
<1>2. ASSUME NEW a \in Offsets, NEW b \in Offsets, a < b
      PROVE  a + ChunkSize <= b
  <2> DEFINE m == a \div ChunkSize
             n == b \div ChunkSize
  <2>1. ChunkSize \in Nat /\ ChunkSize > 0
    BY ConstantsAssumption
  <2>2. a \in Nat /\ b \in Nat /\ a % ChunkSize = 0 /\ b % ChunkSize = 0
    BY <1>1 DEF Offsets
  <2>3. m \in Nat /\ a = ChunkSize * m
    BY <2>1, <2>2
  <2>4. n \in Nat /\ b = ChunkSize * n
    BY <2>1, <2>2
  <2> HIDE DEF m, n
  <2>5. n >= m + 1
    <3> SUFFICES ASSUME n <= m PROVE FALSE
      BY <2>3, <2>4
    <3>1. ChunkSize * n <= ChunkSize * m
      BY <2>1, <2>3, <2>4
    <3> QED
      BY <1>2, <2>2, <2>3, <2>4, <3>1
  <2>6. ChunkSize * (m + 1) <= ChunkSize * n
    BY <2>1, <2>3, <2>4, <2>5
  <2>7. ChunkSize * (m + 1) = ChunkSize * m + ChunkSize
    BY <2>1, <2>3
  <2> QED
    BY <2>3, <2>4, <2>6, <2>7
<1>3. o \in Int /\ q \in Int /\ ChunkSize \in Int
  BY <1>1, ConstantsAssumption DEF Offsets
<1>4. o + ChunkSize <= q \/ q + ChunkSize <= o
  BY <1>2, <1>3
<1> QED
  BY <1>1, <1>3, <1>4 DEF Chunk

\* A chunk has at most chunk_size candidates.
LEMMA ChunkFinite ==
  ASSUME candidates \in CandidateLists, NEW o \in Offsets
  PROVE  IsFiniteSet(Chunk(o)) /\ Cardinality(Chunk(o)) <= ChunkSize
<1>1. total \in Nat
  BY ConstantsAssumption DEF total, CandidateLists
<1>2. o \in Nat /\ ChunkSize \in Nat /\ ChunkSize > 0
  BY <1>1, ConstantsAssumption DEF Offsets
<1>3. Chunk(o) \subseteq (o + 1)..(o + ChunkSize)
  BY <1>1, <1>2 DEF Chunk
<1>4. /\ IsFiniteSet((o + 1)..(o + ChunkSize))
      /\ Cardinality((o + 1)..(o + ChunkSize)) = ChunkSize
  BY <1>2, FS_Interval
<1> QED
  BY <1>3, <1>4, FS_Subset

\* What is counted: the candidates of the chunks received, and, before the
\* run is cut short, fewer matches than end it.
CountInv ==
    /\ checked = Cardinality(Examined)
    /\ ~truncated => Cardinality(matches) < Cap
    /\ CapOvershoot

\* Subsets of the places are finite.
LEMMA PlacesFinite ==
  ASSUME candidates \in CandidateLists, NEW S, S \subseteq 1..total
  PROVE  IsFiniteSet(S) /\ Cardinality(S) \in Nat
<1>1. total \in Nat
  BY ConstantsAssumption DEF total, CandidateLists
<1>2. IsFiniteSet(1..total)
  BY <1>1, FS_Interval
<1>3. IsFiniteSet(S)
  BY <1>2, FS_Subset
<1> QED
  BY <1>3, FS_CardinalityType

\* A result adds its chunk, of which nothing was counted before, and at most
\* a chunk of matches to fewer than Cap.
LEMMA ReceiveCounts ==
  ASSUME IInv, CountInv, NEW o \in Offsets, Receive(o), candidates' = candidates
  PROVE  CountInv'
<1> USE DEF Receive
<1>1. /\ candidates \in CandidateLists /\ checked \in Nat /\ truncated \in BOOLEAN
      /\ matches \subseteq 1..total /\ collected \subseteq Offsets
  BY DEF IInv, TypeOK
<1>2. Examined' = Examined \cup Chunk(o)
  BY ReceiveStep
<1>3. Examined \cap Chunk(o) = {}
  <2>1. o \notin collected
    BY DEF IInv, EachChunkOnce
  <2>2. \A c \in collected : Chunk(c) \cap Chunk(o) = {}
    BY <1>1, <2>1, ChunksDisjoint
  <2> QED
    BY <2>2 DEF Examined
<1>4. IsFiniteSet(Examined) /\ Cardinality(Examined) \in Nat
  <2>1. Examined \subseteq 1..total
    BY DEF Examined, Chunk
  <2> QED
    BY <1>1, <2>1, PlacesFinite
<1>5. /\ IsFiniteSet(Chunk(o)) /\ Cardinality(Chunk(o)) \in Nat
      /\ Cardinality(Chunk(o)) <= ChunkSize
  BY <1>1, ChunkFinite, FS_CardinalityType
<1>6. Cardinality(Examined') = Cardinality(Examined) + Cardinality(Chunk(o))
  <2>1. Cardinality(Examined \cup Chunk(o))
          = Cardinality(Examined) + Cardinality(Chunk(o)) - Cardinality(Examined \cap Chunk(o))
    BY <1>4, <1>5, FS_Union
  <2>2. Cardinality(Examined \cap Chunk(o)) = 0
    BY <1>3, FS_EmptySet
  <2> QED
    BY <1>2, <1>4, <1>5, <2>1, <2>2
<1>7. (checked = Cardinality(Examined))'
  BY <1>6 DEF CountInv, Reported
<1>8. NewMatches(o) \subseteq Chunk(o)
  BY <1>1, NewMatchesExact DEF IInv, Hits
<1>9. /\ IsFiniteSet(NewMatches(o)) /\ Cardinality(NewMatches(o)) \in Nat
      /\ Cardinality(NewMatches(o)) <= Cardinality(Chunk(o))
  BY <1>5, <1>8, FS_Subset, FS_CardinalityType
<1>10. IsFiniteSet(matches) /\ Cardinality(matches) \in Nat
  BY <1>1, PlacesFinite
<1>11. /\ Cardinality(matches') \in Nat
       /\ Cardinality(matches') <= Cardinality(matches) + Cardinality(NewMatches(o))
  <2>1. /\ IsFiniteSet(matches')
        /\ Cardinality(matches') = Cardinality(matches) + Cardinality(NewMatches(o))
                                     - Cardinality(matches \cap NewMatches(o))
    BY <1>9, <1>10, FS_Union
  <2>2. Cardinality(matches \cap NewMatches(o)) \in Nat
    BY <1>10, FS_Subset, FS_CardinalityType
  <2>3. Cardinality(matches') \in Nat
    BY <2>1, FS_CardinalityType
  <2> QED
    BY <1>9, <1>10, <2>1, <2>2, <2>3
<1>12. CapOvershoot'
  <2>1. Cardinality(matches) < Cap
    BY DEF CountInv
  <2>2. Cap \in Nat /\ ChunkSize \in Nat
    BY ConstantsAssumption
  <2> QED
    BY <1>5, <1>9, <1>10, <1>11, <2>1, <2>2 DEF CapOvershoot
<1>13. (~truncated => Cardinality(matches) < Cap)'
  <2>1. truncated' = (Cardinality(matches') >= Cap)
    BY DEF Enough
  <2>2. Cap \in Nat
    BY ConstantsAssumption
  <2>3. Cardinality(matches') >= Cap \/ Cardinality(matches') < Cap
    BY <1>11, <2>2
  <2> QED
    BY <2>1, <2>3
<1> QED
  BY <1>7, <1>12, <1>13 DEF CountInv

\* The counts change with a result only.
LEMMA CountStep == IInv /\ CountInv /\ [Next]_vars => CountInv'
<1> SUFFICES ASSUME IInv, CountInv, [Next]_vars PROVE CountInv'
  OBVIOUS
<1> USE DEF poolVars, parentVars
<1>1. ASSUME UNCHANGED <<candidates, collected, matches, checked, truncated>>
      PROVE  CountInv'
  <2>1. Examined' = Examined
    BY <1>1, SameArgument DEF Examined
  <2> QED
    BY <1>1, <2>1 DEF CountInv, CapOvershoot
<1>2. ASSUME NEW o \in Offsets, CollectResult(o) \/ CallbackRaises(o)
      PROVE  CountInv'
  BY <1>2, ReceiveCounts DEF CollectResult, CallbackRaises
<1>3. ASSUME NEW w \in Workers, TakeTask(w) \/ FinishTask(w) \/ WorkerDies(w)
      PROVE  CountInv'
  BY <1>1, <1>3 DEF TakeTask, FinishTask, WorkerDies
<1>4. CASE RaiseEmpty \/ StartPool \/ ReturnTruncated \/ ReturnAll
  BY <1>1, <1>4 DEF RaiseEmpty, StartPool, ReturnTruncated, ReturnAll
<1>5. CASE UNCHANGED vars
  BY <1>1, <1>5 DEF vars
<1> QED
  BY <1>2, <1>3, <1>4, <1>5 DEF Next, Idling

\* The figures of the search keep their invariant, with the one it rests on.
LEMMA CountInvariant == Spec => [](IInv /\ CountInv)
<1>1. Init => CountInv
  <2> SUFFICES ASSUME Init PROVE CountInv
    OBVIOUS
  <2>1. Examined = {} /\ matches = {} /\ checked = 0
    BY DEF Init, Examined
  <2>2. Cap \in Nat /\ Cap > 0 /\ ChunkSize \in Nat
    BY ConstantsAssumption
  <2> QED
    BY <2>1, <2>2, FS_EmptySet DEF CountInv, CapOvershoot
<1> QED
  BY <1>1, CountStep, PoolInvariant, PTL DEF Spec

\* CANDIDATES TESTED counts each candidate of the chunks received once, for
\* every order of the results, and is the length of the list when a call
\* returns without "truncated".
THEOREM PoolCountsExactly == Spec => []CheckedExact
<1>1. IInv /\ CountInv => CheckedExact
  <2> SUFFICES ASSUME IInv, CountInv PROVE CheckedExact
    OBVIOUS
  <2>1. ASSUME pc = "returned", ~truncated PROVE checked = total
    <3>1. candidates \in CandidateLists /\ collected = Offsets
      BY <2>1 DEF IInv, TypeOK
    <3>2. Examined = 1..total
      BY <3>1, ChunksCover DEF Examined
    <3>3. total \in Nat
      BY <3>1, ConstantsAssumption DEF total, CandidateLists
    <3>4. Cardinality(1..total) = total
      BY <3>3, FS_Interval
    <3> QED
      BY <3>2, <3>4 DEF CountInv
  <2> QED
    BY <2>1 DEF CountInv, CheckedExact
<1> QED
  BY <1>1, CountInvariant, PTL

\* The list of matches passes the cap by less than a chunk.
THEOREM PoolOvershootBounded == Spec => []CapOvershoot
<1>1. CountInv => CapOvershoot
  BY DEF CountInv
<1> QED
  BY <1>1, CountInvariant, PTL
=============================================================================
