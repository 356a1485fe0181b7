---------------------------- MODULE StreamProofs ----------------------------
(***************************************************************************)
(* The password order of the engine, for every list of passwords, filter,  *)
(* worker share, batch and chunk size and number of sittings: counting,    *)
(* skipping and searching go through one and the same sequence.            *)
(*                                                                         *)
(* The order is spoken of by numbers: Before(I, n) says how many of the    *)
(* places I come before n, and the counters of the generator are such      *)
(* numbers (PlaceOK).                                                      *)
(***************************************************************************)
EXTENDS Stream, FiniteSetTheorems, SequenceTheorems, TLAPS

-----------------------------------------------------------------------------
\* The inductive invariant

\* The password x is among the first n of s, and is there more than once.
Prior(s, x, n) == \E i \in 1 .. n : s[i] = x
Twice(s, x, n) == \E i, j \in 1 .. n : i < j /\ s[i] = x /\ s[j] = x

\* It is a duplicate that the first n have brought to light, when repetitions
\* are looked for (d) or not.
Marked(s, d, x, n) ==
    /\ x \notin Rejected
    /\ IF x \in Excluded THEN Prior(s, x, n) ELSE d /\ Twice(s, x, n)

\* The checker c in its first run, after n passwords of s: who was there is
\* in one of the two tables, and the duplicates are in dups.
FirstRun(s, d, c, n) ==
    /\ c.tracking = d
    /\ \A x \in DOMAIN c.seen :
          x \notin DOMAIN c.dups /\ c.seen[x] = IF x \in Excluded THEN EXCLUDE ELSE 1
    /\ \A x \in DOMAIN c.dups : c.dups[x] = IF x \in Excluded THEN EXCLUDE ELSE 1
    /\ \A x \in Values :
          x \in DOMAIN c.seen \cup DOMAIN c.dups
             <=> x \in Excluded \/ (d /\ x \notin Rejected /\ Prior(s, x, n))
    /\ \A x \in Values : x \in DOMAIN c.dups <=> Marked(s, d, x, n)

\* In its second run: the duplicates are known, and those that were let
\* through in this run carry its mark.
SecondRun(s, d, c, n) ==
    /\ \A x \in Values : x \in DOMAIN c.dups <=> Marked(s, d, x, Len(s))
    /\ \A x \in DOMAIN c.dups :
          c.dups[x] = IF x \in Excluded THEN EXCLUDE
                      ELSE IF Prior(s, x, n) THEN 2 ELSE 1

\* A generator that is over has closed its run of the checker; the one that
\* counts has the first.
CheckerOK ==
    phase # "off" /\ HasChecker(opts) =>
        /\ checker.run = 0 => FirstRun(raw, opts.dupcheck, checker, gen.at)
        /\ checker.run = 1 =>
              SecondRun(raw, opts.dupcheck, checker, IF gen.over THEN 0 ELSE gen.at)
        /\ IF gen.over THEN checker.run > 0 ELSE checker.run < 2
        /\ phase = "count" => checker.run = IF gen.over THEN 1 ELSE 0

\* What has left the generator: the passwords counted or skipped, and those
\* searched.
Left == counted + Len(searched)

\* The generator stands in raw where its counters say, and what is pending
\* is what is due next.
PlaceOK ==
    phase # "off" =>
        /\ gen.share = Before(Fresh(opts), gen.at + 1)
        /\ Left + gen.count = Before(Due(opts), gen.at + 1)
        /\ Len(gen.got) = gen.count
        /\ \A k \in 1 .. gen.count : gen.got[k] = Expected(opts)[Left + k]

\* It waits with a full chunk, or with the rest at the end of raw.
YieldOK ==
    phase # "off" =>
        /\ gen.count <= gen.n
        /\ gen.wait => gen.count > 0 /\ (gen.count = gen.n \/ gen.over)
        /\ ~gen.wait => gen.count < gen.n
        /\ gen.over => gen.at = Len(raw) /\ (~gen.wait => gen.count = 0)

\* How far the skip has come in each of its phases.
SkipOK ==
    /\ phase = "count" => skipped = {}
    /\ phase = "skip" => counted = 0 /\ gen.n = skip
    /\ phase = "skip_much" => counted + Between < skip /\ gen.n = Between
    /\ phase = "skip_rest" => counted < skip /\ gen.n = skip - counted
    /\ phase = "search" => counted <= skip /\ gen.n = chunksize
    /\ phase \notin {"off", "search"} => searched = <<>> /\ sizes = <<>>
    /\ phase \notin {"off", "count"} =>
          skipped = {Expected(opts)[k] : k \in 1 .. counted}

\* What the search was given, and that only the last chunk was short.
SearchOK ==
    /\ ChunksFull
    /\ phase = "search" =>
          /\ \A k \in 1 .. Len(searched) :
                searched[k] = Expected(opts)[counted + k] /\ searched[k] \in tested
          /\ sizes # <<>> /\ sizes[Len(sizes)] # chunksize => gen.over /\ ~gen.wait

\* What one sitting leaves to the next.
SessionOK ==
    /\ wish <= skip
    /\ sittings = 0 => phase = "off" /\ total = None /\ skip = wish /\ ~changed
    /\ CountExact
    /\ ~changed => \A k \in DOMAIN Expected(opts) \cap (wish + 1) .. skip :
                        Expected(opts)[k] \in tested

IInv ==
    /\ TypeOK /\ CheckerOK /\ PlaceOK /\ YieldOK /\ SkipOK /\ SearchOK /\ SessionOK

-----------------------------------------------------------------------------
\* Counting places

\* Going one place on passes that place, if it counts.
LEMMA BeforeStep ==
  ASSUME NEW I, IsFiniteSet(I), I \subseteq Nat, NEW n \in Nat
  PROVE  /\ Before(I, n) \in Nat
         /\ Before(I, n + 1) = IF n \in I THEN Before(I, n) + 1 ELSE Before(I, n)
<1> DEFINE J == {i \in I : i < n}
<1>1. IsFiniteSet(J) /\ n \notin J
  BY FS_Subset
<1>2. {i \in I : i < n + 1} = IF n \in I THEN J \cup {n} ELSE J
  <2>1. \A i \in I : i \in Nat /\ (i < n + 1 <=> i < n \/ i = n)
    OBVIOUS
  <2> QED
    BY <2>1
<1> HIDE DEF J
<1>3. Cardinality(J) \in Nat
  BY <1>1, FS_CardinalityType
<1>4. Cardinality(J \cup {n}) = Cardinality(J) + 1
  BY <1>1, FS_AddElement
<1> QED
  BY <1>2, <1>3, <1>4 DEF Before, J

\* No place comes before the first, and all come before the end.
LEMMA BeforeEnds ==
  ASSUME NEW I, NEW m \in Nat, I \subseteq 1 .. m
  PROVE  /\ IsFiniteSet(I) /\ Cardinality(I) \in Nat
         /\ Before(I, 1) = 0
         /\ Before(I, m + 1) = Cardinality(I)
         /\ \A n \in Nat : Before(I, n) \in Nat /\ Before(I, n) <= Cardinality(I)
<1>1. IsFiniteSet(I)
  <2>1. IsFiniteSet(1 .. m)
    BY FS_Interval
  <2> QED
    BY <2>1, FS_Subset
<1>2. Cardinality(I) \in Nat
  BY <1>1, FS_CardinalityType
<1>3. {i \in I : i < 1} = {} /\ {i \in I : i < m + 1} = I
  <2>1. \A i \in I : ~(i < 1) /\ i < m + 1
    OBVIOUS
  <2> QED
    BY <2>1
<1>4. ASSUME NEW n \in Nat
      PROVE  Before(I, n) \in Nat /\ Before(I, n) <= Cardinality(I)
  <2>1. {i \in I : i < n} \subseteq I
    OBVIOUS
  <2> QED
    BY <1>1, <2>1, FS_Subset, FS_CardinalityType DEF Before
<1> QED
  BY <1>1, <1>2, <1>3, <1>4, FS_EmptySet DEF Before

\* A later place has at least one more before it.
LEMMA BeforeGrows ==
  ASSUME NEW I, IsFiniteSet(I), I \subseteq Nat, NEW i \in I, NEW n \in Nat, i < n
  PROVE  Before(I, i) < Before(I, n)
<1> DEFINE J == {j \in I : j < i}
           K == {j \in I : j < n}
<1>1. IsFiniteSet(J) /\ IsFiniteSet(K)
  BY FS_Subset
<1>2. J \cup {i} \subseteq K /\ i \notin J
  <2>1. i \in Nat /\ ~(i < i) /\ \A j \in I : j \in Nat /\ (j < i => j < n)
    OBVIOUS
  <2> QED
    BY <2>1
<1> HIDE DEF J, K
<1>3. Cardinality(J) \in Nat /\ Cardinality(K) \in Nat
  BY <1>1, FS_CardinalityType
<1>4. Cardinality(J \cup {i}) = Cardinality(J) + 1
  BY <1>1, <1>2, FS_AddElement
<1>5. Cardinality(J \cup {i}) <= Cardinality(K)
  BY <1>1, <1>2, FS_Subset
<1> QED
  BY <1>3, <1>4, <1>5 DEF Before, J, K

\* The places of what is expected are places of raw.
LEMMA PlacesOfRaw ==
  ASSUME raw \in Seq(Values), NEW o
  PROVE  /\ Len(raw) \in Nat
         /\ Fresh(o) \subseteq 1 .. Len(raw) /\ Due(o) \subseteq Fresh(o)
         /\ IsFiniteSet(Fresh(o)) /\ IsFiniteSet(Due(o))
         /\ Fresh(o) \subseteq Nat /\ Due(o) \subseteq Nat
<1>1. Len(raw) \in Nat /\ Fresh(o) \subseteq 1 .. Len(raw) /\ Due(o) \subseteq Fresh(o)
  BY DEF Fresh, Due
<1>2. Due(o) \subseteq 1 .. Len(raw)
  BY <1>1
<1> QED
  BY <1>1, <1>2, BeforeEnds

\* What is expected has as many passwords as places are due, and each comes
\* after those of the places before its own.
LEMMA ExpectedAt ==
  ASSUME raw \in Seq(Values), NEW o
  PROVE  /\ Len(Expected(o)) = Cardinality(Due(o)) /\ Len(Expected(o)) \in Nat
         /\ DOMAIN Expected(o) = 1 .. Len(Expected(o))
         /\ Before(Due(o), Len(raw) + 1) = Len(Expected(o))
         /\ \A n \in Nat : Before(Due(o), n) <= Len(Expected(o))
         /\ \A i \in Due(o) : Expected(o)[Before(Due(o), i) + 1] = raw[i]
<1> DEFINE D == Due(o)
<1>1. Len(raw) \in Nat /\ D \subseteq 1 .. Len(raw) /\ IsFiniteSet(D) /\ D \subseteq Nat
  BY PlacesOfRaw
<1>2. /\ Cardinality(D) \in Nat
      /\ Before(D, Len(raw) + 1) = Cardinality(D)
      /\ \A n \in Nat : Before(D, n) \in Nat /\ Before(D, n) <= Cardinality(D)
  BY <1>1, BeforeEnds
<1> HIDE DEF D
<1>3. Expected(o) = [k \in 1 .. Cardinality(D) |->
                        raw[CHOOSE i \in D : Before(D, i) = k - 1]]
  BY DEF Expected, D
<1>4. Len(Expected(o)) = Cardinality(D) /\ DOMAIN Expected(o) = 1 .. Cardinality(D)
  BY <1>2, <1>3
<1>5. ASSUME NEW i \in D
      PROVE  Expected(o)[Before(D, i) + 1] = raw[i]
  <2>1. i \in Nat /\ i < Len(raw) + 1 /\ Len(raw) + 1 \in Nat
    BY <1>1
  <2>2. Before(D, i) < Before(D, Len(raw) + 1)
    BY <1>1, <2>1, BeforeGrows
  <2> DEFINE k == Before(D, i) + 1
             c == CHOOSE j \in D : Before(D, j) = k - 1
  <2>3. k \in 1 .. Cardinality(D) /\ k - 1 = Before(D, i)
    <3>1. Before(D, i) \in Nat /\ Before(D, i) < Cardinality(D) /\ Cardinality(D) \in Nat
      BY <1>2, <2>1, <2>2
    <3> QED
      BY <3>1
  <2>4. c \in D /\ Before(D, c) = Before(D, i)
    BY <2>3
  <2>5. c = i
    <3> HIDE DEF c
    <3>1. c \in Nat
      BY <1>1, <2>4
    <3>2. c < i => Before(D, c) < Before(D, i)
      BY <1>1, <2>1, <2>4, BeforeGrows
    <3>3. i < c => Before(D, i) < Before(D, c)
      BY <1>1, <2>1, <2>4, <3>1, BeforeGrows
    <3>4. Before(D, i) \in Nat
      BY <1>2, <2>1
    <3>5. ~(c < i) /\ ~(i < c)
      BY <2>4, <3>2, <3>3, <3>4
    <3> QED
      BY <2>1, <3>1, <3>5
  <2>6. Expected(o)[k] = raw[c]
    BY <1>3, <2>3
  <2> QED
    BY <2>5, <2>6
<1> QED
  BY <1>2, <1>4, <1>5 DEF D

\* It depends on two of the options only.
LEMMA SameExpected ==
  ASSUME raw' = raw, opts'.dupcheck = opts.dupcheck, opts'.worker = opts.worker
  PROVE  /\ Fresh(opts)' = Fresh(opts) /\ Due(opts)' = Due(opts)
         /\ Expected(opts)' = Expected(opts)
<1>1. Fresh(opts)' = Fresh(opts)
  BY DEF Fresh
<1>2. Due(opts)' = Due(opts)
  BY <1>1 DEF Due, Mine, Before
<1>3. Expected(opts)' = Expected(opts)
  BY <1>2 DEF Expected, Before
<1> QED
  BY <1>1, <1>2, <1>3

-----------------------------------------------------------------------------
\* The duplicate checker

\* One more password.
LEMMA PriorStep ==
  ASSUME NEW s, NEW n \in Nat, NEW x
  PROVE  /\ Prior(s, x, n + 1) <=> Prior(s, x, n) \/ s[n + 1] = x
         /\ Twice(s, x, n + 1) <=> Twice(s, x, n) \/ (Prior(s, x, n) /\ s[n + 1] = x)
         /\ ~Prior(s, x, 0) /\ ~Twice(s, x, 0)
<1>1. \A i : i \in 1 .. n + 1 <=> i \in 1 .. n \/ i = n + 1
  OBVIOUS
<1>2. \A i \in 1 .. n : i < n + 1 /\ ~(n + 1 < i)
  OBVIOUS
<1>3. ~(n + 1 < n + 1) /\ 1 .. 0 = {}
  OBVIOUS
<1> QED
  BY <1>1, <1>2, <1>3, Zenon DEF Prior, Twice

\* A password that is there twice is there, and what is among the first n is
\* in the list.
LEMMA PriorFacts ==
  ASSUME NEW s, NEW n \in Nat, NEW m \in Nat, n <= m, NEW x
  PROVE  /\ Twice(s, x, n) => Prior(s, x, n)
         /\ Prior(s, x, n) => Prior(s, x, m)
         /\ n < m /\ Prior(s, x, n) /\ s[n + 1] = x => Twice(s, x, m)
<1>1. \A i \in 1 .. n : i \in 1 .. m
  OBVIOUS
<1>2. ASSUME n < m
      PROVE  n + 1 \in 1 .. m /\ \A i \in 1 .. n : i < n + 1
  BY <1>2
<1> QED
  BY <1>1, <1>2, Zenon DEF Prior, Twice

\* is_duplicate keeps the tables well formed.
LEMMA CheckerType ==
  ASSUME NEW c, IsChecker(c), c.run # 2, NEW x \in Values
  PROVE  IsChecker(AfterIsDuplicate(c, x))
<1> USE DEF IsChecker, IsTable
<1>1. CASE c.run = 0 /\ x \in DOMAIN c.dups
  BY <1>1 DEF AfterIsDuplicate
<1>2. CASE c.run = 0 /\ x \in DOMAIN c.seen \ DOMAIN c.dups
  <2>1. AfterIsDuplicate(c, x) =
           [c EXCEPT !.dups = Set(@, x, c.seen[x]), !.seen = Drop(@, x)]
    BY <1>2 DEF AfterIsDuplicate
  <2>2. IsTable(Set(c.dups, x, c.seen[x])) /\ IsTable(Drop(c.seen, x))
    BY <1>2 DEF Set, Drop
  <2> QED
    BY <2>1, <2>2
<1>3. CASE c.run = 0 /\ x \notin DOMAIN c.seen \cup DOMAIN c.dups
  <2>1. AfterIsDuplicate(c, x) = IF c.tracking THEN [c EXCEPT !.seen = Set(@, x, 1)] ELSE c
    BY <1>3 DEF AfterIsDuplicate
  <2>2. IsTable(Set(c.seen, x, 1))
    BY DEF Set
  <2> QED
    BY <2>1, <2>2
<1>4. CASE c.run = 1 /\ x \in DOMAIN c.dups /\ c.dups[x] <= c.run
  <2>1. AfterIsDuplicate(c, x) = [c EXCEPT !.dups = Set(@, x, 2)]
    BY <1>4 DEF AfterIsDuplicate
  <2>2. IsTable(Set(c.dups, x, 2))
    BY DEF Set
  <2> QED
    BY <2>1, <2>2
<1>5. CASE c.run = 1 /\ ~(x \in DOMAIN c.dups /\ c.dups[x] <= c.run)
  BY <1>5 DEF AfterIsDuplicate
<1> QED
  BY <1>1, <1>2, <1>3, <1>4, <1>5

\* In either run the checker tells whether a password was there before.
LEMMA FirstDecides ==
  ASSUME NEW s, NEW d \in BOOLEAN, NEW c, NEW n \in Nat, NEW x \in Values,
         x \notin Rejected, c.run = 0, FirstRun(s, d, c, n)
  PROVE  IsDuplicate(c, x) <=> x \in Excluded \/ (d /\ Prior(s, x, n))
<1>1. IsDuplicate(c, x) <=> x \in DOMAIN c.seen \cup DOMAIN c.dups
  BY DEF IsDuplicate
<1> QED
  BY <1>1 DEF FirstRun

\* In the second run the checker drops what is excluded or came before.
LEMMA SecondDecides ==
  ASSUME NEW s, NEW d \in BOOLEAN, NEW c, NEW n \in Nat, NEW x \in Values,
         Len(s) \in Nat, n < Len(s), s[n + 1] = x,
         x \notin Rejected, c.run = 1, SecondRun(s, d, c, n)
  PROVE  IsDuplicate(c, x) <=> x \in Excluded \/ (d /\ Prior(s, x, n))
<1>1. IsDuplicate(c, x) <=> x \in DOMAIN c.dups /\ c.dups[x] > 1
  BY DEF IsDuplicate
<1>2. Prior(s, x, Len(s))
  <2>1. n + 1 \in 1 .. Len(s)
    OBVIOUS
  <2> QED
    BY <2>1 DEF Prior
<1>3. Prior(s, x, n) => Twice(s, x, Len(s))
  BY PriorFacts
<1>4. x \in DOMAIN c.dups
         <=> IF x \in Excluded THEN TRUE ELSE d /\ Twice(s, x, Len(s))
  BY <1>2 DEF SecondRun, Marked
<1>5. x \in DOMAIN c.dups =>
         c.dups[x] = IF x \in Excluded THEN 1000
                     ELSE IF Prior(s, x, n) THEN 2 ELSE 1
  BY DEF SecondRun, EXCLUDE
<1> QED
  BY <1>1, <1>3, <1>4, <1>5

\* The tables one password further on: x is the password, c and e are the
\* checker before and after it.
LEMMA FirstStep ==
  ASSUME NEW s, NEW d \in BOOLEAN, NEW c, IsChecker(c), NEW n \in Nat,
         NEW x \in Values, s[n + 1] = x, x \notin Rejected,
         c.run = 0, FirstRun(s, d, c, n)
  PROVE  /\ AfterIsDuplicate(c, x).run = 0
         /\ FirstRun(s, d, AfterIsDuplicate(c, x), n + 1)
<1> DEFINE e == AfterIsDuplicate(c, x)
<1>1. \A y : /\ Prior(s, y, n + 1) <=> Prior(s, y, n) \/ y = x
             /\ Twice(s, y, n + 1) <=> Twice(s, y, n) \/ (Prior(s, y, n) /\ y = x)
  BY PriorStep
<1>2. \A y : Twice(s, y, n) => Prior(s, y, n)
  BY PriorFacts
<1>3. \A y : y # x => (Marked(s, d, y, n + 1) <=> Marked(s, d, y, n))
  BY <1>1 DEF Marked
<1>4. Marked(s, d, x, n + 1) <=> x \in Excluded \/ (d /\ Prior(s, x, n))
  BY <1>1, <1>2 DEF Marked
<1>5. x \in DOMAIN c.seen \cup DOMAIN c.dups
         <=> x \in Excluded \/ (d /\ Prior(s, x, n))
  BY DEF FirstRun
<1>6. c.dups \in [DOMAIN c.dups -> Nat] /\ c.seen \in [DOMAIN c.seen -> Nat]
  BY DEF IsChecker, IsTable
<1>7. CASE x \in DOMAIN c.dups
  <2>1. e = c
    BY <1>7 DEF AfterIsDuplicate
  <2>2. \A y \in Values : y \in DOMAIN c.dups <=> Marked(s, d, y, n + 1)
    BY <1>3, <1>4, <1>5, <1>7 DEF FirstRun
  <2> QED
    BY <1>1, <1>5, <1>7, <2>1, <2>2 DEF FirstRun
<1>8. CASE x \in DOMAIN c.seen /\ x \notin DOMAIN c.dups
  <2>1. e = [c EXCEPT !.dups = Set(@, x, c.seen[x]), !.seen = Drop(@, x)]
    BY <1>8 DEF AfterIsDuplicate
  <2>2. /\ e.run = 0 /\ e.tracking = c.tracking
        /\ e.dups = Set(c.dups, x, c.seen[x]) /\ e.seen = Drop(c.seen, x)
    BY <2>1 DEF IsChecker
  <2> HIDE DEF e
  <2>3. /\ DOMAIN e.dups = DOMAIN c.dups \cup {x}
        /\ \A y \in DOMAIN e.dups : e.dups[y] = IF y = x THEN c.seen[x] ELSE c.dups[y]
    BY <2>2 DEF Set
  <2>4. /\ DOMAIN e.seen = DOMAIN c.seen \ {x}
        /\ \A y \in DOMAIN e.seen : e.seen[y] = c.seen[y]
    BY <2>2 DEF Drop
  <2>5. \A y \in Values : y \in DOMAIN e.dups <=> Marked(s, d, y, n + 1)
    BY <1>3, <1>4, <1>5, <1>8, <2>3 DEF FirstRun
  <2>6. \A y \in DOMAIN e.dups : e.dups[y] = IF y \in Excluded THEN EXCLUDE ELSE 1
    BY <1>8, <2>3 DEF FirstRun
  <2>7. \A y \in DOMAIN e.seen :
           y \notin DOMAIN e.dups /\ e.seen[y] = IF y \in Excluded THEN EXCLUDE ELSE 1
    BY <2>3, <2>4 DEF FirstRun
  <2>8. \A y \in Values :
          y \in DOMAIN e.seen \cup DOMAIN e.dups
             <=> y \in Excluded \/ (d /\ y \notin Rejected /\ Prior(s, y, n + 1))
    BY <1>1, <1>5, <1>8, <2>3, <2>4 DEF FirstRun
  <2>9. c.tracking = d
    BY DEF FirstRun
  <2>10. e.run = 0 /\ FirstRun(s, d, e, n + 1)
    BY <2>2, <2>5, <2>6, <2>7, <2>8, <2>9 DEF FirstRun
  <2> QED
    BY <2>10 DEF e
<1>9. CASE x \notin DOMAIN c.seen \cup DOMAIN c.dups
  <2>1. e = IF c.tracking THEN [c EXCEPT !.seen = Set(@, x, 1)] ELSE c
    BY <1>9 DEF AfterIsDuplicate
  <2>2. /\ e.run = 0 /\ e.tracking = c.tracking /\ e.dups = c.dups
        /\ e.seen = IF c.tracking THEN Set(c.seen, x, 1) ELSE c.seen
    BY <2>1 DEF IsChecker
  <2> HIDE DEF e
  <2>3. c.tracking = d
    BY DEF FirstRun
  <2>4. /\ DOMAIN e.seen = IF d THEN DOMAIN c.seen \cup {x} ELSE DOMAIN c.seen
        /\ \A y \in DOMAIN e.seen : e.seen[y] = IF y = x THEN 1 ELSE c.seen[y]
    BY <1>9, <2>2, <2>3 DEF Set
  <2>5. \A y \in Values : y \in DOMAIN e.dups <=> Marked(s, d, y, n + 1)
    BY <1>3, <1>4, <1>5, <1>9, <2>2 DEF FirstRun
  <2>6. \A y \in DOMAIN e.seen :
           y \notin DOMAIN e.dups /\ e.seen[y] = IF y \in Excluded THEN EXCLUDE ELSE 1
    BY <1>5, <1>9, <2>2, <2>4 DEF FirstRun
  <2>7. \A y \in Values :
          y \in DOMAIN e.seen \cup DOMAIN e.dups
             <=> y \in Excluded \/ (d /\ y \notin Rejected /\ Prior(s, y, n + 1))
    BY <1>1, <1>5, <1>9, <2>2, <2>4 DEF FirstRun
  <2>8. \A y \in DOMAIN e.dups : e.dups[y] = IF y \in Excluded THEN EXCLUDE ELSE 1
    BY <2>2 DEF FirstRun
  <2>9. e.run = 0 /\ FirstRun(s, d, e, n + 1)
    BY <2>2, <2>3, <2>5, <2>6, <2>7, <2>8 DEF FirstRun
  <2> QED
    BY <2>9 DEF e
<1> QED
  BY <1>7, <1>8, <1>9

\* In the second run a password marks its entry.
LEMMA SecondStep ==
  ASSUME NEW s, NEW d \in BOOLEAN, NEW c, IsChecker(c), NEW n \in Nat,
         NEW x \in Values, s[n + 1] = x, c.run = 1, SecondRun(s, d, c, n)
  PROVE  /\ AfterIsDuplicate(c, x).run = 1
         /\ SecondRun(s, d, AfterIsDuplicate(c, x), n + 1)
<1> DEFINE e == AfterIsDuplicate(c, x)
<1>1. \A y : Prior(s, y, n + 1) <=> Prior(s, y, n) \/ y = x
  BY PriorStep
<1>2. \A y \in DOMAIN c.dups :
         c.dups[y] = IF y \in Excluded THEN 1000 ELSE IF Prior(s, y, n) THEN 2 ELSE 1
  BY DEF SecondRun, EXCLUDE
<1>3. CASE x \in DOMAIN c.dups /\ c.dups[x] <= 1
  <2>1. e = [c EXCEPT !.dups = Set(@, x, 2)]
    BY <1>3 DEF AfterIsDuplicate
  <2>2. e.run = 1 /\ e.dups = Set(c.dups, x, 2)
    BY <2>1 DEF IsChecker
  <2> HIDE DEF e
  <2>3. DOMAIN e.dups = DOMAIN c.dups
    BY <1>3, <2>2 DEF Set
  <2>4. \A y \in DOMAIN e.dups : e.dups[y] = IF y = x THEN 2 ELSE c.dups[y]
    BY <2>2 DEF Set
  <2>5. x \notin Excluded
    BY <1>2, <1>3
  <2>6. \A y \in DOMAIN e.dups :
          e.dups[y] = IF y \in Excluded THEN EXCLUDE ELSE IF Prior(s, y, n + 1) THEN 2 ELSE 1
    BY <1>1, <1>2, <2>3, <2>4, <2>5 DEF EXCLUDE
  <2>7. e.run = 1 /\ SecondRun(s, d, e, n + 1)
    BY <2>2, <2>3, <2>6 DEF SecondRun
  <2> QED
    BY <2>7 DEF e
<1>4. CASE ~(x \in DOMAIN c.dups /\ c.dups[x] <= 1)
  <2>1. e = c
    BY <1>4 DEF AfterIsDuplicate
  <2>2. x \in DOMAIN c.dups => x \in Excluded \/ Prior(s, x, n)
    BY <1>2, <1>4
  <2>3. \A y \in DOMAIN c.dups :
          c.dups[y] = IF y \in Excluded THEN EXCLUDE ELSE IF Prior(s, y, n + 1) THEN 2 ELSE 1
    BY <1>1, <1>2, <2>2 DEF EXCLUDE
  <2> QED
    BY <2>1, <2>3 DEF SecondRun
<1> QED
  BY <1>3, <1>4

\* A rejected password leaves the tables right as they are.
LEMMA RejectedStep ==
  ASSUME NEW s, NEW d \in BOOLEAN, NEW c, NEW n \in Nat, s[n + 1] \in Rejected
  PROVE  /\ FirstRun(s, d, c, n) => FirstRun(s, d, c, n + 1)
         /\ SecondRun(s, d, c, n) /\ DOMAIN c.dups \subseteq Values => SecondRun(s, d, c, n + 1)
<1>1. \A y : y \notin Rejected => /\ Prior(s, y, n + 1) <=> Prior(s, y, n)
                                  /\ Twice(s, y, n + 1) <=> Twice(s, y, n)
  BY PriorStep
<1>2. \A y : Marked(s, d, y, n + 1) <=> Marked(s, d, y, n)
  BY <1>1 DEF Marked
<1>3. FirstRun(s, d, c, n) => FirstRun(s, d, c, n + 1)
  BY <1>1, <1>2 DEF FirstRun
<1>4. ASSUME SecondRun(s, d, c, n), DOMAIN c.dups \subseteq Values
      PROVE  SecondRun(s, d, c, n + 1)
  <2>1. \A y \in DOMAIN c.dups : y \notin Rejected
    BY <1>4 DEF SecondRun, Marked
  <2> QED
    BY <1>1, <1>4, <2>1 DEF SecondRun
<1> QED
  BY <1>3, <1>4

\* The end of the first run is the beginning of the second.
LEMMA RunFinishedStep ==
  ASSUME NEW s, NEW d \in BOOLEAN, NEW c, IsChecker(c), Len(s) \in Nat,
         c.run = 0, FirstRun(s, d, c, Len(s))
  PROVE  RunFinished(c).run = 1 /\ SecondRun(s, d, RunFinished(c), 0)
<1> DEFINE e == RunFinished(c)
<1>1. e.run = 1 /\ e.dups = c.dups
  BY DEF RunFinished, IsChecker
<1> HIDE DEF e
<1>2. \A y : ~Prior(s, y, 0)
  BY PriorStep
<1>3. SecondRun(s, d, e, 0)
  BY <1>1, <1>2 DEF FirstRun, SecondRun
<1> QED
  BY <1>1, <1>3 DEF e

\* A checker told that its run is over is a checker.
LEMMA FinishedType ==
  ASSUME NEW c, IsChecker(c), c.run < 2
  PROVE  IsChecker(RunFinished(c))
<1>1. IsTable(<<>>)
  <2>1. DOMAIN <<>> = {}
    OBVIOUS
  <2> QED
    BY <2>1 DEF IsTable
<1> QED
  BY <1>1 DEF IsChecker, RunFinished

-----------------------------------------------------------------------------
\* The generator

\* The types of the generator, one by one.
LEMMA Typed ==
  ASSUME TypeOK
  PROVE  /\ raw \in Seq(Values) /\ Len(raw) \in Nat
         /\ gen.at \in Nat /\ gen.at <= Len(raw)
         /\ gen.n \in Nat \ {0} /\ gen.count \in Nat
         /\ gen.got \in Seq(Values) /\ gen.share \in Nat
         /\ gen.wait \in BOOLEAN /\ gen.over \in BOOLEAN
         /\ opts.dupcheck \in BOOLEAN /\ opts.eta \in BOOLEAN
         /\ IsChecker(checker) /\ checker.run \in 0 .. 2
         /\ skip \in Nat /\ wish \in Nat /\ counted \in Nat
         /\ chunksize \in Nat \ {0}
         /\ searched \in Seq(Values) /\ Len(searched) \in Nat
         /\ sizes \in Seq(Nat) /\ Len(sizes) \in Nat
<1>1. raw \in Seq(Values)
  BY ConstantsAssumption DEF TypeOK
<1>2. /\ Len(raw) \in Nat /\ searched \in Seq(Values) /\ Len(searched) \in Nat
      /\ sizes \in Seq(Nat) /\ Len(sizes) \in Nat
  <2>1. searched \in Seq(Values) /\ sizes \in Seq(Nat)
    BY DEF TypeOK
  <2> QED
    BY <1>1, <2>1
<1>3. /\ gen.at \in 0 .. Len(raw) /\ gen.n \in Nat \ {0} /\ gen.count \in Nat
      /\ gen.got \in Seq(Values) /\ gen.share \in Nat
      /\ gen.wait \in BOOLEAN /\ gen.over \in BOOLEAN
  BY DEF TypeOK
<1>4. opts.dupcheck \in BOOLEAN /\ opts.eta \in BOOLEAN /\ checker.run \in 0 .. 2
  BY DEF TypeOK, Options, IsChecker
<1>5. gen.at \in Nat /\ gen.at <= Len(raw)
  BY <1>2, <1>3
<1>6. /\ IsChecker(checker) /\ chunksize \in Nat \ {0}
      /\ skip \in Nat /\ wish \in Nat /\ counted \in Nat
  BY DEF TypeOK
<1> QED
  BY <1>1, <1>2, <1>3, <1>4, <1>5, <1>6

\* What the filters and the checker let through is what is asked for.
LEMMA FreshDecided ==
  ASSUME TypeOK, CheckerOK, phase # "off", ~gen.over, gen.at < Len(raw)
  PROVE  gen.at + 1 \in Fresh(opts)
            <=> /\ raw[gen.at + 1] \notin Rejected
                /\ ~(HasChecker(opts) /\ IsDuplicate(checker, raw[gen.at + 1]))
<1> DEFINE n == gen.at
           x == raw[n + 1]
<1>1. /\ raw \in Seq(Values) /\ Len(raw) \in Nat /\ n \in Nat /\ n + 1 \in 1 .. Len(raw)
      /\ x \in Values /\ n + 1 - 1 = n
  BY Typed
<1>2. opts.dupcheck \in BOOLEAN /\ checker.run \in 0 .. 2
  BY Typed
<1>3. n + 1 \in Fresh(opts)
         <=> x \notin Rejected /\ ~(x \in Excluded \/ (opts.dupcheck /\ Prior(raw, x, n)))
  BY <1>1 DEF Fresh, Prior
<1>4. CASE ~HasChecker(opts)
  BY <1>3, <1>4 DEF HasChecker
<1>5. CASE HasChecker(opts) /\ x \notin Rejected
  <2>1. IsDuplicate(checker, x) <=> x \in Excluded \/ (opts.dupcheck /\ Prior(raw, x, n))
    <3>1. checker.run < 2
      BY <1>5 DEF CheckerOK
    <3>2. CASE checker.run = 0
      <4>1. FirstRun(raw, opts.dupcheck, checker, n)
        BY <1>5, <3>2 DEF CheckerOK
      <4> HIDE DEF n, x
      <4> QED
        BY <1>1, <1>2, <1>5, <3>2, <4>1, FirstDecides
    <3>3. CASE checker.run = 1
      <4>1. SecondRun(raw, opts.dupcheck, checker, n)
        BY <1>5, <3>3 DEF CheckerOK
      <4>2. n < Len(raw) /\ raw[n + 1] = x
        OBVIOUS
      <4> HIDE DEF n, x
      <4> QED
        BY <1>1, <1>2, <1>5, <3>3, <4>1, <4>2, SecondDecides
    <3> QED
      BY <1>2, <3>1, <3>2, <3>3
  <2> QED
    BY <1>3, <1>5, <2>1
<1>6. CASE x \in Rejected
  BY <1>3, <1>6
<1> QED
  BY <1>4, <1>5, <1>6

\* What a step of the generator does, in terms of the places that are due.
LEMMA ProduceEffect ==
  ASSUME TypeOK, CheckerOK, PlaceOK, Produce
  PROVE  LET p == gen.at + 1
             n == IF p \in Due(opts) THEN gen.count + 1 ELSE gen.count
         IN  /\ gen'.at = p /\ gen'.n = gen.n /\ gen'.count = n
             /\ gen'.share = IF p \in Fresh(opts) THEN gen.share + 1 ELSE gen.share
             /\ gen'.got = IF p \in Due(opts) THEN Append(gen.got, raw[p]) ELSE gen.got
             /\ (gen'.wait <=> p \in Due(opts) /\ n >= gen.n) /\ gen'.wait \in BOOLEAN
             /\ gen'.over = FALSE
             /\ gen' \in [at : 0 .. Len(raw), n : Nat \ {0}, count : Nat,
                          got : Seq(Values), share : Nat, wait : BOOLEAN, over : BOOLEAN]
<1> DEFINE p == gen.at + 1
           x == raw[p]
           fresh == x \notin Rejected /\ ~(HasChecker(opts) /\ IsDuplicate(checker, x))
           keep == fresh /\ Mine(opts, gen.share) /\ x \notin BadChecksum
           n == IF p \in Due(opts) THEN gen.count + 1 ELSE gen.count
<1>1. /\ gen.at \in Nat /\ gen.n \in Nat \ {0} /\ gen.count \in Nat /\ gen.got \in Seq(Values)
      /\ gen.share \in Nat /\ gen.over = FALSE
      /\ raw \in Seq(Values) /\ Len(raw) \in Nat /\ p \in 0 .. Len(raw) /\ p \in 1 .. Len(raw)
  BY Typed DEF Produce
<1>2. fresh <=> p \in Fresh(opts)
  BY FreshDecided DEF Produce
<1>3. keep <=> p \in Due(opts)
  <2>1. gen.share = Before(Fresh(opts), p)
    BY DEF PlaceOK, Produce
  <2> QED
    BY <1>2, <2>1 DEF Due
<1>4. x \in Values
  BY <1>1
<1>5. gen' = [gen EXCEPT !.at = @ + 1,
                         !.share = @ + IF fresh THEN 1 ELSE 0,
                         !.count = gen.count + IF keep THEN 1 ELSE 0,
                         !.got = IF keep THEN Append(@, x) ELSE @,
                         !.wait = keep /\ gen.count + (IF keep THEN 1 ELSE 0) >= gen.n]
  BY DEF Produce
<1> HIDE DEF x, fresh, keep
<1>6. /\ gen'.at = p /\ gen'.n = gen.n /\ gen'.over = FALSE
      /\ gen'.share = gen.share + IF fresh THEN 1 ELSE 0
      /\ gen'.count = gen.count + IF keep THEN 1 ELSE 0
      /\ gen'.got = IF keep THEN Append(gen.got, x) ELSE gen.got
      /\ gen'.wait = (keep /\ gen.count + (IF keep THEN 1 ELSE 0) >= gen.n)
      /\ gen' = [at |-> gen'.at, n |-> gen'.n, count |-> gen'.count, got |-> gen'.got,
                 share |-> gen'.share, wait |-> gen'.wait, over |-> gen'.over]
  BY <1>1, <1>5 DEF TypeOK
<1>7. gen'.count = n /\ gen'.got = IF p \in Due(opts) THEN Append(gen.got, x) ELSE gen.got
  BY <1>1, <1>3, <1>6
<1>8. gen'.share = IF p \in Fresh(opts) THEN gen.share + 1 ELSE gen.share
  BY <1>1, <1>2, <1>6
<1>9. (gen'.wait <=> p \in Due(opts) /\ n >= gen.n) /\ gen'.wait \in BOOLEAN
  BY <1>1, <1>3, <1>6
<1>10. gen'.got \in Seq(Values)
  BY <1>1, <1>4, <1>7
<1>11. gen' \in [at : 0 .. Len(raw), n : Nat \ {0}, count : Nat,
                 got : Seq(Values), share : Nat, wait : BOOLEAN, over : BOOLEAN]
  <2>1. gen'.count \in Nat /\ gen'.share \in Nat
    BY <1>1, <1>7, <1>8
  <2>2. gen'.at \in 0 .. Len(raw) /\ gen'.n \in Nat \ {0} /\ gen'.over \in BOOLEAN
    BY <1>1, <1>6
  <2> QED
    BY <1>6, <1>9, <1>10, <2>1, <2>2
<1> QED
  BY <1>6, <1>7, <1>8, <1>9, <1>11 DEF x

\* The place the generator looks at next is one of its list.
LEMMA NextPlace ==
  ASSUME IInv, Produce
  PROVE  /\ gen.at \in Nat /\ gen.at + 1 \in 1 .. Len(raw)
         /\ raw \in Seq(Values) /\ raw[gen.at + 1] \in Values
<1>1. TypeOK
  BY DEF IInv
<1>2. raw \in Seq(Values) /\ Len(raw) \in Nat /\ gen.at \in Nat
  BY <1>1, Typed
<1>3. gen.at < Len(raw)
  BY DEF Produce
<1>4. gen.at + 1 \in 1 .. Len(raw)
  BY <1>2, <1>3
<1> QED
  BY <1>2, <1>4

\* A step of the generator keeps each part of the invariant.
LEMMA ProduceTypes ==
  ASSUME IInv, Produce
  PROVE  TypeOK'
<1>1. gen' \in [at : 0 .. Len(raw), n : Nat \ {0}, count : Nat,
                got : Seq(Values), share : Nat, wait : BOOLEAN, over : BOOLEAN]
  BY ProduceEffect DEF IInv
<1>2. IsChecker(checker')
  <2>1. IsChecker(checker) /\ raw[gen.at + 1] \in Values
    BY NextPlace, Typed DEF IInv
  <2>2. checker' = IF raw[gen.at + 1] \notin Rejected /\ HasChecker(opts)
                   THEN AfterIsDuplicate(checker, raw[gen.at + 1]) ELSE checker
    BY DEF Produce
  <2>3. HasChecker(opts) => checker.run # 2
    BY Typed DEF IInv, CheckerOK, Produce
  <2> QED
    BY <2>1, <2>2, <2>3, CheckerType
<1>3. /\ raw' = raw /\ opts' = opts /\ changed' = changed /\ phase' = phase
      /\ chunksize' = chunksize /\ wish' = wish /\ skip' = skip /\ counted' = counted
      /\ total' = total /\ searched' = searched /\ sizes' = sizes
      /\ skipped' = skipped /\ tested' = tested /\ sittings' = sittings
  BY DEF Produce
<1> QED
  BY <1>1, <1>2, <1>3 DEF IInv, TypeOK

\* Producing a batch keeps the checker right.
LEMMA ProduceChecker ==
  ASSUME IInv, Produce
  PROVE  CheckerOK'
<1> DEFINE n == gen.at
           x == raw[n + 1]
           d == opts.dupcheck
<1>1. raw' = raw /\ opts' = opts /\ phase' = phase /\ phase # "off" /\ ~gen.over
  BY DEF Produce
<1>2. /\ raw \in Seq(Values) /\ Len(raw) \in Nat /\ n \in Nat /\ x \in Values
      /\ d \in BOOLEAN /\ checker.run \in 0 .. 2 /\ IsChecker(checker)
  <2>1. TypeOK /\ raw[gen.at + 1] \in Values
    BY NextPlace DEF IInv
  <2> QED
    BY <2>1, Typed
<1>3. gen'.at = n + 1 /\ gen'.over = FALSE
  BY ProduceEffect DEF IInv
<1>4. checker' = IF x \notin Rejected /\ HasChecker(opts)
                 THEN AfterIsDuplicate(checker, x) ELSE checker
  BY DEF Produce
<1>5. SUFFICES ASSUME HasChecker(opts)
      PROVE  /\ checker'.run = checker.run
             /\ checker.run = 0 => FirstRun(raw, d, checker', n + 1)
             /\ checker.run = 1 => SecondRun(raw, d, checker', n + 1)
             /\ checker.run < 2 /\ (phase = "count" => checker.run = 0)
  BY <1>1, <1>3 DEF CheckerOK, HasChecker
<1>6. /\ checker.run < 2 /\ (phase = "count" => checker.run = 0)
      /\ checker.run = 0 => FirstRun(raw, d, checker, n)
      /\ checker.run = 1 => SecondRun(raw, d, checker, n)
  BY <1>1, <1>5 DEF IInv, CheckerOK
<1>7. raw[n + 1] = x /\ DOMAIN checker.dups \subseteq Values
  BY <1>2 DEF IsChecker, IsTable
<1> HIDE DEF n, x, d
<1>8. CASE x \in Rejected
  BY <1>2, <1>4, <1>6, <1>7, <1>8, RejectedStep
<1>9. CASE x \notin Rejected /\ checker.run = 0
  BY <1>2, <1>4, <1>5, <1>6, <1>7, <1>9, FirstStep
<1>10. CASE x \notin Rejected /\ checker.run = 1
  BY <1>2, <1>4, <1>5, <1>6, <1>7, <1>10, SecondStep
<1> QED
  BY <1>2, <1>6, <1>8, <1>9, <1>10

\* Producing a batch keeps the counters of the place.
LEMMA ProducePlace ==
  ASSUME IInv, Produce
  PROVE  PlaceOK'
<1> DEFINE p == gen.at + 1
           F == Fresh(opts)
           D == Due(opts)
           E == Expected(opts)
           L == Left
<1>1. raw' = raw /\ opts' = opts /\ Left' = Left /\ phase # "off"
  BY DEF Produce, Left
<1>2. Fresh(opts)' = F /\ Due(opts)' = D /\ Expected(opts)' = E
  BY <1>1, SameExpected
<1>3. /\ gen'.at = p
      /\ gen'.count = IF p \in D THEN gen.count + 1 ELSE gen.count
      /\ gen'.share = IF p \in F THEN gen.share + 1 ELSE gen.share
      /\ gen'.got = IF p \in D THEN Append(gen.got, raw[p]) ELSE gen.got
  BY ProduceEffect DEF IInv
<1>4. /\ p \in Nat /\ gen.count \in Nat /\ gen.share \in Nat /\ gen.got \in Seq(Values)
      /\ raw \in Seq(Values) /\ L \in Nat
  <2>1. TypeOK
    BY DEF IInv
  <2>2. /\ gen.at \in Nat /\ gen.count \in Nat /\ gen.share \in Nat
        /\ gen.got \in Seq(Values) /\ raw \in Seq(Values)
        /\ counted \in Nat /\ Len(searched) \in Nat
    BY <2>1, Typed
  <2> QED
    BY <2>2 DEF Left
<1>5. /\ gen.share = Before(F, p) /\ L + gen.count = Before(D, p)
      /\ Len(gen.got) = gen.count
      /\ \A k \in 1 .. gen.count : gen.got[k] = E[L + k]
  BY <1>1 DEF IInv, PlaceOK
<1>6. /\ Before(F, p + 1) = IF p \in F THEN Before(F, p) + 1 ELSE Before(F, p)
      /\ Before(D, p + 1) = IF p \in D THEN Before(D, p) + 1 ELSE Before(D, p)
  <2>1. IsFiniteSet(F) /\ IsFiniteSet(D) /\ F \subseteq Nat /\ D \subseteq Nat
    BY <1>4, PlacesOfRaw
  <2> HIDE DEF F, D, p
  <2> QED
    BY <1>4, <2>1, BeforeStep
<1>7. p \in D => E[Before(D, p) + 1] = raw[p]
  BY <1>4, ExpectedAt
<1> HIDE DEF p, F, D, E, L
<1>8. gen'.share = Before(F, gen'.at + 1) /\ L + gen'.count = Before(D, gen'.at + 1)
  BY <1>3, <1>4, <1>5, <1>6
<1>9. Len(gen'.got) = gen'.count /\ \A k \in 1 .. gen'.count : gen'.got[k] = E[L + k]
  <2>1. CASE p \in D
    <3>1. gen'.count = gen.count + 1 /\ gen'.got = Append(gen.got, raw[p])
      BY <1>3, <2>1
    <3>2. E[L + (gen.count + 1)] = raw[p]
      BY <1>4, <1>5, <1>7, <2>1
    <3>3. Len(gen'.got) = gen.count + 1
      BY <1>4, <1>5, <3>1
    <3>4. ASSUME NEW k \in 1 .. gen.count + 1 PROVE gen'.got[k] = E[L + k]
      <4>1. CASE k = gen.count + 1
        BY <1>4, <1>5, <3>1, <3>2, <4>1
      <4>2. CASE k \in 1 .. gen.count
        BY <1>4, <1>5, <3>1, <4>2
      <4> QED
        BY <1>4, <4>1, <4>2
    <3> QED
      BY <3>1, <3>3, <3>4
  <2>2. CASE p \notin D
    BY <1>3, <1>5, <2>2
  <2> QED
    BY <2>1, <2>2
<1> QED
  BY <1>1, <1>2, <1>8, <1>9 DEF PlaceOK, F, D, E, L

\* Producing a batch keeps the invariant.
LEMMA ProduceKeeps ==
  ASSUME IInv, Produce
  PROVE  IInv'
<1>1. /\ raw' = raw /\ opts' = opts /\ changed' = changed /\ phase' = phase
      /\ chunksize' = chunksize /\ wish' = wish /\ skip' = skip /\ counted' = counted
      /\ total' = total /\ searched' = searched /\ sizes' = sizes
      /\ skipped' = skipped /\ tested' = tested /\ sittings' = sittings
      /\ ~gen.wait /\ ~gen.over
  BY DEF Produce
<1>2. Expected(opts)' = Expected(opts)
  BY <1>1, SameExpected
<1>3. /\ gen'.count = IF gen.at + 1 \in Due(opts) THEN gen.count + 1 ELSE gen.count
      /\ (gen'.wait <=> gen.at + 1 \in Due(opts) /\ gen'.count >= gen.n)
      /\ gen'.n = gen.n /\ gen'.over = FALSE
  BY ProduceEffect DEF IInv
<1>4. YieldOK'
  <2>1. phase # "off" /\ gen.count < gen.n /\ gen.count \in Nat /\ gen.n \in Nat
    BY <1>1, Typed DEF IInv, YieldOK, Produce
  <2> QED
    BY <1>3, <2>1 DEF YieldOK
<1>5. SkipOK'
  BY <1>1, <1>2, <1>3 DEF IInv, SkipOK
<1>6. SearchOK'
  BY <1>1, <1>2, <1>3 DEF IInv, SearchOK, ChunksFull
<1>7. SessionOK'
  BY <1>1, <1>2 DEF IInv, SessionOK, CountExact
<1> QED
  BY <1>4, <1>5, <1>6, <1>7, ProduceTypes, ProduceChecker, ProducePlace DEF IInv

\* The end of raw.
LEMMA RunOutKeeps ==
  ASSUME IInv, RunOut
  PROVE  IInv'
<1>1. /\ raw' = raw /\ opts' = opts /\ changed' = changed /\ phase' = phase
      /\ chunksize' = chunksize /\ wish' = wish /\ skip' = skip /\ counted' = counted
      /\ total' = total /\ searched' = searched /\ sizes' = sizes
      /\ skipped' = skipped /\ tested' = tested /\ sittings' = sittings
      /\ phase # "off" /\ ~gen.wait /\ ~gen.over /\ gen.at = Len(raw)
  BY DEF RunOut
<1>2. Fresh(opts)' = Fresh(opts) /\ Due(opts)' = Due(opts) /\ Expected(opts)' = Expected(opts)
  BY <1>1, SameExpected
<1>3. /\ gen'.at = gen.at /\ gen'.n = gen.n /\ gen'.count = gen.count /\ gen'.got = gen.got
      /\ gen'.share = gen.share /\ gen'.over = TRUE /\ gen'.wait = (gen.count > 0)
      /\ gen' \in [at : 0 .. Len(raw), n : Nat \ {0}, count : Nat,
                   got : Seq(Values), share : Nat, wait : BOOLEAN, over : BOOLEAN]
  <2>1. gen' = [gen EXCEPT !.over = TRUE, !.wait = gen.count > 0]
    BY DEF RunOut
  <2>2. gen \in [at : 0 .. Len(raw), n : Nat \ {0}, count : Nat,
                got : Seq(Values), share : Nat, wait : BOOLEAN, over : BOOLEAN]
    BY DEF IInv, TypeOK
  <2>3. (gen.count > 0) \in BOOLEAN
    BY <2>2
  <2> QED
    BY <2>1, <2>2, <2>3
<1>4. checker' = IF HasChecker(opts) THEN RunFinished(checker) ELSE checker
  BY DEF RunOut
<1>5. IsChecker(checker) /\ (HasChecker(opts) => checker.run < 2)
  BY <1>1, Typed DEF IInv, CheckerOK
<1>6. IsChecker(checker')
  BY <1>4, <1>5, FinishedType
<1>7. TypeOK'
  BY <1>1, <1>3, <1>6 DEF IInv, TypeOK
<1>8. CheckerOK'
  <2>1. SUFFICES ASSUME HasChecker(opts)
        PROVE  /\ checker'.run > 0
               /\ checker'.run = 1 => SecondRun(raw, opts.dupcheck, checker', 0)
               /\ phase = "count" => checker'.run = 1
    <3>1. checker'.run # 0 <=> checker'.run > 0
      BY <1>6 DEF IsChecker
    <3> QED
      BY <1>1, <1>3, <3>1 DEF CheckerOK, HasChecker
  <2>2. checker.run \in 0 .. 2 /\ opts.dupcheck \in BOOLEAN /\ Len(raw) \in Nat
    BY Typed DEF IInv
  <2>3. checker'.run = checker.run + 1
    BY <1>4, <1>5, <2>1 DEF RunFinished, IsChecker
  <2>4. CASE checker.run = 0
    <3>1. FirstRun(raw, opts.dupcheck, checker, Len(raw))
      BY <1>1, <2>1, <2>4 DEF IInv, CheckerOK
    <3> QED
      BY <1>4, <1>5, <2>1, <2>2, <2>3, <2>4, <3>1, RunFinishedStep
  <2>5. CASE checker.run # 0
    <3>1. phase # "count"
      BY <1>1, <2>1, <2>5 DEF IInv, CheckerOK
    <3> QED
      BY <2>2, <2>3, <2>5, <3>1
  <2> QED
    BY <2>4, <2>5
<1>9. PlaceOK'
  BY <1>1, <1>2, <1>3 DEF IInv, PlaceOK, Left
<1>10. YieldOK'
  <2>1. gen.count < gen.n /\ gen.count \in Nat /\ gen.n \in Nat
    BY <1>1, Typed DEF IInv, YieldOK
  <2>2. (gen'.wait <=> gen.count > 0) /\ (gen.count > 0 \/ gen.count = 0)
    BY <1>3, <2>1
  <2> QED
    BY <1>1, <1>3, <2>1, <2>2 DEF YieldOK
<1>11. SkipOK'
  BY <1>1, <1>2, <1>3 DEF IInv, SkipOK
<1>12. SearchOK'
  BY <1>1, <1>2, <1>3 DEF IInv, SearchOK, ChunksFull
<1>13. SessionOK'
  BY <1>1, <1>2 DEF IInv, SessionOK, CountExact
<1> QED
  BY <1>7, <1>8, <1>9, <1>10, <1>11, <1>12, <1>13 DEF IInv

-----------------------------------------------------------------------------
\* The sitting

\* A new checker is at the start of its first run.
LEMMA NewCheckerFirst ==
  ASSUME NEW s, NEW o, o.dupcheck \in BOOLEAN
  PROVE  /\ IsChecker(NewChecker(o)) /\ IsChecker(NoChecker) /\ NewChecker(o).run = 0
         /\ FirstRun(s, o.dupcheck, NewChecker(o), 0)
<1> DEFINE c == NewChecker(o)
<1>1. DOMAIN <<>> = {}
  OBVIOUS
<1>2. IsTable(<<>>)
  BY <1>1 DEF IsTable
<1>3. IsTable([x \in Excluded |-> EXCLUDE])
  BY ConstantsAssumption DEF IsTable, EXCLUDE
<1>4. IsChecker(c) /\ IsChecker(NoChecker)
  BY <1>2, <1>3 DEF IsChecker, NewChecker, NoChecker
<1>5. /\ c.run = 0 /\ c.tracking = o.dupcheck
      /\ c.seen = [x \in Excluded |-> EXCLUDE] /\ c.dups = <<>>
  BY DEF NewChecker
<1> HIDE DEF c
<1>6. \A x : ~Prior(s, x, 0) /\ ~Twice(s, x, 0)
  BY PriorStep
<1>7. \A x : ~Marked(s, o.dupcheck, x, 0)
  BY <1>6 DEF Marked
<1>8. FirstRun(s, o.dupcheck, c, 0)
  BY <1>1, <1>5, <1>6, <1>7 DEF FirstRun
<1> QED
  BY <1>4, <1>5, <1>8 DEF c

\* A new generator has nothing behind it and nothing pending.
LEMMA GenBegins ==
  ASSUME raw' \in Seq(Values), NEW m \in Nat \ {0}, gen' = NewGen(m),
         counted' = 0, searched' = <<>>
  PROVE  /\ PlaceOK' /\ YieldOK'
         /\ gen' \in [at : 0 .. Len(raw'), n : Nat \ {0}, count : Nat,
                      got : Seq(Values), share : Nat, wait : BOOLEAN, over : BOOLEAN]
<1>1. /\ gen'.at = 0 /\ gen'.n = m /\ gen'.count = 0 /\ gen'.got = <<>> /\ gen'.share = 0
      /\ gen'.wait = FALSE /\ gen'.over = FALSE
  BY DEF NewGen
<1>2. Left' = 0
  BY DEF Left
<1>3. Before(Fresh(opts)', 1) = 0 /\ Before(Due(opts)', 1) = 0
  <2>1. /\ Len(raw') \in Nat /\ Fresh(opts)' \subseteq 1 .. Len(raw')
        /\ Due(opts)' \subseteq 1 .. Len(raw')
    BY DEF Fresh, Due
  <2> QED
    BY <2>1, BeforeEnds
<1>4. PlaceOK'
  BY <1>1, <1>2, <1>3 DEF PlaceOK
<1>5. YieldOK'
  BY <1>1 DEF YieldOK
<1>6. Len(raw') \in Nat
  OBVIOUS
<1>7. gen' \in [at : 0 .. Len(raw'), n : Nat \ {0}, count : Nat,
                got : Seq(Values), share : Nat, wait : BOOLEAN, over : BOOLEAN]
  BY <1>6 DEF NewGen
<1> QED
  BY <1>4, <1>5, <1>7

\* The generator of the search is made for what is to be skipped.
LEMMA SkipBegins ==
  ASSUME skip \in Nat, skip' = skip, chunksize' \in Nat \ {0}, ToSkip(skip),
         counted' = 0, searched' = <<>>, sizes' = <<>>, skipped' = {}
  PROVE  /\ SkipOK' /\ phase' \in {"search", "skip", "skip_much"}
         /\ \E m \in Nat \ {0} : gen' = NewGen(m)
<1>1. skip = 0 \/ (skip > 0 /\ skip <= Between) \/ (skip > 0 /\ ~(skip <= Between))
  OBVIOUS
<1>2. {Expected(opts)'[k] : k \in 1 .. 0} = {}
  OBVIOUS
<1>3. CASE skip = 0
  <2>1. phase' = "search" /\ gen' = NewGen(chunksize')
    BY <1>3 DEF ToSkip
  <2>2. gen'.n = chunksize'
    BY <2>1 DEF NewGen
  <2> QED
    BY <1>2, <1>3, <2>1, <2>2 DEF SkipOK
<1>4. CASE skip > 0 /\ skip <= Between
  <2>1. phase' = "skip" /\ gen' = NewGen(skip)
    BY <1>4 DEF ToSkip
  <2>2. gen'.n = skip
    BY <2>1 DEF NewGen
  <2> QED
    BY <1>2, <1>4, <2>1, <2>2 DEF SkipOK
<1>5. CASE skip > 0 /\ ~(skip <= Between)
  <2>1. phase' = "skip_much" /\ gen' = NewGen(Between)
    <3>1. skip # 0 /\ ~(skip > 0 /\ skip <= Between)
      BY <1>5
    <3> QED
      BY <3>1 DEF ToSkip
  <2>2. gen'.n = Between
    BY <2>1 DEF NewGen
  <2> QED
    <3>1. Between \in Nat \ {0}
      BY ConstantsAssumption
    <3>2. counted' + Between < skip'
      BY <1>5, <3>1
    <3> QED
      BY <1>2, <2>1, <2>2, <3>1, <3>2 DEF SkipOK
<1> QED
  BY <1>1, <1>3, <1>4, <1>5

\* A new sitting: the options may be others than before.
LEMMA StartKeeps ==
  ASSUME IInv, Start
  PROVE  IInv'
<1>1. /\ raw' = raw /\ wish' = wish /\ skip' = skip /\ total' = total /\ tested' = tested
      /\ phase = "off" /\ sittings < MaxSittings /\ sittings' = sittings + 1
      /\ opts' \in Options /\ (sittings = 0 \/ opts'.worker = opts.worker)
      /\ chunksize' \in ChunkSizes
      /\ checker' = IF HasChecker(opts') THEN NewChecker(opts') ELSE NoChecker
      /\ counted' = 0 /\ searched' = <<>> /\ sizes' = <<>> /\ skipped' = {}
  BY DEF Start, MayRestoreWith
<1>2. /\ (phase' = "count" /\ gen' = NewGen(Between)) \/ ToSkip(skip)
      /\ changed' = (sittings > 0 /\ (changed \/ opts'.dupcheck # opts.dupcheck))
  BY DEF Start
<1>3. /\ raw' \in Seq(Values) /\ chunksize' \in Nat \ {0} /\ Between \in Nat \ {0}
      /\ skip \in Nat /\ wish \in Nat /\ opts'.dupcheck \in BOOLEAN
  BY <1>1, Typed, ConstantsAssumption DEF IInv, Options
<1>4. /\ SkipOK' /\ phase' \in {"count", "search", "skip", "skip_much"}
      /\ \E m \in Nat \ {0} : gen' = NewGen(m)
  <2>1. CASE phase' = "count" /\ gen' = NewGen(Between)
    BY <1>1, <1>3, <2>1 DEF SkipOK
  <2>2. CASE ToSkip(skip)
    BY <1>1, <1>3, <2>2, SkipBegins
  <2> QED
    BY <1>2, <2>1, <2>2
<1>5. PICK m \in Nat \ {0} : gen' = NewGen(m)
  BY <1>4
<1>6. /\ PlaceOK' /\ YieldOK'
      /\ gen' \in [at : 0 .. Len(raw'), n : Nat \ {0}, count : Nat,
                   got : Seq(Values), share : Nat, wait : BOOLEAN, over : BOOLEAN]
  BY <1>1, <1>3, <1>5, GenBegins
<1>7. /\ IsChecker(checker')
      /\ HasChecker(opts') =>
            checker'.run = 0 /\ FirstRun(raw', opts'.dupcheck, checker', 0)
  <2>1. /\ IsChecker(NewChecker(opts')) /\ IsChecker(NoChecker)
        /\ NewChecker(opts').run = 0
        /\ FirstRun(raw', opts'.dupcheck, NewChecker(opts'), 0)
    BY <1>3, NewCheckerFirst
  <2> QED
    BY <1>1, <2>1
<1>8. changed' \in BOOLEAN
  BY <1>2
<1>9. TypeOK'
  <2>1. /\ searched' \in Seq(Values) /\ sizes' \in Seq(Nat)
        /\ sittings' \in 0 .. MaxSittings
    BY <1>1, ConstantsAssumption DEF IInv, TypeOK
  <2>2. /\ raw \in Lists /\ total \in Nat \cup {None} /\ tested \subseteq Values
    BY DEF IInv, TypeOK
  <2> QED
    BY <1>1, <1>3, <1>4, <1>6, <1>7, <1>8, <2>1, <2>2 DEF TypeOK
<1>10. CheckerOK'
  <2>1. SUFFICES ASSUME HasChecker(opts')
        PROVE  checker'.run = 0 /\ FirstRun(raw', opts'.dupcheck, checker', 0)
    <3>1. gen'.at = 0 /\ gen'.over = FALSE
      BY <1>5 DEF NewGen
    <3> QED
      BY <3>1 DEF CheckerOK, HasChecker
  <2> QED
    BY <1>7, <2>1
<1>11. SearchOK'
  BY <1>1 DEF SearchOK, ChunksFull
<1>12. ASSUME ~changed'
       PROVE  sittings = 0 \/ (~changed /\ Expected(opts)' = Expected(opts))
  <2>1. sittings > 0 \/ sittings = 0
    <3>1. sittings \in 0 .. MaxSittings
      BY DEF IInv, TypeOK
    <3> QED
      BY <3>1, ConstantsAssumption
  <2>2. sittings = 0 \/ (~changed /\ opts'.dupcheck = opts.dupcheck)
    BY <1>2, <1>12, <2>1
  <2> QED
    BY <1>1, <2>2, SameExpected
<1>13. SessionOK'
  <2>1. sittings = 0 => total = None /\ skip = wish
    BY DEF IInv, SessionOK
  <2>2. CountExact'
    BY <1>1, <1>12, <2>1 DEF IInv, SessionOK, CountExact
  <2>3. sittings' # 0
    BY <1>1 DEF IInv, TypeOK
  <2>4. ASSUME ~changed', NEW k \in DOMAIN Expected(opts)' \cap (wish' + 1) .. skip'
        PROVE  Expected(opts)'[k] \in tested'
    <3>1. CASE sittings = 0
      BY <1>1, <1>3, <2>1, <2>4, <3>1
    <3>2. CASE ~changed /\ Expected(opts)' = Expected(opts)
      BY <1>1, <2>4, <3>2 DEF IInv, SessionOK
    <3> QED
      BY <1>12, <2>4, <3>1, <3>2
  <2>5. wish' <= skip'
    BY <1>1 DEF IInv, SessionOK
  <2> QED
    BY <2>2, <2>3, <2>4, <2>5 DEF SessionOK
<1> QED
  BY <1>4, <1>6, <1>9, <1>10, <1>11, <1>13 DEF IInv

\* A chunk leaves the generator, which goes on with another chunk size: what
\* was pending is behind it, and nothing is pending.
LEMMA ChunkLeaves ==
  ASSUME IInv, phase # "off", gen.wait, raw' = raw, opts' = opts,
         Left' = Left + gen.count, NEW m \in Nat \ {0},
         gen' = [gen EXCEPT !.n = m, !.count = 0, !.got = <<>>, !.wait = FALSE]
  PROVE  /\ PlaceOK' /\ YieldOK'
         /\ gen' \in [at : 0 .. Len(raw), n : Nat \ {0}, count : Nat,
                      got : Seq(Values), share : Nat, wait : BOOLEAN, over : BOOLEAN]
         /\ gen'.at = gen.at /\ gen'.over = gen.over /\ gen'.n = m /\ gen'.wait = FALSE
<1>1. gen \in [at : 0 .. Len(raw), n : Nat \ {0}, count : Nat,
               got : Seq(Values), share : Nat, wait : BOOLEAN, over : BOOLEAN]
  BY DEF IInv, TypeOK
<1>2. /\ gen'.at = gen.at /\ gen'.over = gen.over /\ gen'.n = m /\ gen'.wait = FALSE
      /\ gen'.count = 0 /\ gen'.got = <<>> /\ gen'.share = gen.share
      /\ gen' \in [at : 0 .. Len(raw), n : Nat \ {0}, count : Nat,
                   got : Seq(Values), share : Nat, wait : BOOLEAN, over : BOOLEAN]
  <2>1. <<>> \in Seq(Values)
    OBVIOUS
  <2> QED
    BY <1>1, <2>1
<1>3. Fresh(opts)' = Fresh(opts) /\ Due(opts)' = Due(opts)
  BY SameExpected
<1>4. Left \in Nat /\ gen.count \in Nat
  BY Typed DEF IInv, Left
<1>5. PlaceOK'
  BY <1>2, <1>3, <1>4 DEF IInv, PlaceOK
<1>6. YieldOK'
  BY <1>2 DEF IInv, YieldOK
<1> QED
  BY <1>2, <1>5, <1>6

\* Counting a batch keeps the invariant.
LEMMA CountBatchKeeps ==
  ASSUME IInv, CountBatch
  PROVE  IInv'
<1>1. /\ raw' = raw /\ opts' = opts /\ changed' = changed /\ phase' = phase
      /\ checker' = checker
      /\ chunksize' = chunksize /\ wish' = wish /\ skip' = skip
      /\ total' = total /\ searched' = searched /\ sizes' = sizes
      /\ skipped' = skipped /\ tested' = tested /\ sittings' = sittings
      /\ phase = "count" /\ gen.wait /\ counted' = counted + gen.count
  BY DEF CountBatch
<1>2. Expected(opts)' = Expected(opts)
  BY <1>1, SameExpected
<1>3. counted \in Nat /\ gen.count \in Nat /\ Len(searched) \in Nat /\ gen.n \in Nat \ {0}
  BY Typed DEF IInv
<1>4. Left' = Left + gen.count /\ counted' \in Nat
  BY <1>1, <1>3 DEF Left
<1>5. gen' = [gen EXCEPT !.n = gen.n, !.count = 0, !.got = <<>>, !.wait = FALSE]
  BY DEF CountBatch, Resume, IInv, TypeOK
<1>6. /\ PlaceOK' /\ YieldOK'
      /\ gen' \in [at : 0 .. Len(raw), n : Nat \ {0}, count : Nat,
                   got : Seq(Values), share : Nat, wait : BOOLEAN, over : BOOLEAN]
      /\ gen'.at = gen.at /\ gen'.over = gen.over
  BY <1>1, <1>3, <1>4, <1>5, ChunkLeaves
<1>7. TypeOK'
  BY <1>1, <1>4, <1>6 DEF IInv, TypeOK
<1>8. CheckerOK'
  BY <1>1, <1>6 DEF IInv, CheckerOK, HasChecker
<1>9. SkipOK'
  BY <1>1 DEF IInv, SkipOK
<1>10. SearchOK'
  BY <1>1 DEF IInv, SearchOK, ChunksFull
<1>11. SessionOK'
  BY <1>1, <1>2 DEF IInv, SessionOK, CountExact
<1> QED
  BY <1>6, <1>7, <1>8, <1>9, <1>10, <1>11 DEF IInv

\* A generator that has run out has given everything that is due.
LEMMA AllGiven ==
  ASSUME IInv, phase # "off", gen.over, ~gen.wait
  PROVE  gen.count = 0 /\ Left = Len(Expected(opts))
<1>1. gen.count = 0 /\ gen.at = Len(raw)
  BY DEF IInv, YieldOK
<1>2. Left + gen.count = Before(Due(opts), Len(raw) + 1)
  BY <1>1 DEF IInv, PlaceOK
<1>3. raw \in Seq(Values) /\ Left \in Nat
  BY Typed DEF IInv, Left
<1>4. Before(Due(opts), Len(raw) + 1) = Len(Expected(opts))
  BY <1>3, ExpectedAt
<1> QED
  BY <1>1, <1>2, <1>3, <1>4

\* The count is over: it is the number of passwords that are due.
LEMMA CountedKeeps ==
  ASSUME IInv, Counted
  PROVE  IInv'
<1>1. /\ raw' = raw /\ opts' = opts /\ changed' = changed /\ checker' = checker
      /\ chunksize' = chunksize /\ wish' = wish /\ skip' = skip
      /\ searched' = searched /\ sizes' = sizes
      /\ skipped' = skipped /\ tested' = tested /\ sittings' = sittings
      /\ phase = "count" /\ gen.over /\ ~gen.wait /\ counted' = 0
      /\ total' = IF total = None THEN counted ELSE total
  BY DEF Counted
<1>2. (phase' = "off" /\ gen' = gen) \/ ToSkip(skip)
  BY DEF Counted
<1>3. Expected(opts)' = Expected(opts)
  BY <1>1, SameExpected
<1>4. searched = <<>> /\ sizes = <<>> /\ skipped = {}
  BY <1>1 DEF IInv, SkipOK
<1>5. /\ counted \in Nat /\ skip \in Nat /\ chunksize \in Nat \ {0}
      /\ raw \in Seq(Values)
  BY Typed DEF IInv
<1>6. counted = Len(Expected(opts))
  <2>1. Left = Len(Expected(opts))
    BY <1>1, AllGiven
  <2> QED
    BY <1>4, <1>5, <2>1 DEF Left
<1>7. /\ SkipOK' /\ PlaceOK' /\ YieldOK'
      /\ phase' \in {"off", "search", "skip", "skip_much"}
      /\ gen' \in [at : 0 .. Len(raw), n : Nat \ {0}, count : Nat,
                   got : Seq(Values), share : Nat, wait : BOOLEAN, over : BOOLEAN]
      /\ phase' # "off" => gen'.at = 0 /\ gen'.over = FALSE
  <2>1. CASE phase' = "off" /\ gen' = gen
    BY <1>1, <2>1 DEF IInv, TypeOK, SkipOK, PlaceOK, YieldOK
  <2>2. CASE ToSkip(skip)
    <3>1. /\ SkipOK' /\ phase' \in {"search", "skip", "skip_much"}
          /\ \E m \in Nat \ {0} : gen' = NewGen(m)
      BY <1>1, <1>4, <1>5, <2>2, SkipBegins
    <3>2. PICK m \in Nat \ {0} : gen' = NewGen(m)
      BY <3>1
    <3>3. /\ PlaceOK' /\ YieldOK'
          /\ gen' \in [at : 0 .. Len(raw'), n : Nat \ {0}, count : Nat,
                       got : Seq(Values), share : Nat, wait : BOOLEAN, over : BOOLEAN]
      BY <1>1, <1>4, <1>5, <3>2, GenBegins
    <3>4. gen'.at = 0 /\ gen'.over = FALSE
      BY <3>2 DEF NewGen
    <3> QED
      BY <1>1, <3>1, <3>3, <3>4
  <2> QED
    BY <1>2, <2>1, <2>2
<1>8. TypeOK'
  <2>1. total' \in Nat \cup {None}
    BY <1>1, <1>5 DEF IInv, TypeOK
  <2> QED
    BY <1>1, <1>7, <2>1 DEF IInv, TypeOK
<1>9. CheckerOK'
  <2>1. HasChecker(opts) => checker.run = 1 /\ SecondRun(raw, opts.dupcheck, checker, 0)
    BY <1>1 DEF IInv, CheckerOK
  <2>2. phase' # "count" /\ (phase' # "off" => gen'.at = 0 /\ gen'.over = FALSE)
    BY <1>7
  <2> QED
    BY <1>1, <2>1, <2>2 DEF CheckerOK, HasChecker
<1>10. SearchOK'
  BY <1>1, <1>4 DEF SearchOK, ChunksFull
<1>11. SessionOK'
  <2>1. CountExact'
    BY <1>1, <1>3, <1>6 DEF IInv, SessionOK, CountExact
  <2>2. sittings' # 0
    BY <1>1 DEF IInv, SessionOK
  <2> QED
    BY <1>1, <1>3, <2>1, <2>2 DEF IInv, SessionOK
<1> QED
  BY <1>7, <1>8, <1>9, <1>10, <1>11 DEF IInv

\* The passwords of a batch that is skipped are the next in order.
LEMMA BatchSkipped ==
  ASSUME IInv, phase \in {"skip", "skip_much", "skip_rest"}
  PROVE  /\ SkippedNow = {Expected(opts)[k] : k \in 1 .. (counted + gen.count)}
         /\ SkippedNow \subseteq Values
         /\ searched = <<>> /\ sizes = <<>> /\ Left = counted
<1> DEFINE E == Expected(opts)
<1>1. searched = <<>> /\ sizes = <<>> /\ skipped = {E[k] : k \in 1 .. counted}
  BY DEF IInv, SkipOK
<1>2. counted \in Nat /\ gen.count \in Nat
  BY Typed DEF IInv
<1>3. Left = counted
  <2>1. Len(searched) = 0
    BY <1>1
  <2> QED
    BY <1>2, <2>1 DEF Left
<1>4. Len(gen.got) = gen.count /\ \A k \in 1 .. gen.count : gen.got[k] = E[counted + k]
  BY <1>3 DEF IInv, PlaceOK
<1> HIDE DEF E
<1>5. ToSet(gen.got) = {E[counted + k] : k \in 1 .. gen.count}
  <2>1. DOMAIN gen.got = 1 .. gen.count
    BY <1>4, Typed DEF IInv
  <2> QED
    BY <1>4, <2>1 DEF ToSet
<1>6. {E[k] : k \in 1 .. counted} \cup {E[counted + k] : k \in 1 .. gen.count}
         = {E[k] : k \in 1 .. (counted + gen.count)}
  <2>1. \A k \in 1 .. counted : k \in 1 .. (counted + gen.count)
    BY <1>2
  <2>2. \A k \in 1 .. gen.count : counted + k \in 1 .. (counted + gen.count)
    BY <1>2
  <2>3. \A k \in 1 .. (counted + gen.count) :
           k \in 1 .. counted \/ (k - counted \in 1 .. gen.count /\ k = counted + (k - counted))
    BY <1>2
  <2> QED
    BY <2>1, <2>2, <2>3
<1>7. SkippedNow \subseteq Values
  <2>1. skipped \subseteq Values
    BY DEF IInv, TypeOK
  <2>2. ToSet(gen.got) \subseteq Values
    <3>1. gen.got \in Seq(Values)
      BY Typed DEF IInv
    <3> QED
      BY <3>1 DEF ToSet
  <2> QED
    BY <2>1, <2>2 DEF SkippedNow
<1> QED
  BY <1>1, <1>3, <1>5, <1>6, <1>7 DEF SkippedNow, E

\* A skipped batch: whatever the phase, it is counted, and the generator goes
\* on with the size that the next phase wants.
LEMMA SkipKeeps ==
  ASSUME IInv, phase \in {"skip", "skip_much", "skip_rest"}, gen.wait,
         UNCHANGED <<raw, wish, opts, changed, checker, chunksize, skip, total,
                     searched, sizes, tested, sittings>>,
         counted' = counted + gen.count, skipped' = SkippedNow,
         NEW m \in Nat \ {0},
         gen' = [gen EXCEPT !.n = m, !.count = 0, !.got = <<>>, !.wait = FALSE],
         \/ phase' = "search" /\ counted' <= skip /\ m = chunksize
         \/ phase' = "skip_much" /\ counted' + Between < skip /\ m = Between
         \/ phase' = "skip_rest" /\ counted' < skip /\ m = skip - counted'
  PROVE  IInv'
<1>1. /\ raw' = raw /\ opts' = opts /\ changed' = changed /\ checker' = checker
      /\ chunksize' = chunksize /\ wish' = wish /\ skip' = skip /\ total' = total
      /\ searched' = searched /\ sizes' = sizes
      /\ tested' = tested /\ sittings' = sittings
  OBVIOUS
<1>2. Expected(opts)' = Expected(opts)
  BY <1>1, SameExpected
<1>3. counted \in Nat /\ gen.count \in Nat /\ counted' \in Nat
  <2>1. counted \in Nat /\ gen.count \in Nat
    BY Typed DEF IInv
  <2> QED
    BY <2>1
<1>4. /\ skipped' = {Expected(opts)[k] : k \in 1 .. counted'}
      /\ skipped' \subseteq Values
      /\ searched = <<>> /\ sizes = <<>> /\ Left = counted
  BY BatchSkipped
<1>5. Left' = Left + gen.count
  <2>1. Len(searched) = 0
    BY <1>4
  <2> QED
    BY <1>1, <1>3, <2>1 DEF Left
<1>6. phase' \in {"search", "skip_much", "skip_rest"} /\ phase # "off"
  OBVIOUS
<1>7. /\ PlaceOK' /\ YieldOK'
      /\ gen' \in [at : 0 .. Len(raw), n : Nat \ {0}, count : Nat,
                   got : Seq(Values), share : Nat, wait : BOOLEAN, over : BOOLEAN]
      /\ gen'.at = gen.at /\ gen'.over = gen.over /\ gen'.n = m
  BY <1>1, <1>5, <1>6, ChunkLeaves
<1>8. TypeOK'
  BY <1>1, <1>3, <1>4, <1>6, <1>7 DEF IInv, TypeOK
<1>9. CheckerOK'
  BY <1>1, <1>6, <1>7 DEF IInv, CheckerOK, HasChecker
<1>10. SkipOK'
  BY <1>1, <1>2, <1>4, <1>6, <1>7 DEF SkipOK
<1>11. SearchOK'
  <2>1. Len(searched') = 0 /\ sizes' = <<>> /\ DOMAIN sizes' = {}
    BY <1>1, <1>4
  <2> QED
    BY <2>1 DEF SearchOK, ChunksFull
<1>12. SessionOK'
  <2>1. CountExact'
    BY <1>1, <1>2 DEF IInv, SessionOK, CountExact
  <2>2. sittings' # 0
    BY <1>1, <1>6 DEF IInv, SessionOK
  <2> QED
    BY <1>1, <1>2, <2>1, <2>2 DEF IInv, SessionOK
<1> QED
  BY <1>7, <1>8, <1>9, <1>10, <1>11, <1>12 DEF IInv

\* Skipping few passwords, in one batch, keeps the invariant.
LEMMA SkipFewKeeps ==
  ASSUME IInv, SkipFew
  PROVE  IInv'
<1>1. phase = "skip" /\ gen.wait /\ phase' = "search" /\ skipped' = SkippedNow
  BY DEF SkipFew
<1>2. /\ counted \in Nat /\ gen.count \in Nat /\ skip \in Nat /\ chunksize \in Nat \ {0}
      /\ counted = 0 /\ gen.count <= skip
  BY <1>1, Typed DEF IInv, SkipOK, YieldOK
<1>3. counted' = counted + gen.count /\ counted' <= skip
  BY <1>2 DEF SkipFew
<1>4. gen' = [gen EXCEPT !.n = chunksize, !.count = 0, !.got = <<>>, !.wait = FALSE]
  BY DEF SkipFew, Send
<1>5. UNCHANGED <<raw, wish, opts, changed, checker, chunksize, skip, total,
                  searched, sizes, tested, sittings>>
  BY DEF SkipFew
<1> QED
  BY <1>1, <1>2, <1>3, <1>4, <1>5, SkipKeeps

\* Skipping the rest keeps the invariant.
LEMMA SkipRestKeeps ==
  ASSUME IInv, SkipRest
  PROVE  IInv'
<1>1. phase = "skip_rest" /\ gen.wait /\ phase' = "search" /\ skipped' = SkippedNow
  BY DEF SkipRest
<1>2. /\ counted \in Nat /\ gen.count \in Nat /\ skip \in Nat /\ chunksize \in Nat \ {0}
      /\ gen.count <= skip - counted
  BY <1>1, Typed DEF IInv, SkipOK, YieldOK
<1>3. counted' = counted + gen.count /\ counted' <= skip
  BY <1>2 DEF SkipRest
<1>4. gen' = [gen EXCEPT !.n = chunksize, !.count = 0, !.got = <<>>, !.wait = FALSE]
  BY DEF SkipRest, Send
<1>5. UNCHANGED <<raw, wish, opts, changed, checker, chunksize, skip, total,
                  searched, sizes, tested, sittings>>
  BY DEF SkipRest
<1> QED
  BY <1>1, <1>2, <1>3, <1>4, <1>5, SkipKeeps

\* Many are skipped batch by batch, and at least one is left for the rest.
LEMMA SkipBatchKeeps ==
  ASSUME IInv, SkipBatch
  PROVE  IInv'
<1>1. phase = "skip_much" /\ gen.wait /\ skipped' = SkippedNow
  BY DEF SkipBatch
<1>2. /\ counted \in Nat /\ gen.count \in Nat /\ skip \in Nat /\ Between \in Nat \ {0}
      /\ gen.n = Between /\ gen.count <= Between /\ counted + Between < skip
  BY <1>1, Typed, ConstantsAssumption DEF IInv, SkipOK, YieldOK
<1>3. counted' = counted + gen.count
  BY DEF SkipBatch
<1>4. UNCHANGED <<raw, wish, opts, changed, checker, chunksize, skip, total,
                  searched, sizes, tested, sittings>>
  BY DEF SkipBatch
<1>5. CASE counted' >= skip - Between
  <2>1. /\ phase' = "skip_rest"
        /\ gen' = [gen EXCEPT !.n = skip - counted', !.count = 0, !.got = <<>>, !.wait = FALSE]
    BY <1>5 DEF SkipBatch, Send
  <2>2. counted' < skip /\ skip - counted' \in Nat \ {0}
    BY <1>2, <1>3
  <2> QED
    BY <1>1, <1>3, <1>4, <2>1, <2>2, SkipKeeps
<1>6. CASE ~(counted' >= skip - Between)
  <2>1. phase' = "skip_much" /\ gen' = Resume(gen)
    BY <1>1, <1>6 DEF SkipBatch
  <2>2. gen' = [gen EXCEPT !.n = Between, !.count = 0, !.got = <<>>, !.wait = FALSE]
    <3>1. gen \in [at : 0 .. Len(raw), n : Nat \ {0}, count : Nat, got : Seq(Values),
                   share : Nat, wait : BOOLEAN, over : BOOLEAN]
      BY DEF IInv, TypeOK
    <3> QED
      BY <1>2, <2>1, <3>1 DEF Resume
  <2>3. counted' + Between < skip
    BY <1>2, <1>3, <1>6
  <2> QED
    BY <1>1, <1>2, <1>3, <1>4, <2>1, <2>2, <2>3, SkipKeeps
<1> QED
  BY <1>5, <1>6

\* Running out of passwords to skip keeps the invariant.
LEMMA SkippedAllKeeps ==
  ASSUME IInv, SkippedAll
  PROVE  IInv'
<1>1. /\ raw' = raw /\ opts' = opts /\ changed' = changed /\ phase' = "off"
      /\ gen' = gen /\ checker' = checker
      /\ chunksize' = chunksize /\ wish' = wish /\ skip' = skip /\ counted' = counted
      /\ total' = total /\ searched' = searched /\ sizes' = sizes
      /\ skipped' = skipped /\ tested' = tested /\ sittings' = sittings
  BY DEF SkippedAll
<1>2. phase # "off"
  BY DEF SkippedAll
<1>3. Expected(opts)' = Expected(opts)
  BY <1>1, SameExpected
<1>4. TypeOK'
  BY <1>1 DEF IInv, TypeOK
<1>5. CheckerOK' /\ PlaceOK' /\ YieldOK' /\ SkipOK'
  BY <1>1 DEF CheckerOK, PlaceOK, YieldOK, SkipOK
<1>6. SearchOK'
  BY <1>1 DEF IInv, SearchOK, ChunksFull
<1>7. SessionOK'
  BY <1>1, <1>2, <1>3 DEF IInv, SessionOK, CountExact
<1> QED
  BY <1>4, <1>5, <1>6, <1>7 DEF IInv

\* The pool takes a chunk: what it was given grows by what is due next.
LEMMA SearchKeeps ==
  ASSUME IInv, Search
  PROVE  IInv'
<1> DEFINE E == Expected(opts)
<1>1. /\ raw' = raw /\ opts' = opts /\ changed' = changed /\ phase' = phase
      /\ checker' = checker /\ chunksize' = chunksize /\ wish' = wish /\ skip' = skip
      /\ counted' = counted /\ total' = total /\ skipped' = skipped
      /\ sittings' = sittings /\ phase = "search" /\ gen.wait
      /\ searched' = searched \o gen.got /\ sizes' = Append(sizes, gen.count)
      /\ tested' = tested \cup ToSet(gen.got)
  BY DEF Search
<1>2. Expected(opts)' = E
  BY <1>1, SameExpected
<1>3. /\ counted \in Nat /\ gen.count \in Nat /\ gen.n \in Nat \ {0}
      /\ searched \in Seq(Values) /\ Len(searched) \in Nat
      /\ gen.got \in Seq(Values) /\ sizes \in Seq(Nat) /\ Len(sizes) \in Nat
      /\ chunksize \in Nat \ {0}
  BY Typed DEF IInv
<1>4. /\ Len(gen.got) = gen.count
      /\ \A k \in 1 .. gen.count : gen.got[k] = E[Left + k]
  BY <1>1 DEF IInv, PlaceOK
<1>5. /\ searched' \in Seq(Values) /\ Len(searched') = Len(searched) + gen.count
      /\ \A k \in 1 .. Len(searched) : searched'[k] = searched[k]
      /\ \A k \in 1 .. gen.count : searched'[Len(searched) + k] = gen.got[k]
  BY <1>1, <1>3, <1>4
<1>6. Left' = Left + gen.count
  BY <1>1, <1>3, <1>5 DEF Left
<1>7. gen' = [gen EXCEPT !.n = gen.n, !.count = 0, !.got = <<>>, !.wait = FALSE]
  BY DEF Search, Resume, IInv, TypeOK
<1>8. /\ PlaceOK' /\ YieldOK'
      /\ gen' \in [at : 0 .. Len(raw), n : Nat \ {0}, count : Nat,
                   got : Seq(Values), share : Nat, wait : BOOLEAN, over : BOOLEAN]
      /\ gen'.at = gen.at /\ gen'.over = gen.over /\ gen'.n = gen.n /\ gen'.wait = FALSE
  BY <1>1, <1>3, <1>6, <1>7, ChunkLeaves
<1>9. TypeOK'
  <2>1. sizes' \in Seq(Nat)
    BY <1>1, <1>3
  <2>2. ToSet(gen.got) \subseteq Values
    BY <1>3 DEF ToSet
  <2>3. tested' \subseteq Values
    BY <1>1, <2>2 DEF IInv, TypeOK
  <2> QED
    BY <1>1, <1>5, <1>8, <2>1, <2>3 DEF IInv, TypeOK
<1>10. CheckerOK'
  BY <1>1, <1>8 DEF IInv, CheckerOK, HasChecker
<1>11. SkipOK'
  BY <1>1, <1>2, <1>8 DEF IInv, SkipOK
<1>12. ASSUME NEW k \in 1 .. Len(searched')
       PROVE  searched'[k] = E[counted + k] /\ searched'[k] \in tested'
  <2>1. CASE k \in 1 .. Len(searched)
    BY <1>1, <1>5, <2>1 DEF IInv, SearchOK
  <2>2. CASE k \notin 1 .. Len(searched)
    <3> DEFINE j == k - Len(searched)
    <3>1. j \in 1 .. gen.count /\ k = Len(searched) + j
      BY <1>3, <1>5, <2>2
    <3> HIDE DEF j
    <3>2. searched'[k] = gen.got[j] /\ gen.got[j] = E[Left + j]
      BY <1>4, <1>5, <3>1
    <3>3. Left + j = counted + k
      BY <1>3, <3>1 DEF Left
    <3>4. gen.got[j] \in ToSet(gen.got)
      BY <1>3, <1>4, <3>1 DEF ToSet
    <3> QED
      BY <1>1, <3>2, <3>3, <3>4
  <2> QED
    BY <2>1, <2>2
<1>13. gen.n = chunksize /\ gen.count \in 1 .. chunksize /\ (gen.count = chunksize \/ gen.over)
  BY <1>1, <1>3 DEF IInv, SkipOK, YieldOK
<1>14. \A k \in 1 .. Len(sizes) : sizes[k] = chunksize
  <2>1. ASSUME NEW k \in 1 .. Len(sizes), sizes[k] # chunksize PROVE FALSE
    <3>1. ~(k < Len(sizes))
      BY <1>3, <2>1 DEF IInv, SearchOK, ChunksFull
    <3>2. k = Len(sizes) /\ sizes # <<>>
      BY <1>3, <2>1, <3>1
    <3> QED
      BY <1>1, <2>1, <3>2 DEF IInv, SearchOK
  <2> QED
    BY <2>1
<1>15. /\ Len(sizes') = Len(sizes) + 1 /\ sizes'[Len(sizes) + 1] = gen.count
       /\ \A k \in 1 .. Len(sizes) : sizes'[k] = chunksize
       /\ DOMAIN sizes' = 1 .. Len(sizes) + 1
  BY <1>1, <1>3, <1>14
<1>16. ChunksFull'
  <2>1. \A k \in DOMAIN sizes' :
           IF k < Len(sizes') THEN sizes'[k] = chunksize ELSE sizes'[k] \in 1 .. chunksize
    <3>1. \A k \in 1 .. Len(sizes) + 1 :
             IF k < Len(sizes) + 1 THEN k \in 1 .. Len(sizes) ELSE k = Len(sizes) + 1
      BY <1>3
    <3> QED
      BY <1>13, <1>15, <3>1
  <2> QED
    BY <1>1, <2>1 DEF ChunksFull
<1>17. SearchOK'
  BY <1>1, <1>2, <1>8, <1>12, <1>13, <1>15, <1>16 DEF SearchOK
<1>18. SessionOK'
  BY <1>1, <1>2 DEF IInv, SessionOK, CountExact
<1> QED
  BY <1>8, <1>9, <1>10, <1>11, <1>17, <1>18 DEF IInv

\* What a sitting saves as skipped has been tested.
LEMMA EndSittingKeeps ==
  ASSUME IInv, EndSitting
  PROVE  IInv'
<1> DEFINE E == Expected(opts)
<1>1. /\ raw' = raw /\ opts' = opts /\ changed' = changed /\ phase' = "off"
      /\ gen' = gen /\ checker' = checker
      /\ chunksize' = chunksize /\ wish' = wish /\ counted' = counted
      /\ total' = total /\ searched' = searched /\ sizes' = sizes
      /\ skipped' = skipped /\ tested' = tested /\ sittings' = sittings
      /\ phase = "search" /\ counted = skip /\ skip' = skip + Len(searched)
  BY DEF EndSitting, Tried
<1>2. Expected(opts)' = E
  BY <1>1, SameExpected
<1>3. skip \in Nat /\ wish \in Nat /\ Len(searched) \in Nat /\ skip' \in Nat /\ wish <= skip
  <2>1. skip \in Nat /\ wish \in Nat /\ Len(searched) \in Nat /\ wish <= skip
    BY Typed DEF IInv, SessionOK
  <2> QED
    BY <1>1, <2>1
<1>4. TypeOK'
  BY <1>1, <1>3 DEF IInv, TypeOK
<1>5. CheckerOK' /\ PlaceOK' /\ YieldOK' /\ SkipOK'
  BY <1>1 DEF CheckerOK, PlaceOK, YieldOK, SkipOK
<1>6. SearchOK'
  BY <1>1 DEF IInv, SearchOK, ChunksFull
<1>7. ASSUME ~changed, NEW k \in DOMAIN E \cap (wish + 1) .. skip'
      PROVE  E[k] \in tested
  <2>1. CASE k \in (wish + 1) .. skip
    BY <1>7, <2>1 DEF IInv, SessionOK
  <2>2. CASE k \notin (wish + 1) .. skip
    <3> DEFINE j == k - skip
    <3>1. j \in 1 .. Len(searched) /\ k = counted + j
      BY <1>1, <1>3, <2>2
    <3> HIDE DEF j
    <3> QED
      BY <1>1, <3>1 DEF IInv, SearchOK
  <2> QED
    BY <2>1, <2>2
<1>8. SessionOK'
  <2>1. CountExact' /\ sittings' # 0
    BY <1>1, <1>2 DEF IInv, SessionOK, CountExact
  <2>2. wish' <= skip'
    BY <1>1, <1>3
  <2> QED
    BY <1>1, <1>2, <1>7, <2>1, <2>2 DEF SessionOK
<1> QED
  BY <1>4, <1>5, <1>6, <1>8 DEF IInv

-----------------------------------------------------------------------------
\* The theorems

\* The invariant holds before the first sitting.
LEMMA InitInv == Init => IInv
<1> SUFFICES ASSUME Init PROVE IInv
  OBVIOUS
<1>1. raw \in Lists /\ raw \in Seq(Values) /\ Len(raw) \in Nat
  BY ConstantsAssumption DEF Init
<1>2. wish \in Nat /\ skip = wish /\ phase = "off" /\ total = None /\ changed = FALSE
  BY ConstantsAssumption DEF Init
<1>3. TypeOK
  <2>1. opts \in Options
    BY DEF Init, Options
  <2>2. gen \in [at : 0 .. Len(raw), n : Nat \ {0}, count : Nat, got : Seq(Values),
                 share : Nat, wait : BOOLEAN, over : BOOLEAN]
    BY <1>1 DEF Init, NewGen
  <2>3. IsChecker(checker)
    <3>1. opts.dupcheck \in BOOLEAN /\ checker = NoChecker
      BY DEF Init
    <3>2. IsChecker(NoChecker)
      BY <3>1, NewCheckerFirst
    <3> QED
      BY <3>1, <3>2
  <2>4. sittings \in 0 .. MaxSittings
    BY ConstantsAssumption DEF Init
  <2>5. searched \in Seq(Values) /\ sizes \in Seq(Nat)
    BY DEF Init
  <2>6. /\ chunksize \in Nat \ {0} /\ counted \in Nat /\ skip \in Nat
        /\ skipped \subseteq Values /\ tested \subseteq Values
        /\ total \in Nat \cup {None} /\ changed \in BOOLEAN
    <3>1. chunksize = 1 /\ counted = 0 /\ skipped = {} /\ tested = {}
      BY DEF Init
    <3>2. chunksize \in Nat \ {0} /\ counted \in Nat /\ skip \in Nat
      BY <1>2, <3>1
    <3>3. skipped \subseteq Values /\ tested \subseteq Values
      BY <3>1
    <3>4. total \in Nat \cup {None} /\ changed \in BOOLEAN
      BY <1>2, Zenon
    <3> QED
      BY <3>2, <3>3, <3>4
  <2> QED
    BY <1>1, <1>2, <2>1, <2>2, <2>3, <2>4, <2>5, <2>6 DEF TypeOK
<1>4. CheckerOK /\ PlaceOK /\ YieldOK /\ SkipOK
  BY <1>2 DEF CheckerOK, PlaceOK, YieldOK, SkipOK
<1>5. SearchOK
  BY <1>2 DEF Init, SearchOK, ChunksFull
<1>6. SessionOK
  BY <1>2 DEF SessionOK, CountExact
<1> QED
  BY <1>3, <1>4, <1>5, <1>6 DEF IInv

\* Every step keeps the invariant.
LEMMA NextInv == IInv /\ [Next]_vars => IInv'
<1> SUFFICES ASSUME IInv, [Next]_vars PROVE IInv'
  OBVIOUS
<1>1. CASE Next
  BY <1>1, StartKeeps, ProduceKeeps, RunOutKeeps, CountBatchKeeps, CountedKeeps,
     SkipFewKeeps, SkipBatchKeeps, SkipRestKeeps, SkippedAllKeeps, SearchKeeps,
     EndSittingKeeps DEF Next
<1>2. CASE UNCHANGED vars
  <2>1. /\ raw' = raw /\ opts' = opts /\ changed' = changed /\ phase' = phase
        /\ gen' = gen /\ checker' = checker
        /\ chunksize' = chunksize /\ wish' = wish /\ skip' = skip /\ counted' = counted
        /\ total' = total /\ searched' = searched /\ sizes' = sizes
        /\ skipped' = skipped /\ tested' = tested /\ sittings' = sittings
    BY <1>2 DEF vars
  <2>2. Fresh(opts)' = Fresh(opts) /\ Due(opts)' = Due(opts) /\ Expected(opts)' = Expected(opts)
    BY <2>1, SameExpected
  <2>3. TypeOK'
    BY <2>1 DEF IInv, TypeOK
  <2>4. CheckerOK'
    BY <2>1 DEF IInv, CheckerOK, HasChecker
  <2>5. PlaceOK' /\ YieldOK'
    BY <2>1, <2>2 DEF IInv, PlaceOK, YieldOK, Left
  <2>6. SkipOK' /\ SearchOK'
    BY <2>1, <2>2 DEF IInv, SkipOK, SearchOK, ChunksFull
  <2>7. SessionOK'
    BY <2>1, <2>2 DEF IInv, SessionOK, CountExact
  <2> QED
    BY <2>3, <2>4, <2>5, <2>6, <2>7 DEF IInv
<1> QED
  BY <1>1, <1>2

\* The inductive invariant holds in every state of the engine's counting,
\* skipping and searching.
THEOREM StreamInvariant == Spec => []IInv
  BY InitInv, NextInv, PTL DEF Spec

\* What the invariant says of the search: it was given the passwords of the
\* expected order from the one after those skipped on.
LEMMA GivenInOrder ==
  ASSUME IInv, Searching
  PROVE  LET given == searched \o gen.got
             E == Expected(opts)
         IN  /\ Len(given) = Len(searched) + gen.count /\ Len(given) \in Nat
             /\ skip + Len(given) <= Len(E)
             /\ gen.over /\ ~gen.wait => skip + Len(given) = Len(E)
             /\ \A k \in 1 .. Len(given) : given[k] = E[skip + k]
<1> DEFINE given == searched \o gen.got
           E == Expected(opts)
<1>1. /\ searched \in Seq(Values) /\ gen.got \in Seq(Values) /\ Len(searched) \in Nat
      /\ gen.count \in Nat /\ skip \in Nat /\ counted = skip /\ raw \in Seq(Values)
      /\ gen.at + 1 \in Nat
  BY Typed DEF IInv, Searching
<1>2. /\ Left + gen.count = Before(Due(opts), gen.at + 1)
      /\ Len(gen.got) = gen.count
      /\ \A k \in 1 .. gen.count : gen.got[k] = E[Left + k]
  BY DEF IInv, PlaceOK, Searching
<1>3. \A k \in 1 .. Len(searched) : searched[k] = E[skip + k]
  BY <1>1 DEF IInv, SearchOK, Searching
<1>4. Left = skip + Len(searched)
  BY <1>1 DEF Left
<1>5. Before(Due(opts), gen.at + 1) <= Len(E) /\ Len(E) \in Nat
  BY <1>1, ExpectedAt
<1>6. gen.over /\ ~gen.wait => gen.count = 0 /\ Left = Len(E)
  BY AllGiven DEF Searching
<1> HIDE DEF E
<1>7. /\ Len(given) = Len(searched) + gen.count
      /\ \A k \in 1 .. Len(searched) : given[k] = searched[k]
      /\ \A k \in 1 .. gen.count : given[Len(searched) + k] = gen.got[k]
  BY <1>1, <1>2
<1> HIDE DEF given
<1>8. ASSUME NEW k \in 1 .. Len(given) PROVE given[k] = E[skip + k]
  <2>1. CASE k \in 1 .. Len(searched)
    BY <1>3, <1>7, <2>1
  <2>2. CASE k \notin 1 .. Len(searched)
    <3> DEFINE j == k - Len(searched)
    <3>1. j \in 1 .. gen.count /\ k = Len(searched) + j
      BY <1>1, <1>7, <2>2
    <3> HIDE DEF j
    <3>2. given[k] = E[Left + j]
      BY <1>2, <1>7, <3>1
    <3>3. Left + j = skip + k
      BY <1>1, <1>4, <3>1
    <3> QED
      BY <3>2, <3>3
  <2> QED
    BY <2>1, <2>2
<1>9. /\ Len(given) \in Nat /\ skip + Len(given) <= Len(E)
      /\ gen.over /\ ~gen.wait => skip + Len(given) = Len(E)
  BY <1>1, <1>2, <1>4, <1>5, <1>6, <1>7
<1> QED
  BY <1>7, <1>8, <1>9 DEF given, E

\* The invariant says that the stream is exact.
LEMMA InvExact == IInv => StreamExact
<1> SUFFICES ASSUME IInv PROVE StreamExact
  OBVIOUS
<1>1. ChunksFull
  BY DEF IInv, SearchOK
<1>2. ASSUME Searching
      PROVE  LET given == searched \o gen.got
                 due == SubSeq(Expected(opts), skip + 1, Len(Expected(opts)))
             IN  /\ IsPrefix(given, due)
                 /\ gen.over /\ ~gen.wait => given = due
  <2> DEFINE given == searched \o gen.got
             E == Expected(opts)
             S == {E[k] : k \in DOMAIN E}
             due == SubSeq(E, skip + 1, Len(E))
  <2>1. /\ Len(given) \in Nat /\ skip + Len(given) <= Len(E)
        /\ gen.over /\ ~gen.wait => skip + Len(given) = Len(E)
        /\ \A k \in 1 .. Len(given) : given[k] = E[skip + k]
    BY <1>2, GivenInOrder
  <2>2. searched \in Seq(Values) /\ gen.got \in Seq(Values) /\ skip \in Nat
    BY Typed DEF IInv
  <2>3. given \in Seq(Values)
    BY <2>2
  <2>4. Len(E) \in Nat /\ DOMAIN E = 1 .. Len(E)
    BY Typed, ExpectedAt DEF IInv
  <2>5. E \in Seq(S)
    <3>1. E \in [1 .. Len(E) -> S]
      BY <2>4 DEF Expected
    <3> HIDE DEF E, S
    <3> QED
      BY <2>4, <3>1
  <2> HIDE DEF given, E, S
  <2>6. /\ due \in Seq(S) /\ Len(due) = Len(E) - skip
        /\ \A k \in 1 .. Len(due) : due[k] = E[skip + k]
    <3> DEFINE n == Len(E)
    <3>1. n \in Nat /\ skip \in Nat /\ skip <= n
      <4>1. Len(given) \in Nat /\ skip \in Nat /\ n \in Nat /\ skip + Len(given) <= n
        BY <2>1, <2>2, <2>4
      <4> QED
        BY <4>1
    <3>2. /\ skip + 1 \in 1 .. n + 1 /\ n - (skip + 1) + 1 = n - skip
          /\ IF skip + 1 <= n THEN n - skip > 0 ELSE n - skip = 0
          /\ \A k \in 1 .. n - skip : skip + 1 + k - 1 = skip + k
      BY <3>1
    <3>3. \A i \in (skip + 1) .. n : i \in 1 .. n
      BY <3>1
    <3>4. /\ due \in Seq(S)
          /\ Len(due) = IF skip + 1 <= n THEN n - (skip + 1) + 1 ELSE 0
          /\ \A k \in 1 .. n - (skip + 1) + 1 : due[k] = E[skip + 1 + k - 1]
      <4>1. skip + 1 \in Int /\ n \in Int
        BY <3>1
      <4>2. \A i \in (skip + 1) .. n : E[i] \in S
        BY <2>4, <3>3 DEF S
      <4>3. due = SubSeq(E, skip + 1, n)
        OBVIOUS
      <4> HIDE DEF due, n
      <4> QED
        BY <4>1, <4>2, <4>3, SubSeqProperties
    <3> QED
      BY <3>2, <3>4
  <2> HIDE DEF due
  <2>7. Len(given) <= Len(due) /\ Len(due) \in Nat
    <3>1. /\ Len(given) \in Nat /\ skip \in Nat /\ Len(E) \in Nat
          /\ skip + Len(given) <= Len(E) /\ Len(due) = Len(E) - skip
      BY <2>1, <2>2, <2>4, <2>6
    <3> QED
      BY <3>1
  <2>8. \A k \in 1 .. Len(given) : given[k] = due[k]
    BY <2>1, <2>6, <2>7
  <2>9. IsPrefix(given, due)
    BY <2>3, <2>6, <2>7, <2>8 DEF IsPrefix
  <2>10. ASSUME gen.over, ~gen.wait PROVE given = due
    <3>1. Len(given) = Len(due)
      <4>1. /\ Len(given) \in Nat /\ skip \in Nat /\ Len(E) \in Nat
            /\ skip + Len(given) = Len(E) /\ Len(due) = Len(E) - skip
        BY <2>1, <2>2, <2>4, <2>6, <2>10
      <4> QED
        BY <4>1
    <3> QED
      BY <2>3, <2>6, <2>8, <3>1
  <2> QED
    BY <2>9, <2>10 DEF given, due, E
<1> QED
  BY <1>1, <1>2 DEF StreamExact

\* For every list, filter, share and skip, the search of a sitting gets
\* exactly the passwords that are due, in order and in full chunks, whether
\* or not the generator was used to count and to skip before
\* (password_generator_factory, DuplicateChecker).
THEOREM StreamKeepsOrder == Spec => []StreamExact
  BY StreamInvariant, InvExact, PTL

\* The total that main() saves is the number of passwords it generates.
THEOREM StreamCountsExactly == Spec => []CountExact
<1>1. IInv => CountExact
  BY DEF IInv, SessionOK
<1> QED
  BY <1>1, StreamInvariant, PTL

\* A restored sitting with the same duplicate checks skips only what earlier
\* ones have tested, or the user gave up.
THEOREM StreamSkipsTested == Spec => []SkipsOnlyTried
<1>1. ASSUME IInv, Searching, ~changed, NEW x \in skipped, x \notin GivenUp
      PROVE  x \in tested
  <2> DEFINE E == Expected(opts)
  <2>1. /\ skipped = {E[k] : k \in 1 .. skip} /\ phase # "off"
    BY <1>1 DEF IInv, SkipOK, Searching
  <2>2. PICK k \in 1 .. skip : x = E[k]
    BY <1>1, <2>1
  <2>3. skip \in Nat /\ wish \in Nat /\ Len(E) \in Nat /\ DOMAIN E = 1 .. Len(E)
    BY <1>1, Typed, ExpectedAt DEF IInv
  <2>4. skip <= Len(E)
    <3>1. Len(searched \o gen.got) \in Nat /\ skip + Len(searched \o gen.got) <= Len(E)
      BY <1>1, GivenInOrder
    <3> QED
      BY <2>3, <3>1
  <2>5. k \in DOMAIN E
    BY <2>3, <2>4
  <2>6. k \notin 1 .. wish
    BY <1>1, <2>2, <2>5 DEF GivenUp
  <2>7. k \in (wish + 1) .. skip
    BY <2>3, <2>6
  <2> QED
    BY <1>1, <2>2, <2>5, <2>7 DEF IInv, SessionOK
<1>2. IInv => SkipsOnlyTried
  BY <1>1 DEF SkipsOnlyTried
<1> QED
  BY <1>2, StreamInvariant, PTL
=============================================================================
