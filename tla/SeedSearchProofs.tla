-------------------------- MODULE SeedSearchProofs --------------------------
(***************************************************************************)
(* The mnemonic searches, for every wordlist, checksum, address filter,    *)
(* call, chunk size and limit: the invariant IInv, the exactness and the   *)
(* order of their results, their figures, and the refinement of Search.    *)
(*                                                                         *)
(* Fillings, combinations and omissions are finite and counted by rank, so *)
(* the proofs need facts about the elements of a finite ordered set.  The  *)
(* search spaces are counted without induction over data: a product of     *)
(* choices is the size of a fibre times their number, a factorial counts   *)
(* bijections, and a statement about every number is shown of the least one *)
(* that fails it (LeastNumber).                                            *)
(***************************************************************************)
EXTENDS SeedSearch, FiniteSetTheorems, TLAPS

-----------------------------------------------------------------------------
(* Finite sets in a strict order *)

\* A set of natural numbers has a least one.
LEMMA LeastNumber ==
  ASSUME NEW T, T \subseteq Nat, T # {}
  PROVE  \E n \in T : \A m \in T : n <= m
<1>1. PICK n \in T : \A m \in T : <<m, n>> \notin OpToRel(<, Nat)
  BY NatLessThanWellFounded, WFMin
<1>2. \A m \in T : ~(m < n)
  BY <1>1 DEF OpToRel
<1> QED
  BY <1>2

\* R orders S: the pairs <<x, y>> with x before y.
Orders(R, S) ==
  /\ \A x \in S : <<x, x>> \notin R
  /\ \A x, y, z \in S : <<x, y>> \in R /\ <<y, z>> \in R => <<x, z>> \in R
  /\ \A x, y \in S : x # y => <<x, y>> \in R \/ <<y, x>> \in R

Below(R, S, x) == {y \in S : <<y, x>> \in R}

Place(R, S, x) == Cardinality(Below(R, S, x))

\* The place of an element counts from zero.
LEMMA PlaceType ==
  ASSUME NEW R, NEW S, IsFiniteSet(S), NEW x \in S, Orders(R, S)
  PROVE  Place(R, S, x) \in 0..(Cardinality(S) - 1)
<1>1. Below(R, S, x) \subseteq S \ {x}
  BY DEF Below, Orders
<1>2. IsFiniteSet(S \ {x}) /\ Cardinality(S \ {x}) = Cardinality(S) - 1
  BY FS_RemoveElement
<1>3. /\ IsFiniteSet(Below(R, S, x))
      /\ Cardinality(Below(R, S, x)) <= Cardinality(S \ {x})
  BY <1>1, <1>2, FS_Subset
<1>4. Cardinality(Below(R, S, x)) \in Nat /\ Cardinality(S) \in Nat
  BY <1>3, FS_CardinalityType
<1> QED
  BY <1>2, <1>3, <1>4 DEF Place

\* Later elements have greater places.
LEMMA PlaceGrows ==
  ASSUME NEW R, NEW S, IsFiniteSet(S), NEW x \in S, NEW y \in S, Orders(R, S),
         <<x, y>> \in R
  PROVE  Place(R, S, x) < Place(R, S, y)
<1>1. Below(R, S, x) \subseteq Below(R, S, y) \ {x}
  BY DEF Below, Orders
<1>2. IsFiniteSet(Below(R, S, y)) /\ x \in Below(R, S, y)
  BY FS_Subset DEF Below
<1>3. /\ IsFiniteSet(Below(R, S, y) \ {x})
      /\ Cardinality(Below(R, S, y) \ {x}) = Cardinality(Below(R, S, y)) - 1
  BY <1>2, FS_RemoveElement
<1>4. Cardinality(Below(R, S, x)) <= Cardinality(Below(R, S, y) \ {x})
  BY <1>1, <1>3, FS_Subset
<1>5. Place(R, S, x) \in Nat /\ Place(R, S, y) \in Nat
  <2>1. IsFiniteSet(Below(R, S, x))
    BY <1>1, <1>3, FS_Subset
  <2> QED
    BY <1>2, <2>1, FS_CardinalityType DEF Place
<1> QED
  BY <1>3, <1>4, <1>5 DEF Place

\* Every place is taken by exactly one element.
LEMMA PlaceTaken ==
  ASSUME NEW R, NEW S, IsFiniteSet(S), Orders(R, S)
  PROVE  /\ \A x, y \in S : Place(R, S, x) = Place(R, S, y) => x = y
         /\ \A k \in 0..(Cardinality(S) - 1) : \E x \in S : Place(R, S, x) = k
<1> DEFINE P == [x \in S |-> Place(R, S, x)]
           T == 0..(Cardinality(S) - 1)
<1>1. \A x, y \in S : Place(R, S, x) = Place(R, S, y) => x = y
  <2> SUFFICES ASSUME NEW x \in S, NEW y \in S, x # y
               PROVE  Place(R, S, x) # Place(R, S, y)
    OBVIOUS
  <2>1. Place(R, S, x) \in Nat /\ Place(R, S, y) \in Nat
    BY PlaceType
  <2>2. <<x, y>> \in R \/ <<y, x>> \in R
    BY DEF Orders
  <2>3. Place(R, S, x) < Place(R, S, y) \/ Place(R, S, y) < Place(R, S, x)
    BY <2>2, PlaceGrows
  <2> QED
    BY <2>1, <2>3
<1>2. Cardinality(S) \in Nat
  BY FS_CardinalityType
<1>3. IsFiniteSet(T) /\ Cardinality(T) = Cardinality(S)
  BY <1>2, FS_Interval
<1>4. P \in Injection(S, T)
  <2>1. P \in [S -> T]
    BY PlaceType
  <2> HIDE DEF T
  <2> QED
    BY <1>1, <2>1 DEF Injection, IsInjective
<1>5. P \in Surjection(S, T)
  <2> HIDE DEF P, T
  <2> QED
    BY <1>3, <1>4, FS_Injection
<1>6. \A k \in T : \E x \in S : P[x] = k
  <2> HIDE DEF T, P
  <2> QED
    BY <1>5 DEF Surjection
<1> QED
  BY <1>1, <1>6

\* The first k elements are k, or all of them, and none outside them comes
\* before one of them.
LEMMA FirstPlaces ==
  ASSUME NEW R, NEW S, IsFiniteSet(S), Orders(R, S), NEW k \in Nat,
         NEW F, F = {x \in S : Place(R, S, x) < k}
  PROVE  /\ IsFiniteSet(F) /\ Cardinality(F) <= k
         /\ F # S => Cardinality(F) = k
         /\ \A x \in F, y \in S \ F : <<x, y>> \in R
<1>1. IsFiniteSet(F) /\ Cardinality(F) \in Nat /\ Cardinality(S) \in Nat
  BY FS_Subset, FS_CardinalityType
<1>2. \A x \in S : Place(R, S, x) \in Nat /\ Place(R, S, x) <= Cardinality(S) - 1
  BY <1>1, PlaceType
<1> DEFINE P == [x \in F |-> Place(R, S, x)]
           T == 0..(k - 1)
<1>3. IsFiniteSet(T) /\ Cardinality(T) = k
  BY FS_Interval
<1>4. P \in Injection(F, T)
  <2>1. P \in [F -> T]
    BY <1>2
  <2> HIDE DEF T
  <2> QED
    BY <2>1, PlaceTaken DEF Injection, IsInjective
<1>5. Cardinality(F) <= k
  <2> HIDE DEF P, T
  <2> QED
    BY <1>3, <1>4, FS_Injection
<1>6. ASSUME F # S PROVE Cardinality(F) = k
  <2>1. k <= Cardinality(S) - 1
    <3>1. PICK x \in S : ~(Place(R, S, x) < k)
      BY <1>6
    <3> QED
      BY <1>1, <1>2, <3>1
  <2>2. \A n \in T : \E x \in F : P[x] = n
    <3> SUFFICES ASSUME NEW n \in T PROVE \E x \in F : P[x] = n
      OBVIOUS
    <3>1. n \in 0..(Cardinality(S) - 1) /\ n < k
      BY <1>1, <2>1
    <3>2. PICK x \in S : Place(R, S, x) = n
      BY <3>1, PlaceTaken
    <3> QED
      BY <3>1, <3>2
  <2>3. P \in Surjection(F, T)
    <3> HIDE DEF T, P
    <3> QED
      BY <1>4, <2>2 DEF Injection, Surjection
  <2> HIDE DEF P, T
  <2> QED
    BY <1>3, <1>4, <2>3, FS_Injection
<1>7. ASSUME NEW x \in F, NEW y \in S \ F PROVE <<x, y>> \in R
  <2>1. ~(Place(R, S, y) < Place(R, S, x))
    BY <1>2
  <2>2. <<y, x>> \notin R
    BY <2>1, PlaceGrows
  <2> QED
    BY <2>2 DEF Orders
<1> QED
  BY <1>1, <1>5, <1>6, <1>7

-----------------------------------------------------------------------------
(* The two orders of SeedSearch *)

\* The pairs of S in the order in which product() yields them.
Wordwise(S) == {p \in S \X S : Before(p[1], p[2])}

\* The order of the wordlist is strict and total on mnemonics of one length.
LEMMA WordwiseOrders ==
  ASSUME NEW n \in Nat, NEW S, S \subseteq [1..n -> Int]
  PROVE  Orders(Wordwise(S), S)
<1>1. ASSUME NEW f \in S PROVE ~Before(f, f)
  BY DEF Before
<1>2. ASSUME NEW f \in S, NEW g \in S, NEW h \in S,
             Before(f, g), Before(g, h)
      PROVE  Before(f, h)
  <2>1. PICK i \in 1..n : f[i] < g[i] /\ \A k \in 1..(i - 1) : f[k] = g[k]
    BY <1>2 DEF Before
  <2>2. PICK j \in 1..n : g[j] < h[j] /\ \A k \in 1..(j - 1) : g[k] = h[k]
    BY <1>2 DEF Before
  <2>3. \A k \in 1..n : f[k] \in Int /\ g[k] \in Int /\ h[k] \in Int
    OBVIOUS
  <2>4. CASE i <= j
    <3>1. f[i] < h[i] /\ \A k \in 1..(i - 1) : f[k] = h[k]
      BY <2>1, <2>2, <2>3, <2>4
    <3> QED
      BY <3>1 DEF Before
  <2>5. CASE j < i
    <3>1. f[j] < h[j] /\ \A k \in 1..(j - 1) : f[k] = h[k]
      BY <2>1, <2>2, <2>3, <2>5
    <3> QED
      BY <3>1 DEF Before
  <2> QED
    BY <2>4, <2>5
<1>3. ASSUME NEW f \in S, NEW g \in S, f # g
      PROVE  Before(f, g) \/ Before(g, f)
  <2> DEFINE T == {i \in 1..n : f[i] # g[i]}
  <2>1. T # {} /\ T \subseteq Nat
    <3>1. f \in [1..n -> Int] /\ g \in [1..n -> Int]
      OBVIOUS
    <3> QED
      BY <1>3, <3>1
  <2>2. PICK i \in T : \A j \in T : i <= j
    BY <2>1, LeastNumber
  <2>3. \A j \in 1..(i - 1) : f[j] = g[j] /\ g[j] = f[j]
    BY <2>2
  <2>4. f[i] < g[i] \/ g[i] < f[i]
    BY <2>2
  <2> QED
    BY <2>2, <2>3, <2>4 DEF Before
<1> QED
  BY <1>1, <1>2, <1>3 DEF Orders, Wordwise

\* The pairs of sets of places in the order of combinations().
Placewise(S) == {p \in S \X S : Earlier(p[1], p[2])}

\* The order of combinations() is strict and total.
LEMMA PlacewiseOrders ==
  ASSUME NEW S, S \subseteq SUBSET (Nat \ {0})
  PROVE  Orders(Placewise(S), S)
<1>1. ASSUME NEW P \in S PROVE ~Earlier(P, P)
  BY DEF Earlier
<1>2. ASSUME NEW P \in S, NEW Q \in S, NEW V \in S,
             Earlier(P, Q), Earlier(Q, V)
      PROVE  Earlier(P, V)
  <2>1. PICK i \in P \ Q : \A k \in 1..(i - 1) : k \in P <=> k \in Q
    BY <1>2 DEF Earlier
  <2>2. PICK j \in Q \ V : \A k \in 1..(j - 1) : k \in Q <=> k \in V
    BY <1>2 DEF Earlier
  <2>3. i \in Nat \ {0} /\ j \in Nat \ {0} /\ i # j
    BY <2>1, <2>2
  <2>4. CASE i < j
    <3>1. i \in P \ V /\ \A k \in 1..(i - 1) : k \in P <=> k \in V
      BY <2>1, <2>2, <2>3, <2>4
    <3> QED
      BY <3>1 DEF Earlier
  <2>5. CASE j < i
    <3>1. j \in P \ V /\ \A k \in 1..(j - 1) : k \in P <=> k \in V
      BY <2>1, <2>2, <2>3, <2>5
    <3> QED
      BY <3>1 DEF Earlier
  <2> QED
    BY <2>3, <2>4, <2>5
<1>3. ASSUME NEW P \in S, NEW Q \in S, P # Q
      PROVE  Earlier(P, Q) \/ Earlier(Q, P)
  <2> DEFINE T == (P \ Q) \cup (Q \ P)
  <2>1. T # {} /\ T \subseteq Nat
    BY <1>3
  <2>2. PICK i \in T : \A j \in T : i <= j
    BY <2>1, LeastNumber
  <2>3. \A j \in 1..(i - 1) : j \in P <=> j \in Q
    BY <2>1, <2>2
  <2> QED
    BY <2>2, <2>3 DEF Earlier
<1> QED
  BY <1>1, <1>2, <1>3 DEF Orders, Placewise

-----------------------------------------------------------------------------
(* How the searches cut what they were asked for into tasks *)

\* The tasks ts are the parts of X, and none is lost.
Divides(ts, X) ==
  /\ Len(ts) \in Nat
  /\ UNION {ts[k] : k \in 1..Len(ts)} = X

\* Nothing is in two tasks.
OneByOne(ts) ==
  \A a, b \in 1..Len(ts) : a # b => ts[a] \cap ts[b] = {}

\* What is in an earlier task comes before what is in a later one.
InOrder(ts) ==
  \A a, b \in 1..Len(ts) : a < b =>
     \A f \in ts[a], g \in ts[b] : Before(f, g)

\* A list built place by place has that many places.
LEMMA ListLength ==
  ASSUME NEW n \in Nat, NEW X, NEW ts \in [1..n -> X]
  PROVE  Len(ts) = n
<1>1. ts \in Seq(X)
  OBVIOUS
<1>2. Len(ts) \in Nat /\ DOMAIN ts = 1..Len(ts)
  BY <1>1
<1> QED
  BY <1>2

\* Min is what its name says.
LEMMA MinIsLeast ==
  ASSUME NEW T, T \subseteq Nat, T # {}
  PROVE  Min(T) \in T /\ \A m \in T : Min(T) <= m
BY LeastNumber DEF Min

\* The rank of a word among finitely many counts from zero, and a greater
\* rank is that of a later word.
LEMMA RankType ==
  ASSUME NEW T, T \subseteq Int, IsFiniteSet(T), NEW w \in T
  PROVE  /\ Cardinality(T) \in Nat
         /\ Rank(w, T) \in Nat /\ Rank(w, T) < Cardinality(T)
         /\ \A v \in T : Rank(w, T) < Rank(v, T) => w < v
<1> DEFINE L(v) == {x \in T : x < v}
<1>1. L(w) \subseteq T \ {w}
  OBVIOUS
<1>2. IsFiniteSet(T \ {w}) /\ Cardinality(T \ {w}) = Cardinality(T) - 1
  BY FS_RemoveElement
<1>3. IsFiniteSet(L(w)) /\ Cardinality(L(w)) <= Cardinality(T \ {w})
  BY <1>1, <1>2, FS_Subset
<1>4. Cardinality(L(w)) \in Nat /\ Cardinality(T) \in Nat
  BY <1>3, FS_CardinalityType
<1>5. ASSUME NEW v \in T, ~(w < v)
      PROVE  ~(Cardinality(L(w)) < Cardinality(L(v)))
  <2>1. L(v) \subseteq L(w)
    <3> SUFFICES ASSUME NEW x \in L(v) PROVE x \in L(w)
      OBVIOUS
    <3>1. x \in T /\ x < v /\ x \in Int /\ v \in Int /\ w \in Int
      OBVIOUS
    <3> QED
      BY <3>1, <1>5
  <2>2. IsFiniteSet(L(v)) /\ Cardinality(L(v)) <= Cardinality(L(w))
    BY <2>1, <1>3, FS_Subset
  <2>3. Cardinality(L(v)) \in Nat
    BY <2>2, FS_CardinalityType
  <2> QED
    BY <1>4, <2>2, <2>3
<1>6. \A v : Rank(v, T) = Cardinality(L(v))
  BY DEF Rank
<1> HIDE DEF L
<1> QED
  BY <1>2, <1>3, <1>4, <1>5, <1>6

\* The chunk of the r-th of N words is one of those N words make, the last,
\* which may be short, included.
LEMMA ChunkExists ==
  ASSUME NEW N \in Nat, NEW s \in Nat \ {0}, NEW r \in Nat, r < N
  PROVE  /\ (r \div s) + 1 \in 1..((N + s - 1) \div s)
         /\ (N + s - 1) \div s \in Nat
<1> DEFINE q == r \div s
           Q == (N + s - 1) \div s
           u == r % s
           U == (N + s - 1) % s
<1>1. q \in Nat /\ Q \in Nat /\ u \in 0..(s - 1) /\ U \in 0..(s - 1)
  OBVIOUS
<1>2. r = s * q + u /\ N + s - 1 = s * Q + U
  OBVIOUS
<1> HIDE DEF q, Q, u, U
<1>3. q + 1 <= Q
  <2> SUFFICES ASSUME Q <= q PROVE FALSE
    BY <1>1
  <2>1. PICK d \in Nat : q = Q + d
    BY <1>1
  <2>2. s * q = s * Q + s * d
    BY <1>1, <2>1
  <2>3. s * d \in Nat /\ s * Q \in Nat
    BY <1>1, <2>1
  <2> DEFINE a == s * d
             b == s * Q
             c == s * q
  <2>4. a \in Nat /\ b \in Nat /\ c = b + a /\ r = c + u /\ N + s - 1 = b + U
    BY <1>2, <2>2, <2>3
  <2> HIDE DEF a, b, c
  <2> QED
    BY <2>4, <1>1
<1>4. q + 1 \in 1..Q
  BY <1>1, <1>3
<1> QED
  BY <1>1, <1>4 DEF q, Q

\* Division does not turn the order of two ranks around.
LEMMA QuotientGrows ==
  ASSUME NEW s \in Nat \ {0}, NEW r \in Nat, NEW t \in Nat, t <= r
  PROVE  t \div s <= r \div s
<1> DEFINE q == r \div s
           Q == t \div s
           u == r % s
           U == t % s
<1>1. q \in Nat /\ Q \in Nat /\ u \in 0..(s - 1) /\ U \in 0..(s - 1)
  OBVIOUS
<1>2. r = s * q + u /\ t = s * Q + U
  OBVIOUS
<1> HIDE DEF q, Q, u, U
<1>3. Q <= q
  <2> SUFFICES ASSUME q < Q PROVE FALSE
    BY <1>1
  <2>1. PICK d \in Nat : Q = q + 1 + d
    <3>1. Q - q - 1 \in Nat /\ Q = q + 1 + (Q - q - 1)
      BY <1>1
    <3> QED
      BY <3>1
  <2>2. s * Q = s * q + s + s * d
    BY <1>1, <2>1
  <2>3. s * d \in Nat /\ s * q \in Nat
    BY <1>1, <2>1
  <2> DEFINE a == s * d
             b == s * q
             c == s * Q
  <2>4. a \in Nat /\ b \in Nat /\ c = b + s + a /\ r = b + u /\ t = c + U
    BY <1>2, <2>2, <2>3
  <2> HIDE DEF a, b, c
  <2> QED
    BY <2>4, <1>1
<1> QED
  BY <1>3 DEF q, Q

\* What a phrase gives its searches: finitely many words at each of its
\* places, a single one at the fixed places.
LEMMA PhraseType ==
  ASSUME NEW K, NEW ph, IsPhrase(ph, K)
  PROVE  /\ Len(ph) \in Nat /\ DOMAIN ph = 1..Len(ph)
         /\ \A i \in 1..Len(ph) :
               /\ ph[i].kind \in K
               /\ ph[i].words \subseteq Int /\ IsFiniteSet(ph[i].words)
               /\ ph[i].kind = "word" => \E w \in ph[i].words : ph[i].words = {w}
               /\ ph[i].kind = "unknown" => ph[i].words = Wordlist
<1> DEFINE Token == [kind : K, words : SUBSET Int]
<1>1. ph \in Seq(Token) /\ \A i \in DOMAIN ph : IsFiniteSet(ph[i].words)
  BY DEF IsPhrase
<1>2. Len(ph) \in Nat /\ DOMAIN ph = 1..Len(ph) /\ \A i \in 1..Len(ph) : ph[i] \in Token
  <2> HIDE DEF Token
  <2> QED
    BY <1>1
<1>3. \A i \in 1..Len(ph) :
         ph[i].kind \in K /\ ph[i].words \subseteq Int /\ IsFiniteSet(ph[i].words)
  BY <1>1, <1>2
<1> QED
  BY <1>2, <1>3 DEF IsPhrase

\* A filling is a mnemonic as long as the phrase.
LEMMA FillingsType ==
  ASSUME NEW K, NEW ph, IsPhrase(ph, K)
  PROVE  /\ Fillings(ph) \subseteq [1..Len(ph) -> Int]
         /\ \A f \in Fillings(ph) : \A i \in 1..Len(ph) : f[i] \in ph[i].words
<1>1. DOMAIN ph = 1..Len(ph) /\ \A i \in 1..Len(ph) : ph[i].words \subseteq Int
  BY PhraseType
<1>2. UNION {ph[i].words : i \in DOMAIN ph} \subseteq Int
  BY <1>1
<1> DEFINE U == UNION {ph[i].words : i \in DOMAIN ph}
<1>3. Fillings(ph) = {f \in [1..Len(ph) -> U] : \A i \in 1..Len(ph) : f[i] \in ph[i].words}
  BY <1>1 DEF Fillings
<1> HIDE DEF U
<1> QED
  BY <1>2, <1>3 DEF U

\* The first place to fill in, and the places before it, which are fixed.
LEMMA FirstPlace ==
  ASSUME NEW K, NEW ph, IsPhrase(ph, K), Variable(ph) # {}
  PROVE  /\ Min(Variable(ph)) \in 1..Len(ph)
         /\ Min(Variable(ph)) \in Variable(ph)
         /\ \A j \in 1..(Min(Variable(ph)) - 1) :
               \A f, g \in Fillings(ph) : f[j] = g[j]
<1> DEFINE pos0 == Min(Variable(ph))
<1>1. Len(ph) \in Nat /\ DOMAIN ph = 1..Len(ph)
  BY PhraseType
<1>2. Variable(ph) \subseteq 1..Len(ph)
  BY <1>1 DEF Variable
<1>3. pos0 \in Variable(ph) /\ \A j \in Variable(ph) : pos0 <= j
  BY <1>1, <1>2, MinIsLeast
<1> HIDE DEF pos0
<1>4. pos0 \in 1..Len(ph)
  BY <1>2, <1>3
<1>5. ASSUME NEW j \in 1..(pos0 - 1), NEW f \in Fillings(ph), NEW g \in Fillings(ph)
      PROVE  f[j] = g[j]
  <2>1. j \in 1..Len(ph) /\ j \notin Variable(ph)
    BY <1>1, <1>3, <1>4
  <2>2. ph[j].kind = "word"
    BY <1>1, <2>1 DEF Variable
  <2>3. \E w \in ph[j].words : ph[j].words = {w}
    BY <2>1, <2>2, PhraseType
  <2>4. f[j] \in ph[j].words /\ g[j] \in ph[j].words
    BY <2>1, FillingsType
  <2> QED
    BY <2>3, <2>4
<1> QED
  BY <1>3, <1>4, <1>5 DEF pos0

\* recover_missing_words: every filling is in the chunk of its first word,
\* and the chunks follow the order of the wordlist.
LEMMA MissingDivided ==
  ASSUME NEW K, NEW ph, IsPhrase(ph, K), Variable(ph) # {}
  PROVE  /\ Divides(MissingTasks(ph), Fillings(ph))
         /\ InOrder(MissingTasks(ph))
<1> DEFINE pos0 == Min(Variable(ph))
           F == Fillings(ph)
           W == ph[pos0].words
           n == (Cardinality(W) + ChunkSize - 1) \div ChunkSize
           of(f) == Rank(f[pos0], W) \div ChunkSize
           ts == MissingTasks(ph)
<1>1. ts = [c \in 1..n |-> {f \in F : of(f) = c - 1}]
  BY DEF MissingTasks
<1> HIDE DEF ts
<1>2. pos0 \in 1..Len(ph) /\ \A j \in 1..(pos0 - 1) : \A f, g \in F : f[j] = g[j]
  BY FirstPlace
<1> HIDE DEF pos0
<1>3. W \subseteq Int /\ IsFiniteSet(W)
  BY <1>2, PhraseType
<1>4. \A f \in F : f[pos0] \in W
  BY <1>2, FillingsType
<1> HIDE DEF F
<1>5. \A w \in W : /\ Rank(w, W) \in Nat /\ Rank(w, W) < Cardinality(W)
                   /\ Cardinality(W) \in Nat
                   /\ \A v \in W : Rank(w, W) < Rank(v, W) => w < v
  <2> HIDE DEF W
  <2> QED
    BY <1>3, RankType
<1> HIDE DEF W
<1>6. \A f \in F : of(f) + 1 \in 1..n /\ of(f) \in Nat
  <2> SUFFICES ASSUME NEW f \in F PROVE of(f) + 1 \in 1..n /\ of(f) \in Nat
    OBVIOUS
  <2> DEFINE r == Rank(f[pos0], W)
             N == Cardinality(W)
  <2>1. r \in Nat /\ r < N /\ N \in Nat
    BY <1>4, <1>5
  <2> HIDE DEF r, N
  <2>2. (r \div ChunkSize) + 1 \in 1..((N + ChunkSize - 1) \div ChunkSize)
    BY ConstantsAssumption, <2>1, ChunkExists
  <2>3. r \div ChunkSize \in Nat
    BY ConstantsAssumption, <2>1
  <2> QED
    BY <2>2, <2>3 DEF r, N
<1>7. n \in Nat
  <2>1. Cardinality(W) \in Nat
    BY <1>3, FS_CardinalityType
  <2> QED
    BY ConstantsAssumption, <2>1
<1> HIDE DEF n
<1>8. Len(ts) = n
  <2>1. ts \in [1..n -> SUBSET F]
    BY <1>1
  <2> QED
    BY <1>7, <2>1, ListLength
<1>9. Divides(ts, F)
  <2>1. \A f \in F : f \in ts[of(f) + 1]
    <3> HIDE DEF of
    <3> QED
      BY <1>1, <1>6
  <2>2. \A k \in 1..n : ts[k] \subseteq F
    BY <1>1
  <2> HIDE DEF of
  <2>3. UNION {ts[k] : k \in 1..Len(ts)} = F
    BY <1>6, <1>8, <2>1, <2>2
  <2> QED
    BY <1>7, <1>8, <2>3 DEF Divides
<1>10. InOrder(ts)
  <2> SUFFICES ASSUME NEW a \in 1..n, NEW b \in 1..n, a < b,
                      NEW f \in ts[a], NEW g \in ts[b]
               PROVE  Before(f, g)
    BY <1>8 DEF InOrder
  <2>1. f \in F /\ g \in F /\ of(f) = a - 1 /\ of(g) = b - 1
    BY <1>1
  <2>2. f[pos0] \in W /\ g[pos0] \in W
    BY <1>4, <2>1
  <2> DEFINE r == Rank(f[pos0], W)
             t == Rank(g[pos0], W)
  <2>3. r \in Nat /\ t \in Nat /\ (r < t => f[pos0] < g[pos0])
    BY <1>5, <2>2
  <2>4. r \div ChunkSize = a - 1 /\ t \div ChunkSize = b - 1
    BY <2>1
  <2> HIDE DEF r, t
  <2>5. r < t
    <3>1. CASE t <= r
      <4>1. t \div ChunkSize <= r \div ChunkSize
        BY ConstantsAssumption, <2>3, <3>1, QuotientGrows
      <4> QED
        BY <2>4, <4>1
    <3> QED
      BY <2>3, <3>1
  <2>6. f[pos0] < g[pos0] /\ \A j \in 1..(pos0 - 1) : f[j] = g[j]
    BY <1>2, <2>1, <2>3, <2>5
  <2>7. pos0 \in DOMAIN f
    <3>1. f \in [1..Len(ph) -> Int]
      BY <2>1, FillingsType DEF F
    <3> QED
      BY <1>2, <3>1
  <2> QED
    BY <2>6, <2>7 DEF Before
<1> QED
  BY <1>9, <1>10 DEF ts, F

\* The phrase validated as it is makes one task.
LEMMA AsIsDivided ==
  ASSUME NEW F
  PROVE  Divides(<<F>>, F) /\ InOrder(<<F>>)
<1>1. Len(<<F>>) = 1 /\ <<F>>[1] = F
  OBVIOUS
<1> QED
  BY <1>1 DEF Divides, InOrder

\* recover_word_order: every arrangement puts one word of the pool first.
LEMMA OrderDivided ==
  ASSUME NEW ph, IsPhrase(ph, {"word", "unknown"}),
         NEW pool, pool \in Seq(Int), ~OrderRefused(ph, pool),
         NEW ts \in OrderTasks(ph, pool)
  PROVE  Divides(ts, Arrangements(ph, pool)) /\ OneByOne(ts)
<1> DEFINE pos0 == Min(Variable(ph))
           A == Arrangements(ph, pool)
           W == {pool[i] : i \in DOMAIN pool}
           m == Cardinality(W)
<1>1. Range(pool) = W
  BY DEF Range
<1>2. Len(pool) \in Nat /\ DOMAIN pool = 1..Len(pool) /\ Len(pool) # 0
  <2>1. pool # << >>
    BY DEF OrderRefused
  <2> QED
    BY <2>1
<1>3. IsFiniteSet(W) /\ m \in Nat
  <2>1. IsFiniteSet(1..Len(pool))
    BY <1>2, FS_Interval
  <2>2. pool \in Surjection(1..Len(pool), W)
    BY <1>2 DEF Surjection
  <2>3. IsFiniteSet(W)
    <3> HIDE DEF W
    <3> QED
      BY <2>1, <2>2, FS_Surjection
  <2> QED
    BY <2>3, FS_CardinalityType
<1>4. Len(ph) \in Nat /\ DOMAIN ph = 1..Len(ph)
  BY PhraseType
<1>5. Variable(ph) # {} /\ IsFiniteSet(Variable(ph))
  <2>1. Cardinality(Variable(ph)) = Len(pool)
    BY DEF OrderRefused
  <2>2. Variable(ph) \subseteq 1..Len(ph)
    BY <1>4 DEF Variable
  <2>3. IsFiniteSet(1..Len(ph))
    BY <1>4, FS_Interval
  <2> QED
    BY <1>2, <2>1, <2>2, <2>3, FS_Subset, FS_EmptySet
<1>6. pos0 \in 1..Len(ph) /\ pos0 \in Variable(ph)
  BY <1>5, FirstPlace
<1> HIDE DEF pos0
<1>7. \A f \in A : f[pos0] \in W
  <2> SUFFICES ASSUME NEW f \in A PROVE f[pos0] \in W
    OBVIOUS
  <2> DEFINE w == f[pos0]
             P == {i \in Variable(ph) : f[i] = w}
             Q == {i \in DOMAIN pool : pool[i] = w}
  <2>1. f \in Fillings(ph)
    BY DEF Arrangements
  <2>2. w \in Wordlist
    <3>1. ph[pos0].words = Wordlist
      BY <1>4, <1>6, PhraseType DEF Variable
    <3> QED
      BY <1>6, <2>1, <3>1, FillingsType
  <2>3. Cardinality(P) = Cardinality(Q)
    BY <2>2 DEF Arrangements, Count
  <2>4. pos0 \in P
    BY <1>6
  <2> HIDE DEF w
  <2>5. IsFiniteSet(P)
    BY <1>5, FS_Subset
  <2> HIDE DEF P
  <2>6. Cardinality(P) # 0
    BY <2>4, <2>5, FS_EmptySet
  <2>7. Q # {}
    <3> HIDE DEF Q
    <3> QED
      BY <2>3, <2>6, FS_EmptySet
  <2> QED
    BY <2>7 DEF w
<1>8. PICK ws \in {s \in [1..m -> W] : IsInjective(s)} :
         ts = [k \in DOMAIN ws |-> {f \in A : f[pos0] = ws[k]}]
  BY <1>1 DEF OrderTasks, pos0
<1> HIDE DEF A
<1>9. ts = [k \in 1..m |-> {f \in A : f[pos0] = ws[k]}]
  <2> HIDE DEF m, W
  <2> QED
    BY <1>8
<1>10. \A w \in W : \E k \in 1..m : ws[k] = w
  <2>1. IsFiniteSet(1..m) /\ Cardinality(1..m) = m
    BY <1>3, FS_Interval
  <2>2. ws \in Injection(1..m, W)
    BY <1>8 DEF IsInjective, Injection, IsInjective
  <2>3. ws \in Surjection(1..m, W)
    <3> HIDE DEF W
    <3> QED
      BY <1>3, <2>1, <2>2, FS_Injection
  <2> QED
    BY <2>3 DEF Surjection
<1> HIDE DEF m, W
<1>11. Len(ts) = m
  <2>1. ts \in [1..m -> SUBSET A]
    BY <1>9
  <2> QED
    BY <1>3, <2>1, ListLength
<1>12. UNION {ts[k] : k \in 1..m} = A
  <2>1. \A k \in 1..m : ts[k] \subseteq A
    BY <1>9
  <2>2. ASSUME NEW f \in A PROVE \E k \in 1..m : f \in ts[k]
    <3>1. PICK k \in 1..m : ws[k] = f[pos0]
      BY <1>7, <1>10
    <3> QED
      BY <1>9, <3>1
  <2> QED
    BY <2>1, <2>2
<1>13. OneByOne(ts)
  <2> SUFFICES ASSUME NEW a \in 1..m, NEW b \in 1..m, NEW f \in ts[a], f \in ts[b]
               PROVE  a = b
    BY <1>11 DEF OneByOne
  <2>1. ws[a] = ws[b]
    BY <1>9
  <2>2. DOMAIN ws = 1..m /\ IsInjective(ws)
    BY <1>8
  <2> QED
    BY <2>1, <2>2 DEF IsInjective
<1> QED
  BY <1>3, <1>11, <1>12, <1>13 DEF Divides, A

\* Every set of n places is taken once by the sorted combinations.
LEMMA CombosListed ==
  ASSUME NEW ws \in Seq(Int), NEW n
  PROVE  LET C == Combos(ws, n)
             s == SortedCombos(ws, n)
         IN  /\ IsFiniteSet(C) /\ Cardinality(C) \in Nat
             /\ s = [k \in 1..Cardinality(C) |-> s[k]]
             /\ \A k \in 1..Cardinality(C) : s[k] \in C
             /\ \A P \in C : \E k \in 1..Cardinality(C) : s[k] = P
<1> DEFINE C == Combos(ws, n)
           s == SortedCombos(ws, n)
           N == Cardinality(C)
           R == Placewise(C)
<1>1. Len(ws) \in Nat /\ DOMAIN ws = 1..Len(ws)
  OBVIOUS
<1>2. per_position(ws) \subseteq 1..Len(ws)
  BY <1>1 DEF per_position
<1>3. C \subseteq SUBSET (Nat \ {0}) /\ C \subseteq SUBSET per_position(ws)
  BY <1>1, <1>2 DEF Combos
<1>4. IsFiniteSet(C) /\ N \in Nat
  <2>1. IsFiniteSet(1..Len(ws))
    BY <1>1, FS_Interval
  <2>2. IsFiniteSet(per_position(ws))
    BY <1>2, <2>1, FS_Subset
  <2>3. IsFiniteSet(SUBSET per_position(ws))
    BY <2>2, FS_SUBSET
  <2>4. IsFiniteSet(C)
    BY <1>3, <2>3, FS_Subset
  <2> QED
    BY <2>4, FS_CardinalityType
<1>5. s = [k \in 1..N |->
             CHOOSE P \in C : Cardinality({Q \in C : Earlier(Q, P)}) = k - 1]
  <2>1. Cardinality(C) = N
    OBVIOUS
  <2> QED
    BY <2>1 DEF SortedCombos
<1> HIDE DEF C, s
<1>6. Orders(R, C)
  BY <1>3, PlacewiseOrders
<1>7. \A P \in C : Cardinality({Q \in C : Earlier(Q, P)}) = Place(R, C, P)
  <2> SUFFICES ASSUME NEW P \in C
               PROVE  {Q \in C : Earlier(Q, P)} = Below(R, C, P)
    BY DEF Place
  <2> QED
    BY DEF Below, Placewise
<1> HIDE DEF R, N
<1>8. /\ \A P, Q \in C : Place(R, C, P) = Place(R, C, Q) => P = Q
      /\ \A k \in 0..(N - 1) : \E P \in C : Place(R, C, P) = k
  BY <1>4, <1>6, PlaceTaken DEF N
<1>9. ASSUME NEW k \in 1..N
      PROVE  s[k] \in C /\ Place(R, C, s[k]) = k - 1
  <2>1. \E P \in C : Place(R, C, P) = k - 1
    <3>1. k - 1 \in 0..(N - 1)
      BY <1>4
    <3> QED
      BY <1>8, <3>1
  <2>2. \E P \in C : Cardinality({Q \in C : Earlier(Q, P)}) = k - 1
    BY <1>7, <2>1
  <2>3. s[k] = CHOOSE P \in C : Cardinality({Q \in C : Earlier(Q, P)}) = k - 1
    BY <1>5
  <2>4. s[k] \in C /\ Cardinality({Q \in C : Earlier(Q, s[k])}) = k - 1
    BY <2>2, <2>3
  <2> QED
    BY <1>7, <2>4
<1>10. ASSUME NEW P \in C PROVE \E k \in 1..N : s[k] = P
  <2>1. Place(R, C, P) \in 0..(N - 1)
    BY <1>4, <1>6, PlaceType DEF N
  <2>2. Place(R, C, P) + 1 \in 1..N /\ (Place(R, C, P) + 1) - 1 = Place(R, C, P)
    BY <1>4, <2>1
  <2> QED
    BY <1>8, <1>9, <2>2
<1>11. s = [k \in 1..N |-> s[k]]
  <2> DEFINE g(k) == CHOOSE P \in C : Cardinality({Q \in C : Earlier(Q, P)}) = k - 1
  <2>1. s = [k \in 1..N |-> g(k)]
    BY <1>5
  <2> HIDE DEF g
  <2> QED
    BY <2>1
<1> QED
  BY <1>4, <1>9, <1>10, <1>11 DEF C, s, N

\* A list put behind another holds what the two hold.
LEMMA JoinedValues ==
  ASSUME NEW X, NEW s \in Seq(X), NEW t \in Seq(X), NEW st, st = s \o t,
         NEW S, S = {s[k] : k \in 1..Len(s)},
         NEW T, T = {t[k] : k \in 1..Len(t)}
  PROVE  st \in Seq(X) /\ {st[k] : k \in 1..Len(st)} = S \cup T
<1>1. /\ Len(s) \in Nat /\ Len(t) \in Nat /\ Len(st) = Len(s) + Len(t)
      /\ \A k \in 1..Len(s) : st[k] = s[k]
      /\ \A k \in 1..Len(t) : st[Len(s) + k] = t[k]
  OBVIOUS
<1>2. st \in Seq(X)
  OBVIOUS
<1>3. /\ \A k \in 1..Len(s) : k \in 1..Len(st)
      /\ \A k \in 1..Len(t) : Len(s) + k \in 1..Len(st)
      /\ \A k \in 1..Len(st) : k \in 1..Len(s) \/ \E j \in 1..Len(t) : k = Len(s) + j
  <2>1. ASSUME NEW k \in 1..Len(st), k \notin 1..Len(s)
        PROVE  \E j \in 1..Len(t) : k = Len(s) + j
    <3>1. k - Len(s) \in 1..Len(t) /\ k = Len(s) + (k - Len(s))
      BY <1>1, <2>1
    <3> QED
      BY <3>1
  <2>2. \A k \in 1..Len(s) : k \in 1..Len(st)
    BY <1>1
  <2>3. \A k \in 1..Len(t) : Len(s) + k \in 1..Len(st)
    BY <1>1
  <2> QED
    BY <2>1, <2>2, <2>3
<1>4. {st[k] : k \in 1..Len(st)} = S \cup T
  <2>1. \A k \in 1..Len(st) : st[k] \in S \cup T
    BY <1>1, <1>3
  <2>2. \A k \in 1..Len(s) : \E j \in 1..Len(st) : st[j] = s[k]
    BY <1>1, <1>3
  <2>3. \A k \in 1..Len(t) : \E j \in 1..Len(st) : st[j] = t[k]
    BY <1>1, <1>3
  <2>4. \A x \in S \cup T : \E j \in 1..Len(st) : st[j] = x
    <3>1. ASSUME NEW x \in S PROVE \E j \in 1..Len(st) : st[j] = x
      <4>1. PICK k \in 1..Len(s) : x = s[k]
        OBVIOUS
      <4> QED
        BY <2>2, <4>1
    <3>2. ASSUME NEW x \in T PROVE \E j \in 1..Len(st) : st[j] = x
      <4>1. PICK k \in 1..Len(t) : x = t[k]
        OBVIOUS
      <4> QED
        BY <2>3, <4>1
    <3> QED
      BY <3>1, <3>2
  <2>5. \A x \in {st[k] : k \in 1..Len(st)} : x \in S \cup T
    BY <2>1
  <2> QED
    BY <2>4, <2>5
<1> QED
  BY <1>2, <1>4

\* recover_with_typos: every set of one place, and of two when two typos are
\* allowed, has its turn.
LEMMA CombosTaken ==
  ASSUME NEW ws \in Seq(Int), NEW max \in 1..2
  PROVE  LET cs == PosCombos(ws, max)
         IN  /\ cs \in Seq(SUBSET per_position(ws))
             /\ {cs[k] : k \in 1..Len(cs)}
                   = {P \in SUBSET per_position(ws) : Cardinality(P) \in 1..max}
<1> DEFINE Q == SUBSET per_position(ws)
           s(n) == SortedCombos(ws, n)
           C(n) == Combos(ws, n)
           cs == PosCombos(ws, max)
<1>1. ASSUME NEW n
      PROVE  s(n) \in Seq(Q) /\ {s(n)[k] : k \in 1..Len(s(n))} = C(n)
  <2> DEFINE N == Cardinality(C(n))
             t == s(n)
             D == C(n)
  <2>1. /\ N \in Nat /\ t = [k \in 1..N |-> t[k]]
        /\ \A k \in 1..N : t[k] \in D
        /\ \A P \in D : \E k \in 1..N : t[k] = P
    BY CombosListed
  <2>2. D \subseteq Q
    BY DEF Combos
  <2> HIDE DEF t, N, D, Q
  <2>4. t \in [1..N -> Q]
    BY <2>1, <2>2
  <2>5. Len(t) = N
    BY <2>1, <2>4, ListLength
  <2>6. t \in Seq(Q)
    BY <2>1, <2>4
  <2>7. {t[k] : k \in 1..N} = D
    BY <2>1
  <2> QED
    BY <2>5, <2>6, <2>7 DEF t, D
<1>2. CASE max = 1
  <2>1. cs = s(1)
    BY <1>2 DEF PosCombos
  <2>2. {P \in Q : Cardinality(P) \in 1..max} = C(1)
    BY <1>2 DEF Combos
  <2> HIDE DEF cs, s, C
  <2>3. cs \in Seq(Q) /\ {cs[k] : k \in 1..Len(cs)} = C(1)
    BY <1>1, <2>1
  <2> QED
    BY <2>2, <2>3 DEF cs
<1>3. CASE max = 2
  <2> DEFINE a == s(1)
             b == s(2)
  <2>1. cs = a \o b
    BY <1>3 DEF PosCombos
  <2>2. {P \in Q : Cardinality(P) \in 1..max} = C(1) \cup C(2)
    BY <1>3 DEF Combos
  <2>3. /\ a \in Seq(Q) /\ {a[k] : k \in 1..Len(a)} = C(1)
        /\ b \in Seq(Q) /\ {b[k] : k \in 1..Len(b)} = C(2)
    BY <1>1
  <2> HIDE DEF a, b, cs, C, Q
  <2>4. cs \in Seq(Q) /\ {cs[k] : k \in 1..Len(cs)} = C(1) \cup C(2)
    BY <2>1, <2>3, JoinedValues
  <2> QED
    BY <2>2, <2>4 DEF cs, Q
<1> QED
  BY <1>2, <1>3

\* The typo tasks divide what the reference definition asks for.
LEMMA TyposDivided ==
  ASSUME NEW ws \in Seq(Int), NEW max \in 1..2
  PROVE  Divides(TypoTasks(ws, max),
                 UNION {Substituted(ws, P) : P \in
                    {Q \in SUBSET per_position(ws) : Cardinality(Q) \in 1..max}})
<1> DEFINE cs == PosCombos(ws, max)
           Q == SUBSET per_position(ws)
           sub(P) == Substituted(ws, P)
           M == UNION {sub(P) : P \in Q}
           asked == {P \in Q : Cardinality(P) \in 1..max}
           ts == TypoTasks(ws, max)
<1>1. cs \in Seq(Q) /\ {cs[k] : k \in 1..Len(cs)} = asked
  BY CombosTaken
<1>2. ts = [k \in DOMAIN cs |-> sub(cs[k])]
  BY DEF TypoTasks
<1> HIDE DEF cs, ts, sub, asked, Q
<1>3. Len(cs) \in Nat /\ DOMAIN cs = 1..Len(cs) /\ \A k \in 1..Len(cs) : cs[k] \in Q
  BY <1>1
<1>4. ts \in [1..Len(cs) -> SUBSET M]
  BY <1>2, <1>3
<1>5. Len(ts) = Len(cs)
  BY <1>3, <1>4, ListLength
<1>6. \A k \in 1..Len(ts) : ts[k] = sub(cs[k])
  BY <1>2, <1>3, <1>5
<1>7. UNION {ts[k] : k \in 1..Len(ts)} = UNION {sub(P) : P \in asked}
  <2>1. {ts[k] : k \in 1..Len(ts)} = {sub(cs[k]) : k \in 1..Len(ts)}
    BY <1>6
  <2>2. {sub(cs[k]) : k \in 1..Len(cs)} = {sub(P) : P \in {cs[k] : k \in 1..Len(cs)}}
    OBVIOUS
  <2> QED
    BY <1>1, <1>5, <2>1, <2>2
<1>8. Divides(ts, UNION {sub(P) : P \in asked})
  BY <1>3, <1>5, <1>7 DEF Divides
<1> QED
  BY <1>8 DEF ts, asked, sub, Q

\* recover_extra_word: each place left out is a task.
LEMMA ExtraDivided ==
  ASSUME NEW ws \in Seq(Int)
  PROVE  Divides(ExtraTasks(ws), {RemoveAt(ws, i) : i \in DOMAIN ws})
<1> DEFINE out(i) == RemoveAt(ws, i)
           ts == ExtraTasks(ws)
           M == {out(i) : i \in DOMAIN ws}
<1>1. ts = [i \in DOMAIN ws |-> {out(i)}]
  BY DEF ExtraTasks
<1>2. Len(ws) \in Nat /\ DOMAIN ws = 1..Len(ws)
  OBVIOUS
<1> HIDE DEF out, ts
<1>3. ts \in [1..Len(ws) -> SUBSET M]
  BY <1>1, <1>2
<1>4. Len(ts) = Len(ws)
  BY <1>2, <1>3, ListLength
<1>5. UNION {ts[k] : k \in 1..Len(ws)} = M
  BY <1>1, <1>2
<1> QED
  BY <1>2, <1>4, <1>5 DEF Divides, ts, out

-----------------------------------------------------------------------------
(* The inductive invariant of the mnemonic searches *)

Typed ==
  /\ job \in Jobs
  /\ pc \in {"called", "raised", "running", "aborted", "returned"}
  /\ limit \in Nat /\ truncated \in BOOLEAN
  /\ Len(tasks) \in Nat /\ next \in 1..(Len(tasks) + 1)

\* A call that has not started has nothing.
NotStarted ==
  pc \in {"called", "raised"} => next = 1 /\ limit = 0 /\ candidates = {} /\ ~truncated

\* The tasks are what was asked for, in its order if it has one.
TasksCover ==
  /\ pc \in {"running", "aborted", "returned"} => Divides(tasks, Asked)
  /\ job.engine = "missing" => InOrder(tasks)

\* Everything acceptable that was tried is kept while there is room.
KeptSoFar ==
  /\ candidates \subseteq Tried \cap Accepted
  /\ ~truncated => candidates = Tried \cap Accepted

\* A truncated search has results, and one that returned ran to an end.
EndsWell ==
  /\ truncated => candidates # {}
  /\ pc = "returned" => truncated \/ next > Len(tasks)

WithinLimit ==
  limit > 0 =>
    /\ ~truncated => Cardinality(candidates) < limit
    /\ job.engine = "missing" => Cardinality(candidates) <= limit

\* What was tried and not kept comes after what was kept.
FirstKept ==
  job.engine = "missing" =>
    \A f \in candidates, g \in (Tried \cap Accepted) \ candidates :
       Before(f, g)

IInv ==
  Typed /\ NotStarted /\ TasksCover /\ KeptSoFar /\ EndsWell /\ WithinLimit /\ FirstKept

\* recover_missing_words keeps the first of the hits of a task, and all of
\* them when they do not fill its list.
LEMMA KeepsFirst ==
  ASSUME NEW n \in Nat, NEW S, S \subseteq [1..n -> Int], IsFiniteSet(S), NEW k \in Nat
  PROVE  LET F == FirstFew(S, k)
         IN  /\ F \subseteq S /\ IsFiniteSet(F) /\ Cardinality(F) <= k
             /\ F # S => Cardinality(F) = k
             /\ \A f \in F, g \in S \ F : Before(f, g)
<1> DEFINE F == FirstFew(S, k)
           R == Wordwise(S)
<1>1. Orders(R, S)
  BY WordwiseOrders
<1>2. F = {f \in S : Place(R, S, f) < k}
  <2>1. \A f \in S : {g \in S : Before(g, f)} = Below(R, S, f)
    BY DEF Below, Wordwise
  <2>2. \A f \in S : Cardinality({g \in S : Before(g, f)}) = Place(R, S, f)
    BY <2>1 DEF Place
  <2> QED
    BY <2>2 DEF FirstFew
<1>3. \A f, g \in S : <<f, g>> \in R => Before(f, g)
  BY DEF Wordwise
<1> HIDE DEF F, R
<1>4. /\ IsFiniteSet(F) /\ Cardinality(F) <= k /\ (F # S => Cardinality(F) = k)
      /\ \A f \in F, g \in S \ F : <<f, g>> \in R
  BY <1>1, <1>2, FirstPlaces
<1>5. F \subseteq S
  BY <1>2
<1> QED
  BY <1>3, <1>4, <1>5 DEF F

\* What the checksum and the address filter accept is finite.
LEMMA AcceptedFinite == IsFiniteSet(Accepted)
<1>1. IsFiniteSet(Valid)
  BY ConstantsAssumption
<1>2. Accepted \subseteq Valid
  BY DEF Accepted
<1> QED
  BY <1>1, <1>2, FS_Subset

\* The mnemonics of a search for missing words have one length.
LEMMA AskedType ==
  ASSUME job \in Jobs, job.engine = "missing"
  PROVE  \E n \in Nat : Asked \subseteq [1..n -> Int]
<1>1. IsPhrase(job.phrase, {"word", "unknown", "pattern"})
  BY ConstantsAssumption DEF IsJob
<1>2. Asked = Fillings(job.phrase)
  BY DEF Asked, AskedBy
<1>3. Len(job.phrase) \in Nat /\ Fillings(job.phrase) \subseteq [1..Len(job.phrase) -> Int]
  BY <1>1, PhraseType, FillingsType
<1> QED
  BY <1>2, <1>3

\* The invariant holds of a call.
LEMMA InitInv == Init => IInv
<1> SUFFICES ASSUME Init PROVE IInv
  OBVIOUS
<1>1. /\ tasks = << >> /\ limit = 0 /\ next = 1 /\ candidates = {} /\ truncated = FALSE
      /\ pc = "called" /\ job \in Jobs
  BY DEF Init
<1>2. Len(tasks) = 0
  BY <1>1
<1>3. Tried = {}
  BY <1>1 DEF Tried
<1>4. InOrder(tasks)
  BY <1>2 DEF InOrder
<1>5. Typed
  <2>1. Len(tasks) \in Nat /\ 1 \in 1..(Len(tasks) + 1)
    BY <1>2
  <2>2. limit \in Nat /\ truncated \in BOOLEAN
    BY <1>1
  <2> QED
    BY <1>1, <2>1, <2>2, Zenon DEF Typed
<1>6. NotStarted /\ EndsWell /\ WithinLimit
  BY <1>1 DEF NotStarted, EndsWell, WithinLimit
<1>7. TasksCover
  BY <1>1, <1>4 DEF TasksCover
<1>8. KeptSoFar /\ FirstKept
  BY <1>1, <1>3 DEF KeptSoFar, FirstKept
<1> QED
  BY <1>5, <1>6, <1>7, <1>8 DEF IInv

\* A search starts with tasks that divide what it was asked for.
LEMMA StartKeeps ==
  ASSUME IInv, NEW ts, NEW lim \in Nat, Start(ts, lim),
         Divides(ts, Asked), job.engine = "missing" => InOrder(ts)
  PROVE  IInv'
<1>1. /\ pc = "called" /\ pc' = "running" /\ tasks' = ts /\ limit' = lim /\ job' = job
      /\ next' = next /\ candidates' = candidates /\ truncated' = truncated
  BY DEF Start
<1>2. next = 1 /\ candidates = {} /\ ~truncated /\ job \in Jobs /\ truncated = FALSE
  BY <1>1 DEF IInv, NotStarted, Typed
<1>3. Tried' = {}
  BY <1>1, <1>2 DEF Tried
<1>4. Asked' = Asked
  BY <1>1 DEF Asked
<1>5. Len(ts) \in Nat
  BY DEF Divides
<1>6. Cardinality({}) = 0
  BY FS_EmptySet
<1>7. Typed'
  <2>1. 1 \in 1..(Len(ts) + 1)
    BY <1>5
  <2> QED
    BY <1>1, <1>2, <1>5, <2>1 DEF Typed
<1>11. NotStarted'
  BY <1>1 DEF NotStarted
<1>8. TasksCover'
  BY <1>1, <1>4 DEF TasksCover
<1>9. KeptSoFar' /\ EndsWell' /\ FirstKept'
  BY <1>1, <1>2, <1>3 DEF KeptSoFar, EndsWell, FirstKept
<1>10. WithinLimit'
  BY <1>1, <1>2, <1>6 DEF WithinLimit
<1> QED
  BY <1>7, <1>8, <1>9, <1>10, <1>11 DEF IInv

\* A task run to its end, with or without a callback that raises after it.
LEMMA RunKeeps ==
  ASSUME IInv, RunTask,
         pc' \in {"running", "aborted"}, UNCHANGED <<job, tasks, limit>>
  PROVE  IInv'
<1> DEFINE T == tasks[next]
           N == (T \cap Accepted) \ candidates
           K == Kept(N)
           missing == job.engine = "missing"
<1>1. /\ pc = "running" /\ truncated = FALSE /\ next <= Len(tasks) /\ next' = next + 1
      /\ candidates' = candidates \cup K
      /\ truncated' = (limit > 0 /\ Cardinality(candidates') >= limit)
      /\ job' = job /\ tasks' = tasks /\ limit' = limit
  <2>1. truncated \in BOOLEAN
    BY DEF IInv, Typed
  <2> QED
    BY <2>1 DEF RunTask
<1>1a. truncated' = TRUE <=> limit > 0 /\ Cardinality(candidates') >= limit
  BY <1>1, Zenon
<1>2. /\ job \in Jobs /\ limit \in Nat /\ Len(tasks) \in Nat
      /\ next \in 1..Len(tasks) /\ next' \in 1..(Len(tasks) + 1)
  BY <1>1 DEF IInv, Typed
<1>3. Tried' = Tried \cup T
  <2>1. 1..(next' - 1) = (1..(next - 1)) \cup {next}
    BY <1>1, <1>2
  <2> QED
    BY <1>1, <2>1 DEF Tried
<1>4. Accepted' = Accepted /\ Asked' = Asked
  BY <1>1 DEF Accepted, Asked
<1>5. candidates = Tried \cap Accepted
  BY <1>1 DEF IInv, KeptSoFar
<1>6. IsFiniteSet(candidates) /\ IsFiniteSet(N)
  <2>1. candidates \subseteq Accepted /\ N \subseteq Accepted
    BY <1>5
  <2> HIDE DEF N
  <2> QED
    BY <2>1, AcceptedFinite, FS_Subset
<1>7. Cardinality(candidates) \in Nat
  BY <1>6, FS_CardinalityType
<1>8. T \subseteq Asked
  <2>1. Divides(tasks, Asked)
    BY <1>1 DEF IInv, TasksCover
  <2> QED
    BY <1>2, <2>1 DEF Divides
<1> DEFINE k == limit - Cardinality(candidates)
           filled == missing /\ limit > 0
<1>9. ~filled => K = N
  BY DEF Kept
<1>10. filled => /\ k \in Nat /\ k > 0 /\ K \subseteq N /\ IsFiniteSet(K) /\ Cardinality(K) <= k
                 /\ K # N => Cardinality(K) = k
                 /\ \A f \in K, g \in N \ K : Before(f, g)
  <2> SUFFICES ASSUME filled
               PROVE  /\ k \in Nat /\ k > 0
                      /\ K \subseteq N /\ IsFiniteSet(K) /\ Cardinality(K) <= k
                      /\ K # N => Cardinality(K) = k
                      /\ \A f \in K, g \in N \ K : Before(f, g)
    OBVIOUS
  <2>1. K = FirstFew(N, k)
    BY DEF Kept
  <2>2. k \in Nat /\ k > 0
    BY <1>1, <1>2, <1>7 DEF IInv, WithinLimit
  <2>3. PICK n \in Nat : Asked \subseteq [1..n -> Int]
    BY <1>2, AskedType
  <2>4. N \subseteq [1..n -> Int]
    BY <1>8, <2>3
  <2> HIDE DEF N, K, k
  <2> QED
    BY <1>6, <2>1, <2>2, <2>4, KeepsFirst
<1>11. K \subseteq N /\ K \cap candidates = {} /\ IsFiniteSet(K)
  <2>1. K \subseteq N /\ IsFiniteSet(K)
    <3> HIDE DEF N, K
    <3> QED
      BY <1>6, <1>9, <1>10
  <2> QED
    BY <2>1
<1>12. /\ IsFiniteSet(candidates \cup K)
       /\ Cardinality(candidates \cup K) = Cardinality(candidates) + Cardinality(K)
       /\ Cardinality(K) \in Nat
  <2>1. Cardinality(candidates \cap K) = 0
    <3>1. candidates \cap K = {}
      BY <1>11
    <3> HIDE DEF K
    <3> QED
      BY <3>1, FS_EmptySet
  <2> HIDE DEF K
  <2>2. Cardinality(K) \in Nat
    BY <1>11, FS_CardinalityType
  <2>3. /\ IsFiniteSet(candidates \cup K)
        /\ Cardinality(candidates \cup K)
              = Cardinality(candidates) + Cardinality(K) - Cardinality(candidates \cap K)
    BY <1>6, <1>11, FS_Union
  <2> QED
    BY <1>7, <2>1, <2>2, <2>3
<1>13. truncated' = TRUE \/ K = N
  <2> SUFFICES ASSUME K # N PROVE truncated' = TRUE
    OBVIOUS
  <2>1. filled /\ Cardinality(K) = k
    <3> HIDE DEF K, N, filled, k
    <3> QED
      BY <1>9, <1>10
  <2> HIDE DEF K
  <2>2. Cardinality(candidates') = limit
    BY <1>1, <1>2, <1>7, <1>12, <2>1
  <2> QED
    BY <1>2, <1>1a, <2>1, <2>2
<1>14. Typed'
  <2>1. truncated' \in BOOLEAN
    BY <1>1
  <2> QED
    BY <1>1, <1>2, <2>1 DEF Typed
<1>15. NotStarted'
  BY DEF NotStarted
<1>16. TasksCover'
  BY <1>1, <1>4 DEF IInv, TasksCover
<1>17. KeptSoFar'
  <2>1. N = (T \cap Accepted) \ candidates
    OBVIOUS
  <2> HIDE DEF T, N, K
  <2>2. candidates' \subseteq Tried' \cap Accepted'
    BY <1>1, <1>3, <1>4, <1>5, <1>11, <2>1
  <2>3. K = N => candidates' = Tried' \cap Accepted'
    BY <1>1, <1>3, <1>4, <1>5, <2>1
  <2> QED
    BY <1>13, <2>2, <2>3 DEF KeptSoFar
<1>18. EndsWell'
  <2>1. truncated' => candidates' # {}
    <3> SUFFICES ASSUME truncated', candidates' = {} PROVE FALSE
      OBVIOUS
    <3>1. limit > 0 /\ Cardinality(candidates') >= limit
      BY <1>1
    <3>2. Cardinality(candidates') = 0
      BY FS_EmptySet
    <3> QED
      BY <1>2, <3>1, <3>2
  <2> QED
    BY <2>1 DEF EndsWell
<1>19. WithinLimit'
  <2> HIDE DEF K, N
  <2>1. Cardinality(candidates') \in Nat
    BY <1>1, <1>7, <1>12
  <2>2. filled => Cardinality(candidates') <= limit
    BY <1>1, <1>2, <1>7, <1>10, <1>12
  <2>3. limit > 0 /\ ~truncated' => Cardinality(candidates') < limit
    <3>1. ~(limit > 0 /\ Cardinality(candidates') >= limit) \/ truncated' = TRUE
      BY <1>1a
    <3> QED
      BY <1>2, <2>1, <3>1
  <2> QED
    BY <1>1, <2>2, <2>3 DEF WithinLimit
<1>20. FirstKept'
  <2> SUFFICES ASSUME missing, NEW f \in candidates',
                      NEW g \in (Tried' \cap Accepted') \ candidates'
               PROVE  Before(f, g)
    BY <1>1 DEF FirstKept
  <2>1. g \in T /\ g \in N \ K
    BY <1>1, <1>3, <1>4, <1>5
  <2>2. CASE f \in candidates
    <3>1. PICK j \in 1..(next - 1) : f \in tasks[j]
      BY <1>5, <2>2 DEF Tried
    <3>2. j \in 1..Len(tasks) /\ next \in 1..Len(tasks) /\ j < next
      BY <1>2
    <3>3. InOrder(tasks)
      BY DEF IInv, TasksCover
    <3> QED
      BY <2>1, <3>1, <3>2, <3>3 DEF InOrder
  <2>3. CASE f \in K
    <3> HIDE DEF K, N, filled
    <3> QED
      BY <1>9, <1>10, <2>1, <2>3
  <2> QED
    BY <1>1, <2>2, <2>3
<1> QED
  BY <1>14, <1>15, <1>16, <1>17, <1>18, <1>19, <1>20 DEF IInv

\* Each engine starts with a division of what it was asked for.
LEMMA StartsKeep ==
  ASSUME IInv
  PROVE  /\ StartAsIs => IInv'
         /\ StartMissing => IInv'
         /\ StartOrder => IInv'
         /\ StartTypos => IInv'
         /\ StartExtra => IInv'
<1>1. IsJob(job)
  BY ConstantsAssumption DEF IInv, Typed
<1>2. ASSUME StartAsIs PROVE IInv'
  <2> DEFINE F == Fillings(job.phrase)
  <2>1. job.engine = "missing" /\ Start(<<F>>, 0)
    BY <1>2 DEF StartAsIs
  <2>2. Asked = F
    BY <2>1 DEF Asked, AskedBy
  <2> HIDE DEF F
  <2>3. Divides(<<F>>, Asked) /\ InOrder(<<F>>)
    BY <2>2, AsIsDivided
  <2> QED
    BY <2>1, <2>3, StartKeeps
<1>3. ASSUME StartMissing PROVE IInv'
  <2> DEFINE ts == MissingTasks(job.phrase)
  <2>1. /\ job.engine = "missing" /\ Variable(job.phrase) # {}
        /\ Start(ts, job.max_returned)
    BY <1>3 DEF StartMissing
  <2>2. job.max_returned \in Nat /\ IsPhrase(job.phrase, {"word", "unknown", "pattern"})
    BY <1>1, <2>1 DEF IsJob
  <2>3. Asked = Fillings(job.phrase)
    BY <2>1 DEF Asked, AskedBy
  <2>4. Divides(ts, Asked) /\ InOrder(ts)
    BY <2>1, <2>2, <2>3, MissingDivided, ConstantsAssumption
  <2> HIDE DEF ts
  <2> QED
    BY <2>1, <2>2, <2>4, StartKeeps
<1>4. ASSUME StartOrder PROVE IInv'
  <2>1. job.engine = "order" /\ ~Refused
    BY <1>4 DEF StartOrder, Start
  <2>2. PICK ts \in OrderTasks(job.phrase, job.pool) :
           Start(ts, MAX_RETURNED_CANDIDATES)
    BY <1>4 DEF StartOrder
  <2>3. job.pool \in Seq(Int) /\ IsPhrase(job.phrase, {"word", "unknown"})
    BY <1>1, <2>1 DEF IsJob
  <2>4. ~OrderRefused(job.phrase, job.pool)
    BY <2>1 DEF Refused
  <2>5. Asked = Arrangements(job.phrase, job.pool)
    BY <2>1 DEF Asked, AskedBy
  <2>6. Divides(ts, Asked)
    BY <2>2, <2>3, <2>4, <2>5, OrderDivided, ConstantsAssumption
  <2>7. MAX_RETURNED_CANDIDATES \in Nat
    BY ConstantsAssumption
  <2> QED
    BY <2>1, <2>2, <2>6, <2>7, StartKeeps
<1>5. ASSUME StartTypos PROVE IInv'
  <2> DEFINE ts == TypoTasks(job.words, job.max_typo_words)
  <2>1. job.engine = "typos" /\ ~Refused /\ Start(ts, MAX_RETURNED_CANDIDATES)
    BY <1>5 DEF StartTypos, Start
  <2>2. job.words \in Seq(Int)
    BY <1>1, <2>1 DEF IsJob
  <2>3. job.max_typo_words \in 1..2
    BY <2>1 DEF Refused, TypoRefused
  <2>4. Asked = UNION {Substituted(job.words, P) : P \in
           {Q \in SUBSET per_position(job.words) :
               Cardinality(Q) \in 1..job.max_typo_words}}
    BY <2>1 DEF Asked, AskedBy
  <2>5. Divides(ts, Asked)
    BY <2>2, <2>3, <2>4, TyposDivided
  <2>6. MAX_RETURNED_CANDIDATES \in Nat
    BY ConstantsAssumption
  <2> HIDE DEF ts
  <2> QED
    BY <2>1, <2>5, <2>6, StartKeeps
<1>6. ASSUME StartExtra PROVE IInv'
  <2> DEFINE ts == ExtraTasks(job.words)
  <2>1. job.engine = "extra" /\ Start(ts, 0)
    BY <1>6 DEF StartExtra
  <2>2. job.words \in Seq(Int)
    BY <1>1, <2>1 DEF IsJob
  <2>3. Asked = {RemoveAt(job.words, i) : i \in DOMAIN job.words}
    BY <2>1 DEF Asked, AskedBy
  <2>4. Divides(ts, Asked)
    BY <2>2, <2>3, ExtraDivided
  <2> HIDE DEF ts
  <2> QED
    BY <2>1, <2>4, StartKeeps
<1> QED
  BY <1>2, <1>3, <1>4, <1>5, <1>6

\* A step that changes only pc.
LEMMA LeavingKeeps ==
  ASSUME IInv, UNCHANGED <<job, tasks, limit, next, candidates, truncated>>,
         \/ pc = "called" /\ pc' = "raised"
         \/ pc = "running" /\ pc' = "returned" /\ (truncated \/ next > Len(tasks))
         \/ pc = "running" /\ pc' = "aborted"
         \/ UNCHANGED pc
  PROVE  IInv'
<1>1. /\ Tried' = Tried /\ Accepted' = Accepted
      /\ Asked' = Asked
  BY DEF Tried, Accepted, Asked
<1>2. Typed'
  BY DEF IInv, Typed
<1>3. NotStarted' /\ TasksCover'
  BY <1>1 DEF IInv, NotStarted, TasksCover
<1>4. KeptSoFar' /\ FirstKept'
  BY <1>1 DEF IInv, KeptSoFar, FirstKept
<1>5. EndsWell' /\ WithinLimit'
  BY DEF IInv, EndsWell, WithinLimit
<1> QED
  BY <1>2, <1>3, <1>4, <1>5 DEF IInv

\* Every step keeps the invariant.
LEMMA NextInv ==
  ASSUME IInv, [Next]_(vars)
  PROVE  IInv'
<1>1. CASE RaiseValueError
  BY <1>1, LeavingKeeps DEF RaiseValueError
<1>2. CASE StartAsIs \/ StartMissing \/ StartOrder
           \/ StartTypos \/ StartExtra
  BY <1>2, StartsKeep
<1>3. CASE Turn
  <2>1. pc' = "running"
    BY <1>3 DEF Turn, RunTask
  <2> QED
    BY <1>3, <2>1, RunKeeps DEF Turn
<1>4. CASE CallbackRaises
  BY <1>4, RunKeeps DEF CallbackRaises
<1>5. CASE Return
  BY <1>5, LeavingKeeps DEF Return
<1>6. CASE TaskRaises
  BY <1>6, LeavingKeeps DEF TaskRaises
<1>7. CASE UNCHANGED vars
  BY <1>7, LeavingKeeps DEF vars
<1> QED
  BY <1>1, <1>2, <1>3, <1>4, <1>5, <1>6, <1>7 DEF Next

\* The invariant holds throughout every mnemonic search.
THEOREM SeedInvariant == Spec => []IInv
<1>1. Init => IInv
  BY InitInv
<1>2. IInv /\ [Next]_(vars) => IInv'
  BY NextInv
<1> QED
  BY <1>1, <1>2, PTL DEF Spec

\* A search that was not truncated returns exactly the acceptable mnemonics
\* among those it was asked about: no division into tasks loses one.
THEOREM SeedFindsExactly == Spec => []ResultExact
<1>1. IInv => ResultExact
  <2> SUFFICES ASSUME IInv PROVE ResultExact
    OBVIOUS
  <2>1. pc \in {"running", "aborted", "returned"} => Tried \subseteq Asked
    <3> SUFFICES ASSUME pc \in {"running", "aborted", "returned"}
                 PROVE  Tried \subseteq Asked
      OBVIOUS
    <3>1. Divides(tasks, Asked)
      BY DEF IInv, TasksCover
    <3>2. \A k \in 1..(next - 1) : k \in 1..Len(tasks)
      BY DEF IInv, Typed
    <3> QED
      BY <3>1, <3>2 DEF Divides, Tried
  <2>2. pc \in {"called", "raised"} => candidates = {}
    BY DEF IInv, NotStarted
  <2>3. candidates \subseteq Asked \cap Accepted
    BY <2>1, <2>2 DEF IInv, Typed, KeptSoFar
  <2>4. ASSUME pc = "returned", ~truncated
        PROVE  Asked \subseteq Tried
    <3>1. next > Len(tasks) /\ Divides(tasks, Asked)
      BY <2>4 DEF IInv, EndsWell, TasksCover
    <3>2. \A k \in 1..Len(tasks) : k \in 1..(next - 1)
      BY <3>1 DEF IInv, Typed
    <3> QED
      BY <3>1, <3>2 DEF Divides, Tried
  <2> QED
    BY <2>1, <2>3, <2>4 DEF IInv, KeptSoFar, ResultExact
<1> QED
  BY <1>1, SeedInvariant, PTL

\* recover_missing_words returns at most the number asked for, and those it
\* returns come before every other acceptable filling, tried or not.
THEOREM SeedKeepsFirst == Spec => []FirstInOrder
<1>1. IInv => FirstInOrder
  <2> SUFFICES ASSUME IInv, job.engine = "missing" PROVE
                 /\ limit > 0 => Cardinality(candidates) <= limit
                 /\ pc = "returned" =>
                      \A f \in candidates,
                         g \in (Asked \cap Accepted) \ candidates :
                            Before(f, g)
    BY DEF FirstInOrder
  <2>1. limit > 0 => Cardinality(candidates) <= limit
    BY DEF IInv, WithinLimit
  <2>2. ASSUME pc = "returned", NEW f \in candidates,
               NEW g \in (Asked \cap Accepted) \ candidates
        PROVE  Before(f, g)
    <3>1. CASE g \in Tried
      BY <2>2, <3>1 DEF IInv, FirstKept
    <3>2. CASE g \notin Tried
      <4>1. PICK j \in 1..(next - 1) : f \in tasks[j]
        BY <2>2 DEF IInv, KeptSoFar, Tried
      <4>2. PICK k \in 1..Len(tasks) : g \in tasks[k]
        BY <2>2 DEF IInv, TasksCover, Divides
      <4>3. k \notin 1..(next - 1)
        BY <3>2, <4>2 DEF Tried
      <4>4. j \in 1..Len(tasks) /\ j < k
        BY <4>3 DEF IInv, Typed
      <4>5. InOrder(tasks)
        BY DEF IInv, TasksCover
      <4> QED
        BY <4>1, <4>2, <4>4, <4>5 DEF InOrder
    <3> QED
      BY <3>1, <3>2
  <2> QED
    BY <2>1, <2>2
<1> QED
  BY <1>1, SeedInvariant, PTL

-----------------------------------------------------------------------------
(* The figures of the mnemonic searches *)

\* Finitely many places can be filled from finitely many words in finitely
\* many ways.
LEMMA FunctionsFinite ==
  ASSUME NEW S, NEW T, IsFiniteSet(S), IsFiniteSet(T)
  PROVE  IsFiniteSet([S -> T])
<1> DEFINE F == [S -> T]
           Q == SUBSET (S \X T)
           graph(f) == {<<x, f[x]>> : x \in S}
           G == [f \in F |-> graph(f)]
<1>1. IsFiniteSet(Q)
  <2>1. IsFiniteSet(S \X T)
    BY FS_Product
  <2> QED
    BY <2>1, FS_SUBSET
<1>2. \A f \in F : graph(f) \in Q
  OBVIOUS
<1>3. ASSUME NEW f \in F, NEW g \in F, graph(f) = graph(g) PROVE f = g
  <2>1. ASSUME NEW x \in S PROVE f[x] = g[x]
    <3>1. <<x, f[x]>> \in graph(f)
      OBVIOUS
    <3>2. <<x, f[x]>> \in graph(g)
      BY <1>3, <3>1
    <3>3. PICK y \in S : <<x, f[x]>> = <<y, g[y]>>
      BY <3>2
    <3> QED
      BY <3>3
  <2> QED
    BY <2>1
<1>4. G \in Injection(F, Q)
  <2> HIDE DEF F, Q, graph
  <2>1. G \in [F -> Q]
    BY <1>2
  <2>2. \A f, g \in F : G[f] = G[g] => f = g
    BY <1>3
  <2> HIDE DEF G
  <2> QED
    BY <2>1, <2>2 DEF Injection, IsInjective
<1> HIDE DEF G, Q, F
<1>5. IsFiniteSet(F)
  BY <1>1, <1>4, FS_Injection
<1> QED
  BY <1>5 DEF F

\* The words of a list are finitely many.
LEMMA ListFinite ==
  ASSUME NEW n \in Nat, NEW ws, DOMAIN ws = 1..n, ws = [i \in 1..n |-> ws[i]]
  PROVE  IsFiniteSet({ws[i] : i \in 1..n})
<1> DEFINE W == {ws[i] : i \in 1..n}
<1>1. IsFiniteSet(1..n)
  BY FS_Interval
<1>2. ws \in Surjection(1..n, W)
  <2>1. ws \in [1..n -> W]
    OBVIOUS
  <2>2. \A w \in W : \E i \in 1..n : ws[i] = w
    OBVIOUS
  <2> HIDE DEF W
  <2> QED
    BY <2>1, <2>2 DEF Surjection
<1> HIDE DEF W
<1>3. IsFiniteSet(W)
  BY <1>1, <1>2, FS_Surjection
<1> QED
  BY <1>3 DEF W

\* A phrase has finitely many fillings.
LEMMA FillingsFinite ==
  ASSUME NEW K, NEW ph, IsPhrase(ph, K)
  PROVE  IsFiniteSet(Fillings(ph))
<1> DEFINE n == Len(ph)
           ls == [i \in 1..n |-> ph[i].words]
           L == {ls[i] : i \in 1..n}
           U == UNION {ph[i].words : i \in DOMAIN ph}
<1>1. n \in Nat /\ DOMAIN ph = 1..n /\ \A i \in 1..n : IsFiniteSet(ph[i].words)
  BY PhraseType
<1> HIDE DEF n
<1>2. IsFiniteSet(L)
  <2>1. DOMAIN ls = 1..n /\ ls = [i \in 1..n |-> ls[i]]
    OBVIOUS
  <2> HIDE DEF ls
  <2> QED
    BY <1>1, <2>1, ListFinite
<1>3. U = UNION L /\ \A T \in L : IsFiniteSet(T)
  BY <1>1
<1> HIDE DEF L
<1>4. IsFiniteSet(UNION L)
  BY <1>2, <1>3, FS_UNION
<1>5. IsFiniteSet(U)
  BY <1>3, <1>4
<1>6. IsFiniteSet(1..n)
  BY <1>1, FS_Interval
<1>7. Fillings(ph) \subseteq [1..n -> U]
  BY <1>1 DEF Fillings
<1> HIDE DEF U
<1>8. IsFiniteSet([1..n -> U])
  BY <1>5, <1>6, FunctionsFinite
<1> QED
  BY <1>7, <1>8, FS_Subset

\* Nobody asks for infinitely many mnemonics.
LEMMA AskedFinite ==
  ASSUME NEW j \in Jobs
  PROVE  IsFiniteSet(AskedBy(j))
<1>1. IsJob(j)
  BY ConstantsAssumption
<1>2. CASE j.engine = "missing"
  <2>1. IsPhrase(j.phrase, {"word", "unknown", "pattern"})
    BY <1>1, <1>2 DEF IsJob
  <2>2. AskedBy(j) = Fillings(j.phrase)
    BY <1>2 DEF AskedBy
  <2> QED
    BY <2>1, <2>2, FillingsFinite
<1>3. CASE j.engine = "order"
  <2>1. IsPhrase(j.phrase, {"word", "unknown"})
    BY <1>1, <1>3 DEF IsJob
  <2>2. AskedBy(j) = Arrangements(j.phrase, j.pool)
    BY <1>3 DEF AskedBy
  <2>3. AskedBy(j) \subseteq Fillings(j.phrase)
    BY <2>2 DEF Arrangements
  <2>4. IsFiniteSet(Fillings(j.phrase))
    BY <2>1, FillingsFinite
  <2> QED
    BY <2>3, <2>4, FS_Subset
<1>4. CASE j.engine = "typos"
  <2> DEFINE ws == j.words
             n == Len(ws)
             R == {ws[i] : i \in 1..n}
             C == R \cup Wordlist
  <2>1. ws \in Seq(Int)
    BY <1>1, <1>4 DEF IsJob
  <2>2. n \in Nat /\ DOMAIN ws = 1..n /\ ws = [i \in 1..n |-> ws[i]]
    BY <2>1
  <2> HIDE DEF n
  <2>3. Range(ws) = R
    BY <2>2 DEF Range
  <2>4. IsFiniteSet(R)
    BY <2>2, ListFinite
  <2>5. IsFiniteSet(Wordlist)
    BY ConstantsAssumption
  <2>6. AskedBy(j) = UNION {Substituted(ws, P) : P \in
           {Q \in SUBSET per_position(ws) : Cardinality(Q) \in 1..j.max_typo_words}}
    BY <1>4 DEF AskedBy
  <2>7. \A P : Substituted(ws, P) \subseteq [1..n -> C]
    BY <2>2, <2>3 DEF Substituted
  <2> HIDE DEF ws, R
  <2>8. IsFiniteSet(C)
    BY <2>4, <2>5, FS_Union
  <2>9. IsFiniteSet(1..n)
    BY <2>2, FS_Interval
  <2> HIDE DEF C
  <2>10. IsFiniteSet([1..n -> C])
    BY <2>8, <2>9, FunctionsFinite
  <2>11. AskedBy(j) \subseteq [1..n -> C]
    BY <2>6, <2>7
  <2> QED
    BY <2>10, <2>11, FS_Subset
<1>5. CASE j.engine = "extra"
  <2> DEFINE ws == j.words
             n == Len(ws)
             out == [i \in 1..n |-> RemoveAt(ws, i)]
  <2>1. ws \in Seq(Int)
    BY <1>1, <1>5 DEF IsJob
  <2>2. n \in Nat /\ DOMAIN ws = 1..n
    BY <2>1
  <2>3. AskedBy(j) = {RemoveAt(ws, i) : i \in DOMAIN ws}
    BY <1>5 DEF AskedBy
  <2> HIDE DEF ws, n
  <2>4. AskedBy(j) = {out[i] : i \in 1..n}
    BY <2>2, <2>3
  <2>5. DOMAIN out = 1..n /\ out = [i \in 1..n |-> out[i]]
    OBVIOUS
  <2> HIDE DEF out
  <2> QED
    BY <2>2, <2>4, <2>5, ListFinite
<1> QED
  BY <1>1, <1>2, <1>3, <1>4, <1>5 DEF IsJob

\* What has been counted is what has been tried; and no more is kept than has
\* passed the checksum.
CountOK ==
  /\ checked \in Nat /\ checksum_passed \in Nat /\ IsFiniteSet(candidates)
  /\ Cardinality(candidates) <= checksum_passed /\ checksum_passed <= checked
  /\ job.engine \in {"missing", "order"} => OneByOne(tasks) /\ checked = Cardinality(Tried)

\* Tasks in order have nothing in common: nothing comes before itself.
LEMMA InOrderApart ==
  ASSUME NEW n \in Nat, NEW X, X \subseteq [1..n -> Int], NEW ts,
         Divides(ts, X), InOrder(ts)
  PROVE  OneByOne(ts)
<1> SUFFICES ASSUME NEW a \in 1..Len(ts), NEW b \in 1..Len(ts), a # b,
                    NEW f, f \in ts[a], f \in ts[b]
             PROVE  FALSE
  BY DEF OneByOne
<1>1. f \in [1..n -> Int]
  BY DEF Divides
<1>2. Before(f, f)
  <2>1. a < b \/ b < a
    BY DEF Divides
  <2> QED
    BY <2>1 DEF InOrder
<1> QED
  BY <1>1, <1>2 DEF Before

\* Setting a search up keeps its figures, if its tasks are disjoint.
LEMMA StartCounts ==
  ASSUME IInv, CountOK, NEW ts, NEW lim, Start(ts, lim),
         job.engine \in {"missing", "order"} => OneByOne(ts)
  PROVE  CountOK'
<1>1. /\ pc = "called" /\ tasks' = ts /\ job' = job /\ next' = next
      /\ UNCHANGED <<candidates, checked, checksum_passed>>
  BY DEF Start
<1>2. next = 1
  BY <1>1 DEF IInv, NotStarted
<1>3. Tried = {} /\ Tried' = {}
  BY <1>1, <1>2 DEF Tried
<1> QED
  BY <1>1, <1>3 DEF CountOK

\* Running a task keeps the figures.
LEMMA RunCounts ==
  ASSUME IInv, CountOK, RunTask, UNCHANGED <<job, tasks, limit>>
  PROVE  CountOK'
<1> DEFINE T == tasks[next]
           V == T \cap Valid
           K == Kept((T \cap Accepted) \ candidates)
<1>1. /\ pc = "running" /\ next <= Len(tasks) /\ next' = next + 1
      /\ checked' = checked + Cardinality(T)
      /\ checksum_passed' = checksum_passed + Cardinality(V)
      /\ candidates' = candidates \cup K
      /\ job' = job /\ tasks' = tasks
  BY DEF RunTask
<1>2. job \in Jobs /\ Len(tasks) \in Nat /\ next \in 1..Len(tasks)
  BY <1>1 DEF IInv, Typed
<1>3. IsFiniteSet(Asked) /\ Divides(tasks, Asked)
  BY <1>1, <1>2, AskedFinite DEF IInv, TasksCover, Asked
<1>4. T \subseteq Asked /\ Tried \subseteq Asked
  <2>1. \A k \in 1..(next - 1) : k \in 1..Len(tasks)
    BY <1>2
  <2> QED
    BY <1>2, <1>3, <2>1 DEF Divides, Tried
<1>5. K \subseteq V
  <2>1. K \subseteq (T \cap Accepted) \ candidates
    BY DEF Kept, FirstFew
  <2>2. Accepted \subseteq Valid
    BY DEF Accepted
  <2> HIDE DEF K, T
  <2> QED
    BY <2>1, <2>2
<1>6. Tried' = Tried \cup T
  <2>1. 1..(next' - 1) = (1..(next - 1)) \cup {next}
    BY <1>1, <1>2
  <2> QED
    BY <1>1, <2>1 DEF Tried
<1>7. job.engine \in {"missing", "order"} => Tried \cap T = {}
  <2> SUFFICES ASSUME OneByOne(tasks), NEW f \in Tried, f \in T PROVE FALSE
    BY DEF CountOK
  <2>1. PICK k \in 1..(next - 1) : f \in tasks[k]
    BY DEF Tried
  <2>2. k \in 1..Len(tasks) /\ k # next
    BY <1>2
  <2> QED
    BY <1>2, <2>1, <2>2 DEF OneByOne
<1>8. V \subseteq T
  OBVIOUS
<1> HIDE DEF T, V, K
<1>9. IsFiniteSet(T) /\ IsFiniteSet(Tried)
  BY <1>3, <1>4, FS_Subset
<1>10. IsFiniteSet(V) /\ Cardinality(V) <= Cardinality(T)
  BY <1>8, <1>9, FS_Subset
<1>11. IsFiniteSet(K) /\ Cardinality(K) <= Cardinality(V)
  BY <1>5, <1>10, FS_Subset
<1>12. /\ Cardinality(T) \in Nat /\ Cardinality(Tried) \in Nat
       /\ Cardinality(V) \in Nat /\ Cardinality(K) \in Nat
  BY <1>9, <1>10, <1>11, FS_CardinalityType
<1>13. IsFiniteSet(candidates) /\ Cardinality(candidates) \in Nat
  BY FS_CardinalityType DEF CountOK
<1>14. /\ IsFiniteSet(candidates')
       /\ Cardinality(candidates') \in Nat
       /\ Cardinality(candidates') <= Cardinality(candidates) + Cardinality(K)
  <2>1. /\ IsFiniteSet(candidates \cup K)
        /\ Cardinality(candidates \cup K)
              = Cardinality(candidates) + Cardinality(K) - Cardinality(candidates \cap K)
    BY <1>11, <1>13, FS_Union
  <2>2. IsFiniteSet(candidates \cap K)
    BY <1>13, FS_Subset
  <2>3. Cardinality(candidates \cap K) \in Nat /\ Cardinality(candidates \cup K) \in Nat
    BY <2>1, <2>2, FS_CardinalityType
  <2> QED
    BY <1>1, <1>12, <1>13, <2>1, <2>3
<1>15. ASSUME job.engine \in {"missing", "order"}
       PROVE  OneByOne(tasks') /\ checked' = Cardinality(Tried')
  <2>1. Tried \cap T = {} /\ OneByOne(tasks) /\ checked = Cardinality(Tried)
    BY <1>7, <1>15 DEF CountOK
  <2>2. Cardinality(Tried \cup T) = Cardinality(Tried) + Cardinality(T) - Cardinality({})
    BY <1>9, <2>1, FS_Union
  <2>3. Cardinality({}) = 0
    BY FS_EmptySet
  <2> QED
    BY <1>1, <1>6, <1>12, <2>1, <2>2, <2>3
<1>16. /\ checked' \in Nat /\ checksum_passed' \in Nat
       /\ Cardinality(candidates') <= checksum_passed' /\ checksum_passed' <= checked'
  <2>1. /\ checked \in Nat /\ checksum_passed \in Nat
        /\ Cardinality(candidates) <= checksum_passed /\ checksum_passed <= checked
    BY DEF CountOK
  <2> QED
    BY <1>1, <1>10, <1>11, <1>12, <1>13, <1>14, <2>1
<1> QED
  BY <1>1, <1>14, <1>15, <1>16 DEF CountOK

\* The tasks of each engine are as StartCounts needs them.
LEMMA StartsCount ==
  ASSUME IInv, CountOK
  PROVE  /\ StartAsIs => CountOK'
         /\ StartMissing => CountOK'
         /\ StartOrder => CountOK'
         /\ StartTypos => CountOK'
         /\ StartExtra => CountOK'
<1>1. IsJob(job)
  BY ConstantsAssumption DEF IInv, Typed
<1>2. ASSUME StartAsIs PROVE CountOK'
  <2> DEFINE F == Fillings(job.phrase)
  <2>1. Start(<<F>>, 0)
    BY <1>2 DEF StartAsIs
  <2> HIDE DEF F
  <2>2. OneByOne(<<F>>)
    <3>1. Len(<<F>>) = 1
      OBVIOUS
    <3> QED
      BY <3>1 DEF OneByOne
  <2> QED
    BY <2>1, <2>2, StartCounts
<1>3. ASSUME StartMissing PROVE CountOK'
  <2> DEFINE ts == MissingTasks(job.phrase)
             F == Fillings(job.phrase)
  <2>1. /\ job.engine = "missing" /\ Variable(job.phrase) # {}
        /\ Start(ts, job.max_returned)
    BY <1>3 DEF StartMissing
  <2>2. IsPhrase(job.phrase, {"word", "unknown", "pattern"})
    BY <1>1, <2>1 DEF IsJob
  <2>3. Divides(ts, F) /\ InOrder(ts)
    BY <2>1, <2>2, MissingDivided, ConstantsAssumption
  <2>4. Len(job.phrase) \in Nat /\ F \subseteq [1..Len(job.phrase) -> Int]
    BY <2>2, PhraseType, FillingsType
  <2> HIDE DEF ts, F
  <2>5. OneByOne(ts)
    BY <2>3, <2>4, InOrderApart
  <2> QED
    BY <2>1, <2>5, StartCounts
<1>4. ASSUME StartOrder PROVE CountOK'
  <2>1. job.engine = "order" /\ ~Refused
    BY <1>4 DEF StartOrder, Start
  <2>2. PICK ts \in OrderTasks(job.phrase, job.pool) :
           Start(ts, MAX_RETURNED_CANDIDATES)
    BY <1>4 DEF StartOrder
  <2>3. job.pool \in Seq(Int) /\ IsPhrase(job.phrase, {"word", "unknown"})
    BY <1>1, <2>1 DEF IsJob
  <2>4. ~OrderRefused(job.phrase, job.pool)
    BY <2>1 DEF Refused
  <2>5. OneByOne(ts)
    BY <2>2, <2>3, <2>4, OrderDivided, ConstantsAssumption
  <2> QED
    BY <2>2, <2>5, StartCounts
<1>5. ASSUME StartTypos PROVE CountOK'
  BY <1>5, StartCounts DEF StartTypos
<1>6. ASSUME StartExtra PROVE CountOK'
  BY <1>6, StartCounts DEF StartExtra
<1> QED
  BY <1>2, <1>3, <1>4, <1>5, <1>6

\* Every step keeps the figures.
LEMMA NextCounts ==
  ASSUME IInv, CountOK, [Next]_vars
  PROVE  CountOK'
<1>1. ASSUME UNCHANGED <<job, tasks, next, candidates, checked, checksum_passed>>
      PROVE  CountOK'
  BY <1>1 DEF CountOK, Tried
<1>2. CASE RaiseValueError \/ TaskRaises \/ Return \/ UNCHANGED vars
  BY <1>1, <1>2 DEF RaiseValueError, TaskRaises, Return, vars
<1>3. CASE StartAsIs \/ StartMissing \/ StartOrder
           \/ StartTypos \/ StartExtra
  BY <1>3, StartsCount
<1>4. CASE Turn \/ CallbackRaises
  BY <1>4, RunCounts DEF Turn, CallbackRaises
<1> QED
  BY <1>2, <1>3, <1>4 DEF Next

\* The figures of a call are right.
LEMMA InitCounts == Init => CountOK
<1> SUFFICES ASSUME Init PROVE CountOK
  OBVIOUS
<1>1. /\ tasks = << >> /\ next = 1 /\ candidates = {}
      /\ checked = 0 /\ checksum_passed = 0
  BY DEF Init
<1>2. Tried = {} /\ Len(tasks) = 0
  BY <1>1 DEF Tried
<1>3. OneByOne(tasks)
  BY <1>2 DEF OneByOne
<1> QED
  BY <1>1, <1>2, <1>3, FS_EmptySet DEF CountOK

\* The figures a search of recovery_utils.py returns are exact: a complete
\* search for missing words or for an order has tried each of the mnemonics
\* it was asked about once, in whatever chunks, and no search returns more
\* mnemonics than it says passed the checksum.
THEOREM SeedCountsExactly == Spec => []CountsExact
<1>1. Init => CountOK
  BY InitCounts
<1>2. IInv /\ CountOK /\ [Next]_vars => CountOK'
  BY NextCounts
<1>3. IInv /\ CountOK => CountsExact
  <2> SUFFICES ASSUME IInv, CountOK, pc = "returned" PROVE CountsExact
    BY DEF CountsExact
  <2>1. ASSUME ~truncated PROVE Tried = Asked
    <3>1. next > Len(tasks) /\ Divides(tasks, Asked) /\ next \in 1..(Len(tasks) + 1)
      BY <2>1 DEF IInv, EndsWell, TasksCover, Typed
    <3>2. 1..(next - 1) = 1..Len(tasks)
      BY <3>1 DEF Divides
    <3> QED
      BY <3>1, <3>2 DEF Divides, Tried
  <2> QED
    BY <2>1 DEF CountOK, CountsExact
<1> QED
  BY <1>1, <1>2, <1>3, SeedInvariant, PTL DEF Spec

-----------------------------------------------------------------------------
(* Counting *)

\* Sets that are mapped to each other and back have the same size.
LEMMA SameSize ==
  ASSUME NEW S, NEW T, IsFiniteSet(T), NEW f \in [S -> T], NEW g \in [T -> S],
         \A x \in S : g[f[x]] = x,
         \A y \in T : f[g[y]] = y
  PROVE  IsFiniteSet(S) /\ Cardinality(S) = Cardinality(T)
<1>1. f \in Injection(S, T)
  BY DEF Injection, IsInjective
<1>2. f \in Surjection(S, T)
  BY DEF Surjection
<1> QED
  BY <1>1, <1>2, FS_Injection

\* A set whose parts over the points of Y have s elements each has s times as
\* many elements as Y.
LEMMA FibresCount ==
  ASSUME NEW X, NEW Y, NEW g \in [X -> Y], IsFiniteSet(Y), NEW s \in Nat,
         NEW fibre \in [Y -> SUBSET X],
         \A y \in Y : /\ \A x \in X : x \in fibre[y] <=> g[x] = y
                      /\ IsFiniteSet(fibre[y]) /\ Cardinality(fibre[y]) = s
  PROVE  IsFiniteSet(X) /\ Cardinality(X) = Cardinality(Y) * s
<1> DEFINE fib(y) == fibre[y]
           I == 1..s
           h(y) == CHOOSE b : b \in Bijection(fib(y), I)
           f == [x \in X |-> <<g[x], h(g[x])[x]>>]
<1>1. IsFiniteSet(I) /\ Cardinality(I) = s
  BY FS_Interval
<1> HIDE DEF I
<1>2. \A y \in Y : h(y) \in Bijection(fib(y), I)
  <2> SUFFICES ASSUME NEW y \in Y PROVE \E b : b \in Bijection(fib(y), I)
    OBVIOUS
  <2>1. IsFiniteSet(fib(y)) /\ Cardinality(fib(y)) = Cardinality(I)
    BY <1>1
  <2> HIDE DEF fib
  <2>2. ExistsBijection(fib(y), I)
    BY <1>1, <2>1, FS_SameCardinalityBij
  <2> QED
    BY <2>2 DEF ExistsBijection
<1> HIDE DEF h
<1>3. \A y \in Y : /\ h(y) \in [fib(y) -> I]
                   /\ \A x, z \in fib(y) : h(y)[x] = h(y)[z] => x = z
                   /\ \A i \in I : \E x \in fib(y) : h(y)[x] = i
  <2> SUFFICES ASSUME NEW y \in Y
               PROVE  /\ h(y) \in [fib(y) -> I]
                      /\ \A x, z \in fib(y) : h(y)[x] = h(y)[z] => x = z
                      /\ \A i \in I : \E x \in fib(y) : h(y)[x] = i
    OBVIOUS
  <2>1. h(y) \in Bijection(fib(y), I)
    BY <1>2
  <2> HIDE DEF fib
  <2> QED
    BY <2>1 DEF Bijection, Injection, Surjection, IsInjective
<1>4. \A x \in X : g[x] \in Y /\ x \in fib(g[x]) /\ h(g[x])[x] \in I
  <2> SUFFICES ASSUME NEW x \in X PROVE g[x] \in Y /\ x \in fib(g[x]) /\ h(g[x])[x] \in I
    OBVIOUS
  <2>1. g[x] \in Y /\ x \in fib(g[x])
    OBVIOUS
  <2>2. h(g[x]) \in [fib(g[x]) -> I]
    BY <1>3, <2>1
  <2> HIDE DEF fib
  <2> QED
    BY <2>1, <2>2
<1>5. f \in [X -> Y \X I]
  BY <1>4
<1>6. \A x, z \in X : f[x] = f[z] => x = z
  <2> SUFFICES ASSUME NEW x \in X, NEW z \in X, f[x] = f[z] PROVE x = z
    OBVIOUS
  <2>1. g[x] = g[z] /\ h(g[x])[x] = h(g[x])[z]
    OBVIOUS
  <2>2. x \in fib(g[x]) /\ z \in fib(g[x])
    BY <2>1
  <2> QED
    BY <1>3, <1>4, <2>1, <2>2
<1>7. \A p \in Y \X I : \E x \in X : f[x] = p
  <2> SUFFICES ASSUME NEW p \in Y \X I PROVE \E x \in X : f[x] = p
    OBVIOUS
  <2>1. PICK y \in Y, i \in I : p = <<y, i>>
    OBVIOUS
  <2>2. PICK x \in fib(y) : h(y)[x] = i
    BY <1>3
  <2> QED
    BY <2>1, <2>2
<1> DEFINE Z == Y \X I
<1>8. IsFiniteSet(Z) /\ Cardinality(Z) = Cardinality(Y) * s
  BY <1>1, FS_Product
<1> HIDE DEF f, Z
<1>9. f \in Injection(X, Z)
  BY <1>5, <1>6 DEF Injection, IsInjective, Z
<1>10. f \in Surjection(X, Z)
  BY <1>5, <1>7 DEF Surjection, Z
<1> QED
  BY <1>8, <1>9, <1>10, FS_Injection

\* A recursive definition of numbers along 0..N defines something.
LEMMA RecursionExists ==
  ASSUME NEW N \in Nat, NEW b \in Nat, NEW F \in [(1..N) \X Nat -> Nat]
  PROVE  \E g \in [0..N -> Nat] :
            g[0] = b /\ \A i \in 1..N : g[i] = F[<<i, g[i - 1]>>]
<1> DEFINE Upto(n) == \E g \in [0..n -> Nat] :
                         g[0] = b /\ \A i \in 1..n : g[i] = F[<<i, g[i - 1]>>]
           T == {n \in 0..N : ~Upto(n)}
<1> SUFFICES ASSUME T # {} PROVE FALSE
  OBVIOUS
<1>1. PICK n \in T : \A m \in T : n <= m
  <2>1. T \subseteq Nat
    OBVIOUS
  <2> HIDE DEF T
  <2> QED
    BY <2>1, LeastNumber
<1>2. n # 0
  <2>1. Upto(0)
    <3> DEFINE g == [i \in 0..0 |-> b]
    <3>1. g \in [0..0 -> Nat] /\ g[0] = b /\ \A i \in 1..0 : g[i] = F[<<i, g[i - 1]>>]
      OBVIOUS
    <3> QED
      BY <3>1
  <2> QED
    BY <2>1
<1>3. n \in 1..N /\ n - 1 \in 0..N /\ n - 1 \notin T
  <2>1. n \in 0..N
    OBVIOUS
  <2> HIDE DEF T
  <2> QED
    BY <1>1, <1>2, <2>1
<1>4. PICK g \in [0..(n - 1) -> Nat] :
         g[0] = b /\ \A i \in 1..(n - 1) : g[i] = F[<<i, g[i - 1]>>]
  BY <1>3
<1> DEFINE h == [i \in 0..n |-> IF i = n THEN F[<<n, g[n - 1]>>] ELSE g[i]]
<1>5. h \in [0..n -> Nat]
  <2>1. g[n - 1] \in Nat
    BY <1>3, <1>4
  <2>2. F[<<n, g[n - 1]>>] \in Nat
    BY <1>3, <2>1
  <2>3. \A i \in 0..n : i # n => g[i] \in Nat
    BY <1>3, <1>4
  <2> QED
    BY <2>2, <2>3
<1>6. h[0] = b
  BY <1>3, <1>4
<1>7. ASSUME NEW i \in 1..n PROVE h[i] = F[<<i, h[i - 1]>>]
  <2>1. i - 1 \in 0..n /\ i - 1 # n /\ h[i - 1] = g[i - 1]
    BY <1>3
  <2>2. CASE i = n
    BY <2>1, <2>2
  <2>3. CASE i # n
    <3>1. i \in 1..(n - 1) /\ h[i] = g[i]
      BY <1>3, <2>3
    <3> QED
      BY <1>4, <2>1, <3>1
  <2> QED
    BY <2>2, <2>3
<1> HIDE DEF h
<1>8. Upto(n)
  BY <1>5, <1>6, <1>7
<1> QED
  BY <1>1, <1>8

\* The running product is what its loop computes.
LEMMA ProductsType ==
  ASSUME NEW N \in Nat, NEW c \in [1..N -> Nat]
  PROVE  /\ Products(c) \in [0..N -> Nat] /\ Products(c)[0] = 1
         /\ \A i \in 1..N : Products(c)[i] = Products(c)[i - 1] * c[i]
<1> DEFINE body(p) == [i \in 0..N |-> IF i = 0 THEN 1 ELSE p[i - 1] * c[i]]
           F == [q \in (1..N) \X Nat |-> q[2] * c[q[1]]]
           P == CHOOSE p : p = body(p)
<1>1. Len(c) = N
  OBVIOUS
<1>2. Products(c) = P
  BY <1>1 DEF Products
<1>3. PICK g \in [0..N -> Nat] : g[0] = 1 /\ \A i \in 1..N : g[i] = F[<<i, g[i - 1]>>]
  <2>1. F \in [(1..N) \X Nat -> Nat]
    OBVIOUS
  <2> HIDE DEF F
  <2> QED
    BY <2>1, 1 \in Nat, RecursionExists, Zenon
<1>4. g = body(g)
  <2>1. \A i \in 1..N : g[i] = g[i - 1] * c[i]
    <3> SUFFICES ASSUME NEW i \in 1..N PROVE g[i] = g[i - 1] * c[i]
      OBVIOUS
    <3>1. i - 1 \in 0..N
      OBVIOUS
    <3>2. g[i - 1] \in Nat
      BY <3>1
    <3>3. <<i, g[i - 1]>> \in (1..N) \X Nat
      BY <3>2
    <3> QED
      BY <1>3, <3>3
  <2>2. \A i \in 0..N : g[i] = (IF i = 0 THEN 1 ELSE g[i - 1] * c[i])
    BY <1>3, <2>1
  <2> QED
    BY <2>2
<1>5. P = body(P)
  <2> HIDE DEF body
  <2> QED
    BY <1>4
<1> HIDE DEF P, F
<1>6. P[0] = 1 /\ \A i \in 1..N : P[i] = P[i - 1] * c[i]
  <2>1. \A i \in 0..N : P[i] = IF i = 0 THEN 1 ELSE P[i - 1] * c[i]
    BY <1>5
  <2> QED
    BY <2>1
<1>7. \A i \in 0..N : P[i] \in Nat
  <2> DEFINE T == {i \in 0..N : P[i] \notin Nat}
  <2> SUFFICES ASSUME T # {} PROVE FALSE
    OBVIOUS
  <2>1. PICK n \in T : \A m \in T : n <= m
    <3>1. T \subseteq Nat
      OBVIOUS
    <3> HIDE DEF T
    <3> QED
      BY <3>1, LeastNumber
  <2>2. n \in 1..N /\ n - 1 \in 0..N
    BY <1>6
  <2>3. P[n - 1] \in Nat
    BY <2>1, <2>2
  <2>4. c[n] \in Nat /\ P[n] = P[n - 1] * c[n]
    BY <1>6, <2>2
  <2> QED
    BY <2>3, <2>4
<1>8. P \in [0..N -> Nat]
  <2>1. P = [i \in 0..N |-> P[i]]
    <3> DEFINE e(i) == IF i = 0 THEN 1 ELSE P[i - 1] * c[i]
    <3>1. P = [i \in 0..N |-> e(i)]
      BY <1>5
    <3> HIDE DEF e
    <3> QED
      BY <3>1
  <2> QED
    BY <1>7, <2>1
<1> QED
  BY <1>2, <1>6, <1>8

\* Products of the same first numbers are the same so far.
LEMMA ProductsAgree ==
  ASSUME NEW N \in Nat, NEW c \in [1..N -> Nat], NEW M \in Nat, NEW d \in [1..M -> Nat],
         NEW K \in Nat, K <= N, K <= M, \A i \in 1..K : c[i] = d[i]
  PROVE  Products(c)[K] = Products(d)[K]
<1> DEFINE P == Products(c)
           Q == Products(d)
           T == {i \in 0..K : P[i] # Q[i]}
<1> SUFFICES ASSUME T # {} PROVE FALSE
  OBVIOUS
<1>1. /\ P \in [0..N -> Nat] /\ P[0] = 1 /\ \A i \in 1..N : P[i] = P[i - 1] * c[i]
      /\ Q \in [0..M -> Nat] /\ Q[0] = 1 /\ \A i \in 1..M : Q[i] = Q[i - 1] * d[i]
  BY ProductsType
<1> HIDE DEF P, Q
<1>2. PICK n \in T : \A m \in T : n <= m
  <2>1. T \subseteq Nat
    OBVIOUS
  <2> HIDE DEF T
  <2> QED
    BY <2>1, LeastNumber
<1>3. n \in 1..K /\ n - 1 \in 0..K
  BY <1>1
<1>4. P[n - 1] = Q[n - 1]
  BY <1>2, <1>3
<1>5. n \in 1..N /\ n \in 1..M
  BY <1>3
<1>6. P[n] = P[n - 1] * c[n] /\ Q[n] = Q[n - 1] * d[n] /\ c[n] = d[n]
  BY <1>1, <1>3, <1>5
<1>7. P[n] = Q[n]
  BY <1>4, <1>6
<1> QED
  BY <1>7

\* The factorial is what its recursion says.
LEMMA FactorialType ==
  /\ factorial(0) = 1
  /\ \A n \in Nat \ {0} : factorial(n) = factorial(n - 1) * n
  /\ \A n \in Nat : factorial(n) \in Nat /\ factorial(n) > 0
<1> DEFINE c(n) == [i \in 1..n |-> i]
<1>1. \A n : factorial(n) = Products(c(n))[n]
  BY DEF factorial
<1>2. \A n \in Nat : c(n) \in [1..n -> Nat]
  OBVIOUS
<1>3. factorial(0) = 1
  BY <1>1, <1>2, ProductsType
<1>4. ASSUME NEW n \in Nat PROVE factorial(n) \in Nat
  <2> DEFINE d == c(n)
  <2>1. d \in [1..n -> Nat]
    BY <1>2
  <2> HIDE DEF d
  <2>2. Products(d) \in [0..n -> Nat]
    BY <2>1, ProductsType
  <2> QED
    BY <1>1, <2>2 DEF d
<1>5. ASSUME NEW n \in Nat \ {0} PROVE factorial(n) = factorial(n - 1) * n
  <2> DEFINE d == c(n)
             e == c(n - 1)
             m == n - 1
  <2>1. m \in Nat /\ d \in [1..n -> Nat] /\ e \in [1..m -> Nat] /\ m <= n /\ m <= m
    OBVIOUS
  <2>2. d[n] = n /\ \A i \in 1..m : d[i] = e[i]
    OBVIOUS
  <2> HIDE DEF c, d, e
  <2>3. Products(d)[m] = Products(e)[m]
    <3> HIDE DEF m
    <3> QED
      BY <2>1, <2>2, ProductsAgree
  <2>4. Products(d)[n] = Products(d)[n - 1] * d[n]
    <3>1. n \in 1..n
      OBVIOUS
    <3> QED
      BY <2>1, <3>1, ProductsType
  <2> QED
    BY <1>1, <2>2, <2>3, <2>4 DEF d, e
<1> DEFINE T == {n \in Nat : ~(factorial(n) > 0)}
<1>6. T = {}
  <2> SUFFICES ASSUME T # {} PROVE FALSE
    OBVIOUS
  <2>1. PICK n \in T : \A m \in T : n <= m
    <3>1. T \subseteq Nat
      OBVIOUS
    <3> HIDE DEF T
    <3> QED
      BY <3>1, LeastNumber
  <2>2. n \in Nat \ {0} /\ n - 1 \in Nat
    BY <1>3
  <2>3. factorial(n - 1) > 0
    BY <2>1, <2>2
  <2>4. factorial(n) = factorial(n - 1) * n /\ factorial(n - 1) \in Nat
    BY <1>4, <1>5, <2>2
  <2>5. factorial(n) > 0
    BY <2>2, <2>3, <2>4
  <2> QED
    BY <2>5
<1> QED
  BY <1>3, <1>4, <1>5, <1>6

\* The fillings of n places with words from W[i] each are as many as the
\* product says.
LEMMA FillCount ==
  ASSUME NEW N \in Nat, NEW U, NEW W \in [1..N -> SUBSET U],
         \A i \in 1..N : IsFiniteSet(W[i])
  PROVE  LET Fill == {f \in [1..N -> U] : \A i \in 1..N : f[i] \in W[i]}
             c == [i \in 1..N |-> Cardinality(W[i])]
         IN  IsFiniteSet(Fill) /\ Cardinality(Fill) = Products(c)[N]
<1> DEFINE Fill(n) == {f \in [1..n -> U] : \A i \in 1..n : f[i] \in W[i]}
           c == [i \in 1..N |-> Cardinality(W[i])]
           P == Products(c)
           OK(n) == IsFiniteSet(Fill(n)) /\ Cardinality(Fill(n)) = P[n]
           T == {n \in 0..N : ~OK(n)}
<1>1. c \in [1..N -> Nat]
  BY FS_CardinalityType
<1>2. P \in [0..N -> Nat] /\ P[0] = 1 /\ \A i \in 1..N : P[i] = P[i - 1] * c[i]
  <2> HIDE DEF c
  <2> QED
    BY <1>1, ProductsType
<1> HIDE DEF P
<1>3. OK(0)
  <2> DEFINE e == [i \in 1..0 |-> 0]
  <2>1. Fill(0) = {e}
    <3>1. 1..0 = {}
      OBVIOUS
    <3>2. \A f \in [1..0 -> U] : f = e
      BY <3>1
    <3>3. e \in [1..0 -> U]
      BY <3>1
    <3> HIDE DEF e
    <3> QED
      BY <3>1, <3>2, <3>3
  <2> HIDE DEF Fill, e
  <2> QED
    BY <1>2, <2>1, FS_Singleton
<1>4. ASSUME NEW n \in 1..N, OK(n - 1) PROVE OK(n)
  <2> DEFINE X == Fill(n)
             Y == Fill(n - 1)
             g == [f \in X |-> [i \in 1..(n - 1) |-> f[i]]]
             fib(h) == {f \in X : g[f] = h}
  <2>1. g \in [X -> Y]
    OBVIOUS
  <2>2. ASSUME NEW h \in Y
        PROVE  IsFiniteSet(fib(h)) /\ Cardinality(fib(h)) = c[n]
    <3> DEFINE up == [w \in W[n] |-> [i \in 1..n |-> IF i = n THEN w ELSE h[i]]]
               dn == [f \in fib(h) |-> f[n]]
    <3>1. \A w \in W[n] : up[w] \in X /\ g[up[w]] = h /\ up[w][n] = w
      <4> SUFFICES ASSUME NEW w \in W[n]
                   PROVE  up[w] \in X /\ g[up[w]] = h /\ up[w][n] = w
        OBVIOUS
      <4>1. up[w] = [i \in 1..n |-> IF i = n THEN w ELSE h[i]]
        OBVIOUS
      <4>2. \A i \in 1..(n - 1) : i \in 1..n /\ i # n /\ h[i] \in W[i] /\ h[i] \in U
        OBVIOUS
      <4>3. \A i \in 1..n : i # n => i \in 1..(n - 1)
        OBVIOUS
      <4>4. w \in U
        OBVIOUS
      <4>5. up[w] \in X
        BY <4>1, <4>2, <4>3, <4>4
      <4>6. g[up[w]] = [i \in 1..(n - 1) |-> up[w][i]]
        BY <4>5
      <4>7. h = [i \in 1..(n - 1) |-> h[i]]
        OBVIOUS
      <4>8. \A i \in 1..(n - 1) : up[w][i] = h[i]
        BY <4>1, <4>2
      <4>9. up[w][n] = w
        BY <4>1
      <4> HIDE DEF up, g, X
      <4> QED
        BY <4>5, <4>6, <4>7, <4>8, <4>9
    <3>2. \A f \in fib(h) : f[n] \in W[n] /\ up[f[n]] = f
      <4> SUFFICES ASSUME NEW f \in fib(h) PROVE f[n] \in W[n] /\ up[f[n]] = f
        OBVIOUS
      <4>1. f \in X /\ h = [i \in 1..(n - 1) |-> f[i]]
        OBVIOUS
      <4>2. f[n] \in W[n] /\ f = [i \in 1..n |-> f[i]]
        BY <4>1
      <4>3. \A i \in 1..n : i # n => h[i] = f[i]
        BY <4>1
      <4> QED
        BY <4>2, <4>3
    <3>3. up \in [W[n] -> fib(h)]
      <4> HIDE DEF X, g
      <4>1. \A w \in W[n] : up[w] \in fib(h)
        BY <3>1
      <4>2. up = [w \in W[n] |-> up[w]]
        OBVIOUS
      <4> HIDE DEF up, fib
      <4> QED
        BY <4>1, <4>2
    <3>4. dn \in [fib(h) -> W[n]]
      <4> HIDE DEF fib
      <4> QED
        BY <3>2
    <3>5. /\ \A w \in W[n] : dn[up[w]] = w
          /\ \A f \in fib(h) : up[dn[f]] = f
      <4>1. \A f \in fib(h) : dn[f] = f[n]
        OBVIOUS
      <4> HIDE DEF fib, up, dn
      <4> QED
        BY <3>1, <3>2, <3>3, <4>1
    <3>6. IsFiniteSet(W[n])
      OBVIOUS
    <3> DEFINE Wn == W[n]
               G == fib(h)
    <3> HIDE DEF fib, up, dn, Wn, G
    <3>7. IsFiniteSet(G) /\ Cardinality(G) = Cardinality(Wn)
      <4>1. dn \in [G -> Wn] /\ up \in [Wn -> G] /\ IsFiniteSet(Wn)
        BY <3>3, <3>4, <3>6 DEF Wn, G
      <4>2. /\ \A f \in G : up[dn[f]] = f
            /\ \A w \in Wn : dn[up[w]] = w
        BY <3>5 DEF Wn, G
      <4> QED
        BY <4>1, <4>2, SameSize
    <3>8. c[n] = Cardinality(Wn)
      BY DEF Wn
    <3> QED
      BY <3>7, <3>8 DEF G
  <2>3. IsFiniteSet(Y) /\ Cardinality(Y) = P[n - 1]
    BY <1>4
  <2>4. c[n] \in Nat
    BY <1>1
  <2> HIDE DEF X, Y, g, c
  <2>5. IsFiniteSet(X) /\ Cardinality(X) = Cardinality(Y) * c[n]
    <3> DEFINE k == c[n]
               fibre == [h \in Y |-> fib(h)]
    <3>1. /\ k \in Nat /\ fibre \in [Y -> SUBSET X]
          /\ \A h \in Y : /\ \A f \in X : f \in fibre[h] <=> g[f] = h
                          /\ IsFiniteSet(fibre[h]) /\ Cardinality(fibre[h]) = k
      BY <2>2, <2>4
    <3> HIDE DEF k, fibre
    <3>2. IsFiniteSet(X) /\ Cardinality(X) = Cardinality(Y) * k
      BY <2>1, <2>3, <3>1, FibresCount
    <3> QED
      BY <3>2 DEF k
  <2>6. Cardinality(X) = P[n]
    BY <1>2, <2>3, <2>5
  <2> QED
    BY <2>5, <2>6 DEF X
<1>5. T = {}
  <2> HIDE DEF OK
  <2> SUFFICES ASSUME T # {} PROVE FALSE
    OBVIOUS
  <2>1. PICK n \in T : \A m \in T : n <= m
    <3>1. T \subseteq Nat
      OBVIOUS
    <3> HIDE DEF T
    <3> QED
      BY <3>1, LeastNumber
  <2>2. n \in 1..N /\ n - 1 \in 0..N
    BY <1>3
  <2>3. OK(n - 1)
    BY <2>1, <2>2
  <2> QED
    BY <1>4, <2>2, <2>3
<1>6. OK(N)
  <2> HIDE DEF OK
  <2> QED
    BY <1>5
<1> QED
  BY <1>6 DEF P

\* What a bijection is, point by point.
LEMMA BijectionMeans ==
  ASSUME NEW S, NEW T, NEW b
  PROVE  b \in Bijection(S, T) <=>
            /\ b \in [S -> T]
            /\ \A x, y \in S : b[x] = b[y] => x = y
            /\ \A t \in T : \E x \in S : b[x] = t
<1>1. ASSUME b \in Bijection(S, T)
      PROVE  /\ b \in [S -> T]
             /\ \A x, y \in S : b[x] = b[y] => x = y
             /\ \A t \in T : \E x \in S : b[x] = t
  BY <1>1 DEF Bijection, Injection, Surjection, IsInjective
<1>2. ASSUME b \in [S -> T],
             \A x, y \in S : b[x] = b[y] => x = y,
             \A t \in T : \E x \in S : b[x] = t
      PROVE  b \in Bijection(S, T)
  <2>1. b \in Injection(S, T)
    BY <1>2 DEF Injection, IsInjective
  <2>2. b \in Surjection(S, T)
    BY <1>2 DEF Surjection
  <2> QED
    BY <2>1, <2>2 DEF Bijection
<1> QED
  BY <1>1, <1>2

\* The ways to pair the elements of two sets off with s going to t are those
\* of the rest.
LEMMA BijectionsOver ==
  ASSUME NEW S, NEW T, NEW s \in S, NEW t \in T,
         NEW S1, S1 = S \ {s}, NEW T1, T1 = T \ {t},
         NEW K, K = {b \in Bijection(S, T) : b[s] = t},
         IsFiniteSet(Bijection(S1, T1))
  PROVE  IsFiniteSet(K) /\ Cardinality(K) = Cardinality(Bijection(S1, T1))
<1> DEFINE H == Bijection(S1, T1)
           G == {b \in Bijection(S, T) : b[s] = t}
           up == [h \in H |-> [x \in S |-> IF x = s THEN t ELSE h[x]]]
           dn == [b \in G |-> [x \in S1 |-> b[x]]]
<1>1. ASSUME NEW h \in H
      PROVE  up[h] \in G /\ dn[up[h]] = h
  <2> DEFINE b == [x \in S |-> IF x = s THEN t ELSE h[x]]
  <2>1. /\ h \in [S1 -> T1]
        /\ \A x, y \in S1 : h[x] = h[y] => x = y
        /\ \A u \in T1 : \E x \in S1 : h[x] = u
    <3>1. h \in Bijection(S1, T1)
      OBVIOUS
    <3> HIDE DEF H, G, up, dn, b
    <3>2. h \in [S1 -> T1]
      BY <3>1, BijectionMeans
    <3>3. \A x, y \in S1 : h[x] = h[y] => x = y
      BY <3>1, BijectionMeans
    <3>4. \A u \in T1 : \E x \in S1 : h[x] = u
      BY <3>1 DEF Bijection, Surjection
    <3> QED
      BY <3>2, <3>3, <3>4
  <2>2. up[h] = b
    <3> HIDE DEF H, G
    <3> QED
      OBVIOUS
  <2>3. b \in [S -> T]
    BY <2>1
  <2>4. \A x, y \in S : b[x] = b[y] => x = y
    <3>1. \A x \in S1 : b[x] = h[x] /\ h[x] # t
      BY <2>1
    <3>2. b[s] = t
      OBVIOUS
    <3> HIDE DEF b
    <3> QED
      BY <2>1, <3>1, <3>2
  <2>5. \A u \in T : \E x \in S : b[x] = u
    <3>1. \A x \in S1 : x \in S /\ b[x] = h[x]
      OBVIOUS
    <3>2. b[s] = t
      OBVIOUS
    <3> HIDE DEF b
    <3> QED
      BY <2>1, <3>1, <3>2
  <2>6. b[s] = t /\ [x \in S1 |-> b[x]] = h
    BY <2>1
  <2> HIDE DEF b
  <2>7. b \in G
    BY <2>3, <2>4, <2>5, <2>6, BijectionMeans
  <2>8. dn[b] = h
    <3> HIDE DEF G
    <3> QED
      BY <2>6, <2>7
  <2> QED
    BY <2>2, <2>7, <2>8
<1>2. ASSUME NEW b \in G
      PROVE  dn[b] \in H /\ up[dn[b]] = b
  <2> DEFINE h == [x \in S1 |-> b[x]]
  <2>1. /\ b \in [S -> T] /\ b[s] = t
        /\ \A x, y \in S : b[x] = b[y] => x = y
        /\ \A u \in T : \E x \in S : b[x] = u
    <3>1. b \in Bijection(S, T) /\ b[s] = t
      OBVIOUS
    <3> HIDE DEF H, G, up, dn, h
    <3>2. b \in [S -> T]
      BY <3>1, BijectionMeans
    <3>3. \A x, y \in S : b[x] = b[y] => x = y
      BY <3>1, BijectionMeans
    <3>4. \A u \in T : \E x \in S : b[x] = u
      BY <3>1 DEF Bijection, Surjection
    <3> QED
      BY <3>1, <3>2, <3>3, <3>4
  <2>2. dn[b] = h
    <3> HIDE DEF G
    <3> QED
      OBVIOUS
  <2>3. h \in [S1 -> T1]
    BY <2>1
  <2>4. /\ \A x, y \in S1 : h[x] = h[y] => x = y
        /\ \A u \in T1 : \E x \in S1 : h[x] = u
    BY <2>1
  <2>5. h \in H
    <3> HIDE DEF h
    <3> QED
      BY <2>3, <2>4, BijectionMeans
  <2>6. b = [x \in S |-> IF x = s THEN t ELSE h[x]]
    BY <2>1
  <2> HIDE DEF h, H
  <2> QED
    BY <2>2, <2>5, <2>6
<1>3. up \in [H -> G] /\ dn \in [G -> H]
  <2>1. \A h \in H : up[h] \in G
    BY <1>1
  <2>2. \A b \in G : dn[b] \in H
    BY <1>2
  <2>3. up = [h \in H |-> up[h]] /\ dn = [b \in G |-> dn[b]]
    <3> HIDE DEF H, G
    <3> QED
      OBVIOUS
  <2> HIDE DEF H, G, up, dn
  <2> QED
    BY <2>1, <2>2, <2>3
<1>4. IsFiniteSet(H)
  OBVIOUS
<1> HIDE DEF up, dn, H, G
<1>5. IsFiniteSet(G) /\ Cardinality(G) = Cardinality(H)
  <2>1. (\A b \in G : up[dn[b]] = b) /\ (\A h \in H : dn[up[h]] = h)
    BY <1>1, <1>2
  <2> QED
    BY <1>3, <1>4, <2>1, SameSize
<1> QED
  BY <1>5 DEF H, G

\* n things are put in n places in factorial(n) ways.
LEMMA BijectionsCount ==
  ASSUME NEW S, NEW T, IsFiniteSet(S), IsFiniteSet(T), Cardinality(S) = Cardinality(T)
  PROVE  /\ IsFiniteSet(Bijection(S, T))
         /\ Cardinality(Bijection(S, T)) = factorial(Cardinality(S))
<1> DEFINE OK(n) == \A A, B : /\ IsFiniteSet(A) /\ Cardinality(A) = n
                              /\ IsFiniteSet(B) /\ Cardinality(B) = n
                              => /\ IsFiniteSet(Bijection(A, B))
                                 /\ Cardinality(Bijection(A, B)) = factorial(n)
           F == {n \in Nat : ~OK(n)}
<1>1. OK(0)
  <2> SUFFICES ASSUME NEW A, NEW B, IsFiniteSet(A), Cardinality(A) = 0,
                      IsFiniteSet(B), Cardinality(B) = 0
               PROVE  /\ IsFiniteSet(Bijection(A, B))
                      /\ Cardinality(Bijection(A, B)) = factorial(0)
    OBVIOUS
  <2> DEFINE e == [x \in {} |-> 0]
  <2>1. A = {} /\ B = {}
    BY FS_EmptySet
  <2>2. \A b : b \in [{} -> {}] <=> b = e
    OBVIOUS
  <2> HIDE DEF e
  <2>3. \A b : b \in Bijection(A, B) <=> b = e
    BY <2>1, <2>2, BijectionMeans
  <2>4. Bijection(A, B) = {e}
    BY <2>3
  <2>5. factorial(0) = 1
    BY FactorialType
  <2>6. IsFiniteSet({e}) /\ Cardinality({e}) = 1
    BY FS_Singleton
  <2> HIDE DEF OK, F
  <2> QED
    BY <2>4, <2>5, <2>6
<1>2. ASSUME NEW n \in Nat \ {0}, OK(n - 1) PROVE OK(n)
  <2> SUFFICES ASSUME NEW A, NEW B, IsFiniteSet(A), Cardinality(A) = n,
                      IsFiniteSet(B), Cardinality(B) = n
               PROVE  /\ IsFiniteSet(Bijection(A, B))
                      /\ Cardinality(Bijection(A, B)) = factorial(n)
    OBVIOUS
  <2>1. PICK a \in A : TRUE
    <3>1. A # {}
      BY FS_EmptySet
    <3> QED
      BY <3>1
  <2> DEFINE X == Bijection(A, B)
             g == [b \in X |-> b[a]]
             fibre == [t \in B |-> {b \in X : b[a] = t}]
             k == factorial(n - 1)
  <2>2. g \in [X -> B]
    <3>1. \A b \in X : b[a] \in B
      BY BijectionMeans
    <3> HIDE DEF X
    <3> QED
      BY <3>1
  <2>3. ASSUME NEW t \in B
        PROVE  IsFiniteSet(fibre[t]) /\ Cardinality(fibre[t]) = k
    <3> DEFINE A1 == A \ {a}
               B1 == B \ {t}
               G == {b \in X : b[a] = t}
    <3>1. /\ IsFiniteSet(A1) /\ Cardinality(A1) = n - 1
          /\ IsFiniteSet(B1) /\ Cardinality(B1) = n - 1
      BY FS_RemoveElement
    <3>2. IsFiniteSet(Bijection(A1, B1)) /\ Cardinality(Bijection(A1, B1)) = k
      <4> HIDE DEF A1, B1
      <4> QED
        BY <1>2, <3>1
    <3>5. A1 = A \ {a} /\ B1 = B \ {t} /\ G = {b \in Bijection(A, B) : b[a] = t}
      OBVIOUS
    <3> HIDE DEF A1, B1, G
    <3>3. IsFiniteSet(G) /\ Cardinality(G) = Cardinality(Bijection(A1, B1))
      BY <3>2, <3>5, BijectionsOver
    <3>4. fibre[t] = G
      <4> HIDE DEF X
      <4> QED
        BY DEF G
    <3> HIDE DEF fibre, k
    <3> QED
      BY <3>2, <3>3, <3>4
  <2>4. /\ fibre \in [B -> SUBSET X]
        /\ \A t \in B : \A b \in X : b \in fibre[t] <=> g[b] = t
    <3> HIDE DEF X
    <3> QED
      OBVIOUS
  <2>5. k \in Nat /\ factorial(n) = k * n
    BY FactorialType
  <2> HIDE DEF X, g, fibre, k, OK
  <2>6. IsFiniteSet(X) /\ Cardinality(X) = Cardinality(B) * k
    <3>1. \A t \in B : /\ \A b \in X : b \in fibre[t] <=> g[b] = t
                       /\ IsFiniteSet(fibre[t]) /\ Cardinality(fibre[t]) = k
      BY <2>3, <2>4
    <3>2. k \in Nat /\ fibre \in [B -> SUBSET X]
      BY <2>4, <2>5
    <3> QED
      BY <2>2, <3>1, <3>2, FibresCount
  <2>7. Cardinality(X) = factorial(n)
    BY <2>5, <2>6
  <2> QED
    BY <2>6, <2>7 DEF X
<1> HIDE DEF OK
<1>3. F = {}
  <2> SUFFICES ASSUME F # {} PROVE FALSE
    OBVIOUS
  <2>1. PICK n \in F : \A m \in F : n <= m
    <3>1. F \subseteq Nat
      OBVIOUS
    <3> HIDE DEF F
    <3> QED
      BY <3>1, LeastNumber
  <2>2. n \in Nat \ {0} /\ n - 1 \in Nat
    BY <1>1
  <2>3. OK(n - 1)
    BY <2>1, <2>2
  <2> QED
    BY <1>2, <2>2, <2>3
<1>4. Cardinality(S) \in Nat
  BY FS_CardinalityType
<1>5. OK(Cardinality(S))
  BY <1>3, <1>4
<1> QED
  BY <1>5 DEF OK

-----------------------------------------------------------------------------
(* The loop of total_permutations *)

\* The ways to label the elements of V with labels of L, label k on m[k] of
\* them.
Labelled(V, L, m) ==
  {f \in [V -> L] : \A k \in L : Cardinality({v \in V : f[v] = k}) = m[k]}

\* A finite set with one element, or none.
LEMMA OneElement ==
  ASSUME NEW S, IsFiniteSet(S)
  PROVE  /\ Cardinality(S) = 1 <=> \E x \in S : \A y \in S : y = x
         /\ Cardinality(S) = 0 <=> \A y \in S : FALSE
<1>1. ASSUME NEW x \in S, \A y \in S : y = x PROVE Cardinality(S) = 1
  <2>1. S = {x}
    BY <1>1
  <2> QED
    BY <2>1, FS_Singleton
<1>2. ASSUME Cardinality(S) = 1 PROVE \E x \in S : \A y \in S : y = x
  <2>1. PICK x : S = {x}
    BY <1>2, FS_Singleton
  <2> QED
    BY <2>1
<1>3. Cardinality(S) = 0 <=> S = {}
  BY FS_EmptySet
<1> QED
  BY <1>1, <1>2, <1>3

\* What a label used once, and what a label not used, is on.
LEMMA LabelOnce ==
  ASSUME NEW V, IsFiniteSet(V), NEW L, NEW m, NEW f \in Labelled(V, L, m),
         NEW k \in L, m[k] = 1
  PROVE  /\ \E v \in V : f[v] = k
         /\ \A v, w \in V : f[v] = k /\ f[w] = k => v = w
<1> DEFINE S == {v \in V : f[v] = k}
<1>1. IsFiniteSet(S) /\ Cardinality(S) = 1
  BY FS_Subset DEF Labelled
<1>2. /\ \A v \in V : v \in S <=> f[v] = k
      /\ \A v \in S : v \in V
  OBVIOUS
<1> HIDE DEF S
<1>3. PICK x \in S : \A y \in S : y = x
  BY <1>1, OneElement
<1> QED
  BY <1>2, <1>3

\* A label used no times labels nothing.
LEMMA LabelUnused ==
  ASSUME NEW V, IsFiniteSet(V), NEW L, NEW m, NEW f \in Labelled(V, L, m),
         NEW k \in L, m[k] = 0
  PROVE  \A v \in V : f[v] # k
<1> DEFINE S == {v \in V : f[v] = k}
<1>1. IsFiniteSet(S) /\ Cardinality(S) = 0
  BY FS_Subset DEF Labelled
<1>2. \A v \in V : v \in S <=> f[v] = k
  OBVIOUS
<1> HIDE DEF S
<1>3. \A y \in S : FALSE
  BY <1>1, OneElement
<1> QED
  BY <1>2, <1>3

\* What is labelled within C, when each label of C is used once, is as much as
\* C has labels.
LEMMA MergedClass ==
  ASSUME NEW V, IsFiniteSet(V), NEW L, NEW C \in SUBSET L, NEW m,
         \A k \in C : m[k] = 1, IsFiniteSet(C),
         NEW f \in Labelled(V, L, m),
         NEW D, D = {v \in V : f[v] \in C}
  PROVE  Cardinality(D) = Cardinality(C)
<1> DEFINE r == [v \in D |-> f[v]]
<1>1. f \in [V -> L] 
  BY DEF Labelled
<1>2. ASSUME NEW k \in C
      PROVE  /\ \E v \in V : f[v] = k
             /\ \A v, w \in V : f[v] = k /\ f[w] = k => v = w
  <2>1. k \in L /\ m[k] = 1
    OBVIOUS
  <2> QED
    BY <2>1, LabelOnce
<1>3. r \in Bijection(D, C)
  <2>1. r \in [D -> C]
    BY <1>1
  <2>2. \A v, w \in D : r[v] = r[w] => v = w
    BY <1>1, <1>2
  <2>3. \A k \in C : \E v \in D : r[v] = k
    BY <1>2
  <2> HIDE DEF r
  <2> QED
    BY <2>1, <2>2, <2>3, BijectionMeans
<1>4. IsFiniteSet(D)
  BY FS_Subset
<1>5. ExistsBijection(D, C)
  BY <1>3 DEF ExistsBijection
<1> QED
  BY <1>4, <1>5, FS_Bijection

\* Instead of each label of C once, as m says, m2 has label i for all of them.
Merges(L, C, i, m, m2) ==
  /\ i \in C /\ C \subseteq L
  /\ \A k \in C : m[k] = 1
  /\ m2[i] = Cardinality(C)
  /\ \A k \in C : k # i => m2[k] = 0
  /\ \A k \in L \ C : m2[k] = m[k]

Merged(V, C, i, f) == [v \in V |-> IF f[v] \in C THEN i ELSE f[v]]

\* When the labels of C, used once each, are replaced by one of them, the
\* labellings that become the same are as many as there are ways to put the
\* labels of C back.
LEMMA MergedFibre ==
  ASSUME NEW V, IsFiniteSet(V), NEW L, NEW C, IsFiniteSet(C), NEW i, NEW m, NEW m2,
         Merges(L, C, i, m, m2),
         NEW h \in Labelled(V, L, m2),
         NEW G, G = {f \in Labelled(V, L, m) : Merged(V, C, i, f) = h}
  PROVE  IsFiniteSet(G) /\ Cardinality(G) = factorial(Cardinality(C))
<1> DEFINE P == {v \in V : h[v] = i}
           B == Bijection(P, C)
           X == {f \in Labelled(V, L, m) :
                       \A v \in V : h[v] = IF f[v] \in C THEN i ELSE f[v]}
           up(b) == [v \in V |-> IF v \in P THEN b[v] ELSE h[v]]
           dn(f) == [v \in P |-> f[v]]
<1>0. /\ i \in C /\ C \subseteq L
      /\ \A k \in C : m[k] = 1
      /\ m2[i] = Cardinality(C)
      /\ \A k \in C : k # i => m2[k] = 0
      /\ \A k \in L \ C : m2[k] = m[k]
  BY DEF Merges
<1>1. IsFiniteSet(P) /\ Cardinality(P) = Cardinality(C)
  BY <1>0, FS_Subset DEF Labelled
<1>2. h \in [V -> L] /\ \A v \in V : v \in P <=> h[v] \in C
  <2>1. ASSUME NEW k \in C, k # i PROVE \A v \in V : h[v] # k
    <3>1. k \in L /\ m2[k] = 0
      BY <1>0, <2>1
    <3> QED
      BY <3>1, LabelUnused
  <2>2. h \in [V -> L]
    BY DEF Labelled
  <2> QED
    BY <1>0, <2>1, <2>2
<1>3. \A v \in V : v \in P <=> h[v] = i
  OBVIOUS
<1>4. P \subseteq V
  OBVIOUS
<1> HIDE DEF P
<1>5. ASSUME NEW b \in B
      PROVE  up(b) \in X /\ dn(up(b)) = b
  <2>1. /\ b \in [P -> C]
        /\ \A v, w \in P : b[v] = b[w] => v = w
        /\ \A k \in C : \E v \in P : b[v] = k
    BY BijectionMeans
  <2> DEFINE f == up(b)
  <2>2. /\ f \in [V -> L]
        /\ \A v \in P : f[v] = b[v] /\ f[v] \in C
        /\ \A v \in V : v \notin P => f[v] = h[v] /\ f[v] \notin C
    BY <1>0, <1>2, <1>4, <2>1
  <2>3. dn(f) = b
    BY <1>4, <2>1
  <2> HIDE DEF f
  <2>4. ASSUME NEW k \in L PROVE Cardinality({v \in V : f[v] = k}) = m[k]
    <3> DEFINE S == {v \in V : f[v] = k}
    <3>1. IsFiniteSet(S)
      BY FS_Subset
    <3>2. CASE k \in C
      <4>1. PICK x \in P : b[x] = k
        BY <2>1, <3>2
      <4>2. x \in S /\ \A y \in S : y = x
        BY <1>4, <2>1, <2>2, <3>2, <4>1
      <4> HIDE DEF S
      <4>3. Cardinality(S) = 1
        BY <3>1, <4>2, OneElement
      <4> QED
        BY <1>0, <3>2, <4>3 DEF S
    <3>3. CASE k \notin C
      <4>1. \A v \in V : f[v] = k <=> h[v] = k
        BY <1>2, <2>2, <3>3
      <4>2. S = {v \in V : h[v] = k}
        BY <4>1
      <4>3. Cardinality({v \in V : h[v] = k}) = m2[k]
        BY DEF Labelled, X
      <4> HIDE DEF S
      <4> QED
        BY <1>0, <3>3, <4>2, <4>3 DEF S
    <3> QED
      BY <3>2, <3>3
  <2>5. \A v \in V : h[v] = IF f[v] \in C THEN i ELSE f[v]
    BY <1>3, <2>2
  <2>6. f \in X
    BY <2>2, <2>4, <2>5 DEF Labelled
  <2> QED
    BY <2>3, <2>6 DEF f
<1>6. ASSUME NEW f \in X
      PROVE  dn(f) \in B /\ up(dn(f)) = f
  <2>1. /\ f \in Labelled(V, L, m)
        /\ \A v \in V : h[v] = IF f[v] \in C THEN i ELSE f[v]
    OBVIOUS
  <2>2. f \in [V -> L]
    BY <2>1 DEF Labelled
  <2>3. /\ \A v \in P : v \in V /\ f[v] \in C
        /\ \A v \in V : v \notin P => h[v] = f[v] /\ f[v] \notin C
    BY <1>0, <1>3, <1>4, <2>1
  <2>4. ASSUME NEW k \in C
        PROVE  /\ \E v \in V : f[v] = k
               /\ \A v, w \in V : f[v] = k /\ f[w] = k => v = w
    <3>1. k \in L /\ m[k] = 1
      BY <1>0
    <3> HIDE DEF X
    <3> QED
      BY <2>1, <3>1, LabelOnce
  <2> DEFINE b == dn(f)
  <2>5. b \in [P -> C]
    BY <2>3
  <2>6. \A v, w \in P : b[v] = b[w] => v = w
    BY <2>3, <2>4
  <2>7. \A k \in C : \E v \in P : b[v] = k
    <3> SUFFICES ASSUME NEW k \in C PROVE \E v \in P : b[v] = k
      OBVIOUS
    <3>1. PICK v \in V : f[v] = k
      BY <2>4
    <3>2. v \in P
      BY <2>3, <3>1
    <3> QED
      BY <3>1, <3>2
  <2>8. up(b) = f
    BY <1>4, <2>2, <2>3
  <2> HIDE DEF b
  <2>9. b \in B
    BY <2>5, <2>6, <2>7, BijectionMeans
  <2> QED
    BY <2>8, <2>9 DEF b
<1>7. IsFiniteSet(B) /\ Cardinality(B) = factorial(Cardinality(C))
  BY <1>1, BijectionsCount
<1> DEFINE u == [b \in B |-> up(b)]
           d == [f \in X |-> dn(f)]
<1> HIDE DEF B, X, up, dn
<1>8. u \in [B -> X] /\ d \in [X -> B]
  BY <1>5, <1>6
<1>9. (\A f \in X : u[d[f]] = f) /\ (\A b \in B : d[u[b]] = b)
  BY <1>5, <1>6
<1> HIDE DEF u, d
<1>10. IsFiniteSet(X) /\ Cardinality(X) = Cardinality(B)
  BY <1>7, <1>8, <1>9, SameSize
<1>11. G = X
  <2>1. h = [v \in V |-> h[v]]
    BY <1>2
  <2>2. \A f : Merged(V, C, i, f) = h
                 <=> \A v \in V : h[v] = IF f[v] \in C THEN i ELSE f[v]
    BY <2>1 DEF Merged
  <2> QED
    BY <2>2 DEF X
<1> QED
  BY <1>7, <1>10, <1>11

\* Labels of C, used once each, can be put in place of one of them used for
\* all of C in factorial(Cardinality(C)) ways.
LEMMA MergeCount ==
  ASSUME NEW V, IsFiniteSet(V), NEW L, IsFiniteSet(L),
         NEW C, NEW i, NEW m, NEW m2, Merges(L, C, i, m, m2)
  PROVE  /\ IsFiniteSet(Labelled(V, L, m)) /\ IsFiniteSet(Labelled(V, L, m2))
         /\ Cardinality(Labelled(V, L, m))
               = Cardinality(Labelled(V, L, m2)) * factorial(Cardinality(C))
<1> DEFINE X == Labelled(V, L, m)
           Y == Labelled(V, L, m2)
           merge(f) == Merged(V, C, i, f)
           g == [f \in X |-> merge(f)]
           s == factorial(Cardinality(C))
           fibre == [h \in Y |-> {f \in X : merge(f) = h}]
<1>0. /\ i \in C /\ C \subseteq L
      /\ \A k \in C : m[k] = 1
      /\ m2[i] = Cardinality(C)
      /\ \A k \in C : k # i => m2[k] = 0
      /\ \A k \in L \ C : m2[k] = m[k]
  BY DEF Merges
<1>1. IsFiniteSet(C)
  BY <1>0, FS_Subset
<1>2. X \subseteq [V -> L] /\ Y \subseteq [V -> L]
  BY DEF Labelled
<1>3. IsFiniteSet(X) /\ IsFiniteSet(Y)
  <2>1. IsFiniteSet([V -> L])
    BY FunctionsFinite
  <2> QED
    BY <1>2, <2>1, FS_Subset
<1>4. ASSUME NEW f \in X PROVE merge(f) \in Y
  <2> DEFINE h == merge(f)
  <2>1. /\ h \in [V -> L]
        /\ \A v \in V : h[v] = IF f[v] \in C THEN i ELSE f[v]
    BY <1>0, <1>2 DEF Merged
  <2> HIDE DEF h
  <2>2. ASSUME NEW k \in L PROVE Cardinality({v \in V : h[v] = k}) = m2[k]
    <3> DEFINE S == {v \in V : h[v] = k}
    <3>1. IsFiniteSet(S)
      BY FS_Subset
    <3>2. CASE k = i
      <4>1. S = {v \in V : f[v] \in C}
        BY <1>0, <2>1, <3>2
      <4>2. Cardinality(S) = Cardinality(C)
        <5> HIDE DEF S
        <5> QED
          BY <1>0, <1>1, <4>1, MergedClass
      <4> QED
        BY <1>0, <3>2, <4>2
    <3>3. CASE k \in C /\ k # i
      <4>1. \A v \in S : FALSE
        BY <1>0, <2>1, <3>3
      <4> HIDE DEF S
      <4>2. Cardinality(S) = 0
        BY <3>1, <4>1, OneElement
      <4> QED
        BY <1>0, <3>3, <4>2 DEF S
    <3>4. CASE k \notin C
      <4>1. S = {v \in V : f[v] = k}
        BY <1>0, <2>1, <3>4
      <4>2. Cardinality({v \in V : f[v] = k}) = m[k]
        BY DEF Labelled, X
      <4> HIDE DEF S
      <4> QED
        BY <1>0, <3>4, <4>1, <4>2 DEF S
    <3> QED
      BY <3>2, <3>3, <3>4
  <2>3. h \in Y
    BY <2>1, <2>2 DEF Labelled
  <2> QED
    BY <2>3 DEF h
<1> HIDE DEF X, Y
<1>5. g \in [X -> Y]
  <2> HIDE DEF merge
  <2> QED
    BY <1>4
<1>6. fibre \in [Y -> SUBSET X]
  OBVIOUS
<1>7. ASSUME NEW h \in Y
      PROVE  /\ \A f \in X : f \in fibre[h] <=> g[f] = h
             /\ IsFiniteSet(fibre[h]) /\ Cardinality(fibre[h]) = s
  <2> DEFINE G == {f \in X : merge(f) = h}
  <2>1. fibre[h] = G
    OBVIOUS
  <2>2. \A f \in X : g[f] = merge(f)
    OBVIOUS
  <2>3. h \in Labelled(V, L, m2) /\ G = {f \in Labelled(V, L, m) : Merged(V, C, i, f) = h}
    BY DEF X, Y
  <2>4. \A f \in X : f \in G <=> merge(f) = h
    OBVIOUS
  <2> HIDE DEF G, fibre, g
  <2>5. IsFiniteSet(G) /\ Cardinality(G) = s
    BY <1>1, <2>3, MergedFibre
  <2> QED
    BY <2>1, <2>2, <2>4, <2>5
<1>8. s \in Nat
  BY <1>1, FS_CardinalityType, FactorialType
<1> HIDE DEF g, fibre, s
<1>9. Cardinality(X) = Cardinality(Y) * s
  BY <1>3, <1>5, <1>6, <1>7, <1>8, FibresCount
<1> QED
  BY <1>3, <1>9 DEF X, Y, s

\* The running quotient of total_permutations is what its loop computes.
LEMMA PermutationsType ==
  ASSUME NEW N \in Nat, NEW pool \in [1..N -> Int]
  PROVE  \E t \in [0..N -> Nat] :
            /\ t[0] = factorial(N)
            /\ \A i \in 1..N :
                  t[i] = IF \E j \in 1..(i - 1) : pool[j] = pool[i] THEN t[i - 1]
                         ELSE t[i - 1] \div factorial(Count(pool, pool[i]))
            /\ t[N] = total_permutations(pool)
<1> DEFINE again(i) == \E j \in 1..(i - 1) : pool[j] = pool[i]
           fact(i) == factorial(Count(pool, pool[i]))
           body(p) == [i \in 0..N |-> IF i = 0 THEN factorial(N)
                                      ELSE IF again(i) THEN p[i - 1]
                                      ELSE p[i - 1] \div fact(i)]
           F == [q \in (1..N) \X Nat |-> IF again(q[1]) THEN q[2] ELSE q[2] \div fact(q[1])]
           P == CHOOSE p : p = body(p)
<1>1. Len(pool) = N /\ DOMAIN pool = 1..N
  OBVIOUS
<1>2. total_permutations(pool) = P[N]
  BY <1>1 DEF total_permutations
<1>3. factorial(N) \in Nat /\ \A i \in 1..N : fact(i) \in Nat /\ fact(i) > 0
  <2>1. factorial(N) \in Nat
    BY FactorialType
  <2>2. ASSUME NEW i \in 1..N PROVE fact(i) \in Nat /\ fact(i) > 0
    <3> DEFINE S == {k \in DOMAIN pool : pool[k] = pool[i]}
               n == Cardinality(S)
    <3>1. IsFiniteSet(1..N)
      BY FS_Interval
    <3>2. IsFiniteSet(S)
      BY <1>1, <3>1, FS_Subset
    <3>3. n \in Nat
      BY <3>2, FS_CardinalityType
    <3>4. Count(pool, pool[i]) = n
      BY DEF Count
    <3> HIDE DEF n
    <3>5. factorial(n) \in Nat /\ factorial(n) > 0
      BY <3>3, FactorialType
    <3> QED
      BY <3>4, <3>5
  <2> QED
    BY <2>1, <2>2
<1> HIDE DEF fact, again
<1>4. ASSUME NEW i \in 1..N, NEW x \in Nat PROVE x \div fact(i) \in Nat
  <2> DEFINE y == fact(i)
  <2>1. y \in Nat /\ y > 0
    BY <1>3
  <2> HIDE DEF y
  <2>2. x \div y \in Nat
    BY <2>1
  <2> QED
    BY <2>2 DEF y
<1>5. PICK g \in [0..N -> Nat] :
         g[0] = factorial(N) /\ \A i \in 1..N : g[i] = F[<<i, g[i - 1]>>]
  <2>1. F \in [(1..N) \X Nat -> Nat]
    BY <1>4
  <2> HIDE DEF F
  <2> QED
    BY <1>3, <2>1, RecursionExists
<1>6. \A i \in 1..N : g[i] = IF again(i) THEN g[i - 1] ELSE g[i - 1] \div fact(i)
  <2> SUFFICES ASSUME NEW i \in 1..N
               PROVE  g[i] = IF again(i) THEN g[i - 1] ELSE g[i - 1] \div fact(i)
    OBVIOUS
  <2>1. i - 1 \in 0..N
    OBVIOUS
  <2>2. g[i - 1] \in Nat
    BY <2>1
  <2>3. <<i, g[i - 1]>> \in (1..N) \X Nat
    BY <2>2
  <2> QED
    BY <1>5, <2>3
<1>7. g = body(g)
  <2>1. \A i \in 0..N : g[i] = (IF i = 0 THEN factorial(N)
                                ELSE IF again(i) THEN g[i - 1]
                                ELSE g[i - 1] \div fact(i))
    BY <1>5, <1>6
  <2> QED
    BY <2>1
<1>8. P = body(P)
  <2> HIDE DEF body
  <2> QED
    BY <1>7
<1> HIDE DEF P, F
<1>9. P[0] = factorial(N) /\ \A i \in 1..N :
         P[i] = IF again(i) THEN P[i - 1] ELSE P[i - 1] \div fact(i)
  <2>1. \A i \in 0..N : P[i] = (IF i = 0 THEN factorial(N)
                                ELSE IF again(i) THEN P[i - 1]
                                ELSE P[i - 1] \div fact(i))
    BY <1>8
  <2> QED
    BY <2>1
<1>10. \A i \in 0..N : P[i] \in Nat
  <2> DEFINE T == {i \in 0..N : P[i] \notin Nat}
  <2> SUFFICES ASSUME T # {} PROVE FALSE
    OBVIOUS
  <2>1. PICK n \in T : \A m \in T : n <= m
    <3>1. T \subseteq Nat
      OBVIOUS
    <3> HIDE DEF T
    <3> QED
      BY <3>1, LeastNumber
  <2>2. n \in 1..N /\ n - 1 \in 0..N
    BY <1>3, <1>9
  <2>3. P[n - 1] \in Nat
    BY <2>1, <2>2
  <2>4. P[n - 1] \div fact(n) \in Nat
    BY <1>4, <2>2, <2>3
  <2> QED
    BY <1>9, <2>2, <2>3, <2>4
<1>11. P \in [0..N -> Nat]
  <2> DEFINE e(i) == IF i = 0 THEN factorial(N) ELSE IF again(i) THEN P[i - 1]
                     ELSE P[i - 1] \div fact(i)
  <2>1. P = [i \in 0..N |-> e(i)]
    BY <1>8
  <2> HIDE DEF e
  <2>2. P = [i \in 0..N |-> P[i]]
    BY <2>1
  <2> QED
    BY <1>10, <2>2
<1> QED
  BY <1>2, <1>9, <1>11 DEF again, fact

\* The first of the equal places of a list.
IsFirst(pool, k) == \A j \in 1..(k - 1) : pool[j] # pool[k]

\* When the first i places of a list of N words have been seen: an equal word
\* is put for the first of its places, and each other place is put once.
Put(N, pool, i) ==
  [k \in 1..N |->
     IF \E j \in 1..i : pool[j] = pool[k]
     THEN IF IsFirst(pool, k) THEN Count(pool, pool[k]) ELSE 0
     ELSE 1]

\* One turn of the loop of total_permutations: nothing for a word that was
\* seen, else the places of the word become one.
LEMMA PutStep ==
  ASSUME NEW N \in Nat, NEW pool \in [1..N -> Int], NEW i \in 1..N
  PROVE  /\ ~IsFirst(pool, i) => Put(N, pool, i) = Put(N, pool, i - 1)
         /\ IsFirst(pool, i) =>
               Merges(1..N, {k \in 1..N : pool[k] = pool[i]}, i,
                      Put(N, pool, i - 1), Put(N, pool, i))
<1> DEFINE C == {k \in 1..N : pool[k] = pool[i]}
           a == Put(N, pool, i - 1)
           b == Put(N, pool, i)
           first(k) == IsFirst(pool, k)
           cnt(k) == Count(pool, pool[k])
<1>1. \A k \in 1..N :
         /\ (\E j \in 1..i : pool[j] = pool[k])
               <=> (k \in C \/ \E j \in 1..(i - 1) : pool[j] = pool[k])
         /\ k \in C /\ first(i) => ~ \E j \in 1..(i - 1) : pool[j] = pool[k]
         /\ k \in C /\ first(i) => (first(k) <=> k = i)
  <2> SUFFICES ASSUME NEW k \in 1..N
               PROVE  /\ (\E j \in 1..i : pool[j] = pool[k])
                            <=> (k \in C \/ \E j \in 1..(i - 1) : pool[j] = pool[k])
                      /\ k \in C /\ first(i) => ~ \E j \in 1..(i - 1) : pool[j] = pool[k]
                      /\ k \in C /\ first(i) => (first(k) <=> k = i)
    OBVIOUS
  <2>1. \A j \in 1..i : j \in 1..(i - 1) \/ j = i
    OBVIOUS
  <2>2. i \in 1..i /\ \A j \in 1..(i - 1) : j \in 1..i
    OBVIOUS
  <2>3. (\E j \in 1..i : pool[j] = pool[k])
           <=> (k \in C \/ \E j \in 1..(i - 1) : pool[j] = pool[k])
    BY <2>1, <2>2
  <2>4. ASSUME k \in C, first(i)
        PROVE  (~ \E j \in 1..(i - 1) : pool[j] = pool[k]) /\ (first(k) <=> k = i)
    <3>1. ~ \E j \in 1..(i - 1) : pool[j] = pool[k]
      BY <2>4 DEF IsFirst
    <3>2. k \notin 1..(i - 1)
      BY <3>1
    <3>3. CASE k = i
      BY <2>4, <3>1, <3>3
    <3>4. CASE k # i
      <4>1. i \in 1..(k - 1)
        BY <3>2, <3>4
      <4> QED
        BY <2>4, <3>4, <4>1 DEF IsFirst
    <3> QED
      BY <3>1, <3>3, <3>4
  <2> QED
    BY <2>3, <2>4
<1> DEFINE sa(k) == \E j \in 1..(i - 1) : pool[j] = pool[k]
           sb(k) == \E j \in 1..i : pool[j] = pool[k]
<1>2. /\ a = [k \in 1..N |-> IF sa(k) THEN IF first(k) THEN cnt(k) ELSE 0 ELSE 1]
      /\ b = [k \in 1..N |-> IF sb(k) THEN IF first(k) THEN cnt(k) ELSE 0 ELSE 1]
  BY DEF Put
<1>3. \A k \in 1..N : /\ sb(k) <=> (k \in C \/ sa(k))
                      /\ k \in C /\ first(i) => ~sa(k)
                      /\ k \in C /\ first(i) => (first(k) <=> k = i)
  BY <1>1
<1>4. DOMAIN pool = 1..N
  OBVIOUS
<1>5. cnt(i) = Cardinality(C) /\ i \in C /\ C \subseteq 1..N
  BY <1>4 DEF Count
<1>6. ~first(i) => \A k \in C : sa(k)
  BY DEF IsFirst
<1> HIDE DEF a, b, cnt, first, C, sa, sb
<1>7. ASSUME ~first(i) PROVE b = a
  <2>1. \A k \in 1..N : sb(k) <=> sa(k)
    BY <1>3, <1>6, <1>7
  <2> QED
    BY <1>2, <2>1
<1>8. ASSUME first(i) PROVE Merges(1..N, C, i, a, b)
  <2>1. \A k \in C : a[k] = 1
    BY <1>2, <1>3, <1>5, <1>8
  <2>2. b[i] = Cardinality(C)
    BY <1>2, <1>3, <1>5, <1>8
  <2>3. \A k \in C : k # i => b[k] = 0
    BY <1>2, <1>3, <1>5, <1>8
  <2>4. \A k \in (1..N) \ C : b[k] = a[k]
    BY <1>2, <1>3, <1>5, <1>8
  <2> QED
    BY <1>5, <2>1, <2>2, <2>3, <2>4 DEF Merges
<1> QED
  BY <1>7, <1>8 DEF a, b, first, C
\* A product divided by one of its factors is the other.
LEMMA TimesDiv ==
  ASSUME NEW c \in Nat, NEW s \in Nat, s > 0
  PROVE  (c * s) \div s = c
<1> DEFINE p == c * s
           q == p \div s
           r == p % s
<1>1. p \in Nat
  OBVIOUS
<1> HIDE DEF p
<1>2. q \in Nat /\ r \in 0..(s - 1) /\ p = s * q + r
  BY <1>1
<1> HIDE DEF q, r
<1>3. CASE q < c
  <2>1. PICK d \in Nat : c = q + 1 + d
    <3>1. c - q - 1 \in Nat /\ c = q + 1 + (c - q - 1)
      BY <1>2, <1>3
    <3> QED
      BY <3>1
  <2>2. p = s * q + s + s * d
    BY <1>2, <2>1 DEF p
  <2>3. s * d \in Nat /\ s * q \in Nat
    BY <1>2, <2>1
  <2> DEFINE a == s * d
             b == s * q
  <2>4. a \in Nat /\ b \in Nat /\ p = b + s + a /\ p = b + r
    BY <1>2, <2>2, <2>3
  <2> HIDE DEF a, b
  <2> QED
    BY <1>2, <2>4
<1>4. CASE c < q
  <2>1. PICK d \in Nat : q = c + 1 + d
    <3>1. q - c - 1 \in Nat /\ q = c + 1 + (q - c - 1)
      BY <1>2, <1>4
    <3> QED
      BY <3>1
  <2>2. s * q = c * s + s + s * d
    BY <1>2, <2>1
  <2>3. s * d \in Nat
    BY <2>1
  <2> DEFINE a == s * d
             b == s * q
  <2>4. a \in Nat /\ b = p + s + a /\ p = b + r
    BY <1>2, <2>2, <2>3 DEF p
  <2> HIDE DEF a, b
  <2> QED
    BY <1>1, <1>2, <2>4
<1> QED
  BY <1>2, <1>3, <1>4 DEF p, q

\* What total_permutations computes: the ways to put the words of the pool,
\* equal ones not told apart, in as many places.
LEMMA PermutationsCount ==
  ASSUME NEW N \in Nat, NEW pool \in [1..N -> Int],
         NEW V, IsFiniteSet(V), Cardinality(V) = N
  PROVE  /\ IsFiniteSet(Labelled(V, 1..N, Put(N, pool, N)))
         /\ Cardinality(Labelled(V, 1..N, Put(N, pool, N))) = total_permutations(pool)
<1> DEFINE L == 1..N
           X(i) == Labelled(V, L, Put(N, pool, i))
<1>1. PICK t \in [0..N -> Nat] :
            /\ t[0] = factorial(N)
            /\ \A i \in 1..N :
                  t[i] = IF \E j \in 1..(i - 1) : pool[j] = pool[i] THEN t[i - 1]
                         ELSE t[i - 1] \div factorial(Count(pool, pool[i]))
            /\ t[N] = total_permutations(pool)
  BY PermutationsType
<1>2. IsFiniteSet(L) /\ Cardinality(L) = N
  BY FS_Interval
<1> DEFINE OK(i) == IsFiniteSet(X(i)) /\ Cardinality(X(i)) = t[i]
           T == {i \in 0..N : ~OK(i)}
<1>3. OK(0)
  <2> DEFINE p == Put(N, pool, 0)
  <2>1. \A k \in L : p[k] = 1
    BY DEF Put
  <2> HIDE DEF p, L
  <2>2. ASSUME NEW f \in Labelled(V, L, p) PROVE f \in Bijection(V, L)
    <3>1. f \in [V -> L]
      BY DEF Labelled
    <3>2. ASSUME NEW k \in L
          PROVE  /\ \E v \in V : f[v] = k
                 /\ \A v, w \in V : f[v] = k /\ f[w] = k => v = w
      <4>1. p[k] = 1
        BY <2>1
      <4> QED
        BY <4>1, LabelOnce
    <3>3. \A v, w \in V : f[v] = f[w] => v = w
      BY <3>1, <3>2
    <3> QED
      BY <3>1, <3>2, <3>3, BijectionMeans
  <2>3. ASSUME NEW f \in Bijection(V, L) PROVE f \in Labelled(V, L, p)
    <3>1. /\ f \in [V -> L]
          /\ \A v, w \in V : f[v] = f[w] => v = w
          /\ \A k \in L : \E v \in V : f[v] = k
      BY BijectionMeans
    <3>2. ASSUME NEW k \in L PROVE Cardinality({v \in V : f[v] = k}) = p[k]
      <4> DEFINE S == {v \in V : f[v] = k}
      <4>1. IsFiniteSet(S)
        BY FS_Subset
      <4>2. PICK x \in V : f[x] = k
        BY <3>1
      <4>3. x \in S /\ \A y \in S : y = x
        BY <3>1, <4>2
      <4> HIDE DEF S
      <4>4. Cardinality(S) = 1
        BY <4>1, <4>3, OneElement
      <4> QED
        BY <2>1, <4>4 DEF S
    <3> QED
      BY <3>1, <3>2 DEF Labelled
  <2>4. Labelled(V, L, p) = Bijection(V, L)
    BY <2>2, <2>3
  <2>5. IsFiniteSet(Bijection(V, L)) /\ Cardinality(Bijection(V, L)) = factorial(N)
    BY <1>2, BijectionsCount
  <2> QED
    BY <1>1, <2>4, <2>5 DEF p
<1>4. ASSUME NEW i \in 1..N, OK(i - 1) PROVE OK(i)
  <2> DEFINE a == Put(N, pool, i - 1)
             b == Put(N, pool, i)
             C == {k \in 1..N : pool[k] = pool[i]}
  <2>1. i - 1 \in 0..N /\ t[i - 1] \in Nat
    BY <1>1
  <2>2. CASE ~IsFirst(pool, i)
    <3>1. b = a
      BY <2>2, PutStep
    <3>2. t[i] = t[i - 1]
      <4>1. \E j \in 1..(i - 1) : pool[j] = pool[i]
        BY <2>2 DEF IsFirst
      <4> QED
        BY <1>1, <4>1
    <3> QED
      BY <1>4, <3>1, <3>2
  <2>3. CASE IsFirst(pool, i)
    <3>1. Merges(L, C, i, a, b)
      BY <2>3, PutStep
    <3>2. C \subseteq L
      OBVIOUS
    <3>3. IsFiniteSet(C)
      BY <1>2, <3>2, FS_Subset
    <3>4. Count(pool, pool[i]) = Cardinality(C)
      <4>1. DOMAIN pool = 1..N
        OBVIOUS
      <4> QED
        BY <4>1 DEF Count
    <3>5. t[i] = t[i - 1] \div factorial(Cardinality(C))
      <4>1. ~ \E j \in 1..(i - 1) : pool[j] = pool[i]
        BY <2>3 DEF IsFirst
      <4>2. t[i] = t[i - 1] \div factorial(Count(pool, pool[i]))
        BY <1>1, <4>1
      <4> QED
        BY <3>4, <4>2
    <3> DEFINE A == Labelled(V, L, a)
               B == Labelled(V, L, b)
               s == factorial(Cardinality(C))
    <3>6. IsFiniteSet(B) /\ Cardinality(A) = Cardinality(B) * s
      <4> HIDE DEF a, b, C, L
      <4> QED
        BY <1>2, <3>1, MergeCount
    <3>7. s \in Nat /\ s > 0 /\ Cardinality(B) \in Nat
      <4>1. Cardinality(C) \in Nat
        BY <3>3, FS_CardinalityType
      <4>2. Cardinality(B) \in Nat
        BY <3>6, FS_CardinalityType
      <4> HIDE DEF C, B
      <4> QED
        BY <4>1, <4>2, FactorialType
    <3>8. Cardinality(A) = t[i - 1] /\ t[i] = Cardinality(A) \div s
      BY <1>4, <3>5
    <3> DEFINE c == Cardinality(B)
    <3>9. (c * s) \div s = c
      <4>1. c \in Nat /\ s \in Nat /\ s > 0
        BY <3>7
      <4> HIDE DEF c, s
      <4> QED
        BY <4>1, TimesDiv
    <3>10. t[i] = Cardinality(B)
      <4> HIDE DEF A, B, s
      <4> QED
        BY <3>6, <3>8, <3>9
    <3> QED
      BY <3>6, <3>10
  <2> QED
    BY <2>2, <2>3
<1> HIDE DEF OK
<1>5. T = {}
  <2> SUFFICES ASSUME T # {} PROVE FALSE
    OBVIOUS
  <2>1. PICK n \in T : \A m \in T : n <= m
    <3>1. T \subseteq Nat
      OBVIOUS
    <3> HIDE DEF T
    <3> QED
      BY <3>1, LeastNumber
  <2>2. n \in 1..N /\ n - 1 \in 0..N
    BY <1>3
  <2>3. OK(n - 1)
    BY <2>1, <2>2
  <2> QED
    BY <1>4, <2>2, <2>3
<1>6. OK(N)
  BY <1>5
<1> QED
  BY <1>1, <1>6 DEF OK

-----------------------------------------------------------------------------
(* The search spaces shown before the searches *)

\* The first place of a word in the pool.
FirstIn(N, pool, w) == CHOOSE k \in 1..N : pool[k] = w /\ IsFirst(pool, k)

\* There is one first place of a word.
LEMMA FirstInIs ==
  ASSUME NEW N \in Nat, NEW pool, NEW w, \E k \in 1..N : pool[k] = w
  PROVE  /\ FirstIn(N, pool, w) \in 1..N /\ pool[FirstIn(N, pool, w)] = w
         /\ IsFirst(pool, FirstIn(N, pool, w))
         /\ \A k \in 1..N : pool[k] = w /\ IsFirst(pool, k) => k = FirstIn(N, pool, w)
<1> DEFINE T == {k \in 1..N : pool[k] = w}
<1>1. PICK k \in T : \A m \in T : k <= m
  <2>1. T \subseteq Nat /\ T # {}
    OBVIOUS
  <2> HIDE DEF T
  <2> QED
    BY <2>1, LeastNumber
<1>2. k \in 1..N /\ pool[k] = w /\ IsFirst(pool, k)
  <2>1. \A j \in 1..(k - 1) : pool[j] # pool[k]
    BY <1>1
  <2> QED
    BY <2>1 DEF IsFirst
<1>3. /\ FirstIn(N, pool, w) \in 1..N /\ pool[FirstIn(N, pool, w)] = w
      /\ IsFirst(pool, FirstIn(N, pool, w))
  BY <1>2 DEF FirstIn
<1>4. ASSUME NEW a \in 1..N, NEW b \in 1..N, pool[a] = pool[b],
             IsFirst(pool, a), IsFirst(pool, b)
      PROVE  a = b
  <2>1. a \notin 1..(b - 1) /\ b \notin 1..(a - 1)
    BY <1>4 DEF IsFirst
  <2> QED
    BY <2>1
<1> QED
  BY <1>3, <1>4

\* When all places have been seen, every word is put for the first of its
\* places and no other.
LEMMA PutAll ==
  ASSUME NEW N \in Nat, NEW pool, NEW k \in 1..N
  PROVE  Put(N, pool, N)[k] = IF IsFirst(pool, k) THEN Count(pool, pool[k]) ELSE 0
<1>1. \E j \in 1..N : pool[j] = pool[k]
  OBVIOUS
<1> QED
  BY <1>1 DEF Put

\* A word that is in the place of an arrangement is in the pool.
LEMMA CountsAlike ==
  ASSUME NEW V, IsFiniteSet(V), NEW a, NEW N \in Nat, NEW pool, DOMAIN pool = 1..N,
         NEW w, Cardinality({i \in V : a[i] = w}) = Count(pool, w)
  PROVE  (\E i \in V : a[i] = w) <=> (\E k \in 1..N : pool[k] = w)
<1> DEFINE S == {i \in V : a[i] = w}
           T == {k \in 1..N : pool[k] = w}
<1>1. IsFiniteSet(S)
  BY FS_Subset
<1>2. IsFiniteSet(T)
  <2>1. IsFiniteSet(1..N)
    BY FS_Interval
  <2> QED
    BY <2>1, FS_Subset
<1>3. Cardinality(S) = Cardinality(T)
  BY DEF Count
<1>4. /\ S = {} <=> ~ \E i \in V : a[i] = w
      /\ T = {} <=> ~ \E k \in 1..N : pool[k] = w
  OBVIOUS
<1> HIDE DEF S, T
<1>5. S = {} <=> T = {}
  BY <1>1, <1>2, <1>3, FS_EmptySet
<1> QED
  BY <1>4, <1>5

\* recover_word_order's estimate is the number of arrangements it tries.
LEMMA ArrangementsCount ==
  ASSUME NEW ph, IsPhrase(ph, {"word", "unknown"}),
         NEW N \in Nat, NEW pool \in [1..N -> Int], ~OrderRefused(ph, pool)
  PROVE  Cardinality(Arrangements(ph, pool)) = total_permutations(pool)
<1> DEFINE M == Len(ph)
           V == Variable(ph)
           L == 1..N
           X == Labelled(V, L, Put(N, pool, N))
           A == Arrangements(ph, pool)
           F == Fillings(ph)
           fixed(i) == CHOOSE w \in ph[i].words : TRUE
           up(l) == [i \in 1..M |-> IF i \in V THEN pool[l[i]] ELSE fixed(i)]
           dn(a) == [v \in V |-> FirstIn(N, pool, a[v])]
<1>1. N \in Nat /\ pool \in [1..N -> Int] /\ DOMAIN pool = 1..N /\ Len(pool) = N
  OBVIOUS
<1>2. /\ M \in Nat /\ DOMAIN ph = 1..M
      /\ \A i \in 1..M : /\ ph[i].kind \in {"word", "unknown"}
                         /\ ph[i].words \subseteq Int
                         /\ ph[i].kind = "word" => \E w \in ph[i].words : ph[i].words = {w}
                         /\ ph[i].kind = "unknown" => ph[i].words = Wordlist
  BY PhraseType
<1>3. /\ \A i \in L : pool[i] \in Wordlist
      /\ Cardinality(V) = N
  BY <1>1 DEF OrderRefused, Range
<1> HIDE DEF M
<1>4. /\ V \subseteq 1..M
      /\ \A i \in V : ph[i].words = Wordlist
      /\ \A i \in (1..M) \ V : ph[i].words = {fixed(i)}
  BY <1>2 DEF Variable
<1>5. IsFiniteSet(V) /\ IsFiniteSet(L)
  <2>1. IsFiniteSet(1..M)
    <3>1. M \in Nat
      BY <1>2
    <3> QED
      BY <3>1, FS_Interval
  <2>2. IsFiniteSet(1..N)
    BY <1>1, FS_Interval
  <2> HIDE DEF V
  <2> QED
    BY <1>4, <2>1, <2>2, FS_Subset
<1>6. Wordlist \subseteq Int
  BY ConstantsAssumption
<1>7. \A f : f \in F <=> /\ f = [i \in 1..M |-> f[i]]
                         /\ \A i \in 1..M : f[i] \in ph[i].words
  BY <1>2 DEF Fillings
<1>8. \A f : f \in A <=> /\ f \in F
                         /\ \A w \in Wordlist :
                              Cardinality({i \in V : f[i] = w}) = Count(pool, w)
  BY DEF Arrangements
<1> HIDE DEF V, F, A, fixed
<1>9. ASSUME NEW l \in X
      PROVE  up(l) \in A /\ dn(up(l)) = l
  <2> DEFINE f == up(l)
  <2>1. l \in [V -> L]
    BY DEF Labelled
  <2>2. \A v \in V : IsFirst(pool, l[v])
    <3> SUFFICES ASSUME NEW v \in V, ~IsFirst(pool, l[v]) PROVE FALSE
      OBVIOUS
    <3> DEFINE p == Put(N, pool, N)
               k == l[v]
    <3>1. k \in L
      BY <2>1
    <3>2. p[k] = 0
      BY <1>1, <3>1, PutAll
    <3> HIDE DEF p, L
    <3>3. \A u \in V : l[u] # k
      <4> HIDE DEF k
      <4>1. l \in Labelled(V, L, p)
        BY DEF p
      <4> QED
        BY <1>5, <3>1, <3>2, <4>1, LabelUnused
    <3> QED
      BY <3>3
  <2>3. /\ f = [i \in 1..M |-> f[i]]
        /\ \A v \in V : f[v] = pool[l[v]]
        /\ \A i \in (1..M) \ V : f[i] = fixed(i)
    BY <1>4
  <2>4. \A v \in V : FirstIn(N, pool, f[v]) = l[v]
    <3> SUFFICES ASSUME NEW v \in V PROVE FirstIn(N, pool, f[v]) = l[v]
      OBVIOUS
    <3>1. l[v] \in 1..N /\ pool[l[v]] = f[v] /\ IsFirst(pool, l[v])
      BY <2>1, <2>2, <2>3
    <3> HIDE DEF f
    <3> QED
      BY <1>1, <3>1, FirstInIs
  <2>5. dn(f) = l
    BY <2>1, <2>4
  <2> HIDE DEF f
  <2>6. f \in F
    <3>1. ASSUME NEW i \in V PROVE f[i] \in ph[i].words
      <4>1. l[i] \in L
        BY <2>1
      <4>2. pool[l[i]] \in Wordlist
        BY <1>3, <4>1
      <4>3. ph[i].words = Wordlist
        BY <1>4
      <4>4. f[i] = pool[l[i]]
        BY <2>3
      <4> QED
        BY <4>2, <4>3, <4>4
    <3>2. ASSUME NEW i \in (1..M) \ V PROVE f[i] \in ph[i].words
      BY <1>4, <2>3
    <3> QED
      BY <1>7, <2>3, <3>1, <3>2
  <2>7. ASSUME NEW w \in Wordlist
        PROVE  Cardinality({i \in V : f[i] = w}) = Count(pool, w)
    <3> DEFINE S == {i \in V : f[i] = w}
    <3>1. CASE \E k \in 1..N : pool[k] = w
      <4> DEFINE k == FirstIn(N, pool, w)
      <4>1. k \in 1..N /\ pool[k] = w /\ IsFirst(pool, k)
        BY <1>1, <3>1, FirstInIs
      <4>2. \A v \in V : f[v] = w <=> l[v] = k
        BY <2>3, <2>4, <4>1
      <4>3. S = {v \in V : l[v] = k}
        BY <4>2
      <4>4. Cardinality({v \in V : l[v] = k}) = Put(N, pool, N)[k]
        BY <4>1 DEF Labelled
      <4>5. Put(N, pool, N)[k] = Count(pool, w)
        BY <1>1, <4>1, PutAll
      <4> QED
        BY <4>3, <4>4, <4>5
    <3>2. CASE ~ \E k \in 1..N : pool[k] = w
      <4>1. S = {}
        <5>1. ASSUME NEW i \in V PROVE f[i] # w
          <6>1. f[i] = pool[l[i]] /\ l[i] \in 1..N
            BY <2>1, <2>3
          <6> QED
            BY <3>2, <6>1
        <5> QED
          BY <5>1
      <4>2. {k \in DOMAIN pool : pool[k] = w} = {}
        BY <1>1, <3>2
      <4> QED
        BY <4>1, <4>2 DEF Count
    <3> QED
      BY <3>1, <3>2
  <2>8. f \in A
    BY <1>8, <2>6, <2>7
  <2> QED
    BY <2>5, <2>8 DEF f
<1>10. ASSUME NEW a \in A
       PROVE  dn(a) \in X /\ up(dn(a)) = a
  <2> DEFINE l == dn(a)
  <2>1. /\ a = [i \in 1..M |-> a[i]]
        /\ \A i \in 1..M : a[i] \in ph[i].words
        /\ \A w \in Wordlist : Cardinality({i \in V : a[i] = w}) = Count(pool, w)
    BY <1>7, <1>8
  <2>2. ASSUME NEW w \in Wordlist
        PROVE  (\E v \in V : a[v] = w) <=> (\E k \in 1..N : pool[k] = w)
    <3>1. Cardinality({i \in V : a[i] = w}) = Count(pool, w)
      BY <2>1
    <3> QED
      BY <1>1, <1>5, <3>1, CountsAlike
  <2>3. ASSUME NEW v \in V
        PROVE  /\ FirstIn(N, pool, a[v]) \in L
               /\ pool[FirstIn(N, pool, a[v])] = a[v]
               /\ IsFirst(pool, FirstIn(N, pool, a[v]))
               /\ \A k \in L : pool[k] = a[v] /\ IsFirst(pool, k)
                                  => k = FirstIn(N, pool, a[v])
    <3>1. a[v] \in Wordlist
      BY <1>4, <2>1
    <3>2. \E k \in 1..N : pool[k] = a[v]
      BY <2>2, <3>1
    <3> QED
      BY <1>1, <3>2, FirstInIs
  <2>4. l \in [V -> L]
    BY <2>3
  <2>5. \A v \in V : l[v] = FirstIn(N, pool, a[v])
    OBVIOUS
  <2>6. up(l) = a
    <3>1. \A i \in (1..M) \ V : a[i] = fixed(i)
      BY <1>4, <2>1
    <3> QED
      BY <2>1, <2>3, <2>5, <3>1
  <2> HIDE DEF l
  <2>7. ASSUME NEW k \in L
        PROVE  Cardinality({v \in V : l[v] = k}) = Put(N, pool, N)[k]
    <3> DEFINE S == {v \in V : l[v] = k}
    <3>1. CASE IsFirst(pool, k)
      <4>1. \A v \in V : l[v] = k <=> a[v] = pool[k]
        BY <2>3, <2>5, <3>1
      <4>2. S = {v \in V : a[v] = pool[k]}
        BY <4>1
      <4>3. Cardinality({v \in V : a[v] = pool[k]}) = Count(pool, pool[k])
        BY <1>3, <2>1
      <4>4. Put(N, pool, N)[k] = Count(pool, pool[k])
        BY <1>1, <3>1, PutAll
      <4> QED
        BY <4>2, <4>3, <4>4
    <3>2. CASE ~IsFirst(pool, k)
      <4>1. S = {}
        BY <2>3, <2>5, <3>2
      <4>2. Cardinality({}) = 0
        BY FS_EmptySet
      <4>3. Put(N, pool, N)[k] = 0
        BY <1>1, <3>2, PutAll
      <4> QED
        BY <4>1, <4>2, <4>3
    <3> QED
      BY <3>1, <3>2
  <2>8. l \in X
    BY <2>4, <2>7 DEF Labelled
  <2> QED
    BY <2>6, <2>8 DEF l
<1>11. IsFiniteSet(X) /\ Cardinality(X) = total_permutations(pool)
  BY <1>1, <1>3, <1>5, PermutationsCount
<1> DEFINE u == [l \in X |-> up(l)]
           d == [a \in A |-> dn(a)]
<1> HIDE DEF X, up, dn
<1>12. u \in [X -> A] /\ d \in [A -> X]
  BY <1>9, <1>10
<1>13. (\A l \in X : d[u[l]] = l) /\ (\A a \in A : u[d[a]] = a)
  BY <1>9, <1>10
<1> HIDE DEF u, d
<1>14. IsFiniteSet(A) /\ Cardinality(A) = Cardinality(X)
  <2>1. IsFiniteSet(X)
    BY <1>11
  <2>2. \A a \in A : u[d[a]] = a
    BY <1>13
  <2>3. \A l \in X : d[u[l]] = l
    BY <1>13
  <2> QED
    BY <1>12, <2>1, <2>2, <2>3, SameSize
<1> QED
  BY <1>11, <1>14 DEF A

\* The running sum is what its loop computes.
LEMMA SumsType ==
  ASSUME NEW N \in Nat, NEW c \in [1..N -> Nat]
  PROVE  /\ Sums(c) \in [0..N -> Nat] /\ Sums(c)[0] = 0
         /\ \A i \in 1..N : Sums(c)[i] = Sums(c)[i - 1] + c[i]
<1> DEFINE body(p) == [i \in 0..N |-> IF i = 0 THEN 0 ELSE p[i - 1] + c[i]]
           F == [q \in (1..N) \X Nat |-> q[2] + c[q[1]]]
           P == CHOOSE p : p = body(p)
<1>1. Len(c) = N
  OBVIOUS
<1>2. Sums(c) = P
  BY <1>1 DEF Sums
<1>3. PICK g \in [0..N -> Nat] : g[0] = 0 /\ \A i \in 1..N : g[i] = F[<<i, g[i - 1]>>]
  <2>1. F \in [(1..N) \X Nat -> Nat]
    OBVIOUS
  <2> HIDE DEF F
  <2> QED
    BY <2>1, 0 \in Nat, RecursionExists, Zenon
<1>4. g = body(g)
  <2>1. \A i \in 1..N : g[i] = g[i - 1] + c[i]
    <3> SUFFICES ASSUME NEW i \in 1..N PROVE g[i] = g[i - 1] + c[i]
      OBVIOUS
    <3>1. i - 1 \in 0..N
      OBVIOUS
    <3>2. g[i - 1] \in Nat
      BY <3>1
    <3>3. <<i, g[i - 1]>> \in (1..N) \X Nat
      BY <3>2
    <3> QED
      BY <1>3, <3>3
  <2>2. \A i \in 0..N : g[i] = (IF i = 0 THEN 0 ELSE g[i - 1] + c[i])
    BY <1>3, <2>1
  <2> QED
    BY <2>2
<1>5. P = body(P)
  <2> HIDE DEF body
  <2> QED
    BY <1>4
<1> HIDE DEF P, F
<1>6. P[0] = 0 /\ \A i \in 1..N : P[i] = P[i - 1] + c[i]
  <2>1. \A i \in 0..N : P[i] = IF i = 0 THEN 0 ELSE P[i - 1] + c[i]
    BY <1>5
  <2> QED
    BY <2>1
<1>7. \A i \in 0..N : P[i] \in Nat
  <2> DEFINE T == {i \in 0..N : P[i] \notin Nat}
  <2> SUFFICES ASSUME T # {} PROVE FALSE
    OBVIOUS
  <2>1. PICK n \in T : \A m \in T : n <= m
    <3>1. T \subseteq Nat
      OBVIOUS
    <3> HIDE DEF T
    <3> QED
      BY <3>1, LeastNumber
  <2>2. n \in 1..N /\ n - 1 \in 0..N
    BY <1>6
  <2>3. P[n - 1] \in Nat
    BY <2>1, <2>2
  <2>4. c[n] \in Nat /\ P[n] = P[n - 1] + c[n]
    BY <1>6, <2>2
  <2> QED
    BY <2>3, <2>4
<1>8. P \in [0..N -> Nat]
  <2>1. P = [i \in 0..N |-> P[i]]
    <3> DEFINE e(i) == IF i = 0 THEN 0 ELSE P[i - 1] + c[i]
    <3>1. P = [i \in 0..N |-> e(i)]
      BY <1>5
    <3> HIDE DEF e
    <3> QED
      BY <3>1
  <2> QED
    BY <1>7, <2>1
<1> QED
  BY <1>2, <1>6, <1>8

\* A running sum of natural numbers never falls.
LEMMA SumsGrow ==
  ASSUME NEW N \in Nat, NEW c \in [1..N -> Nat], NEW i \in 0..N
  PROVE  Sums(c)[i] <= Sums(c)[N]
<1> DEFINE P == Sums(c)
           T == {n \in i..N : ~(P[i] <= P[n])}
<1>1. P \in [0..N -> Nat] /\ \A n \in 1..N : P[n] = P[n - 1] + c[n]
  BY SumsType
<1> HIDE DEF P
<1>2. P[i] \in Nat
  BY <1>1
<1>3. T = {}
  <2> SUFFICES ASSUME T # {} PROVE FALSE
    OBVIOUS
  <2>1. PICK n \in T : \A m \in T : n <= m
    <3>1. T \subseteq Nat
      OBVIOUS
    <3> HIDE DEF T
    <3> QED
      BY <3>1, LeastNumber
  <2>2. n # i /\ n \in i..N
    BY <1>2
  <2>3. n \in 1..N /\ n - 1 \in 0..N /\ n - 1 \in i..N
    BY <2>2
  <2>4. P[i] <= P[n - 1]
    BY <2>1, <2>3
  <2>5. P[n] = P[n - 1] + c[n] /\ c[n] \in Nat /\ P[n - 1] \in Nat
    BY <1>1, <2>3
  <2> QED
    BY <1>2, <2>4, <2>5
<1>4. P[i] <= P[N]
  BY <1>3
<1> QED
  BY <1>4 DEF P

\* Ones add up to their number.
LEMMA SumOfOnes ==
  ASSUME NEW N \in Nat, NEW c \in [1..N -> Nat], \A i \in 1..N : c[i] = 1
  PROVE  Sums(c)[N] = N
<1> DEFINE P == Sums(c)
           T == {n \in 0..N : P[n] # n}
<1>1. P[0] = 0 /\ \A n \in 1..N : P[n] = P[n - 1] + c[n]
  BY SumsType
<1> HIDE DEF P
<1>2. T = {}
  <2> SUFFICES ASSUME T # {} PROVE FALSE
    OBVIOUS
  <2>1. PICK n \in T : \A m \in T : n <= m
    <3>1. T \subseteq Nat
      OBVIOUS
    <3> HIDE DEF T
    <3> QED
      BY <3>1, LeastNumber
  <2>2. n \in 1..N /\ n - 1 \in 0..N
    BY <1>1
  <2>3. P[n - 1] = n - 1
    BY <2>1, <2>2
  <2>4. P[n] = P[n - 1] + 1
    BY <1>1, <2>2
  <2>5. P[n] = n
    BY <2>2, <2>3, <2>4
  <2> QED
    BY <2>5
<1>3. P[N] = N
  BY <1>2
<1> QED
  BY <1>3 DEF P

\* recover_missing_words's estimate is the number of fillings it tries.
LEMMA SpaceCount ==
  ASSUME NEW K, NEW ph, IsPhrase(ph, K)
  PROVE  Cardinality(Fillings(ph)) = space(ph)
<1> DEFINE N == Len(ph)
           U == UNION {ph[i].words : i \in DOMAIN ph}
           W == [i \in 1..N |-> ph[i].words]
           c == [i \in 1..N |-> Cardinality(W[i])]
           Fill == {f \in [1..N -> U] : \A i \in 1..N : f[i] \in W[i]}
<1>1. /\ N \in Nat /\ DOMAIN ph = 1..N
      /\ \A i \in 1..N : /\ IsFiniteSet(ph[i].words)
                         /\ ph[i].kind = "word" => \E w \in ph[i].words : ph[i].words = {w}
  BY PhraseType
<1> HIDE DEF N
<1>2. Fillings(ph) = Fill
  BY <1>1 DEF Fillings
<1>3. W \in [1..N -> SUBSET U] /\ \A i \in 1..N : IsFiniteSet(W[i])
  BY <1>1
<1>4. Cardinality(Fill) = Products(c)[N]
  <2>1. N \in Nat
    BY <1>1
  <2> HIDE DEF U, W
  <2> QED
    BY <1>3, <2>1, FillCount
<1>5. c = [i \in DOMAIN ph |->
             IF i \in Variable(ph) THEN Cardinality(ph[i].words) ELSE 1]
  <2>1. ASSUME NEW i \in 1..N, i \notin Variable(ph) PROVE Cardinality(ph[i].words) = 1
    <3>1. ph[i].kind = "word"
      BY <1>1, <2>1 DEF Variable
    <3>2. PICK w : ph[i].words = {w}
      BY <1>1, <3>1
    <3> QED
      BY <3>2, FS_Singleton
  <2> QED
    BY <1>1, <2>1
<1>6. space(ph) = Products(c)[N]
  BY <1>5 DEF space, N
<1> QED
  BY <1>2, <1>4, <1>6

\* combo_count is the number of phrases with other words at those places.
LEMMA SubstitutedCount ==
  ASSUME NEW N \in Nat, NEW ws \in [1..N -> Int],
         \A i \in 1..N : Alternatives[ws[i]] \subseteq Wordlist,
         NEW P
  PROVE  /\ IsFiniteSet(Substituted(ws, P))
         /\ Cardinality(Substituted(ws, P)) = combo_count(ws, P)
<1> DEFINE U == Range(ws) \cup Wordlist
           W == [i \in 1..N |-> IF i \in P THEN Alternatives[ws[i]] ELSE {ws[i]}]
           c == [i \in 1..N |-> Cardinality(W[i])]
           Fill == {f \in [1..N -> U] : \A i \in 1..N : f[i] \in W[i]}
<1>1. DOMAIN ws = 1..N /\ Len(ws) = N
  OBVIOUS
<1>2. Substituted(ws, P) = Fill
  <2>1. \A f : \A i \in 1..N :
           (IF i \in P THEN f[i] \in Alternatives[ws[i]] ELSE f[i] = ws[i]) <=> f[i] \in W[i]
    OBVIOUS
  <2> HIDE DEF W, U
  <2> QED
    BY <1>1, <2>1 DEF Substituted, U
<1>3. W \in [1..N -> SUBSET U]
  <2>1. \A i \in 1..N : ws[i] \in U
    BY <1>1 DEF Range
  <2> QED
    BY <2>1
<1>4. \A i \in 1..N : IsFiniteSet(W[i])
  <2> SUFFICES ASSUME NEW i \in 1..N PROVE IsFiniteSet(W[i])
    OBVIOUS
  <2>1. IsFiniteSet(Wordlist)
    BY ConstantsAssumption
  <2>2. IsFiniteSet(Alternatives[ws[i]])
    BY <2>1, FS_Subset
  <2>3. IsFiniteSet({ws[i]})
    BY FS_Singleton
  <2> QED
    BY <2>2, <2>3
<1>5. IsFiniteSet(Fill) /\ Cardinality(Fill) = Products(c)[N]
  <2> HIDE DEF U, W
  <2> QED
    BY <1>3, <1>4, FillCount
<1>6. c = [i \in DOMAIN ws |-> IF i \in P THEN Cardinality(Alternatives[ws[i]]) ELSE 1]
  <2>1. \A i \in 1..N : Cardinality({ws[i]}) = 1
    BY FS_Singleton
  <2> QED
    BY <1>1, <2>1
<1>7. combo_count(ws, P) = Products(c)[N]
  BY <1>1, <1>6 DEF combo_count
<1> QED
  BY <1>2, <1>5, <1>7

\* What each task of a list adds to the count.
Tally(ts) == [k \in DOMAIN ts |-> Cardinality(ts[k])]

\* recover_with_typos's estimate is what its tasks count together.
LEMMA TypoTally ==
  ASSUME NEW ws \in Seq(Int), NEW max \in 1..2,
         \A i \in DOMAIN ws : Alternatives[ws[i]] \subseteq Wordlist,
         NEW ts, ts = TypoTasks(ws, max)
  PROVE  /\ Len(ts) \in Nat /\ Tally(ts) \in [1..Len(ts) -> Nat]
         /\ Sums(Tally(ts))[Len(ts)] = total_search_space(ws, max)
<1> DEFINE cs == PosCombos(ws, max)
           c == [k \in DOMAIN cs |-> combo_count(ws, cs[k])]
           sub(P) == Substituted(ws, P)
<1>1. cs \in Seq(SUBSET per_position(ws))
  BY CombosTaken
<1>2. ts = [k \in DOMAIN cs |-> sub(cs[k])]
  BY DEF TypoTasks
<1>3. total_search_space(ws, max) = Sums(c)[Len(cs)]
  BY DEF total_search_space
<1>4. \A P : IsFiniteSet(sub(P)) /\ Cardinality(sub(P)) = combo_count(ws, P)
  <2>1. Len(ws) \in Nat /\ ws \in [1..Len(ws) -> Int] /\ DOMAIN ws = 1..Len(ws)
    OBVIOUS
  <2> QED
    BY <2>1, SubstitutedCount
<1> HIDE DEF cs, sub
<1>5. Len(cs) \in Nat /\ DOMAIN cs = 1..Len(cs)
  BY <1>1
<1>6. ts \in [1..Len(cs) -> {sub(cs[k]) : k \in 1..Len(cs)}]
  BY <1>2, <1>5
<1>7. Len(ts) = Len(cs) /\ DOMAIN ts = 1..Len(cs)
  BY <1>2, <1>5, <1>6, ListLength
<1>8. \A k \in 1..Len(cs) : Cardinality(ts[k]) = combo_count(ws, cs[k])
                            /\ Cardinality(ts[k]) \in Nat
  <2> SUFFICES ASSUME NEW k \in 1..Len(cs)
               PROVE  Cardinality(ts[k]) = combo_count(ws, cs[k])
                      /\ Cardinality(ts[k]) \in Nat
    OBVIOUS
  <2>1. ts[k] = sub(cs[k])
    BY <1>2, <1>5
  <2>2. IsFiniteSet(ts[k]) /\ Cardinality(ts[k]) = combo_count(ws, cs[k])
    BY <1>4, <2>1
  <2> QED
    BY <2>2, FS_CardinalityType
<1>9. Tally(ts) = c
  BY <1>5, <1>7, <1>8 DEF Tally
<1>10. Tally(ts) \in [1..Len(ts) -> Nat]
  BY <1>7, <1>8 DEF Tally
<1> QED
  BY <1>3, <1>5, <1>7, <1>9, <1>10

\* recover_extra_word leaves each word out once.
LEMMA ExtraTally ==
  ASSUME NEW ws \in Seq(Int), NEW ts, ts = ExtraTasks(ws)
  PROVE  /\ Len(ts) \in Nat /\ Tally(ts) \in [1..Len(ts) -> Nat]
         /\ Sums(Tally(ts))[Len(ts)] = Len(ws)
<1> DEFINE out(i) == RemoveAt(ws, i)
           N == Len(ws)
           c == Tally(ts)
<1>1. N \in Nat /\ DOMAIN ws = 1..N
  OBVIOUS
<1>2. ts = [i \in DOMAIN ws |-> {out(i)}]
  BY DEF ExtraTasks
<1> HIDE DEF out, N
<1>3. ts \in [1..N -> {{out(i)} : i \in 1..N}]
  BY <1>1, <1>2
<1>4. Len(ts) = N /\ DOMAIN ts = 1..N
  BY <1>1, <1>3, ListLength
<1>5. \A i \in 1..N : Cardinality(ts[i]) = 1
  <2> SUFFICES ASSUME NEW i \in 1..N PROVE Cardinality(ts[i]) = 1
    OBVIOUS
  <2>1. ts[i] = {out(i)}
    BY <1>1, <1>2
  <2> QED
    BY <2>1, FS_Singleton
<1>6. c \in [1..N -> Nat] /\ \A i \in 1..N : c[i] = 1
  BY <1>4, <1>5 DEF Tally
<1> HIDE DEF c
<1>7. Sums(c)[N] = N
  BY <1>1, <1>6, SumOfOnes
<1> QED
  BY <1>1, <1>4, <1>6, <1>7 DEF N, c

\* What a call that was not refused does: the tasks of a search for typos or
\* for an extra word are those of its loop, and checked is their sum so far.
SpaceOK ==
  /\ pc = "called" => checked = 0
  /\ pc \in {"running", "aborted", "returned"} =>
        /\ ~Refused
        /\ job.engine = "typos" => tasks = TypoTasks(job.words, job.max_typo_words)
        /\ job.engine = "extra" => tasks = ExtraTasks(job.words)
        /\ job.engine \in {"typos", "extra"} => checked = Sums(Tally(tasks))[next - 1]

\* The sum over all the tasks is the search space shown to the user.
LEMMA AllTallied ==
  ASSUME job \in Jobs, ~Refused, job.engine \in {"typos", "extra"},
         NEW ts,
         job.engine = "typos" => ts = TypoTasks(job.words, job.max_typo_words),
         job.engine = "extra" => ts = ExtraTasks(job.words)
  PROVE  /\ Len(ts) \in Nat /\ Tally(ts) \in [1..Len(ts) -> Nat]
         /\ Sums(Tally(ts))[Len(ts)] = search_space
<1>1. IsJob(job)
  BY ConstantsAssumption
<1>2. CASE job.engine = "typos"
  <2>1. job.words \in Seq(Int)
    BY <1>1, <1>2 DEF IsJob
  <2>2. \A i \in DOMAIN job.words : Alternatives[job.words[i]] \subseteq Wordlist
    BY <1>1, <1>2 DEF IsJob
  <2>3. job.max_typo_words \in 1..2
    BY <1>2 DEF Refused, TypoRefused
  <2>4. search_space = total_search_space(job.words, job.max_typo_words)
    BY <1>2 DEF search_space
  <2> DEFINE ws == job.words
             max == job.max_typo_words
  <2>5. ws \in Seq(Int) /\ max \in 1..2 /\ ts = TypoTasks(ws, max)
        /\ \A i \in DOMAIN ws : Alternatives[ws[i]] \subseteq Wordlist
    BY <1>2, <2>1, <2>2, <2>3
  <2>6. search_space = total_search_space(ws, max)
    BY <2>4
  <2> HIDE DEF ws, max
  <2> QED
    BY <2>5, <2>6, TypoTally
<1>3. CASE job.engine = "extra"
  <2>1. job.words \in Seq(Int)
    BY <1>1, <1>3 DEF IsJob
  <2>2. search_space = Len(job.words)
    BY <1>3 DEF search_space
  <2> DEFINE ws == job.words
  <2>3. ws \in Seq(Int) /\ ts = ExtraTasks(ws) /\ search_space = Len(ws)
    BY <1>3, <2>1, <2>2
  <2> HIDE DEF ws
  <2> QED
    BY <2>3, ExtraTally
<1> QED
  BY <1>2, <1>3

\* Setting a search up starts the count of its trials at none.
LEMMA StartFits ==
  ASSUME IInv, SpaceOK, NEW ts, NEW lim, Start(ts, lim),
         job.engine = "typos" => ts = TypoTasks(job.words, job.max_typo_words),
         job.engine = "extra" => ts = ExtraTasks(job.words)
  PROVE  SpaceOK'
<1>1. /\ pc = "called" /\ pc' = "running" /\ ~Refused /\ tasks' = ts
      /\ job' = job /\ next' = next /\ checked' = checked
  BY DEF Start
<1>2. job \in Jobs /\ next = 1 /\ checked = 0
  BY <1>1 DEF IInv, Typed, NotStarted, SpaceOK
<1>3. ~Refused'
  BY <1>1 DEF Refused
<1>4. ASSUME job.engine \in {"typos", "extra"}
      PROVE  Sums(Tally(ts))[0] = 0
  <2>1. Len(ts) \in Nat /\ Tally(ts) \in [1..Len(ts) -> Nat]
    BY <1>1, <1>2, <1>4, AllTallied
  <2> QED
    BY <2>1, SumsType
<1>5. next' - 1 = 0 /\ checked' = 0
  BY <1>1, <1>2
<1> QED
  BY <1>1, <1>3, <1>4, <1>5 DEF SpaceOK

\* Running a task adds the trials of that task.
LEMMA RunFits ==
  ASSUME IInv, SpaceOK, RunTask, UNCHANGED <<job, tasks, limit>>, pc' # "called"
  PROVE  SpaceOK'
<1>1. /\ pc = "running" /\ next <= Len(tasks) /\ next' = next + 1
      /\ checked' = checked + Cardinality(tasks[next])
      /\ job' = job /\ tasks' = tasks
  BY DEF RunTask
<1>2. /\ job \in Jobs /\ Len(tasks) \in Nat /\ next \in 1..Len(tasks)
      /\ next' - 1 = next
  BY <1>1 DEF IInv, Typed
<1>3. /\ ~Refused
      /\ job.engine = "typos" => tasks = TypoTasks(job.words, job.max_typo_words)
      /\ job.engine = "extra" => tasks = ExtraTasks(job.words)
      /\ job.engine \in {"typos", "extra"} => checked = Sums(Tally(tasks))[next - 1]
  BY <1>1 DEF SpaceOK
<1>4. ASSUME job.engine \in {"typos", "extra"}
      PROVE  checked' = Sums(Tally(tasks))[next]
  <2> DEFINE c == Tally(tasks)
             N == Len(tasks)
  <2>1. c \in [1..N -> Nat]
    BY <1>2, <1>3, <1>4, AllTallied
  <2>2. c[next] = Cardinality(tasks[next])
    <3>1. next \in DOMAIN c
      BY <1>2, <2>1
    <3> QED
      BY <3>1 DEF Tally
  <2>3. Sums(c)[next] = Sums(c)[next - 1] + c[next]
    <3> HIDE DEF c
    <3> QED
      BY <1>2, <2>1, SumsType
  <2> QED
    BY <1>1, <1>3, <1>4, <2>2, <2>3
<1>5. ~Refused'
  BY <1>1, <1>3 DEF Refused
<1>6. /\ job'.engine = "typos" => tasks' = TypoTasks(job'.words, job'.max_typo_words)
      /\ job'.engine = "extra" => tasks' = ExtraTasks(job'.words)
  BY <1>1, <1>3
<1>7. job'.engine \in {"typos", "extra"} => checked' = Sums(Tally(tasks'))[next' - 1]
  BY <1>1, <1>2, <1>4
<1> QED
  BY <1>5, <1>6, <1>7 DEF SpaceOK

\* Every step keeps the count of the trials.
LEMMA NextFits ==
  ASSUME IInv, SpaceOK, [Next]_vars
  PROVE  SpaceOK'
<1>1. ASSUME UNCHANGED <<job, tasks, next, checked>>,
             \/ pc' = "raised" \/ pc' = pc
             \/ pc = "running" /\ pc' \in {"aborted", "returned"}
      PROVE  SpaceOK'
  BY <1>1 DEF SpaceOK, Refused
<1>2. CASE RaiseValueError \/ TaskRaises \/ Return \/ UNCHANGED vars
  BY <1>1, <1>2 DEF RaiseValueError, TaskRaises, Return, vars
<1>3. CASE StartAsIs
  BY <1>3, StartFits DEF StartAsIs
<1>4. CASE StartMissing
  BY <1>4, StartFits DEF StartMissing
<1>5. CASE StartOrder
  BY <1>5, StartFits DEF StartOrder
<1>6. CASE StartTypos
  BY <1>6, StartFits DEF StartTypos
<1>7. CASE StartExtra
  BY <1>7, StartFits DEF StartExtra
<1>8. CASE Turn \/ CallbackRaises
  <2>1. RunTask /\ UNCHANGED <<job, tasks, limit>> /\ pc' # "called"
    BY <1>8 DEF Turn, CallbackRaises, RunTask
  <2> QED
    BY <2>1, RunFits
<1> QED
  BY <1>2, <1>3, <1>4, <1>5, <1>6, <1>7, <1>8 DEF Next

\* What a search returns is within the search space, and all of it when the
\* search was not truncated.
LEMMA ReturnFits ==
  ASSUME IInv, CountOK, SpaceOK, pc = "returned"
  PROVE  checked <= search_space /\ (~truncated => checked = search_space)
<1>1. /\ job \in Jobs /\ Len(tasks) \in Nat /\ next \in 1..(Len(tasks) + 1)
      /\ ~truncated => next > Len(tasks)
  BY DEF IInv, Typed, EndsWell
<1>2. IsJob(job) /\ ~Refused
  BY <1>1, ConstantsAssumption DEF SpaceOK
<1>3. next - 1 \in 0..Len(tasks) /\ (~truncated => next - 1 = Len(tasks))
  BY <1>1
<1>4. CASE job.engine \in {"missing", "order"}
  <2>1. Cardinality(Asked) = search_space
    <3>1. CASE job.engine = "missing"
      <4>1. IsPhrase(job.phrase, {"word", "unknown", "pattern"})
        BY <1>2, <3>1 DEF IsJob
      <4>2. Asked = Fillings(job.phrase) /\ search_space = space(job.phrase)
        BY <3>1 DEF Asked, AskedBy, search_space
      <4> QED
        BY <4>1, <4>2, SpaceCount
    <3>2. CASE job.engine = "order"
      <4>1. job.pool \in Seq(Int) /\ IsPhrase(job.phrase, {"word", "unknown"})
        BY <1>2, <3>2 DEF IsJob
      <4>2. /\ Asked = Arrangements(job.phrase, job.pool)
            /\ search_space = total_permutations(job.pool)
        BY <3>2 DEF Asked, AskedBy, search_space
      <4>3. ~OrderRefused(job.phrase, job.pool)
        BY <1>2, <3>2 DEF Refused
      <4>4. Len(job.pool) \in Nat /\ job.pool \in [1..Len(job.pool) -> Int]
        BY <4>1
      <4> QED
        BY <4>1, <4>2, <4>3, <4>4, ArrangementsCount
    <3> QED
      BY <1>4, <3>1, <3>2
  <2>2. IsFiniteSet(Asked) /\ Divides(tasks, Asked)
    BY <1>1, AskedFinite DEF IInv, TasksCover, Asked
  <2>3. Tried \subseteq Asked /\ (~truncated => Tried = Asked)
    <3>1. \A k \in 1..(next - 1) : k \in 1..Len(tasks)
      BY <1>1
    <3>2. ~truncated => 1..(next - 1) = 1..Len(tasks)
      BY <1>3
    <3> QED
      BY <2>2, <3>1, <3>2 DEF Divides, Tried
  <2>4. Cardinality(Tried) <= Cardinality(Asked)
    BY <2>2, <2>3, FS_Subset
  <2>5. checked = Cardinality(Tried)
    BY <1>4 DEF CountOK
  <2> QED
    BY <2>1, <2>3, <2>4, <2>5
<1>5. CASE job.engine \in {"typos", "extra"}
  <2> DEFINE c == Tally(tasks)
             N == Len(tasks)
  <2>1. /\ job.engine = "typos" => tasks = TypoTasks(job.words, job.max_typo_words)
        /\ job.engine = "extra" => tasks = ExtraTasks(job.words)
        /\ checked = Sums(c)[next - 1]
    BY <1>5 DEF SpaceOK
  <2>2. c \in [1..N -> Nat] /\ Sums(c)[N] = search_space
    BY <1>1, <1>2, <1>5, <2>1, AllTallied
  <2> HIDE DEF c, N
  <2>3. Sums(c)[next - 1] <= Sums(c)[N]
    <3> DEFINE i == next - 1
    <3>1. i \in 0..N /\ N \in Nat
      BY <1>1, <1>3 DEF N
    <3> HIDE DEF i
    <3>2. Sums(c)[i] <= Sums(c)[N]
      BY <2>2, <3>1, SumsGrow
    <3> QED
      BY <3>2 DEF i
  <2>4. ~truncated => next - 1 = N
    BY <1>3 DEF N
  <2> QED
    BY <2>1, <2>2, <2>3, <2>4
<1> QED
  BY <1>2, <1>4, <1>5 DEF IsJob

\* The search space recovery_utils.py shows before a search, a product for
\* missing words and typos, a factorial with a division for each word for an
\* order, is what a complete search counts, and no search counts more.
THEOREM SeedSpaceExact == Spec => []SpaceExact
<1>1. Init => SpaceOK
  BY DEF Init, SpaceOK
<1>2. IInv /\ SpaceOK /\ [Next]_vars => SpaceOK'
  BY NextFits
<1>3. IInv /\ CountOK /\ SpaceOK /\ CountsExact => SpaceExact
  BY ReturnFits DEF SpaceExact
<1>4. Init => CountOK
  BY InitCounts
<1>5. IInv /\ CountOK /\ [Next]_vars => CountOK'
  BY NextCounts
<1> QED
  BY <1>1, <1>2, <1>3, <1>4, <1>5, SeedInvariant, SeedCountsExactly, PTL DEF Spec

-----------------------------------------------------------------------------
(* The mnemonic searches implement Search *)

\* The collection as Search sees it: a mnemonic asked about, under the
\* filter of the job.
Places == [f \in Asked |-> <<f, job.target>>]

\* What Search finds good among mnemonics asked about is what the job accepts.
LEMMA GoodJudged ==
  ASSUME job.target \in BOOLEAN, NEW S, S \subseteq Asked
  PROVE  Abstract!GoodAt(Places, S) = Judged(S \cap Accepted, job.target)
<1> DEFINE t == job.target
<1>1. {Places[f] : f \in S} = {<<f, t>> : f \in S}
  BY DEF Places
<1>2. \A f : <<f, t>> \in AcceptedUnder <=> f \in Accepted
  <2>1. CASE t = TRUE
    BY <2>1 DEF AcceptedUnder, Judged, Accepted
  <2>2. CASE t = FALSE
    BY <2>2 DEF AcceptedUnder, Judged, Accepted
  <2> QED
    BY <2>1, <2>2
<1> HIDE DEF t
<1>3. {Places[f] : f \in S} \cap AcceptedUnder = {<<f, t>> : f \in S \cap Accepted}
  BY <1>1, <1>2
<1> QED
  BY <1>3 DEF Abstract!GoodAt, Judged, t

\* A task run examines the mnemonics of it that were not examined before.
LEMMA RunExamines ==
  ASSUME IInv, RunTask,
         pc' \in {"running", "aborted"}, UNCHANGED <<job, tasks, limit>>
  PROVE  LET S == tasks[next] \ Tried
             todo == Asked \ Tried
             all == Abstract!GoodAt(Places, S)
             kept == Judged(candidates' \ candidates, job.target)
         IN  /\ S \subseteq todo
             /\ Asked' \ Tried' = todo \ S
             /\ kept \subseteq all
             /\ ~truncated' => kept = all
             /\ Judged(candidates', job.target)
                   = Judged(candidates, job.target) \cup kept
<1> DEFINE S == tasks[next] \ Tried
           H == candidates' \ candidates
<1>1. /\ pc = "running" /\ truncated = FALSE /\ next \in 1..Len(tasks) /\ next' = next + 1
      /\ tasks' = tasks /\ job' = job /\ candidates \subseteq candidates'
  BY DEF RunTask, IInv, Typed
<1>2. Asked' = Asked /\ Accepted' = Accepted
  BY <1>1 DEF Asked, Accepted
<1>3. Tried' = Tried \cup tasks[next]
  <2>1. 1..(next' - 1) = (1..(next - 1)) \cup {next}
    BY <1>1
  <2> QED
    BY <1>1, <2>1 DEF Tried
<1>4. tasks[next] \subseteq Asked
  <2>1. Divides(tasks, Asked)
    BY <1>1 DEF IInv, TasksCover
  <2> QED
    BY <1>1, <2>1 DEF Divides
<1>5. candidates = Tried \cap Accepted
  BY <1>1 DEF IInv, KeptSoFar
<1>6. KeptSoFar'
  BY RunKeeps DEF IInv
<1>7. S \subseteq Asked \ Tried /\ S \subseteq Asked
  BY <1>4
<1>8. Asked' \ Tried' = (Asked \ Tried) \ S
  BY <1>2, <1>3, <1>4
<1>9. H \subseteq S \cap Accepted /\ (~truncated' => H = S \cap Accepted)
  BY <1>1, <1>2, <1>3, <1>5, <1>6 DEF KeptSoFar
<1>10. Abstract!GoodAt(Places, S) = Judged(S \cap Accepted, job.target)
  <2>1. job.target \in BOOLEAN
    BY ConstantsAssumption DEF IInv, Typed, IsJob
  <2> HIDE DEF S
  <2> QED
    BY <1>7, <2>1, GoodJudged
<1>11. \A X, Y : X \subseteq Y => Judged(X, job.target) \subseteq Judged(Y, job.target)
  BY DEF Judged
<1>12. Judged(candidates', job.target)
          = Judged(candidates, job.target) \cup Judged(H, job.target)
  BY <1>1 DEF Judged
<1> HIDE DEF S, H
<1> QED
  BY <1>7, <1>8, <1>9, <1>10, <1>11, <1>12 DEF S, H

\* A call is an initial state of Search.
LEMMA InitImplements ==
  ASSUME Init
  PROVE  Abstract!Init
<1>1. /\ job \in Jobs /\ pc = "called" /\ next = 1 /\ candidates = {} /\ truncated = FALSE
  BY DEF Init
<1>2. Tried = {}
  BY <1>1 DEF Tried
<1>3. Places \in Collections
  BY <1>1 DEF Places, Collections, Asked
<1>4. Outcome = "running"
  BY <1>1 DEF Outcome
<1>5. Judged(candidates, job.target) = {}
  BY <1>1 DEF Judged
<1>6. DOMAIN Places = Asked \ Tried
  BY <1>2 DEF Places
<1> QED
  BY <1>3, <1>4, <1>5, <1>6 DEF Abstract!Init, Places

\* Every step is a step of Search or a stutter.
LEMMA NextImplements ==
  ASSUME IInv, [Next]_(vars)
  PROVE  [Abstract!Next]_(Abstract!vars)
<1> DEFINE todo == Asked \ Tried
           found == Judged(candidates, job.target)
           same == /\ Places' = Places /\ todo' = todo /\ found' = found
<1>1. pc \in {"called", "raised", "running", "aborted", "returned"} /\ truncated \in BOOLEAN
  BY DEF IInv, Typed
<1>2. UNCHANGED <<job, next, tasks, candidates>> => same
  BY DEF Places, Asked, Tried, Judged
<1>3. CASE RaiseValueError
  <2>1. /\ pc = "called" /\ pc' = "raised" /\ UNCHANGED <<job, next, tasks, candidates, truncated>>
    BY <1>3 DEF RaiseValueError
  <2>2. Outcome = "running" /\ Outcome' = "refused"
    BY <2>1 DEF Outcome, IInv, NotStarted
  <2>3. todo = DOMAIN Places /\ found = {}
    BY <2>1 DEF IInv, NotStarted, Tried, Judged, Places
  <2>4. same
    BY <1>2, <2>1
  <2> QED
    BY <2>2, <2>3, <2>4
    DEF Abstract!Next, Abstract!Refuse, Places
<1>4. ASSUME NEW ts, NEW lim, Start(ts, lim)
      PROVE  UNCHANGED Abstract!vars
  <2>1. /\ pc = "called" /\ pc' = "running" /\ next' = next /\ job' = job
        /\ candidates' = candidates /\ truncated' = truncated
    BY <1>4 DEF Start
  <2>2. next = 1 /\ truncated = FALSE
    BY <1>1, <2>1 DEF IInv, NotStarted
  <2>3. Outcome = "running" /\ Outcome' = "running"
    BY <2>1, <2>2 DEF Outcome
  <2>4. Tried = {} /\ Tried' = {} /\ Asked' = Asked
    BY <2>1, <2>2 DEF Tried, Asked
  <2>5. found' = found /\ Places' = Places
    BY <2>1, <2>4 DEF Judged, Places
  <2> QED
    BY <2>3, <2>4, <2>5 DEF Abstract!vars, Places
<1>5. CASE StartAsIs \/ StartMissing \/ StartOrder
           \/ StartTypos \/ StartExtra
  BY <1>4, <1>5 DEF StartAsIs, StartMissing, StartOrder,
     StartTypos, StartExtra
<1>6. CASE Turn
  <2>1. /\ RunTask /\ UNCHANGED <<job, tasks, limit>> /\ pc = "running" /\ pc' = "running"
        /\ truncated = FALSE
    BY <1>1, <1>6 DEF Turn, RunTask
  <2> DEFINE S == tasks[next] \ Tried
             kept == Judged(candidates' \ candidates, job.target)
  <2>2. /\ S \subseteq todo /\ todo' = todo \ S
        /\ kept \subseteq Abstract!GoodAt(Places, S)
        /\ ~truncated' => kept = Abstract!GoodAt(Places, S)
        /\ found' = found \cup kept
    BY <2>1, RunExamines
  <2>3. Places' = Places
    BY <2>1 DEF Places, Asked
  <2>4. Outcome = "running"
    BY <2>1 DEF Outcome
  <2>5. truncated' \in BOOLEAN /\ (truncated' => candidates' # {})
    BY <2>1, RunKeeps DEF IInv, Typed, EndsWell
  <2>6. CASE truncated' = FALSE
    <3>1. Outcome' = "running"
      BY <2>1, <2>6 DEF Outcome
    <3> HIDE DEF S, kept, todo, found
    <3>2. Abstract!Examine
      BY <2>2, <2>3, <2>4, <2>6, <3>1 DEF Abstract!Examine, todo, found, Places
    <3> QED
      BY <3>2 DEF Abstract!Next
  <2>7. CASE truncated' = TRUE
    <3>1. Outcome' = "stopped"
      BY <2>1, <2>7 DEF Outcome
    <3>2. found' # {}
      BY <2>1, <2>5, <2>7 DEF Judged
    <3> HIDE DEF S, kept, todo, found
    <3>3. Abstract!Stop
      BY <2>2, <2>3, <2>4, <3>1, <3>2 DEF Abstract!Stop, todo, found, Places
    <3> QED
      BY <3>3 DEF Abstract!Next
  <2> QED
    BY <2>5, <2>6, <2>7
<1>7. CASE CallbackRaises
  <2>1. /\ RunTask /\ UNCHANGED <<job, tasks, limit>> /\ pc = "running" /\ pc' = "aborted"
        /\ truncated = FALSE
    BY <1>1, <1>7 DEF CallbackRaises, RunTask
  <2> DEFINE S == tasks[next] \ Tried
             kept == Judged(candidates' \ candidates, job.target)
  <2>2. /\ S \subseteq todo /\ todo' = todo \ S
        /\ kept \subseteq Abstract!GoodAt(Places, S)
        /\ found' = found \cup kept
    BY <2>1, RunExamines
  <2>3. Places' = Places
    BY <2>1 DEF Places, Asked
  <2>4. Outcome = "running" /\ Outcome' = "aborted"
    BY <2>1 DEF Outcome
  <2> HIDE DEF S, kept, todo, found
  <2>5. Abstract!Abort
    BY <2>2, <2>3, <2>4 DEF Abstract!Abort, todo, found, Places
  <2> QED
    BY <2>5 DEF Abstract!Next
<1>8. CASE Return
  <2>1. /\ pc = "running" /\ pc' = "returned" /\ (truncated \/ next > Len(tasks))
        /\ UNCHANGED <<job, next, tasks, candidates, truncated>>
    BY <1>8 DEF Return
  <2>2. same
    BY <1>2, <2>1
  <2>3. CASE truncated = TRUE
    <3>1. Outcome = "stopped" /\ Outcome' = "stopped"
      BY <2>1, <2>3 DEF Outcome
    <3> QED
      BY <2>2, <3>1 DEF Abstract!vars, Places
  <2>4. CASE truncated = FALSE
    <3>1. Outcome = "running" /\ Outcome' = "exhausted"
      BY <2>1, <2>4 DEF Outcome
    <3>2. todo = {}
      <4>1. next > Len(tasks) /\ Divides(tasks, Asked)
        BY <2>1, <2>4 DEF IInv, TasksCover
      <4>2. \A k \in 1..Len(tasks) : k \in 1..(next - 1)
        BY <4>1 DEF IInv, Typed
      <4> QED
        BY <4>1, <4>2 DEF Divides, Tried
    <3> QED
      BY <2>2, <3>1, <3>2 DEF Abstract!Next, Abstract!Exhaust, Places
  <2> QED
    BY <1>1, <2>3, <2>4
<1>9. CASE TaskRaises
  <2>1. /\ pc = "running" /\ pc' = "aborted" /\ truncated = FALSE
        /\ UNCHANGED <<job, next, tasks, candidates>>
    BY <1>1, <1>9 DEF TaskRaises
  <2>2. Outcome = "running" /\ Outcome' = "aborted" /\ same
    BY <1>2, <2>1 DEF Outcome
  <2>3. /\ {} \subseteq todo /\ {} \subseteq Abstract!GoodAt(Places, {})
        /\ todo' = todo \ {} /\ found' = found \cup {}
    BY <2>2
  <2> HIDE DEF todo, found
  <2>4. Abstract!Abort
    BY <2>2, <2>3 DEF Abstract!Abort, todo, found, Places
  <2> QED
    BY <2>4 DEF Abstract!Next
<1>10. CASE UNCHANGED vars
  <2>1. same
    BY <1>2, <1>10 DEF vars
  <2>2. Outcome' = Outcome
    BY <1>10 DEF vars, Outcome
  <2> QED
    BY <2>1, <2>2 DEF Abstract!vars, Places
<1> QED
  BY <1>3, <1>5, <1>6, <1>7, <1>8, <1>9, <1>10 DEF Next

\* Every mnemonic search, its tasks, its limit and its callback included, is
\* a search of the abstract specification.
THEOREM SeedImplements == Spec => ImplementsSearch
<1>1. Init => Abstract!Init
  BY InitImplements
<1>2. IInv /\ [Next]_(vars) => [Abstract!Next]_(Abstract!vars)
  BY NextImplements
<1> QED
  BY <1>1, <1>2, SeedInvariant, PTL DEF Spec, ImplementsSearch, Abstract!Spec
=============================================================================
