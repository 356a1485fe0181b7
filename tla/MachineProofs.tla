--------------------------- MODULE MachineProofs ----------------------------
(***************************************************************************)
(* Proofs about the application's process (Host) and about the way of its  *)
(* releases (Deployment).                                                  *)
(*                                                                         *)
(* Host: the launcher leaves no server behind, a typo search misses no     *)
(* word and the lookups of racing sessions come in bounded bursts, for     *)
(* every deadline, number of signals, number of sessions and word list.    *)
(*                                                                         *)
(* Deployment: what a release ships, what a client's lab runs and what the *)
(* scripts on the client's machine keep true, for every set of modules and *)
(* every number of edits, failures and archives.                           *)
(***************************************************************************)
EXTENDS Host, Deployment, FiniteSetTheorems, TLAPS

-----------------------------------------------------------------------------
(* The application's process *)

\* The parts of HostIInv about the launcher and its server.
ProcessInv ==
    /\ PhasesOK
    /\ pc = "off" => srv = "none"
    /\ NoServerLeft

\* The parts about the threads.
ThreadInv == HostTypes /\ IndexKept /\ BurstKept /\ SearchComplete

\* No step of the launcher, the server or the machine disturbs ProcessInv.
LEMMA ProcessKept == ProcessInv /\ LauncherNext => ProcessInv'
<1> SUFFICES ASSUME ProcessInv, LauncherNext PROVE ProcessInv'
  OBVIOUS
<1> USE DEF ProcessInv, PhasesOK, NoServerLeft, Alive, launcher, server
<1>1. CASE RegisterAtexit
  BY <1>1 DEF RegisterAtexit
<1>2. CASE InstallHandlers
  BY <1>2 DEF InstallHandlers
<1>3. CASE Poll
  BY <1>3 DEF Poll, is_port_ready
<1>4. CASE Deadline
  BY <1>4 DEF Deadline
<1>5. CASE ServerEnded
  BY <1>5 DEF ServerEnded
<1>6. CASE PollSaysEnded
  BY <1>6 DEF PollSaysEnded, AfterStop
<1>7. CASE Terminate
  BY <1>7 DEF Terminate
<1>8. CASE WaitReturns
  BY <1>8 DEF WaitReturns, AfterStop
<1>9. CASE WaitExpires
  BY <1>9 DEF WaitExpires, AfterStop
<1>10. CASE Refuse
  BY <1>10 DEF Refuse
<1>11. CASE Popen
  BY <1>11 DEF Popen, Off
<1>12. CASE HandleSignal
  BY <1>12 DEF HandleSignal, Interruptible
<1>13. CASE CutOff
  BY <1>13 DEF CutOff
<1>14. CASE EarlyInterrupt
  BY <1>14 DEF EarlyInterrupt
<1>15. CASE CloseTerminal
  BY <1>15 DEF CloseTerminal, Off
<1>16. CASE Bind
  BY <1>16 DEF Bind, Dies
<1>17. CASE ServerFails
  BY <1>17 DEF ServerFails, Dies
<1>18. CASE TermEndsServer
  BY <1>18 DEF TermEndsServer, Dies
<1>19. CASE KillEndsServer
  BY <1>19 DEF KillEndsServer, Dies
<1>20. CASE OtherProgram
  BY <1>20 DEF OtherProgram
<1> QED
  BY <1>1, <1>2, <1>3, <1>4, <1>5, <1>6, <1>7, <1>8, <1>9, <1>10, <1>11, <1>12,
     <1>13, <1>14, <1>15, <1>16, <1>17, <1>18, <1>19, <1>20
     DEF LauncherNext, Main

-----------------------------------------------------------------------------
(* What the steps of a thread make of its record *)

Pcs == {"idle", "sleep", "stamp", "store", "request", "fill", "search", "shown"}

\* A thread that has nothing to do is a thread.
LEMMA IdleThreadTyped == IdleThread \in Threads
<1>1. {} \in SUBSET (1..Words)
  OBVIOUS
<1>2. 1 \in 1..Words
  BY GlobalsAssumption
<1> QED
  BY <1>1, <1>2 DEF Threads, IdleThread

\* A thread that goes on to another line.
LEMMA AtPc ==
    ASSUME NEW t \in Threads, NEW p \in Pcs
    PROVE  [t EXCEPT !.pc = p] \in Threads
  BY GlobalsAssumption DEF Threads, Pcs

\* A thread that falls asleep, and one whose times grow older.
LEMMA AtSleep ==
    ASSUME NEW t \in Threads, NEW n \in Int, NEW a \in Nat
    PROVE  /\ [t EXCEPT !.pc = "sleep", !.left = n] \in Threads
           /\ [t EXCEPT !.left = n, !.age = a] \in Threads
<1>1. [t EXCEPT !.pc = "sleep", !.left = n] \in Threads
  BY GlobalsAssumption DEF Threads
<1>2. [t EXCEPT !.left = n, !.age = a] \in Threads
  BY GlobalsAssumption DEF Threads
<1> QED
  BY <1>1, <1>2

\* A thread that has taken the time.
LEMMA AtStore ==
    ASSUME NEW t \in Threads
    PROVE  [t EXCEPT !.pc = "store", !.age = 0] \in Threads
  BY GlobalsAssumption DEF Threads

\* A thread that fills in one more word.
LEMMA AtNextWord ==
    ASSUME NEW t \in Threads, t.pos # Words
    PROVE  [t EXCEPT !.pos = @ + 1] \in Threads
  BY GlobalsAssumption DEF Threads

\* A thread that takes up an index, and one that has searched it.
LEMMA AtSearch ==
    ASSUME NEW t \in Threads, NEW k \in {"whole", "begun"}
    PROVE  [t EXCEPT !.pc = "search", !.took = k] \in Threads
  BY GlobalsAssumption DEF Threads

\* A thread that has been shown words is a thread.
LEMMA AtShown ==
    ASSUME NEW t \in Threads, NEW c \in SUBSET (1..Words)
    PROVE  [t EXCEPT !.pc = "shown", !.seen = c] \in Threads
  BY GlobalsAssumption DEF Threads

-----------------------------------------------------------------------------
(* The bound on a burst of requests *)

\* A stale thread that puts its time back arms at most those that are not
\* stale, and is the last of the p to be counted.
LEMMA PutBackPays ==
  ASSUME NEW n \in Nat, NEW p \in Nat, NEW a \in Nat, NEW b \in Nat,
         p > 0, b + (p - 1) <= n
  PROVE  LeftToTake(n, b, p - 1) <= LeftToTake(n, a, p)
<1> DEFINE q == p - 1
           x == q * (2 * n - q + 1)
           y == p * (2 * n - p + 1)
<1>1. x + 2 * n - 2 * p + 2 = y
  OBVIOUS
<1>2. x \in Int /\ y \in Int
  OBVIOUS
<1> HIDE DEF x, y
<1>3. 2 * b + x <= 2 * a + y
  BY <1>1, <1>2
<1> QED
  BY <1>3 DEF LeftToTake, x, y

\* A burst that begins is within the bound, whoever is armed and stale.
LEMMA BeginningPays ==
  ASSUME NEW n \in Nat, NEW p \in Nat, NEW a \in Nat, a + p <= n
  PROVE  LeftToTake(n, a, p) <= n * (n + 1)
<1> DEFINE d == n - p
           x == p * (2 * n - p + 1)
           y == n * (n + 1)
           z == d * (d - 1)
<1>1. z >= 0
  <2>1. d \in Nat
    OBVIOUS
  <2> HIDE DEF d
  <2>2. CASE d = 0
    BY <2>2
  <2>3. CASE d >= 1
    BY <2>1, <2>3
  <2> QED
    BY <2>1, <2>2, <2>3
<1>2. x + 2 * d + z = y
  OBVIOUS
<1>3. x \in Int /\ y \in Int /\ z \in Int /\ d \in Int /\ a <= d
  OBVIOUS
<1> HIDE DEF x, y, z, d
<1>4. 2 * a + x <= y
  BY <1>1, <1>2, <1>3
<1> QED
  BY <1>4 DEF LeftToTake, x, y

\* The armed and the stale threads are different threads.
LEMMA ArmedAndStale ==
  ASSUME NEW t, NEW l, NEW k
  PROVE  /\ IsFiniteSet(Armed(t, l, k)) /\ IsFiniteSet(Stale(t, k))
         /\ Cardinality(Sessions) \in Nat
         /\ Cardinality(Armed(t, l, k)) \in Nat
         /\ Cardinality(Stale(t, k)) \in Nat
         /\ Cardinality(Armed(t, l, k)) + Cardinality(Stale(t, k)) <= Cardinality(Sessions)
<1> DEFINE A == Armed(t, l, k)
           P == Stale(t, k)
<1>1. A \subseteq Sessions /\ P \subseteq Sessions /\ A \cap P = {}
  BY Zenon DEF Armed, Stale
<1> HIDE DEF A, P
<1>2. IsFiniteSet(Sessions)
  BY GlobalsAssumption
<1>3. IsFiniteSet(A)
  BY <1>1, <1>2, FS_Subset
<1>4. IsFiniteSet(P)
  BY <1>1, <1>2, FS_Subset
<1>5. Cardinality(A \cup P) = Cardinality(A) + Cardinality(P) - 0
  BY <1>1, <1>3, <1>4, FS_Union, FS_EmptySet
<1>6. Cardinality(A \cup P) <= Cardinality(Sessions)
  BY <1>1, <1>2, FS_Subset
<1>7. Cardinality(Sessions) \in Nat /\ Cardinality(A) \in Nat /\ Cardinality(P) \in Nat
  BY <1>2, <1>3, <1>4, FS_CardinalityType
<1>8. Cardinality(A) + Cardinality(P) <= Cardinality(Sessions)
  BY <1>5, <1>6, <1>7
<1> QED
  BY <1>3, <1>4, <1>7, <1>8 DEF A, P

\* A step that arms no thread, makes none stale or less so and takes no time
\* keeps the bound.
LEMMA NothingArmed ==
  ASSUME NEW t, NEW l, NEW u, NEW m, NEW c \in Int, NEW k,
         Within(t, l, c, k),
         Stale(u, k) = Stale(t, k), Armed(u, m, k) \subseteq Armed(t, l, k)
  PROVE  Within(u, m, c, k)
<1> DEFINE n == Cardinality(Sessions)
           a == Cardinality(Armed(t, l, k))
           b == Cardinality(Armed(u, m, k))
           p == Cardinality(Stale(t, k))
           x == p * (2 * n - p + 1)
           y == n * (n + 1)
<1>1. n \in Nat /\ a \in Nat /\ b \in Nat /\ p \in Nat
  BY ArmedAndStale
<1>2. b <= a
  BY ArmedAndStale, FS_Subset
<1>3. 2 * c + (2 * a + x) <= y
  BY DEF Within, LeftToTake
<1>4. x \in Int /\ y \in Int
  BY <1>1
<1> SUFFICES 2 * c + (2 * b + x) <= y
  BY DEF Within, LeftToTake
<1> HIDE DEF n, a, b, p, x, y
<1> QED
  BY <1>1, <1>2, <1>3, <1>4

\* No thread is armed or stale but the one that takes a step, if it is.
LEMMA OneThread ==
  ASSUME NEW t \in [Sessions -> Threads], NEW s \in Sessions, NEW q, NEW l, NEW k,
         NEW u, u = [t EXCEPT ![s] = q]
  PROVE  /\ \A o \in Sessions \ {s} : o \in Stale(u, k) <=> o \in Stale(t, k)
         /\ \A o \in Sessions \ {s} : o \in Armed(u, l, k) <=> o \in Armed(t, l, k)
         /\ s \in Stale(u, k) <=> q.pc = "store" /\ q.age > k
         /\ s \in Armed(u, l, k) <=>
               \/ q.pc = "stamp"
               \/ q.pc = "sleep" /\ q.left < Gap - k
               \/ q.pc \notin {"sleep", "stamp", "store"} /\ l > k
<1>1. u[s] = q /\ \A o \in Sessions \ {s} : u[o] = t[o]
  OBVIOUS
<1> QED
  BY <1>1 DEF Stale, Armed

\* The pending threads are some of the sessions.
LEMMA PendingSome ==
  ASSUME NEW t
  PROVE  /\ Cardinality(Sessions) \in Nat /\ IsFiniteSet(Pending(t))
         /\ Cardinality(Pending(t)) \in 0..Cardinality(Sessions)
<1>1. Pending(t) \subseteq Sessions
  BY DEF Pending
<1> QED
  BY <1>1, GlobalsAssumption, FS_Subset, FS_CardinalityType

\* Through every step of a thread, and through the passing of time, which
\* moves every burst on by a tick and begins a new one.
LEMMA BurstsKept == HostTypes /\ BurstKept /\ GlobalsNext => BurstKept'
<1> SUFFICES ASSUME HostTypes, BurstKept, GlobalsNext, NEW k \in 0..(Gap - 1)
             PROVE  Within(th', _LAST_CALL_TIME', Booked(th', requests', k), k)
  BY DEF BurstKept
<1> DEFINE l == _LAST_CALL_TIME
           c == Booked(th, requests, k)
           d == Booked(th', requests', k)
           Kept == Within(th', _LAST_CALL_TIME', d, k)
<1>0. /\ Within(th, l, c, k) /\ c \in Int /\ k \in Nat /\ k < Gap
      /\ Gap \in Nat /\ l \in Nat /\ th \in [Sessions -> Threads]
  BY GlobalsAssumption, PendingSome DEF BurstKept, HostTypes, Booked
<1> SUFFICES Kept
  OBVIOUS
<1> HIDE DEF c, d
\* Steps of one thread that is pending before and after, or at neither time.
<1>14. ASSUME NEW s \in Sessions, NEW q, th' = [th EXCEPT ![s] = q], requests' = requests,
              q.pc \in {"store", "request"} <=> th[s].pc \in {"store", "request"}
       PROVE  d = c
  <2>1. th'[s] = q /\ \A o \in Sessions \ {s} : th'[o] = th[o]
    BY <1>0, <1>14
  <2>2. Pending(th') = Pending(th)
    BY <1>14, <2>1 DEF Pending
  <2> QED
    BY <1>14, <2>2 DEF c, d, Booked
\* Steps of one thread that store no time and take none.
<1>1. ASSUME NEW s \in Sessions, NEW q, th' = [th EXCEPT ![s] = q],
             UNCHANGED _LAST_CALL_TIME, d = c,
             th[s].pc # "store", q.pc # "store",
             s \in Armed(th', l, k) => s \in Armed(th, l, k)
      PROVE  Kept
  <2>1. s \notin Stale(th, k) /\ s \notin Stale(th', k)
    BY <1>0, <1>1, OneThread DEF Stale
  <2>2. Stale(th', k) = Stale(th, k)
    BY <1>0, <1>1, <2>1, OneThread DEF Stale
  <2>3. Armed(th', l, k) \subseteq Armed(th, l, k)
    BY <1>0, <1>1, OneThread DEF Armed
  <2> QED
    BY <1>0, <1>1, <2>2, <2>3, NothingArmed
<1>2. ASSUME NEW s \in Sessions, EnterLimit(s) PROVE Kept
  <2> DEFINE q == IF l < Gap THEN [IdleThread EXCEPT !.pc = "sleep", !.left = Gap - l]
                  ELSE [IdleThread EXCEPT !.pc = "stamp"]
  <2>1. th' = [th EXCEPT ![s] = q] /\ UNCHANGED <<_LAST_CALL_TIME, requests>>
    BY <1>2 DEF EnterLimit, Becomes
  <2>2. IF l < Gap THEN q.pc = "sleep" /\ q.left = Gap - l ELSE q.pc = "stamp"
    BY DEF IdleThread
  <2> HIDE DEF q
  <2>3. th[s].pc = "idle"
    BY <1>2 DEF EnterLimit
  <2>4. s \in Armed(th', l, k) => l > k
    <3>1. s \in Armed(th', l, k) =>
             q.pc = "stamp" \/ (q.pc = "sleep" /\ q.left < Gap - k) \/ l > k
      <4>1. th'[s] = q
        BY <1>0, <2>1
      <4> QED
        BY <4>1, Zenon DEF Armed
    <3> QED
      BY <1>0, <2>2, <3>1
  <2>5. s \in Armed(th', l, k) => s \in Armed(th, l, k)
    BY <2>3, <2>4 DEF Armed
  <2>6. q.pc \in {"sleep", "stamp"}
    BY <2>2
  <2>7. d = c
    BY <1>14, <2>1, <2>3, <2>6
  <2> QED
    BY <1>1, <2>1, <2>3, <2>5, <2>6, <2>7
\* Steps between the places where only the last time counts.
<1>3. ASSUME NEW s \in Sessions, NEW q, th' = [th EXCEPT ![s] = q],
             UNCHANGED _LAST_CALL_TIME, d = c,
             th[s].pc \notin {"sleep", "stamp", "store"},
             q.pc \notin {"sleep", "stamp", "store"}
      PROVE  Kept
  <2>1. s \in Armed(th', l, k) => l > k
    <3>1. s \in Armed(th', l, k) => q.pc \in {"sleep", "stamp"} \/ l > k
      <4>1. th'[s] = q
        BY <1>0, <1>3
      <4> QED
        BY <4>1, Zenon DEF Armed
    <3> QED
      BY <1>3, <3>1
  <2>2. s \in Armed(th', l, k) => s \in Armed(th, l, k)
    BY <1>3, <2>1 DEF Armed
  <2> QED
    BY <1>1, <1>3, <2>2
<1>12. ASSUME NEW s \in Sessions, NEW q, th' = [th EXCEPT ![s] = q],
              UNCHANGED <<_LAST_CALL_TIME, requests>>,
              th[s].pc \in {"idle", "fill", "search", "shown"},
              q.pc \in {"idle", "fill", "search", "shown"}
       PROVE  Kept
  <2>1. d = c
    BY <1>12, <1>14
  <2> QED
    BY <1>3, <1>12, <2>1
<1>4. ASSUME NEW s \in Sessions, CheckIndex(s) PROVE Kept
  <2>1. CASE NoIndex
    BY <1>12, <1>4, <2>1 DEF CheckIndex, Becomes, IdleThread
  <2>2. CASE ~NoIndex
    BY <1>12, <1>4, <2>2 DEF CheckIndex, Becomes, IdleThread
  <2> QED
    BY <2>1, <2>2
<1>5. ASSUME NEW s \in Sessions, Wake(s) PROVE Kept
  <2>1. th[s] \in Threads /\ th[s].pc = "sleep" /\ th[s].left = 0
    BY <1>0, <1>5 DEF Wake
  <2>2. [th[s] EXCEPT !.pc = "stamp"].pc = "stamp"
    BY <2>1 DEF Threads
  <2>3. s \in Armed(th, l, k)
    BY <1>0, <2>1 DEF Armed
  <2>4. d = c
    BY <1>5, <1>14, <2>1, <2>2 DEF Wake, Becomes
  <2> QED
    BY <1>1, <1>5, <2>1, <2>2, <2>3, <2>4 DEF Wake, Becomes
<1>6. ASSUME NEW s \in Sessions, TakeTime(s) PROVE Kept
  <2> DEFINE q == [th[s] EXCEPT !.pc = "store", !.age = 0]
             n == Cardinality(Sessions)
             a == Cardinality(Armed(th, l, k))
             p == Cardinality(Stale(th, k))
             x == p * (2 * n - p + 1)
             y == n * (n + 1)
  <2>1. th' = [th EXCEPT ![s] = q] /\ _LAST_CALL_TIME' = l /\ requests' = requests
    BY <1>6 DEF TakeTime, Becomes
  <2>2. q.pc = "store" /\ q.age = 0 /\ th[s].pc = "stamp"
    BY <1>0, <1>6 DEF TakeTime, Threads
  <2> HIDE DEF q
  <2>3. s \notin Stale(th, k) /\ s \notin Stale(th', k)
    BY <1>0, <2>1, <2>2, OneThread DEF Stale
  <2>4. Stale(th', k) = Stale(th, k)
    BY <1>0, <2>1, <2>3, OneThread DEF Stale
  <2>5. s \in Armed(th, l, k) /\ s \notin Armed(th', l, k)
    BY <1>0, <2>1, <2>2, OneThread DEF Armed
  <2>6. Armed(th', l, k) = Armed(th, l, k) \ {s}
    BY <1>0, <2>1, <2>5, OneThread DEF Armed
  <2>7. Cardinality(Armed(th', l, k)) = a - 1
    BY <2>5, <2>6, ArmedAndStale, FS_RemoveElement
  <2>8. n \in Nat /\ a \in Nat /\ p \in Nat
    BY ArmedAndStale
  <2>9. 2 * c + (2 * a + x) <= y
    BY <1>0 DEF Within, LeftToTake
  <2>10. x \in Int /\ y \in Int
    BY <2>8
  <2>11. d = c + 1
    <3>1. th'[s].pc = "store" /\ \A o \in Sessions \ {s} : th'[o] = th[o]
      BY <1>0, <2>1, <2>2
    <3>2. Pending(th') = Pending(th) \cup {s} /\ s \notin Pending(th)
      BY <2>2, <3>1 DEF Pending
    <3>3. Cardinality(Pending(th')) = Cardinality(Pending(th)) + 1
      BY <3>2, PendingSome, FS_AddElement
    <3>4. requests[k] \in Nat /\ Cardinality(Pending(th)) \in Nat /\ Cardinality(Sessions) \in Nat
      BY PendingSome DEF HostTypes
    <3> QED
      BY <2>1, <3>3, <3>4 DEF c, d, Booked
  <2> SUFFICES 2 * (c + 1) + (2 * (a - 1) + x) <= y
    BY <2>1, <2>4, <2>7, <2>11 DEF Within, LeftToTake
  <2> HIDE DEF n, a, p, x, y
  <2> QED
    BY <1>0, <2>8, <2>9, <2>10
<1>7. ASSUME NEW s \in Sessions, StoreTime(s) PROVE Kept
  <2> DEFINE q == [th[s] EXCEPT !.pc = "request"]
             m == th[s].age
  <2>1. th' = [th EXCEPT ![s] = q] /\ _LAST_CALL_TIME' = m /\ requests' = requests
    BY <1>7 DEF StoreTime, Becomes
  <2>2. q.pc = "request" /\ th[s].pc = "store" /\ m \in Nat
    BY <1>0, <1>7 DEF StoreTime, Threads
  <2> HIDE DEF q
  <2>6. d = c
    BY <1>14, <2>1, <2>2
  <2>3. s \notin Stale(th', k)
    <3>1. th'[s].pc = "request"
      BY <1>0, <2>1, <2>2
    <3> QED
      BY <3>1 DEF Stale
  <2>4. CASE m <= k
    <3>1. s \notin Stale(th, k)
      BY <1>0, <2>2, <2>4 DEF Stale
    <3>2. Stale(th', k) = Stale(th, k)
      BY <1>0, <2>1, <2>3, <3>1, OneThread DEF Stale
    <3>3. s \notin Armed(th', m, k)
      <4>1. s \in Armed(th', m, k) => q.pc \in {"sleep", "stamp"} \/ m > k
        <5>1. th'[s] = q
          BY <1>0, <2>1
        <5> QED
          BY <5>1, Zenon DEF Armed
      <4> QED
        BY <1>0, <2>2, <2>4, <4>1
    <3>4. Armed(th', m, k) \subseteq Armed(th, l, k)
      <4>1. ASSUME NEW o \in Armed(th', m, k) PROVE o \in Armed(th, m, k)
        BY <1>0, <2>1, <3>3, OneThread DEF Armed
      <4>2. ~(m > k)
        BY <1>0, <2>2, <2>4
      <4> QED
        BY <4>1, <4>2 DEF Armed
    <3> QED
      BY <1>0, <2>1, <2>6, <3>2, <3>4, NothingArmed
  <2>5. CASE m > k
    <3> DEFINE n == Cardinality(Sessions)
               a == Cardinality(Armed(th, l, k))
               b == Cardinality(Armed(th', m, k))
               p == Cardinality(Stale(th, k))
               y == n * (n + 1)
    <3>1. s \in Stale(th, k)
      BY <2>2, <2>5 DEF Stale
    <3>2. Stale(th', k) = Stale(th, k) \ {s}
      BY <1>0, <2>1, <2>3, OneThread DEF Stale
    <3>3. Cardinality(Stale(th', k)) = p - 1
      BY <3>1, <3>2, ArmedAndStale, FS_RemoveElement
    <3>4. n \in Nat /\ a \in Nat /\ p \in Nat /\ b \in Nat
      BY ArmedAndStale
    <3>5. p > 0
      <4>1. p # 0
        BY <3>1, ArmedAndStale, FS_EmptySet
      <4> QED
        BY <3>4, <4>1
    <3>6. b + (p - 1) <= n
      BY <3>3, ArmedAndStale
    <3>7. 2 * c + LeftToTake(n, a, p) <= y
      BY <1>0 DEF Within
    <3> SUFFICES 2 * c + LeftToTake(n, b, p - 1) <= y
      BY <2>1, <2>6, <3>3 DEF Within
    <3> HIDE DEF n, a, b, p
    <3>8. LeftToTake(n, b, p - 1) <= LeftToTake(n, a, p)
      BY <3>4, <3>5, <3>6, PutBackPays
    <3>9. LeftToTake(n, b, p - 1) \in Int /\ LeftToTake(n, a, p) \in Int /\ y \in Int
      BY <3>4 DEF LeftToTake
    <3> HIDE DEF y
    <3> QED
      BY <1>0, <3>7, <3>8, <3>9
  <2> QED
    BY <1>0, <2>2, <2>4, <2>5
<1>8. ASSUME NEW s \in Sessions, Request(s) PROVE Kept
  <2>1. /\ th[s].pc = "request" /\ th' = [th EXCEPT ![s] = IdleThread]
        /\ requests'[k] = requests[k] + 1 /\ UNCHANGED _LAST_CALL_TIME
    BY <1>8 DEF Request, Becomes
  <2>2. IdleThread.pc = "idle"
    BY DEF IdleThread
  <2>3. d = c
    <3>1. th'[s].pc = "idle" /\ \A o \in Sessions \ {s} : th'[o] = th[o]
      BY <1>0, <2>1, <2>2
    <3>2. Pending(th') = Pending(th) \ {s} /\ s \in Pending(th)
      BY <2>1, <3>1 DEF Pending
    <3>3. Cardinality(Pending(th')) = Cardinality(Pending(th)) - 1
      BY <3>2, PendingSome, FS_RemoveElement
    <3>4. requests[k] \in Nat /\ Cardinality(Pending(th)) \in Nat /\ Cardinality(Sessions) \in Nat
      BY PendingSome DEF HostTypes
    <3> QED
      BY <2>1, <3>3, <3>4 DEF c, d, Booked
  <2> QED
    BY <1>3, <2>1, <2>2, <2>3
<1>13. ASSUME NEW s \in Sessions, Leave(s) PROVE Kept
  BY <1>12, <1>13 DEF Leave, Becomes, IdleThread
<1>9. ASSUME NEW s \in Sessions, FillWord(s) PROVE Kept
  <2> DEFINE q == IF th[s].pos = Words THEN [th[s] EXCEPT !.pc = "search"]
                  ELSE [th[s] EXCEPT !.pos = @ + 1]
  <2>1. th[s].pc = "fill" /\ q.pc \in {"search", "fill"}
    BY <1>0, <1>9 DEF FillWord, Threads
  <2>2. th' = [th EXCEPT ![s] = q] /\ UNCHANGED <<_LAST_CALL_TIME, requests>>
    BY <1>9 DEF FillWord, Becomes
  <2> HIDE DEF q
  <2> QED
    BY <1>12, <2>1, <2>2
<1>10. ASSUME NEW s \in Sessions, Search(s) PROVE Kept
  <2> DEFINE q == [th[s] EXCEPT !.pc = "shown", !.seen = Candidates]
  <2>1. th[s].pc = "search" /\ q.pc = "shown"
    BY <1>0, <1>10 DEF Search, Threads
  <2>2. th' = [th EXCEPT ![s] = q] /\ UNCHANGED <<_LAST_CALL_TIME, requests>>
    BY <1>10 DEF Search, Becomes
  <2> HIDE DEF q
  <2> QED
    BY <1>12, <2>1, <2>2
<1>11. CASE Tick
  <2>1. CASE k = 0
    <3> DEFINE n == Cardinality(Sessions)
               a == Cardinality(Armed(th', l', k))
               p == Cardinality(Stale(th', k))
               y == n * (n + 1)
    <3>1. d \in Int /\ d <= 0
      <4>1. requests'[k] = 0
        BY <1>11, <2>1 DEF Tick
      <4> QED
        BY <4>1, PendingSome DEF d, Booked
    <3>2. n \in Nat /\ a \in Nat /\ p \in Nat /\ a + p <= n
      BY ArmedAndStale
    <3> SUFFICES 2 * d + LeftToTake(n, a, p) <= y
      BY DEF Within
    <3>3. y \in Int
      BY <3>2
    <3> HIDE DEF n, a, p
    <3>4. LeftToTake(n, a, p) <= y /\ LeftToTake(n, a, p) \in Int
      BY <3>2, BeginningPays DEF LeftToTake
    <3> HIDE DEF y
    <3> QED
      BY <3>1, <3>3, <3>4
  <2>2. CASE k # 0
    <3> DEFINE j == k - 1
    <3>1. j \in 0..(Gap - 1) /\ j \in Nat /\ k = j + 1 /\ j + 1 < Gap
      BY <1>0, <2>2
    <3>2. requests'[k] = requests[j]
      BY <1>11, <2>2 DEF Tick
    <3> HIDE DEF j
    <3>3. ASSUME NEW e \in Nat PROVE Older(e) > k <=> e > j
      BY <1>0, <3>1 DEF Older
    <3>4. ASSUME NEW o \in Sessions
          PROVE  /\ th'[o].pc = th[o].pc
                 /\ th[o].pc = "store" => (th'[o].age > k <=> th[o].age > j)
                 /\ th'[o].left < Gap - k <=> th[o].left < Gap - j
      <4> DEFINE w == th[o].left
                 v == IF w = 0 THEN 0 ELSE w - 1
                 e == IF th[o].pc = "store" THEN Older(th[o].age) ELSE 0
      <4>1. th[o] \in Threads /\ w \in Int /\ th[o].age \in Nat
        BY <1>0 DEF Threads
      <4>2. th'[o] = [th[o] EXCEPT !.left = v, !.age = e]
        BY <1>11 DEF Tick
      <4>3. v < Gap - k <=> w < Gap - j
        BY <1>0, <3>1, <4>1
      <4>4. th[o].pc = "store" => (e > k <=> th[o].age > j)
        BY <3>3, <4>1
      <4> HIDE DEF v, e
      <4>5. th'[o].pc = th[o].pc /\ th'[o].left = v /\ th'[o].age = e
        BY <4>1, <4>2 DEF Threads
      <4> QED
        BY <4>3, <4>4, <4>5
    <3>5. Stale(th', k) = Stale(th, j)
      BY <3>4 DEF Stale
    <3>6. l' > k <=> l > j
      BY <1>0, <1>11, <3>3 DEF Tick
    <3>7. Armed(th', l', k) = Armed(th, l, j)
      BY <3>4, <3>6 DEF Armed
    <3>8. Within(th, l, Booked(th, requests, j), j)
      BY <3>1 DEF BurstKept
    <3>9. d = Booked(th, requests, j)
      <4>1. Pending(th') = Pending(th)
        BY <3>4 DEF Pending
      <4> QED
        BY <3>2, <4>1 DEF d, Booked
    <3> QED
      BY <3>5, <3>7, <3>8, <3>9 DEF Within
  <2> QED
    BY <2>1, <2>2
<1> QED
  BY <1>2, <1>4, <1>5, <1>6, <1>7, <1>8, <1>9, <1>10, <1>11, <1>13 DEF GlobalsNext, Thread

\* A server just started: every thread may take one time.
LEMMA FreshWithin ==
  ASSUME NEW k \in 0..(Gap - 1), NEW t, t = [s \in Sessions |-> IdleThread],
         NEW f, f = [a \in 0..(Gap - 1) |-> 0]
  PROVE  Within(t, Gap, Booked(t, f, k), k)
<1> DEFINE c == Booked(t, f, k)
           n == Cardinality(Sessions)
           a == Cardinality(Armed(t, Gap, k))
           p == Cardinality(Stale(t, k))
           y == n * (n + 1)
<1>1. c \in Int /\ c <= 0
  <2>1. f[k] = 0
    OBVIOUS
  <2> QED
    BY <2>1, PendingSome DEF Booked
<1>2. n \in Nat /\ a \in Nat /\ p \in Nat /\ a + p <= n
  BY ArmedAndStale
<1> SUFFICES 2 * c + LeftToTake(n, a, p) <= y
  BY DEF Within
<1>3. y \in Int
  BY <1>2
<1> HIDE DEF n, a, p, c
<1>4. LeftToTake(n, a, p) <= y /\ LeftToTake(n, a, p) \in Int
  BY <1>2, BeginningPays DEF LeftToTake
<1> HIDE DEF y
<1> QED
  BY <1>1, <1>3, <1>4

-----------------------------------------------------------------------------

\* The invariant holds of a launcher not yet started and a fresh process.
LEMMA HostInitInv == HostInit => HostIInv
<1> SUFFICES ASSUME HostInit PROVE HostIInv
  OBVIOUS
<1>1. PhasesOK /\ NoServerLeft /\ (pc = "off" => srv = "none")
  BY DEF HostInit, LauncherInit, PhasesOK, NoServerLeft, Alive
<1>2. HostTypes
  BY GlobalsAssumption, IdleThreadTyped DEF HostInit, GlobalsInit, GlobalsStart, HostTypes
<1>3. IndexKept /\ SearchComplete
  BY DEF HostInit, GlobalsInit, GlobalsStart, IdleThread, IndexKept, SearchComplete
<1>4. BurstKept
  BY FreshWithin DEF HostInit, GlobalsInit, GlobalsStart, BurstKept
<1> QED
  BY <1>1, <1>2, <1>3, <1>4 DEF HostIInv

\* The types, through every step of a thread.
LEMMA TypesKept == HostTypes /\ GlobalsNext => HostTypes'
<1> SUFFICES ASSUME HostTypes, GlobalsNext PROVE HostTypes'
  OBVIOUS
<1> USE GlobalsAssumption DEF HostTypes, Becomes
<1>1. ASSUME NEW s \in Sessions, EnterLimit(s) PROVE HostTypes'
  <2>1. [IdleThread EXCEPT !.pc = "sleep", !.left = Gap - _LAST_CALL_TIME] \in Threads
    <3>1. Gap - _LAST_CALL_TIME \in Int /\ 0 \in Nat
      OBVIOUS
    <3> QED
      BY <3>1, IdleThreadTyped, AtSleep
  <2>2. [IdleThread EXCEPT !.pc = "stamp"] \in Threads
    BY IdleThreadTyped, AtPc DEF Pcs
  <2> QED
    BY <1>1, <2>1, <2>2 DEF EnterLimit
<1>2. ASSUME NEW s \in Sessions, CheckIndex(s) PROVE HostTypes'
  BY <1>2, IdleThreadTyped, AtPc, AtSearch DEF CheckIndex, Pcs
<1>3. ASSUME NEW s \in Sessions, Wake(s) PROVE HostTypes'
  BY <1>3, AtPc DEF Wake, Pcs
<1>4. ASSUME NEW s \in Sessions, TakeTime(s) PROVE HostTypes'
  BY <1>4, AtStore DEF TakeTime
<1>5. ASSUME NEW s \in Sessions, StoreTime(s) PROVE HostTypes'
  <2>1. th[s].age \in Nat
    BY DEF Threads
  <2> QED
    BY <1>5, <2>1, AtPc DEF StoreTime, Pcs
<1>6. ASSUME NEW s \in Sessions, Request(s) \/ Leave(s) PROVE HostTypes'
  <2>1. requests' \in [0..(Gap - 1) -> Nat]
    BY <1>6 DEF Request, Leave
  <2>2. th' \in [Sessions -> Threads]
    BY <1>6, IdleThreadTyped DEF Request, Leave
  <2> QED
    BY <1>6, <2>1, <2>2 DEF Request, Leave
<1>7. ASSUME NEW s \in Sessions, FillWord(s) PROVE HostTypes'
  <2>1. th[s].pos \in 1..Words
    BY GlobalsAssumption DEF Threads
  <2>2. _SOUNDEX_INDEX' \in [1..Words -> Nat]
    BY <1>7, <2>1 DEF FillWord
  <2>3. CASE th[s].pos = Words
    <3>1. [th[s] EXCEPT !.pc = "search"] \in Threads
      BY AtPc DEF Pcs
    <3>2. th' = [th EXCEPT ![s] = [th[s] EXCEPT !.pc = "search"]]
      BY <1>7, <2>3 DEF FillWord
    <3> QED
      BY <1>7, <2>2, <2>3, <3>1, <3>2 DEF FillWord
  <2>4. CASE th[s].pos # Words
    <3>1. [th[s] EXCEPT !.pos = @ + 1] \in Threads
      BY <2>4, AtNextWord
    <3>2. th' = [th EXCEPT ![s] = [th[s] EXCEPT !.pos = @ + 1]]
      BY <1>7, <2>4 DEF FillWord
    <3> QED
      BY <1>7, <2>2, <2>4, <3>1, <3>2 DEF FillWord
  <2> QED
    BY <2>3, <2>4
<1>8. ASSUME NEW s \in Sessions, Search(s) PROVE HostTypes'
  BY <1>8, AtShown DEF Search, Candidates
<1>9. CASE Tick
  <2>1. ASSUME NEW s \in Sessions PROVE th'[s] \in Threads
    <3> DEFINE n == IF th[s].left = 0 THEN 0 ELSE th[s].left - 1
               a == IF th[s].pc = "store" THEN Older(th[s].age) ELSE 0
    <3>1. n \in Int /\ a \in Nat
      BY DEF Threads, Older
    <3>2. th'[s] = [th[s] EXCEPT !.left = n, !.age = a]
      BY <1>9 DEF Tick
    <3> HIDE DEF n, a
    <3>3. th[s] \in Threads
      OBVIOUS
    <3>4. [th[s] EXCEPT !.left = n, !.age = a] \in Threads
      BY <3>1, <3>3, AtSleep
    <3> QED
      BY <3>2, <3>4
  <2>2. th' \in [Sessions -> Threads]
    BY <1>9, <2>1 DEF Tick
  <2>3. _LAST_CALL_TIME' \in Nat
    <3>1. _LAST_CALL_TIME' = Older(_LAST_CALL_TIME)
      BY <1>9 DEF Tick
    <3> QED
      BY <3>1 DEF Older
  <2>4. requests' \in [0..(Gap - 1) -> Nat]
    <3>1. \A c \in 0..(Gap - 1) : c # 0 => c - 1 \in 0..(Gap - 1)
      OBVIOUS
    <3> QED
      BY <1>9, <3>1 DEF Tick
  <2> QED
    BY <1>9, <2>2, <2>3, <2>4 DEF Tick
<1> QED
  BY <1>1, <1>2, <1>3, <1>4, <1>5, <1>6, <1>7, <1>8, <1>9 DEF GlobalsNext, Thread

\* No step of a thread disturbs what is known of the index, or a search that
\* has been shown.
LEMMA ThreadsKept == ThreadInv /\ GlobalsNext => IndexKept' /\ SearchComplete'
<1> SUFFICES ASSUME ThreadInv, GlobalsNext PROVE IndexKept' /\ SearchComplete'
  OBVIOUS
<1> USE GlobalsAssumption DEF ThreadInv, HostTypes, IndexKept, SearchComplete, Becomes
<1>0. ASSUME NEW s \in Sessions, NEW q, q.pc \notin {"fill", "search", "shown"},
             th' = [th EXCEPT ![s] = q], UNCHANGED <<_SOUNDEX_INDEX, filled>>
      PROVE  IndexKept' /\ SearchComplete'
  <2>1. th'[s] = q /\ \A t \in Sessions \ {s} : th'[t] = th[t]
    BY <1>0
  <2>2. IndexKept'
    BY <1>0, <2>1
  <2> QED
    BY <1>0, <2>1, <2>2
<1>1. ASSUME NEW s \in Sessions, EnterLimit(s) PROVE IndexKept' /\ SearchComplete'
  BY <1>1 DEF EnterLimit, IdleThread
<1>2. ASSUME NEW s \in Sessions, CheckIndex(s) PROVE IndexKept' /\ SearchComplete'
  BY <1>2 DEF CheckIndex, IdleThread
<1>3. ASSUME NEW s \in Sessions, Wake(s) \/ TakeTime(s) \/ StoreTime(s)
      PROVE  IndexKept' /\ SearchComplete'
  <2> DEFINE p == [th[s] EXCEPT !.pc = "stamp"]
             q == [th[s] EXCEPT !.pc = "store", !.age = 0]
             r == [th[s] EXCEPT !.pc = "request"]
  <2>1. p.pc = "stamp" /\ q.pc = "store" /\ r.pc = "request"
    BY DEF Threads
  <2>2. /\ \/ th' = [th EXCEPT ![s] = p]
           \/ th' = [th EXCEPT ![s] = q]
           \/ th' = [th EXCEPT ![s] = r]
        /\ UNCHANGED <<_SOUNDEX_INDEX, filled>>
    BY <1>3 DEF Wake, TakeTime, StoreTime
  <2> HIDE DEF p, q, r
  <2>3. CASE th' = [th EXCEPT ![s] = p]
    BY <1>0, <2>1, <2>2, <2>3
  <2>4. CASE th' = [th EXCEPT ![s] = q]
    BY <1>0, <2>1, <2>2, <2>4
  <2>5. CASE th' = [th EXCEPT ![s] = r]
    BY <1>0, <2>1, <2>2, <2>5
  <2> QED
    BY <2>2, <2>3, <2>4, <2>5
<1>4. ASSUME NEW s \in Sessions, Request(s) \/ Leave(s)
      PROVE  IndexKept' /\ SearchComplete'
  <2>1. /\ th' = [th EXCEPT ![s] = IdleThread] /\ IdleThread.pc = "idle"
        /\ UNCHANGED <<_SOUNDEX_INDEX, filled>>
    BY <1>4 DEF Request, Leave, IdleThread
  <2> QED
    BY <2>1
<1>5. ASSUME NEW s \in Sessions, FillWord(s) PROVE IndexKept' /\ SearchComplete'
  <2>1. th[s].pos \in 1..Words
    BY GlobalsAssumption DEF Threads
  <2>2. \A w \in 1..Words : _SOUNDEX_INDEX[w] > 0 => _SOUNDEX_INDEX'[w] > 0
    BY <1>5 DEF FillWord
  <2>3. _SOUNDEX_INDEX'[th[s].pos] > 0
    BY <1>5, <2>1 DEF FillWord
  <2>4. \A w \in 1..(th[s].pos - 1) : _SOUNDEX_INDEX'[w] > 0
    BY <1>5, <2>1, <2>2 DEF FillWord
  <2>5. th[s].pos = Words => \A w \in 1..Words : _SOUNDEX_INDEX'[w] > 0
    BY <2>3, <2>4
  <2>6. (filled # {} => \A w \in 1..Words : _SOUNDEX_INDEX[w] > 0)'
    BY <1>5, <2>2, <2>5 DEF FillWord
  <2>7. ASSUME NEW t \in Sessions, t # s
        PROVE  /\ th'[t] = th[t]
               /\ (th[t].pc = "fill" =>
                      \A w \in 1..(th[t].pos - 1) : _SOUNDEX_INDEX[w] > 0)'
               /\ (th[t].pc = "search" => filled # {} \/ th[t].took = "begun")'
    <3>1. th'[t] = th[t]
      BY <1>5, <2>7 DEF FillWord
    <3>2. th[t].pos \in 1..Words
      BY GlobalsAssumption DEF Threads
    <3>3. filled \subseteq filled'
      BY <1>5 DEF FillWord
    <3>4. (th[t].pc = "fill" => \A w \in 1..(th[t].pos - 1) : _SOUNDEX_INDEX[w] > 0)'
      BY <2>2, <3>1, <3>2
    <3>5. (th[t].pc = "search" => filled # {} \/ th[t].took = "begun")'
      BY <3>1, <3>3
    <3> QED
      BY <3>1, <3>4, <3>5
  <2>7a. ASSUME th'[s].pc # "shown" PROVE SearchComplete'
    BY <2>7, <2>7a
  <2>7b. ASSUME th'[s].pc = "fill" => \A w \in 1..(th'[s].pos - 1) : _SOUNDEX_INDEX'[w] > 0,
                th'[s].pc = "search" => filled' # {}
         PROVE  IndexKept'
    BY <2>6, <2>7, <2>7b
  <2>8. CASE th[s].pos = Words
    <3>1. th'[s] = [th[s] EXCEPT !.pc = "search"] /\ s \in filled'
      BY <1>5, <2>8 DEF FillWord
    <3>2. th'[s].pc = "search"
      BY <3>1 DEF Threads
    <3>3. IndexKept'
      BY <2>7b, <3>1, <3>2
    <3> QED
      BY <2>7a, <3>2, <3>3
  <2>9. CASE th[s].pos # Words
    <3>1. th'[s] = [th[s] EXCEPT !.pos = @ + 1]
      BY <1>5, <2>9 DEF FillWord
    <3>2. th'[s].pc = "fill" /\ th'[s].pos = th[s].pos + 1
      BY <1>5, <3>1 DEF FillWord, Threads
    <3>3. \A w \in 1..(th'[s].pos - 1) : _SOUNDEX_INDEX'[w] > 0
      BY <2>1, <2>3, <2>4, <3>2
    <3>4. IndexKept'
      BY <2>7b, <3>2, <3>3
    <3> QED
      BY <2>7a, <3>2, <3>4
  <2> QED
    BY <2>8, <2>9
<1>6. ASSUME NEW s \in Sessions, Search(s) PROVE IndexKept' /\ SearchComplete'
  <2>1. /\ th[s].pc = "search" /\ UNCHANGED <<_SOUNDEX_INDEX, filled>>
        /\ \A t \in Sessions \ {s} : th'[t] = th[t]
    BY <1>6 DEF Search
  <2>2. /\ th'[s].pc = "shown" /\ th'[s].seen = Candidates
        /\ th'[s].took = th[s].took
    BY <1>6 DEF Search, Threads
  <2>3. IndexKept'
    BY <2>1, <2>2
  <2>4. th[s].took = "whole" => Candidates = 1..Words
    BY <2>1 DEF Candidates
  <2>5. SearchComplete'
    BY <2>1, <2>2, <2>4
  <2> QED
    BY <2>3, <2>5
<1>7. CASE Tick
  <2>1. ASSUME NEW s \in Sessions
        PROVE  /\ th'[s].pc = th[s].pc /\ th'[s].pos = th[s].pos
               /\ th'[s].seen = th[s].seen /\ th'[s].took = th[s].took
    BY <1>7 DEF Tick, Threads
  <2>2. UNCHANGED <<_SOUNDEX_INDEX, filled>>
    BY <1>7 DEF Tick
  <2>3. IndexKept'
    BY <2>1, <2>2
  <2>4. SearchComplete'
    BY <2>1
  <2> QED
    BY <2>3, <2>4
<1> QED
  BY <1>1, <1>2, <1>3, <1>4, <1>5, <1>6, <1>7 DEF GlobalsNext, Thread

\* Every step keeps the invariant; the end of the server is a fresh start.
LEMMA HostNextInv == HostIInv /\ [HostNext]_hvars => HostIInv'
<1> SUFFICES ASSUME HostIInv, [HostNext]_hvars PROVE HostIInv'
  OBVIOUS
<1>1. ProcessInv /\ ThreadInv
  BY DEF HostIInv, ProcessInv, ThreadInv
<1>2. CASE ProcessStep
  <2>1. ProcessInv'
    BY <1>1, <1>2, ProcessKept DEF ProcessStep
  <2>2. ASSUME UNCHANGED gvars PROVE ThreadInv'
    <3>1. HostTypes'
      BY <1>1, <2>2 DEF ThreadInv, HostTypes, gvars
    <3>2. IndexKept'
      BY <1>1, <2>2 DEF ThreadInv, IndexKept, gvars
    <3>3. SearchComplete'
      BY <1>1, <2>2 DEF ThreadInv, SearchComplete, gvars
    <3>4. BurstKept'
      BY <1>1, <2>2 DEF ThreadInv, BurstKept, gvars
    <3> QED
      BY <3>1, <3>2, <3>3, <3>4 DEF ThreadInv
  <2>3. ASSUME ~UNCHANGED gvars PROVE ThreadInv'
    <3>1. /\ _LAST_CALL_TIME' = Gap /\ _SOUNDEX_INDEX' = [w \in 1..Words |-> 0]
          /\ th' = [s \in Sessions |-> IdleThread] /\ filled' = {}
          /\ requests' = [a \in 0..(Gap - 1) |-> 0]
      BY <1>2, <2>3 DEF ProcessStep, GlobalsStart
    <3>2. HostTypes'
      BY <3>1, IdleThreadTyped, GlobalsAssumption DEF HostTypes
    <3>3. IndexKept' /\ SearchComplete'
      BY <3>1 DEF IndexKept, SearchComplete, IdleThread
    <3>4. BurstKept'
      BY <3>1, FreshWithin DEF BurstKept
    <3> QED
      BY <3>2, <3>3, <3>4 DEF ThreadInv
  <2> QED
    BY <2>1, <2>2, <2>3
       DEF HostIInv, ProcessInv, ThreadInv
<1>3. CASE ThreadStep
  <2>1. ThreadInv'
    BY <1>1, <1>3, TypesKept, ThreadsKept, BurstsKept DEF ThreadStep, ThreadInv
  <2>2. ProcessInv'
    BY <1>1, <1>3 DEF ThreadStep, ProcessInv, PhasesOK, NoServerLeft, Alive, lvars,
                      launcher, server
  <2> QED
    BY <2>1, <2>2 DEF HostIInv, ProcessInv, ThreadInv
<1>4. CASE UNCHANGED hvars
  BY <1>4 DEF hvars, lvars, gvars, launcher, server, HostIInv, PhasesOK, HostTypes,
              NoServerLeft, IndexKept, BurstKept, SearchComplete, Alive
<1> QED
  BY <1>2, <1>3, <1>4 DEF HostNext

\* The invariant of the application: its parts are NoServerLeft,
\* SearchComplete, what they need and what BurstBounded needs.
THEOREM HostInvariant == HostSpec => []HostIInv
  BY HostInitInv, HostNextInv, PTL DEF HostSpec

\* However the launcher of launcher.py ends once its handlers are installed,
\* the Streamlit server is dead or has a signal pending that it cannot survive.
THEOREM HostLeavesNoServer == HostSpec => []NoServerLeft
<1>1. HostIInv => NoServerLeft
  BY DEF HostIInv
<1> QED
  BY <1>1, HostInvariant, PTL

\* A typo search that does not come upon an index begun and never finished
\* considers every word of the list, however many threads fill the index of
\* recovery_utils.py at once.
THEOREM HostSearchComplete == HostSpec => []SearchComplete
<1>1. HostIInv => SearchComplete
  BY DEF HostIInv
<1> QED
  BY <1>1, HostInvariant, PTL

\* However the lookups of n sessions race through _rate_limit of
\* live_utils.py, they send at most n (n + 3) / 2 requests within a second.
THEOREM HostBurstBounded == HostSpec => []BurstBounded
<1>1. HostIInv => BurstBounded
  <2> SUFFICES ASSUME HostIInv PROVE BurstBounded
    OBVIOUS
  <2> DEFINE g == Gap - 1
             n == Cardinality(Sessions)
             a == Cardinality(Armed(th, _LAST_CALL_TIME, g))
             p == Cardinality(Stale(th, g))
             x == p * (2 * n - p + 1)
             y == n * (n + 1)
             c == Booked(th, requests, g)
  <2>1. g \in 0..(Gap - 1)
    BY GlobalsAssumption
  <2>2. 2 * c + (2 * a + x) <= y
    BY <2>1 DEF HostIInv, BurstKept, Within, LeftToTake
  <2>3. n \in Nat /\ a \in Nat /\ p \in Nat /\ p <= n
    <3>1. n \in Nat /\ a \in Nat /\ p \in Nat /\ a + p <= n
      BY ArmedAndStale
    <3> HIDE DEF n, a, p
    <3> QED
      BY <3>1
  <2>4. requests[g] \in Nat /\ c \in Int /\ requests[g] <= c + n
    <3>1. requests[g] \in Nat
      BY <2>1 DEF HostIInv, HostTypes
    <3> QED
      BY <3>1, PendingSome DEF Booked
  <2>5. x >= 0 /\ x \in Int /\ y \in Int
    <3> HIDE DEF n, p
    <3> DEFINE z == 2 * n - p + 1
    <3>1. z \in Nat
      BY <2>3
    <3> HIDE DEF z
    <3>2. p * z \in Nat
      BY <2>3, <3>1
    <3> QED
      BY <2>3, <3>2 DEF z
  <2>6. 2 * c <= y
    <3> HIDE DEF g, n, a, p, x, y, c
    <3> QED
      BY <2>2, <2>3, <2>4, <2>5
  <2>7. y + 2 * n = n * (n + 3)
    <3> HIDE DEF n
    <3> QED
      BY <2>3
  <2> SUFFICES 2 * requests[g] <= y + 2 * n
    BY <2>7 DEF BurstBounded
  <2> HIDE DEF g, n, a, p, x, y, c
  <2> QED
    BY <2>3, <2>4, <2>5, <2>6
<1> QED
  BY <1>1, HostInvariant, PTL

-----------------------------------------------------------------------------
(* The developer's machine *)

ReleaseInv == ReleaseTypeOK /\ BuildInv

\* An idle build keeps no promise but those about the archive in dist.
LEMMA IdleKept ==
    ASSUME ListsContent(zip'), ReleaseExact', build' = Idle
    PROVE  BuildInv'
  BY DEF BuildInv, Idle, ListsContent, ReleaseExact

\* The values the builds start from have their types.
LEMMA ConstantsTyped ==
    /\ Nothing \in [Files -> Numbers] /\ NoTree \in [Sources -> Numbers] /\ EmptyZip \in Archives /\ Idle \in Builds
    /\ 0 \in Numbers /\ 1 \in Numbers
  BY ReleaseAssumption DEF Nothing, NoTree, EmptyZip, Idle, Archives, Builds, Manifests, Numbers

\* The invariant of the builds holds at the start.
LEMMA ReleaseInitInv == ReleaseInit => ReleaseInv
<1> SUFFICES ASSUME ReleaseInit PROVE ReleaseInv
  OBVIOUS
<1>1. ReleaseTypeOK
  BY ConstantsTyped, ReleaseAssumption DEF ReleaseInit, ReleaseTypeOK
<1>2. BuildInv
  BY DEF ReleaseInit, BuildInv, Idle, EmptyZip, ListsContent, ReleaseExact, Sound
<1> QED
  BY <1>1, <1>2 DEF ReleaseInv

\* An archive that is left alone keeps its promises.
LEMMA ZipKept ==
    ASSUME BuildInv, zip' = zip, maker' = maker
    PROVE  ListsContent(zip') /\ ReleaseExact'
  BY DEF BuildInv, ListsContent, ReleaseExact, Sound, Verifies

\* Editing a source file keeps it.
LEMMA EditKept ==
    ASSUME ReleaseInv, NEW f \in Sources, Edit(f) PROVE ReleaseInv'
<1> USE DEF ReleaseInv
<1>1. PICK v \in {0, edits + 2} : tree' = [tree EXCEPT ![f] = v]
  BY DEF Edit
<1>2. v \in Numbers /\ edits' \in 0..MaxEdits
  BY ReleaseAssumption DEF Edit, ReleaseTypeOK, Numbers
<1>3. ReleaseTypeOK'
  BY <1>1, <1>2, ConstantsTyped DEF Edit, ReleaseTypeOK, Builds
<1>4. ListsContent(zip') /\ ReleaseExact'
  BY ZipKept DEF Edit
<1>5. BuildInv'
  BY <1>4 DEF Edit, BuildInv, ReleaseTypeOK, Builds, Listed
<1> QED
  BY <1>3, <1>5

\* A fresh copy of the working directory keeps it.
LEMMA FreshCopyKept ==
    ASSUME ReleaseInv, FreshCopy PROVE ReleaseInv'
<1> USE DEF ReleaseInv
<1>1. /\ build.pc = "idle" /\ build' = build /\ zip' = EmptyZip /\ tree' = tree
      /\ compiled' = [e \in Extensions |-> 0] /\ maker' = "none"
      /\ key' \in {key, "none"} /\ buildFaults' = buildFaults
  BY DEF FreshCopy
<1>2. edits' \in 0..MaxEdits
  BY ReleaseAssumption DEF FreshCopy, ReleaseTypeOK
<1>3. ReleaseTypeOK'
  BY <1>1, <1>2, ConstantsTyped DEF ReleaseTypeOK
<1>4. ListsContent(zip') /\ ReleaseExact'
  BY <1>1 DEF ListsContent, ReleaseExact, Sound, EmptyZip
<1>5. BuildInv'
  BY <1>1, <1>4 DEF BuildInv, Copied
<1> QED
  BY <1>3, <1>5

\* Starting a build keeps it.
LEMMA StartKept ==
    ASSUME ReleaseInv, NEW s \in {"release", "package", "compile"}, NEW t \in Tags, Start(s, t)
    PROVE  ReleaseInv'
<1> USE DEF ReleaseInv
<1>1. ReleaseTypeOK'
  BY ConstantsTyped DEF Start, ReleaseTypeOK, Builds, Idle
<1>2. ListsContent(zip') /\ ReleaseExact'
  BY ZipKept DEF Start
<1>3. BuildInv'
  BY <1>2 DEF Start, BuildInv, Idle
<1> QED
  BY <1>1, <1>3

\* Making a key keeps it.
LEMMA GenerateKeysKept ==
    ASSUME ReleaseInv, GenerateKeys PROVE ReleaseInv'
<1> USE DEF ReleaseInv
<1>1. ReleaseTypeOK'
  BY DEF GenerateKeys, ReleaseTypeOK, Builds
<1>2. ListsContent(zip') /\ ReleaseExact'
  BY ZipKept DEF GenerateKeys
<1>3. build.of = NoTree
  BY DEF GenerateKeys, BuildInv, Copied
<1>4. BuildInv'
  BY <1>2, <1>3 DEF GenerateKeys, BuildInv, ReleaseTypeOK, Builds
<1> QED
  BY <1>1, <1>4

\* Every extension has a source and a tag.
LEMMA ExtensionFacts ==
    ASSUME NEW e \in Extensions
    PROVE  e.module \in Security /\ e.module \in Sources /\ e.tag \in Tags /\ Source(e) = e.module
  BY DEF Extensions, Sources, Source

\* Copying the sources keeps it.
LEMMA CopySourcesKept ==
    ASSUME ReleaseInv, CopySources PROVE ReleaseInv'
<1> USE DEF ReleaseInv
<1> DEFINE present == {e \in Extensions : e.tag = build.tag /\ tree[e.module] # 0}
<1>1. ListsContent(zip') /\ ReleaseExact'
  BY ZipKept DEF CopySources
<1>2. CASE present = {}
  BY <1>1, <1>2, IdleKept, ConstantsTyped DEF CopySources, ReleaseTypeOK
<1>3. CASE present # {}
  <2>1. build' = [build EXCEPT !.pc = "copy", !.todo = present, !.of = tree,
                               !.tmp = [e \in Extensions |->
                                          IF e \in present THEN tree[e.module] ELSE 0]]
    BY <1>3 DEF CopySources
  <2> DEFINE tmp == [e \in Extensions |-> IF e \in present THEN tree[e.module] ELSE 0]
  <2>a. /\ tmp \in [Extensions -> Numbers] /\ present \subseteq Extensions
        /\ Extensions \subseteq Files
    <3>1. ASSUME NEW e \in Extensions PROVE tree[e.module] \in Numbers
      BY ExtensionFacts DEF ReleaseTypeOK
    <3> QED
      BY <3>1, ConstantsTyped DEF Files, Modules
  <2>b. \A e \in present : tmp[e] = tree[e.module]
    OBVIOUS
  <2>c. present = Fresh
    BY DEF Fresh
  <2>d. build' = [build EXCEPT !.pc = "copy", !.todo = present, !.of = tree, !.tmp = tmp]
    BY <2>1
  <2> HIDE DEF tmp, present
  <2>2. ReleaseTypeOK'
    BY <2>a, <2>d DEF CopySources, ReleaseTypeOK, Builds
  <2>e. /\ build'.pc = "copy" /\ build'.todo = present /\ build'.of = tree /\ build'.tmp = tmp
        /\ tree' = tree /\ compiled' = compiled
    BY <2>d DEF CopySources, ReleaseTypeOK, Builds
  <2>f. Fresh' = Fresh
    BY <2>d DEF CopySources, Fresh, ReleaseTypeOK, Builds
  <2>3. Copied'
    BY <2>b, <2>c, <2>e, <2>f DEF Copied
  <2>4. Hashed' /\ Zipped'
    BY <2>1 DEF Hashed, Zipped, ReleaseTypeOK, Builds
  <2>5. BuildInv'
    BY <1>1, <2>1, <2>3, <2>4 DEF CopySources, BuildInv, ReleaseTypeOK, Builds
  <2> QED
    BY <2>2, <2>5
<1> QED
  BY <1>2, <1>3

\* Copying an extension out keeps it.
LEMMA CopyOutKept ==
    ASSUME ReleaseInv, NEW c \in Extensions, CopyOut(c) PROVE ReleaseInv'
<1> USE DEF ReleaseInv
<1> DEFINE exts == {d \in Extensions : compiled'[d] # 0}
<1>0. c \in Files /\ exts \subseteq Files /\ Plain \subseteq Files
  BY DEF Files, Modules
<1>1. ListsContent(zip') /\ ReleaseExact'
  BY ZipKept DEF CopyOut
<1>2. /\ compiled' \in [Extensions -> Numbers]
      /\ build.todo \subseteq Files /\ build.pc = "copy" /\ c \in build.todo
      /\ compiled' = [compiled EXCEPT ![c] = build.tmp[c]]
  BY DEF CopyOut, ReleaseTypeOK, Builds
<1>3. CASE build.todo # {c}
  <2>1. build' = [build EXCEPT !.todo = @ \ {c}]
    BY <1>3 DEF CopyOut
  <2>2. ReleaseTypeOK'
    BY <1>2, <2>1 DEF CopyOut, ReleaseTypeOK, Builds
  <2>3. build.of # NoTree => Copied'
    <3>1. /\ Fresh' = Fresh /\ Fresh \subseteq Extensions /\ tree' = tree
          /\ build'.pc = "copy" /\ build'.of = build.of /\ build'.tmp = build.tmp
          /\ build'.todo = build.todo \ {c}
      BY <1>2, <2>1 DEF CopyOut, Fresh, ReleaseTypeOK, Builds
    <3>2. \A d \in Extensions : compiled'[d] = IF d = c THEN build.tmp[c] ELSE compiled[d]
      BY <1>2 DEF ReleaseTypeOK
    <3>3. build.of # NoTree => Copied
      BY DEF BuildInv
    <3> QED
      BY <1>2, <3>1, <3>2, <3>3 DEF Copied
  <2>4. Hashed' /\ Zipped'
    BY <1>2, <2>1 DEF Hashed, Zipped, ReleaseTypeOK, Builds
  <2>5. BuildInv'
    BY <1>1, <1>2, <2>1, <2>3, <2>4 DEF BuildInv, ReleaseTypeOK, Builds
  <2> QED
    BY <2>2, <2>5
<1>4. CASE build.todo = {c} /\ build.script = "release"
  <2>1. build' = [build EXCEPT !.pc = "compile", !.todo = {}, !.script = "package"]
    BY <1>4 DEF CopyOut, AfterCompile
  <2>2. ReleaseTypeOK'
    BY <1>2, <2>1 DEF CopyOut, ReleaseTypeOK, Builds
  <2>3. build.of # NoTree => Copied'
    <3>1. build'.pc = "compile" /\ build'.of = build.of /\ tree' = tree
      BY <2>1 DEF CopyOut, ReleaseTypeOK, Builds
    <3> QED
      BY <3>1 DEF Copied, BuildInv
  <2>4. Hashed' /\ Zipped'
    BY <1>2, <2>1 DEF Hashed, Zipped, ReleaseTypeOK, Builds
  <2>5. BuildInv'
    BY <1>1, <1>2, <2>1, <2>3, <2>4 DEF BuildInv, ReleaseTypeOK, Builds
  <2> QED
    BY <2>2, <2>5
<1>5. CASE build.todo = {c} /\ build.script = "package"
  <2>1. build' = [build EXCEPT !.pc = "hash", !.todo = Plain \cup exts]
    BY <1>5 DEF CopyOut, AfterCompile
  <2>2. ReleaseTypeOK'
    <3>1. build' \in Builds
      BY <1>0, <1>2, <2>1 DEF ReleaseTypeOK, Builds
    <3> QED
      BY <1>2, <3>1 DEF CopyOut, ReleaseTypeOK, Builds
  <2>a. /\ build'.pc = "hash" /\ build'.of = build.of /\ tree' = tree
        /\ build'.tag = build.tag
        /\ \A d \in Extensions : compiled'[d] = IF d = c THEN build.tmp[c] ELSE compiled[d]
    BY <1>2, <2>1 DEF CopyOut, ReleaseTypeOK, Builds
  <2>c. Fresh' = Fresh /\ Fresh \subseteq Extensions
    BY <2>a DEF Fresh
  <2>b. build.of # NoTree => Copied
    BY DEF BuildInv
  <2>3. build.of # NoTree => Copied'
    BY <1>2, <1>5, <2>a, <2>b, <2>c DEF Copied
  <2>4. Listed' = build'.todo
    BY <2>1 DEF Listed, ReleaseTypeOK, Builds
  <2>5. \A f \in Modules : build'.hashes[f] = 0
    BY <1>2, <2>1 DEF BuildInv, ReleaseTypeOK, Builds
  <2>6. Hashed' /\ Zipped'
    BY <2>1, <2>4, <2>5 DEF Hashed, Zipped, ReleaseTypeOK, Builds
  <2>7. BuildInv'
    BY <1>1, <2>1, <2>3, <2>4, <2>6 DEF BuildInv, ReleaseTypeOK, Builds
  <2> QED
    BY <2>2, <2>7
<1>6. CASE build.todo = {c} /\ build.script \notin {"release", "package"}
  <2>1. build' = Idle
    BY <1>6 DEF CopyOut, AfterCompile
  <2> QED
    BY <1>1, <1>2, <2>1, IdleKept, ConstantsTyped DEF CopyOut, ReleaseTypeOK
<1> QED
  BY <1>3, <1>4, <1>5, <1>6

\* Hashing a file keeps it.
LEMMA HashFileKept ==
    ASSUME ReleaseInv, NEW f \in Files, HashFile(f) PROVE ReleaseInv'
<1> USE DEF ReleaseInv
<1> DEFINE hashes == [build.hashes EXCEPT ![f] = Content(f)]
           listed == Plain \cup {Requirements} \cup {e \in Extensions : compiled[e] # 0}
<1>1. /\ build.pc = "hash" /\ f \in build.todo /\ build.todo \subseteq Listed
      /\ f \in Modules /\ Listed \subseteq Modules
      /\ listed = Listed \cup {Requirements} /\ listed \subseteq Files
  BY DEF HashFile, FirstListed, BuildInv, Listed, Modules, Files
<1>2. Content(f) \in Numbers
  BY DEF Content, ReleaseTypeOK, Files, Modules, Sources
<1>3. hashes \in [Modules -> Numbers]
  BY <1>1, <1>2 DEF ReleaseTypeOK, Builds
<1>4. build.of # NoTree =>
        \A g \in Modules : hashes[g] = IF g \in Listed \ (build.todo \ {f}) THEN Content(g) ELSE 0
  BY <1>1 DEF BuildInv, Hashed, ReleaseTypeOK, Builds
<1>5. \A g : Content(g)' = Content(g)
  BY DEF HashFile, Content
<1>6. Listed' = Listed
  BY DEF HashFile, Listed
<1>a. ASSUME build'.pc = "hash" \/ build'.pc = "zip", build'.of = build.of, build'.tag = build.tag,
             build.of # NoTree
      PROVE  Copied'
  <2>1. Fresh' = Fresh
    BY <1>a DEF HashFile, Fresh
  <2> QED
    BY <1>1, <1>a, <2>1 DEF HashFile, BuildInv, Copied
<1>7. CASE key = "none" \/ Content(f) = 0
  <2>1. build' = Idle /\ zip' = zip /\ maker' = maker
    BY <1>7 DEF HashFile
  <2> QED
    BY <2>1, ZipKept, IdleKept, ConstantsTyped DEF HashFile, ReleaseTypeOK
<1>8. CASE ~(key = "none" \/ Content(f) = 0) /\ build.todo # {f}
  <2>1. build' = [build EXCEPT !.todo = @ \ {f}, !.hashes = hashes] /\ zip' = zip /\ maker' = maker
    BY <1>8 DEF HashFile
  <2>2. ReleaseTypeOK'
    BY <1>3, <2>1 DEF HashFile, ReleaseTypeOK, Builds
  <2>3. build.of # NoTree => Copied'
    BY <1>1, <1>a, <2>1 DEF ReleaseTypeOK, Builds
  <2>4. build.of # NoTree => Hashed'
    BY <1>1, <1>4, <1>5, <1>6, <2>1 DEF Hashed, ReleaseTypeOK, Builds
  <2>5. Zipped'
    BY <1>1, <2>1 DEF Zipped, ReleaseTypeOK, Builds
  <2>6. BuildInv'
    BY <1>1, <1>6, <2>1, <2>3, <2>4, <2>5, ZipKept DEF BuildInv, ReleaseTypeOK, Builds
  <2> QED
    BY <2>2, <2>6
<1>9. CASE ~(key = "none" \/ Content(f) = 0) /\ build.todo = {f}
  <2>1. /\ build' = [build EXCEPT !.pc = "zip", !.hashes = hashes, !.todo = listed]
        /\ zip' = EmptyZip /\ maker' = build.tag
    BY <1>9 DEF HashFile
  <2>2. ReleaseTypeOK'
    BY <1>1, <1>3, <2>1, ConstantsTyped DEF HashFile, ReleaseTypeOK, Builds
  <2>3. build.of # NoTree => Copied'
    BY <1>1, <1>a, <2>1 DEF ReleaseTypeOK, Builds
  <2>4. build.of # NoTree => Hashed'
    BY <1>1, <1>4, <1>5, <1>6, <1>9, <2>1 DEF Hashed, ReleaseTypeOK, Builds
  <2>5. Zipped'
    BY <1>1, <1>6, <2>1 DEF Zipped, EmptyZip, Nothing, ReleaseTypeOK, Builds
  <2>6. ListsContent(zip') /\ ReleaseExact'
    BY <2>1 DEF ListsContent, ReleaseExact, Sound, EmptyZip
  <2>7. BuildInv'
    BY <1>1, <1>6, <2>1, <2>3, <2>4, <2>5, <2>6 DEF BuildInv, EmptyZip, ReleaseTypeOK, Builds
  <2> QED
    BY <2>2, <2>7
<1> QED
  BY <1>7, <1>8, <1>9

\* Putting a file in the archive keeps it.
LEMMA ZipFileKept ==
    ASSUME ReleaseInv, NEW f \in Files, ZipFile(f) PROVE ReleaseInv'
<1> USE DEF ReleaseInv
<1>1. build.pc = "zip" /\ f \in build.todo
  BY DEF ZipFile, First
<1>2. Content(f) \in Numbers
  BY DEF Content, ReleaseTypeOK, Files, Modules, Sources
<1>3. /\ zip' = [zip EXCEPT !.files[f] = Content(f)]
      /\ build' = [build EXCEPT !.todo = @ \ {f}]
  BY DEF ZipFile
<1>4. ReleaseTypeOK'
  BY <1>2, <1>3 DEF ZipFile, ReleaseTypeOK, Builds, Archives
<1>5. (\A g : Content(g)' = Content(g)) /\ Listed' = Listed /\ Fresh' = Fresh
  <2>1. build'.tag = build.tag
    BY <1>3 DEF ReleaseTypeOK, Builds
  <2> QED
    BY <2>1 DEF ZipFile, Content, Listed, Fresh
<1>6. f \in Listed \cup {Requirements}
  BY <1>1 DEF BuildInv
<1>7. build.of # NoTree => Copied' /\ Hashed'
  BY <1>1, <1>3, <1>5 DEF ZipFile, BuildInv, Copied, Hashed, ReleaseTypeOK, Builds
<1>8. build.of # NoTree => Zipped'
  BY <1>1, <1>3, <1>5, <1>6 DEF BuildInv, Zipped, ReleaseTypeOK, Builds, Archives
<1>9. zip'.manifest = NoManifest
  BY <1>1, <1>3 DEF BuildInv, ReleaseTypeOK, Archives
<1>10. ListsContent(zip') /\ ReleaseExact'
  BY <1>9 DEF ListsContent, ReleaseExact, Sound
<1>11. BuildInv'
  <2>1. maker' = maker /\ build'.tag = build.tag /\ build'.pc = "zip" /\ build'.of = build.of
    BY <1>1, <1>3 DEF ZipFile, ReleaseTypeOK, Builds
  <2>2. build'.todo \subseteq Listed' \cup {Requirements}
    BY <1>1, <1>3, <1>5 DEF BuildInv, ReleaseTypeOK, Builds
  <2> QED
    BY <1>1, <1>7, <1>8, <1>9, <1>10, <2>1, <2>2 DEF BuildInv
<1> QED
  BY <1>4, <1>11

\* Putting the manifest in the archive, the last step, keeps it.
LEMMA ZipManifestKept ==
    ASSUME ReleaseInv, ZipManifest PROVE ReleaseInv'
<1> USE DEF ReleaseInv
<1> DEFINE manifest == [hashes |-> build.hashes, key |-> key]
<1>1. /\ zip' = [zip EXCEPT !.manifest = manifest, !.readable = "yes", !.of = build.of]
      /\ build' = Idle /\ build.pc = "zip" /\ build.todo = {}
  BY DEF ZipManifest
<1>2. manifest \in Manifests
  BY DEF Manifests, ReleaseTypeOK, Builds
<1>3. ReleaseTypeOK'
  BY <1>1, <1>2, ConstantsTyped DEF ZipManifest, ReleaseTypeOK, Archives, Builds
<1>4. /\ zip'.files = zip.files /\ zip'.manifest.hashes = build.hashes
      /\ zip'.manifest.key = key /\ zip'.readable = "yes" /\ zip'.of = build.of
  BY <1>1 DEF ReleaseTypeOK, Archives
<1>5. ASSUME build.of # NoTree PROVE Copied /\ Hashed /\ Zipped
  BY <1>5 DEF BuildInv
<1>6. ASSUME build.of # NoTree, NEW f \in Modules PROVE build.hashes[f] = zip.files[f]
  BY <1>1, <1>5, <1>6, ReleaseAssumption DEF Hashed, Zipped, Files
<1>7. ListsContent(zip')
  BY <1>4, <1>6 DEF ListsContent
<1>a. maker = build.tag /\ maker' = maker
  BY <1>1 DEF BuildInv, ZipManifest
<1>8. ASSUME build.of # NoTree, NEW f \in Loaded(maker) \cup {Requirements},
             build.of[Source(f)] # 0
      PROVE  zip.files[f] = build.of[Source(f)]
  <2>1. CASE f \in Extensions
    <3>1. f \in Fresh
      BY <1>5, <1>8, <1>a, <2>1, ExtensionFacts, ReleaseAssumption
         DEF Loaded, Fresh, Copied, Modules
    <3>2. compiled[f] = build.of[Source(f)]
      BY <1>1, <1>5, <1>8, <2>1, <3>1, ExtensionFacts DEF Copied
    <3> QED
      BY <1>1, <1>5, <1>8, <2>1, <3>2 DEF Zipped, Listed, Content, Files, Modules
  <2>2. CASE f \notin Extensions
    <3>1. f \in Listed \cup {Requirements} /\ f \in Files /\ Content(f) = build.of[Source(f)]
      BY <1>5, <1>8, <2>2 DEF Loaded, Copied, Listed, Content, Source, Files, Modules
    <3> QED
      BY <1>1, <1>5, <1>8, <3>1 DEF Zipped
  <2> QED
    BY <2>1, <2>2
<1>9. ReleaseExact'
  BY <1>4, <1>6, <1>8, <1>a DEF ReleaseExact, Sound, Verifies
<1> QED
  BY <1>1, <1>3, <1>7, <1>9, IdleKept

\* A build that fails keeps it.
LEMMA BuildFailsKept ==
    ASSUME ReleaseInv, BuildFails PROVE ReleaseInv'
<1> USE DEF ReleaseInv
<1>1. build' = Idle /\ buildFaults' \in 0..MaxFaults
  BY ReleaseAssumption DEF BuildFails, ReleaseTypeOK
<1>2. CASE build.pc = "zip"
  <2>1. PICK r \in {"yes", "no"} : zip' = [zip EXCEPT !.readable = r]
    BY <1>2 DEF BuildFails
  <2>2. zip'.manifest = NoManifest /\ zip' \in Archives
    BY <1>2, <2>1 DEF BuildInv, ReleaseTypeOK, Archives
  <2>3. ListsContent(zip') /\ ReleaseExact'
    BY <2>2 DEF ListsContent, ReleaseExact, Sound
  <2> QED
    BY <1>1, <2>2, <2>3, IdleKept, ConstantsTyped DEF BuildFails, ReleaseTypeOK
<1>3. CASE build.pc # "zip"
  BY <1>1, <1>3, ZipKept, IdleKept, ConstantsTyped DEF BuildFails, ReleaseTypeOK
<1> QED
  BY <1>2, <1>3

\* Every step of the builds keeps it.
LEMMA ReleaseKept == ReleaseInv /\ ReleaseNext => ReleaseInv'
  BY EditKept, FreshCopyKept, StartKept, GenerateKeysKept, CopySourcesKept, CopyOutKept, HashFileKept,
     ZipFileKept, ZipManifestKept, BuildFailsKept DEF ReleaseNext, BuildStep

-----------------------------------------------------------------------------
(* The client's machine *)

ClientInv == InstallationTypeOK /\ JobInv

\* The invariant of the folder holds at the start.
LEMMA ClientInitInv == InstallationInit => ClientInv
<1> SUFFICES ASSUME InstallationInit PROVE ClientInv
  OBVIOUS
<1>1. InstallationTypeOK
  BY ConstantsTyped, ReleaseAssumption
     DEF InstallationInit, InstallationTypeOK, NoJob, Jobs, Manifests
<1>2. JobInv
  BY DEF InstallationInit, JobInv, NoJob, ShortcutBacked, ReportsTruth
<1> QED
  BY <1>1, <1>2 DEF ClientInv

\* One failure more, below the bound, is within the bound.
LEMMA OneMore ==
    \A n \in 0..MaxFaults : n < MaxFaults => n + 1 \in 0..MaxFaults
  BY ReleaseAssumption

\* A script that is not running is a job like the others.
LEMMA JobsTyped == NoJob \in Jobs /\ NoJob.pc = "idle"
  BY DEF NoJob, Jobs

\* No step of a script, of unpacking or of what breaks them disturbs JobInv.
LEMMA ClientKept == ClientInv /\ InstallationNext => ClientInv'
<1> SUFFICES ASSUME ClientInv, InstallationNext PROVE ClientInv'
  OBVIOUS
<1> USE ConstantsTyped, JobsTyped DEF ClientInv, InstallationTypeOK, JobInv, ShortcutBacked, ReportsTruth, Interpreter
<1>1. CASE BeginUnzip
  <2>1. {f \in Files : got.files[f] # 0} \subseteq Files
    OBVIOUS
  <2> QED
    BY <1>1, <2>1 DEF BeginUnzip, NoJob, Jobs
<1>2. ASSUME NEW f \in Files, UnzipFile(f) PROVE ClientInv'
  <2>1. got.files[f] \in Numbers
    BY DEF Archives
  <2>2. folder' \in [files : [Files -> Numbers], manifest : Manifests]
    BY <1>2, <2>1 DEF UnzipFile
  <2>3. job' \in Jobs /\ job'.pc = "unzip" /\ job.pc = "unzip"
    BY <1>2 DEF UnzipFile, Jobs
  <2> QED
    BY <1>2, <2>2, <2>3 DEF UnzipFile
<1>3. CASE UnzipManifest
  <2>1. folder' \in [files : [Files -> Numbers], manifest : Manifests]
    BY <1>3 DEF UnzipManifest, Archives
  <2> QED
    BY <1>3, <2>1 DEF UnzipManifest
<1>4. ASSUME NEW w \in {"skip", "wheels", "net"}, Install(w)
      PROVE  ClientInv'
  <2>1. /\ said' = "nothing" /\ UNCHANGED <<got, folder, venv, deps, shortcut, faults>>
        /\ job'.script = "install" /\ job'.with = w
        /\ job'.pc = IF Interpreter THEN IF w = "skip" THEN "link" ELSE "upgrade" ELSE "venv"
    BY <1>4 DEF Install, AfterVenv, NoJob
  <2>2. job' \in Jobs
    BY <1>4 DEF Install, AfterVenv, NoJob, Jobs
  <2> QED
    BY <2>1, <2>2
<1>5. ASSUME NEW w \in {"skip", "net"}, Update(w)
      PROVE  ClientInv'
  <2>1. said' = "nothing" /\ UNCHANGED <<got, folder, venv, deps, shortcut, faults>>
    BY <1>5 DEF Update
  <2>2. CASE w # "skip" /\ ~Interpreter
    <3>1. job' = NoJob
      BY <1>5, <2>2 DEF Update
    <3> QED
      BY <2>1, <3>1
  <2>3. CASE w = "skip" \/ Interpreter
    <3>1. /\ job'.script = "update" /\ job'.with = w
          /\ job'.pc = IF w = "skip" THEN "link" ELSE "upgrade"
      BY <1>5, <2>3 DEF Update, AfterVenv, NoJob
    <3>2. job' \in Jobs
      BY <1>5, <2>3 DEF Update, AfterVenv, NoJob, Jobs
    <3> QED
      BY <2>1, <2>3, <3>1, <3>2
  <2> QED
    BY <2>2, <2>3
<1>6. ASSUME NEW k \in BOOLEAN, Uninstall(k) PROVE ClientInv'
  BY <1>6 DEF Uninstall, NoJob, Jobs
<1>7. CASE MakeInterpreter
  BY <1>7 DEF MakeInterpreter, Jobs
<1>8. CASE EnsurePip
  BY <1>8 DEF EnsurePip, AfterVenv, Jobs
<1>9. CASE UpgradePip
  BY <1>9 DEF UpgradePip, Stop, Jobs
<1>10. CASE InstallDeps
  <2>1. folder.files[Requirements] \in Numbers
    BY DEF Files
  <2>2. CASE venv # "whole"
    BY <1>10, <2>2 DEF InstallDeps, Stop
  <2>3. CASE venv = "whole"
    <3>1. /\ deps' \in {Torn, folder.files[Requirements]}
          /\ job' = [job EXCEPT !.pc = "link"]
          /\ UNCHANGED <<said, got, folder, venv, shortcut, faults>>
      BY <1>10, <2>3 DEF InstallDeps
    <3>2. job' \in Jobs /\ job'.pc = "link"
      BY <3>1 DEF Jobs
    <3> QED
      BY <1>10, <2>1, <2>3, <3>1, <3>2 DEF InstallDeps
  <2> QED
    BY <2>2, <2>3
<1>11. ASSUME NEW l \in BOOLEAN, CreateShortcut(l) PROVE ClientInv'
  BY <1>11 DEF CreateShortcut
<1>12. CASE RemoveTree
  BY <1>12 DEF RemoveTree
<1>13. CASE PipFails
  BY <1>13, ReleaseAssumption DEF PipFails, Stop
<1>14. CASE Break
  <2>1. /\ UNCHANGED <<got, folder, shortcut>> /\ job' = NoJob /\ said' = "nothing"
        /\ job.pc # "idle" /\ faults < MaxFaults /\ faults' = faults + 1
    BY <1>14 DEF Break, Stop
  <2>a. faults' \in 0..MaxFaults
    BY <2>1, OneMore, ReleaseAssumption
  <2>2. CASE job.pc = "rmtree"
    <3>1. /\ venv' \in {"none", "rest", "python", "whole"} /\ deps' \in Numbers \cup {Torn}
          /\ shortcut # "yes"
      BY <1>14, <2>2 DEF Break
    <3> QED
      BY <2>1, <2>a, <3>1
  <2>3. CASE job.pc # "rmtree"
    BY <1>14, <2>1, <2>a, <2>3 DEF Break
  <2> QED
    BY <2>2, <2>3
<1> QED
  BY <1>1, <1>2, <1>3, <1>4, <1>5, <1>6, <1>7, <1>8, <1>9, <1>10, <1>11, <1>12, <1>13, <1>14
     DEF InstallationNext, JobStep

-----------------------------------------------------------------------------
(* Archives on their way *)

\* The manifest of the folder, and the archive in use, are of those received.
FromArchives ==
    /\ \A i \in 1..Len(sent) : ListsContent(sent[i])
    /\ got # EmptyZip => \E i \in 1..received : got = sent[i]
    /\ folder.manifest # NoManifest => \E i \in 1..received : sent[i].manifest = folder.manifest

\* Then a folder that passes the check holds what one of them lists.
LEMMA NoMixtureFollows ==
    TypeOK /\ FromArchives => NoMixture
<1> SUFFICES ASSUME TypeOK, FromArchives, Passes PROVE NoMixture
  BY DEF NoMixture
<1>1. Verifies(folder.files, folder.manifest)
  BY DEF Passes
<1>2. PICK i \in 1..received : sent[i].manifest = folder.manifest
  BY <1>1 DEF Verifies, FromArchives
<1>3. i \in 1..Len(sent)
  BY DEF TypeOK
<1>4. ASSUME sent[i].of # NoTree, NEW f \in Modules, sent[i].files[f] # 0
      PROVE  folder.files[f] = sent[i].files[f]
  BY <1>1, <1>2, <1>3, <1>4 DEF FromArchives, ListsContent, Verifies
<1>5. ASSUME NEW t, NEW f \in Loaded(t) PROVE f \in Modules
  BY DEF Loaded, Modules
<1> QED
  BY <1>2, <1>4, <1>5 DEF NoMixture, MadeFor

\* Only unpacking changes the manifest, and only Receive the archive in use.
LEMMA ClientKeepsArchives ==
    ASSUME TypeOK, FromArchives, InstallationNext, UNCHANGED dvars
    PROVE  FromArchives'
<1> USE DEF dvars
<1>1. got' = got
  BY DEF InstallationNext, JobStep, BeginUnzip, UnzipFile, UnzipManifest, Install, Update,
         Uninstall, MakeInterpreter, EnsurePip, UpgradePip, InstallDeps, CreateShortcut,
         RemoveTree, PipFails, Break
<1>2. folder'.manifest = folder.manifest
         \/ (got.manifest # NoManifest /\ folder'.manifest = got.manifest)
  <2>1. CASE UnzipManifest
    BY <2>1 DEF UnzipManifest, TypeOK, InstallationTypeOK
  <2>2. ASSUME NEW f \in Files, UnzipFile(f) PROVE folder'.manifest = folder.manifest
    BY <2>2 DEF UnzipFile, TypeOK, InstallationTypeOK
  <2>3. CASE folder' = folder
    BY <2>3
  <2> QED
    BY <2>1, <2>2, <2>3
       DEF InstallationNext, JobStep, BeginUnzip, Install, Update, Uninstall, MakeInterpreter,
           EnsurePip, UpgradePip, InstallDeps, CreateShortcut, RemoveTree, PipFails, Break
<1>3. got.manifest # NoManifest => got # EmptyZip
  BY DEF EmptyZip
<1>4. folder'.manifest # NoManifest => \E i \in 1..received : sent[i].manifest = folder'.manifest
  BY <1>2, <1>3 DEF FromArchives
<1> QED
  BY <1>1, <1>4 DEF FromArchives, ListsContent

\* The invariant of the deployment holds at the start.
LEMMA InitInv == Init => IInv
<1> SUFFICES ASSUME Init PROVE IInv
  OBVIOUS
<1>1. ReleaseInv /\ ClientInv
  BY ReleaseInitInv, ClientInitInv DEF Init
<1>2. TypeOK
  BY <1>1, SentAssumption DEF Init, TypeOK, ReleaseInv, ClientInv
<1>3. FromArchives
  BY DEF Init, InstallationInit, FromArchives
<1> QED
  BY <1>1, <1>2, <1>3, NoMixtureFollows DEF IInv, ReleaseInv, ClientInv, FromArchives

\* Every step of the deployment keeps it.
LEMMA NextInv == IInv /\ [Next]_vars => IInv'
<1> SUFFICES ASSUME IInv, [Next]_vars PROVE IInv'
  OBVIOUS
<1>1. ReleaseInv /\ ClientInv /\ TypeOK /\ FromArchives
  BY DEF IInv, TypeOK, ReleaseInv, ClientInv, FromArchives
<1>2. ASSUME UNCHANGED rvars PROVE ReleaseInv'
  BY <1>1, <1>2 DEF rvars, ReleaseInv, ReleaseTypeOK, BuildInv, Copied, Hashed, Zipped, Listed,
     Content, Fresh, ListsContent, ReleaseExact, Sound, Verifies
<1>3. ASSUME UNCHANGED cvars PROVE ClientInv'
  BY <1>1, <1>3 DEF cvars, ClientInv, InstallationTypeOK, JobInv, ShortcutBacked, ReportsTruth,
     Interpreter
<1>4. ASSUME UNCHANGED <<cvars, dvars>> PROVE FromArchives'
  BY <1>1, <1>4 DEF cvars, dvars, FromArchives, ListsContent
<1>5. ReleaseInv' /\ ClientInv' /\ TypeOK' /\ FromArchives'
  <2>1. CASE DeveloperStep
    BY <1>1, <1>3, <1>4, <2>1, ReleaseKept DEF DeveloperStep, TypeOK, ReleaseInv, ClientInv, dvars
  <2>2. CASE Deliver
    <3>1. UNCHANGED <<rvars, cvars, turn, received>> /\ sent' = Append(sent, zip)
      BY <2>2 DEF Deliver
    <3>2. zip \in Archives /\ ListsContent(zip)
      BY <1>1 DEF ReleaseInv, ReleaseTypeOK, BuildInv
    <3>3. sent \in Seq(Archives) /\ Len(sent) \in Nat /\ received \in 0..Len(sent)
      BY <1>1 DEF TypeOK
    <3>4. /\ sent' \in Seq(Archives) /\ Len(sent') = Len(sent) + 1
          /\ \A i \in 1..Len(sent) : sent'[i] = sent[i]
          /\ sent'[Len(sent) + 1] = zip
      BY <3>1, <3>2, <3>3
    <3>5. Len(sent') <= MaxSent
      BY <2>2, <3>3, <3>4, SentAssumption DEF Deliver
    <3>6. received' \in 0..Len(sent')
      BY <3>1, <3>3, <3>4
    <3>7. ReleaseInv' /\ ClientInv'
      BY <1>2, <1>3, <3>1
    <3>8. TypeOK'
      BY <1>1, <3>1, <3>4, <3>5, <3>6, <3>7 DEF TypeOK, ReleaseInv, ClientInv
    <3>9. ASSUME NEW i \in 1..Len(sent') PROVE ListsContent(sent'[i])
      <4>1. i \in 1..Len(sent) \/ i = Len(sent) + 1
        BY <3>3, <3>4
      <4> QED
        BY <1>1, <3>2, <3>4, <4>1 DEF FromArchives
    <3>10. \A i \in 1..received : sent'[i] = sent[i]
      BY <3>3, <3>4
    <3>11. FromArchives'
      BY <1>1, <3>1, <3>9, <3>10 DEF FromArchives, cvars, ListsContent
    <3> QED
      BY <3>7, <3>8, <3>11
  <2>3. CASE HandOver
    <3>1. /\ tree' = NoTree /\ compiled' = [e \in Extensions |-> 0] /\ key' = "none"
          /\ build' = Idle /\ zip' = EmptyZip /\ maker' = "none" /\ edits' = 0
          /\ buildFaults' = 0 /\ faults' = buildFaults /\ turn' = "client"
          /\ UNCHANGED <<got, folder, venv, deps, shortcut, job, said, sent, received>>
      BY <2>3 DEF HandOver
    <3>2. ReleaseTypeOK'
      BY <3>1, ConstantsTyped, ReleaseAssumption DEF ReleaseTypeOK
    <3>3. ListsContent(zip') /\ ReleaseExact'
      BY <3>1 DEF EmptyZip, ListsContent, ReleaseExact, Sound
    <3>a. ClientInv'
      BY <1>1, <3>1
         DEF ReleaseInv, ReleaseTypeOK, ClientInv, InstallationTypeOK, JobInv, ShortcutBacked,
             ReportsTruth, Interpreter
    <3>4. ReleaseInv' /\ ClientInv'
      BY <3>2, <3>3, <3>a, <3>1, IdleKept DEF ReleaseInv
    <3>5. TypeOK'
      BY <1>1, <3>1, <3>4 DEF TypeOK, ReleaseInv, ClientInv
    <3>6. FromArchives'
      BY <1>1, <3>1 DEF FromArchives, ListsContent
    <3> QED
      BY <3>4, <3>5, <3>6
  <2>4. CASE ClientStep
    <3>1. InstallationNext /\ UNCHANGED rvars /\ UNCHANGED dvars
      BY <2>4 DEF ClientStep
    <3>2. ReleaseInv' /\ ClientInv'
      BY <1>1, <1>2, <3>1, ClientKept
    <3>3. TypeOK'
      BY <1>1, <3>1, <3>2 DEF TypeOK, dvars, ReleaseInv, ClientInv
    <3> QED
      BY <1>1, <3>1, <3>2, <3>3, ClientKeepsArchives
  <2>5. CASE Receive
    <3>1. /\ received < Len(sent) /\ received' = received + 1 /\ got' = sent[received + 1]
          /\ UNCHANGED <<rvars, turn, sent, folder, venv, deps, shortcut, job, said, faults>>
      BY <2>5 DEF Receive
    <3>2. sent \in Seq(Archives) /\ Len(sent) \in Nat /\ received \in 0..Len(sent)
      BY <1>1 DEF TypeOK
    <3>3. received' \in 1..Len(sent) /\ got' = sent[received'] /\ 1..received \subseteq 1..received'
      BY <3>1, <3>2
    <3>4. got' \in Archives
      BY <3>2, <3>3
    <3>5. ClientInv'
      BY <1>1, <3>1, <3>4
         DEF ClientInv, InstallationTypeOK, JobInv, ShortcutBacked, ReportsTruth, Interpreter
    <3>6. ReleaseInv'
      BY <1>2, <3>1
    <3>7. received' \in 0..Len(sent)
      BY <3>2, <3>3
    <3>8. TypeOK'
      BY <1>1, <3>1, <3>5, <3>6, <3>7 DEF TypeOK, ReleaseInv, ClientInv
    <3>9. received' \in 1..received'
      BY <3>2, <3>3
    <3>10. FromArchives'
      BY <1>1, <3>1, <3>3, <3>9 DEF FromArchives, ListsContent
    <3> QED
      BY <3>5, <3>6, <3>8, <3>10
  <2>6. CASE UNCHANGED vars
    <3>1. UNCHANGED rvars /\ UNCHANGED cvars /\ UNCHANGED dvars
      BY <2>6 DEF vars
    <3>2. ReleaseInv' /\ ClientInv' /\ FromArchives'
      BY <1>2, <1>3, <1>4, <3>1
    <3> QED
      BY <1>1, <3>1, <3>2 DEF TypeOK, dvars, ReleaseInv, ClientInv
  <2> QED
    BY <2>1, <2>2, <2>3, <2>4, <2>5, <2>6 DEF Next
<1>6. (TypeOK /\ FromArchives => NoMixture)'
  BY NoMixtureFollows, PTL
<1> QED
  BY <1>5, <1>6 DEF IInv, ReleaseInv, ClientInv, FromArchives

\* The invariant of the whole way of a release, for every set of modules and
\* every number of edits, failures and archives.
THEOREM DeploymentInvariant == Spec => []IInv
<1>1. Init => IInv
  BY InitInv
<1>2. IInv /\ [Next]_vars => IInv'
  BY NextInv
<1> QED
  BY <1>1, <1>2, PTL DEF Spec

\* package.py: a release made of one tree ships that tree and passes its own
\* integrity check.
THEOREM ReleasesExact == Spec => []ReleaseExact
<1>1. IInv => ReleaseExact
  BY DEF IInv, BuildInv
<1> QED
  BY <1>1, DeploymentInvariant, PTL

\* integrity.py: no mixture of archives passes the check of the client.
THEOREM NoMixtureOpens == Spec => []NoMixture
<1>1. IInv => NoMixture
  BY DEF IInv
<1> QED
  BY <1>1, DeploymentInvariant, PTL

\* install.py, update.py and uninstall.py: the desktop entry has its
\* interpreter, and a script that says complete has installed the packages.
THEOREM ScriptsTruthful == Spec => []ScriptsHonest
<1>1. IInv => ScriptsHonest
  BY DEF IInv, JobInv, ScriptsHonest
<1> QED
  BY <1>1, DeploymentInvariant, PTL
=============================================================================
