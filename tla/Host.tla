-------------------------------- MODULE Host --------------------------------
(***************************************************************************)
(* The desktop application as a whole: the launcher with its server        *)
(* process (Launcher) and the session threads inside that server           *)
(* (Globals).  The threads run while the server serves, and everything     *)
(* they share is gone when it dies.                                        *)
(***************************************************************************)
EXTENDS Launcher, Globals

hvars == <<lvars, gvars>>

HostInit == LauncherInit /\ GlobalsInit

\* A step of the launcher, the server process or the machine; one that ends
\* the server, or leaves it to itself, ends the threads.
ProcessStep ==
    /\ LauncherNext
    /\ IF srv = "serving" /\ srv' # "serving"
       THEN /\ _LAST_CALL_TIME' = GlobalsStart._LAST_CALL_TIME
            /\ _SOUNDEX_INDEX' = GlobalsStart._SOUNDEX_INDEX
            /\ th' = GlobalsStart.th
            /\ requests' = GlobalsStart.requests
            /\ filled' = GlobalsStart.filled
       ELSE UNCHANGED gvars

ThreadStep ==
    /\ srv = "serving"
    /\ GlobalsNext
    /\ UNCHANGED lvars

HostNext == ProcessStep \/ ThreadStep

HostSpec == HostInit /\ [][HostNext]_hvars

\* The launcher's process is scheduled and its waits end at their deadlines,
\* SIGKILL ends a process, the threads of a serving server are scheduled and
\* time passes.  A server may sit on SIGTERM for as long as it likes.
HostFairSpec ==
    /\ HostSpec
    /\ WF_lvars(Main)
    /\ WF_lvars(KillEndsServer)
    /\ WF_gvars(srv = "serving" /\ Tick)
    /\ \A s \in Sessions : WF_gvars(srv = "serving" /\ Thread(s))

-----------------------------------------------------------------------------

HostTypeOK == LauncherTypeOK /\ GlobalsTypeOK

\* The inductive invariant behind NoServerLeft, BurstBounded and
\* SearchComplete: a thread
\* that fills the index has filled the words before pos, one that searches
\* an index not just begun does so after somebody has filled them all.
IndexKept ==
    /\ filled # {} => \A w \in 1..Words : _SOUNDEX_INDEX[w] > 0
    /\ \A s \in Sessions :
          /\ th[s].pc = "fill" => \A w \in 1..(th[s].pos - 1) : _SOUNDEX_INDEX[w] > 0
          /\ th[s].pc = "search" => filled # {} \/ th[s].took = "begun"

\* Of a burst within the last k + 1 ticks: the threads that may put back a
\* time from before it, and those that will take a time before it is over,
\* unless a newer one is stored.
Stale(t, k) == {s \in Sessions : t[s].pc = "store" /\ t[s].age > k}

Armed(t, last, k) ==
    {s \in Sessions :
        \/ t[s].pc = "stamp"
        \/ t[s].pc = "sleep" /\ t[s].left < Gap - k
        \/ t[s].pc \notin {"sleep", "stamp", "store"} /\ last > k}

\* The requests of that burst, with those whose time was taken and that are
\* still to be sent; one of each session may belong to a time from before it.
Pending(t) == {s \in Sessions : t[s].pc \in {"store", "request"}}

Booked(t, f, k) == f[k] + Cardinality(Pending(t)) - Cardinality(Sessions)

\* Twice what n sessions may still take in a burst: one time for each of a
\* armed threads, and n - p + i times when the i-th of p stale threads puts its
\* time back, which arms all that are not stale.
LeftToTake(n, a, p) == 2 * a + p * (2 * n - p + 1)

Within(t, last, c, k) ==
    LET n == Cardinality(Sessions)
    IN  2 * c + LeftToTake(n, Cardinality(Armed(t, last, k)), Cardinality(Stale(t, k)))
           <= n * (n + 1)

BurstKept ==
    \A k \in 0..(Gap - 1) : Within(th, _LAST_CALL_TIME, Booked(th, requests, k), k)

HostTypes ==
    /\ _LAST_CALL_TIME \in Nat
    /\ requests \in [0..(Gap - 1) -> Nat]
    /\ _SOUNDEX_INDEX \in [1..Words -> Nat]
    /\ th \in [Sessions -> Threads]
    /\ filled \subseteq Sessions

HostIInv ==
    /\ PhasesOK /\ HostTypes
    /\ pc = "off" => srv = "none"
    /\ NoServerLeft
    /\ IndexKept
    /\ BurstKept
    /\ SearchComplete

\* Every lookup and every typo search ends, or its server does.
ThreadsEnd == \A s \in Sessions : (th[s].pc # "idle") ~> (th[s].pc = "idle")
=============================================================================
