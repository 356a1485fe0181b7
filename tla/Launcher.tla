------------------------------ MODULE Launcher ------------------------------
(***************************************************************************)
(* launcher.py on POSIX: it starts the Streamlit server as a child, polls  *)
(* its port until something answers or a deadline passes, opens a browser, *)
(* waits for the child, and stops it on the way out: _stop is called by    *)
(* the signal handler, after a missed deadline, and by atexit.             *)
(*                                                                         *)
(* A handler runs between any two steps of the script, also of _stop, and  *)
(* ends in sys.exit, so the call it interrupts is never resumed.           *)
(***************************************************************************)
EXTENDS Naturals

CONSTANTS
    MaxPolls,    \* polls of the port before the deadline
    MaxSignals   \* bound on the signals the user sends to one launcher

ASSUME LauncherAssumption == MaxPolls \in Nat \ {0} /\ MaxSignals \in Nat

VARIABLES
    pc,       \* the launcher, see TypeOK
    polls,    \* polls made by wait_for_server
    stage,    \* whose _stop comes next or is under way: "main" or "atexit"
    signals,  \* signals received
    srv,      \* the server: "none", "starting", "serving" or "dead"
    pending,  \* signals sent to the server: "TERM", that it handles when it
              \* likes (or the terminal's SIGINT), and "KILL", that ends it
    port      \* who listens: "free", "server" or "other"

launcher == <<pc, polls, stage, signals>>
server == <<srv, pending, port>>
lvars == <<launcher, server>>

Alive == srv \in {"starting", "serving"}

Off == pc \in {"off", "ended", "cut off"}

LauncherInit ==
    /\ pc = "off" /\ polls = 0 /\ stage = "main" /\ signals = 0
    /\ srv = "none" /\ pending = {}
    /\ port \in {"free", "other"}

-----------------------------------------------------------------------------
(* main *)

\* A host other than localhost, or no app.py: nothing is started.
Refuse ==
    /\ pc = "off"
    /\ pc' = "ended"
    /\ UNCHANGED <<polls, stage, signals, server>>

\* Popen.  A server that an earlier launcher left behind is another program
\* to this one.
Popen ==
    /\ Off /\ ~(Alive /\ "KILL" \in pending)
    /\ pc' = "spawned" /\ polls' = 0 /\ stage' = "main" /\ signals' = 0
    /\ srv' = "starting" /\ pending' = {}
    /\ port' = IF port = "server" THEN "other" ELSE port

RegisterAtexit ==
    /\ pc = "spawned"
    /\ pc' = "registered"
    /\ UNCHANGED <<polls, stage, signals, server>>

InstallHandlers ==
    /\ pc = "registered"
    /\ pc' = "polling"
    /\ UNCHANGED <<polls, stage, signals, server>>

is_port_ready == port # "free"

\* One round of wait_for_server; whoever answers, the browser is opened and
\* the launcher blocks in proc.wait().
Poll ==
    /\ pc = "polling" /\ polls < MaxPolls
    /\ IF is_port_ready THEN pc' = "blocked" /\ polls' = polls
                        ELSE polls' = polls + 1 /\ pc' = pc
    /\ UNCHANGED <<stage, signals, server>>

\* Mutant: the deadline returns without stopping the server.
Deadline_Returns ==
    /\ pc = "polling" /\ polls = MaxPolls
    /\ pc' = "ended"
    /\ UNCHANGED <<polls, stage, signals, server>>

\* The deadline passes: _stop, and return 1.
Deadline ==
    /\ pc = "polling" /\ polls = MaxPolls
    /\ pc' = "stop"
    /\ UNCHANGED <<polls, stage, signals, server>>

\* proc.wait() returns the server's exit code; atexit follows.
ServerEnded ==
    /\ pc = "blocked" /\ ~Alive
    /\ pc' = "stop" /\ stage' = "atexit"
    /\ UNCHANGED <<polls, signals, server>>

-----------------------------------------------------------------------------
(* _stop *)

\* The call is followed by the one of atexit, and that one by nothing.
AfterStop ==
    /\ pc' = IF stage = "atexit" THEN "ended" ELSE "stop"
    /\ stage' = "atexit"

PollSaysEnded ==
    /\ pc = "stop" /\ ~Alive
    /\ AfterStop
    /\ UNCHANGED <<polls, signals, server>>

\* terminate.  (poll knows nothing of a server that has just ended when the
\* handler has interrupted proc.wait(), which holds the lock on waitpid.)
Terminate ==
    /\ pc = "stop"
    /\ pc' = "grace" /\ pending' = pending \cup {"TERM"}
    /\ UNCHANGED <<polls, stage, signals, srv, port>>

WaitReturns ==
    /\ pc = "grace" /\ ~Alive
    /\ AfterStop
    /\ UNCHANGED <<polls, signals, server>>

\* Mutant: the wait has no timeout.
WaitExpires_NoTimeout ==
    /\ pc = "grace" /\ ~Alive
    /\ pending' = pending \cup {"KILL"}
    /\ AfterStop
    /\ UNCHANGED <<polls, signals, srv, port>>

\* Five seconds have passed (or the lock was never free): kill.
WaitExpires ==
    /\ pc = "grace"
    /\ pending' = pending \cup {"KILL"}
    /\ AfterStop
    /\ UNCHANGED <<polls, signals, srv, port>>

-----------------------------------------------------------------------------
(* Signals *)

Interruptible == {"polling", "blocked", "stop", "grace"}

\* A signal after the handlers are in place.  A Ctrl-C in a terminal reaches
\* the server as well.
HandleSignal ==
    /\ pc \in Interruptible /\ signals < MaxSignals
    /\ pc' = "stop" /\ signals' = signals + 1
    /\ pending' = pending \/ pending' = pending \cup {"TERM"}
    /\ UNCHANGED <<polls, stage, srv, port>>

\* Before that: SIGTERM ends the launcher at once, and so does a
\* KeyboardInterrupt before atexit knows of _stop ...
CutOff ==
    /\ pc \in {"spawned", "registered"} /\ signals < MaxSignals
    /\ pc' = "cut off" /\ signals' = signals + 1
    /\ pending' = pending \/ pending' = pending \cup {"TERM"}
    /\ UNCHANGED <<polls, stage, srv, port>>

\* ... after which a KeyboardInterrupt leaves by way of atexit.
EarlyInterrupt ==
    /\ pc = "registered" /\ signals < MaxSignals
    /\ pc' = "stop" /\ stage' = "atexit" /\ signals' = signals + 1
    /\ pending' = pending \/ pending' = pending \cup {"TERM"}
    /\ UNCHANGED <<polls, srv, port>>

\* The terminal is closed: SIGHUP ends the launcher and the server.
CloseTerminal ==
    /\ ~Off
    /\ pc' = "ended" /\ pending' = pending \cup {"KILL"}
    /\ UNCHANGED <<polls, stage, signals, srv, port>>

-----------------------------------------------------------------------------
(* The server and the other programs of the machine *)

Dies ==
    /\ srv' = "dead"
    /\ port' = IF port = "server" THEN "free" ELSE port

\* Streamlit given a port takes that port or none.
Bind ==
    /\ srv = "starting"
    /\ IF port = "free" THEN srv' = "serving" /\ port' = "server" ELSE Dies
    /\ UNCHANGED <<launcher, pending>>

ServerFails ==
    /\ Alive
    /\ Dies
    /\ UNCHANGED <<launcher, pending>>

TermEndsServer ==
    /\ Alive /\ "TERM" \in pending
    /\ Dies
    /\ UNCHANGED <<launcher, pending>>

KillEndsServer ==
    /\ Alive /\ "KILL" \in pending
    /\ Dies
    /\ UNCHANGED <<launcher, pending>>

OtherProgram ==
    /\ port # "server"
    /\ port' \in {"free", "other"} \ {port}
    /\ UNCHANGED <<launcher, srv, pending>>

-----------------------------------------------------------------------------

Main ==
    \/ RegisterAtexit \/ InstallHandlers
    \/ Poll \/ Deadline \/ ServerEnded
    \/ PollSaysEnded \/ Terminate \/ WaitReturns \/ WaitExpires

LauncherNext ==
    \/ Main
    \/ Refuse \/ Popen
    \/ HandleSignal \/ CutOff \/ EarlyInterrupt \/ CloseTerminal
    \/ Bind \/ ServerFails \/ TermEndsServer \/ KillEndsServer
    \/ OtherProgram


PhasesOK ==
    /\ pc \in {"off", "spawned", "registered", "polling", "blocked", "stop", "grace",
               "ended", "cut off"}
    /\ stage \in {"main", "atexit"}
    /\ srv \in {"none", "starting", "serving", "dead"}
    /\ pending \subseteq {"TERM", "KILL"}
    /\ port \in {"free", "server", "other"}
    /\ port = "server" <=> srv = "serving"

LauncherTypeOK == PhasesOK /\ polls \in 0..MaxPolls /\ signals \in 0..MaxSignals

\* However the launcher ends once its handlers are installed (the server's
\* end, a missed deadline, a signal in the middle of _stop, a closed
\* terminal), it leaves no server behind that is not dead or about to be.
\* (SIGKILL or SIGHUP sent to the launcher alone runs no handler: the server
\* then outlives it, and no such end is among those of the model.)
NoServerLeft == pc = "ended" /\ Alive => "KILL" \in pending

\* A launcher that is to stop, or whose server has ended, ends, and the
\* server with it: no wait in launcher.py is without a deadline that ends it.
LauncherQuits ==
    (pc \in {"stop", "grace"} \/ (pc \in {"polling", "blocked"} /\ ~Alive))
        ~> (pc = "ended" /\ ~Alive)
=============================================================================
