----------------------------- MODULE Deployment -----------------------------
(***************************************************************************)
(* The way of releases from the developer's machine (Release) to a         *)
(* client's (Installation).  The machines share nothing but the archives,  *)
(* so their steps commute, and the model lets the developer finish before  *)
(* the client begins: the archives wait to be received in their order.     *)
(***************************************************************************)
EXTENDS Installation, Sequences

CONSTANT MaxSent   \* bound on the archives sent

ASSUME SentAssumption == MaxSent \in Nat \ {0}

VARIABLES
    turn,     \* "developer" or "client"
    sent,     \* the archives sent
    received  \* how many of them the client has received

dvars == <<turn, sent, received>>
vars == <<rvars, cvars, dvars>>

Init ==
    /\ ReleaseInit /\ InstallationInit
    /\ turn = "developer" /\ sent = <<>> /\ received = 0

DeveloperStep == turn = "developer" /\ ReleaseNext /\ UNCHANGED <<cvars, dvars>>

\* The developer sends the archive that is in dist, whatever it is, but none
\* twice: the client has it.
Deliver ==
    /\ turn = "developer" /\ Len(sent) < MaxSent
    /\ build.pc = "idle" /\ zip.readable = "yes"
    /\ \A i \in 1..Len(sent) : sent[i] # zip
    /\ sent' = Append(sent, zip)
    /\ UNCHANGED <<rvars, cvars, turn, received>>

\* The client's turn, for whom the developer's files play no part: they are
\* put out of the state.
HandOver ==
    /\ turn = "developer" /\ sent # <<>> /\ build.pc = "idle"
    /\ turn' = "client"
    /\ tree' = NoTree /\ compiled' = [e \in Extensions |-> 0] /\ key' = "none"
    /\ build' = Idle /\ zip' = EmptyZip /\ maker' = "none" /\ edits' = 0 /\ buildFaults' = 0
    /\ faults' = buildFaults
    /\ UNCHANGED <<got, folder, venv, deps, shortcut, job, said, sent, received>>

ClientStep == turn = "client" /\ InstallationNext /\ UNCHANGED <<rvars, dvars>>

Receive ==
    /\ turn = "client" /\ job.pc = "idle" /\ received < Len(sent)
    /\ received' = received + 1
    /\ got' = sent[received + 1]
    /\ UNCHANGED <<rvars, turn, sent, folder, venv, deps, shortcut, job, said, faults>>

Next == DeveloperStep \/ Deliver \/ HandOver \/ ClientStep \/ Receive

Spec == Init /\ [][Next]_vars

\* Nobody is forced to build or to send.  A script that was started is
\* scheduled, and a client keeps trying: unpacks, uninstalls and installs.
FairSpec ==
    /\ Spec
    /\ WF_cvars(turn = "client" /\ JobStep)
    /\ SF_cvars(turn = "client" /\ BeginUnzip)
    /\ SF_cvars(turn = "client" /\ Uninstall(FALSE))
    /\ SF_cvars(turn = "client" /\ Install("net"))

-----------------------------------------------------------------------------

TypeOK ==
    /\ ReleaseTypeOK /\ InstallationTypeOK
    /\ turn \in {"developer", "client"}
    /\ sent \in Seq(Archives) /\ Len(sent) <= MaxSent
    /\ received \in 0..Len(sent)

\* A lab that passes its gate runs the modules of one archive, the one its
\* manifest came with, if nobody edited a file while that archive was made and
\* it has every module for the interpreter at hand: archives unpacked over one
\* another, in parts, in any order and cut short by failed builds then make no
\* mixture that passes.  (An archive that was built under another interpreter
\* only passes beside the older extensions that this one loads: its manifest
\* does not list them, and verify_build_integrity looks at nothing else.)
NoMixture ==
    Passes => \E i \in 1..received :
                /\ sent[i].manifest = folder.manifest
                /\ sent[i].of # NoTree => \A t \in Tags :
                      MadeFor(sent[i].files, t) =>
                          \A f \in Loaded(t) : folder.files[f] = sent[i].files[f]

\* The inductive invariant: the manifest in the folder came with an archive,
\* and every archive of an undisturbed build lists what it holds.
IInv ==
    /\ TypeOK /\ BuildInv /\ JobInv
    /\ \A i \in 1..Len(sent) : ListsContent(sent[i])
    /\ got # EmptyZip => \E i \in 1..received : got = sent[i]
    /\ folder.manifest # NoManifest => \E i \in 1..received : sent[i].manifest = folder.manifest
    /\ NoMixture

\* Once the client has a sound archive with every module for its interpreter
\* and keeps trying, the lab comes up, however the attempts before were broken
\* off: nothing that a broken installation leaves behind survives
\* uninstalling.
LabComesUp ==
    (/\ turn = "client" /\ received = Len(sent) /\ Sound(got)
     /\ MadeFor(got.files, Python) /\ got.files[Requirements] # 0)
        ~> LabUp
=============================================================================
