---------------------------- MODULE Installation ----------------------------
(***************************************************************************)
(* The client's machine: the folder an archive is unpacked in, over what   *)
(* is there, and install.py, update.py and uninstall.py, on Linux.  The    *)
(* user runs one thing at a time; each may be broken off or fail at every  *)
(* step.  Passes says when the folder gets through the gate of app.py, and *)
(* LabUp when launcher.py leads there from the environment the scripts     *)
(* make.                                                                   *)
(***************************************************************************)
EXTENDS Release

CONSTANTS
    Python,  \* the tag of the interpreter the client runs the scripts with
    Torn     \* what a broken rmtree leaves of the installed packages:
             \* pip may take them for installed

ASSUME InstallationAssumption == Python \in Tags

VARIABLES
    got,       \* the archive the client was sent last
    folder,    \* the modules and requirements.txt unpacked, and manifest.json
    venv,      \* "none", "rest" (no interpreter), "python" (no pip), "whole"
    deps,      \* the requirements installed in it: 0, Torn or a content
    shortcut,  \* "no", "yes", or "blind": made by update.py --skip-deps
    job,       \* what runs on the machine, see NoJob
    said,      \* what the last script said: "nothing", "complete", or
               \* "complete, pip not run"
    faults

cvars == <<got, folder, venv, deps, shortcut, job, said, faults>>

\* with: "skip" under --skip-deps, "wheels" under --offline, else "net";
\* todo: the entries to unpack.
NoJob == [pc |-> "idle", script |-> "none", with |-> "net", todo |-> {}]

InstallationInit ==
    /\ got = EmptyZip
    /\ folder = [files |-> Nothing, manifest |-> NoManifest]
    /\ venv = "none" /\ deps = 0 /\ shortcut = "no"
    /\ job = NoJob /\ said = "nothing" /\ faults = 0

-----------------------------------------------------------------------------
(* Unpacking *)

BeginUnzip ==
    /\ job.pc = "idle" /\ got.readable = "yes"
    /\ job' = [NoJob EXCEPT !.pc = "unzip", !.script = "unzip",
                            !.todo = {f \in Files : got.files[f] # 0}]
    /\ said' = "nothing"
    /\ UNCHANGED <<got, folder, venv, deps, shortcut, faults>>

\* An entry replaces the file of its name; an extension with another tag
\* stays beside it.
UnzipFile(f) ==
    /\ job.pc = "unzip" /\ f \in First(job.todo)
    /\ folder' = [folder EXCEPT !.files[f] = got.files[f]]
    /\ job' = [job EXCEPT !.todo = @ \ {f}]
    /\ UNCHANGED <<got, venv, deps, shortcut, said, faults>>

\* The manifest is the last entry, if the archive has it.
UnzipManifest ==
    /\ job.pc = "unzip" /\ job.todo = {}
    /\ folder' = [folder EXCEPT !.manifest = IF got.manifest = NoManifest THEN @ ELSE got.manifest]
    /\ job' = NoJob
    /\ UNCHANGED <<got, venv, deps, shortcut, said, faults>>

-----------------------------------------------------------------------------
(* install.py and update.py *)

Interpreter == venv \in {"python", "whole"}

Stop == job' = NoJob /\ said' = "nothing"

\* The step after the virtual environment is there.
AfterVenv(j) == IF j.with = "skip" THEN "link" ELSE "upgrade"

\* install.py: create_venv skips its work when the interpreter is there.
Install(with) ==
    /\ job.pc = "idle"
    /\ LET j == [NoJob EXCEPT !.script = "install", !.with = with]
       IN  job' = [j EXCEPT !.pc = IF Interpreter THEN AfterVenv(j) ELSE "venv"]
    /\ said' = "nothing"
    /\ UNCHANGED <<got, folder, venv, deps, shortcut, faults>>

\* EnvBuilder.create makes the interpreter before it makes pip ...
MakeInterpreter ==
    /\ job.pc = "venv"
    /\ venv' = "python"
    /\ job' = [job EXCEPT !.pc = "ensurepip"]
    /\ UNCHANGED <<got, folder, deps, shortcut, said, faults>>

\* ... which takes a while.
EnsurePip ==
    /\ job.pc = "ensurepip"
    /\ venv' = "whole"
    /\ job' = [job EXCEPT !.pc = AfterVenv(job)]
    /\ UNCHANGED <<got, folder, deps, shortcut, said, faults>>

\* update.py: upgrade_dependencies wants the interpreter.
Update(with) ==
    /\ job.pc = "idle"
    /\ job' = IF with # "skip" /\ ~Interpreter THEN NoJob
              ELSE LET j == [NoJob EXCEPT !.script = "update", !.with = with]
                   IN  [j EXCEPT !.pc = AfterVenv(j)]
    /\ said' = "nothing"
    /\ UNCHANGED <<got, folder, venv, deps, shortcut, faults>>

HasRequirements == folder.files[Requirements] # 0

\* install_requirements or upgrade_dependencies: without requirements.txt the
\* script ends; pip upgrades itself, and offline it may fail to.
UpgradePip ==
    /\ job.pc = "upgrade"
    /\ IF ~HasRequirements \/ (venv # "whole" /\ job.with = "net")
       THEN Stop
       ELSE job' = [job EXCEPT !.pc = "deps"] /\ UNCHANGED said
    /\ UNCHANGED <<got, folder, venv, deps, shortcut, faults>>

\* pip install -r requirements.txt.
InstallDeps ==
    /\ job.pc = "deps"
    /\ IF venv # "whole" THEN Stop /\ UNCHANGED deps
       ELSE /\ deps' \in IF deps = Torn THEN {Torn, folder.files[Requirements]}
                         ELSE {folder.files[Requirements]}
            /\ job' = [job EXCEPT !.pc = "link"]
            /\ UNCHANGED said
    /\ UNCHANGED <<got, folder, venv, shortcut, faults>>

\* Mutant: subprocess.run in place of check_call.
PipFails_Ignored ==
    /\ job.pc = "deps" /\ faults < MaxFaults
    /\ faults' = faults + 1
    /\ deps' = IF deps = Torn THEN Torn ELSE 0
    /\ job' = [job EXCEPT !.pc = "link"]
    /\ UNCHANGED <<got, folder, venv, shortcut, said>>

\* pip fails part way, and check_call raises.
PipFails ==
    /\ job.pc = "deps" /\ faults < MaxFaults
    /\ faults' = faults + 1
    /\ deps' = IF deps = Torn THEN Torn ELSE 0
    /\ Stop
    /\ UNCHANGED <<got, folder, venv, shortcut>>

\* create_shortcuts and the last message, "Install complete" or "Update
\* complete" in every mode; under --skip-deps the script has said before that
\* it does not run pip.  link is FALSE under --no-shortcut, which nothing looks
\* at before.
CreateShortcut(link) ==
    /\ job.pc = "link"
    /\ shortcut' = IF ~link THEN shortcut
                   ELSE IF job.script = "update" /\ job.with = "skip" /\ ~Interpreter THEN "blind"
                   ELSE "yes"
    /\ said' = IF job.with = "skip" THEN "complete, pip not run" ELSE "complete"
    /\ job' = NoJob
    /\ UNCHANGED <<got, folder, venv, deps, faults>>

-----------------------------------------------------------------------------
(* uninstall.py *)

\* Mutant: the answer to the prompt is always taken for no.
Uninstall_Keeps(keep) ==
    /\ job.pc = "idle"
    /\ job' = NoJob
    /\ shortcut' = "no"
    /\ said' = "nothing"
    /\ UNCHANGED <<got, folder, venv, deps, faults>>

\* remove_shortcuts, and remove_venv unless it is to be kept or not there.
Uninstall(keep) ==
    /\ job.pc = "idle"
    /\ shortcut' = "no"
    /\ job' = IF keep \/ venv = "none" THEN NoJob
              ELSE [NoJob EXCEPT !.pc = "rmtree", !.script = "uninstall"]
    /\ said' = "nothing"
    /\ UNCHANGED <<got, folder, venv, deps, faults>>

RemoveTree ==
    /\ job.pc = "rmtree"
    /\ venv' = "none" /\ deps' = 0
    /\ job' = NoJob
    /\ UNCHANGED <<got, folder, shortcut, said, faults>>

-----------------------------------------------------------------------------

\* An interrupt, an error or a power cut in any step.  rmtree has removed
\* some of the tree by then.
Break ==
    /\ job.pc # "idle" /\ faults < MaxFaults
    /\ faults' = faults + 1
    /\ IF job.pc = "rmtree"
       THEN /\ venv' \in {"rest", venv} \cup IF Interpreter THEN {"python"} ELSE {}
            /\ deps' \in {0, deps, Torn}
       ELSE UNCHANGED <<venv, deps>>
    /\ Stop
    /\ UNCHANGED <<got, folder, shortcut>>

JobStep ==
    \/ UnzipManifest \/ \E f \in Files : UnzipFile(f)
    \/ MakeInterpreter \/ EnsurePip \/ UpgradePip \/ InstallDeps
    \/ \E l \in BOOLEAN : CreateShortcut(l)
    \/ RemoveTree

InstallationNext ==
    \/ BeginUnzip
    \/ \E w \in {"skip", "wheels", "net"} : Install(w)
    \/ \E w \in {"skip", "net"} : Update(w)
    \/ \E k \in BOOLEAN : Uninstall(k)
    \/ JobStep
    \/ PipFails \/ Break

Jobs == [pc : {"idle", "unzip", "venv", "ensurepip", "upgrade", "deps", "link", "rmtree"},
         script : {"none", "unzip", "install", "update", "uninstall"},
         with : {"skip", "wheels", "net"}, todo : SUBSET Files]

InstallationTypeOK ==
    /\ got \in Archives
    /\ folder \in [files : [Files -> Numbers], manifest : Manifests]
    /\ venv \in {"none", "rest", "python", "whole"}
    /\ deps \in Numbers \cup {Torn}
    /\ shortcut \in {"no", "yes", "blind"}
    /\ job \in Jobs
    /\ said \in {"nothing", "complete", "complete, pip not run"} /\ faults \in 0..MaxFaults

\* The gate of app.py: what it takes of the folder to show the lab, whatever
\* interpreter and packages the server runs with.  (find_streamlit_executable
\* takes the environment's, of any requirements.txt, or falls back to the
\* interpreter that runs launcher.py, which may have its own.)
Passes == Verifies(folder.files, folder.manifest)

\* An archive has, or a folder holds, every module that an interpreter takes.
MadeFor(files, t) == \A f \in Loaded(t) : files[f] # 0

\* The lab as the scripts are to leave it: its environment with the packages
\* of its requirements, every module for its interpreter, and the gate passed.
LabUp ==
    /\ Interpreter /\ deps = folder.files[Requirements] /\ HasRequirements
    /\ MadeFor(folder.files, Python) /\ Passes

\* The desktop entry never runs an interpreter that is not there, whatever
\* was installed, updated, removed, broken off and repeated, unless
\* update.py --skip-deps was run where nothing is installed.
ShortcutBacked == shortcut = "yes" => Interpreter

\* "Install complete" and "Update complete" mean that the requirements of
\* the folder are installed, unless pip was misled by the remains of a
\* broken uninstallation.  Under --skip-deps they mean nothing of the kind:
\* on an empty machine "Install complete" is then said of an environment
\* without packages.
ReportsTruth ==
    said = "complete" => /\ venv = "whole"
                         /\ deps \in {folder.files[Requirements], Torn}

\* What install.py, update.py and uninstall.py leave and say is true, in
\* both senses above.
ScriptsHonest == ShortcutBacked /\ ReportsTruth

\* Why: what the step of a script under way can rely on.
JobInv ==
    /\ job.pc # "idle" => said = "nothing"
    /\ job.pc \in {"venv", "ensurepip", "upgrade", "deps", "link"} => job.script \in {"install", "update"}
    /\ job.pc = "rmtree" => shortcut # "yes"
    /\ job.pc \in {"upgrade", "deps"} => Interpreter
    /\ job.pc = "ensurepip" => venv = "python"
    /\ job.pc = "link" =>
          /\ job.script = "install" \/ job.with # "skip" => Interpreter
          /\ job.with # "skip" => venv = "whole" /\ deps \in {folder.files[Requirements], Torn}
    /\ ShortcutBacked /\ ReportsTruth
=============================================================================
