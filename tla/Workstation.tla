----------------------------- MODULE Workstation -----------------------------
(***************************************************************************)
(* The gates every run of app.py passes before the lab opens: build        *)
(* integrity, licence, machine fingerprint, first-run 2FA setup, and the   *)
(* three files behind them: license.json, totp_secrets.json and, where the *)
(* system has no machine id, ~/.cryptexlab_device_id.                      *)
(*                                                                         *)
(* Sessions are threads of one process, so their runs interleave at every  *)
(* access to a file.  A file is written by truncating it and filling it    *)
(* when it is closed: a reader in between finds it Partial, and a crash in *)
(* between leaves it so.  A click starts a run and its handler executes    *)
(* only if that run reaches the page that draws the button again.          *)
(***************************************************************************)
EXTENDS Naturals, FiniteSets

CONSTANTS
    Sessions,   \* browser tabs
    DeviceIds,  \* the UUIDs generated for the machine
    Secrets,    \* the pairs of secrets generated in setup
    Licences,   \* records [genuine, expires, fp], the keys a user may paste
    LastDay     \* bound on the calendar

CONSTANTS
    NoFile, Partial,   \* a file that is absent, or truncated and not filled
    None, AnyMachine,         \* no value; the fingerprint "any"
    Confirm, Save      \* the buttons of the setup page

ASSUME FilesAssumption ==
    /\ {NoFile, Partial, None} \cap Secrets = {}
    /\ {NoFile, Partial, None} \cap DeviceIds = {}
    /\ {NoFile, Partial, None, Confirm, Save} \cap Licences = {}
    /\ Confirm # Save /\ None \notin {Confirm, Save}
    /\ Licences \subseteq [genuine : BOOLEAN, expires : Nat,
                           fp : {None, AnyMachine} \cup DeviceIds]
    /\ LastDay \in Nat \ {0}

VARIABLES
    today,
    intact,       \* whether the files of the build match manifest.json
    writable,     \* whether the home directory can be written
    license_file, totp_file, device_file,
    ses,          \* session -> its state, see NewSession
    confirmed,    \* pairs <<secrets, step>> confirmed with a code
    devices       \* the ids that have been in device_file, complete

files == <<license_file, totp_file, device_file>>
world == <<today, intact, writable>>
history == <<confirmed, devices>>
vars == <<world, files, ses, history>>

\* pc is the next file access of the run under way, or "idle" when a screen
\* is shown; again says that the machine id is asked for a second time in the
\* run, for the mismatch screen; _license_cache, _pending_totp and _setup_step are keys of
\* st.session_state.
NewSession ==
    [pc |-> "integrity", screen |-> "blank", click |-> None, id |-> None, again |-> FALSE,
     _license_cache |-> None, _pending_totp |-> None, _setup_step |-> 0]

BadLicence == [genuine |-> FALSE, expires |-> 0, fp |-> None]

verify_license_data(lic) == lic.genuine /\ lic.expires >= today

Init ==
    /\ today = 1
    /\ intact \in BOOLEAN /\ writable \in BOOLEAN
    /\ license_file \in {NoFile} \cup Licences
    /\ totp_file \in {NoFile} \cup Secrets
    /\ device_file \in {NoFile} \cup DeviceIds
    /\ ses = [s \in Sessions |-> NewSession]
    /\ confirmed = {<<x, k>> : x \in {totp_file} \ {NoFile}, k \in 1..2}
    /\ devices = {device_file} \ {NoFile}

\* A session moves on without touching a file.
Goto(s, r) == ses' = [ses EXCEPT ![s] = r]

Show(s, screen) == [ses[s] EXCEPT !.pc = "idle", !.screen = screen, !.click = None]

\* st.rerun().
Rerun(r) == [r EXCEPT !.pc = "integrity", !.click = None]

-----------------------------------------------------------------------------
(* The gates, in the order of main. *)

CheckIntegrity(s) ==
    /\ ses[s].pc = "integrity"
    /\ Goto(s, IF intact THEN [ses[s] EXCEPT !.pc = "license"] ELSE Show(s, "halted"))
    /\ UNCHANGED <<world, files, history>>

\* The verdict is computed once per session and kept.
check_license(s) ==
    IF ses[s]._license_cache # None THEN ses[s]._license_cache
    ELSE IF license_file \in Licences
         THEN [ok |-> verify_license_data(license_file), lic |-> license_file]
         ELSE [ok |-> FALSE, lic |-> BadLicence]

\* A licence without a fingerprint is a mismatch at once; one that is bound
\* has to wait for the machine id.
CheckLicense(s) ==
    LET verdict == check_license(s)
        fp == verdict.lic.fp
        known == [ses[s] EXCEPT !._license_cache = verdict]
    IN  /\ ses[s].pc = "license"
        /\ Goto(s,
             CASE ~verdict.ok -> [known EXCEPT !.pc = "device"]
               [] verdict.ok /\ fp = None -> [known EXCEPT !.pc = "device", !.again = TRUE]
               [] verdict.ok /\ fp = AnyMachine -> [known EXCEPT !.pc = "totp"]
               [] verdict.ok /\ fp \notin {None, AnyMachine} -> [known EXCEPT !.pc = "device"])
        /\ UNCHANGED <<world, files, history>>

AfterId_Unchecked(r, i) ==
    [r EXCEPT !.pc = IF r._license_cache.ok THEN "totp" ELSE "activation", !.id = i]

\* What follows a machine id.  The activation page shows it; the fingerprint
\* check compares it, and when it differs the id is asked for once more, for
\* the mismatch screen to show.
AfterId(r, i) ==
    CASE ~r._license_cache.ok -> [r EXCEPT !.pc = "activation", !.id = i]
      [] r._license_cache.ok /\ ~r.again /\ r._license_cache.lic.fp = i ->
            [r EXCEPT !.pc = "totp", !.id = i]
      [] r._license_cache.ok /\ ~r.again /\ r._license_cache.lic.fp # i ->
            [r EXCEPT !.pc = "device", !.id = i, !.again = TRUE]
      [] r._license_cache.ok /\ r.again ->
            [r EXCEPT !.pc = "idle", !.screen = "mismatch", !.click = None, !.id = i,
                      !.again = FALSE]

\* The file is never removed, so finding that it exists and reading it are
\* one step: what matters is what the read finds.
ReadDeviceId(s) ==
    /\ ses[s].pc = "device"
    /\ device_file \in DeviceIds
    /\ Goto(s, AfterId(ses[s], device_file))
    /\ UNCHANGED <<world, files, history>>

FreshIds == DeviceIds \ ({device_file} \cup devices \cup {ses[t].id : t \in Sessions})

MakeDeviceId_Always(s) ==
    /\ ses[s].pc = "device" /\ writable
    /\ \E i \in FreshIds : Goto(s, [ses[s] EXCEPT !.pc = "open device", !.id = i])
    /\ UNCHANGED <<world, files, history>>

MakeDeviceId_Retries(s) ==
    /\ ses[s].pc = "device"
    /\ device_file \notin DeviceIds /\ writable
    /\ \E i \in FreshIds : Goto(s, [ses[s] EXCEPT !.pc = "open device", !.id = i])
    /\ UNCHANGED <<world, files, history>>

\* No usable id: a new one is made up ...
MakeDeviceId(s) ==
    /\ ses[s].pc = "device"
    /\ device_file \notin DeviceIds
    /\ \E i \in FreshIds :
          Goto(s, IF writable THEN [ses[s] EXCEPT !.pc = "open device", !.id = i]
                  ELSE AfterId(ses[s], i))
    /\ UNCHANGED <<world, files, history>>

\* ... and written, in two steps.
OpenDeviceFile(s) ==
    /\ ses[s].pc = "open device"
    /\ device_file' = Partial
    /\ Goto(s, [ses[s] EXCEPT !.pc = "fill device"])
    /\ UNCHANGED <<world, license_file, totp_file, history>>

FillDeviceFile(s) ==
    /\ ses[s].pc = "fill device"
    /\ device_file' = ses[s].id
    /\ devices' = devices \cup {ses[s].id}
    /\ Goto(s, AfterId(ses[s], ses[s].id))
    /\ UNCHANGED <<world, license_file, totp_file, confirmed>>

\* _has_totp_setup.
CheckSetup(s) ==
    /\ ses[s].pc = "totp"
    /\ Goto(s, IF totp_file \in Secrets THEN Show(s, "lab")
               ELSE [ses[s] EXCEPT !.pc = "setup"])
    /\ UNCHANGED <<world, files, history>>

-----------------------------------------------------------------------------
(* The activation page. *)

\* No key was pasted, or it does not verify.
ShowActivation(s) ==
    /\ ses[s].pc = "activation"
    /\ ses[s].click \in Licences => ~verify_license_data(ses[s].click)
    /\ Goto(s, Show(s, "activation"))
    /\ UNCHANGED <<world, files, history>>

\* A key verifies: the cached verdict is dropped and license.json opened.
OpenLicenseFile(s) ==
    /\ ses[s].pc = "activation"
    /\ ses[s].click \in Licences
    /\ verify_license_data(ses[s].click)
    /\ license_file' = Partial
    /\ Goto(s, [ses[s] EXCEPT !.pc = "fill license", !._license_cache = None])
    /\ UNCHANGED <<world, totp_file, device_file, history>>

FillLicenseFile(s) ==
    /\ ses[s].pc = "fill license"
    /\ license_file' = ses[s].click
    /\ Goto(s, Rerun(ses[s]))
    /\ UNCHANGED <<world, totp_file, device_file, history>>

-----------------------------------------------------------------------------
(* The setup page. *)

FreshSecrets == Secrets \ ({totp_file} \cup {ses[t]._pending_totp : t \in Sessions}
                            \cup {c[1] : c \in confirmed})

pending_EveryRun(s) == Secrets \ {ses[s]._pending_totp}

\* The secrets are made up on the first run that shows the page.
pending(s) ==
    IF ses[s]._pending_totp = None THEN FreshSecrets ELSE {ses[s]._pending_totp}

ShowSetup(s) ==
    /\ ses[s].pc = "setup"
    /\ ses[s].click # (IF ses[s]._setup_step < 2 THEN Confirm ELSE Save)
    /\ \E x \in pending(s) : Goto(s, [Show(s, "setup") EXCEPT !._pending_totp = x])
    /\ UNCHANGED <<world, files, history>>

\* A right code for the role of this step.
ConfirmRole(s) ==
    /\ ses[s].pc = "setup"
    /\ ses[s].click = Confirm /\ ses[s]._setup_step < 2
    /\ \E x \in pending(s) :
          /\ confirmed' = confirmed \cup {<<x, ses[s]._setup_step + 1>>}
          /\ Goto(s, Rerun([ses[s] EXCEPT !._pending_totp = x, !._setup_step = @ + 1]))
    /\ UNCHANGED <<world, files, devices>>

\* Save & Launch opens totp_secrets.json ...
OpenSecretsFile(s) ==
    /\ ses[s].pc = "setup"
    /\ ses[s].click = Save /\ ses[s]._setup_step = 2
    /\ totp_file' = Partial
    /\ \E x \in pending(s) :
          Goto(s, [ses[s] EXCEPT !.pc = "fill secrets", !._pending_totp = x])
    /\ UNCHANGED <<world, license_file, device_file, history>>

\* ... and fills it.
FillSecretsFile(s) ==
    /\ ses[s].pc = "fill secrets"
    /\ totp_file' = ses[s]._pending_totp
    /\ Goto(s, Rerun([ses[s] EXCEPT !._pending_totp = None, !._setup_step = 0]))
    /\ UNCHANGED <<world, license_file, device_file, history>>

-----------------------------------------------------------------------------
(* The user and the world. *)

\* The buttons of each screen; any other widget reruns the page.
Buttons(screen, step) ==
    CASE screen = "activation" -> Licences
      [] screen = "setup" /\ step < 2 -> {Confirm}
      [] screen = "setup" /\ step = 2 -> {Save}
      [] OTHER -> {}

Click(s) ==
    /\ ses[s].pc = "idle"
    /\ \E c \in {None} \cup Buttons(ses[s].screen, ses[s]._setup_step) :
          Goto(s, [ses[s] EXCEPT !.pc = "integrity", !.click = c])
    /\ UNCHANGED <<world, files, history>>

\* The tab is reloaded: a new session.
ReloadTab(s) ==
    /\ ses[s].pc = "idle"
    /\ Goto(s, NewSession)
    /\ UNCHANGED <<world, files, history>>

\* The server is killed and started again.
Crash ==
    /\ ses' = [s \in Sessions |-> NewSession]
    /\ UNCHANGED <<world, files, history>>

DayPasses ==
    /\ today < LastDay
    /\ today' = today + 1
    /\ UNCHANGED <<intact, writable, files, ses, history>>

\* A file of the build changes on disk.
FileModified ==
    /\ intact
    /\ intact' = FALSE
    /\ UNCHANGED <<today, writable, files, ses, history>>

Run(s) ==
    \/ CheckIntegrity(s) \/ CheckLicense(s)
    \/ ReadDeviceId(s) \/ MakeDeviceId(s) \/ OpenDeviceFile(s) \/ FillDeviceFile(s)
    \/ CheckSetup(s)
    \/ ShowActivation(s) \/ OpenLicenseFile(s) \/ FillLicenseFile(s)
    \/ ShowSetup(s) \/ ConfirmRole(s) \/ OpenSecretsFile(s) \/ FillSecretsFile(s)

Next ==
    \/ \E s \in Sessions : Run(s) \/ Click(s) \/ ReloadTab(s)
    \/ Crash \/ DayPasses \/ FileModified

Spec == Init /\ [][Next]_vars

\* The script thread of a session runs until its screen is shown; users and
\* the world do what they like.
Fairness == \A s \in Sessions : WF_vars(Run(s))

FairSpec == Spec /\ Fairness

-----------------------------------------------------------------------------

Verdicts == {None} \cup [ok : BOOLEAN, lic : Licences \cup {BadLicence}]

ASSUME VerdictAssumption == None \notin [ok : BOOLEAN, lic : Licences \cup {BadLicence}]

SessionStates ==
    [pc : {"integrity", "license", "device", "open device", "fill device", "totp",
           "activation", "fill license", "setup", "fill secrets", "idle"},
     screen : {"blank", "halted", "activation", "mismatch", "setup", "lab"},
     click : {None, Confirm, Save} \cup Licences,
     id : {None} \cup DeviceIds,
     again : BOOLEAN,
     _license_cache : Verdicts,
     _pending_totp : {None} \cup Secrets,
     _setup_step : 0..2]

TypeOK ==
    /\ today \in 1..LastDay /\ intact \in BOOLEAN /\ writable \in BOOLEAN
    /\ license_file \in {NoFile, Partial} \cup Licences
    /\ totp_file \in {NoFile, Partial} \cup Secrets
    /\ device_file \in {NoFile, Partial} \cup DeviceIds
    /\ ses \in [Sessions -> SessionStates]
    /\ confirmed \subseteq Secrets \X (1..2)
    /\ devices \subseteq DeviceIds

\* The secrets the lab will ask codes for are a pair that a user confirmed
\* with a code for each role, whatever other tabs, reruns and crashes did.
SecretsConfirmed ==
    totp_file \in Secrets => \A k \in 1..2 : <<totp_file, k>> \in confirmed

\* A session in the lab has a verdict on its licence that is positive and was
\* given to a genuine one, bound to any machine or to the id this run found
\* or made up, and the workstation has been set up: whatever the order in
\* which tabs, reruns and crashes leave the files and the cached verdict.
LabEntitled ==
    \A s \in Sessions :
        ses[s].screen = "lab" /\ ses[s].pc = "idle" =>
            LET v == ses[s]._license_cache
            IN  /\ v # None
                /\ v.ok /\ v.lic.genuine
                /\ v.lic.fp = AnyMachine \/ v.lic.fp = ses[s].id
                /\ \E x \in Secrets : \A k \in 1..2 : <<x, k>> \in confirmed

\* No confirmed setup is thrown away by a rerun: a session that has confirmed
\* a role still holds the secrets it confirmed.
StepMatchesSecrets ==
    \A s \in Sessions :
        \A k \in 1..ses[s]._setup_step : <<ses[s]._pending_totp, k>> \in confirmed

\* What a session is about to write is complete: secrets confirmed for both
\* roles, a pasted licence, an id.
WritesReady ==
    \A s \in Sessions :
        /\ ses[s].pc = "fill secrets" => ses[s]._setup_step = 2
        /\ ses[s].pc = "fill license" => ses[s].click \in Licences
        /\ ses[s].pc \in {"open device", "fill device"} => ses[s].id \in DeviceIds

\* The inductive invariant behind SecretsConfirmed.
IInv == TypeOK /\ SecretsConfirmed /\ StepMatchesSecrets /\ WritesReady

\* Once the server stays up, every run reaches a screen: no gate sends a
\* session round in circles.  (The last two disjuncts are the end of the
\* model's supply of ids and secrets.)
RunsEnd ==
    <>[][~Crash]_vars =>
        \A s \in Sessions :
            (ses[s].pc # "idle") ~>
                (ses[s].pc = "idle" \/ FreshIds = {} \/ FreshSecrets = {})

\* Id i is on disk, complete, and no run is about to write another.
Settled(i) ==
    /\ device_file = i
    /\ \A s \in Sessions : ses[s].pc \notin {"open device", "fill device"}

\* "Once written it never changes for this Termux installation": tabs that
\* start together may each make up an id and overwrite the others', but when
\* the last of them has written, the id stays through every later run, tab
\* and crash (_read_machine_id).
DeviceIdSettles == [][\A i \in DeviceIds : Settled(i) => Settled(i)']_vars
=============================================================================
