-------------------------- MODULE WorkstationProofs --------------------------
(***************************************************************************)
(* Proofs about Workstation: its types, and that totp_secrets.json never   *)
(* holds secrets nobody confirmed, for any number of tabs and any number   *)
(* of crashes, reloads and reruns.                                         *)
(*                                                                         *)
(* SecretsConfirmed alone is not inductive: the file is filled from        *)
(* session state, so the invariant follows the secrets of every session    *)
(* through the wizard (StepMatchesSecrets) and up to the write             *)
(* (WritesReady).                                                          *)
(***************************************************************************)
EXTENDS Workstation, TLAPS

\* What the invariant says of one session, given the confirmations c.
SessionOK(r, c) ==
    /\ r \in SessionStates
    /\ \A k \in 1..r._setup_step : <<r._pending_totp, k>> \in c
    /\ r.pc = "fill secrets" => r._setup_step = 2
    /\ r.pc = "fill license" => r.click \in Licences
    /\ r.pc \in {"open device", "fill device"} => r.id \in DeviceIds

\* What it says of the files and the world.
WorldOK ==
    /\ today \in 1..LastDay /\ intact \in BOOLEAN /\ writable \in BOOLEAN
    /\ license_file \in {NoFile, Partial} \cup Licences
    /\ totp_file \in {NoFile, Partial} \cup Secrets
    /\ device_file \in {NoFile, Partial} \cup DeviceIds
    /\ confirmed \subseteq Secrets \X (1..2)
    /\ devices \subseteq DeviceIds
    /\ SecretsConfirmed

\* The invariant, session by session: the form the steps are checked in.
LEMMA BySession ==
    IInv <=> /\ WorldOK
             /\ ses \in [Sessions -> SessionStates]
             /\ \A s \in Sessions : SessionOK(ses[s], confirmed)
BY DEF IInv, TypeOK, WorldOK, SessionOK, StepMatchesSecrets, WritesReady

\* A step that moves one session to a good state, leaves the files good and
\* only adds confirmations keeps the invariant.
LEMMA OneSessionMoves ==
    ASSUME IInv, WorldOK', NEW s \in Sessions, NEW r,
           Goto(s, r), SessionOK(r, confirmed'), confirmed \subseteq confirmed'
    PROVE  IInv'
<1>1. ses \in [Sessions -> SessionStates] /\ \A t \in Sessions : SessionOK(ses[t], confirmed)
  BY BySession
<1>2. ses' \in [Sessions -> SessionStates]
  BY <1>1 DEF Goto, SessionOK
<1>3. ASSUME NEW t \in Sessions PROVE SessionOK(ses'[t], confirmed')
  <2>1. CASE t = s
    BY <2>1, <1>1 DEF Goto
  <2>2. CASE t # s
    <3>1. ses'[t] = ses[t]
      BY <2>2, <1>1 DEF Goto
    <3> QED BY <3>1, <1>1 DEF SessionOK
  <2> QED BY <2>1, <2>2
<1> QED BY <1>2, <1>3 DEF WorldOK, IInv, TypeOK, SessionOK, StepMatchesSecrets, WritesReady

\* A session that starts is good.
LEMMA NewSessionOK == ASSUME NEW c PROVE SessionOK(NewSession, c)
BY DEF SessionOK, NewSession, SessionStates, Verdicts

\* A step that leaves the files and the world alone leaves them good.
LEMMA WorldKept ==
    ASSUME WorldOK, UNCHANGED <<world, files, history>>
    PROVE  WorldOK' /\ confirmed' = confirmed
BY DEF WorldOK, world, files, history, SecretsConfirmed

\* Where a machine id takes a session.
AfterIdStates(r, i) ==
    {[r EXCEPT !.pc = "activation", !.id = i],
     [r EXCEPT !.pc = "totp", !.id = i],
     [r EXCEPT !.pc = "device", !.id = i, !.again = TRUE],
     [r EXCEPT !.pc = "idle", !.screen = "mismatch", !.click = None, !.id = i,
               !.again = FALSE]}

LEMMA AfterIdCases ==
    ASSUME NEW r, NEW i
    PROVE  AfterId(r, i) \in AfterIdStates(r, i)
<1> DEFINE ok == r._license_cache.ok
           same == r._license_cache.lic.fp = i
           again == r.again
<1>1. CASE ~ok
  BY <1>1, Zenon DEF AfterId, AfterIdStates
<1>2. CASE ok /\ ~again /\ same
  BY <1>2, Zenon DEF AfterId, AfterIdStates
<1>3. CASE ok /\ ~again /\ ~same
  BY <1>3, Zenon DEF AfterId, AfterIdStates
<1>4. CASE ok /\ again
  BY <1>4, Zenon DEF AfterId, AfterIdStates
<1> QED BY <1>1, <1>2, <1>3, <1>4, Zenon

\* The machine id takes a session to a good state.
LEMMA AfterIdOK ==
    ASSUME NEW r, NEW i \in DeviceIds, NEW c, SessionOK(r, c)
    PROVE  SessionOK(AfterId(r, i), c)
<1>0. AfterId(r, i) \in AfterIdStates(r, i)
  BY AfterIdCases
<1>1. SessionOK([r EXCEPT !.pc = "activation", !.id = i], c)
  BY DEF SessionOK, SessionStates
<1>2. SessionOK([r EXCEPT !.pc = "totp", !.id = i], c)
  BY DEF SessionOK, SessionStates
<1>3. SessionOK([r EXCEPT !.pc = "device", !.id = i, !.again = TRUE], c)
  BY DEF SessionOK, SessionStates
<1>4. SessionOK([r EXCEPT !.pc = "idle", !.screen = "mismatch", !.click = None, !.id = i,
                          !.again = FALSE], c)
  BY DEF SessionOK, SessionStates
<1> QED BY <1>0, <1>1, <1>2, <1>3, <1>4, Zenon DEF AfterIdStates

\* The secrets of the setup page are a pair, and the session's own pair once
\* it has confirmed a role.
LEMMA PendingOK ==
    ASSUME IInv, NEW s \in Sessions, NEW x \in pending(s)
    PROVE  /\ x \in Secrets
           /\ \A k \in 1..ses[s]._setup_step : <<x, k>> \in confirmed
<1>1. SessionOK(ses[s], confirmed) /\ confirmed \subseteq Secrets \X (1..2)
  BY BySession DEF WorldOK
<1>2. CASE ses[s]._pending_totp = None
  <2>1. x \in Secrets
    BY <1>2, Zenon DEF pending, FreshSecrets
  <2>2. ses[s]._setup_step = 0
    <3>1. ses[s]._setup_step \in 0..2
      BY <1>1 DEF SessionOK, SessionStates
    <3>2. SUFFICES ASSUME ses[s]._setup_step # 0 PROVE FALSE
      OBVIOUS
    <3>3. 1 \in 1..ses[s]._setup_step
      BY <3>1, <3>2
    <3>4. <<None, 1>> \in Secrets \X (1..2)
      BY <3>3, <1>1, <1>2 DEF SessionOK
    <3> QED BY <3>4, FilesAssumption
  <2> QED BY <2>1, <2>2
<1>3. CASE ses[s]._pending_totp # None
  <2>1. x = ses[s]._pending_totp
    BY <1>3, Zenon DEF pending
  <2>2. ses[s]._pending_totp \in Secrets
    BY <1>1, <1>3 DEF SessionOK, SessionStates
  <2> QED BY <2>1, <2>2, <1>1 DEF SessionOK
<1> QED BY <1>2, <1>3
\* The steps of a run that only move the session.
LEMMA ChecksStep ==
    ASSUME IInv, NEW s \in Sessions,
           \/ CheckIntegrity(s) \/ ReadDeviceId(s) \/ CheckSetup(s)
           \/ ShowActivation(s) \/ Click(s) \/ ReloadTab(s)
    PROVE  IInv'
<1> DEFINE r == ses[s]
<1>0. WorldOK /\ SessionOK(r, confirmed) /\ ses \in [Sessions -> SessionStates]
  BY BySession
<1>1. WorldOK' /\ confirmed' = confirmed
  <2>1. UNCHANGED <<world, files, history>>
    BY Zenon DEF CheckIntegrity, ReadDeviceId, CheckSetup, ShowActivation, Click, ReloadTab
  <2> QED BY <2>1, <1>0, WorldKept
<1>2. ASSUME NEW q, Goto(s, q), SessionOK(q, confirmed) PROVE IInv'
  BY <1>1, <1>2, OneSessionMoves
<1>3. ASSUME NEW screen \in {"halted", "activation", "setup", "lab"}
      PROVE  SessionOK(Show(s, screen), confirmed)
  BY <1>0 DEF Show, SessionOK, SessionStates
<1>4. CASE CheckIntegrity(s)
  <2>1. SessionOK([r EXCEPT !.pc = "license"], confirmed)
    BY <1>0 DEF SessionOK, SessionStates
  <2>2. CASE intact
    <3>1. Goto(s, [r EXCEPT !.pc = "license"])
      BY <1>4, <2>2, Zenon DEF CheckIntegrity
    <3> QED BY <3>1, <2>1, <1>2
  <2>3. CASE ~intact
    <3>1. Goto(s, Show(s, "halted"))
      BY <1>4, <2>3, Zenon DEF CheckIntegrity
    <3> QED BY <3>1, <1>3, <1>2
  <2> QED BY <2>2, <2>3
<1>5. CASE ReadDeviceId(s)
  <2>1. device_file \in DeviceIds /\ Goto(s, AfterId(r, device_file))
    BY <1>5, Zenon DEF ReadDeviceId
  <2> QED BY <2>1, <1>0, <1>2, AfterIdOK
<1>6. CASE CheckSetup(s)
  <2>1. SessionOK([r EXCEPT !.pc = "setup"], confirmed)
    BY <1>0 DEF SessionOK, SessionStates
  <2>2. CASE totp_file \in Secrets
    <3>1. Goto(s, Show(s, "lab"))
      BY <1>6, <2>2, Zenon DEF CheckSetup
    <3> QED BY <3>1, <1>3, <1>2
  <2>3. CASE totp_file \notin Secrets
    <3>1. Goto(s, [r EXCEPT !.pc = "setup"])
      BY <1>6, <2>3, Zenon DEF CheckSetup
    <3> QED BY <3>1, <2>1, <1>2
  <2> QED BY <2>2, <2>3
<1>7. CASE ShowActivation(s)
  <2>1. Goto(s, Show(s, "activation"))
    BY <1>7, Zenon DEF ShowActivation
  <2> QED BY <2>1, <1>3, <1>2
<1>8. CASE Click(s)
  <2>1. PICK c \in {None} \cup Buttons(r.screen, r._setup_step) :
            Goto(s, [r EXCEPT !.pc = "integrity", !.click = c])
    BY <1>8, Zenon DEF Click
  <2>2. c \in {None, Confirm, Save} \cup Licences
    <3>1. Buttons(r.screen, r._setup_step) \in {Licences, {Confirm}, {Save}, {}}
      BY DEF Buttons
    <3> QED BY <3>1
  <2>3. SessionOK([r EXCEPT !.pc = "integrity", !.click = c], confirmed)
    <3> DEFINE q == [r EXCEPT !.pc = "integrity", !.click = c]
    <3>1. q \in SessionStates
      BY <2>2, <1>0 DEF SessionOK, SessionStates
    <3>2. /\ q.pc = "integrity" /\ q._setup_step = r._setup_step
          /\ q._pending_totp = r._pending_totp
      BY <1>0 DEF SessionOK, SessionStates
    <3>3. \A k \in 1..q._setup_step : <<q._pending_totp, k>> \in confirmed
      BY <1>0, <3>2 DEF SessionOK
    <3> HIDE DEF q
    <3>4. SessionOK(q, confirmed)
      BY <3>1, <3>2, <3>3 DEF SessionOK
    <3> QED BY <3>4 DEF q
  <2> QED BY <2>1, <2>3, <1>2
<1>9. CASE ReloadTab(s)
  <2>1. Goto(s, NewSession)
    BY <1>9, Zenon DEF ReloadTab
  <2> QED BY <2>1, <1>2, NewSessionOK
<1> QED BY <1>4, <1>5, <1>6, <1>7, <1>8, <1>9, Zenon

\* The licence check: the verdict it caches is one.
LEMMA CheckLicenseStep ==
    ASSUME IInv, NEW s \in Sessions, CheckLicense(s)
    PROVE  IInv'
<1> DEFINE r == ses[s]
           v == check_license(s)
           known == [r EXCEPT !._license_cache = v]
<1>0. WorldOK /\ SessionOK(r, confirmed) /\ ses \in [Sessions -> SessionStates]
  BY BySession
<1>1. WorldOK' /\ confirmed' = confirmed
  <2>1. UNCHANGED <<world, files, history>>
    BY Zenon DEF CheckLicense
  <2> QED BY <2>1, <1>0, WorldKept
<1>2. v \in Verdicts
  <2>1. CASE r._license_cache # None
    BY <2>1, <1>0 DEF check_license, SessionOK, SessionStates
  <2>2. CASE r._license_cache = None /\ license_file \in Licences
    <3>1. v = [ok |-> verify_license_data(license_file), lic |-> license_file]
      BY <2>2, Zenon DEF check_license
    <3>2. verify_license_data(license_file) \in BOOLEAN
      BY <2>2, FilesAssumption DEF verify_license_data
    <3> QED BY <3>1, <3>2, <2>2 DEF Verdicts
  <2>3. CASE r._license_cache = None /\ license_file \notin Licences
    <3>1. v = [ok |-> FALSE, lic |-> BadLicence]
      BY <2>3, Zenon DEF check_license
    <3> QED BY <3>1 DEF Verdicts
  <2> QED BY <2>1, <2>2, <2>3
<1>3. \/ Goto(s, [known EXCEPT !.pc = "device"])
      \/ Goto(s, [known EXCEPT !.pc = "device", !.again = TRUE])
      \/ Goto(s, [known EXCEPT !.pc = "totp"])
  <2> DEFINE ok == v.ok
             fp == v.lic.fp
  <2>1. CASE ~ok
    BY <2>1, Zenon DEF CheckLicense
  <2>2. CASE ok /\ fp = None
    BY <2>2, Zenon DEF CheckLicense
  <2>3. CASE ok /\ fp # None /\ fp = AnyMachine
    BY <2>3, Zenon DEF CheckLicense
  <2>4. CASE ok /\ fp # None /\ fp # AnyMachine
    BY <2>4, Zenon DEF CheckLicense
  <2> QED BY <2>1, <2>2, <2>3, <2>4, Zenon
<1>4. SessionOK(known, confirmed)
  <2> HIDE DEF v
  <2>1. known \in SessionStates
    BY <1>0, <1>2 DEF SessionOK, SessionStates
  <2>2. /\ known.pc = r.pc /\ known._setup_step = r._setup_step
        /\ known._pending_totp = r._pending_totp /\ known.click = r.click
        /\ known.id = r.id
    BY <1>0 DEF SessionOK, SessionStates
  <2> HIDE DEF known
  <2> QED BY <1>0, <2>1, <2>2 DEF SessionOK
<1>5. SessionOK([known EXCEPT !.pc = "device"], confirmed)
  <2> HIDE DEF known
  <2> QED BY <1>4 DEF SessionOK, SessionStates
<1>6. SessionOK([known EXCEPT !.pc = "totp"], confirmed)
  <2> HIDE DEF known
  <2> QED BY <1>4 DEF SessionOK, SessionStates
<1>7. SessionOK([known EXCEPT !.pc = "device", !.again = TRUE], confirmed)
  <2> HIDE DEF known
  <2> QED BY <1>4 DEF SessionOK, SessionStates
<1> QED BY <1>1, <1>3, <1>5, <1>6, <1>7, OneSessionMoves
\* The device id: made up, and written in two steps.
LEMMA DeviceStep ==
    ASSUME IInv, NEW s \in Sessions,
           MakeDeviceId(s) \/ OpenDeviceFile(s) \/ FillDeviceFile(s)
    PROVE  IInv'
<1> DEFINE r == ses[s]
<1>0. WorldOK /\ SessionOK(r, confirmed) /\ ses \in [Sessions -> SessionStates]
  BY BySession
<1>1. CASE MakeDeviceId(s)
  <2>1. WorldOK' /\ confirmed' = confirmed
    <3>1. UNCHANGED <<world, files, history>>
      BY <1>1, Zenon DEF MakeDeviceId
    <3> QED BY <3>1, <1>0, WorldKept
  <2>2. PICK i \in FreshIds :
          Goto(s, IF writable THEN [r EXCEPT !.pc = "open device", !.id = i]
                  ELSE AfterId(r, i))
    BY <1>1, Zenon DEF MakeDeviceId
  <2>3. i \in DeviceIds
    BY Zenon DEF FreshIds
  <2>4. SessionOK([r EXCEPT !.pc = "open device", !.id = i], confirmed)
    BY <2>3, <1>0 DEF SessionOK, SessionStates
  <2>5. SessionOK(AfterId(r, i), confirmed)
    BY <2>3, <1>0, AfterIdOK
  <2>6. CASE writable
    <3>1. Goto(s, [r EXCEPT !.pc = "open device", !.id = i])
      BY <2>2, <2>6, Zenon
    <3> QED BY <3>1, <2>1, <2>4, OneSessionMoves
  <2>7. CASE ~writable
    <3>1. Goto(s, AfterId(r, i))
      BY <2>2, <2>7, Zenon
    <3> QED BY <3>1, <2>1, <2>5, OneSessionMoves
  <2> QED BY <2>6, <2>7
<1>2. CASE OpenDeviceFile(s)
  <2>1. WorldOK' /\ confirmed' = confirmed
    BY <1>0, <1>2 DEF OpenDeviceFile, WorldOK, world, history, SecretsConfirmed
  <2>2. r.pc = "open device" /\ Goto(s, [r EXCEPT !.pc = "fill device"])
    BY <1>2 DEF OpenDeviceFile
  <2>3. SessionOK([r EXCEPT !.pc = "fill device"], confirmed)
    BY <2>2, <1>0 DEF SessionOK, SessionStates
  <2> QED BY <2>1, <2>2, <2>3, OneSessionMoves
<1>3. CASE FillDeviceFile(s)
  <2>1. r.pc = "fill device" /\ Goto(s, AfterId(r, r.id))
    BY <1>3 DEF FillDeviceFile
  <2>2. r.id \in DeviceIds
    BY <2>1, <1>0 DEF SessionOK
  <2>3. WorldOK' /\ confirmed' = confirmed
    BY <1>0, <1>3, <2>2 DEF FillDeviceFile, WorldOK, world, SecretsConfirmed
  <2>4. SessionOK(AfterId(r, r.id), confirmed)
    BY <2>2, <1>0, AfterIdOK
  <2> QED BY <2>1, <2>3, <2>4, OneSessionMoves
<1> QED BY <1>1, <1>2, <1>3, Zenon

\* A pasted licence is written in two steps.
LEMMA LicenseStep ==
    ASSUME IInv, NEW s \in Sessions, OpenLicenseFile(s) \/ FillLicenseFile(s)
    PROVE  IInv'
<1> DEFINE r == ses[s]
<1>0. WorldOK /\ SessionOK(r, confirmed) /\ ses \in [Sessions -> SessionStates]
  BY BySession
<1>1. CASE OpenLicenseFile(s)
  <2>1. WorldOK' /\ confirmed' = confirmed
    BY <1>0, <1>1 DEF OpenLicenseFile, WorldOK, world, history, SecretsConfirmed
  <2>2. r.click \in Licences
        /\ Goto(s, [r EXCEPT !.pc = "fill license", !._license_cache = None])
    BY <1>1, Zenon DEF OpenLicenseFile
  <2>3. None \in Verdicts
    BY DEF Verdicts
  <2>4. SessionOK([r EXCEPT !.pc = "fill license", !._license_cache = None], confirmed)
    BY <2>2, <2>3, <1>0 DEF SessionOK, SessionStates
  <2> QED BY <2>1, <2>2, <2>4, OneSessionMoves
<1>2. CASE FillLicenseFile(s)
  <2>1. r.pc = "fill license" /\ Goto(s, Rerun(r))
    BY <1>2 DEF FillLicenseFile
  <2>2. r.click \in Licences
    BY <2>1, <1>0 DEF SessionOK
  <2>3. WorldOK' /\ confirmed' = confirmed
    BY <1>0, <1>2, <2>2 DEF FillLicenseFile, WorldOK, world, history, SecretsConfirmed
  <2>4. SessionOK(Rerun(r), confirmed)
    BY <1>0 DEF Rerun, SessionOK, SessionStates
  <2> QED BY <2>1, <2>3, <2>4, OneSessionMoves
<1> QED BY <1>1, <1>2, Zenon
\* A rerun of the wizard with other secrets or another step.
LEMMA WizardOK ==
    ASSUME NEW r \in SessionStates, NEW x \in {None} \cup Secrets, NEW n \in 0..2,
           NEW c, \A k \in 1..n : <<x, k>> \in c
    PROVE  SessionOK(Rerun([r EXCEPT !._pending_totp = x, !._setup_step = n]), c)
BY DEF Rerun, SessionOK, SessionStates

\* The setup wizard: each page shows, confirms or saves the session's pair.
LEMMA SetupStep ==
    ASSUME IInv, NEW s \in Sessions,
           ShowSetup(s) \/ ConfirmRole(s) \/ OpenSecretsFile(s) \/ FillSecretsFile(s)
    PROVE  IInv'
<1> DEFINE r == ses[s]
<1>0. WorldOK /\ SessionOK(r, confirmed) /\ ses \in [Sessions -> SessionStates]
  BY BySession
<1>1. CASE ShowSetup(s)
  <2>1. WorldOK' /\ confirmed' = confirmed
    <3>1. UNCHANGED <<world, files, history>>
      BY <1>1, Zenon DEF ShowSetup
    <3> QED BY <3>1, <1>0, WorldKept
  <2>2. PICK x \in pending(s) : Goto(s, [Show(s, "setup") EXCEPT !._pending_totp = x])
    BY <1>1, Zenon DEF ShowSetup
  <2>3. x \in Secrets /\ \A k \in 1..r._setup_step : <<x, k>> \in confirmed
    BY PendingOK
  <2>4. SessionOK([Show(s, "setup") EXCEPT !._pending_totp = x], confirmed)
    <3> DEFINE q == Show(s, "setup")
    <3>1. q \in SessionStates /\ q.pc = "idle" /\ q._setup_step = r._setup_step
      BY <1>0 DEF Show, SessionOK, SessionStates
    <3> HIDE DEF q
    <3>2. SessionOK([q EXCEPT !._pending_totp = x], confirmed)
      BY <3>1, <2>3 DEF SessionOK, SessionStates
    <3> QED BY <3>2 DEF q
  <2> QED BY <2>1, <2>2, <2>4, OneSessionMoves
<1>2. CASE ConfirmRole(s)
  <2>1. PICK x \in pending(s) :
          /\ confirmed' = confirmed \cup {<<x, r._setup_step + 1>>}
          /\ Goto(s, Rerun([r EXCEPT !._pending_totp = x, !._setup_step = @ + 1]))
    BY <1>2, Zenon DEF ConfirmRole
  <2>2. x \in Secrets /\ \A k \in 1..r._setup_step : <<x, k>> \in confirmed
    BY PendingOK
  <2>3. r._setup_step \in 0..1
    <3>1. r._setup_step < 2
      BY <1>2, Zenon DEF ConfirmRole
    <3>2. r._setup_step \in 0..2
      BY <1>0 DEF SessionOK, SessionStates
    <3> QED BY <3>1, <3>2
  <2>4. WorldOK'
    <3>1. UNCHANGED <<world, files, devices>>
      BY <1>2, Zenon DEF ConfirmRole
    <3> QED BY <3>1, <1>0, <2>1, <2>2, <2>3 DEF WorldOK, world, files, SecretsConfirmed
  <2>5. SessionOK(Rerun([r EXCEPT !._pending_totp = x, !._setup_step = @ + 1]), confirmed')
    <3> DEFINE n == r._setup_step + 1
    <3>1. n \in 0..2 /\ \A k \in 1..n : <<x, k>> \in confirmed'
      BY <2>1, <2>2, <2>3
    <3> HIDE DEF n
    <3>2. SessionOK(Rerun([r EXCEPT !._pending_totp = x, !._setup_step = n]), confirmed')
      BY <3>1, <2>2, <1>0, WizardOK DEF SessionOK
    <3> QED BY <3>2 DEF n
  <2> QED BY <2>1, <2>4, <2>5, OneSessionMoves
<1>3. CASE OpenSecretsFile(s)
  <2>1. WorldOK' /\ confirmed' = confirmed
    <3>1. totp_file' = Partial /\ UNCHANGED <<world, license_file, device_file, history>>
      BY <1>3, Zenon DEF OpenSecretsFile
    <3> QED BY <3>1, <1>0, FilesAssumption DEF WorldOK, world, history, SecretsConfirmed
  <2>2. PICK x \in pending(s) :
          Goto(s, [r EXCEPT !.pc = "fill secrets", !._pending_totp = x])
    BY <1>3, Zenon DEF OpenSecretsFile
  <2>3. x \in Secrets /\ \A k \in 1..r._setup_step : <<x, k>> \in confirmed
    BY PendingOK
  <2>4. r._setup_step = 2
    BY <1>3, Zenon DEF OpenSecretsFile
  <2>5. SessionOK([r EXCEPT !.pc = "fill secrets", !._pending_totp = x], confirmed)
    BY <2>3, <2>4, <1>0 DEF SessionOK, SessionStates
  <2> QED BY <2>1, <2>2, <2>5, OneSessionMoves
<1>4. CASE FillSecretsFile(s)
  <2>1. /\ r.pc = "fill secrets"
        /\ totp_file' = r._pending_totp
        /\ Goto(s, Rerun([r EXCEPT !._pending_totp = None, !._setup_step = 0]))
        /\ UNCHANGED <<world, license_file, device_file, history>>
    BY <1>4, Zenon DEF FillSecretsFile
  <2>2. \A k \in 1..2 : <<r._pending_totp, k>> \in confirmed
    BY <2>1, <1>0 DEF SessionOK
  <2>3. r._pending_totp \in Secrets
    BY <2>2, <1>0 DEF WorldOK
  <2>4. WorldOK' /\ confirmed' = confirmed
    BY <1>0, <2>1, <2>2, <2>3 DEF WorldOK, world, history, SecretsConfirmed
  <2>5. SessionOK(Rerun([r EXCEPT !._pending_totp = None, !._setup_step = 0]), confirmed)
    <3>1. None \in {None} \cup Secrets /\ 0 \in 0..2 /\ \A k \in 1..0 : FALSE
      OBVIOUS
    <3> QED BY <3>1, <1>0, WizardOK DEF SessionOK
  <2> QED BY <2>1, <2>4, <2>5, OneSessionMoves
<1> QED BY <1>1, <1>2, <1>3, <1>4, Zenon

\* A crash starts every session anew; the calendar and a modified build
\* touch no session.
LEMMA WorldStep ==
    ASSUME IInv, Crash \/ DayPasses \/ FileModified
    PROVE  IInv'
<1>0. WorldOK /\ ses \in [Sessions -> SessionStates]
      /\ \A s \in Sessions : SessionOK(ses[s], confirmed)
  BY BySession
<1>1. CASE Crash
  <2>1. WorldOK' /\ confirmed' = confirmed
    <3>1. UNCHANGED <<world, files, history>>
      BY <1>1, Zenon DEF Crash
    <3> QED BY <3>1, <1>0, WorldKept
  <2>2. ses' = [s \in Sessions |-> NewSession]
    BY <1>1, Zenon DEF Crash
  <2>3. ses' \in [Sessions -> SessionStates]
    BY <2>2, NewSessionOK DEF SessionOK
  <2>4. \A s \in Sessions : SessionOK(ses'[s], confirmed')
    BY <2>2, NewSessionOK
  <2> QED BY <2>1, <2>3, <2>4
          DEF WorldOK, IInv, TypeOK, SessionOK, StepMatchesSecrets, WritesReady
<1>2. CASE DayPasses \/ FileModified
  <2>1. today' \in 1..LastDay /\ intact' \in BOOLEAN
    <3>1. today \in 1..LastDay /\ LastDay \in Nat /\ intact \in BOOLEAN
      BY <1>0, FilesAssumption DEF WorldOK
    <3>2. CASE DayPasses
      BY <3>1, <3>2 DEF DayPasses
    <3>3. CASE FileModified
      BY <3>1, <3>3 DEF FileModified
    <3> QED BY <1>2, <3>2, <3>3
  <2>2. UNCHANGED <<writable, files, ses, history>>
    BY <1>2, Zenon DEF DayPasses, FileModified
  <2>3. WorldOK'
    BY <1>0, <2>1, <2>2 DEF WorldOK, files, history, SecretsConfirmed
  <2>4. ses' = ses /\ confirmed' = confirmed
    BY <2>2 DEF history
  <2> QED BY <1>0, <2>3, <2>4
          DEF WorldOK, IInv, TypeOK, SessionOK, StepMatchesSecrets, WritesReady
<1> QED BY <1>1, <1>2, Zenon

\* The first start of the server, with whatever files are on disk.
LEMMA Starts == Init => IInv
<1> SUFFICES ASSUME Init PROVE IInv
  OBVIOUS
<1>1. WorldOK
  BY FilesAssumption DEF Init, WorldOK, SecretsConfirmed
<1>2. ses = [s \in Sessions |-> NewSession]
  BY Zenon DEF Init
<1>3. ses \in [Sessions -> SessionStates]
  BY <1>2, NewSessionOK DEF SessionOK
<1>4. \A s \in Sessions : SessionOK(ses[s], confirmed)
  BY <1>2, NewSessionOK
<1> QED BY <1>1, <1>3, <1>4, BySession

\* The inductive invariant: a session that has confirmed a role of the setup
\* wizard holds the secrets it confirmed, and what it is about to write is
\* complete.
THEOREM SetupInvariant == Spec => []IInv
<1>1. IInv /\ [Next]_vars => IInv'
  <2> SUFFICES ASSUME IInv, [Next]_vars PROVE IInv'
    OBVIOUS
  <2>1. ASSUME NEW s \in Sessions, Run(s) PROVE IInv'
    BY <2>1, ChecksStep, CheckLicenseStep, DeviceStep, LicenseStep, SetupStep, Zenon DEF Run
  <2>2. ASSUME NEW s \in Sessions, Click(s) \/ ReloadTab(s) PROVE IInv'
    BY <2>2, ChecksStep, Zenon
  <2>3. CASE UNCHANGED vars
    BY <2>3 DEF vars, world, files, history, IInv, TypeOK, SecretsConfirmed,
                StepMatchesSecrets, WritesReady
  <2> QED BY <2>1, <2>2, <2>3, WorldStep, Zenon DEF Next
<1> QED BY <1>1, Starts, PTL DEF Spec

\* totp_secrets.json, whenever it is complete, holds a pair of secrets that a
\* user confirmed with a code for each role, whatever the tabs, the reruns
\* and the crashes did.
THEOREM SavedSecretsConfirmed == Spec => []SecretsConfirmed
<1>1. IInv => SecretsConfirmed
  BY DEF IInv
<1> QED BY <1>1, SetupInvariant, PTL

-----------------------------------------------------------------------------
(* The lab is open to entitled sessions only.  LabEntitled speaks of the      *)
(* session that is shown the lab; the argument follows the verdict it rests   *)
(* on from the licence check through the machine id to that screen.           *)

Entitled(r) ==
    /\ r._license_cache # None
    /\ r._license_cache.ok /\ r._license_cache.lic.genuine
    /\ r._license_cache.lic.fp = AnyMachine \/ r._license_cache.lic.fp = r.id

SetUp(c) == \E x \in Secrets : \A k \in 1..2 : <<x, k>> \in c

\* What the argument needs of one session, given the confirmations c.
GateOK(r, c) ==
    /\ r._license_cache # None /\ r._license_cache.ok => r._license_cache.lic.genuine
    /\ r.pc \in {"device", "open device", "fill device"} => r._license_cache # None
    /\ r.pc = "totp" => Entitled(r)
    /\ r.pc = "idle" /\ r.screen = "lab" => Entitled(r) /\ SetUp(c)

Gates == \A s \in Sessions : GateOK(ses[s], confirmed)

\* As OneSessionMoves.
LEMMA OneGateMoves ==
    ASSUME IInv, Gates, NEW s \in Sessions, NEW r,
           Goto(s, r), GateOK(r, confirmed'), confirmed \subseteq confirmed'
    PROVE  Gates'
<1>1. ses \in [Sessions -> SessionStates]
  BY BySession
<1>2. ASSUME NEW t \in Sessions PROVE GateOK(ses'[t], confirmed')
  <2>1. CASE t = s
    BY <2>1, <1>1 DEF Goto
  <2>2. CASE t # s
    <3>1. ses'[t] = ses[t]
      BY <2>2, <1>1 DEF Goto
    <3>2. GateOK(ses[t], confirmed)
      BY DEF Gates
    <3>3. SetUp(confirmed) => SetUp(confirmed')
      BY Zenon DEF SetUp
    <3> QED BY <3>1, <3>2, <3>3, Zenon DEF GateOK
  <2> QED BY <2>1, <2>2
<1> QED BY <1>2 DEF Gates

\* The parts of a session that GateOK reads.
LEMMA SameGate ==
    ASSUME NEW r, NEW q, NEW c, GateOK(r, c),
           q._license_cache = r._license_cache,
           q.pc \notin {"device", "open device", "fill device", "totp"},
           ~(q.pc = "idle" /\ q.screen = "lab")
    PROVE  GateOK(q, c)
BY Zenon DEF GateOK

\* The machine id: only a verdict that is bound to it, or to any machine,
\* goes on.
LEMMA AfterIdGate ==
    ASSUME NEW r \in SessionStates, NEW i \in DeviceIds, NEW c,
           GateOK(r, c), r._license_cache # None
    PROVE  GateOK(AfterId(r, i), c)
<1> DEFINE ok == r._license_cache.ok
           same == r._license_cache.lic.fp = i
           again == r.again
<1>1. CASE ~ok
  <2> DEFINE q == [r EXCEPT !.pc = "activation", !.id = i]
  <2>1. AfterId(r, i) = q
    BY <1>1, Zenon DEF AfterId
  <2>2. q._license_cache = r._license_cache /\ q.pc = "activation"
    BY DEF SessionStates
  <2> HIDE DEF q
  <2> QED BY <2>1, <2>2, SameGate
<1>2. CASE ok /\ ~again /\ same
  <2> DEFINE q == [r EXCEPT !.pc = "totp", !.id = i]
  <2>1. AfterId(r, i) = q
    BY <1>2, Zenon DEF AfterId
  <2>2. q._license_cache = r._license_cache /\ q.pc = "totp" /\ q.id = i
    BY DEF SessionStates
  <2>3. r._license_cache.lic.genuine
    BY <1>2, Zenon DEF GateOK
  <2>4. Entitled(q)
    <3> HIDE DEF q
    <3> QED BY <1>2, <2>2, <2>3, Zenon DEF Entitled
  <2> HIDE DEF q
  <2>5. q.pc # "idle" /\ q.pc \notin {"device", "open device", "fill device"}
    BY <2>2
  <2>6. GateOK(q, c)
    BY <2>2, <2>3, <2>4, <2>5, Zenon DEF GateOK
  <2> QED BY <2>1, <2>6
<1>3. CASE ok /\ ~again /\ ~same
  <2> DEFINE q == [r EXCEPT !.pc = "device", !.id = i, !.again = TRUE]
  <2>1. AfterId(r, i) = q
    BY <1>3, Zenon DEF AfterId
  <2>2. q._license_cache = r._license_cache /\ q.pc = "device"
    BY DEF SessionStates
  <2> HIDE DEF q
  <2>3. q.pc # "idle" /\ q.pc # "totp"
    BY <2>2
  <2>4. GateOK(q, c)
    BY <2>2, <2>3, Zenon DEF GateOK
  <2> QED BY <2>1, <2>4
<1>4. CASE ok /\ again
  <2> DEFINE q == [r EXCEPT !.pc = "idle", !.screen = "mismatch", !.click = None, !.id = i,
                            !.again = FALSE]
  <2>1. AfterId(r, i) = q
    BY <1>4, Zenon DEF AfterId
  <2>2. q._license_cache = r._license_cache /\ q.pc = "idle" /\ q.screen = "mismatch"
    BY DEF SessionStates
  <2> HIDE DEF q
  <2> QED BY <2>1, <2>2, SameGate
<1> QED BY <1>1, <1>2, <1>3, <1>4, Zenon

\* A step to a place that neither follows from the verdict nor forgets it.
LEMMA MovesOn ==
    ASSUME IInv, Gates, NEW s \in Sessions, NEW q, Goto(s, q),
           q._license_cache = ses[s]._license_cache,
           q.pc \notin {"device", "open device", "fill device", "totp"},
           ~(q.pc = "idle" /\ q.screen = "lab"),
           confirmed \subseteq confirmed'
    PROVE  Gates'
<1>1. GateOK(ses[s], confirmed)
  BY DEF Gates
<1>2. GateOK(ses[s], confirmed')
  <2>1. SetUp(confirmed) => SetUp(confirmed')
    BY Zenon DEF SetUp
  <2> QED BY <1>1, <2>1, Zenon DEF GateOK
<1>3. GateOK(q, confirmed')
  BY <1>2, SameGate
<1> QED BY <1>3, OneGateMoves

\* The integrity check, the activation page, a click and a reload.
LEMMA ChecksGate ==
    ASSUME IInv, Gates, NEW s \in Sessions,
           \/ CheckIntegrity(s) \/ ShowActivation(s) \/ Click(s) \/ ReloadTab(s)
    PROVE  Gates'
<1> DEFINE r == ses[s]
<1>0. r \in SessionStates
  BY BySession DEF SessionOK
<1>1. confirmed' = confirmed
  BY DEF CheckIntegrity, ShowActivation, Click, ReloadTab, history
<1>2. ASSUME NEW screen \in {"halted", "activation"}, Goto(s, Show(s, screen)) PROVE Gates'
  <2> DEFINE q == Show(s, screen)
  <2>1. q._license_cache = r._license_cache /\ q.pc = "idle" /\ q.screen = screen
    BY <1>0 DEF Show, SessionStates
  <2>2. Goto(s, q)
    BY <1>2
  <2> HIDE DEF q
  <2> QED BY <2>1, <2>2, <1>1, MovesOn
<1>3. CASE CheckIntegrity(s)
  <2>1. CASE intact
    <3> DEFINE q == [r EXCEPT !.pc = "license"]
    <3>1. Goto(s, q)
      BY <1>3, <2>1, Zenon DEF CheckIntegrity
    <3>2. q._license_cache = r._license_cache /\ q.pc = "license"
      BY <1>0 DEF SessionStates
    <3> HIDE DEF q
    <3> QED BY <3>1, <3>2, <1>1, MovesOn
  <2>2. CASE ~intact
    <3>1. Goto(s, Show(s, "halted"))
      BY <1>3, <2>2, Zenon DEF CheckIntegrity
    <3> QED BY <3>1, <1>2
  <2> QED BY <2>1, <2>2
<1>4. CASE ShowActivation(s)
  <2>1. Goto(s, Show(s, "activation"))
    BY <1>4, Zenon DEF ShowActivation
  <2> QED BY <2>1, <1>2
<1>5. CASE Click(s)
  <2>1. PICK c \in {None} \cup Buttons(r.screen, r._setup_step) :
            Goto(s, [r EXCEPT !.pc = "integrity", !.click = c])
    BY <1>5, Zenon DEF Click
  <2> DEFINE q == [r EXCEPT !.pc = "integrity", !.click = c]
  <2>2. q._license_cache = r._license_cache /\ q.pc = "integrity"
    BY <1>0 DEF SessionStates
  <2> HIDE DEF q
  <2>3. Goto(s, q)
    BY <2>1 DEF q
  <2> QED BY <2>2, <2>3, <1>1, MovesOn
<1>6. CASE ReloadTab(s)
  <2>1. Goto(s, NewSession)
    BY <1>6, Zenon DEF ReloadTab
  <2>2. GateOK(NewSession, confirmed')
    BY DEF GateOK, NewSession
  <2> QED BY <2>1, <2>2, <1>1, OneGateMoves
<1> QED BY <1>3, <1>4, <1>5, <1>6, Zenon

\* The licence check.  A positive verdict, cached or new, is of a genuine
\* licence; it leads to the setup check only when any machine may use it.
LEMMA CheckLicenseGate ==
    ASSUME IInv, Gates, NEW s \in Sessions, CheckLicense(s)
    PROVE  Gates'
<1> DEFINE r == ses[s]
           v == check_license(s)
           known == [r EXCEPT !._license_cache = v]
<1>0. r \in SessionStates /\ GateOK(r, confirmed)
  BY BySession DEF SessionOK, Gates
<1>1. confirmed' = confirmed
  BY DEF CheckLicense, history
<1>2. v # None
  <2>1. CASE r._license_cache # None
    BY <2>1, Zenon DEF check_license
  <2>2. CASE r._license_cache = None /\ license_file \in Licences
    <3>1. v = [ok |-> verify_license_data(license_file), lic |-> license_file]
      BY <2>2, Zenon DEF check_license
    <3>2. verify_license_data(license_file) \in BOOLEAN
      BY <2>2, FilesAssumption DEF verify_license_data
    <3>3. v \in [ok : BOOLEAN, lic : Licences \cup {BadLicence}]
      BY <3>1, <3>2, <2>2
    <3> QED BY <3>3, VerdictAssumption
  <2>3. CASE r._license_cache = None /\ license_file \notin Licences
    <3>1. v = [ok |-> FALSE, lic |-> BadLicence]
      BY <2>3, Zenon DEF check_license
    <3>2. v \in [ok : BOOLEAN, lic : Licences \cup {BadLicence}]
      BY <3>1
    <3> QED BY <3>2, VerdictAssumption
  <2> QED BY <2>1, <2>2, <2>3
<1>3. v.ok => v.lic.genuine
  <2>1. CASE r._license_cache # None
    <3>1. v = r._license_cache
      BY <2>1, Zenon DEF check_license
    <3> QED BY <3>1, <2>1, <1>0, Zenon DEF GateOK
  <2>2. CASE r._license_cache = None /\ license_file \in Licences
    <3>1. v = [ok |-> verify_license_data(license_file), lic |-> license_file]
      BY <2>2, Zenon DEF check_license
    <3>2. v.ok = verify_license_data(license_file) /\ v.lic = license_file
      BY <3>1
    <3> QED BY <3>2, Zenon DEF verify_license_data
  <2>3. CASE r._license_cache = None /\ license_file \notin Licences
    <3>1. v = [ok |-> FALSE, lic |-> BadLicence]
      BY <2>3, Zenon DEF check_license
    <3>2. ~v.ok
      BY <3>1
    <3> QED BY <3>2
  <2> QED BY <2>1, <2>2, <2>3
<1>4. \/ Goto(s, [known EXCEPT !.pc = "device"])
      \/ Goto(s, [known EXCEPT !.pc = "device", !.again = TRUE])
      \/ v.ok /\ v.lic.fp = AnyMachine /\ Goto(s, [known EXCEPT !.pc = "totp"])
  <2> DEFINE ok == v.ok
             fp == v.lic.fp
  <2>1. CASE ~ok
    BY <2>1, Zenon DEF CheckLicense
  <2>2. CASE ok /\ fp = None
    BY <2>2, Zenon DEF CheckLicense
  <2>3. CASE ok /\ fp # None /\ fp = AnyMachine
    BY <2>3, Zenon DEF CheckLicense
  <2>4. CASE ok /\ fp # None /\ fp # AnyMachine
    BY <2>4, Zenon DEF CheckLicense
  <2> QED BY <2>1, <2>2, <2>3, <2>4, Zenon
<1> HIDE DEF v
<1>5. CASE Goto(s, [known EXCEPT !.pc = "device"])
  <2> DEFINE q == [known EXCEPT !.pc = "device"]
  <2>1. q._license_cache = v /\ q.pc = "device"
    BY <1>0 DEF SessionStates
  <2> HIDE DEF q
  <2>2. q.pc # "totp" /\ q.pc # "idle"
    BY <2>1
  <2>3. GateOK(q, confirmed)
    BY <2>1, <2>2, <1>2, <1>3, Zenon DEF GateOK
  <2>4. Goto(s, q)
    BY <1>5 DEF q
  <2> QED BY <2>3, <2>4, <1>1, OneGateMoves
<1>6. CASE Goto(s, [known EXCEPT !.pc = "device", !.again = TRUE])
  <2> DEFINE q == [known EXCEPT !.pc = "device", !.again = TRUE]
  <2>1. q._license_cache = v /\ q.pc = "device"
    BY <1>0 DEF SessionStates
  <2> HIDE DEF q
  <2>2. q.pc # "totp" /\ q.pc # "idle"
    BY <2>1
  <2>3. GateOK(q, confirmed)
    BY <2>1, <2>2, <1>2, <1>3, Zenon DEF GateOK
  <2>4. Goto(s, q)
    BY <1>6 DEF q
  <2> QED BY <2>3, <2>4, <1>1, OneGateMoves
<1>7. CASE v.ok /\ v.lic.fp = AnyMachine /\ Goto(s, [known EXCEPT !.pc = "totp"])
  <2> DEFINE q == [known EXCEPT !.pc = "totp"]
  <2>1. q._license_cache = v /\ q.pc = "totp"
    BY <1>0 DEF SessionStates
  <2> HIDE DEF q
  <2>2. q.pc \notin {"device", "open device", "fill device", "idle"}
    BY <2>1
  <2>3. Entitled(q)
    BY <2>1, <1>2, <1>3, <1>7, Zenon DEF Entitled
  <2>4. GateOK(q, confirmed)
    BY <2>1, <2>2, <2>3, <1>3, Zenon DEF GateOK
  <2>5. Goto(s, q)
    BY <1>7 DEF q
  <2> QED BY <2>4, <2>5, <1>1, OneGateMoves
<1> QED BY <1>4, <1>5, <1>6, <1>7

\* The machine id, read or made up and written.
LEMMA DeviceGate ==
    ASSUME IInv, Gates, NEW s \in Sessions,
           \/ ReadDeviceId(s) \/ MakeDeviceId(s)
           \/ OpenDeviceFile(s) \/ FillDeviceFile(s)
    PROVE  Gates'
<1> DEFINE r == ses[s]
<1>0. r \in SessionStates /\ GateOK(r, confirmed) /\ SessionOK(r, confirmed)
  BY BySession DEF SessionOK, Gates
<1>1. confirmed' = confirmed
  BY DEF ReadDeviceId, MakeDeviceId, OpenDeviceFile, FillDeviceFile, history
<1>2. r.pc \in {"device", "open device", "fill device"}
  BY DEF ReadDeviceId, MakeDeviceId, OpenDeviceFile, FillDeviceFile
<1>3. r._license_cache # None
  BY <1>0, <1>2, Zenon DEF GateOK
<1>4. ASSUME NEW i \in DeviceIds, Goto(s, AfterId(r, i)) PROVE Gates'
  BY <1>0, <1>1, <1>3, <1>4, AfterIdGate, OneGateMoves
<1>5. ASSUME NEW q \in SessionStates, Goto(s, q), q._license_cache = r._license_cache,
             q.pc \in {"open device", "fill device"}
      PROVE  Gates'
  <2>1. q.pc # "totp" /\ q.pc # "idle"
    BY <1>5
  <2>2. GateOK(q, confirmed')
    BY <2>1, <1>0, <1>3, <1>5, Zenon DEF GateOK
  <2> QED BY <2>2, <1>1, <1>5, OneGateMoves
<1>6. CASE ReadDeviceId(s)
  <2>1. device_file \in DeviceIds /\ Goto(s, AfterId(r, device_file))
    BY <1>6, Zenon DEF ReadDeviceId
  <2> QED BY <2>1, <1>4
<1>7. CASE MakeDeviceId(s)
  <2>1. PICK i \in FreshIds :
          Goto(s, IF writable THEN [r EXCEPT !.pc = "open device", !.id = i]
                  ELSE AfterId(r, i))
    BY <1>7, Zenon DEF MakeDeviceId
  <2>2. i \in DeviceIds
    BY Zenon DEF FreshIds
  <2>3. CASE writable
    <3> DEFINE q == [r EXCEPT !.pc = "open device", !.id = i]
    <3>1. Goto(s, q)
      BY <2>1, <2>3, Zenon
    <3>2. q \in SessionStates /\ q._license_cache = r._license_cache /\ q.pc = "open device"
      BY <1>0, <2>2 DEF SessionStates
    <3> HIDE DEF q
    <3> QED BY <3>1, <3>2, <1>5
  <2>4. CASE ~writable
    <3>1. Goto(s, AfterId(r, i))
      BY <2>1, <2>4, Zenon
    <3> QED BY <3>1, <2>2, <1>4
  <2> QED BY <2>3, <2>4
<1>8. CASE OpenDeviceFile(s)
  <2> DEFINE q == [r EXCEPT !.pc = "fill device"]
  <2>1. Goto(s, q)
    BY <1>8, Zenon DEF OpenDeviceFile
  <2>2. q \in SessionStates /\ q._license_cache = r._license_cache /\ q.pc = "fill device"
    BY <1>0 DEF SessionStates
  <2> HIDE DEF q
  <2> QED BY <2>1, <2>2, <1>5
<1>9. CASE FillDeviceFile(s)
  <2>1. r.pc = "fill device" /\ Goto(s, AfterId(r, r.id))
    BY <1>9 DEF FillDeviceFile
  <2>2. r.id \in DeviceIds
    BY <2>1, <1>0 DEF SessionOK
  <2> QED BY <2>1, <2>2, <1>4
<1> QED BY <1>6, <1>7, <1>8, <1>9, Zenon

\* The setup check: an entitled session is shown the lab when complete
\* secrets are on disk, and those were confirmed.
LEMMA CheckSetupGate ==
    ASSUME IInv, Gates, NEW s \in Sessions, CheckSetup(s)
    PROVE  Gates'
<1> DEFINE r == ses[s]
<1>0. r \in SessionStates /\ GateOK(r, confirmed)
  BY BySession DEF SessionOK, Gates
<1>1. confirmed' = confirmed
  BY DEF CheckSetup, history
<1>2. Entitled(r)
  BY <1>0, Zenon DEF CheckSetup, GateOK
<1>3. CASE totp_file \in Secrets
  <2> DEFINE q == Show(s, "lab")
  <2>1. Goto(s, q)
    BY <1>3, Zenon DEF CheckSetup
  <2>2. q._license_cache = r._license_cache /\ q.id = r.id /\ q.pc = "idle"
    BY <1>0 DEF Show, SessionStates
  <2>3. SetUp(confirmed)
    BY <1>3, Zenon DEF SetUp, IInv, SecretsConfirmed
  <2> HIDE DEF q
  <2>4. q.pc \notin {"device", "open device", "fill device", "totp"}
    BY <2>2
  <2>5. Entitled(q)
    BY <1>2, <2>2, Zenon DEF Entitled
  <2>6. GateOK(q, confirmed')
    BY <2>2, <2>3, <2>4, <2>5, <1>0, <1>1, Zenon DEF GateOK
  <2> QED BY <2>1, <2>6, <1>1, OneGateMoves
<1>4. CASE totp_file \notin Secrets
  <2> DEFINE q == [r EXCEPT !.pc = "setup"]
  <2>1. Goto(s, q)
    BY <1>4, Zenon DEF CheckSetup
  <2>2. q._license_cache = r._license_cache /\ q.pc = "setup"
    BY <1>0 DEF SessionStates
  <2> HIDE DEF q
  <2> QED BY <2>1, <2>2, <1>1, MovesOn
<1> QED BY <1>3, <1>4

\* Activation and the setup wizard never show the lab themselves: they end
\* in a run that passes the gates again.
LEMMA WizardGate ==
    ASSUME IInv, Gates, NEW s \in Sessions,
           \/ OpenLicenseFile(s) \/ FillLicenseFile(s)
           \/ ShowSetup(s) \/ ConfirmRole(s) \/ OpenSecretsFile(s) \/ FillSecretsFile(s)
    PROVE  Gates'
<1> DEFINE r == ses[s]
<1>0. r \in SessionStates /\ GateOK(r, confirmed)
  BY BySession DEF SessionOK, Gates
<1>1. confirmed \subseteq confirmed'
  <2>1. CASE ConfirmRole(s)
    <3>1. \E x \in pending(s) : confirmed' = confirmed \cup {<<x, r._setup_step + 1>>}
      BY <2>1, Zenon DEF ConfirmRole
    <3> QED BY <3>1
  <2>2. CASE ~ConfirmRole(s)
    <3>1. UNCHANGED history
      BY <2>2, Zenon DEF OpenLicenseFile, FillLicenseFile, ShowSetup, OpenSecretsFile,
                         FillSecretsFile
    <3> QED BY <3>1 DEF history
  <2> QED BY <2>1, <2>2
<1>2. CASE OpenLicenseFile(s)
  <2> DEFINE q == [r EXCEPT !.pc = "fill license", !._license_cache = None]
  <2>1. Goto(s, q)
    BY <1>2, Zenon DEF OpenLicenseFile
  <2>2. q._license_cache = None /\ q.pc = "fill license"
    BY <1>0 DEF SessionStates
  <2> HIDE DEF q
  <2>3. q.pc \notin {"device", "open device", "fill device", "totp", "idle"}
    BY <2>2
  <2>4. GateOK(q, confirmed')
    BY <2>2, <2>3, Zenon DEF GateOK
  <2> QED BY <2>1, <2>4, <1>1, OneGateMoves
<1>3. ASSUME NEW q, Goto(s, Rerun(q)), q \in SessionStates,
             q._license_cache = r._license_cache
      PROVE  Gates'
  <2> DEFINE z == Rerun(q)
  <2>1. z._license_cache = r._license_cache /\ z.pc = "integrity"
    BY <1>3 DEF Rerun, SessionStates
  <2>2. Goto(s, z)
    BY <1>3
  <2> HIDE DEF z
  <2> QED BY <2>1, <2>2, <1>1, MovesOn
<1>4. CASE FillLicenseFile(s)
  <2>1. Goto(s, Rerun(r))
    BY <1>4, Zenon DEF FillLicenseFile
  <2> QED BY <2>1, <1>0, <1>3
<1>5. CASE ShowSetup(s)
  <2>1. PICK x \in pending(s) : Goto(s, [Show(s, "setup") EXCEPT !._pending_totp = x])
    BY <1>5, Zenon DEF ShowSetup
  <2> DEFINE p == Show(s, "setup")
             q == [p EXCEPT !._pending_totp = x]
  <2>2. p \in SessionStates /\ p.pc = "idle" /\ p.screen = "setup"
        /\ p._license_cache = r._license_cache
    BY <1>0 DEF Show, SessionStates
  <2>3. Goto(s, q)
    BY <2>1
  <2> HIDE DEF p
  <2>4. q._license_cache = r._license_cache /\ q.pc = "idle" /\ q.screen = "setup"
    BY <2>2 DEF SessionStates
  <2> HIDE DEF q
  <2> QED BY <2>3, <2>4, <1>1, MovesOn
<1>6. CASE ConfirmRole(s)
  <2>1. PICK x \in pending(s) :
          Goto(s, Rerun([r EXCEPT !._pending_totp = x, !._setup_step = @ + 1]))
    BY <1>6, Zenon DEF ConfirmRole
  <2>2. x \in Secrets
    BY PendingOK
  <2>3. r._setup_step + 1 \in 0..2
    <3>1. r._setup_step < 2
      BY <1>6, Zenon DEF ConfirmRole
    <3>2. r._setup_step \in 0..2
      BY <1>0 DEF SessionStates
    <3> QED BY <3>1, <3>2
  <2> DEFINE q == [r EXCEPT !._pending_totp = x, !._setup_step = @ + 1]
  <2>4. q \in SessionStates /\ q._license_cache = r._license_cache
    BY <1>0, <2>2, <2>3 DEF SessionStates
  <2>5. Goto(s, Rerun(q))
    BY <2>1
  <2> HIDE DEF q
  <2> QED BY <2>4, <2>5, <1>3
<1>7. CASE OpenSecretsFile(s)
  <2>1. PICK x \in pending(s) :
          Goto(s, [r EXCEPT !.pc = "fill secrets", !._pending_totp = x])
    BY <1>7, Zenon DEF OpenSecretsFile
  <2> DEFINE q == [r EXCEPT !.pc = "fill secrets", !._pending_totp = x]
  <2>2. q._license_cache = r._license_cache /\ q.pc = "fill secrets"
    BY <1>0 DEF SessionStates
  <2>3. Goto(s, q)
    BY <2>1
  <2> HIDE DEF q
  <2> QED BY <2>2, <2>3, <1>1, MovesOn
<1>8. CASE FillSecretsFile(s)
  <2> DEFINE q == [r EXCEPT !._pending_totp = None, !._setup_step = 0]
  <2>1. Goto(s, Rerun(q))
    BY <1>8, Zenon DEF FillSecretsFile
  <2>2. 0 \in 0..2
    OBVIOUS
  <2>3. q \in SessionStates /\ q._license_cache = r._license_cache
    BY <1>0, <2>2 DEF SessionStates
  <2> HIDE DEF q
  <2> QED BY <2>1, <2>3, <1>3
<1> QED BY <1>2, <1>4, <1>5, <1>6, <1>7, <1>8, Zenon

\* Every tab that is shown the lab is entitled to it, in a workstation that
\* has been set up, for any number of tabs, licences, machine ids and crashes.
THEOREM LabOpensToEntitled == Spec => []LabEntitled
<1>1. Init => Gates
  <2>1. \A c : GateOK(NewSession, c)
    BY DEF GateOK, NewSession
  <2> QED BY <2>1 DEF Init, Gates
<1>2. IInv /\ Gates /\ [Next]_vars => Gates'
  <2> SUFFICES ASSUME IInv, Gates, [Next]_vars PROVE Gates'
    OBVIOUS
  <2>1. ASSUME NEW s \in Sessions, Run(s) PROVE Gates'
    BY <2>1, ChecksGate, CheckLicenseGate, DeviceGate, CheckSetupGate, WizardGate, Zenon DEF Run
  <2>2. ASSUME NEW s \in Sessions, Click(s) \/ ReloadTab(s) PROVE Gates'
    BY <2>2, ChecksGate, Zenon
  <2>3. CASE Crash
    BY <2>3 DEF Crash, Gates, GateOK, NewSession
  <2>4. CASE DayPasses \/ FileModified \/ UNCHANGED vars
    <3>1. ses' = ses /\ confirmed' = confirmed
      BY <2>4 DEF DayPasses, FileModified, vars, history
    <3> QED BY <3>1 DEF Gates
  <2> QED BY <2>1, <2>2, <2>3, <2>4, Zenon DEF Next
<1>3. Gates => LabEntitled
  <2> SUFFICES ASSUME Gates, NEW s \in Sessions, ses[s].screen = "lab", ses[s].pc = "idle"
               PROVE  Entitled(ses[s]) /\ SetUp(confirmed)
    BY Zenon DEF LabEntitled, Entitled, SetUp
  <2> QED BY Zenon DEF Gates, GateOK
<1> QED BY <1>1, <1>2, <1>3, SetupInvariant, PTL DEF Spec


-----------------------------------------------------------------------------
(* The machine id.  Only three steps have to do with writing it.              *)

Writing == {"open device", "fill device"}

\* The other steps leave the file alone and no session about to write it.
LEMMA OthersDoNotWrite ==
    ASSUME IInv, NEW s \in Sessions, ses[s].pc \notin Writing,
           Run(s) \/ Click(s) \/ ReloadTab(s), ~MakeDeviceId(s)
    PROVE  device_file' = device_file /\ \E q : Goto(s, q) /\ q.pc \notin Writing
<1> DEFINE r == ses[s]
<1>0. r \in SessionStates
  BY BySession DEF SessionOK
<1>1. ~OpenDeviceFile(s) /\ ~FillDeviceFile(s)
  BY DEF OpenDeviceFile, FillDeviceFile, Writing
<1>2. device_file' = device_file
  BY <1>1, Zenon DEF Run, Click, ReloadTab, CheckIntegrity, CheckLicense, ReadDeviceId, CheckSetup,
     ShowActivation, OpenLicenseFile, FillLicenseFile, ShowSetup, ConfirmRole,
     OpenSecretsFile, FillSecretsFile, files
<1>3. \A screen : Show(s, screen).pc \notin Writing
  BY <1>0 DEF Show, SessionStates, Writing
<1>4. \A q \in SessionStates : Rerun(q).pc \notin Writing
  BY DEF Rerun, SessionStates, Writing
<1>5. CASE CheckIntegrity(s)
  <2>1. [r EXCEPT !.pc = "license"].pc \notin Writing
    BY <1>0 DEF SessionStates, Writing
  <2> QED BY <2>1, <1>2, <1>3, <1>5, Zenon DEF CheckIntegrity
<1>6. CASE CheckLicense(s)
  <2> DEFINE v == check_license(s)
             ok == v.ok
             fp == v.lic.fp
             known == [r EXCEPT !._license_cache = v]
  <2>1. \/ Goto(s, [known EXCEPT !.pc = "device"])
        \/ Goto(s, [known EXCEPT !.pc = "device", !.again = TRUE])
        \/ Goto(s, [known EXCEPT !.pc = "totp"])
    <3>1. CASE ~ok
      BY <3>1, <1>6, Zenon DEF CheckLicense
    <3>2. CASE ok /\ fp = None
      BY <3>2, <1>6, Zenon DEF CheckLicense
    <3>3. CASE ok /\ fp # None /\ fp = AnyMachine
      BY <3>3, <1>6, Zenon DEF CheckLicense
    <3>4. CASE ok /\ fp # None /\ fp # AnyMachine
      BY <3>4, <1>6, Zenon DEF CheckLicense
    <3> QED BY <3>1, <3>2, <3>3, <3>4, Zenon
  <2> HIDE DEF v
  <2>2. /\ [known EXCEPT !.pc = "device"].pc \notin Writing
        /\ [known EXCEPT !.pc = "device", !.again = TRUE].pc \notin Writing
        /\ [known EXCEPT !.pc = "totp"].pc \notin Writing
    BY <1>0 DEF SessionStates, Writing
  <2> QED BY <2>1, <2>2, <1>2, Zenon
<1>7. CASE ReadDeviceId(s)
  <2>1. \A q \in AfterIdStates(r, device_file) : q.pc \notin Writing
    BY <1>0 DEF AfterIdStates, SessionStates, Writing
  <2>2. AfterId(r, device_file).pc \notin Writing
    BY <2>1, AfterIdCases
  <2>3. Goto(s, AfterId(r, device_file))
    BY <1>7, Zenon DEF ReadDeviceId
  <2> QED BY <2>2, <2>3, <1>2, Zenon
<1>8. CASE CheckSetup(s)
  <2>1. [r EXCEPT !.pc = "setup"].pc \notin Writing
    BY <1>0 DEF SessionStates, Writing
  <2> QED BY <2>1, <1>2, <1>3, <1>8, Zenon DEF CheckSetup
<1>9. CASE ShowActivation(s)
  BY <1>2, <1>3, <1>9, Zenon DEF ShowActivation
<1>10. CASE OpenLicenseFile(s)
  <2>1. [r EXCEPT !.pc = "fill license", !._license_cache = None].pc \notin Writing
    BY <1>0 DEF SessionStates, Writing
  <2> QED BY <2>1, <1>2, <1>10, Zenon DEF OpenLicenseFile
<1>11. CASE FillLicenseFile(s)
  BY <1>0, <1>2, <1>4, <1>11, Zenon DEF FillLicenseFile
<1>12. CASE ShowSetup(s)
  <2> DEFINE p == Show(s, "setup")
  <2>1. p \in SessionStates /\ p.pc = "idle"
    BY <1>0 DEF Show, SessionStates
  <2> HIDE DEF p
  <2>2. \A x : [p EXCEPT !._pending_totp = x].pc \notin Writing
    BY <2>1 DEF SessionStates, Writing
  <2>3. \E x : Goto(s, [p EXCEPT !._pending_totp = x])
    BY <1>12, Zenon DEF ShowSetup, p
  <2> QED BY <2>2, <2>3, <1>2, Zenon
<1>13. CASE ConfirmRole(s)
  <2>1. \A x, n : Rerun([r EXCEPT !._pending_totp = x, !._setup_step = n]).pc \notin Writing
    BY <1>0 DEF Rerun, SessionStates, Writing
  <2> QED BY <2>1, <1>2, <1>13, Zenon DEF ConfirmRole
<1>14. CASE OpenSecretsFile(s)
  <2>1. \A x : [r EXCEPT !.pc = "fill secrets", !._pending_totp = x].pc \notin Writing
    BY <1>0 DEF SessionStates, Writing
  <2> QED BY <2>1, <1>2, <1>14, Zenon DEF OpenSecretsFile
<1>15. CASE FillSecretsFile(s)
  <2>1. Rerun([r EXCEPT !._pending_totp = None, !._setup_step = 0]).pc \notin Writing
    BY <1>0 DEF Rerun, SessionStates, Writing
  <2> QED BY <2>1, <1>2, <1>15, Zenon DEF FillSecretsFile
<1>16. CASE Click(s)
  <2>1. \A c : [r EXCEPT !.pc = "integrity", !.click = c].pc \notin Writing
    BY <1>0 DEF SessionStates, Writing
  <2> QED BY <2>1, <1>2, <1>16, Zenon DEF Click
<1>17. CASE ReloadTab(s)
  <2>1. NewSession.pc \notin Writing
    BY DEF NewSession, Writing
  <2> QED BY <2>1, <1>2, <1>17, Zenon DEF ReloadTab
<1> QED BY <1>1, <1>5, <1>6, <1>7, <1>8, <1>9, <1>10, <1>11, <1>12, <1>13, <1>14, <1>15,
           <1>16, <1>17, Zenon DEF Run

\* A machine id that is on disk while nobody is about to write one stays for
\* good, whatever the tabs, the crashes and the other files do.
THEOREM MachineIdSettles == Spec => DeviceIdSettles
<1>1. ASSUME IInv, [Next]_vars, NEW i \in DeviceIds, Settled(i) PROVE Settled(i)'
  <2>0. ses \in [Sessions -> SessionStates] /\ device_file = i
        /\ \A s \in Sessions : ses[s].pc \notin Writing
    BY <1>1, BySession DEF Settled, Writing
  <2>1. ASSUME NEW s \in Sessions, Run(s) \/ Click(s) \/ ReloadTab(s) PROVE Settled(i)'
    <3>1. ~MakeDeviceId(s)
      BY <2>0, Zenon DEF MakeDeviceId
    <3>2. device_file' = device_file /\ \E q : Goto(s, q) /\ q.pc \notin Writing
      BY <2>0, <2>1, <3>1, <1>1, OthersDoNotWrite
    <3> QED BY <2>0, <3>2 DEF Settled, Goto, Writing
  <2>2. CASE Crash
    BY <2>0, <2>2 DEF Crash, files, Settled, NewSession
  <2>3. CASE DayPasses \/ FileModified \/ UNCHANGED vars
    <3>1. ses' = ses /\ device_file' = device_file
      BY <2>3 DEF DayPasses, FileModified, vars, files
    <3> QED BY <2>0, <3>1 DEF Settled, Writing
  <2> QED BY <1>1, <2>1, <2>2, <2>3, Zenon DEF Next
<1>2. IInv /\ [Next]_vars => [\A i \in DeviceIds : Settled(i) => Settled(i)']_vars
  BY <1>1, Zenon
<1> QED BY <1>2, SetupInvariant, PTL DEF Spec, DeviceIdSettles
=============================================================================
