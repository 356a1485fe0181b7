# Cryptex Lab: TLA+ specifications and proofs

Cryptex Lab is an offline workstation for wallet recovery: a Streamlit
application (`app.py`) over a set of Python modules, started by `launcher.py` and
driving the BTCRecover engine as a child process. This directory holds
specifications of the parts of it that keep state, run concurrently, or can fail
half way, the TLC configurations that check them on small instances, and TLAPS
proofs of the properties that matter most.

Two facts about Streamlit shape every module.

* A browser tab is a *session*: it has its own `st.session_state` and its own
  script thread. All sessions are threads of one process and share module
  globals and the files of the working directory.
* A click starts a *run* of the script from the top. Widgets are drawn again as
  the run passes them, and the code under `if st.button(...)` executes only if
  the run gets that far. `st.rerun()` and a click elsewhere end a run from inside
  any `st.*` call by raising an exception that is not an `Exception`: `except
  Exception` does not see it, `finally` does.

## 1. Inventory

| Component | State | Operations | What is hard | What makes it correct |
|---|---|---|---|---|
| Start-up gates (`app.main`, `license_utils`, `machine_id`, `integrity`) | `license.json`, `totp_secrets.json`, the device id file; `_license_cache`, `_pending_totp`, `_setup_step` | the gates of each run, activation, the two-step 2FA setup, save | tabs racing over the same files, a crash between truncating and filling a file, verdicts cached for the life of a tab | the lab opens only to an entitled session; the secrets saved are ones the user confirmed; no gate loops |
| Session router (`app.main`, `render_sidebar`, `_totp_dialog`, `render_authorization_workflow`, `audit`, `modes`) | mode, role, page, authorization and case of each session; `audit.jsonl` | switch mode, pick a role, 2FA dialog, navigate, authorize, launch, export, wipe | long sequences of legal clicks; several sessions interleaving in one log | a locked page runs only offline and under a live authorization that its audit line matches |
| Pool engines (`passphrase_`, `bip38_`, `slip39_`, `electrum_`, `brain_wallet_`, `walletdat_utils`) | chunks, the pool, results received, matches, counters | start, take, finish, receive, callback, truncate, return | results out of order, a process killed, a rerun raised in the callback, the last short chunk, the cap | nothing tested twice or skipped; the answer is exact unless truncated; it ends |
| Mnemonic searches (`recovery_utils`) | tasks, candidates, counters | four searches with refusals, task loop, cap | limits inside nested loops, repeated words, two computations of the search space | exact result, exact count, the first candidates in order |
| Verification pages (`app.page_incomplete_seed`, `page_walletdat`, `btcrecover_utils`) | handler, child process, pipe, temp files | write temp files, spawn, read, wait, kill, draw the verdict | timeouts, a child that dies or is abandoned, a run stopped while it draws | temp files go; a value that was read is shown; the verdict follows the engine |
| Case files and export (`case_utils`, `export_utils`, deriving pages) | registry, active case, evidence, `last_derivations` | create, activate, attach, derive, export, wipe | a table that outlives its case; rows of different shapes behind one key; ids of one-second resolution | evidence stays with its case; every kept table can be exported; a wipe leaves nothing |
| BTCRecover's resumable search (`btcrecover/btcrecover/btcrpass.py`: `main`, `do_autosave`, `load_savestate`) | two save slots in one file, the count of passwords tried, the pool | start or restore, save, hand out and collect chunks, interrupt, crash | a process lost inside a save; results out of order; a signal between counting and saving | no progress is lost and no password passed over; every sitting gives the answer of one undisturbed sitting |
| BTCRecover's password order (`password_generator`, `password_generator_factory`, `DuplicateChecker`) | the generator, the cache of seen passwords, the skip count | count, skip, search, restore with changed options | one generator counted, skipped and searched; a cache built in one run and used in the next | counting, skipping and searching see the same sequence |
| Launcher (`launcher.py`) | the server process, the port | start, poll, open, wait, stop | signals at any step, nested `_stop`, a deadline, a port in use | no server is left behind; every wait ends |
| Live lookups and the Soundex index (`live_utils`, `recovery_utils._get_soundex_index`) | two module globals shared by the threads of all sessions | rate limit and request; fill and look up | read and written without a lock | bursts are bounded; a filled index misses no word |
| Release (`release`, `package`, `compile_modules`, `generate_keys`, `integrity`) | the working directory, `dist/compiled`, the archive, the key | compile, hash, sign, archive, verify | files edited or builds failing in between; what older builds left | an archive ships one tree; no mixture passes the check |
| Installation (`install`, `update`, `uninstall`) | the folder, the virtual environment, the desktop entry | unpack, install, update, uninstall | every step may break off, and is tried again | the scripts' messages are true; trying again works in the end |
| Candidate generators (`tokenlist_utils`, `passphrase_utils._mutate`, Levenshtein, keyboard neighbours) | none | pure functions | wildcards and anchors | not modelled, see section 8 |
| Address scans (`derivation_utils`, `find_*`) | none | loops over coins, accounts, indices | failures swallowed inside the loop | row shapes only, in `CaseFile` |
| wallet.dat parser, forensic, entropy and hash tools, rendering, tutorial generator, the wallets, seeds and libraries of BTCRecover | none, or third-party | | | out of scope, see section 8 |

Interactions: the gates precede the router in every run; the router calls the page
handlers; handlers call the search engines with a progress callback that draws on
the page (so a rerun can unwind through an engine), and the engine runner with a
line callback; deriving pages leave their table in the session for the exporter;
router and exporter append to the audit log. The launcher owns the server process
in which all sessions are threads; the release scripts make what the installation
scripts unpack, and the integrity gate of the start-up checks the result.

The hazards, each with its line and the properties that watch it, are in
`PROJECT.json`.

## 2. Modules

| Module | Models | Proofs | Instance for TLC |
|---|---|---|---|
| `Session` | the router and the audit log | `CaseworkProofs` | `MCSession` |
| `Workstation` | the gates and their files | `WorkstationProofs` | `MCWorkstation` |
| `Search` | *abstract*: what any search engine promises | with the two below | through the two below |
| `PoolSearch` | the six pool engines; implements `Search` | `PoolSearchProofs` | `MCPoolSearch` |
| `SeedSearch` | the four mnemonic searches; implements `Search` | `SeedSearchProofs` | `MCSeedSearch` |
| `Verification` | verification pages, engine runner, child process | `VerificationProofs` | `MCVerification` |
| `CaseFile` | cases, evidence, derivations, reports | `CaseworkProofs` | `MCCaseFile` |
| `Sweep` | *abstract*: what a resumable search promises | with the next | through the next |
| `Engine` | BTCRecover's search with `--autosave`; implements `Sweep` | `EngineProofs` | `MCEngine` |
| `Stream` | the order in which BTCRecover generates, counts and skips | `StreamProofs` | `MCStream` |
| `Launcher`, `Globals` | the launcher and its server; the unlocked globals | with the next | through the next |
| `Host` | *composition* of the two above | `MachineProofs` | `MCHost` |
| `Release`, `Installation` | the developer's and the client's machine | with the next | through the next |
| `Deployment` | *composition* of the two above | `MachineProofs` | `MCDeployment` |

Mutants of an operator (`Name_HowItIsWrong`) stand directly before it; nothing in a
specification uses them.

### Session

`sess[s]` holds the keys the router reads: `mode`, `role`, `pending` (the role the
selector shows while the code dialog is open), `page`, `authorized`, `auth_case`,
`fails`, `locked`. `log` is `audit.jsonl`; a line has its session as a history
field. An action is a user event with the whole of its handler and the run of
`main` that follows: `Step` sets the session's state and appends the handler's
lines and then the line `main` writes before it calls a page (`RunEntries`).
`Route` is the chain of checks in `main`, in the code's order. `since` and `born`
are history: the length of the log when the role was last set, and when the
session began. Page names, tables of roles and pages are the code's;
`clean_event_value` replaces the names the audit module redacts. The on-screen
activity log is left out.

### Workstation

A session's `pc` is its next access to a file, so the runs of two tabs interleave
exactly there. Files are `NoFile`, `Partial` (opened with "w" and not closed yet,
and what a crash leaves) or a content. `click` is the button that started the run,
honoured only where the run draws it again. Signatures, dates and hashes are
predicates of a licence record and of `intact`. A fingerprint that differs makes the
run ask for the machine id a second time (`again`), for the mismatch screen, and that
access may create the file too. `confirmed` and `devices` are history. `Crash` restarts the server with every file as it is.

### Search, PoolSearch, SeedSearch

`Search` says: the engine examines each place of its input at most once, in any
order and in batches; all hits of a batch are kept, except in the batch that ends
the run; "exhausted" only when nothing is left, "stopped" only with a result,
"refused" before anything was examined; the callback or an error may abort it at any time.

`PoolSearch` has the parent's variables (`matches`, `checked`, `truncated`) and the
pool's (`queue`, `busy`, `results`, `collected`, `lost`). Chunks are named by their
offset. The engines differ in `ChunkSize`, `Cap` and `Dedup`, which are constants
(`Engines` lists the six of the code). The pool is external; a process may be
killed, and takes its chunk with it.

`SeedSearch` runs the tasks of a search in order in the calling thread. A word is
its rank; the checksum and the address filter are sets; the enumerations inside a
task (`product`, `permutations`, `unique_permutations`) are sets of trials. A phrase
of a wrong length may make a task raise (`TaskRaises`), which is an abort of `Search`.
`AskedBy` is the reference definition of each search, free of tasks and order.

### Verification

`page` is the handler (its `pc`, the candidates left, the temp paths it knows, its
`hw_result`, what is shown), `local` the variables of `_run`, `child`/`pipe` the
engine and what it printed. Ticks age the child. Wherever the code draws, the script
may be ended by its user or by an exception: before the call (`EndBeforeCall`), at a
line that is already parsed (`StopInCallback`), at the verdict before its value is on
the page (`EndAtVerdict`). An ordinary exception in the reading loop ends the call and
is its error, and nobody waits for the engine then (`LoopRaises`, `orphans`). The
`finally` clauses are a step for each file, each of which may fail (`UnlinkFails`).
The engine prints a match line and a value, closes its output, exits, or dies at any
point. The server process being killed, which leaves all files, is not modelled.

### CaseFile

One session: the registry maps an id (the second of creation) to a case; a table
of derived addresses is the set of keys of its rows and their number. Fields
ending in `_` are history: which case, by order of creation, a record belongs to.

### Sweep, Engine

`Sweep` has one number, the leading passwords that no sitting will look at again. It
never goes back, never passes a password that opens the wallet, and every answer is
that of one undisturbed sitting.

`Engine` is `main()` from the restored options to its return. `slot` and `empty` are
the autosave file: a slot is the skip count it holds or `Erased`, which stands for
zeroed, truncated and half written alike. A save is two steps (`EraseSlot`,
`WriteSlot`) between which the process may be lost. `busy` and `done` are the pool's
chunks; results are received in the order they were handed out. An interrupt, an
error or a loss of the process may come at every step of a sitting; the user starts
the engine again, up to `MaxSittings` times. The passwords are numbers, because
`Stream` is about their order.

### Stream

`raw` is what the base generator produces, with repetitions. `gen` is the suspended
generator (place, chunk size, whether it yields passwords or counts, the chunk in
the making), `checker` the duplicate checker with its run number, `phase` what
`password_generator_factory` uses the generator for: counting, skipping in batches,
the rest of the skip, the search; `searched` is what the search was given so far, and
`sizes` the sizes of the chunks it came in. `Expected` is the reference definition: filter,
drop repetitions, take the worker's share, drop what fails the checksum (the generator of
a BIP39 search with OpenCL). It counts: `Before(I, n)` is the number of
places of `I` before `n`, and the k-th password is at the place with k - 1 before it.
A sitting may end after any chunk and be
restored, with or without `--no-eta` and `--no-dupchecks`; `changed` is history.

### Launcher, Globals, Host

`Launcher` has one action for each statement of `main` and `_stop` that a signal may
come between. A handler ends in `sys.exit`, so the call it interrupted is not resumed
and `atexit` follows (`stage`). The server is external: it binds the port or fails to,
dies, or sits on SIGTERM. `Globals` has the session threads, a step for each access to
a global: the read in `_rate_limit`, the sleep, `time.time()`, the assignment; and the
index word by word. Times are ages, in ticks, up to one `Gap` (a second); `requests` is
history, how many were sent within each age. `Host` runs
the threads while the server serves; when it dies everything they share is gone.

### Release, Installation, Deployment

The content of a file is a number, new with each edit. The name of an extension is its
module with the tag of the interpreter and platform it was compiled for (`Extensions`,
`Tags`), those of the build that runs (`Start(script, t)`), so extensions of one module
for several interpreters lie side by side in dist/compiled, in an archive and in a
client's folder. `Release` hashes and archives file by file, while the developer may
edit any of them, or go on in a fresh copy of the repository, which has no dist and
maybe no key (`FreshCopy`). `of` and `maker` are history: the tree that a build copied,
`NoTree` once somebody edited a file, and the tag of the interpreter that made the
archive. `Loaded(t)` is what the interpreter of tag `t` takes of the files.

`Installation` unpacks file by file in the order of the archive, and has one step for
each thing the scripts do that can be cut short: interpreter, pip, packages, desktop
entry (`--no-shortcut` is looked at only there), removal. What a broken removal leaves
is chosen freely (`Torn`). `said` is the last message: "complete", or the same after
"not running pip". `Passes` is the gate of `app.main` alone, since launcher.py falls
back to any streamlit (`find_streamlit_executable`); `LabUp` is the lab as the scripts
are to leave it, in their environment, with the packages of its requirements and every
module for `Python`, the client's interpreter. `Deployment` passes archives from one
machine to the other; since the machines share nothing else, their steps commute and the
developer goes first. `MaxFaults` bounds the failures of both together.

## 3. Runs

| Run | Configuration | Shows |
|---|---|---|
| `session` | one session, a page of each kind, roles of each kind, a log of 3 lines, 3 wrong codes | locked pages, elevations and attribution, with every action |
| `gates` | two tabs, four kinds of licence, two device ids, two pairs of secrets, an expiry; keys are pasted in one of the tabs, the build is modified while both show the lab | the gates, crashes and reloads at every point, two tabs in the setup and at the device id file, every run reaches a screen, the device id settles |
| `pool` | two processes, all lists of up to 5 of 5 texts (4 good), chunks of 2, cap 2, one death | exact books, overshoot, refinement, termination |
| `seed_searches` | 3 words, phrases of 3 (and 2, and 4), caps small enough to be hit | exact result and space, the limit and the order, refinement |
| `verify_pages` | up to 4 candidates, batch limit 3, timeout 2, ages to 5 | what is left behind, shown results, termination |
| `verify_timeout` | the same | **violated**: an engine that keeps its output open outlives the timeout |
| `verify_nomatch` | the same | **violated**: "none matched" although some candidates' engines failed |
| `case_files` | 3 cases in 2 seconds, 2 files | custody, exportable tables, wipe, what a new case may replace |
| `engine` | 6 passwords, chunks of 1 and 2, no and 2 workers, save periods 1 and 3, 3 sittings | one good slot, bounded loss, refinement of `Sweep`, an answer in the end |
| `stream` | 82 lists of up to 8 passwords, batches of 2, skips 0, 1 and 9, chunks of 1 and 2, no and 2 worker shares, 2 sittings | one order for counting, skipping and searching, everything tested in the end |
| `host` | two threads, a gap of 2 ticks, 2 words, 1 poll, 1 signal | no server left, bounded bursts, complete index, every wait ends |
| `deploy` | a plain and a compiled module, 2 interpreters to build with, 1 edit or fresh copy, 1 failure of a build or of the client, 2 archives | one tree per archive for the interpreter that made it, no mixture, honest scripts, the lab comes up |

### Why the bounds suffice

*Router.* A grant, an elevation and an access fit in three lines, and an
authorization given in LIVE mode and used after the switch back needs no more.
Three wrong codes reach the lock. One session fires every action; what sessions can
do to each other in one log is covered by the theorems of section 5, which hold for
every number of sessions and lines. *Gates.* Two ids and two pairs of secrets are what
a lost update needs; a reload begins a new session over the files of the old one, and the
safety of any number of tabs is proved. *Pool.* With a list of five, chunks of two give
a short last chunk and three chunks for two processes; four good texts let the list
pass the cap by one; the theorems cover every list, chunk size, cap and pool.
*Mnemonic searches.* Each cap lies inside the space of the jobs, so jobs below, at and
above it occur; repeated words occur in pools; a chunk size of two leaves a short last
task. *Verification.* Three candidates are tried one by one and four in a batch, both
sides of the limit. *Cases.* Three cases in two seconds give a collision and a case
that survives it. *Engine.* Six passwords after a skip of one make three chunks, the
last short; three sittings let the second tear what the first saved and the third
answer; a period of three is no multiple of two. *Stream.* Batches of two make a skip
of nine run past the end, one of one stay inside a batch; a list may begin, end and be
full of repeated, excluded and rejected ones; two sittings are one restoration. *Host.*
Two threads race in every order that a third could only repeat for them; two words
leave a half-filled index; one poll and one signal reach every nesting of `_stop`
(signals inside `atexit` included), and the invariants are proved for all values.
*Deploy.* Two archives unpacked over one another and one edit make every mixture of
two contents; two interpreters leave an older extension beside a new one, in dist, in
an archive and in the folder; one failure breaks a build or an installation, and what
several of them could do is in the safety part, which is proved for all bounds.

`CHECK_DEADLOCK FALSE` stands in `pool` (a parent whose process was killed waits for
ever, which `EventuallyEnds` excepts) and in `engine` and `stream`, which end when the
user does not start another sitting.

The inductive invariants `IInv` and the type invariants of the proof modules' subjects
are properties of no run, but of `pool`: they are theorems, and types
are a part of each.

## 4. Fairness

* `PoolSearch`: weak fairness of the parent and of each process. Nothing is assumed
  of the callback or of deaths; `EventuallyEnds` excepts a lost chunk, because
  `imap_unordered` without a timeout has no way out of one.
* `Workstation`: weak fairness of each session's script thread, none of users or
  the world; `RunsEnd` is stated for behaviours in which crashes stop.
* `Verification`: weak fairness of the script thread and of the engine, since
  `RunEnds` cannot hold for an engine that never stops (see `verify_timeout`).
* `Engine`, `Stream`: the process and its workers are scheduled, and a user who was
  interrupted starts the engine again as long as `MaxSittings` allows; interrupts and
  losses use up sittings, so `Answers` speaks of the sitting nobody disturbs.
* `Host`: the launcher's process is scheduled and its waits end at their timeouts,
  SIGKILL ends a process, time passes and the threads of a serving server are
  scheduled (a request has a timeout of 10 s). Nothing makes a server obey SIGTERM.
* `Deployment`: a script that was started is scheduled; a client keeps trying to
  unpack, to uninstall and to install (strong fairness, since one thing at a time runs
  on the machine). Nobody is forced to build or to send; pip fails finitely often.
* `Session`, `SeedSearch`, `CaseFile`: safety only.

## 5. Proofs

All theorems hold for every value of the constants that satisfies the ASSUMEs of the
modules; no bound of a configuration is used.

* `PoolSearchProofs.PoolInvariant` (`Spec => []IInv`): `EachChunkOnce` (while the
  parent polls, the queue, the processes, the results, the received and the lost
  chunks partition the offsets) and `MatchesExact` (the matches are the good texts
  of the chunks received). Neither is inductive without the other: that a result
  adds new texts only rests on its chunk not having been received. `ChunksCover`
  (every place lies in the chunk of its rounded-down offset) is the arithmetic.
  `PoolImplementsSearch`: receiving a result is `Examine`, the two returns are `Stop` and
  `Exhaust`, the raising callback is `Abort`, and the steps of processes are stutters.
  `PoolKeepsPromise` and `PoolProgresses` state for the pool what `Search` promises its
  caller. `PoolCountsExactly` and `PoolOvershootBounded` rest on `ChunksDisjoint`: the
  chunks received have no place in common, so their sizes add up to the places examined
  in whatever order they come, and a result adds at most a chunk to the matches.
  `PoolNeverStuckAlone`: the parent waits in vain only after a process was lost.
* `SeedSearchProofs.SeedInvariant`, `SeedFindsExactly`, `SeedKeepsFirst`,
  `SeedImplements`. `TasksCover` says that the tasks divide exactly what
  was asked for, and this is where each engine has its argument: the chunk of a first
  word has as its number the word's rank divided by the chunk size, rounded down, and there are enough chunks
  (`ChunkExists`); an arrangement starts with a word of its pool, since it uses each as
  often as the pool has it; the k-th combination of places is the one with k - 1 before
  it (`PlaceTaken`); two lists of tasks run one after the other divide the union. For
  missing words the tasks also follow the order of `product()` (`InOrder`, from ranks and
  `QuotientGrows`), and `FirstPlaces` says what the first few elements of an ordered
  finite set are; hence what fills the list comes before everything else, tried or not.
  `SeedCountsExactly`: no mnemonic is in two tasks (`OneByOne`), so the sizes of the tasks
  run add up to what was tried.
  `SeedSpaceExact`: the search space shown beforehand is what a complete search counts,
  and bounds every search. A product of choices is counted factor by factor, since every
  fibre of a restriction has the size of the last choice (`FibresCount`, `FillCount`); a
  factorial counts bijections (`BijectionsCount`); and making the places of equal words
  one label divides by the factorial of their number (`MergeCount`), so the loop of
  `total_permutations` ends at the arrangements of the pool, without a remainder on the
  way (`PermutationsCount`, `ArrangementsCount`). Typo and extra-word searches may try a
  mnemonic twice, so their count is a sum over tasks (`TypoTally`, `ExtraTally`), which the
  search walks through in the invariant `SpaceOK`. Each loop is a recursive function
  on numbers, and what it computes is shown of the least number at which it would fail
  (`LeastNumber`), which takes the place of an induction theorem.
* `CaseworkProofs.TypeCorrect`, `AuthorizationsBacked`, `LockedPagesGuarded`,
  `CasesAttributed`, `ElevationsTraced`: the action property `LockedAccessAuthorized`
  speaks of lines of the log, the code of a flag. `GrantStands` ties them: a session
  whose flag is set has, since its role was set, a last grant line with its role and
  its case. `CaseKept` does the same for `auth_case_id`, which outlives the flag. The
  trail of an elevation is two lines of one step and those before it.
* `WorkstationProofs.SetupInvariant`, `SavedSecretsConfirmed`, `LabOpensToEntitled`,
  `MachineIdSettles`: `SecretsConfirmed` needs `StepMatchesSecrets` (the secrets a
  session holds are those it confirmed, for as many roles as its step says) and
  `WritesReady` (a session about to fill the file is at the last step). `LabEntitled`
  needs what every earlier gate of a run has established by the place it has reached.
  That the device id settles is an action property: no step replaces a whole id.
* `EngineProofs.EngineInvariant`, `EngineKeepsASlot`, `EngineImplementsSweep`: `SlotsOK`
  (the slot the next save will not touch is the newer one), `ProgressOK` (what is saved
  or about to be saved passes over wrong passwords only), `PoolOK` (every password
  between those received and those handed out is in a chunk some worker holds or has
  tested) and `RightAnswer`. `ProgressOK` needs `PoolOK` when a result is received, and
  `SlotsOK` when a slot is erased. The refinement maps progress to the larger slot.
  `EngineLosesLittle`: a crash loses at most one period of received results, and less
  than one unless it comes in the middle of a due save; chunks that worker processes have
  tested and the engine has not received (a slow one holds up those behind it) are lost on
  top, and nothing bounds them. Its invariant `PaceOK` says that a
  chunk received but for the last is full, that what is saved is whole periods past the
  start, and how far the search is past it, `DebtOK` that what was received since the last
  save is at most a period, also while the save that is due is made; a save is due at every multiple of the
  period, and `NotJumpedOver` says that whole chunks cannot step over one.
* `StreamProofs.StreamInvariant`, `StreamKeepsOrder`, `StreamCountsExactly`,
  `StreamSkipsTested`: whatever the filter, the list, the share of a worker, the batch and
  the chunk size, counting, skipping and searching walk one sequence. `PlaceOK` says that
  the generator's counters are numbers of places (`share` of the fresh ones behind it, what
  left it and what is pending together of those due), so that the next password it lets
  through is the next one expected. Which one it lets through rests on `CheckerOK`: after
  the first run the duplicate checker's table holds exactly the passwords that occur more
  than once or are excluded, and in the second run a mark says which were let through in
  this run. `YieldOK` says that a chunk is short at the end only, `SkipOK` how far the skip
  has come in each of its phases, and `SessionOK` that whatever a restored session skips an
  earlier one has tested, or the user has asked to skip it.
* `MachineProofs.HostInvariant`, `HostLeavesNoServer`, `HostBurstBounded`,
  `HostSearchComplete`: that no server is
  left rests on the phases of `_stop`, whoever called it; `IndexKept` says how far each
  filling thread has come, so that the first that has finished has put in every word.
  `BurstKept` is why a race through `_rate_limit` is bounded. Of a burst that began k ticks
  ago a thread is *stale* if it holds a time from before it and has yet to store it, and
  *armed* if it will take a time before the burst is over. Taking a time disarms; a newer
  time stored arms nobody; a stale thread arms at most all that are not stale, and is stale
  no more. So what was taken and what can still be taken never grows, and it is at most
  n (n + 1) / 2 when a burst begins (`PutBackPays`, `BeginningPays`). `Booked` is what was
  taken: the requests sent in the burst and the threads on their way to one, less one for
  each session, whose request may still belong to a time from before the burst; those n
  make the bound n (n + 3) / 2. The invariant is about every k at once, since time moves
  each burst on and begins another; hence `requests` counts those of *at most* each age.
  The bound is reached, with three threads too (nine requests).
* `MachineProofs.DeploymentInvariant`, `ReleasesExact`, `NoMixtureOpens`,
  `ScriptsTruthful`: `BuildInv` says of an undisturbed build that its temporary copies,
  its hashes and its archive agree with its tree as far as its loops have come (`Copied`,
  `Hashed`, `Zipped`), for the extensions it makes (`Fresh`) and whatever else is in
  dist; hence every archive made of one tree lists what it holds, and for the interpreter
  that made it that is the tree. The folder's manifest came with an archive that was
  received; where that archive has every module for an interpreter, its manifest lists
  all that this interpreter loads, so a folder that passes holds it. `JobInv` says what each step of a script can rely on.
* `VerificationProofs.Invariant`, `LeavesNothing`, `ShowsFound`, `ShowsOnlyFound`:
  `FilesKnown` says that the handler has the path of every complete temporary file but
  those whose unlink failed (a list of seeds is its handler's only file, so no path is
  overwritten); `ChildEnded`, that `_run` is left only when the child has ended or was
  given up; `GivenUp`, that a batch whose engine was given up has an error or a value, or
  was ended; `ResultKept`, that a value read is that of the candidate that matches, comes
  with `found`, and is not dropped between the call that read it and the verdict.
* `CaseworkProofs.CaseInvariant`, `CustodyKept`, `TablesExportable`, `SessionForgotten`,
  `CasesStay`: `CustodyExact` is inductive only with `OneEntryEach` (no two entries of the
  registry are one case): what is attached to a case is attached to no other.

Every invariant and action property of the passing runs of section 3 is a theorem. Checked by
TLC only is liveness (`EventuallyEnds`, `RunsEnd`, `RunEnds`, `Answers`,
`EverythingTested`, `LauncherQuits`, `ThreadsEnd`, `LabComesUp`), which is out of the
prover's reach.

## 6. Disagreements between code and documents

The two violated runs, with the lines they contradict, are the findings of
`PROJECT.json`. Others were met while modelling and follow from the specifications
without a run of their own.

Router, gates and cases:

* `render_sidebar` writes no audit line for a change to an unprotected role, while
  TUTORIAL_CLIENT.md:1072 says every role change is logged; six recovery pages are
  logged as `[REDACTED_SECRET]`, because their names contain redacted words.
* the mode is kept per tab (SECURITY.md:27 speaks of one mode at a time).
* `totp_fail_count` survives the end of a lock, so the dialog accepts a code while it
  says that no attempts remain.
* two tabs in the first-run setup ("First-run TOTP setup — shown once") each save: the
  second replaces what the first has enrolled.
* the licence verdict of a tab outlives activation in another tab and the expiry
  date; two tabs at first start may each make a device id, one of which stays; a
  machine mismatch leaves no way to the activation page.
* a case created in the second of another replaces it and its evidence.
* a report of one case lists addresses derived while another was active, since the
  table outlives the change of case.
* rows of the Electrum page and of hardware presets lack the keys the report prints
  (`coin`, `address_type`, `path` / `address_type`), which are left blank there; the PDF
  reads `opened_at`, which no case has; `export_findings` is never set; the integrity
  hash covers evidence and full rows that the document does not print.

Searches and engine:

* a truncated passphrase attack holds ten matches (app.py:3037 speaks of the first);
  truncated order and typo searches return more than the cap they report;
  `recover_with_typos` does not stop at a confirmed match; `recover_word_order` limits
  permutations, not positions (SECURITY.md:101).
* `recover_missing_words` takes phrases of any length. For some that are not 12, 15, 18,
  21 or 24 words long, 13 say, the checksum raises an OverflowError
  (recovery_utils.py:107), and the pages, which catch ValueError, break off with it.
* README.md:279 says that mnemonics and passphrases "are never written to disk":
  the seed list goes to /tmp where there is no memory-backed directory, and the wallet
  page always writes wallet.dat and the passwords to the temp directory.
* a temp file whose write fails half way is not deleted: its path was never returned. In
  the wallet page a failed unlink of wallet.dat (app.py:4390) leaves the passwords too,
  and raises before the result is shown; in the hybrid page (2253) it passes unseen.
* an exception in the reading loop of `_run` (btcrecover_utils.py:158) neither kills
  the engine nor waits for it; one by one, the next candidate starts beside it.
* btcrpass.py:6283 lets a restored session go on with or without `--no-dupchecks`, which
  it counts among the "Non-Modifying" parameters (6304), while 6617 means to check
  whether a difference "makes a difference to password generation ordering". The skip count then counts other passwords: of a, a, b with a
  count of two, the restored session without the option skips a and b. With `--eta` the
  recount notices a different total; under `--no-eta` nothing does. Some fifteen options may
  differ in the same way (6277-6293); of them `--enable-opencl` changes the passwords too,
  by the generator's checksum filter (btcrseed.py:5276).
* `--worker 4/3` is accepted (6871): ids are compared from zero and given from one.
* the process lost inside the first save of a new autosave file leaves a file that is
  not empty and has no readable slot; every later start refuses it.
* not modelled, but seen: on Windows the console handler saves from its own thread
  (9495), and the hidden option `--dynamic-passwords-count` shares the duplicate checker
  between the first batch of the count and the search of the same run (9717).

Application process:

* `_rate_limit` promises a "minimum 1s wait" between requests (live_utils.py:31), and does
  not keep it: what is spaced is the clock readings before them. One session held up
  after its reading sends two requests within a second; two sessions send up to five,
  and n sessions n (n + 3) / 2. `BurstBounded` is the bound that does hold.
* a search that finds the Soundex index half filled by another session takes it for
  the whole and misses words; `SearchComplete` is about the searches that do not.
* the launcher opens the browser on whatever answers at the port; a signal before the
  handlers are installed, or SIGKILL or SIGHUP sent to it alone, ends it without `_stop`,
  and the server stays; a handler that
  interrupts `_stop` waits its own 5 s.

Deployment:

* an interrupted creation of the virtual environment leaves a python without pip, which
  `create_venv` takes for whole: install.py fails until uninstall.py was run.
* what a broken removal leaves may make pip believe a package is installed.
* compile_modules.py only warns of a missing source, and package.py then ships the
  extension of an earlier build.
* dist/compiled is never emptied and package.py:224 ships every extension in it: after a
  change of Python or platform an older extension of a present source, which has another
  tag in its name (compile_modules.py:139), is shipped and signed with the new one. The
  interpreter that made the package does not load it; the older one would.
* an archive built for another Python leaves the extensions in the client's folder, and
  verify_build_integrity looks at listed files only (integrity.py:52): the client's
  interpreter loads the old ones beside new plain modules, and the check passes.
  `NoMixture` is about archives that have every module for the interpreter at hand.
* install.py:302 and update.py:86 say "complete" under --skip-deps too: on an empty
  machine, `install.py --skip-deps` makes an environment without packages and says
  "Install complete". `ReportsTruth` excepts that option.
* launcher.py:68 falls back to the interpreter it runs with when the environment has no
  streamlit, and an environment with the packages of an older requirements.txt is used
  as it is: the gate of the lab says nothing of either.
* `update.py --skip-deps` makes a desktop entry where no environment is.
* TUTORIAL_CLIENT.md:151 says that the installer verifies the manifest; install.py
  does not, app.py does at every start. A server that is running while an archive is
  unpacked goes on with the modules it has loaded.
* TUTORIAL_DEVELOPER.md:163 describes making a new key; app.py:6398 checks against the
  key in the source, so the archives of a new key pass only once that is changed too.

## 7. Plan

Done: all modules of section 2, with the proofs above.

What could follow:

1. `AddressScan`: the loops of `find_address_match*`, `run_hardware_preset` and the finders
   of the Electrum, SLIP39 and extended-key pages, against a first-match specification.
2. `Candidates`: token lists, mutations and edit distance against reference definitions,
   by TLC only.

## 8. Not modelled

Cryptography (derivation, checksums, decryption, signatures) is a library's and
appears as membership of constant sets. The layout of pages and reports, the terminal,
the activity log and all wording are presentation. The wallet.dat parser, the vault
inspector, the file classifier, entropy tests and hash tools are stateless functions of
one input, best served by the repository's tests. `generate_tutorial_pdf.py` writes a
fixed document; `download_wheels.py` makes one call of pip.

The repository carries a copy of BTCRecover and of the libraries it bundles under
`btcrecover/`: about seven eighths of all Python lines, most of them wallet formats,
ciphers, hash functions, wordlists and transaction code of other projects. They are
pure functions of one candidate, for which a model would only repeat the code. What
keeps state across steps in them, the resumable search and the password order of
`btcrpass.py`, is modelled; so the specifications account for a quarter of the
application's own Python lines and a small part of the whole tree.

## 9. Running

    tlc -config MCPoolSearch.cfg MCPoolSearch      # any run: configuration, module
    tlapm PoolSearchProofs.tla                     # any proof module
