------------------------------ MODULE Release ------------------------------
(***************************************************************************)
(* The developer's machine: release.py, which runs generate_keys.py,       *)
(* compile_modules.py and package.py --compiled (itself a compilation, a   *)
(* signed manifest and an archive).  The developer goes on working in the  *)
(* same directory: every file is read when its step comes.                 *)
(*                                                                         *)
(* The content of a file is a number, a new one for each edit; 0 is a file *)
(* that is not there.  The content of an extension is that of the source   *)
(* it was compiled from; its name is that of the module with the tag of    *)
(* the interpreter and platform it was compiled for, which are those that  *)
(* run the build and may be others for the next one.                       *)
(***************************************************************************)
EXTENDS Naturals, FiniteSets

CONSTANTS
    Plain,         \* PLAIN_MODULES, shipped as source
    Security,      \* SECURITY_MODULES, shipped compiled
    Tags,          \* the tags of interpreters and platforms
    Requirements,  \* requirements.txt, for the files no manifest lists
    NoManifest,    \* the manifest of an archive or a folder without one
    MaxEdits,      \* bound on what the developer does between builds
    MaxFaults      \* bound on the failures of both machines together

\* The files of the working directory.
Sources == Plain \cup Security \cup {Requirements}

\* license_utils.cpython-312-x86_64-linux-gnu.so and the like.
Extensions == [module : Security, tag : Tags]

\* The files of an archive or a client's folder that a manifest may list, and
\* requirements.txt.
Modules == Plain \cup Extensions
Files == Modules \cup {Requirements}

ASSUME ReleaseAssumption ==
    /\ Plain # {} /\ Security # {} /\ Tags # {}
    /\ IsFiniteSet(Files)
    /\ Plain \cap Extensions = {} /\ Requirements \notin Modules
    /\ MaxEdits \in Nat /\ MaxFaults \in Nat

VARIABLES
    tree,      \* the contents of the working directory
    key,       \* private_key.pem: "none", "embedded" (its public half is
               \* PUBKEY_PEM of license_utils.py) or "other"
    compiled,  \* dist/compiled
    build,     \* the build scripts, see Idle
    zip,       \* dist/cryptex_lab_client_compiled.zip
    maker,     \* history: the tag of the interpreter that made it
    edits, buildFaults

rvars == <<tree, key, compiled, build, zip, maker, edits, buildFaults>>

Nothing == [f \in Files |-> 0]
NoTree == [f \in Sources |-> 0]

\* of is history: the tree an archive was made of, NoTree when a file was
\* edited in the meantime.
EmptyZip == [files |-> Nothing, manifest |-> NoManifest, readable |-> "no", of |-> NoTree]

\* pc: the step; script: who started it; tag: the interpreter's, the same in
\* every script that one starts (sys.executable); todo: the files a loop has
\* left; tmp: the extensions in the compiler's temporary directory; hashes:
\* the manifest in the making; of: as in EmptyZip.
Idle == [pc |-> "idle", script |-> "none", tag |-> "none", todo |-> {}, of |-> NoTree,
         tmp |-> [e \in Extensions |-> 0], hashes |-> [f \in Modules |-> 0]]

ReleaseInit ==
    /\ tree = [f \in Sources |-> 1]
    /\ key = "embedded"
    /\ compiled = [e \in Extensions |-> 0]
    /\ build = Idle /\ zip = EmptyZip /\ maker = "none"
    /\ edits = 0 /\ buildFaults = 0

\* The developer saves a file with new content, or moves it away.
Edit(f) ==
    /\ edits < MaxEdits
    /\ edits' = edits + 1
    /\ \E v \in {0, edits + 2} : tree' = [tree EXCEPT ![f] = v]
    /\ build' = [build EXCEPT !.of = NoTree]
    /\ UNCHANGED <<key, compiled, zip, maker, buildFaults>>

\* The developer goes on in a fresh copy of the working directory: dist and
\* the key are not in the repository, and the key has to be carried over.
FreshCopy ==
    /\ build.pc = "idle" /\ edits < MaxEdits
    /\ edits' = edits + 1
    /\ compiled' = [e \in Extensions |-> 0] /\ zip' = EmptyZip /\ maker' = "none"
    /\ key' \in {key, "none"}
    /\ UNCHANGED <<tree, build, buildFaults>>

-----------------------------------------------------------------------------

\* release.py, or package.py --compiled or compile_modules.py by itself, run
\* with the interpreter of tag t.
Start(script, t) ==
    /\ build.pc = "idle"
    /\ build' = [Idle EXCEPT !.pc = IF script = "release" THEN "keys" ELSE "compile",
                             !.script = script, !.tag = t]
    /\ UNCHANGED <<tree, key, compiled, zip, maker, edits, buildFaults>>

\* generate_keys.py loads the key or makes a pair.  Its licence, and its own
\* manifest for runs in the working directory, are not shipped.
GenerateKeys ==
    /\ build.pc = "keys"
    /\ key' = IF key = "none" THEN "other" ELSE key
    /\ build' = [build EXCEPT !.pc = "compile"]
    /\ UNCHANGED <<tree, compiled, zip, maker, edits, buildFaults>>

\* compile_modules: the sources that are there are copied to a temporary
\* directory and compiled in it; a missing one is only a warning.
CopySources ==
    LET present == {e \in Extensions : e.tag = build.tag /\ tree[e.module] # 0}
    IN  /\ build.pc = "compile"
        /\ build' = IF present = {} THEN Idle
                    ELSE [build EXCEPT !.pc = "copy", !.todo = present, !.of = tree,
                                       !.tmp = [e \in Extensions |->
                                                  IF e \in present THEN tree[e.module] ELSE 0]]
        /\ UNCHANGED <<tree, key, compiled, zip, maker, edits, buildFaults>>

\* What follows a compilation: release.py goes on to package.py, which
\* compiles again; package.py goes on to the manifest.
AfterCompile(exts) ==
    CASE build.script = "release" -> [build EXCEPT !.pc = "compile", !.todo = {}, !.script = "package"]
      [] build.script = "package" -> [build EXCEPT !.pc = "hash", !.todo = Plain \cup exts]
      [] OTHER -> Idle

\* Mutant: an extension that is there is taken to be up to date.
CopyOut_IfAbsent(e) ==
    /\ build.pc = "copy" /\ e \in build.todo
    /\ compiled' = [compiled EXCEPT ![e] = IF @ = 0 THEN build.tmp[e] ELSE @]
    /\ build' = IF build.todo # {e} THEN [build EXCEPT !.todo = @ \ {e}]
                ELSE AfterCompile({d \in Extensions : compiled'[d] # 0})
    /\ UNCHANGED <<tree, key, zip, maker, edits, buildFaults>>

\* One extension is copied to dist/compiled under its name, where those of
\* sources that are gone and those for other interpreters stay.
CopyOut(e) ==
    /\ build.pc = "copy" /\ e \in build.todo
    /\ compiled' = [compiled EXCEPT ![e] = build.tmp[e]]
    /\ build' = IF build.todo # {e} THEN [build EXCEPT !.todo = @ \ {e}]
                ELSE AfterCompile({d \in Extensions : compiled'[d] # 0})
    /\ UNCHANGED <<tree, key, zip, maker, edits, buildFaults>>

\* What package.py finds for a file of the archive: every extension there is.
Content(f) == IF f \in Extensions THEN compiled[f] ELSE tree[f]

FirstListed(todo) == IF todo \cap Plain # {} THEN todo \cap Plain ELSE todo

\* Mutant: only the compiled modules are listed.
HashFile_OnlyExtensions(f) ==
    /\ build.pc = "hash" /\ f \in FirstListed(build.todo)
    /\ IF key = "none" \/ Content(f) = 0
       THEN build' = Idle /\ UNCHANGED <<zip, maker>>
       ELSE LET hashes == [build.hashes EXCEPT ![f] = IF f \in Plain THEN 0 ELSE Content(f)]
            IN  IF build.todo # {f}
                THEN build' = [build EXCEPT !.todo = @ \ {f}, !.hashes = hashes] /\ UNCHANGED <<zip, maker>>
                ELSE /\ build' = [build EXCEPT !.pc = "zip", !.hashes = hashes,
                                               !.todo = Plain \cup {Requirements} \cup {e \in Extensions : compiled[e] # 0}]
                     /\ zip' = EmptyZip /\ maker' = build.tag
    /\ UNCHANGED <<tree, key, compiled, edits, buildFaults>>

\* _write_signed_manifest, a file at a time; it exits without a key and when
\* a file is missing.  After the last one the archive is opened and truncated.
HashFile(f) ==
    /\ build.pc = "hash" /\ f \in FirstListed(build.todo)
    /\ IF key = "none" \/ Content(f) = 0
       THEN build' = Idle /\ UNCHANGED <<zip, maker>>
       ELSE LET hashes == [build.hashes EXCEPT ![f] = Content(f)]
            IN  IF build.todo # {f}
                THEN build' = [build EXCEPT !.todo = @ \ {f}, !.hashes = hashes] /\ UNCHANGED <<zip, maker>>
                ELSE /\ build' = [build EXCEPT !.pc = "zip", !.hashes = hashes,
                                               !.todo = Plain \cup {Requirements} \cup {e \in Extensions : compiled[e] # 0}]
                     /\ zip' = EmptyZip /\ maker' = build.tag
    /\ UNCHANGED <<tree, key, compiled, edits, buildFaults>>

\* The order of the archive, which is also the order of unpacking it.
First(todo) ==
    IF todo \cap Extensions # {} THEN todo \cap Extensions
    ELSE IF todo \cap Plain # {} THEN todo \cap Plain
    ELSE todo

\* The next entry; add_file skips a file that is missing.
ZipFile(f) ==
    /\ build.pc = "zip" /\ f \in First(build.todo)
    /\ zip' = [zip EXCEPT !.files[f] = Content(f)]
    /\ build' = [build EXCEPT !.todo = @ \ {f}]
    /\ UNCHANGED <<tree, key, compiled, maker, edits, buildFaults>>

\* The manifest comes last, and closing the archive makes it readable.
ZipManifest ==
    /\ build.pc = "zip" /\ build.todo = {}
    /\ zip' = [zip EXCEPT !.manifest = [hashes |-> build.hashes, key |-> key],
                          !.readable = "yes", !.of = build.of]
    /\ build' = Idle
    /\ UNCHANGED <<tree, key, compiled, maker, edits, buildFaults>>

\* A step fails or is killed, and every script above it gives up.  A failed
\* one still closes its archive, with the entries it has by then.
BuildFails ==
    /\ build.pc # "idle" /\ buildFaults < MaxFaults
    /\ build' = Idle
    /\ IF build.pc = "zip"
       THEN \E r \in {"yes", "no"} : zip' = [zip EXCEPT !.readable = r]
       ELSE UNCHANGED zip
    /\ buildFaults' = buildFaults + 1
    /\ UNCHANGED <<tree, key, compiled, maker, edits>>

BuildStep ==
    \/ GenerateKeys \/ CopySources \/ ZipManifest
    \/ \E e \in Extensions : CopyOut(e)
    \/ \E f \in Files : HashFile(f) \/ ZipFile(f)

ReleaseNext ==
    \/ FreshCopy \/ \E f \in Sources : Edit(f)
    \/ \E s \in {"release", "package", "compile"}, t \in Tags : Start(s, t)
    \/ BuildStep \/ BuildFails

Numbers == 0..(MaxEdits + 1)

Manifests == [hashes : [Modules -> Numbers], key : {"none", "embedded", "other"}] \cup {NoManifest}

Archives == [files : [Files -> Numbers], manifest : Manifests, readable : {"yes", "no"},
             of : [Sources -> Numbers]]

Builds == [pc : {"idle", "keys", "compile", "copy", "hash", "zip"},
           script : {"none", "release", "package", "compile"}, tag : Tags \cup {"none"},
           todo : SUBSET Files, of : [Sources -> Numbers], tmp : [Extensions -> Numbers],
           hashes : [Modules -> Numbers]]

ReleaseTypeOK ==
    /\ tree \in [Sources -> Numbers] /\ compiled \in [Extensions -> Numbers]
    /\ key \in {"none", "embedded", "other"}
    /\ build \in Builds /\ zip \in Archives /\ maker \in Tags \cup {"none"}
    /\ edits \in 0..MaxEdits /\ buildFaults \in 0..MaxFaults

\* verify_build_integrity over the files and the manifest of a folder.
Verifies(files, manifest) ==
    /\ manifest # NoManifest
    /\ manifest.key = "embedded"
    /\ \A f \in Modules : manifest.hashes[f] # 0 => files[f] = manifest.hashes[f]

\* The archive was made whole, of one tree, with the key of the lab's
\* clients.
Sound(archive) ==
    /\ archive.manifest # NoManifest /\ archive.of # NoTree
    /\ archive.manifest.key = "embedded"

\* The source of a file, and what an interpreter takes of an archive or a
\* folder: of the extensions those with its tag.
Source(f) == IF f \in Extensions THEN f.module ELSE f

Loaded(t) == Plain \cup {e \in Extensions : e.tag = t}

\* A package that was made while nobody edited a file, after whatever failed
\* and half finished builds, passes its own integrity check under the
\* embedded key, and for the interpreter that made it ships the working
\* directory as it was when its sources were copied, no older extension among
\* it but one whose source is gone.  (For other interpreters it ships, and
\* lists, whatever older builds have left: dist/compiled is never emptied.)
ReleaseExact ==
    Sound(zip) =>
        /\ zip.readable = "yes" /\ Verifies(zip.files, zip.manifest)
        /\ \A f \in Loaded(maker) \cup {Requirements} :
              zip.of[Source(f)] # 0 => zip.files[f] = zip.of[Source(f)]

\* Why: an undisturbed build (build.of is not NoTree) has the tree it began
\* with, in copies up to where its loops have come.
Listed == Plain \cup {e \in Extensions : compiled[e] # 0}

\* The extensions that the build makes.
Fresh == {e \in Extensions : e.tag = build.tag /\ tree[e.module] # 0}

Copied ==
    /\ build.of = tree
    /\ build.pc \in {"compile", "copy", "hash", "zip"}
    /\ build.pc = "copy" => \A e \in build.todo : build.tmp[e] = tree[e.module]
    /\ build.pc \in {"copy", "hash", "zip"} =>
          \A e \in Fresh : (build.pc = "copy" => e \notin build.todo)
                               => compiled[e] = tree[e.module]

Hashed ==
    /\ build.pc = "hash" => \A f \in Modules :
          build.hashes[f] = IF f \in Listed \ build.todo THEN Content(f) ELSE 0
    /\ build.pc = "zip" => \A f \in Modules :
          build.hashes[f] = IF f \in Listed THEN Content(f) ELSE 0

Zipped ==
    build.pc = "zip" =>
        \A f \in Files : zip.files[f] = IF f \in (Listed \cup {Requirements}) \ build.todo
                                        THEN Content(f) ELSE 0

\* An archive with a manifest lists what it holds.
ListsContent(a) ==
    a.manifest # NoManifest /\ a.of # NoTree =>
        \A f \in Modules : a.manifest.hashes[f] = a.files[f]

BuildInv ==
    /\ build.of # NoTree => Copied /\ Hashed /\ Zipped
    /\ build.pc \in {"keys", "compile", "copy"} => \A f \in Modules : build.hashes[f] = 0
    /\ build.pc = "hash" => build.todo \subseteq Listed
    /\ build.pc = "zip" => build.todo \subseteq Listed \cup {Requirements}
    /\ build.pc = "zip" => zip.manifest = NoManifest /\ maker = build.tag
    /\ ListsContent(zip)
    /\ ReleaseExact
=============================================================================
