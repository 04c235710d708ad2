----------------------------- MODULE ModelInstall ------------------------------
(***************************************************************************)
(* How a starting service process comes by its face models (FaceEngine in  *)
(* face.py, as main.py creates it): it verifies the pack in the model      *)
(* directory against its manifest, installs another one through a          *)
(* temporary directory if need be, and lets InsightFace load the           *)
(* directory.  InsightFace, a library, downloads and extracts a pack of    *)
(* its own when it finds no directory.  Processes of one host share the    *)
(* directory, start with the manifest then deployed, and may fail or be    *)
(* killed at every step.  A rename is atomic; so are, here, the            *)
(* verification of a whole directory and the reading of one file.          *)
(***************************************************************************)
EXTENDS FiniteSets

CONSTANTS
    Process,
    File,       \* names of model files
    Expected,   \* MODEL_FILES
    Content,    \* what a file can hold; a digest tells contents apart
    NoFile, NoDir, NoManifest,
    Foreign,    \* what InsightFace writes into a file, all of it or part
    Manifest    \* manifests an operator may deploy: contents by file name

ASSUME FileAssumption == Expected \subseteq File
ASSUME ContentAssumption ==
    /\ Content \cap {NoFile, Foreign} = {}
    /\ NoDir \notin [File -> Content \cup {NoFile, Foreign}]
ASSUME ManifestAssumption ==
    \A m \in Manifest : DOMAIN m \subseteq File /\ \A f \in DOMAIN m : m[f] \in Content

VARIABLES
    deployed,   \* the manifest of the next start
    local,      \* the model directory
    at,         \* step of each process
    manifest,   \* its normalized manifest
    temp,       \* its temporary directory
    backup,     \* its backup directory
    archive,    \* files its InsightFace has downloaded and not yet extracted
    loaded,     \* what it has loaded
    disturbed,  \* history: processes under which the directory was changed
                \* between their verifying or installing it and their loading it
    safe,       \* history: a pack was installed, and not lost to a process
                \* killed, or failing twice, while it had the only copy, nor to
                \* a directory InsightFace made or wrote into
    calm        \* from now on nothing fails or is deployed, and no process is
                \* started while another is starting

vars == <<deployed, local, at, manifest, temp, backup, archive, loaded, disturbed, safe, calm>>

Directory == [File -> Content \cup {NoFile, Foreign}]
Empty == [f \in File |-> NoFile]

\* The packs of the acceptable manifests.
Pack(m) == [f \in File |-> IF f \in DOMAIN m THEN m[f] ELSE NoFile]
Packs == {Pack(m) : m \in {n \in Manifest : DOMAIN n = Expected}}

\* The steps after a process has verified or installed its pack.
Loading == {"tidy", "load", "download", "extract", "read"}

\* Variant of Accepted: files may be missing from the manifest.
AcceptedPartly(m) == DOMAIN m \subseteq Expected

\* _normalize_manifest in production: exactly the expected files.
Accepted(m) == DOMAIN m = Expected

Init ==
    /\ deployed \in Manifest
    /\ local = NoDir
    /\ at = [p \in Process |-> "off"]
    /\ manifest = [p \in Process |-> NoManifest]
    /\ temp = [p \in Process |-> NoDir]
    /\ backup = [p \in Process |-> NoDir]
    /\ archive = [p \in Process |-> {}]
    /\ loaded = [p \in Process |-> Empty]
    /\ disturbed = {} /\ safe = FALSE /\ calm = FALSE

Goto(p, step) == at' = [at EXCEPT ![p] = step]

Deploy(m) ==
    /\ ~ calm
    /\ deployed' = m
    /\ UNCHANGED <<local, at, manifest, temp, backup, archive, loaded, disturbed, safe, calm>>

\* The process ends, or is refused at its start; temporary and backup
\* directories with unique names stay behind if it is killed.
End(p) ==
    /\ Goto(p, "off")
    /\ manifest' = [manifest EXCEPT ![p] = NoManifest]
    /\ temp' = [temp EXCEPT ![p] = NoDir]
    /\ backup' = [backup EXCEPT ![p] = NoDir]
    /\ archive' = [archive EXCEPT ![p] = {}]
    /\ loaded' = [loaded EXCEPT ![p] = Empty]

Leave(p) == End(p) /\ disturbed' = disturbed \ {p}

Start(p) ==
    /\ at[p] = "off"
    /\ calm => \A q \in Process : at[q] \in {"off", "ready"}
    /\ Accepted(deployed)
    /\ Goto(p, "check")
    /\ manifest' = [manifest EXCEPT ![p] = deployed]
    /\ UNCHANGED <<deployed, local, temp, backup, archive, loaded, disturbed, safe, calm>>

\* Variant of Matches: the size is all that is compared.
MatchesSize(content, digest) == content # NoFile

\* Size and digest of a file.
Matches(content, digest) == content = digest

\* _verify_model_dir: every listed file.
Verified(dir, m) == dir # NoDir /\ \A f \in DOMAIN m : Matches(dir[f], m[f])

\* Variant of Check: a pack that is not this one is an error.
CheckOrRefuse(p) ==
    /\ at[p] = "check"
    /\ IF Verified(local, manifest[p])
       THEN Goto(p, "load") /\ UNCHANGED temp
       ELSE /\ Goto(p, IF local = NoDir THEN "fetch" ELSE "restore")
            /\ temp' = [temp EXCEPT ![p] = Empty]
    /\ UNCHANGED <<deployed, local, manifest, backup, archive, loaded, disturbed, safe, calm>>

\* Variant of Check: without a pack, production too leaves it to InsightFace.
CheckFallingBack(p) ==
    /\ at[p] = "check"
    /\ IF local = NoDir \/ Verified(local, manifest[p])
       THEN Goto(p, "load") /\ UNCHANGED temp
       ELSE Goto(p, "fetch") /\ temp' = [temp EXCEPT ![p] = Empty]
    /\ UNCHANGED <<deployed, local, manifest, backup, archive, loaded, disturbed, safe, calm>>

\* _ensure_models uses a pack that is verified, and installs one otherwise.
Check(p) ==
    /\ at[p] = "check"
    /\ IF Verified(local, manifest[p])
       THEN Goto(p, "load") /\ UNCHANGED temp
       ELSE Goto(p, "fetch") /\ temp' = [temp EXCEPT ![p] = Empty]
    /\ UNCHANGED <<deployed, local, manifest, backup, archive, loaded, disturbed, safe, calm>>

Missing(p) == {f \in DOMAIN manifest[p] : temp[p][f] = NoFile}

\* Variant of Fetch: a verified file goes into the model directory at once.
FetchInPlace(p, f, c) ==
    /\ at[p] = "fetch"
    /\ f \in Missing(p)
    /\ Matches(c, manifest[p][f])
    /\ temp' = [temp EXCEPT ![p] = [@ EXCEPT ![f] = c]]
    /\ local' = [(IF local = NoDir THEN Empty ELSE local) EXCEPT ![f] = c]
    /\ UNCHANGED <<deployed, at, manifest, backup, archive, loaded, disturbed, safe, calm>>

\* Each listed file in turn, into its place only once it is verified.
Fetch(p, f, c) ==
    /\ at[p] = "fetch"
    /\ f \in Missing(p)
    /\ Matches(c, manifest[p][f])
    /\ temp' = [temp EXCEPT ![p] = [@ EXCEPT ![f] = c]]
    /\ UNCHANGED <<deployed, local, at, manifest, backup, archive, loaded, disturbed, safe, calm>>

Verify(p) ==
    /\ at[p] = "fetch"
    /\ Missing(p) = {}
    /\ Goto(p, IF Verified(temp[p], manifest[p]) THEN "look" ELSE "restore")
    /\ UNCHANGED <<deployed, local, manifest, temp, backup, archive, loaded, disturbed, safe, calm>>

Look(p) ==
    /\ at[p] = "look"
    /\ Goto(p, IF local = NoDir THEN "swap" ELSE "backup")
    /\ UNCHANGED <<deployed, local, manifest, temp, backup, archive, loaded, disturbed, safe, calm>>

\* A step of p changes the directory under those about to load it.
Disturb(p) == disturbed' = disturbed \cup {q \in Process \ {p} : at[q] \in Loading}

\* The rename raises if the directory is gone.
Backup(p) ==
    /\ at[p] = "backup"
    /\ Goto(p, IF local = NoDir THEN "restore" ELSE "swap")
    /\ backup' = [backup EXCEPT ![p] = local]
    /\ local' = NoDir
    /\ Disturb(p)
    /\ UNCHANGED <<deployed, manifest, temp, archive, loaded, safe, calm>>

\* The rename replaces an empty directory, and raises if there is any other.
Swap(p) ==
    /\ at[p] = "swap"
    /\ \/ /\ local \in {NoDir, Empty}
          /\ local' = temp[p]
          /\ temp' = [temp EXCEPT ![p] = NoDir]
          /\ safe' = TRUE
          /\ Goto(p, "tidy")
          /\ Disturb(p)
       \/ /\ local \notin {NoDir, Empty}
          /\ Goto(p, "restore")
          /\ UNCHANGED <<local, temp, safe, disturbed>>
    /\ UNCHANGED <<deployed, manifest, backup, archive, loaded, calm>>

Tidy(p) ==
    /\ at[p] = "tidy"
    /\ Goto(p, "load")
    /\ backup' = [backup EXCEPT ![p] = NoDir]
    /\ UNCHANGED <<deployed, local, manifest, temp, archive, loaded, disturbed, safe, calm>>

\* Variant of Restore: the failed installation is only cleaned up after.
RestoreNothing(p) ==
    /\ at[p] = "restore"
    /\ Leave(p)
    /\ UNCHANGED <<deployed, local, safe, calm>>

\* The exception handler: the backup goes back if there is no directory, also
\* over an empty one that appears between the test and the rename.
Restore(p) ==
    /\ at[p] = "restore"
    /\ \/ /\ local \in {NoDir, Empty} /\ backup[p] # NoDir
          /\ local' = backup[p]
          /\ End(p)
          /\ disturbed' = (disturbed \cup {q \in Process : at[q] \in Loading}) \ {p}
          /\ safe' = (safe /\ local' \in Packs)
       \/ /\ local # NoDir \/ backup[p] = NoDir
          /\ Leave(p)
          /\ UNCHANGED <<local, safe>>
    /\ UNCHANGED <<deployed, calm>>

-----------------------------------------------------------------------------
(* FaceAnalysis, the constructor of InsightFace.                           *)

\* It looks for the directory.
Open(p) ==
    /\ at[p] = "load"
    /\ Goto(p, IF local = NoDir THEN "download" ELSE "read")
    /\ UNCHANGED <<deployed, local, manifest, temp, backup, archive, loaded, disturbed, safe, calm>>

\* There was none: it downloads an archive, which holds unlisted files too, and
\* makes the directory, unless there is one by now.
Download(p) ==
    /\ at[p] = "download"
    /\ Goto(p, "extract")
    /\ archive' = [archive EXCEPT ![p] = File]
    /\ local' = IF local = NoDir THEN Empty ELSE local
    /\ safe' = (safe /\ local # NoDir)
    /\ UNCHANGED <<deployed, manifest, temp, backup, loaded, disturbed, calm>>

\* It extracts file after file, over what is there, and makes the directory again
\* if it was renamed away.
Extract(p, f) ==
    /\ at[p] = "extract"
    /\ f \in archive[p]
    /\ archive' = [archive EXCEPT ![p] = @ \ {f}]
    /\ local' = [(IF local = NoDir THEN Empty ELSE local) EXCEPT ![f] = Foreign]
    /\ Disturb(p)
    /\ safe' = FALSE
    /\ UNCHANGED <<deployed, at, manifest, temp, backup, loaded, calm>>

Extracted(p) ==
    /\ at[p] = "extract" /\ archive[p] = {}
    /\ Goto(p, "read")
    /\ UNCHANGED <<deployed, local, manifest, temp, backup, archive, loaded, disturbed, safe, calm>>

\* No Internet, or an archive that another download is overwriting: RuntimeError,
\* and what was extracted stays.
Refused(p) ==
    /\ at[p] \in {"download", "extract"}
    /\ Leave(p)
    /\ UNCHANGED <<deployed, local, safe, calm>>

\* It then reads the files it finds, unlisted ones too, one by one.
Read(p, f) ==
    /\ at[p] = "read"
    /\ loaded[p][f] = NoFile
    /\ local # NoDir /\ local[f] # NoFile
    /\ loaded' = [loaded EXCEPT ![p] = [@ EXCEPT ![f] = local[f]]]
    /\ UNCHANGED <<deployed, local, at, manifest, temp, backup, archive, disturbed, safe, calm>>

\* The listed files it has not read, and those of them that are not there.
Unread(p) == {f \in Expected : loaded[p][f] = NoFile}
Lacking(p) == {f \in Unread(p) : local = NoDir \/ local[f] = NoFile}

\* It does not miss a file that was not there, nor one written since it looked.
Ready(p) ==
    /\ at[p] = "read"
    /\ Unread(p) = {} \/ (local # NoDir /\ Unread(p) = Lacking(p))
    /\ Goto(p, "ready")
    /\ UNCHANGED <<deployed, local, manifest, temp, backup, archive, loaded, disturbed, safe, calm>>

\* The directory is gone, or lacks a file InsightFace insists on: RuntimeError.
Unreadable(p) ==
    /\ at[p] = "read"
    /\ local = NoDir \/ Lacking(p) # {}
    /\ Leave(p)
    /\ UNCHANGED <<deployed, local, safe, calm>>

-----------------------------------------------------------------------------
\* A file is missing in the bucket or not what the manifest says, or an access
\* to the bucket or the disk raises.
Fault(p) ==
    /\ ~ calm
    /\ at[p] \in {"fetch", "look", "backup", "swap"}
    /\ Goto(p, "restore")
    /\ UNCHANGED <<deployed, local, manifest, temp, backup, archive, loaded, disturbed, safe, calm>>

Lose(p) ==
    /\ ~ calm
    /\ Leave(p)
    /\ safe' = (safe /\ (backup[p] = NoDir \/ local # NoDir))
    /\ UNCHANGED <<deployed, local, calm>>

\* The rename back raises too, and the backup is deleted.
RestoreFault(p) == at[p] = "restore" /\ Lose(p)

\* Killed, at any step, and stopped when ready.
Crash(p) == at[p] # "off" /\ Lose(p)

Proceed(p) ==
    \/ Check(p)
    \/ \E f \in File, c \in Content : Fetch(p, f, c)
    \/ Verify(p) \/ Look(p) \/ Backup(p) \/ Swap(p) \/ Tidy(p) \/ Restore(p)
    \/ Open(p) \/ Download(p) \/ \E f \in File : Extract(p, f)
    \/ Extracted(p) \/ Refused(p)
    \/ \E f \in File : Read(p, f)
    \/ Ready(p) \/ Unreadable(p)

Settle ==
    /\ ~ calm /\ calm' = TRUE
    /\ Accepted(deployed)
    /\ UNCHANGED <<deployed, local, at, manifest, temp, backup, archive, loaded, disturbed, safe>>

Next ==
    \/ \E m \in Manifest : Deploy(m)
    \/ \E p \in Process : Start(p) \/ Proceed(p) \/ Fault(p) \/ RestoreFault(p) \/ Crash(p)
    \/ Settle

Spec == Init /\ [][Next]_vars

\* Processes are started again and run on.
Fairness == \A p \in Process : WF_vars(Start(p)) /\ WF_vars(Proceed(p))

FairSpec == Spec /\ Fairness

-----------------------------------------------------------------------------
Step == {"off", "check", "fetch", "look", "backup", "swap", "restore", "ready"} \cup Loading

\* Every variable keeps its type.
TypeOK ==
    /\ deployed \in Manifest
    /\ local \in Directory \cup {NoDir}
    /\ at \in [Process -> Step]
    /\ manifest \in [Process -> {m \in Manifest : DOMAIN m = Expected} \cup {NoManifest}]
    /\ temp \in [Process -> Directory \cup {NoDir}]
    /\ backup \in [Process -> Directory \cup {NoDir}]
    /\ archive \in [Process -> SUBSET File]
    /\ loaded \in [Process -> Directory]
    /\ disturbed \subseteq Process /\ safe \in BOOLEAN /\ calm \in BOOLEAN

\* InsightFace has written into the directory.
Unpinned(dir) == \E f \in File : dir[f] = Foreign

\* Whatever is interrupted or run at once, the installation leaves no part of a
\* pack and no mixture of two: a model directory with nothing but pinned files is
\* the whole pack of one acceptable manifest.  Any other is absent, or InsightFace
\* has just made it or written into it.
NeverHalfInstalled == local \in Packs \cup {NoDir, Empty} \/ Unpinned(local)

\* "Production never reaches this branch, and therefore InsightFace cannot download
\* an unpinned pack": it can, but only in a process under which another one has
\* renamed the directory after it was verified or installed.
DownloadsOnlyDisturbed ==
    \A p \in Process : at[p] \in {"download", "extract"} => p \in disturbed

\* A process is ready only with every file as its own manifest has it, unless
\* another one changed the directory after it had verified or installed it.
LoadsItsPack ==
    \A p \in Process \ disturbed :
        at[p] = "ready" => \A f \in DOMAIN manifest[p] : loaded[p][f] = manifest[p][f]

\* A failing installation leaves the pack where one was: except in the moment
\* between two renames, it is in the directory.
PackKept == safe => local \in Packs \/ \E p \in Process : backup[p] \in Packs

\* Whatever state crashes, failures and overlapping installations have left
\* behind, every process gets ready in the end once an acceptable manifest stays
\* and nothing fails any more.
GetsReady == <>calm => \A p \in Process : <>[](at[p] = "ready")
=============================================================================
