-------------------------- MODULE ModelInstallProofs --------------------------
(***************************************************************************)
(* Proofs about ModelInstall, for any files, contents, manifests and       *)
(* number of processes.                                                    *)
(***************************************************************************)
EXTENDS ModelInstall, TLAPS

Good == {m \in Manifest : DOMAIN m = Expected}

\* A directory with nothing but expected files.
Plain(dir) == dir \in Directory /\ \A f \in File \ Expected : dir[f] = NoFile

\* A directory the installation or InsightFace may leave behind.
Left(dir) == dir \in Packs \cup {Empty} \/ (dir \in Directory /\ Unpinned(dir))

-----------------------------------------------------------------------------
(* The directories.                                                        *)

LEMMA NoDirIsNone == NoDir \notin Directory
  BY ContentAssumption DEF Directory

LEMMA PackPlain == ASSUME NEW m \in Good PROVE Plain(Pack(m)) /\ Pack(m) \in Packs
  <1>1. Pack(m) \in Packs
    BY DEF Good, Packs
  <1>2. \A f \in File : f \in DOMAIN m => m[f] \in Content
    BY ManifestAssumption DEF Good
  <1>3. Pack(m) \in Directory
    BY <1>2 DEF Pack, Directory
  <1>4. QED
    BY <1>1, <1>3 DEF Plain, Pack, Good

LEMMA LeftIsDirectory == ASSUME NEW dir, Left(dir) PROVE dir \in Directory /\ dir # NoDir
  <1>1. Empty \in Directory
    BY DEF Empty, Directory
  <1>2. ASSUME dir \in Packs PROVE dir \in Directory
    BY <1>2, PackPlain DEF Packs, Good, Plain
  <1>3. QED
    BY <1>1, <1>2, NoDirIsNone DEF Left

\* Extraction leaves the mark of InsightFace on whatever directory there is.
LEMMA ExtractLeaves ==
    ASSUME NEW dir \in Directory, NEW f \in File
    PROVE  Left([dir EXCEPT ![f] = Foreign])
  <1>1. [dir EXCEPT ![f] = Foreign] \in Directory
    BY DEF Directory
  <1>2. [dir EXCEPT ![f] = Foreign][f] = Foreign
    BY DEF Directory
  <1>3. QED
    BY <1>1, <1>2 DEF Left, Unpinned

\* What is verified against a manifest and plain is its pack.
LEMMA VerifiedIsPack ==
    ASSUME NEW m \in Good, NEW dir, Plain(dir), Verified(dir, m)
    PROVE  dir = Pack(m)
  <1>1. dir = [f \in File |-> dir[f]]
    BY DEF Plain, Directory
  <1>2. \A f \in File : dir[f] = Pack(m)[f]
    BY DEF Plain, Pack, Verified, Matches, Good
  <1>3. QED
    BY <1>1, <1>2 DEF Pack

\* And a pack is verified against its manifest.
LEMMA PackIsVerified == ASSUME NEW m \in Good PROVE Verified(Pack(m), m)
  <1>1. Pack(m) # NoDir
    BY PackPlain, NoDirIsNone DEF Plain
  <1>2. \A f \in DOMAIN m : Pack(m)[f] = m[f]
    BY FileAssumption DEF Pack, Good
  <1>3. QED
    BY <1>1, <1>2 DEF Verified, Matches

-----------------------------------------------------------------------------
Installing == {"fetch", "look", "backup", "swap"}

\* Every variable keeps its type, a process that runs has its manifest, and one
\* that installs its temporary directory.
TypeInv ==
    /\ TypeOK
    /\ \A p \in Process : at[p] # "off" => manifest[p] \in Good
    /\ \A p \in Process : at[p] \in Installing => temp[p] \in Directory

LEMMA TypeStep == TypeInv /\ [Next]_vars => TypeInv'
  <1> SUFFICES ASSUME TypeInv, [Next]_vars PROVE TypeInv'
    OBVIOUS
  <1> USE DEF TypeInv, TypeOK, Good, Goto, Step, Loading, Installing
  <1>0. Empty \in Directory
    BY DEF Empty, Directory
  <1>1. ASSUME NEW m \in Manifest, Deploy(m) PROVE TypeInv'
    BY <1>1 DEF Deploy
  <1>2. ASSUME NEW p \in Process, Start(p) PROVE TypeInv'
    BY <1>2 DEF Start, Accepted
  <1>3. ASSUME NEW p \in Process, Proceed(p) PROVE TypeInv'
    <2>1. CASE Check(p)
      BY <1>0, <2>1 DEF Check
    <2>2. ASSUME NEW f \in File, NEW c \in Content, Fetch(p, f, c) PROVE TypeInv'
      <3>1. [temp[p] EXCEPT ![f] = c] \in Directory
        BY <2>2 DEF Fetch, Directory
      <3>2. QED
        BY <2>2, <3>1 DEF Fetch
    <2>3. CASE Verify(p)
      BY <2>3 DEF Verify
    <2>4. CASE Look(p)
      BY <2>4 DEF Look
    <2>5. CASE Backup(p)
      BY <2>5 DEF Backup, Disturb
    <2>6. CASE Swap(p)
      BY <2>6 DEF Swap, Disturb
    <2>7. CASE Tidy(p)
      BY <2>7 DEF Tidy
    <2>8. CASE Restore(p)
      <3>1. at' \in [Process -> Step] /\ archive' \in [Process -> SUBSET File]
            /\ manifest' = [manifest EXCEPT ![p] = NoManifest]
        BY <2>8 DEF Restore, Leave, End
      <3>2. temp' \in [Process -> Directory \cup {NoDir}] /\ backup' \in [Process -> Directory \cup {NoDir}]
            /\ loaded' \in [Process -> Directory]
        BY <1>0, <2>8 DEF Restore, Leave, End
      <3>3. local' \in Directory \cup {NoDir} /\ disturbed' \subseteq Process
            /\ safe' \in BOOLEAN /\ deployed' = deployed /\ calm' = calm
        BY <2>8 DEF Restore, Leave
      <3>4. \A q \in Process : at'[q] = IF q = p THEN "off" ELSE at[q]
        BY <2>8 DEF Restore, Leave, End
      <3>5. \A q \in Process : temp'[q] = IF q = p THEN NoDir ELSE temp[q]
        BY <2>8 DEF Restore, Leave, End
      <3>6. QED
        BY <3>1, <3>2, <3>3, <3>4, <3>5
    <2>9. CASE Open(p) \/ Download(p) \/ Extracted(p)
      BY <1>0, <2>9 DEF Open, Download, Extracted
    <2>10. ASSUME NEW f \in File, Read(p, f) PROVE TypeInv'
      <3>1. local[f] \in Content \cup {NoFile, Foreign}
        BY <2>10 DEF Read, Directory
      <3>2. [loaded[p] EXCEPT ![f] = local[f]] \in Directory
        BY <3>1 DEF Directory
      <3>3. QED
        BY <2>10, <3>2 DEF Read
    <2>11. CASE Ready(p)
      BY <2>11 DEF Ready
    <2>12. CASE Unreadable(p) \/ Refused(p)
      BY <1>0, <2>12 DEF Unreadable, Refused, Leave, End
    <2>13. ASSUME NEW f \in File, Extract(p, f) PROVE TypeInv'
      <3>1. local' \in Directory
        BY <1>0, <2>13 DEF Extract, Directory
      <3>2. QED
        BY <2>13, <3>1 DEF Extract, Disturb
    <2>14. QED
      BY <1>3, <2>1, <2>2, <2>3, <2>4, <2>5, <2>6, <2>7, <2>8, <2>9, <2>10, <2>11, <2>12, <2>13
      DEF Proceed
  <1>4. ASSUME NEW p \in Process, Fault(p) PROVE TypeInv'
    BY <1>4 DEF Fault
  <1>5. ASSUME NEW p \in Process, RestoreFault(p) \/ Crash(p) PROVE TypeInv'
    BY <1>0, <1>5 DEF RestoreFault, Crash, Lose, Leave, End
  <1>6. CASE Settle
    BY <1>6 DEF Settle
  <1>7. CASE UNCHANGED vars
    BY <1>7 DEF vars
  <1>8. QED
    BY <1>1, <1>2, <1>3, <1>4, <1>5, <1>6, <1>7 DEF Next

LEMMA TypeInvariant == Spec => []TypeInv
  <1>1. Empty \in Directory
    BY DEF Empty, Directory
  <1>2. Init => TypeInv
    BY <1>1 DEF Init, TypeInv, TypeOK, Step, Installing
  <1>3. QED
    BY <1>2, TypeStep, PTL DEF Spec

\* TypeOK holds always.
THEOREM TypeCorrect == Spec => []TypeOK
  BY TypeInvariant, PTL DEF TypeInv

-----------------------------------------------------------------------------
(* Whole packs.                                                            *)

\* The model directory and every backup are what may be left behind; a temporary
\* directory is its pack from its verification on, and plain before.
DirInv ==
    /\ local # NoDir => Left(local)
    /\ \A p \in Process : backup[p] # NoDir => Left(backup[p])
    /\ \A p \in Process : at[p] \in Installing => Plain(temp[p])
    /\ \A p \in Process : at[p] \in Installing \ {"fetch"} => temp[p] = Pack(manifest[p])

LEMMA DirStep == TypeInv /\ DirInv /\ [Next]_vars => DirInv'
  <1> SUFFICES ASSUME TypeInv, DirInv, [Next]_vars PROVE DirInv'
    OBVIOUS
  <1> USE DEF DirInv, Goto, Installing
  <1>0. /\ at \in [Process -> Step] /\ temp \in [Process -> Directory \cup {NoDir}]
        /\ manifest \in [Process -> Good \cup {NoManifest}]
        /\ backup \in [Process -> Directory \cup {NoDir}]
        /\ local \in Directory \cup {NoDir}
        /\ \A p \in Process : at[p] # "off" => manifest[p] \in Good
    BY DEF TypeInv, TypeOK, Good
  <1>1. ASSUME NEW m \in Manifest, Deploy(m) PROVE DirInv'
    BY <1>1 DEF Deploy, Left, Unpinned
  <1>2. ASSUME NEW p \in Process, Start(p) PROVE DirInv'
    BY <1>0, <1>2 DEF Start, Left, Unpinned
  <1>3. ASSUME NEW p \in Process, Proceed(p) PROVE DirInv'
    <2>1. CASE Check(p)
      <3>1. Plain(Empty)
        BY DEF Plain, Empty, Directory
      <3>2. QED
        BY <1>0, <2>1, <3>1 DEF Check, Left, Unpinned, Plain
    <2>2. ASSUME NEW f \in File, NEW c \in Content, Fetch(p, f, c) PROVE DirInv'
      <3>1. f \in Expected
        BY <1>0, <2>2 DEF Fetch, Missing, Good
      <3>2. Plain([temp[p] EXCEPT ![f] = c])
        BY <2>2, <3>1 DEF Fetch, Plain, Directory
      <3>3. QED
        BY <1>0, <2>2, <3>2 DEF Fetch
    <2>3. CASE Verify(p)
      <3>1. at[p] = "fetch" /\ Plain(temp[p]) /\ manifest[p] \in Good
        BY <1>0, <2>3 DEF Verify
      <3>2. Verified(temp[p], manifest[p]) => temp[p] = Pack(manifest[p])
        BY <3>1, VerifiedIsPack
      <3>3. QED
        BY <1>0, <2>3, <3>1, <3>2 DEF Verify
    <2>4. CASE Look(p)
      BY <1>0, <2>4 DEF Look
    <2>5. CASE Backup(p)
      BY <1>0, <2>5 DEF Backup
    <2>6. CASE Swap(p)
      <3>1. at[p] = "swap" => Left(temp[p])
        BY <1>0, PackPlain DEF Left
      <3>2. QED
        BY <1>0, <2>6, <3>1 DEF Swap
    <2>7. CASE Tidy(p)
      BY <1>0, <2>7 DEF Tidy
    <2>8. CASE Restore(p)
      BY <1>0, <2>8 DEF Restore, Leave, End
    <2>9. CASE Open(p) \/ Extracted(p) \/ Ready(p)
      BY <1>0, <2>9 DEF Open, Extracted, Ready
    <2>10. CASE Download(p)
      <3>1. Left(Empty)
        BY DEF Left
      <3>2. QED
        BY <1>0, <2>10, <3>1 DEF Download
    <2>11. ASSUME NEW f \in File, Extract(p, f) PROVE DirInv'
      <3>1. Left(local')
        BY <1>0, <2>11, ExtractLeaves DEF Extract, Empty, Directory
      <3>2. QED
        BY <2>11, <3>1 DEF Extract
    <2>12. ASSUME NEW f \in File, Read(p, f) PROVE DirInv'
      BY <2>12 DEF Read
    <2>13. CASE Unreadable(p) \/ Refused(p)
      BY <1>0, <2>13 DEF Unreadable, Refused, Leave, End
    <2>14. QED
      BY <1>3, <2>1, <2>2, <2>3, <2>4, <2>5, <2>6, <2>7, <2>8, <2>9, <2>10, <2>11, <2>12, <2>13
      DEF Proceed
  <1>4. ASSUME NEW p \in Process, Fault(p) PROVE DirInv'
    BY <1>0, <1>4 DEF Fault
  <1>5. ASSUME NEW p \in Process, RestoreFault(p) \/ Crash(p) PROVE DirInv'
    BY <1>0, <1>5 DEF RestoreFault, Crash, Lose, Leave, End
  <1>6. CASE Settle
    BY <1>6 DEF Settle
  <1>7. CASE UNCHANGED vars
    BY <1>7 DEF vars
  <1>8. QED
    BY <1>1, <1>2, <1>3, <1>4, <1>5, <1>6, <1>7 DEF Next

LEMMA DirInvariant == Spec => []DirInv
  <1>1. Init => DirInv
    BY DEF Init, DirInv, Installing
  <1>2. QED
    BY <1>1, DirStep, TypeInvariant, PTL DEF Spec

\* Whatever fails or is killed, the model directory is absent, a whole pack, or
\* one that InsightFace has just made or written into.
THEOREM WholeOrNothing == Spec => []NeverHalfInstalled
  <1>1. DirInv => NeverHalfInstalled
    BY DEF DirInv, NeverHalfInstalled, Left
  <1>2. QED
    BY <1>1, DirInvariant, PTL

-----------------------------------------------------------------------------
(* The pack that is loaded.                                                *)

\* The directory under an undisturbed process that loads has the files of its
\* manifest, and what it has read of them is from there.
LoadInv ==
    /\ \A p \in Process \ disturbed : at[p] \in Loading => Verified(local, manifest[p])
    /\ \A p \in Process : at[p] \in {"download", "extract"} => p \in disturbed
    /\ \A p \in Process : at[p] \notin {"read", "ready"} => loaded[p] = Empty
    /\ \A p \in Process \ disturbed : at[p] \in {"read", "ready"} =>
          \A f \in Expected : loaded[p][f] \in {NoFile, manifest[p][f]}
    /\ \A p \in Process \ disturbed : at[p] = "ready" =>
          \A f \in Expected : loaded[p][f] # NoFile

LEMMA LoadStep == TypeInv /\ DirInv /\ LoadInv /\ [Next]_vars => LoadInv'
  <1> SUFFICES ASSUME TypeInv, DirInv, LoadInv, [Next]_vars PROVE LoadInv'
    OBVIOUS
  <1> USE DEF LoadInv, Goto, Loading, Verified
  <1>0. /\ at \in [Process -> Step] /\ temp \in [Process -> Directory \cup {NoDir}]
        /\ manifest \in [Process -> Good \cup {NoManifest}]
        /\ loaded \in [Process -> Directory]
        /\ \A p \in Process : at[p] # "off" => manifest[p] \in Good
        /\ Expected \subseteq File
        /\ \A f \in File : Empty[f] = NoFile
        /\ \A m \in Good : DOMAIN m = Expected
    BY FileAssumption DEF TypeInv, TypeOK, Good, Empty
  <1>1. ASSUME NEW m \in Manifest, Deploy(m) PROVE LoadInv'
    BY <1>1 DEF Deploy
  <1>2. ASSUME NEW p \in Process, Start(p) PROVE LoadInv'
    BY <1>0, <1>2 DEF Start
  <1>3. ASSUME NEW p \in Process, Proceed(p) PROVE LoadInv'
    <2>1. CASE Check(p)
      BY <1>0, <2>1 DEF Check
    <2>2. ASSUME NEW f \in File, NEW c \in Content, Fetch(p, f, c) PROVE LoadInv'
      BY <2>2 DEF Fetch
    <2>3. CASE Verify(p)
      BY <1>0, <2>3 DEF Verify
    <2>4. CASE Look(p)
      BY <1>0, <2>4 DEF Look
    <2>5. CASE Backup(p)
      BY <1>0, <2>5 DEF Backup, Disturb
    <2>6. CASE Swap(p)
      <3>1. Verified(temp[p], manifest[p])
        BY <1>0, <2>6, PackIsVerified DEF Swap, DirInv, Installing
      <3>2. QED
        BY <1>0, <2>6, <3>1 DEF Swap, Disturb
    <2>7. CASE Tidy(p)
      BY <1>0, <2>7 DEF Tidy
    <2>8. CASE Restore(p)
      BY <1>0, <2>8 DEF Restore, Leave, End
    <2>9. CASE Open(p)
      BY <1>0, <2>9 DEF Open
    <2>10. CASE Download(p)
      BY <1>0, <2>10 DEF Download
    <2>11. ASSUME NEW f \in File, Extract(p, f) PROVE LoadInv'
      BY <1>0, <2>11 DEF Extract, Disturb
    <2>12. CASE Extracted(p)
      BY <1>0, <2>12 DEF Extracted
    <2>13. ASSUME NEW f \in File, Read(p, f) PROVE LoadInv'
      BY <1>0, <2>13 DEF Read, Directory, Matches
    <2>14. CASE Ready(p)
      <3>1. ASSUME p \notin disturbed PROVE \A f \in Expected : loaded[p][f] # NoFile
        <4>1. at[p] = "read" /\ local # NoDir /\ manifest[p] \in Good
          BY <1>0, <2>14, <3>1 DEF Ready
        <4>2. \A f \in Expected : local[f] = manifest[p][f]
          BY <1>0, <3>1, <4>1 DEF Matches
        <4>3. \A f \in Expected : local[f] # NoFile
          BY <1>0, <4>1, <4>2, ManifestAssumption, ContentAssumption DEF Good
        <4>4. Lacking(p) = {}
          BY <4>1, <4>3 DEF Lacking, Unread
        <4>5. Unread(p) = {}
          BY <2>14, <4>4 DEF Ready
        <4>6. QED
          BY <4>5 DEF Unread
      <3>2. QED
        BY <1>0, <2>14, <3>1 DEF Ready
    <2>15. CASE Unreadable(p) \/ Refused(p)
      BY <1>0, <2>15 DEF Unreadable, Refused, Leave, End
    <2>16. QED
      BY <1>3, <2>1, <2>2, <2>3, <2>4, <2>5, <2>6, <2>7, <2>8, <2>9, <2>10, <2>11, <2>12, <2>13,
         <2>14, <2>15
      DEF Proceed
  <1>4. ASSUME NEW p \in Process, Fault(p) PROVE LoadInv'
    BY <1>0, <1>4 DEF Fault
  <1>5. ASSUME NEW p \in Process, RestoreFault(p) \/ Crash(p) PROVE LoadInv'
    BY <1>0, <1>5 DEF RestoreFault, Crash, Lose, Leave, End
  <1>6. CASE Settle
    BY <1>6 DEF Settle
  <1>7. CASE UNCHANGED vars
    BY <1>7 DEF vars
  <1>8. QED
    BY <1>1, <1>2, <1>3, <1>4, <1>5, <1>6, <1>7 DEF Next

LEMMA LoadInvariant == Spec => []LoadInv
  <1>1. Init => LoadInv
    BY DEF Init, LoadInv, Loading
  <1>2. QED
    BY <1>1, LoadStep, TypeInvariant, DirInvariant, PTL DEF Spec

\* A process under which nobody changed the directory has loaded its pack.
THEOREM OwnPackLoaded == Spec => []LoadsItsPack
  <1>1. TypeInv /\ LoadInv => LoadsItsPack
    BY DEF TypeInv, TypeOK, LoadInv, LoadsItsPack, Good
  <1>2. QED
    BY <1>1, LoadInvariant, TypeInvariant, PTL

\* And only under a process whose directory another one has renamed does
\* InsightFace download anything.
THEOREM DownloadNeedsAnother == Spec => []DownloadsOnlyDisturbed
  <1>1. LoadInv => DownloadsOnlyDisturbed
    BY DEF LoadInv, DownloadsOnlyDisturbed
  <1>2. QED
    BY <1>1, LoadInvariant, PTL

-----------------------------------------------------------------------------
(* The pack that is kept.                                                  *)

\* When it is not in the directory, there is none, and a process that will put
\* one there, or back, holds the former one.
KeepInv ==
    safe => \/ local \in Packs
            \/ /\ local = NoDir
               /\ \E q \in Process : at[q] \in {"swap", "restore"} /\ backup[q] \in Packs

LEMMA KeepStep == TypeInv /\ DirInv /\ KeepInv /\ [Next]_vars => KeepInv'
  <1> SUFFICES ASSUME TypeInv, DirInv, KeepInv, [Next]_vars PROVE KeepInv'
    OBVIOUS
  <1> USE DEF KeepInv, Goto
  <1>0. /\ at \in [Process -> Step] /\ backup \in [Process -> Directory \cup {NoDir}]
        /\ temp \in [Process -> Directory \cup {NoDir}]
    BY DEF TypeInv, TypeOK
  <1>n. NoDir \notin Packs
    BY PackPlain, NoDirIsNone DEF Packs, Good, Plain
  <1>1. ASSUME NEW m \in Manifest, Deploy(m) PROVE KeepInv'
    BY <1>1 DEF Deploy
  <1>2. ASSUME NEW p \in Process, Start(p) PROVE KeepInv'
    BY <1>0, <1>2 DEF Start
  <1>3. ASSUME NEW p \in Process, Proceed(p) PROVE KeepInv'
    <2>1. CASE Check(p)
      BY <1>0, <2>1 DEF Check
    <2>2. ASSUME NEW f \in File, NEW c \in Content, Fetch(p, f, c) PROVE KeepInv'
      BY <2>2 DEF Fetch
    <2>3. CASE Verify(p)
      BY <1>0, <2>3 DEF Verify
    <2>4. CASE Look(p)
      BY <1>0, <2>4 DEF Look
    <2>5. CASE Backup(p)
      <3>1. local # NoDir => at'[p] = "swap" /\ backup'[p] = local
        BY <1>0, <2>5 DEF Backup
      <3>2. \A q \in Process \ {p} : at'[q] = at[q] /\ backup'[q] = backup[q]
        BY <1>0, <2>5 DEF Backup
      <3>3. at[p] = "backup" /\ safe' = safe /\ local' = NoDir
        BY <2>5 DEF Backup
      <3>4. QED
        BY <1>n, <3>1, <3>2, <3>3
    <2>6. CASE Swap(p)
      <3>1. at[p] = "swap" => temp[p] \in Packs
        BY PackPlain DEF DirInv, TypeInv, Installing
      <3>2. QED
        BY <1>0, <2>6, <3>1 DEF Swap
    <2>7. CASE Tidy(p)
      BY <1>0, <2>7 DEF Tidy
    <2>8. CASE Restore(p)
      BY <1>0, <1>n, <2>8 DEF Restore, Leave, End
    <2>9. CASE Open(p)
      BY <1>0, <2>9 DEF Open
    <2>10. CASE Download(p)
      BY <1>0, <2>10 DEF Download
    <2>11. ASSUME NEW f \in File, Extract(p, f) PROVE KeepInv'
      BY <2>11 DEF Extract
    <2>12. CASE Extracted(p)
      BY <1>0, <2>12 DEF Extracted
    <2>13. ASSUME NEW f \in File, Read(p, f) PROVE KeepInv'
      BY <2>13 DEF Read
    <2>14. CASE Ready(p)
      BY <1>0, <2>14 DEF Ready
    <2>15. CASE Unreadable(p) \/ Refused(p)
      BY <1>0, <2>15 DEF Unreadable, Refused, Leave, End
    <2>16. QED
      BY <1>3, <2>1, <2>2, <2>3, <2>4, <2>5, <2>6, <2>7, <2>8, <2>9, <2>10, <2>11, <2>12, <2>13,
         <2>14, <2>15
      DEF Proceed
  <1>4. ASSUME NEW p \in Process, Fault(p) PROVE KeepInv'
    BY <1>0, <1>4 DEF Fault
  <1>5. ASSUME NEW p \in Process, RestoreFault(p) \/ Crash(p) PROVE KeepInv'
    BY <1>0, <1>n, <1>5 DEF RestoreFault, Crash, Lose, Leave, End
  <1>6. CASE Settle
    BY <1>6 DEF Settle
  <1>7. CASE UNCHANGED vars
    BY <1>7 DEF vars
  <1>8. QED
    BY <1>1, <1>2, <1>3, <1>4, <1>5, <1>6, <1>7 DEF Next

\* A failing installation leaves the pack where one was.
THEOREM FormerPackKept == Spec => []PackKept
  <1>1. Init => KeepInv
    BY DEF Init, KeepInv
  <1>2. KeepInv => PackKept
    BY DEF KeepInv, PackKept
  <1>3. QED
    BY <1>1, <1>2, KeepStep, TypeInvariant, DirInvariant, PTL DEF Spec
=============================================================================
