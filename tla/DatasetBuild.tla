----------------------------- MODULE DatasetBuild -----------------------------
(* build: a command collects a directory of archives (DatasetCollection) and   *)
(* materializes it, or restores the manifest that latest.json names.  The      *)
(* database, the archives and the metadata files survive a death between any   *)
(* two steps.                                                                  *)
EXTENDS DatasetCollection

CONSTANTS Codes           \* versions of the source code a command may run

VARIABLES code,           \* source_code_version of the running command
          original,       \* the manifest a restore reproduces, or NoManifest
          member,         \* materialize: the member it is at
          canonical,      \* normalized Reality candles in the database, per symbol
          rows,           \* phase1_dataset_manifests, per dataset_version
          manifests,      \* the manifest files under METADATA
          latest,         \* the version latest.json names, or NoVersion
          metaPending,    \* the .pending files under METADATA
          verdict         \* how the running command ends

buildVars == <<code, original, member, canonical, rows, manifests, latest, metaPending, verdict>>
allBuildVars == <<collectVars, buildVars>>

NoCode == "none"
NoVersion == [code |-> NoCode, data |-> {}]
NoManifest == [version |-> NoVersion, dir |-> NoDir, index |-> {}, by |-> 0]
NothingStored == "nothing stored"
ASSUME DataAssumption == NothingStored \notin RealityData

BuildInit == /\ CollectInit
             /\ code = NoCode
             /\ original = NoManifest
             /\ member = 1
             /\ canonical = [m \in Members |-> NothingStored]
             /\ rows = {}
             /\ manifests = {}
             /\ latest = NoVersion
             /\ metaPending = {}
             /\ verdict = "none"

(* archive_index: the digest of every archive a restore needs.                 *)
Indexed == Archives \cup {Mapping, Telemetry, Collection}
Index(d) == {[name |-> f, content |-> files[d][f]] : f \in Indexed}

(* dataset_version: the content of the archives and the code, not who wrote    *)
(* them nor when.                                                              *)
VersionOf(d) == [code |-> code,
                 data |-> {[name |-> f, data |-> files[d][f].data] : f \in Archives}]

ManifestFile(version) == CHOOSE x \in manifests : x.version = version

Goes(to) == /\ mainAt' = to
            /\ UNCHANGED <<files, pending, runs, dir, nativeAt, realityAt, realityNext,
                           fetched, opened>>

(***************************************************************************)
(* The two ways a command starts.                                          *)
(***************************************************************************)
StartBuild == /\ \E d \in Dirs : Collect(d)
              /\ verdict' = "running"
              /\ UNCHANGED <<code, original, member, canonical, rows, manifests, latest, metaPending>>

(* check_archives and the comparison of the code come before the database.     *)
Refusal(manifest, d, current) ==
  IF Index(d) # manifest.index THEN "PRIVATE_ARCHIVE_CHECKSUM_MISMATCH"
  ELSE IF current # manifest.version.code THEN "RESTORE_SOURCE_CODE_VERSION_MISMATCH"
  ELSE "none"

(* A restore replays the archived mapping with the code and the file of its   *)
(* build, so that replay passes again (dataset_cli.py:118).                    *)
StartRestore ==
  /\ Starting
  /\ latest # NoVersion
  /\ runs' = runs + 1
  /\ code' \in Codes
  /\ original' = ManifestFile(latest)
  /\ dir' = original'.dir
  /\ LET refused == Refusal(original', original'.dir, code')
     IN /\ mainAt' = IF refused = "none" THEN "materialize" ELSE "failed"
        /\ verdict' = IF refused = "none" THEN "running" ELSE refused
  /\ UNCHANGED <<files, pending, nativeAt, realityAt, realityNext, fetched, opened>>
  /\ UNCHANGED <<member, canonical, rows, manifests, latest, metaPending>>

Collecting == CollectStep /\ UNCHANGED buildVars

(* The code that builds is read, the archived mapping is replayed and the      *)
(* schema upgraded, or the run fails.                                          *)
ReplayMapping == /\ mainAt = "archived"
                 /\ code' \in Codes
                 /\ Goes("materialize") \/ Goes("failed")
                 /\ UNCHANGED <<original, member, canonical, rows, manifests, latest,
                                metaPending, verdict>>

(***************************************************************************)
(* materialize: member by member, each persisted before the next.          *)
(***************************************************************************)
Stops(why) == /\ Goes("failed")
              /\ verdict' = why
              /\ UNCHANGED <<code, original, member, canonical, rows, manifests, latest, metaPending>>

RealityOf(i) == files[dir][Reality(Order[i])].data

(* Mutant: the candles of the archive replace the stored ones.                 *)
MaterializeMemberAnew ==
  /\ mainAt = "materialize"
  /\ member <= Len(Order)
  /\ RealityOf(member) # "fail"
  /\ canonical' = [canonical EXCEPT ![Order[member]] = RealityOf(member)]
  /\ member' = member + 1
  /\ UNCHANGED <<collectVars, code, original, rows, manifests, latest, metaPending, verdict>>

(* The first candles stored for a symbol stay; other values for them end it.   *)
MaterializeMember ==
  /\ mainAt = "materialize"
  /\ member <= Len(Order)
  /\ RealityOf(member) # "fail"
  /\ canonical[Order[member]] \in {NothingStored, RealityOf(member)}
  /\ canonical' = [canonical EXCEPT ![Order[member]] = RealityOf(member)]
  /\ member' = member + 1
  /\ UNCHANGED <<collectVars, code, original, rows, manifests, latest, metaPending, verdict>>

RejectQuality == /\ mainAt = "materialize"
                 /\ member <= Len(Order)
                 /\ RealityOf(member) = "fail"
                 /\ Stops("REALITY_STRUCTURAL_FAILURE_OR_EMPTY")

RejectRevision == /\ mainAt = "materialize"
                  /\ member <= Len(Order)
                  /\ RealityOf(member) # "fail"
                  /\ canonical[Order[member]] \notin {NothingStored, RealityOf(member)}
                  /\ Stops("REALITY_CANONICAL_REVISION_CONFLICT")

NewManifest == [version |-> VersionOf(dir), dir |-> dir, index |-> Index(dir), by |-> runs]

(***************************************************************************)
(* Publication: the database row, the manifest file, latest.json.          *)
(***************************************************************************)
TheManifest == IF original = NoManifest THEN NewManifest ELSE original

(* Mutant: latest.json is written before the manifest file.                    *)
PersistManifestLatestFirst ==
  /\ mainAt = "materialize"
  /\ member > Len(Order)
  /\ IF original # NoManifest /\ VersionOf(dir) # original.version
     THEN Stops("RESTORED_DATASET_VERSION_MISMATCH")
     ELSE /\ rows' = IF \E r \in rows : r.version = TheManifest.version THEN rows
                     ELSE rows \cup {TheManifest}
          /\ Goes(IF original = NoManifest THEN "latest" ELSE "ended")
          /\ UNCHANGED <<code, original, member, canonical, manifests, latest, metaPending, verdict>>

(* persist_manifest: one transaction; a version already stored keeps its row.  *)
(* A restore whose version is not computed again stops before it.              *)
PersistManifest ==
  /\ mainAt = "materialize"
  /\ member > Len(Order)
  /\ IF original # NoManifest /\ VersionOf(dir) # original.version
     THEN Stops("RESTORED_DATASET_VERSION_MISMATCH")
     ELSE /\ rows' = IF \E r \in rows : r.version = TheManifest.version THEN rows
                     ELSE rows \cup {TheManifest}
          /\ Goes(IF original = NoManifest THEN "manifest" ELSE "ended")
          /\ UNCHANGED <<code, original, member, canonical, manifests, latest, metaPending, verdict>>

MetaBlocked(name) == name \in metaPending /\ "main" \notin opened

MetaOpen(name) == /\ name \notin metaPending /\ "main" \notin opened
                  /\ metaPending' = metaPending \cup {name}
                  /\ opened' = opened \cup {"main"}
                  /\ UNCHANGED <<files, pending, runs, dir, mainAt, nativeAt, realityAt,
                                 realityNext, fetched>>
                  /\ UNCHANGED <<code, original, member, canonical, rows, manifests, latest, verdict>>

MetaRename(name, to) == /\ "main" \in opened
                        /\ metaPending' = metaPending \ {name}
                        /\ opened' = opened \ {"main"}
                        /\ mainAt' = to
                        /\ UNCHANGED <<files, pending, runs, dir, nativeAt, realityAt,
                                       realityNext, fetched>>
                        /\ UNCHANGED <<code, original, member, canonical, rows>>

FileName == VersionOf(dir)
LatestName == NoVersion

OpenManifest == mainAt = "manifest" /\ MetaOpen(FileName)

WriteManifest == /\ mainAt = "manifest"
                 /\ MetaRename(FileName, "latest")
                 /\ manifests' = {x \in manifests : x.version # FileName} \cup {NewManifest}
                 /\ UNCHANGED <<latest, verdict>>

OpenLatest == mainAt = "latest" /\ MetaOpen(LatestName)

WriteLatest == /\ mainAt = "latest"
               /\ MetaRename(LatestName, "ended")
               /\ latest' = FileName
               /\ UNCHANGED <<manifests, verdict>>

PublicationBlocked == /\ \/ mainAt = "manifest" /\ MetaBlocked(FileName)
                         \/ mainAt = "latest" /\ MetaBlocked(LatestName)
                      /\ Stops("file exists")

(***************************************************************************)
(* The end of a command, in its own time or by the death of its process.   *)
(***************************************************************************)
CommandGone == /\ ThreadsGone
               /\ code' = NoCode
               /\ original' = NoManifest
               /\ member' = 1
               /\ verdict' = "none"
               /\ UNCHANGED <<canonical, rows, manifests, latest, metaPending>>

Ends == mainAt \in {"failed", "file exists", "ended"} /\ CommandGone

Dies == mainAt \notin {"off", "failed", "file exists", "ended"} /\ CommandGone

Step == \/ Collecting \/ ReplayMapping
        \/ MaterializeMember \/ RejectQuality \/ RejectRevision
        \/ PersistManifest \/ OpenManifest \/ WriteManifest \/ OpenLatest \/ WriteLatest
        \/ PublicationBlocked \/ Ends

BuildNext == StartBuild \/ StartRestore \/ Step \/ Dies

(* The threads of a running command go on; nothing makes anybody start one.    *)
BuildSpec == BuildInit /\ [][BuildNext]_allBuildVars /\ WF_allBuildVars(Step)

(***************************************************************************)
(* Properties.                                                             *)
(***************************************************************************)
(* RESTORE: whatever builds, deaths and rebuilds of other directories came     *)
(* before, restoring the latest manifest by the code that built it is never    *)
(* refused: its archives are the ones indexed, its data agrees with the        *)
(* database and its version is computed again (dataset_cli.py:93-135).         *)
RestoreExact ==
  original # NoManifest /\ mainAt = "failed" => verdict = "RESTORE_SOURCE_CODE_VERSION_MISMATCH"

(* PUBLISHED: the version latest.json names has its manifest file and its row, *)
(* at every point a build may die at (dataset_cli.py:152-155).                 *)
LatestGrounded ==
  latest # NoVersion => /\ \E x \in manifests : x.version = latest
                        /\ \E r \in rows : r.version = latest

(* SEALED: an archive of a symbol is never written again, and no file at all   *)
(* of a directory whose collection is complete, so that its index stays true   *)
(* (dataset_fetch.py:54-59, 75, 153, dataset_artifacts.py:47).                 *)
Seals ==
  \A d \in Dirs, f \in Names :
     There(d, f) /\ (f \in Archives \/ Complete(d)) => files'[d][f] = files[d][f]
SealedCollection == [][Seals]_files

(* Refuted: a command is never stopped by a file of an earlier one             *)
(* (dataset_fetch.py:1, "Bounded, resumable collection.").                     *)
Resumable == mainAt # "file exists"

(* ENDS: the pool never waits for ever, also when a worker or the Reality      *)
(* thread fails (dataset_fetch.py:196-211).                                    *)
CommandEnds == []<>(mainAt = "off")

(***************************************************************************)
(* What the proofs of these rest on.                                       *)
(***************************************************************************)
Publishing == {"manifest", "latest"}

(* What is materialized of a member is what its archive holds.                 *)
MemberStored(d, m) == /\ files[d][Reality(m)].data # "fail"
                      /\ canonical[m] = files[d][Reality(m)].data

DataOf(d) == {[name |-> f, data |-> files[d][f].data] : f \in Archives}

(* A manifest is of a complete directory whose index and version stay true,    *)
(* and whose candles are the ones the database has.                            *)
ManifestTrue(x) ==
  /\ x.dir \in Dirs /\ Complete(x.dir)
  /\ x.index = Index(x.dir)
  /\ x.version = [code |-> x.version.code, data |-> DataOf(x.dir)]
  /\ \A m \in Members : MemberStored(x.dir, m)

MaterializeInv ==
  /\ member \in Nat \ {0}
  /\ canonical \in [Members -> RealityData \cup {NothingStored}]
  /\ mainAt \in {"off", "archived"} \cup Gathering => member = 1
  /\ mainAt = "materialize" =>
       \A i \in DOMAIN Order : i < member => MemberStored(dir, Order[i])
  /\ mainAt \in {"materialize"} \cup Publishing => Complete(dir)
  /\ mainAt \in Publishing => \A m \in Members : MemberStored(dir, m)

(* A restore is of a true manifest by its own code, until it is refused.       *)
RestoreInv ==
  original # NoManifest =>
    /\ ManifestTrue(original) /\ dir = original.dir
    /\ mainAt \in {"materialize", "failed", "ended"}
    /\ mainAt = "materialize" => code = original.version.code
    /\ mainAt = "failed" => verdict = "RESTORE_SOURCE_CODE_VERSION_MISMATCH"

PublishInv ==
  /\ \A x \in manifests : ManifestTrue(x)
  /\ mainAt \in Publishing => \E r \in rows : r.version = VersionOf(dir)
  /\ mainAt = "latest" => \E x \in manifests : x.version = VersionOf(dir)
  /\ LatestGrounded

(* The inductive invariant.                                                    *)
IInv == CollectInv /\ MaterializeInv /\ RestoreInv /\ PublishInv
==============================================================================
