------------------------------ MODULE LakeCache ------------------------------
(***************************************************************************)
(* How the public market lake is released and how `data sync` replaces the *)
(* local copy of it.                                                       *)
(*                                                                         *)
(* A release holds one archive for each market run and one index, which    *)
(* names the archive it belongs to and its checksum.  A sync downloads     *)
(* into a staging directory of its own, moves the cached lake to a backup  *)
(* beside it and the staging directory to the cache; the backup has one    *)
(* name for all of them.  A sync may be interrupted anywhere (Ctrl-C is    *)
(* not an Exception: nothing is put back).                                 *)
(*                                                                         *)
(* Publications are numbered; a directory is missing, a whole copy of one  *)
(* publication, or what a removal has left of it.                          *)
(***************************************************************************)
EXTENDS Naturals, Sequences, FiniteSets

CONSTANTS
    Syncers,           \* processes that run `data sync`, again and again
    Runs,              \* market runs, each of which names one archive
    MaxPublications,   \* bound: publications in all
    MaxInterrupted,    \* bound: syncs interrupted in all
    MaxFailures        \* bound: downloads that fail

ASSUME LakeAssumption ==
    /\ IsFiniteSet(Syncers)
    /\ MaxPublications \in Nat
    /\ MaxInterrupted \in Nat
    /\ MaxFailures \in Nat

VARIABLES
    published,     \* the run of each publication
    release,       \* what is served: the index, and the archive of each run
    publisher,     \* what `data publish` is doing
    cache,         \* the directory the terminal reads
    backup,        \* the directory it is moved to
    sync,          \* syncer -> what it is doing, with its staging directory
    interrupted, failures,
    together,      \* history: the most syncs that have run at the same time
    installed      \* history: there has been a cache

lakeVars == <<published, release, publisher, cache, backup, sync, interrupted, failures,
              together, installed>>

Nothing == 0                          \* no publication
Publications == 1 .. MaxPublications
Copies == [of : Publications \cup {Nothing}, whole : BOOLEAN]
Missing == [of |-> Nothing, whole |-> FALSE]
Whole(p) == [of |-> p, whole |-> TRUE]
Torn(d) == [d EXCEPT !.whole = FALSE]

SyncSteps == {"over", "index", "check", "download", "clear", "clearing", "park?", "park", "install",
              "tidy", "tidying", "fail", "restore"}
Idle == [step |-> "over", index |-> Nothing, staging |-> Missing]

LakeTypeOK ==
    /\ published \in Seq(Runs)
    /\ release \in [index : Publications \cup {Nothing},
                    archive : [Runs -> Publications \cup {Nothing}]]
    /\ publisher \in {"idle", "archive", "index", "indexing"}
    /\ cache \in Copies
    /\ backup \in Copies
    /\ sync \in [Syncers -> [step : SyncSteps, index : Publications \cup {Nothing},
                             staging : Copies]]
    /\ interrupted \in 0 .. MaxInterrupted
    /\ failures \in 0 .. MaxFailures
    /\ together \in Nat
    /\ installed \in BOOLEAN

LakeInit ==
    /\ published = <<>>
    /\ release = [index |-> Nothing, archive |-> [r \in Runs |-> Nothing]]
    /\ publisher = "idle"
    /\ cache = Missing
    /\ backup = Missing
    /\ sync = [s \in Syncers |-> Idle]
    /\ interrupted = 0
    /\ failures = 0
    /\ together = 0
    /\ installed = FALSE

-----------------------------------------------------------------------------
(* publish_release.                                                        *)

Newest == Len(published)

(* The first publication creates the release with both assets; a later one *)
(* replaces the archive of its run, if there is one, and then the index:   *)
(* `--clobber` deletes an asset before it uploads the new one. *)
PublishRelease(r) ==
    /\ publisher = "idle"
    /\ Newest < MaxPublications
    /\ published' = Append(published, r)
    /\ IF Newest = 0
       THEN /\ release' = [index |-> 1, archive |-> [release.archive EXCEPT ![r] = 1]]
            /\ UNCHANGED publisher
       ELSE /\ release' = [release EXCEPT !.archive[r] = Nothing]
            /\ publisher' = "archive"
    /\ UNCHANGED <<cache, backup, sync, interrupted, failures, together, installed>>

\* Mutant of UploadArchive: the index is uploaded with the archive still to come.
UploadIndexFirst ==
    /\ publisher = "archive"
    /\ release' = [release EXCEPT !.index = Newest]
    /\ publisher' = "index"

UploadArchive ==
    /\ publisher = "archive"
    /\ release' = [release EXCEPT !.archive[published[Newest]] = Newest]
    /\ publisher' = "index"

DeleteIndex ==
    /\ publisher = "index"
    /\ release' = [release EXCEPT !.index = Nothing]
    /\ publisher' = "indexing"

UploadIndex ==
    /\ publisher = "indexing"
    /\ release' = [release EXCEPT !.index = Newest]
    /\ publisher' = "idle"

(* A command of the GitHub CLI fails or takes too long: what has been done *)
(* stays. *)
PublishFails ==
    /\ publisher # "idle"
    /\ publisher' = "idle"
    /\ UNCHANGED release

PublishStep ==
    /\ UploadArchive \/ DeleteIndex \/ UploadIndex \/ PublishFails
    /\ UNCHANGED <<published, cache, backup, sync, interrupted, failures, together, installed>>

-----------------------------------------------------------------------------
(* sync_public_lake.                                                       *)

At(s, step) == sync[s].step = step

(* Syncer s goes on to `step`, with `staging` as its staging directory.    *)
Goes(s, step, staging) ==
    sync' = [sync EXCEPT ![s].step = step, ![s].staging = staging]

Proceeds(s, step) == Goes(s, step, sync[s].staging)

Running(s) == ~At(s, "over")
Runners == {s \in Syncers : Running(s)}

(* A sync is run; its first step is to read the index. *)
Start(s) ==
    /\ At(s, "over")
    /\ sync' = [sync EXCEPT ![s] = [Idle EXCEPT !.step = "index"]]
    /\ together' = IF Cardinality(Runners) >= together THEN Cardinality(Runners) + 1
                   ELSE together
    /\ UNCHANGED <<published, release, publisher, cache, backup, interrupted, failures, installed>>

(* The index is downloaded and validated.  Where that fails the sync ends  *)
(* there, before the part of it that looks after the backup: what an       *)
(* earlier one has left stays as it is. *)
ReadIndex(s) ==
    /\ At(s, "index")
    /\ \/ /\ release.index # Nothing
          /\ sync' = [sync EXCEPT ![s].step = "check", ![s].index = release.index]
          /\ UNCHANGED failures
       \/ /\ release.index = Nothing \/ failures < MaxFailures
          /\ failures' = IF release.index = Nothing THEN failures ELSE failures + 1
          /\ Proceeds(s, "over")
    /\ UNCHANGED <<cache, backup>>

(* _generation_matches: every file of the cache is what the index says.    *)
Check(s) ==
    /\ At(s, "check")
    /\ Proceeds(s, IF cache = Whole(sync[s].index) THEN "over" ELSE "download")
    /\ UNCHANGED <<cache, backup, failures>>

\* Mutant of Download: the archive is unpacked without a look at its checksum.
DownloadAnything(s) ==
    LET archive == release.archive[published[sync[s].index]]
    IN /\ At(s, "download")
       /\ \/ /\ archive # Nothing
             /\ Goes(s, "clear", [of |-> sync[s].index, whole |-> archive = sync[s].index])
             /\ UNCHANGED failures
          \/ /\ archive = Nothing \/ failures < MaxFailures
             /\ failures' = IF archive = Nothing THEN failures ELSE failures + 1
             /\ Goes(s, "fail", Torn(Whole(sync[s].index)))
       /\ UNCHANGED <<cache, backup>>

(* The archive has the size and the checksum of the index, and each member *)
(* those of its entry; or the sync fails, for another archive or for a     *)
(* failed download. *)
Download(s) ==
    LET archive == release.archive[published[sync[s].index]]
    IN /\ At(s, "download")
       /\ \/ /\ archive = sync[s].index
             /\ Goes(s, "clear", Whole(sync[s].index))
             /\ UNCHANGED failures
          \/ /\ archive # sync[s].index \/ failures < MaxFailures
             /\ failures' = IF archive # sync[s].index THEN failures ELSE failures + 1
             /\ Goes(s, "fail", Torn(Whole(sync[s].index)))
       /\ UNCHANGED <<cache, backup>>

(* rmtree of the backup, which is looked for first, is not one step.  It   *)
(* raises when the directory is gone, or has become another, before its    *)
(* end. *)
Clear(s) ==
    /\ At(s, "clear")
    /\ Proceeds(s, IF backup = Missing THEN "park?" ELSE "clearing")
    /\ backup' = Torn(backup)
    /\ UNCHANGED <<cache, failures>>

Cleared(s) ==
    /\ At(s, "clearing")
    /\ IF backup # Missing /\ ~backup.whole
       THEN Proceeds(s, "park?") /\ backup' = Missing
       ELSE Proceeds(s, "fail") /\ UNCHANGED backup
    /\ UNCHANGED <<cache, failures>>

LookForCache(s) ==
    /\ At(s, "park?")
    /\ Proceeds(s, IF cache = Missing THEN "install" ELSE "park")
    /\ UNCHANGED <<cache, backup, failures>>

\* Mutant of Park: the cache is removed, and only then replaced.
ParkByRemoving(s) ==
    /\ At(s, "park")
    /\ cache' = Missing
    /\ Proceeds(s, "install")
    /\ UNCHANGED <<backup, failures>>

(* The cache becomes the backup: rename fails when there is no cache, or a *)
(* backup that is not empty. *)
Park(s) ==
    /\ At(s, "park")
    /\ IF cache # Missing /\ backup = Missing
       THEN /\ backup' = cache
            /\ cache' = Missing
            /\ Proceeds(s, "install")
       ELSE Proceeds(s, "fail") /\ UNCHANGED <<cache, backup>>
    /\ UNCHANGED failures

(* The staging directory becomes the cache, unless there is one. *)
Install(s) ==
    /\ At(s, "install")
    /\ IF cache = Missing
       THEN cache' = sync[s].staging /\ Goes(s, "tidy", Missing)
       ELSE Proceeds(s, "fail") /\ UNCHANGED cache
    /\ UNCHANGED <<backup, failures>>

(* The backup is removed, whatever becomes of that. *)
Tidy(s) ==
    /\ At(s, "tidy")
    /\ Proceeds(s, IF backup = Missing THEN "over" ELSE "tidying")
    /\ backup' = Torn(backup)
    /\ UNCHANGED <<cache, failures>>

Tidied(s) ==
    /\ At(s, "tidying")
    /\ Proceeds(s, "over")
    /\ backup' = IF backup.whole THEN backup ELSE Missing
    /\ UNCHANGED <<cache, failures>>

\* Mutant of Fail: an exception leaves the backup where it is.
FailLeavingTheBackup(s) ==
    /\ At(s, "fail")
    /\ Goes(s, "over", Missing)
    /\ UNCHANGED <<cache, backup, failures>>

(* An exception: the staging directory is removed, and the backup put back *)
(* when there is no cache. *)
Fail(s) ==
    /\ At(s, "fail")
    /\ Goes(s, IF backup # Missing /\ cache = Missing THEN "restore" ELSE "over", Missing)
    /\ UNCHANGED <<cache, backup, failures>>

Restore(s) ==
    /\ At(s, "restore")
    /\ Proceeds(s, "over")
    /\ IF backup # Missing /\ cache = Missing
       THEN cache' = backup /\ backup' = Missing
       ELSE UNCHANGED <<cache, backup>>
    /\ UNCHANGED failures

(* The process is killed or interrupted; its staging directory is left     *)
(* behind and never looked at again. *)
Interrupt(s) ==
    /\ Running(s)
    /\ interrupted < MaxInterrupted
    /\ interrupted' = interrupted + 1
    /\ sync' = [sync EXCEPT ![s] = Idle]
    /\ UNCHANGED <<published, release, publisher, cache, backup, failures, together, installed>>

SyncStep(s) ==
    /\ \/ ReadIndex(s) \/ Check(s) \/ Download(s)
       \/ Clear(s) \/ Cleared(s) \/ LookForCache(s) \/ Park(s) \/ Install(s)
       \/ Tidy(s) \/ Tidied(s)
       \/ Fail(s) \/ Restore(s)
    /\ installed' = (installed \/ cache' # Missing)
    /\ UNCHANGED <<published, release, publisher, interrupted, together>>

LakeNext ==
    \/ \E r \in Runs : PublishRelease(r)
    \/ PublishStep
    \/ \E s \in Syncers : Start(s) \/ SyncStep(s) \/ Interrupt(s)

LakeSpec == LakeInit /\ [][LakeNext]_lakeVars

-----------------------------------------------------------------------------
(* Properties.                                                             *)

(* The archive an index names is the one it was made with: whoever reads   *)
(* the index can download it, even when the publication that replaces it   *)
(* has failed half way, unless that one is of the same run. *)
IndexHasItsArchive ==
    release.index # Nothing =>
        \/ release.archive[published[release.index]] = release.index
        \/ \E p \in release.index + 1 .. Newest : published[p] = published[release.index]

(* What sync says of itself, "replace the cache atomically", as far as the *)
(* code goes in every case: the cache is a whole one whenever there is one. *)
CacheIsWhole == cache = Missing \/ cache.whole

(* One sync at a time that is interrupted once, anywhere, or two at a time *)
(* that end by themselves. *)
Calm ==
    \/ together <= 1 /\ interrupted <= 1
    \/ together <= 2 /\ interrupted = 0

(* Then what the terminal reads is never a half-removed lake,              *)
CacheStaysWhole == Calm => CacheIsWhole

(* and what was once downloaded is not lost: a whole lake is in the cache, *)
(* where the next sync looks for a backup, or with a sync that goes on. *)
LakeSurvives ==
    Calm /\ installed =>
        cache.whole \/ backup.whole \/ \E s \in Syncers : sync[s].staging.whole

(* A sync that has read a valid index and ends by itself, alone, has put   *)
(* back the cache that an interrupted one had moved away, also when it     *)
(* could not download the archive.  (One that cannot read the index ends   *)
(* without a look at the backup: the terminal stays without a lake.) *)
SyncLeavesACache ==
    [][\A s \in Syncers :
           /\ together <= 1 /\ interrupted <= 1
           /\ installed
           /\ Running(s) /\ ~At(s, "index") /\ sync'[s].step = "over"
           /\ interrupted' = interrupted
           => cache' # Missing]_lakeVars
=============================================================================
