----------------------------- MODULE LakeProofs -----------------------------
(***************************************************************************)
(* Proofs about LakeCache, for every number of syncs, runs and failures,   *)
(* and about MarketSnapshots, for every number of ingests and kills.       *)
(***************************************************************************)
EXTENDS LakeCache, MarketSnapshots, FiniteSetTheorems, TLAPS

-----------------------------------------------------------------------------
(* The release.                                                            *)

(* Archives are where their runs are, and the index of the publication     *)
(* that is under way has its archive once that was uploaded. *)
ReleaseInv ==
    /\ published \in Seq(Runs)
    /\ Len(published) <= MaxPublications
    /\ release \in [index : 0 .. Len(published), archive : [Runs -> 0 .. Len(published)]]
    /\ publisher \in {"idle", "archive", "index", "indexing"}
    /\ publisher # "idle" => Len(published) # 0
    /\ publisher \in {"index", "indexing"} =>
          release.archive[published[Len(published)]] = Len(published)
    /\ IndexHasItsArchive

(* The release starts empty. *)
LEMMA ReleaseStarts == LakeInit => ReleaseInv
BY LakeAssumption DEF LakeInit, ReleaseInv, IndexHasItsArchive, Nothing, Newest

(* One archive of a release is deleted or uploaded. *)
LEMMA ArchiveReplaced ==
    ASSUME NEW n \in Nat, NEW m \in n .. n + 1,
           NEW served \in [index : 0 .. n, archive : [Runs -> 0 .. n]],
           NEW r \in Runs, NEW p \in 0 .. n,
           NEW next, next = [served EXCEPT !.archive[r] = p]
    PROVE  /\ next.index = served.index
           /\ next.archive = [served.archive EXCEPT ![r] = p]
           /\ next \in [index : 0 .. m, archive : [Runs -> 0 .. m]]
<1>1. next = [served EXCEPT !.archive = [served.archive EXCEPT ![r] = p]]
  OBVIOUS
<1>2. [served.archive EXCEPT ![r] = p] \in [Runs -> 0 .. n]
  OBVIOUS
<1>3. /\ next.index = served.index
      /\ next.archive = [served.archive EXCEPT ![r] = p]
      /\ next \in [index : 0 .. n, archive : [Runs -> 0 .. n]]
  BY <1>1, <1>2
<1>4. 0 .. n \subseteq 0 .. m
  OBVIOUS
<1> QED
  BY <1>3, <1>4

(* Every step of a publication keeps it: what loses its archive is an      *)
(* index with a later publication of the same run. *)
LEMMA ReleaseStep == ReleaseInv /\ [LakeNext]_lakeVars => ReleaseInv'
<1> SUFFICES ASSUME ReleaseInv, [LakeNext]_lakeVars PROVE ReleaseInv'
  OBVIOUS
<1> USE LakeAssumption DEF Nothing, Newest
<1>1. /\ published \in Seq(Runs)
      /\ Len(published) \in Nat
      /\ release \in [index : 0 .. Len(published), archive : [Runs -> 0 .. Len(published)]]
  BY DEF ReleaseInv
<1>2. CASE UNCHANGED <<published, release, publisher>>
  BY <1>2 DEF ReleaseInv, IndexHasItsArchive
<1>3. ASSUME NEW r \in Runs, PublishRelease(r) PROVE ReleaseInv'
  <2>1. /\ published' = Append(published, r)
        /\ published' \in Seq(Runs)
        /\ Len(published') = Len(published) + 1
        /\ Len(published') <= MaxPublications
        /\ published'[Len(published')] = r
        /\ \A p \in 1 .. Len(published) : published'[p] = published[p]
    BY <1>1, <1>3 DEF PublishRelease
  <2>2. CASE Len(published) = 0
    <3>1. /\ release' = [index |-> 1, archive |-> [release.archive EXCEPT ![r] = 1]]
          /\ publisher' = publisher /\ publisher = "idle"
      BY <1>3, <2>2 DEF PublishRelease
    <3>2. release'.archive[r] = 1 /\ Len(published') = 1
      BY <1>1, <2>1, <2>2, <3>1
    <3>3. IndexHasItsArchive'
      BY <2>1, <3>1, <3>2 DEF IndexHasItsArchive
    <3>4. release' \in [index : 0 .. 1, archive : [Runs -> 0 .. 1]]
      BY <1>1, <2>2, <3>1
    <3> QED
      BY <2>1, <3>1, <3>2, <3>3, <3>4 DEF ReleaseInv
  <2>3. CASE Len(published) # 0
    <3>1. /\ release' = [release EXCEPT !.archive[r] = 0]
          /\ publisher' = "archive"
      BY <1>3, <2>3 DEF PublishRelease
    <3>2. /\ release'.index = release.index
          /\ \A q \in Runs : q # r => release'.archive[q] = release.archive[q]
          /\ release' \in [index : 0 .. Len(published'), archive : [Runs -> 0 .. Len(published')]]
      <4>1. 0 \in 0 .. Len(published) /\ Len(published') \in Len(published) .. Len(published) + 1
        BY <1>1, <2>1
      <4>2. /\ release'.index = release.index
            /\ release'.archive = [release.archive EXCEPT ![r] = 0]
            /\ release' \in [index : 0 .. Len(published'), archive : [Runs -> 0 .. Len(published')]]
        BY <1>1, <3>1, <4>1, ArchiveReplaced
      <4> QED
        BY <1>1, <4>2
    <3>3. ASSUME release.index # 0 PROVE IndexHasItsArchive'
      <4>1. release.index \in 1 .. Len(published) /\ published[release.index] \in Runs
        BY <1>1, <3>3
      <4>2. CASE published[release.index] = r
        BY <2>1, <3>2, <4>1, <4>2, <1>1 DEF IndexHasItsArchive
      <4>3. CASE published[release.index] # r
        <5>1. \/ release.archive[published[release.index]] = release.index
              \/ \E p \in release.index + 1 .. Len(published) :
                    published[p] = published[release.index]
          BY <3>3 DEF ReleaseInv, IndexHasItsArchive
        <5>2. published'[release'.index] = published[release.index]
          BY <2>1, <3>2, <4>1
        <5>3. CASE release.archive[published[release.index]] = release.index
          BY <3>2, <4>1, <4>3, <5>2, <5>3 DEF IndexHasItsArchive
        <5>4. ASSUME NEW p \in release.index + 1 .. Len(published),
                     published[p] = published[release.index]
              PROVE  IndexHasItsArchive'
          <6>1. p \in 1 .. Len(published) /\ p \in release'.index + 1 .. Len(published')
            BY <1>1, <2>1, <3>2, <4>1
          <6>2. published'[p] = published'[release'.index]
            BY <2>1, <5>2, <5>4, <6>1
          <6> QED
            BY <6>1, <6>2 DEF IndexHasItsArchive
        <5> QED
          BY <5>1, <5>3, <5>4
      <4> QED
        BY <4>2, <4>3
    <3>4. IndexHasItsArchive'
      BY <3>2, <3>3 DEF IndexHasItsArchive
    <3> QED
      BY <2>1, <3>1, <3>2, <3>4, <1>1 DEF ReleaseInv
  <2> QED
    BY <2>2, <2>3
<1>4. CASE UploadArchive /\ UNCHANGED published
  <2> DEFINE r == published[Len(published)]
  <2>1. /\ r \in Runs
        /\ release' = [release EXCEPT !.archive[r] = Len(published)]
        /\ publisher' = "index"
        /\ Len(published) # 0
        /\ published' = published
    BY <1>1, <1>4 DEF UploadArchive, ReleaseInv
  <2> HIDE DEF r
  <2>2. /\ release'.index = release.index
        /\ \A q \in Runs : q # r => release'.archive[q] = release.archive[q]
        /\ release'.archive[r] = Len(published)
        /\ release' \in [index : 0 .. Len(published), archive : [Runs -> 0 .. Len(published)]]
    <3>1. Len(published) \in 0 .. Len(published) /\ Len(published) \in Len(published) .. Len(published) + 1
      BY <1>1
    <3>2. /\ release'.index = release.index
          /\ release'.archive = [release.archive EXCEPT ![r] = Len(published)]
          /\ release' \in [index : 0 .. Len(published), archive : [Runs -> 0 .. Len(published)]]
      BY <1>1, <2>1, <3>1, ArchiveReplaced
    <3> QED
      BY <1>1, <2>1, <3>2
  <2>3. ASSUME release.index # 0 PROVE IndexHasItsArchive'
    <3>1. release.index \in 1 .. Len(published) /\ published[release.index] \in Runs
      BY <1>1, <2>3
    <3>2. CASE published[release.index] = r /\ release.index # Len(published)
      BY <1>1, <2>1, <2>2, <3>1, <3>2 DEF IndexHasItsArchive, r
    <3>3. CASE release.index = Len(published)
      BY <1>1, <2>1, <2>2, <3>1, <3>3 DEF IndexHasItsArchive, r
    <3>4. CASE published[release.index] # r
      BY <1>1, <2>1, <2>2, <2>3, <3>1, <3>4 DEF IndexHasItsArchive, ReleaseInv
    <3> QED
      BY <3>2, <3>3, <3>4
  <2>4. IndexHasItsArchive'
    BY <2>2, <2>3 DEF IndexHasItsArchive
  <2> QED
    BY <1>1, <2>1, <2>2, <2>4 DEF ReleaseInv, r
<1>5. CASE DeleteIndex /\ UNCHANGED published
  <2>1. /\ release' = [release EXCEPT !.index = 0]
        /\ publisher' = "indexing" /\ publisher = "index"
    BY <1>5 DEF DeleteIndex
  <2>2. release'.index = 0 /\ release'.archive = release.archive
    BY <1>1, <2>1
  <2>3. release' \in [index : 0 .. Len(published), archive : [Runs -> 0 .. Len(published)]]
    BY <1>1, <2>1
  <2> QED
    BY <1>5, <2>1, <2>2, <2>3 DEF ReleaseInv, IndexHasItsArchive
<1>6. CASE UploadIndex /\ UNCHANGED published
  <2>1. /\ release' = [release EXCEPT !.index = Len(published)]
        /\ publisher' = "idle" /\ publisher = "indexing"
    BY <1>6 DEF UploadIndex
  <2>2. release'.index = Len(published) /\ release'.archive = release.archive
    BY <1>1, <2>1
  <2>3. release' \in [index : 0 .. Len(published), archive : [Runs -> 0 .. Len(published)]]
    BY <1>1, <2>1
  <2>4. release.archive[published[Len(published)]] = Len(published)
    BY <2>1 DEF ReleaseInv
  <2> QED
    BY <1>6, <2>1, <2>2, <2>3, <2>4 DEF ReleaseInv, IndexHasItsArchive
<1>7. CASE PublishFails /\ UNCHANGED published
  BY <1>7 DEF PublishFails, ReleaseInv, IndexHasItsArchive
<1>8. ASSUME NEW s \in Syncers, Start(s) \/ SyncStep(s) \/ Interrupt(s)
      PROVE  UNCHANGED <<published, release, publisher>>
  BY <1>8 DEF Start, SyncStep, Interrupt
<1> QED
  BY <1>2, <1>3, <1>4, <1>5, <1>6, <1>7, <1>8 DEF LakeNext, PublishStep, lakeVars

(* Whoever reads an index can download the archive it names, unless a      *)
(* later publication of the same run has begun to replace it. *)
THEOREM IndexNamesItsArchive == LakeSpec => []IndexHasItsArchive
<1>1. ReleaseInv => IndexHasItsArchive
  BY DEF ReleaseInv
<1> QED
  BY <1>1, ReleaseStarts, ReleaseStep, PTL DEF LakeSpec

-----------------------------------------------------------------------------
(* The cache.                                                              *)

(* A directory: none, or one that holds what was published.                *)
Directories == {Missing} \cup [of : Publications, whole : BOOLEAN]
SyncRecords == [step : SyncSteps, index : Publications \cup {Nothing}, staging : Directories]

CacheTypeOK ==
    /\ cache \in Directories
    /\ backup \in Directories
    /\ sync \in [Syncers -> SyncRecords]
    /\ \A s \in Syncers : Running(s) /\ ~At(s, "index") => sync[s].index \in Publications
    /\ interrupted \in Nat
    /\ failures \in Nat
    /\ together \in Nat
    /\ installed \in BOOLEAN

AtOneOf(s, steps) == sync[s].step \in steps

(* A sync that has downloaded its archive has all of it. *)
StagingIsWhole ==
    \A s \in Syncers :
        AtOneOf(s, {"clear", "clearing", "park?", "park", "install"}) => sync[s].staging.whole

(* together counts the syncs that run. *)
RunnersCounted == Cardinality(Runners) <= together

(* Nothing is there before the first installation. *)
FirstInstallation == ~installed => cache = Missing /\ backup = Missing

TornBackup == backup # Missing /\ ~backup.whole

(* Up to two syncs that end by themselves: the cache is away only while    *)
(* one of them is about to install, and a torn backup is being removed. *)
Undisturbed ==
    interrupted = 0 /\ together <= 2 =>
        /\ CacheIsWhole
        /\ installed /\ cache = Missing => \E s \in Syncers : At(s, "install")
        /\ TornBackup => \E s \in Syncers : AtOneOf(s, {"clearing", "tidying"})

(* One sync at a time: it finds what it has left. *)
Found(s) ==
    /\ At(s, "clearing") => TornBackup
    /\ At(s, "park?") => backup = Missing
    /\ At(s, "park") => backup = Missing /\ cache # Missing
    /\ At(s, "install") =>
          /\ cache = Missing
          /\ interrupted = 0 /\ installed => backup.whole
    /\ At(s, "tidy") => cache.whole
    /\ At(s, "tidying") => cache.whole /\ ~backup.whole
    /\ At(s, "restore") => backup # Missing /\ cache = Missing

StepByStep == together <= 1 /\ interrupted <= 1 => \A s \in Syncers : Found(s)

(* One sync at a time, after one was interrupted: what it had moved away   *)
(* is the backup until a sync has downloaded another lake. *)
InterruptedOnce ==
    together <= 1 /\ interrupted = 1 =>
        /\ CacheIsWhole
        /\ installed /\ cache = Missing =>
              \/ backup.whole
              \/ \E s \in Syncers : AtOneOf(s, {"clearing", "park?", "install"})

CacheInv ==
    /\ CacheTypeOK
    /\ StagingIsWhole
    /\ RunnersCounted
    /\ FirstInstallation
    /\ Undisturbed
    /\ StepByStep
    /\ InterruptedOnce

(* What removals make of directories.                                      *)
LEMMA DirectoryFacts ==
    /\ Missing \in Directories
    /\ ~Missing.whole
    /\ \A p \in Publications :
          Whole(p) \in Directories /\ Whole(p).whole /\ Torn(Whole(p)) \in Directories
    /\ \A d \in Directories :
          /\ Torn(d) \in Directories
          /\ ~Torn(d).whole
          /\ Torn(d) = Missing <=> d = Missing
          /\ d.whole \in BOOLEAN
          /\ d.whole => d # Missing
    /\ \A p \in Publications : Whole(p) # Missing
    /\ Idle \in SyncRecords /\ Idle.step = "over"
<1>1. \A p \in Publications : p # 0
  BY LakeAssumption DEF Publications
<1>2. \A p \in Publications : Whole(p) \in Directories /\ Whole(p).whole /\ Whole(p) # Missing
  BY <1>1 DEF Directories, Missing, Whole, Nothing
<1>3. ASSUME NEW d \in Directories
      PROVE  /\ Torn(d) \in Directories
             /\ ~Torn(d).whole
             /\ Torn(d) = Missing <=> d = Missing
             /\ d.whole \in BOOLEAN
             /\ d.whole => d # Missing
  <2>1. CASE d = Missing
    <3>1. Missing \in [of : {0}, whole : {FALSE}]
      BY DEF Missing, Nothing
    <3>2. Torn(Missing) \in [of : {0}, whole : {FALSE}]
      BY <3>1 DEF Torn
    <3>3. Torn(Missing) = [of |-> 0, whole |-> FALSE]
      BY <3>2
    <3>4. Torn(Missing) = Missing
      BY <3>3 DEF Missing, Nothing
    <3> QED
      BY <2>1, <3>4 DEF Directories, Missing
  <2>2. CASE d # Missing
    <3>1. d \in [of : Publications, whole : BOOLEAN]
      BY <2>2 DEF Directories
    <3>2. /\ Torn(d) \in [of : Publications, whole : BOOLEAN]
          /\ Torn(d).of = d.of /\ ~Torn(d).whole
      BY <3>1 DEF Torn
    <3>3. Torn(d) # Missing
      BY <1>1, <3>1, <3>2 DEF Missing, Nothing
    <3> QED
      BY <2>2, <3>1, <3>2, <3>3 DEF Directories
  <2> QED
    BY <2>1, <2>2
<1>4. Missing \in Directories /\ ~Missing.whole
  BY DEF Directories, Missing
<1>5. Idle \in SyncRecords /\ Idle.step = "over"
  BY <1>4 DEF Idle, SyncRecords, SyncSteps
<1> QED
  BY <1>2, <1>3, <1>4, <1>5

(* What a step of one sync changes in sync.                                *)
LEMMA GoesFacts ==
    ASSUME sync \in [Syncers -> SyncRecords], NEW s \in Syncers,
           NEW step \in SyncSteps, NEW staging \in Directories,
           Goes(s, step, staging)
    PROVE  /\ sync' \in [Syncers -> SyncRecords]
           /\ sync'[s].step = step
           /\ sync'[s].staging = staging
           /\ sync'[s].index = sync[s].index
           /\ \A t \in Syncers \ {s} : sync'[t] = sync[t]
<1>1. sync' = [sync EXCEPT ![s] = [sync[s] EXCEPT !.step = step, !.staging = staging]]
  BY DEF Goes
<1>2. [sync[s] EXCEPT !.step = step, !.staging = staging] \in SyncRecords
  BY DEF SyncRecords
<1>3. sync[s] \in SyncRecords
  OBVIOUS
<1>4. sync'[s] = [sync[s] EXCEPT !.step = step, !.staging = staging]
  BY <1>1
<1>5. sync'[s].step = step /\ sync'[s].staging = staging /\ sync'[s].index = sync[s].index
  BY <1>3, <1>4 DEF SyncRecords
<1> QED
  BY <1>1, <1>2, <1>5

(* There are finitely many syncs that run, and adding one counts. *)
LEMMA RunnersAreFinite ==
    /\ IsFiniteSet(Runners)
    /\ Cardinality(Runners) \in Nat
<1>1. Runners \subseteq Syncers
  BY DEF Runners
<1> QED
  BY <1>1, LakeAssumption, FS_Subset, FS_CardinalityType

(* At most one sync runs where together says so. *)
LEMMA OneRuns ==
    ASSUME CacheInv, together <= 1, NEW s \in Syncers, NEW t \in Syncers,
           Running(s), Running(t)
    PROVE  s = t
<1> SUFFICES ASSUME s # t PROVE FALSE
  OBVIOUS
<1>1. {s, t} \subseteq Runners
  BY DEF Runners
<1>2. IsFiniteSet({}) /\ Cardinality({}) = 0
  BY FS_EmptySet
<1>3. IsFiniteSet({s}) /\ Cardinality({s}) = 1
  BY FS_Singleton
<1>4. Cardinality({s} \cup {t}) = 2
  <2>1. t \notin {s}
    OBVIOUS
  <2> QED
    BY <1>3, <2>1, FS_AddElement
<1>5. {s, t} = {s} \cup {t}
  OBVIOUS
<1>6. Cardinality({s, t}) <= Cardinality(Runners)
  BY <1>1, RunnersAreFinite, FS_Subset
<1> QED
  BY <1>4, <1>5, <1>6, RunnersAreFinite DEF CacheInv, RunnersCounted, CacheTypeOK

(* At most two syncs run where together says so. *)
LEMMA TwoRun ==
    ASSUME CacheInv, together <= 2,
           NEW s \in Syncers, NEW t \in Syncers, NEW u \in Syncers,
           Running(s), Running(t), Running(u)
    PROVE  s = t \/ s = u \/ t = u
<1> SUFFICES ASSUME s # t, s # u, t # u PROVE FALSE
  OBVIOUS
<1>1. {s, t, u} \subseteq Runners
  BY DEF Runners
<1>2. IsFiniteSet({s}) /\ Cardinality({s}) = 1
  BY FS_Singleton
<1>3. IsFiniteSet({s} \cup {t}) /\ Cardinality({s} \cup {t}) = 2
  <2>1. t \notin {s}
    OBVIOUS
  <2> QED
    BY <1>2, <2>1, FS_AddElement
<1>4. u \notin {s} \cup {t}
  OBVIOUS
<1>5. Cardinality(({s} \cup {t}) \cup {u}) = 3
  BY <1>3, <1>4, FS_AddElement
<1>6. {s, t, u} = ({s} \cup {t}) \cup {u}
  OBVIOUS
<1>7. Cardinality({s, t, u}) <= Cardinality(Runners)
  BY <1>1, RunnersAreFinite, FS_Subset
<1> QED
  BY <1>5, <1>6, <1>7, RunnersAreFinite DEF CacheInv, RunnersCounted, CacheTypeOK

-----------------------------------------------------------------------------
(* The steps of a sync.                                                    *)

(* What a step of a sync leaves alone, and what follows from that.         *)
LEMMA StepLeaves ==
    ASSUME CacheInv, NEW s \in Syncers, Running(s),
           NEW step \in SyncSteps, NEW staging \in Directories,
           ~At(s, "index") \/ step = "over",
           Goes(s, step, staging),
           installed' = (installed \/ cache' # Missing),
           UNCHANGED <<published, release, publisher, interrupted, together>>,
           cache' \in Directories, backup' \in Directories, failures' \in Nat
    PROVE  /\ CacheTypeOK'
           /\ RunnersCounted'
           /\ sync'[s].step = step
           /\ sync'[s].staging = staging
           /\ \A t \in Syncers \ {s} : sync'[t] = sync[t]
<1>1. /\ sync' \in [Syncers -> SyncRecords]
      /\ sync'[s].step = step
      /\ sync'[s].staging = staging
      /\ sync'[s].index = sync[s].index
      /\ \A t \in Syncers \ {s} : sync'[t] = sync[t]
  BY GoesFacts DEF CacheInv, CacheTypeOK
<1>2. \A t \in Syncers : Running(t)' => Running(t)
  BY <1>1 DEF Running, At
<1>3. \A t \in Syncers : Running(t)' /\ ~At(t, "index")' => sync'[t].index \in Publications
  BY <1>1, <1>2 DEF CacheInv, CacheTypeOK, Running, At
<1>4. CacheTypeOK'
  BY <1>1, <1>3 DEF CacheInv, CacheTypeOK
<1>5. Runners' \subseteq Runners
  BY <1>2 DEF Runners
<1>6. Cardinality(Runners') <= Cardinality(Runners) /\ Cardinality(Runners') \in Nat
  BY <1>5, RunnersAreFinite, FS_Subset, FS_CardinalityType
<1>7. RunnersCounted'
  BY <1>6, RunnersAreFinite DEF CacheInv, CacheTypeOK, RunnersCounted
<1> QED
  BY <1>1, <1>4, <1>7

(* What a sync that runs alone knows.                                      *)
LEMMA AloneFacts ==
    ASSUME CacheInv, NEW s \in Syncers, Running(s), together <= 1, interrupted <= 1
    PROVE  /\ CacheIsWhole
           /\ interrupted = 0 /\ installed /\ cache = Missing => At(s, "install")
           /\ interrupted = 0 /\ TornBackup => AtOneOf(s, {"clearing", "tidying"})
           /\ interrupted = 1 /\ installed /\ cache = Missing =>
                 backup.whole \/ AtOneOf(s, {"clearing", "park?", "install"})
           /\ Found(s)
<1>1. interrupted \in Nat /\ together \in Nat
  BY DEF CacheInv, CacheTypeOK
<1>2. interrupted = 0 \/ interrupted = 1
  BY <1>1
<1>3. \A t \in Syncers : Running(t) => t = s
  BY OneRuns
<1>4. \A t \in Syncers :
          \/ At(t, "install")
          \/ AtOneOf(t, {"clearing", "tidying"})
          \/ AtOneOf(t, {"clearing", "park?", "install"})
          => t = s
  BY <1>3 DEF Running, At, AtOneOf
<1>5. Undisturbed /\ StepByStep /\ InterruptedOnce
  BY DEF CacheInv
<1>6. CASE interrupted = 0
  BY <1>1, <1>4, <1>5, <1>6 DEF Undisturbed, StepByStep
<1>7. CASE interrupted = 1
  BY <1>1, <1>4, <1>5, <1>7 DEF InterruptedOnce, StepByStep
<1> QED
  BY <1>2, <1>6, <1>7

(* Where nothing but s moves, StepByStep is about s.                       *)
LEMMA StepByStepKept ==
    ASSUME CacheInv, NEW s \in Syncers, Running(s),
           UNCHANGED <<interrupted, together>>,
           \A t \in Syncers \ {s} : sync'[t] = sync[t],
           together <= 1 /\ interrupted <= 1 => Found(s)'
    PROVE  StepByStep'
<1> SUFFICES ASSUME together <= 1, interrupted <= 1, NEW t \in Syncers PROVE Found(t)'
  BY DEF StepByStep
<1>1. CASE t = s
  BY <1>1
<1>2. CASE t # s
  <2>1. sync'[t].step = "over"
    BY <1>2, OneRuns DEF Running, At
  <2> QED
    BY <2>1 DEF Found, At
<1> QED
  BY <1>1, <1>2

(* A sync that has read the index knows one that was published.            *)
LEMMA IndexKeeps ==
    ASSUME CacheInv, ReleaseInv, NEW s \in Syncers, ReadIndex(s),
           sync' = [sync EXCEPT ![s].step = "check", ![s].index = release.index],
           installed' = (installed \/ cache' # Missing),
           UNCHANGED <<interrupted, together>>
    PROVE  CacheInv'
<1> USE DirectoryFacts
<1>1. /\ At(s, "index") /\ Running(s)
      /\ UNCHANGED <<cache, backup, interrupted, together>>
  BY DEF ReadIndex, At, Running
<1>2. CacheTypeOK /\ RunnersCounted /\ FirstInstallation
  BY DEF CacheInv
<1>3. failures' \in Nat /\ installed' = installed
  <2>1. failures' \in {failures, failures + 1}
    BY DEF ReadIndex
  <2> QED
    BY <1>1, <1>2, <2>1 DEF CacheTypeOK, FirstInstallation
<1>4. ~(Proceeds(s, "over")) => release.index \in Publications
  BY LakeAssumption DEF ReadIndex, ReleaseInv, Publications, Nothing
<1>5. /\ sync'[s].step = "check" /\ sync'[s].index = release.index
      /\ sync'[s].staging = sync[s].staging
      /\ \A t \in Syncers \ {s} : sync'[t] = sync[t]
  BY <1>2 DEF CacheTypeOK, SyncRecords
<1>6. ~Proceeds(s, "over")
  <2>1. ASSUME Proceeds(s, "over") PROVE sync'[s].step = "over"
    BY <1>2, <2>1, GoesFacts DEF Proceeds, CacheTypeOK, SyncRecords, SyncSteps
  <2> QED
    BY <1>5, <2>1
<1>7. sync' \in [Syncers -> SyncRecords]
  <2>1. release.index \in Publications \cup {Nothing} /\ "check" \in SyncSteps
    BY <1>4, <1>6 DEF SyncSteps
  <2>2. [sync[s] EXCEPT !.step = "check", !.index = release.index] \in SyncRecords
    BY <1>2, <2>1 DEF CacheTypeOK, SyncRecords
  <2>3. sync' = [sync EXCEPT ![s] = [sync[s] EXCEPT !.step = "check", !.index = release.index]]
    OBVIOUS
  <2> QED
    BY <1>2, <2>2, <2>3 DEF CacheTypeOK
<1>8. \A t \in Syncers : Running(t)' <=> Running(t)
  BY <1>1, <1>5 DEF Running, At
<1>9. Runners' = Runners
  BY <1>8 DEF Runners
<1>10. CacheTypeOK' /\ RunnersCounted'
  BY <1>1, <1>2, <1>3, <1>4, <1>5, <1>6, <1>7, <1>9 DEF CacheTypeOK, RunnersCounted, Running, At
<1>11. StagingIsWhole' /\ FirstInstallation'
  BY <1>1, <1>3, <1>5 DEF CacheInv, StagingIsWhole, FirstInstallation, AtOneOf
<1>12. Undisturbed'
  BY <1>1, <1>3, <1>5 DEF CacheInv, Undisturbed, CacheIsWhole, TornBackup, AtOneOf, At
<1>13. StepByStep'
  BY <1>1, <1>5, StepByStepKept DEF Found, At
<1>14. InterruptedOnce'
  BY <1>1, <1>3, <1>5 DEF CacheInv, InterruptedOnce, CacheIsWhole, AtOneOf, At
<1> QED
  BY <1>10, <1>11, <1>12, <1>13, <1>14 DEF CacheInv

(* Every step of a sync keeps the invariant.                               *)
LEMMA SyncKeeps ==
    ASSUME CacheInv, ReleaseInv, NEW s \in Syncers, SyncStep(s)
    PROVE  CacheInv'
<1>1. /\ UNCHANGED <<published, release, publisher, interrupted, together>>
      /\ installed' = (installed \/ cache' # Missing)
      /\ interrupted' = interrupted /\ together' = together
  BY DEF SyncStep
<1>2. /\ cache \in Directories /\ backup \in Directories
      /\ sync[s].staging \in Directories
      /\ failures \in Nat /\ interrupted \in Nat /\ together \in Nat
      /\ installed \in BOOLEAN
      /\ \A t \in Syncers : sync[t].staging \in Directories
  BY DEF CacheInv, CacheTypeOK, SyncRecords
<1>3. /\ StagingIsWhole /\ FirstInstallation /\ Undisturbed
  BY DEF CacheInv
<1>4. cache # Missing => installed
  BY <1>3 DEF FirstInstallation
<1> USE DirectoryFacts
<1>5. CASE Check(s)
  <2>1. /\ Running(s)
        /\ Goes(s, (IF cache = Whole(sync[s].index) THEN "over" ELSE "download"), sync[s].staging)
        /\ At(s, "check")
        /\ cache' = cache
        /\ backup' = backup
        /\ failures' \in Nat
    BY <1>2, <1>5 DEF Check, Proceeds, Running, At
  <2>2. /\ CacheTypeOK' /\ RunnersCounted'
        /\ sync'[s].step = (IF cache = Whole(sync[s].index) THEN "over" ELSE "download") /\ sync'[s].staging = sync[s].staging
        /\ \A t \in Syncers \ {s} : sync'[t] = sync[t]
    BY <1>1, <1>2, <2>1, StepLeaves DEF SyncSteps, At
  <2>3. StagingIsWhole' /\ FirstInstallation'
    BY <1>1, <1>2, <1>3, <1>4, <2>1, <2>2 DEF StagingIsWhole, FirstInstallation, AtOneOf, At
  <2>4. Undisturbed'
    BY <1>1, <1>2, <1>3, <1>4, <2>1, <2>2 DEF Undisturbed, CacheIsWhole, TornBackup,
       FirstInstallation, AtOneOf, At
  <2>5. together <= 1 /\ interrupted <= 1 => Found(s)' /\ InterruptedOnce'
    BY <1>1, <1>2, <1>3, <1>4, <2>1, <2>2, AloneFacts DEF Found, InterruptedOnce,
       CacheIsWhole, TornBackup, FirstInstallation, StagingIsWhole, AtOneOf, At
  <2>6. StepByStep' /\ InterruptedOnce'
    BY <1>1, <1>2, <2>1, <2>2, <2>5, StepByStepKept DEF InterruptedOnce
  <2> QED
    BY <2>2, <2>3, <2>4, <2>6 DEF CacheInv
<1>6. CASE Download(s)
  <2>1. PICK step \in {"clear", "fail"} :
           LET staging == IF step = "clear" THEN Whole(sync[s].index)
                          ELSE Torn(Whole(sync[s].index))
           IN  Goes(s, step, staging) /\ failures' \in Nat
    BY <1>2, <1>6 DEF Download
  <2> DEFINE staging == IF step = "clear" THEN Whole(sync[s].index)
                        ELSE Torn(Whole(sync[s].index))
  <2>2. /\ Running(s) /\ At(s, "download")
        /\ sync[s].index \in Publications
        /\ cache' = cache /\ backup' = backup
    BY <1>6 DEF Download, Running, At, CacheInv, CacheTypeOK
  <2>3. /\ staging \in Directories
        /\ step = "clear" => staging.whole
    BY <2>2
  <2> HIDE DEF staging
  <2>4. /\ CacheTypeOK' /\ RunnersCounted'
        /\ sync'[s].step = step /\ sync'[s].staging = staging
        /\ \A t \in Syncers \ {s} : sync'[t] = sync[t]
    BY <1>1, <1>2, <2>1, <2>2, <2>3, StepLeaves DEF SyncSteps, At, staging
  <2>5. StagingIsWhole' /\ FirstInstallation'
    BY <1>1, <1>2, <1>3, <1>4, <2>1, <2>2, <2>3, <2>4 DEF StagingIsWhole,
       FirstInstallation, AtOneOf, At
  <2>6. Undisturbed'
    BY <1>1, <1>2, <1>3, <1>4, <2>1, <2>2, <2>4 DEF Undisturbed, CacheIsWhole,
       TornBackup, AtOneOf, At
  <2>7. together <= 1 /\ interrupted <= 1 => Found(s)' /\ InterruptedOnce'
    BY <1>1, <1>2, <1>4, <2>1, <2>2, <2>4, AloneFacts DEF Found, InterruptedOnce,
       CacheIsWhole, TornBackup, AtOneOf, At
  <2>8. StepByStep' /\ InterruptedOnce'
    BY <1>1, <1>2, <2>2, <2>4, <2>7, StepByStepKept DEF InterruptedOnce
  <2> QED
    BY <2>4, <2>5, <2>6, <2>8 DEF CacheInv
<1>7. CASE Clear(s)
  <2>1. /\ Running(s)
        /\ Goes(s, (IF backup = Missing THEN "park?" ELSE "clearing"), sync[s].staging)
        /\ At(s, "clear")
        /\ cache' = cache
        /\ backup' = Torn(backup)
        /\ failures' \in Nat
    BY <1>2, <1>7 DEF Clear, Proceeds, Running, At
  <2>2. /\ CacheTypeOK' /\ RunnersCounted'
        /\ sync'[s].step = (IF backup = Missing THEN "park?" ELSE "clearing") /\ sync'[s].staging = sync[s].staging
        /\ \A t \in Syncers \ {s} : sync'[t] = sync[t]
    BY <1>1, <1>2, <2>1, StepLeaves DEF SyncSteps, At
  <2>3. StagingIsWhole' /\ FirstInstallation'
    BY <1>1, <1>2, <1>3, <1>4, <2>1, <2>2 DEF StagingIsWhole, FirstInstallation, AtOneOf, At
  <2>4. Undisturbed'
    BY <1>1, <1>2, <1>3, <1>4, <2>1, <2>2 DEF Undisturbed, CacheIsWhole, TornBackup,
       FirstInstallation, AtOneOf, At
  <2>5. together <= 1 /\ interrupted <= 1 => Found(s)' /\ InterruptedOnce'
    BY <1>1, <1>2, <1>3, <1>4, <2>1, <2>2, AloneFacts DEF Found, InterruptedOnce,
       CacheIsWhole, TornBackup, FirstInstallation, StagingIsWhole, AtOneOf, At
  <2>6. StepByStep' /\ InterruptedOnce'
    BY <1>1, <1>2, <2>1, <2>2, <2>5, StepByStepKept DEF InterruptedOnce
  <2> QED
    BY <2>2, <2>3, <2>4, <2>6 DEF CacheInv
<1>8. CASE Cleared(s) /\ TornBackup
  <2>1. /\ Running(s)
        /\ Goes(s, "park?", sync[s].staging)
        /\ At(s, "clearing")
        /\ cache' = cache
        /\ TornBackup
        /\ backup' = Missing
        /\ failures' \in Nat
    BY <1>2, <1>8 DEF Cleared, Proceeds, Running, At, TornBackup
  <2>2. /\ CacheTypeOK' /\ RunnersCounted'
        /\ sync'[s].step = "park?" /\ sync'[s].staging = sync[s].staging
        /\ \A t \in Syncers \ {s} : sync'[t] = sync[t]
    BY <1>1, <1>2, <2>1, StepLeaves DEF SyncSteps, At
  <2>3. StagingIsWhole' /\ FirstInstallation'
    BY <1>1, <1>2, <1>3, <1>4, <2>1, <2>2 DEF StagingIsWhole, FirstInstallation, AtOneOf, At
  <2>4. Undisturbed'
    BY <1>1, <1>2, <1>3, <1>4, <2>1, <2>2 DEF Undisturbed, CacheIsWhole, TornBackup,
       FirstInstallation, AtOneOf, At
  <2>5. together <= 1 /\ interrupted <= 1 => Found(s)' /\ InterruptedOnce'
    BY <1>1, <1>2, <1>3, <1>4, <2>1, <2>2, AloneFacts DEF Found, InterruptedOnce,
       CacheIsWhole, TornBackup, FirstInstallation, StagingIsWhole, AtOneOf, At
  <2>6. StepByStep' /\ InterruptedOnce'
    BY <1>1, <1>2, <2>1, <2>2, <2>5, StepByStepKept DEF InterruptedOnce
  <2> QED
    BY <2>2, <2>3, <2>4, <2>6 DEF CacheInv
<1>9. CASE Cleared(s) /\ ~TornBackup
  <2>1. /\ Running(s)
        /\ Goes(s, "fail", sync[s].staging)
        /\ At(s, "clearing")
        /\ cache' = cache
        /\ ~TornBackup
        /\ backup' = backup
        /\ failures' \in Nat
    BY <1>2, <1>9 DEF Cleared, Proceeds, Running, At, TornBackup
  <2>2. /\ CacheTypeOK' /\ RunnersCounted'
        /\ sync'[s].step = "fail" /\ sync'[s].staging = sync[s].staging
        /\ \A t \in Syncers \ {s} : sync'[t] = sync[t]
    BY <1>1, <1>2, <2>1, StepLeaves DEF SyncSteps, At
  <2>3. StagingIsWhole' /\ FirstInstallation'
    BY <1>1, <1>2, <1>3, <1>4, <2>1, <2>2 DEF StagingIsWhole, FirstInstallation, AtOneOf, At
  <2>4. Undisturbed'
    BY <1>1, <1>2, <1>3, <1>4, <2>1, <2>2 DEF Undisturbed, CacheIsWhole, TornBackup,
       FirstInstallation, AtOneOf, At
  <2>5. together <= 1 /\ interrupted <= 1 => Found(s)' /\ InterruptedOnce'
    BY <1>1, <1>2, <1>3, <1>4, <2>1, <2>2, AloneFacts DEF Found, InterruptedOnce,
       CacheIsWhole, TornBackup, FirstInstallation, StagingIsWhole, AtOneOf, At
  <2>6. StepByStep' /\ InterruptedOnce'
    BY <1>1, <1>2, <2>1, <2>2, <2>5, StepByStepKept DEF InterruptedOnce
  <2> QED
    BY <2>2, <2>3, <2>4, <2>6 DEF CacheInv
<1>10. CASE LookForCache(s)
  <2>1. /\ Running(s)
        /\ Goes(s, (IF cache = Missing THEN "install" ELSE "park"), sync[s].staging)
        /\ At(s, "park?")
        /\ cache' = cache
        /\ backup' = backup
        /\ failures' \in Nat
    BY <1>2, <1>10 DEF LookForCache, Proceeds, Running, At
  <2>2. /\ CacheTypeOK' /\ RunnersCounted'
        /\ sync'[s].step = (IF cache = Missing THEN "install" ELSE "park") /\ sync'[s].staging = sync[s].staging
        /\ \A t \in Syncers \ {s} : sync'[t] = sync[t]
    BY <1>1, <1>2, <2>1, StepLeaves DEF SyncSteps, At
  <2>3. StagingIsWhole' /\ FirstInstallation'
    BY <1>1, <1>2, <1>3, <1>4, <2>1, <2>2 DEF StagingIsWhole, FirstInstallation, AtOneOf, At
  <2>4. Undisturbed'
    BY <1>1, <1>2, <1>3, <1>4, <2>1, <2>2 DEF Undisturbed, CacheIsWhole, TornBackup,
       FirstInstallation, AtOneOf, At
  <2>5. together <= 1 /\ interrupted <= 1 => Found(s)' /\ InterruptedOnce'
    BY <1>1, <1>2, <1>3, <1>4, <2>1, <2>2, AloneFacts DEF Found, InterruptedOnce,
       CacheIsWhole, TornBackup, FirstInstallation, StagingIsWhole, AtOneOf, At
  <2>6. StepByStep' /\ InterruptedOnce'
    BY <1>1, <1>2, <2>1, <2>2, <2>5, StepByStepKept DEF InterruptedOnce
  <2> QED
    BY <2>2, <2>3, <2>4, <2>6 DEF CacheInv
<1>11. CASE Park(s) /\ cache # Missing /\ backup = Missing
  <2>1. /\ Running(s)
        /\ Goes(s, "install", sync[s].staging)
        /\ At(s, "park")
        /\ cache # Missing
        /\ backup = Missing
        /\ cache' = Missing
        /\ backup' = cache
        /\ failures' \in Nat
    BY <1>2, <1>11 DEF Park, Proceeds, Running, At
  <2>2. /\ CacheTypeOK' /\ RunnersCounted'
        /\ sync'[s].step = "install" /\ sync'[s].staging = sync[s].staging
        /\ \A t \in Syncers \ {s} : sync'[t] = sync[t]
    BY <1>1, <1>2, <2>1, StepLeaves DEF SyncSteps, At
  <2>3. StagingIsWhole' /\ FirstInstallation'
    BY <1>1, <1>2, <1>3, <1>4, <2>1, <2>2 DEF StagingIsWhole, FirstInstallation, AtOneOf, At
  <2>4. Undisturbed'
    BY <1>1, <1>2, <1>3, <1>4, <2>1, <2>2 DEF Undisturbed, CacheIsWhole, TornBackup,
       FirstInstallation, AtOneOf, At
  <2>5. together <= 1 /\ interrupted <= 1 => Found(s)' /\ InterruptedOnce'
    BY <1>1, <1>2, <1>3, <1>4, <2>1, <2>2, AloneFacts DEF Found, InterruptedOnce,
       CacheIsWhole, TornBackup, FirstInstallation, StagingIsWhole, AtOneOf, At
  <2>6. StepByStep' /\ InterruptedOnce'
    BY <1>1, <1>2, <2>1, <2>2, <2>5, StepByStepKept DEF InterruptedOnce
  <2> QED
    BY <2>2, <2>3, <2>4, <2>6 DEF CacheInv
<1>12. CASE Park(s) /\ ~(cache # Missing /\ backup = Missing)
  <2>1. /\ Running(s)
        /\ Goes(s, "fail", sync[s].staging)
        /\ At(s, "park")
        /\ cache' = cache
        /\ backup' = backup
        /\ ~(cache # Missing /\ backup = Missing)
        /\ failures' \in Nat
    BY <1>2, <1>12 DEF Park, Proceeds, Running, At
  <2>2. /\ CacheTypeOK' /\ RunnersCounted'
        /\ sync'[s].step = "fail" /\ sync'[s].staging = sync[s].staging
        /\ \A t \in Syncers \ {s} : sync'[t] = sync[t]
    BY <1>1, <1>2, <2>1, StepLeaves DEF SyncSteps, At
  <2>3. StagingIsWhole' /\ FirstInstallation'
    BY <1>1, <1>2, <1>3, <1>4, <2>1, <2>2 DEF StagingIsWhole, FirstInstallation, AtOneOf, At
  <2>4. Undisturbed'
    BY <1>1, <1>2, <1>3, <1>4, <2>1, <2>2 DEF Undisturbed, CacheIsWhole, TornBackup,
       FirstInstallation, AtOneOf, At
  <2>5. together <= 1 /\ interrupted <= 1 => Found(s)' /\ InterruptedOnce'
    BY <1>1, <1>2, <1>3, <1>4, <2>1, <2>2, AloneFacts DEF Found, InterruptedOnce,
       CacheIsWhole, TornBackup, FirstInstallation, StagingIsWhole, AtOneOf, At
  <2>6. StepByStep' /\ InterruptedOnce'
    BY <1>1, <1>2, <2>1, <2>2, <2>5, StepByStepKept DEF InterruptedOnce
  <2> QED
    BY <2>2, <2>3, <2>4, <2>6 DEF CacheInv
<1>13. CASE Install(s) /\ cache = Missing
  <2>1. /\ Running(s)
        /\ Goes(s, "tidy", Missing)
        /\ At(s, "install")
        /\ cache = Missing
        /\ cache' = sync[s].staging
        /\ backup' = backup
        /\ failures' \in Nat
        /\ sync[s].staging.whole
    BY <1>2, <1>3, <1>13 DEF Install, Running, At, StagingIsWhole, AtOneOf
  <2>2. /\ CacheTypeOK' /\ RunnersCounted'
        /\ sync'[s].step = "tidy" /\ sync'[s].staging = Missing
        /\ \A t \in Syncers \ {s} : sync'[t] = sync[t]
    BY <1>1, <1>2, <2>1, StepLeaves DEF SyncSteps, At
  <2>3. StagingIsWhole' /\ FirstInstallation'
    BY <1>1, <1>2, <1>3, <1>4, <2>1, <2>2 DEF StagingIsWhole, FirstInstallation, AtOneOf, At
  <2>4. Undisturbed'
    BY <1>1, <1>2, <1>3, <1>4, <2>1, <2>2 DEF Undisturbed, CacheIsWhole, TornBackup,
       FirstInstallation, AtOneOf, At
  <2>5. together <= 1 /\ interrupted <= 1 => Found(s)' /\ InterruptedOnce'
    BY <1>1, <1>2, <1>3, <1>4, <2>1, <2>2, AloneFacts DEF Found, InterruptedOnce,
       CacheIsWhole, TornBackup, FirstInstallation, StagingIsWhole, AtOneOf, At
  <2>6. StepByStep' /\ InterruptedOnce'
    BY <1>1, <1>2, <2>1, <2>2, <2>5, StepByStepKept DEF InterruptedOnce
  <2> QED
    BY <2>2, <2>3, <2>4, <2>6 DEF CacheInv
<1>14. CASE Install(s) /\ cache # Missing
  <2>1. /\ Running(s)
        /\ Goes(s, "fail", sync[s].staging)
        /\ At(s, "install")
        /\ cache # Missing
        /\ cache' = cache
        /\ backup' = backup
        /\ failures' \in Nat
    BY <1>2, <1>14 DEF Install, Proceeds, Running, At
  <2>2. /\ CacheTypeOK' /\ RunnersCounted'
        /\ sync'[s].step = "fail" /\ sync'[s].staging = sync[s].staging
        /\ \A t \in Syncers \ {s} : sync'[t] = sync[t]
    BY <1>1, <1>2, <2>1, StepLeaves DEF SyncSteps, At
  <2>3. StagingIsWhole' /\ FirstInstallation'
    BY <1>1, <1>2, <1>3, <1>4, <2>1, <2>2 DEF StagingIsWhole, FirstInstallation, AtOneOf, At
  <2>4. Undisturbed'
    BY <1>1, <1>2, <1>3, <1>4, <2>1, <2>2 DEF Undisturbed, CacheIsWhole, TornBackup,
       FirstInstallation, AtOneOf, At
  <2>5. together <= 1 /\ interrupted <= 1 => Found(s)' /\ InterruptedOnce'
    BY <1>1, <1>2, <1>3, <1>4, <2>1, <2>2, AloneFacts DEF Found, InterruptedOnce,
       CacheIsWhole, TornBackup, FirstInstallation, StagingIsWhole, AtOneOf, At
  <2>6. StepByStep' /\ InterruptedOnce'
    BY <1>1, <1>2, <2>1, <2>2, <2>5, StepByStepKept DEF InterruptedOnce
  <2> QED
    BY <2>2, <2>3, <2>4, <2>6 DEF CacheInv
<1>15. CASE Tidy(s)
  <2>1. /\ Running(s)
        /\ Goes(s, (IF backup = Missing THEN "over" ELSE "tidying"), sync[s].staging)
        /\ At(s, "tidy")
        /\ cache' = cache
        /\ backup' = Torn(backup)
        /\ failures' \in Nat
    BY <1>2, <1>15 DEF Tidy, Proceeds, Running, At
  <2>2. /\ CacheTypeOK' /\ RunnersCounted'
        /\ sync'[s].step = (IF backup = Missing THEN "over" ELSE "tidying") /\ sync'[s].staging = sync[s].staging
        /\ \A t \in Syncers \ {s} : sync'[t] = sync[t]
    BY <1>1, <1>2, <2>1, StepLeaves DEF SyncSteps, At
  <2>3. StagingIsWhole' /\ FirstInstallation'
    BY <1>1, <1>2, <1>3, <1>4, <2>1, <2>2 DEF StagingIsWhole, FirstInstallation, AtOneOf, At
  <2>4. Undisturbed'
    BY <1>1, <1>2, <1>3, <1>4, <2>1, <2>2 DEF Undisturbed, CacheIsWhole, TornBackup,
       FirstInstallation, AtOneOf, At
  <2>5. together <= 1 /\ interrupted <= 1 => Found(s)' /\ InterruptedOnce'
    BY <1>1, <1>2, <1>3, <1>4, <2>1, <2>2, AloneFacts DEF Found, InterruptedOnce,
       CacheIsWhole, TornBackup, FirstInstallation, StagingIsWhole, AtOneOf, At
  <2>6. StepByStep' /\ InterruptedOnce'
    BY <1>1, <1>2, <2>1, <2>2, <2>5, StepByStepKept DEF InterruptedOnce
  <2> QED
    BY <2>2, <2>3, <2>4, <2>6 DEF CacheInv
<1>16. CASE Tidied(s)
  <2>1. /\ Running(s)
        /\ Goes(s, "over", sync[s].staging)
        /\ At(s, "tidying")
        /\ cache' = cache
        /\ backup' = IF backup.whole THEN backup ELSE Missing
        /\ failures' \in Nat
    BY <1>2, <1>16 DEF Tidied, Proceeds, Running, At
  <2>2. /\ CacheTypeOK' /\ RunnersCounted'
        /\ sync'[s].step = "over" /\ sync'[s].staging = sync[s].staging
        /\ \A t \in Syncers \ {s} : sync'[t] = sync[t]
    BY <1>1, <1>2, <2>1, StepLeaves DEF SyncSteps, At
  <2>3. StagingIsWhole' /\ FirstInstallation'
    BY <1>1, <1>2, <1>3, <1>4, <2>1, <2>2 DEF StagingIsWhole, FirstInstallation, AtOneOf, At
  <2>4. Undisturbed'
    BY <1>1, <1>2, <1>3, <1>4, <2>1, <2>2 DEF Undisturbed, CacheIsWhole, TornBackup,
       FirstInstallation, AtOneOf, At
  <2>5. together <= 1 /\ interrupted <= 1 => Found(s)' /\ InterruptedOnce'
    BY <1>1, <1>2, <1>3, <1>4, <2>1, <2>2, AloneFacts DEF Found, InterruptedOnce,
       CacheIsWhole, TornBackup, FirstInstallation, StagingIsWhole, AtOneOf, At
  <2>6. StepByStep' /\ InterruptedOnce'
    BY <1>1, <1>2, <2>1, <2>2, <2>5, StepByStepKept DEF InterruptedOnce
  <2> QED
    BY <2>2, <2>3, <2>4, <2>6 DEF CacheInv
<1>17. CASE Fail(s)
  <2>1. /\ Running(s)
        /\ Goes(s, (IF backup # Missing /\ cache = Missing THEN "restore" ELSE "over"), Missing)
        /\ At(s, "fail")
        /\ cache' = cache
        /\ backup' = backup
        /\ failures' \in Nat
    BY <1>2, <1>17 DEF Fail, Running, At
  <2>2. /\ CacheTypeOK' /\ RunnersCounted'
        /\ sync'[s].step = (IF backup # Missing /\ cache = Missing THEN "restore" ELSE "over") /\ sync'[s].staging = Missing
        /\ \A t \in Syncers \ {s} : sync'[t] = sync[t]
    BY <1>1, <1>2, <2>1, StepLeaves DEF SyncSteps, At
  <2>3. StagingIsWhole' /\ FirstInstallation'
    BY <1>1, <1>2, <1>3, <1>4, <2>1, <2>2 DEF StagingIsWhole, FirstInstallation, AtOneOf, At
  <2>4. Undisturbed'
    BY <1>1, <1>2, <1>3, <1>4, <2>1, <2>2 DEF Undisturbed, CacheIsWhole, TornBackup,
       FirstInstallation, AtOneOf, At
  <2>5. together <= 1 /\ interrupted <= 1 => Found(s)' /\ InterruptedOnce'
    BY <1>1, <1>2, <1>3, <1>4, <2>1, <2>2, AloneFacts DEF Found, InterruptedOnce,
       CacheIsWhole, TornBackup, FirstInstallation, StagingIsWhole, AtOneOf, At
  <2>6. StepByStep' /\ InterruptedOnce'
    BY <1>1, <1>2, <2>1, <2>2, <2>5, StepByStepKept DEF InterruptedOnce
  <2> QED
    BY <2>2, <2>3, <2>4, <2>6 DEF CacheInv
<1>18. CASE Restore(s) /\ backup # Missing /\ cache = Missing
  <2>1. /\ Running(s)
        /\ Goes(s, "over", sync[s].staging)
        /\ At(s, "restore")
        /\ backup # Missing
        /\ cache = Missing
        /\ cache' = backup
        /\ backup' = Missing
        /\ failures' \in Nat
    BY <1>2, <1>18 DEF Restore, Proceeds, Running, At
  <2>2. /\ CacheTypeOK' /\ RunnersCounted'
        /\ sync'[s].step = "over" /\ sync'[s].staging = sync[s].staging
        /\ \A t \in Syncers \ {s} : sync'[t] = sync[t]
    BY <1>1, <1>2, <2>1, StepLeaves DEF SyncSteps, At
  <2>3. StagingIsWhole' /\ FirstInstallation'
    BY <1>1, <1>2, <1>3, <1>4, <2>1, <2>2 DEF StagingIsWhole, FirstInstallation, AtOneOf, At
  <2>4. Undisturbed'
    <3>1. ASSUME interrupted = 0, together <= 2 PROVE backup.whole
      <4>1. installed
        BY <1>3, <2>1 DEF FirstInstallation
      <4>2. PICK t \in Syncers : At(t, "install")
        BY <1>3, <2>1, <3>1, <4>1 DEF Undisturbed
      <4>3. \A u \in Syncers : ~AtOneOf(u, {"clearing", "tidying"})
        BY <2>1, <3>1, <4>2, TwoRun DEF Running, At, AtOneOf
      <4> QED
        BY <1>2, <1>3, <2>1, <3>1, <4>3 DEF Undisturbed, TornBackup
    <3> QED
      BY <1>1, <1>2, <2>1, <3>1 DEF Undisturbed, CacheIsWhole, TornBackup
  <2>5. together <= 1 /\ interrupted <= 1 => Found(s)' /\ InterruptedOnce'
    BY <1>1, <1>2, <1>3, <1>4, <2>1, <2>2, AloneFacts DEF Found, InterruptedOnce,
       CacheIsWhole, TornBackup, FirstInstallation, StagingIsWhole, AtOneOf, At
  <2>6. StepByStep' /\ InterruptedOnce'
    BY <1>1, <1>2, <2>1, <2>2, <2>5, StepByStepKept DEF InterruptedOnce
  <2> QED
    BY <2>2, <2>3, <2>4, <2>6 DEF CacheInv
<1>19. CASE Restore(s) /\ ~(backup # Missing /\ cache = Missing)
  <2>1. /\ Running(s)
        /\ Goes(s, "over", sync[s].staging)
        /\ At(s, "restore")
        /\ cache' = cache
        /\ backup' = backup
        /\ failures' \in Nat
    BY <1>2, <1>19 DEF Restore, Proceeds, Running, At
  <2>2. /\ CacheTypeOK' /\ RunnersCounted'
        /\ sync'[s].step = "over" /\ sync'[s].staging = sync[s].staging
        /\ \A t \in Syncers \ {s} : sync'[t] = sync[t]
    BY <1>1, <1>2, <2>1, StepLeaves DEF SyncSteps, At
  <2>3. StagingIsWhole' /\ FirstInstallation'
    BY <1>1, <1>2, <1>3, <1>4, <2>1, <2>2 DEF StagingIsWhole, FirstInstallation, AtOneOf, At
  <2>4. Undisturbed'
    BY <1>1, <1>2, <1>3, <1>4, <2>1, <2>2 DEF Undisturbed, CacheIsWhole, TornBackup,
       FirstInstallation, AtOneOf, At
  <2>5. together <= 1 /\ interrupted <= 1 => Found(s)' /\ InterruptedOnce'
    BY <1>1, <1>2, <1>3, <1>4, <2>1, <2>2, AloneFacts DEF Found, InterruptedOnce,
       CacheIsWhole, TornBackup, FirstInstallation, StagingIsWhole, AtOneOf, At
  <2>6. StepByStep' /\ InterruptedOnce'
    BY <1>1, <1>2, <2>1, <2>2, <2>5, StepByStepKept DEF InterruptedOnce
  <2> QED
    BY <2>2, <2>3, <2>4, <2>6 DEF CacheInv
<1>20. CASE /\ ReadIndex(s)
            /\ sync' = [sync EXCEPT ![s].step = "check", ![s].index = release.index]
  BY <1>1, <1>20, IndexKeeps
<1>21. CASE ReadIndex(s) /\ Proceeds(s, "over")
  <2>1. /\ Running(s)
        /\ Goes(s, "over", sync[s].staging)
        /\ At(s, "index")
        /\ cache' = cache
        /\ backup' = backup
        /\ failures' \in Nat
    BY <1>2, <1>21 DEF ReadIndex, Proceeds, Running, At
  <2>2. /\ CacheTypeOK' /\ RunnersCounted'
        /\ sync'[s].step = "over" /\ sync'[s].staging = sync[s].staging
        /\ \A t \in Syncers \ {s} : sync'[t] = sync[t]
    BY <1>1, <1>2, <2>1, StepLeaves DEF SyncSteps, At
  <2>3. StagingIsWhole' /\ FirstInstallation'
    BY <1>1, <1>2, <1>3, <1>4, <2>1, <2>2 DEF StagingIsWhole, FirstInstallation, AtOneOf, At
  <2>4. Undisturbed'
    BY <1>1, <1>2, <1>3, <1>4, <2>1, <2>2 DEF Undisturbed, CacheIsWhole, TornBackup,
       FirstInstallation, AtOneOf, At
  <2>5. together <= 1 /\ interrupted <= 1 => Found(s)' /\ InterruptedOnce'
    BY <1>1, <1>2, <1>3, <1>4, <2>1, <2>2, AloneFacts DEF Found, InterruptedOnce,
       CacheIsWhole, TornBackup, FirstInstallation, StagingIsWhole, AtOneOf, At
  <2>6. StepByStep' /\ InterruptedOnce'
    BY <1>1, <1>2, <2>1, <2>2, <2>5, StepByStepKept DEF InterruptedOnce
  <2> QED
    BY <2>2, <2>3, <2>4, <2>6 DEF CacheInv
<1>22. ReadIndex(s) =>
          \/ sync' = [sync EXCEPT ![s].step = "check", ![s].index = release.index]
          \/ Proceeds(s, "over")
  BY DEF ReadIndex
<1> QED
  BY <1>5, <1>6, <1>7, <1>8, <1>9, <1>10, <1>11, <1>12, <1>13, <1>14, <1>15, <1>16,
     <1>17, <1>18, <1>19, <1>20, <1>21, <1>22 DEF SyncStep

-----------------------------------------------------------------------------
(* The other steps, and the properties.                                    *)

(* The cache starts missing.                                               *)
LEMMA CacheStarts == LakeInit => CacheInv
<1> SUFFICES ASSUME LakeInit PROVE CacheInv
  OBVIOUS
<1> USE DirectoryFacts
<1>1. \A s \in Syncers : sync[s] = Idle /\ sync[s].step = "over"
  BY DEF LakeInit
<1>2. Runners = {}
  BY <1>1 DEF Runners, Running, At
<1>3. RunnersCounted
  BY <1>2, FS_EmptySet DEF LakeInit, RunnersCounted
<1>4. CacheTypeOK
  BY <1>1 DEF LakeInit, CacheTypeOK, Running, At
<1>5. StagingIsWhole /\ StepByStep
  BY <1>1 DEF StagingIsWhole, StepByStep, Found, AtOneOf, At
<1>6. FirstInstallation /\ Undisturbed /\ InterruptedOnce
  BY DEF LakeInit, FirstInstallation, Undisturbed, InterruptedOnce, CacheIsWhole, TornBackup
<1> QED
  BY <1>3, <1>4, <1>5, <1>6 DEF CacheInv

(* A sync that starts is counted.                                          *)
LEMMA StartKeeps ==
    ASSUME CacheInv, NEW s \in Syncers, Start(s)
    PROVE  CacheInv'
<1> USE DirectoryFacts
<1>1. /\ At(s, "over")
      /\ UNCHANGED <<cache, backup, interrupted, failures, installed>>
      /\ sync' = [sync EXCEPT ![s] = [Idle EXCEPT !.step = "index"]]
      /\ together' = IF Cardinality(Runners) >= together THEN Cardinality(Runners) + 1
                     ELSE together
  BY DEF Start
<1>2. CacheTypeOK /\ RunnersCounted /\ together \in Nat /\ Cardinality(Runners) \in Nat
  BY RunnersAreFinite DEF CacheInv, CacheTypeOK
<1>4. /\ sync'[s].step = "index"
      /\ \A t \in Syncers \ {s} : sync'[t] = sync[t]
      /\ sync' \in [Syncers -> SyncRecords]
  <2>1. /\ [Idle EXCEPT !.step = "index"] \in SyncRecords
        /\ [Idle EXCEPT !.step = "index"].step = "index"
    BY DEF Idle, SyncRecords, SyncSteps
  <2> QED
    BY <1>1, <1>2, <2>1 DEF CacheTypeOK
<1>5. Runners' = Runners \cup {s} /\ s \notin Runners
  BY <1>1, <1>4 DEF Runners, Running, At
<1>6. Cardinality(Runners') = Cardinality(Runners) + 1
  BY <1>5, RunnersAreFinite, FS_AddElement
<1>7. together' \in Nat /\ together' >= together /\ Cardinality(Runners') <= together'
  BY <1>1, <1>2, <1>6
<1>8. CacheTypeOK' /\ RunnersCounted'
  BY <1>1, <1>2, <1>4, <1>7 DEF CacheTypeOK, RunnersCounted, Running, At
<1>9. StagingIsWhole' /\ FirstInstallation'
  BY <1>1, <1>4 DEF CacheInv, StagingIsWhole, FirstInstallation, AtOneOf
<1>10. Undisturbed'
  <2>1. together' <= 2 => together <= 2
    BY <1>2, <1>7
  <2> QED
    BY <1>1, <1>4, <2>1 DEF CacheInv, Undisturbed, CacheIsWhole, TornBackup, AtOneOf, At
<1>11. together' <= 1 => together <= 1 /\ Runners = {}
  <2>1. together' <= 1 => together <= 1 /\ Cardinality(Runners) = 0
    BY <1>2, <1>6, <1>7
  <2> QED
    BY <2>1, RunnersAreFinite, FS_EmptySet
<1>12. StepByStep'
  BY <1>1, <1>4, <1>11 DEF StepByStep, Found, Runners, Running, At
<1>13. InterruptedOnce'
  BY <1>1, <1>4, <1>11 DEF CacheInv, InterruptedOnce, CacheIsWhole, Runners, Running,
     At, AtOneOf
<1> QED
  BY <1>8, <1>9, <1>10, <1>12, <1>13 DEF CacheInv

(* What an interrupted sync had moved away stays where the next one looks. *)
LEMMA InterruptKeeps ==
    ASSUME CacheInv, NEW s \in Syncers, Interrupt(s)
    PROVE  CacheInv'
<1> USE DirectoryFacts
<1>1. /\ Running(s)
      /\ interrupted' = interrupted + 1
      /\ sync' = [sync EXCEPT ![s] = Idle]
      /\ UNCHANGED <<cache, backup, failures, together, installed>>
  BY DEF Interrupt
<1>2. CacheTypeOK /\ interrupted \in Nat /\ together \in Nat
  BY DEF CacheInv, CacheTypeOK
<1>3. /\ sync'[s].step = "over"
      /\ \A t \in Syncers \ {s} : sync'[t] = sync[t]
      /\ sync' \in [Syncers -> SyncRecords]
  BY <1>1, <1>2 DEF CacheTypeOK
<1>4. CacheTypeOK'
  BY <1>1, <1>2, <1>3 DEF CacheTypeOK, Running, At
<1>5. Runners' \subseteq Runners
  BY <1>3 DEF Runners, Running, At
<1>6. Cardinality(Runners') <= Cardinality(Runners) /\ Cardinality(Runners') \in Nat
  BY <1>5, RunnersAreFinite, FS_Subset, FS_CardinalityType
<1>7. RunnersCounted'
  BY <1>1, <1>2, <1>6, RunnersAreFinite DEF CacheInv, RunnersCounted
<1>8. StagingIsWhole' /\ FirstInstallation'
  BY <1>1, <1>3 DEF CacheInv, StagingIsWhole, FirstInstallation, AtOneOf
<1>9. Undisturbed'
  BY <1>1, <1>2 DEF Undisturbed
<1>10. ASSUME together <= 1 PROVE \A t \in Syncers : sync'[t].step = "over"
  BY <1>1, <1>3, <1>10, OneRuns DEF Running, At
<1>11. StepByStep'
  BY <1>1, <1>10 DEF StepByStep, Found, At
<1>12. InterruptedOnce'
  <2> SUFFICES ASSUME together <= 1, interrupted = 0 PROVE InterruptedOnce'
    BY <1>1, <1>2 DEF InterruptedOnce
  <2>1. /\ CacheIsWhole
        /\ installed /\ cache = Missing => At(s, "install")
        /\ Found(s)
    BY <1>1, AloneFacts
  <2> QED
    BY <1>1, <2>1 DEF InterruptedOnce, CacheIsWhole, Found
<1> QED
  BY <1>4, <1>7, <1>8, <1>9, <1>11, <1>12 DEF CacheInv

(* Both invariants together are inductive.                                 *)
LEMMA LakeStep == ReleaseInv /\ CacheInv /\ [LakeNext]_lakeVars => ReleaseInv' /\ CacheInv'
<1> SUFFICES ASSUME ReleaseInv, CacheInv, [LakeNext]_lakeVars PROVE CacheInv'
  BY ReleaseStep
<1>1. CASE UNCHANGED <<cache, backup, sync, interrupted, failures, together, installed>>
  BY <1>1 DEF CacheInv, CacheTypeOK, StagingIsWhole, RunnersCounted, FirstInstallation,
              Undisturbed, StepByStep, InterruptedOnce, CacheIsWhole, TornBackup, Found,
              AtOneOf, At, Running, Runners
<1>2. ASSUME NEW r \in Runs, PublishRelease(r) PROVE CacheInv'
  BY <1>1, <1>2 DEF PublishRelease
<1>3. CASE PublishStep
  BY <1>1, <1>3 DEF PublishStep
<1>4. ASSUME NEW s \in Syncers, Start(s) \/ SyncStep(s) \/ Interrupt(s) PROVE CacheInv'
  BY <1>4, StartKeeps, SyncKeeps, InterruptKeeps
<1> QED
  BY <1>1, <1>2, <1>3, <1>4 DEF LakeNext, lakeVars

(* Both hold always.                                                       *)
LEMMA LakeInvariant == LakeSpec => [](ReleaseInv /\ CacheInv)
BY ReleaseStarts, CacheStarts, LakeStep, PTL DEF LakeSpec

(* One sync at a time that is interrupted once, anywhere, or two that end  *)
(* by themselves never let the terminal read a half-removed lake. *)
THEOREM TerminalReadsAWholeLake == LakeSpec => []CacheStaysWhole
<1>1. CacheInv => CacheStaysWhole
  <2> SUFFICES ASSUME CacheInv, Calm PROVE CacheIsWhole
    BY DEF CacheStaysWhole
  <2>1. interrupted \in Nat /\ together \in Nat
    BY DEF CacheInv, CacheTypeOK
  <2> QED
    BY <2>1 DEF Calm, CacheInv, Undisturbed, InterruptedOnce
<1> QED
  BY <1>1, LakeInvariant, PTL

(* Then a lake that was once downloaded is in the cache, in the backup or  *)
(* with a sync that is about to install it. *)
THEOREM ADownloadedLakeSurvives == LakeSpec => []LakeSurvives
<1>1. CacheInv => LakeSurvives
  <2> SUFFICES ASSUME CacheInv, Calm, installed
               PROVE  cache.whole \/ backup.whole \/ \E s \in Syncers : sync[s].staging.whole
    BY DEF LakeSurvives
  <2>1. interrupted \in Nat /\ together \in Nat
    BY DEF CacheInv, CacheTypeOK
  <2>2. \/ cache.whole
        \/ backup.whole
        \/ \E s \in Syncers : AtOneOf(s, {"clearing", "park?", "install"})
    BY <2>1 DEF Calm, CacheInv, Undisturbed, InterruptedOnce, CacheIsWhole, AtOneOf, At
  <2> QED
    BY <2>2 DEF CacheInv, StagingIsWhole, AtOneOf
<1> QED
  BY <1>1, LakeInvariant, PTL

(* A sync that runs alone, has read a valid index and ends by itself       *)
(* leaves a cache, also after one that was interrupted. *)
THEOREM LoneSyncLeavesACache == LakeSpec => SyncLeavesACache
<1>1. ASSUME CacheInv, [LakeNext]_lakeVars, NEW s \in Syncers,
             together <= 1, interrupted <= 1, installed,
             Running(s), ~At(s, "index"), sync'[s].step = "over",
             interrupted' = interrupted
      PROVE  cache' # Missing
  <2> USE DirectoryFacts
  <2>1. sync \in [Syncers -> SyncRecords] /\ interrupted \in Nat
    BY <1>1 DEF CacheInv, CacheTypeOK
  <2>2. cache \in Directories /\ backup \in Directories /\ sync[s].index \in Publications
        /\ sync[s].staging \in Directories
    BY <1>1, <2>1 DEF CacheInv, CacheTypeOK, SyncRecords
  <2>3. sync' # sync
    BY <1>1 DEF Running, At
  <2>4. PICK t \in Syncers : Start(t) \/ SyncStep(t)
    <3>1. ~(\E r \in Runs : PublishRelease(r)) /\ ~PublishStep
      BY <2>3 DEF PublishRelease, PublishStep
    <3>2. \A t \in Syncers : ~Interrupt(t)
      <4>1. interrupted' # interrupted + 1
        BY <1>1, <2>1
      <4> QED
        BY <4>1 DEF Interrupt
    <3> QED
      BY <1>1, <2>3, <3>1, <3>2 DEF LakeNext, lakeVars
  <2>5. t = s /\ SyncStep(s)
    <3>1. CASE Start(t)
      BY <1>1, <2>1, <3>1 DEF Start, Running, At
    <3>2. CASE SyncStep(t) /\ t # s
      BY <1>1, <3>2, OneRuns, <2>1, <2>4 DEF SyncStep, ReadIndex, Check, Download, Clear, Cleared,
         LookForCache,
         Park, Install, Tidy, Tidied, Fail, Restore, Running, At
    <3> QED
      BY <2>4, <3>1, <3>2
  <2>6. /\ interrupted = 0 /\ installed /\ cache = Missing => At(s, "install")
        /\ interrupted = 1 /\ installed /\ cache = Missing =>
              backup.whole \/ AtOneOf(s, {"clearing", "park?", "install"})
        /\ Found(s)
    BY <1>1, AloneFacts
  <2>7. \/ Check(s) /\ cache = Whole(sync[s].index) /\ cache' = cache
        \/ At(s, "tidy") /\ cache' = cache
        \/ At(s, "tidying") /\ cache' = cache
        \/ At(s, "fail") /\ ~(backup # Missing /\ cache = Missing) /\ cache' = cache
        \/ At(s, "restore") /\ (IF backup # Missing /\ cache = Missing THEN cache' = backup ELSE cache' = cache)
    BY <1>1, <2>1, <2>2, <2>5, GoesFacts DEF SyncStep, ReadIndex, Check, Download, Clear, Cleared,
       LookForCache,
         Park, Install, Tidy, Tidied, Fail, Restore, Proceeds, SyncSteps
  <2> QED
    BY <1>1, <2>1, <2>2, <2>6, <2>7 DEF Found, At, AtOneOf
<1>2. CacheInv /\ [LakeNext]_lakeVars =>
         [\A s \in Syncers :
             /\ together <= 1 /\ interrupted <= 1
             /\ installed
             /\ Running(s) /\ ~At(s, "index") /\ sync'[s].step = "over"
             /\ interrupted' = interrupted
             => cache' # Missing]_lakeVars
  BY <1>1
<1> QED
  BY <1>2, LakeInvariant, PTL DEF LakeSpec, SyncLeavesACache

-----------------------------------------------------------------------------
(* The market snapshot lake.                                               *)

IngestSteps == {"new", "store", "open", "write", "rename", "list", "over"}

SnapshotTypeOK ==
    /\ objects \subseteq {Kinds[i] : i \in 1 .. 4} \X Ingests
    /\ target \in [SharedObjects -> Files]
    /\ temporary \in [SharedObjects -> Files]
    /\ bytes \in [SharedObjects -> [Ingests -> Holds]]
    /\ inventory \in [Ingests -> [latest : Holds, portable : Holds]]
    /\ ingest \in [Ingests -> [step : IngestSteps, at : 1 .. 4, publishes : BOOLEAN, file : Files]]
    /\ killed \in 0 .. MaxKilled
    /\ overlap \in 0 .. Cardinality(Ingests)
    /\ uneven \in BOOLEAN

Sharing(r) == ingest[r].step \in {"open", "write", "rename", "list"}
HasAll(r) == \A i \in 1 .. 4 : <<Kinds[i], r>> \in objects

(* An ingest shares what it has stored all of, *)
IngestStored(r) ==
    /\ IngestIsAt(r, "new") => ingest[r].at = 1
    /\ IngestIsAt(r, "store") => \A i \in 1 .. 4 : i < ingest[r].at => <<Kinds[i], r>> \in objects
    /\ Sharing(r) => ingest[r].at \in 1 .. 3 /\ HasAll(r)
    /\ IngestIsAt(r, "write") => ingest[r].file \in Ingests
    /\ IngestIsAt(r, "list") => ingest[r].at = 3

FilesStored ==
    \A o \in SharedObjects, f \in Ingests : bytes[o][f] \in Ingests => HasAll(bytes[o][f])

(* and creates a file of its own name only once. *)
Untouched(r, i) ==
    \/ ingest[r].step \in {"new", "store"}
    \/ ingest[r].step \in {"open", "list"} /\ ingest[r].at <= i
    \/ ingest[r].step \in {"write", "rename"} /\ ingest[r].at < i

FilesApart ==
    \A i \in 1 .. 3 :
       /\ temporary[Shared[i]] = NoFile \/ temporary[Shared[i]] # target[Shared[i]]
       /\ \A r \in Ingests : Untouched(r, i) => target[Shared[i]] # r /\ temporary[Shared[i]] # r

(* A file that is not whole is being written, unless somebody was killed   *)
(* or has left parts of two. *)
IsWritten(o, f) == \E r \in Ingests : IngestIsAt(r, "write") /\ Writes(r, o) /\ ingest[r].file = f

SoonWhole ==
    (killed = 0 /\ ~uneven) =>
       \A o \in SharedObjects :
          /\ HoldsWhole(o, target[o]) \/ IsWritten(o, target[o])
          /\ HoldsWhole(o, temporary[o]) \/ IsWritten(o, temporary[o])

IngestsCounted == Cardinality(Ingesting) <= overlap

(* An ingest that goes on alone writes and renames its own file.           *)
HasItsFile(r) ==
    /\ IngestIsAt(r, "write") =>
          /\ ingest[r].file = temporary[Shared[ingest[r].at]]
          /\ bytes[Shared[ingest[r].at]][ingest[r].file] = "empty"
    /\ IngestIsAt(r, "rename") =>
          /\ temporary[Shared[ingest[r].at]] # NoFile
          /\ bytes[Shared[ingest[r].at]][temporary[Shared[ingest[r].at]]] = r

Unopposed ==
    overlap <= 1 =>
       /\ \A o \in SharedObjects : HoldsWhole(o, target[o])
       /\ \A r \in Ingests : HasItsFile(r)

(* The index agrees with the manifests until they are replaced, and again  *)
(* with those of the ingest that is about to replace it. *)
Listed == [latest |-> Serves("latest"), portable |-> Serves("portable")]

IndexAgrees == target["index"] # NoFile => inventory[Serves("index")] = Listed

Replaces(r) == Sharing(r) /\ ingest[r].at \in {2, 3}

Agreement ==
    (overlap <= 1 /\ killed = 0) =>
       /\ (\A r \in Ingests : ~Replaces(r)) => IndexAgrees
       /\ \A r \in Ingests :
             Sharing(r) /\ ingest[r].at = 3 /\ ~IngestIsAt(r, "list") => inventory[r] = Listed

SnapshotInv ==
    /\ SnapshotTypeOK
    /\ \A r \in Ingests : IngestStored(r)
    /\ FilesStored /\ FilesApart
    /\ SoonWhole
    /\ IngestsCounted /\ Unopposed /\ Agreement

-----------------------------------------------------------------------------
(* The places of the objects.                                              *)
LEMMA Places ==
    /\ Shared[1] = "latest" /\ Shared[2] = "portable" /\ Shared[3] = "index"
    /\ \A i \in 1 .. 3 : Shared[i] \in SharedObjects
    /\ \A i, j \in 1 .. 3 : Shared[i] = Shared[j] => i = j
    /\ SharedObjects = {"latest", "portable", "index"}
    /\ \A o \in SharedObjects : \E i \in 1 .. 3 : Shared[i] = o
<1>1. DOMAIN Shared = 1 .. 3 /\ Shared[1] = "latest" /\ Shared[2] = "portable" /\ Shared[3] = "index"
  BY DEF Shared
<1>2. 1 .. 3 = {1, 2, 3}
  OBVIOUS
<1> QED
  BY <1>1, <1>2 DEF SharedObjects

LEMMA KindPlaces ==
    /\ Kinds[1] = "bronze" /\ Kinds[2] = "silver" /\ Kinds[3] = "manifest" /\ Kinds[4] = "generation"
    /\ DOMAIN Kinds = 1 .. 4
BY DEF Kinds

LEMMA FileFacts == Ingests \subseteq Files /\ NoFile \in Files /\ NoFile \notin Ingests
BY IngestAssumption DEF Files

Doings == [step : IngestSteps, at : 1 .. 4, publishes : BOOLEAN, file : Files]

(* What an ingest leaves alone that goes on.                               *)
LEMMA GoesOn ==
    ASSUME SnapshotTypeOK, NEW r \in Ingests, NEW step \in IngestSteps, NEW at \in 1 .. 4,
           IngestGoes(r, step, at)
    PROVE  /\ ingest'[r].step = step /\ ingest'[r].at = at
           /\ ingest'[r].publishes = ingest[r].publishes /\ ingest'[r].file = ingest[r].file
           /\ \A q \in Ingests \ {r} : ingest'[q] = ingest[q]
           /\ ingest' \in [Ingests -> Doings]
BY DEF SnapshotTypeOK, IngestGoes, Doings

LEMMA IngestingIsFinite ==
    /\ IsFiniteSet(Ingesting) /\ Cardinality(Ingesting) \in Nat /\ Cardinality(Ingests) \in Nat
<1>1. Ingesting \subseteq Ingests
  BY DEF Ingesting
<1> QED
  BY <1>1, IngestAssumption, FS_Subset, FS_CardinalityType

(* Of two ingests at most one goes on where overlap says so. *)
LEMMA OneIngests ==
    ASSUME SnapshotTypeOK, IngestsCounted, overlap <= 1,
           NEW r \in Ingesting, NEW q \in Ingests \ {r}
    PROVE  q \notin Ingesting
<1> SUFFICES ASSUME q \in Ingesting PROVE FALSE
  OBVIOUS
<1>1. IsFiniteSet({r}) /\ Cardinality({r}) = 1
  BY FS_Singleton
<1>2. Cardinality({r} \cup {q}) = 2
  <2>1. q \notin {r}
    OBVIOUS
  <2>2. Cardinality({r} \cup {q}) = Cardinality({r}) + 1
    BY <1>1, <2>1, FS_AddElement
  <2> QED
    BY <1>1, <2>2
<1>3. Cardinality({r} \cup {q}) <= Cardinality(Ingesting)
  BY IngestingIsFinite, FS_Subset
<1>4. overlap \in Nat /\ Cardinality(Ingesting) <= overlap
  BY IngestingIsFinite DEF IngestsCounted, SnapshotTypeOK
<1>5. Cardinality(Ingesting) \in Nat
  BY IngestingIsFinite
<1> QED
  BY <1>2, <1>3, <1>4, <1>5

(* Nobody joins those who go on, unless it begins.                         *)
LEMMA CountKeeps ==
    ASSUME SnapshotTypeOK, IngestsCounted, overlap' = overlap, NEW r \in Ingesting,
           \A q \in Ingests \ {r} : ingest'[q] = ingest[q]
    PROVE  IngestsCounted'
<1>1. Ingesting' \subseteq Ingesting
  BY DEF Ingesting
<1>2. Cardinality(Ingesting') <= Cardinality(Ingesting) /\ Cardinality(Ingesting') \in Nat
  BY <1>1, IngestingIsFinite, FS_Subset, FS_CardinalityType
<1> QED
  BY <1>2, IngestingIsFinite DEF IngestsCounted, SnapshotTypeOK

LEMMA SnapshotStarts == SnapshotInit => SnapshotInv
<1> SUFFICES ASSUME SnapshotInit PROVE SnapshotInv
  OBVIOUS
<1>1. SnapshotTypeOK
  <2>1. "empty" \in Holds
    BY DEF Holds
  <2>2. [step |-> "new", at |-> 1, publishes |-> FALSE, file |-> NoFile] \in Doings
    BY FileFacts DEF Doings, IngestSteps
  <2>3. /\ bytes \in [SharedObjects -> [Ingests -> Holds]]
        /\ inventory \in [Ingests -> [latest : Holds, portable : Holds]]
    BY <2>1 DEF SnapshotInit
  <2>4. ingest \in [Ingests -> Doings]
    BY <2>2 DEF SnapshotInit
  <2>0. 0 \in 0 .. MaxKilled /\ 0 \in 0 .. Cardinality(Ingests)
    BY IngestAssumption, IngestingIsFinite
  <2>5. killed \in 0 .. MaxKilled /\ overlap \in 0 .. Cardinality(Ingests) /\ uneven \in BOOLEAN
    BY <2>0 DEF SnapshotInit
  <2>6. /\ objects \subseteq {Kinds[i] : i \in 1 .. 4} \X Ingests
        /\ target \in [SharedObjects -> Files] /\ temporary \in [SharedObjects -> Files]
    BY FileFacts DEF SnapshotInit
  <2> QED
    BY <2>3, <2>4, <2>5, <2>6 DEF SnapshotTypeOK, Doings
<1>2. \A r \in Ingests : ingest[r] = [step |-> "new", at |-> 1, publishes |-> FALSE, file |-> NoFile]
  BY DEF SnapshotInit
<1>3. \A r \in Ingests : IngestStored(r)
  BY <1>2 DEF IngestStored, IngestIsAt, Sharing
<1>4. FilesStored
  BY IngestAssumption DEF SnapshotInit, FilesStored
<1>5. FilesApart
  BY FileFacts, Places DEF SnapshotInit, FilesApart
<1>6. SoonWhole /\ \A o \in SharedObjects : HoldsWhole(o, target[o])
  BY DEF SnapshotInit, SoonWhole, HoldsWhole
<1>7. IngestsCounted
  <2>1. Ingesting = {}
    BY <1>2 DEF Ingesting
  <2> QED
    BY <2>1, FS_EmptySet DEF IngestsCounted, SnapshotInit
<1>8. Unopposed /\ Agreement
  BY <1>2, <1>6, Places
  DEF Unopposed, Agreement, HasItsFile, IngestIsAt, Sharing, IndexAgrees, SnapshotInit
<1> QED
  BY <1>1, <1>3, <1>4, <1>5, <1>6, <1>7, <1>8 DEF SnapshotInv

-----------------------------------------------------------------------------
(* Steps that leave the shared objects alone.                              *)

(* What is known of an ingest that is not sharing yet, or no more.         *)
LEMMA Elsewhere ==
    ASSUME SnapshotInv, SnapshotTypeOK', NEW r \in Ingests,
           UNCHANGED <<target, temporary, bytes, inventory, uneven>>,
           objects \subseteq objects', killed' >= killed, overlap' >= overlap,
           \A q \in Ingests \ {r} : ingest'[q] = ingest[q],
           IngestIsAt(r, "write") => killed' # 0,
           \A i \in 1 .. 3 : Untouched(r, i)' => Untouched(r, i),
           IngestStored(r)', HasItsFile(r)',
           Replaces(r) => killed' # 0,
           ~Replaces(r)'
    PROVE  /\ \A q \in Ingests : IngestStored(q)'
           /\ FilesStored' /\ FilesApart' /\ SoonWhole' /\ Unopposed' /\ Agreement'
<1>1. /\ SnapshotTypeOK /\ killed \in Nat /\ overlap \in Nat
      /\ killed' \in Nat /\ overlap' \in Nat
  BY IngestAssumption, IngestingIsFinite DEF SnapshotInv, SnapshotTypeOK
<1>2. \A q \in Ingests \ {r} : IngestStored(q)'
  BY DEF SnapshotInv, IngestStored, IngestIsAt, Sharing, HasAll
<1>3. FilesStored'
  BY DEF SnapshotInv, FilesStored, HasAll
<1>4. FilesApart'
  BY DEF SnapshotInv, FilesApart, Untouched
<1>5. SoonWhole'
  <2> SUFFICES ASSUME killed' = 0, ~uneven' PROVE SoonWhole'
    BY DEF SoonWhole
  <2>1. killed = 0 /\ ~uneven
    BY <1>1
  <2>2. \A o \in SharedObjects, f \in Files :
           /\ HoldsWhole(o, f) => HoldsWhole(o, f)'
           /\ IsWritten(o, f) => IsWritten(o, f)'
    BY DEF HoldsWhole, IsWritten, IngestIsAt, Writes
  <2>3. \A o \in SharedObjects : target[o] \in Files /\ temporary[o] \in Files
    BY <1>1 DEF SnapshotTypeOK
  <2> QED
    BY <2>1, <2>2, <2>3 DEF SnapshotInv, SoonWhole, HoldsWhole, IsWritten, IngestIsAt, Writes
<1>6. overlap' <= 1 => overlap <= 1
  BY <1>1
<1>7. Unopposed'
  BY <1>6 DEF SnapshotInv, Unopposed, HoldsWhole, HasItsFile, IngestIsAt
<1>8. Agreement'
  <2> SUFFICES ASSUME overlap' <= 1, killed' = 0
               PROVE  /\ (\A q \in Ingests : ~Replaces(q)') => IndexAgrees'
                      /\ \A q \in Ingests : Sharing(q)' /\ ingest'[q].at = 3 /\ ~IngestIsAt(q, "list")'
                            => (inventory[q] = Listed)'
    BY DEF Agreement
  <2>1. overlap <= 1 /\ killed = 0 /\ ~Replaces(r)
    BY <1>1, <1>6
  <2>2. (\A q \in Ingests : ~Replaces(q)') => \A q \in Ingests : ~Replaces(q)
    BY <2>1 DEF Replaces, Sharing
  <2>3. IndexAgrees => IndexAgrees'
    BY DEF IndexAgrees, Listed, Serves
  <2>4. ~(Sharing(r)' /\ ingest'[r].at = 3)
    BY DEF Replaces
  <2>5. \A q \in Ingests \ {r} :
           Sharing(q)' /\ ingest'[q].at = 3 /\ ~IngestIsAt(q, "list")' => (inventory[q] = Listed)'
    BY <2>1 DEF SnapshotInv, Agreement, Sharing, IngestIsAt, Listed, Serves
  <2> QED
    BY <2>1, <2>2, <2>3, <2>4, <2>5 DEF SnapshotInv, Agreement
<1> QED
  BY <1>2, <1>3, <1>4, <1>5, <1>7, <1>8

LEMMA BeginKeeps ==
    ASSUME SnapshotInv, NEW r \in Ingests, BeginIngest(r)
    PROVE  SnapshotInv'
<1>1. /\ SnapshotTypeOK /\ IngestIsAt(r, "new") /\ IngestStored(r) /\ IngestsCounted
      /\ UNCHANGED <<objects, target, temporary, bytes, inventory, killed, uneven>>
      /\ overlap' = IF Cardinality(Ingesting) >= overlap THEN Cardinality(Ingesting) + 1 ELSE overlap
  BY DEF SnapshotInv, BeginIngest
<1>2. PICK publishes \in BOOLEAN :
         ingest' = [ingest EXCEPT ![r] = [@ EXCEPT !.step = "store", !.publishes = publishes]]
  BY DEF BeginIngest
<1>3. /\ ingest'[r].step = "store" /\ ingest'[r].at = ingest[r].at
      /\ \A q \in Ingests \ {r} : ingest'[q] = ingest[q]
      /\ ingest' \in [Ingests -> Doings]
  BY <1>1, <1>2 DEF SnapshotTypeOK, Doings, IngestSteps
<1>4. Ingesting' = Ingesting \cup {r} /\ r \notin Ingesting
  BY <1>1, <1>3 DEF Ingesting, IngestIsAt
<1>5. Cardinality(Ingesting') = Cardinality(Ingesting) + 1
  BY <1>4, IngestingIsFinite, FS_AddElement
<1>6. Cardinality(Ingesting') <= Cardinality(Ingests)
  <2>1. Ingesting' \subseteq Ingests
    BY DEF Ingesting
  <2> QED
    BY <2>1, IngestAssumption, FS_Subset
<1>7. /\ overlap' \in 0 .. Cardinality(Ingests) /\ overlap' >= overlap
      /\ Cardinality(Ingesting') <= overlap'
  BY <1>1, <1>5, <1>6, IngestingIsFinite DEF SnapshotTypeOK, IngestsCounted
<1>8. SnapshotTypeOK'
  BY <1>1, <1>3, <1>7 DEF SnapshotTypeOK, Doings
<1>9. IngestStored(r)' /\ HasItsFile(r)' /\ ~Replaces(r)' /\ ~Replaces(r) /\ ~IngestIsAt(r, "write")
  BY <1>1, <1>3 DEF IngestStored, HasItsFile, Replaces, Sharing, IngestIsAt
<1>10. \A i \in 1 .. 3 : Untouched(r, i)
  BY <1>1 DEF Untouched, IngestIsAt
<1>11. killed' >= killed
  BY <1>1, IngestAssumption DEF SnapshotTypeOK
<1> QED
  BY <1>1, <1>3, <1>7, <1>8, <1>9, <1>10, <1>11, Elsewhere DEF SnapshotInv, IngestsCounted

LEMMA StoreKeeps ==
    ASSUME SnapshotInv, NEW r \in Ingests, StoreObject(r)
    PROVE  SnapshotInv'
<1>1. /\ SnapshotTypeOK /\ IngestIsAt(r, "store") /\ IngestStored(r) /\ IngestsCounted
      /\ UNCHANGED <<target, temporary, bytes, inventory, killed, overlap, uneven>>
      /\ objects' = objects \cup {<<Kinds[ingest[r].at], r>>}
      /\ ingest[r].at \in 1 .. 4
  BY DEF SnapshotInv, StoreObject, SnapshotTypeOK
<1>2. \A i \in 1 .. 4 : i <= ingest[r].at => <<Kinds[i], r>> \in objects'
  BY <1>1 DEF IngestStored
<1>3. PICK step \in {"open", "store", "over"}, at \in 1 .. 4 :
         /\ IngestGoes(r, step, at)
         /\ step = "open" => at = 1 /\ ingest[r].at = 4
         /\ step = "store" => at = ingest[r].at + 1
  <2>1. CASE ingest[r].at = 4
    BY <1>1, <2>1, KindPlaces DEF StoreObject, AfterStoring
  <2>2. CASE ingest[r].at \in 1 .. 3
    <3>1. ingest[r].at + 1 \in 1 .. 4 /\ Kinds[ingest[r].at] # "generation"
      BY <2>2, KindPlaces
    <3> QED
      BY <1>1, <3>1 DEF StoreObject, AfterStoring
  <2> QED
    BY <1>1, <2>1, <2>2
<1>4. /\ ingest'[r].step = step /\ ingest'[r].at = at
      /\ \A q \in Ingests \ {r} : ingest'[q] = ingest[q]
      /\ ingest' \in [Ingests -> Doings]
  <2>1. step \in IngestSteps
    BY DEF IngestSteps
  <2> QED
    BY <1>1, <1>3, <2>1, GoesOn
<1>5. SnapshotTypeOK'
  <2>1. objects' \subseteq {Kinds[i] : i \in 1 .. 4} \X Ingests
    BY <1>1 DEF SnapshotTypeOK
  <2> QED
    BY <1>1, <1>4, <2>1 DEF SnapshotTypeOK, Doings
<1>6. IngestStored(r)'
  <2>1. CASE step = "open"
    BY <1>1, <1>2, <1>3, <1>4, <2>1 DEF IngestStored, Sharing, HasAll, IngestIsAt
  <2>2. CASE step = "store"
    BY <1>1, <1>2, <1>3, <1>4, <2>2 DEF IngestStored, Sharing, IngestIsAt
  <2>3. CASE step = "over"
    BY <1>4, <2>3 DEF IngestStored, Sharing, IngestIsAt
  <2> QED
    BY <2>1, <2>2, <2>3
<1>7. HasItsFile(r)' /\ ~Replaces(r)' /\ ~Replaces(r) /\ ~IngestIsAt(r, "write")
  BY <1>1, <1>3, <1>4 DEF HasItsFile, Replaces, Sharing, IngestIsAt
<1>8. \A i \in 1 .. 3 : Untouched(r, i)
  BY <1>1 DEF Untouched, IngestIsAt
<1>9. killed' >= killed /\ overlap' >= overlap
  BY <1>1, IngestAssumption, IngestingIsFinite DEF SnapshotTypeOK
<1>10. IngestsCounted'
  <2>1. r \in Ingesting
    BY <1>1 DEF Ingesting, IngestIsAt
  <2> QED
    BY <1>1, <1>4, <2>1, CountKeeps
<1> QED
  BY <1>1, <1>4, <1>5, <1>6, <1>7, <1>8, <1>9, <1>10, Elsewhere DEF SnapshotInv

(* An ingest that ends early has shared nothing, or is killed.             *)
LEMMA EndKeeps ==
    ASSUME SnapshotInv, NEW r \in Ingesting, IngestGoes(r, "over", 1),
           UNCHANGED <<objects, target, temporary, bytes, inventory, overlap, uneven>>,
           killed' \in 0 .. MaxKilled, killed' >= killed,
           IngestIsAt(r, "store") \/ killed' # 0
    PROVE  SnapshotInv'
<1>1. SnapshotTypeOK /\ IngestsCounted /\ r \in Ingests
  BY DEF SnapshotInv, Ingesting
<1>2. /\ ingest'[r].step = "over"
      /\ \A q \in Ingests \ {r} : ingest'[q] = ingest[q]
      /\ ingest' \in [Ingests -> Doings]
  <2>1. "over" \in IngestSteps /\ 1 \in 1 .. 4
    BY DEF IngestSteps
  <2> QED
    BY <1>1, <2>1, GoesOn
<1>3. SnapshotTypeOK'
  BY <1>1, <1>2 DEF SnapshotTypeOK, Doings
<1>4. IngestStored(r)' /\ HasItsFile(r)' /\ ~Replaces(r)'
  BY <1>2 DEF IngestStored, HasItsFile, Replaces, Sharing, IngestIsAt
<1>5. \A i \in 1 .. 3 : ~Untouched(r, i)'
  BY <1>2 DEF Untouched
<1>6. overlap' >= overlap /\ (Replaces(r) \/ IngestIsAt(r, "write") => killed' # 0)
  BY <1>1, IngestAssumption, IngestingIsFinite DEF SnapshotTypeOK, Replaces, Sharing, IngestIsAt
<1>7. IngestsCounted'
  BY <1>1, <1>2, CountKeeps
<1> QED
  BY <1>1, <1>2, <1>3, <1>4, <1>5, <1>6, <1>7, Elsewhere DEF SnapshotInv

LEMMA NormalizeFailsKeeps ==
    ASSUME SnapshotInv, NEW r \in Ingests, NormalizeFails(r)
    PROVE  SnapshotInv'
<1>1. killed' \in 0 .. MaxKilled /\ killed' >= killed
  BY IngestAssumption DEF SnapshotInv, SnapshotTypeOK, NormalizeFails
<1>2. r \in Ingesting /\ IngestIsAt(r, "store")
  BY DEF NormalizeFails, Ingesting, IngestIsAt
<1> QED
  BY <1>1, <1>2, EndKeeps DEF NormalizeFails

LEMMA KillKeeps ==
    ASSUME SnapshotInv, NEW r \in Ingests, KillIngest(r)
    PROVE  SnapshotInv'
<1>1. killed' \in 0 .. MaxKilled /\ killed' >= killed /\ killed' # 0
  BY IngestAssumption DEF SnapshotInv, SnapshotTypeOK, KillIngest
<1> QED
  BY <1>1, EndKeeps DEF KillIngest

-----------------------------------------------------------------------------
(* Steps on the shared objects.                                            *)

(* What an ingest finds that shares an object.                             *)
LEMMA SharingFacts ==
    ASSUME SnapshotInv, NEW r \in Ingests, Sharing(r), NEW o \in SharedObjects, Writes(r, o)
    PROVE  /\ ingest[r].at \in 1 .. 3 /\ Shared[ingest[r].at] = o /\ HasAll(r)
           /\ r \in Ingesting
           /\ \A j \in 1 .. 3 : j # ingest[r].at => Shared[j] # o
           /\ temporary[o] \in Files /\ target[o] \in Files
           /\ temporary[o] = NoFile \/ temporary[o] # target[o]
BY Places, FileFacts
DEF SnapshotInv, SnapshotTypeOK, IngestStored, Sharing, Ingesting, FilesApart, Writes

(* A file is filled that no object has: what there is to read stays.       *)
LEMMA FillsAFile ==
    ASSUME SnapshotTypeOK, NEW o \in SharedObjects, NEW file \in Ingests, NEW holds \in Holds,
           bytes' = [bytes EXCEPT ![o][file] = holds]
    PROVE  /\ bytes' \in [SharedObjects -> [Ingests -> Holds]]
           /\ bytes'[o][file] = holds
           /\ \A p \in SharedObjects, f \in Ingests : p # o \/ f # file => bytes'[p][f] = bytes[p][f]
           /\ target' = target /\ target[o] # file =>
                 /\ \A p \in SharedObjects : Serves(p)' = Serves(p)
                 /\ \A p \in SharedObjects : HoldsWhole(p, target[p]) => HoldsWhole(p, target[p])'
<1>1. /\ bytes' \in [SharedObjects -> [Ingests -> Holds]]
      /\ bytes'[o][file] = holds
      /\ \A p \in SharedObjects, f \in Ingests : p # o \/ f # file => bytes'[p][f] = bytes[p][f]
  BY DEF SnapshotTypeOK
<1>2. \A p \in SharedObjects : target[p] = NoFile \/ target[p] \in Ingests
  BY DEF SnapshotTypeOK, Files
<1> QED
  BY <1>1, <1>2 DEF Serves, HoldsWhole

LEMMA OpenKeeps ==
    ASSUME SnapshotInv, NEW r \in Ingests, NEW o \in SharedObjects, OpenTemporary(r, o)
    PROVE  SnapshotInv'
<1> DEFINE file == IF temporary[o] = NoFile THEN r ELSE temporary[o]
           i == ingest[r].at
<1>1. /\ SnapshotTypeOK /\ IngestIsAt(r, "open") /\ Writes(r, o) /\ Sharing(r)
      /\ UNCHANGED <<objects, target, inventory, killed, overlap, uneven>>
      /\ temporary' = [temporary EXCEPT ![o] = file]
      /\ bytes' = [bytes EXCEPT ![o][file] = "empty"]
      /\ ingest' = [ingest EXCEPT ![r] = [@ EXCEPT !.step = "write", !.file = file]]
  BY DEF SnapshotInv, OpenTemporary, IngestIsAt, Sharing
<1>2. /\ i \in 1 .. 3 /\ Shared[i] = o /\ HasAll(r) /\ r \in Ingesting
      /\ \A j \in 1 .. 3 : j # i => Shared[j] # o
  BY <1>1, SharingFacts
<1>3. file \in Ingests /\ file # target[o]
  BY <1>1, <1>2, SharingFacts DEF SnapshotInv, FilesApart, Untouched, IngestIsAt, Files
<1> HIDE DEF file
<1>4. /\ ingest'[r].step = "write" /\ ingest'[r].file = file /\ ingest'[r].at = i
      /\ \A q \in Ingests \ {r} : ingest'[q] = ingest[q]
      /\ ingest' \in [Ingests -> Doings]
  BY <1>1, <1>3 DEF SnapshotTypeOK, Doings, IngestSteps, Files
<1>5. /\ temporary' \in [SharedObjects -> Files] /\ temporary'[o] = file
      /\ \A p \in SharedObjects \ {o} : temporary'[p] = temporary[p]
  BY <1>1, <1>3 DEF SnapshotTypeOK, Files
<1>6. /\ bytes' \in [SharedObjects -> [Ingests -> Holds]]
      /\ bytes'[o][file] = "empty"
      /\ \A p \in SharedObjects, f \in Ingests : p # o \/ f # file => bytes'[p][f] = bytes[p][f]
      /\ \A p \in SharedObjects : Serves(p)' = Serves(p)
      /\ \A p \in SharedObjects : HoldsWhole(p, target[p]) => HoldsWhole(p, target[p])'
  <2>1. "empty" \in Holds
    BY DEF Holds
  <2> QED
    BY <1>1, <1>3, <2>1, FillsAFile
<1>7. SnapshotTypeOK'
  BY <1>1, <1>4, <1>5, <1>6 DEF SnapshotTypeOK, Doings
<1>8. \A q \in Ingests : IngestStored(q)'
  <2>1. IngestStored(r)'
    BY <1>1, <1>2, <1>3, <1>4 DEF IngestStored, IngestIsAt, Sharing, HasAll
  <2>2. \A q \in Ingests \ {r} : IngestStored(q)'
    BY <1>1, <1>4 DEF SnapshotInv, IngestStored, IngestIsAt, Sharing, HasAll
  <2> QED
    BY <2>1, <2>2
<1>9. FilesStored'
  BY <1>1, <1>6, IngestAssumption DEF SnapshotInv, FilesStored, HasAll
<1>10. FilesApart'
  <2> SUFFICES ASSUME NEW j \in 1 .. 3
               PROVE  /\ temporary'[Shared[j]] = NoFile \/ temporary'[Shared[j]] # target[Shared[j]]
                      /\ \A q \in Ingests : Untouched(q, j)' => target[Shared[j]] # q
                                                             /\ temporary'[Shared[j]] # q
    BY <1>1 DEF FilesApart
  <2>1. \A q \in Ingests : Untouched(q, j)' => Untouched(q, j)
    BY <1>1, <1>2, <1>4 DEF Untouched, IngestIsAt
  <2>2. CASE j # i
    BY <1>2, <1>5, <2>1, <2>2, Places DEF SnapshotInv, FilesApart
  <2>3. CASE j = i
    <3>1. ~Untouched(r, j)'
      BY <1>2, <1>4, <2>3 DEF Untouched
    <3>2. \A q \in Ingests : Untouched(q, j)' => target[o] # q /\ file # q
      BY <1>2, <2>1, <2>3, <3>1 DEF SnapshotInv, FilesApart, file
    <3> QED
      BY <1>2, <1>3, <1>5, <2>3, <3>2
  <2> QED
    BY <2>2, <2>3
<1>11. SoonWhole'
  <2> SUFFICES ASSUME killed' = 0, ~uneven', NEW p \in SharedObjects
               PROVE  /\ HoldsWhole(p, target[p])' \/ IsWritten(p, target[p])'
                      /\ HoldsWhole(p, temporary[p])' \/ IsWritten(p, temporary[p])'
    BY DEF SoonWhole
  <2>1. /\ HoldsWhole(p, target[p]) \/ IsWritten(p, target[p])
        /\ HoldsWhole(p, temporary[p]) \/ IsWritten(p, temporary[p])
    BY <1>1 DEF SnapshotInv, SoonWhole
  <2>2. \A f \in Files : IsWritten(p, f) =>
           \E q \in Ingests \ {r} : IngestIsAt(q, "write") /\ Writes(q, p) /\ ingest[q].file = f
    BY <1>1 DEF IsWritten, IngestIsAt
  <2>3. target[p] \in Files /\ temporary[p] \in Files
    BY <1>1 DEF SnapshotTypeOK
  <2>4. HoldsWhole(p, target[p])' \/ IsWritten(p, target[p])'
    BY <1>1, <1>4, <1>6, <2>1, <2>2, <2>3 DEF IsWritten, IngestIsAt, Writes
  <2>5. CASE p = o
    BY <1>1, <1>2, <1>4, <1>5, <2>4, <2>5 DEF IsWritten, IngestIsAt, Writes
  <2>6. CASE p # o
    <3>1. HoldsWhole(p, temporary[p]) => HoldsWhole(p, temporary[p])'
      BY <1>5, <1>6, <2>3, <2>6 DEF HoldsWhole, Files
    <3>2. IsWritten(p, temporary[p]) => IsWritten(p, temporary[p])'
      BY <1>4, <1>5, <2>2, <2>3, <2>6 DEF IsWritten, IngestIsAt, Writes
    <3> QED
      BY <2>1, <2>4, <3>1, <3>2
  <2> QED
    BY <2>5, <2>6
<1>12. IngestsCounted'
  BY <1>1, <1>2, <1>4, CountKeeps DEF SnapshotInv
<1>13. ASSUME overlap <= 1 PROVE \A q \in Ingests \ {r} : ~Sharing(q) /\ ~Sharing(q)'
  BY <1>1, <1>2, <1>4, <1>13, OneIngests DEF SnapshotInv, Ingesting, Sharing
<1>14. Unopposed'
  <2> SUFFICES ASSUME overlap <= 1
               PROVE  /\ \A p \in SharedObjects : HoldsWhole(p, target[p])'
                      /\ \A q \in Ingests : HasItsFile(q)'
    BY <1>1 DEF Unopposed
  <2>1. \A p \in SharedObjects : HoldsWhole(p, target[p])'
    BY <1>6 DEF SnapshotInv, Unopposed
  <2>2. HasItsFile(r)'
    BY <1>2, <1>4, <1>5, <1>6 DEF HasItsFile, IngestIsAt
  <2>3. \A q \in Ingests \ {r} : HasItsFile(q)'
    BY <1>13 DEF HasItsFile, Sharing, IngestIsAt
  <2> QED
    BY <2>1, <2>2, <2>3
<1>15. Agreement'
  <2> SUFFICES ASSUME overlap <= 1, killed = 0
               PROVE  /\ (\A q \in Ingests : ~Replaces(q)') => IndexAgrees'
                      /\ \A q \in Ingests : Sharing(q)' /\ ingest'[q].at = 3 /\ ~IngestIsAt(q, "list")'
                            => (inventory[q] = Listed)'
    BY <1>1 DEF Agreement
  <2>1. Listed' = Listed /\ Serves("index")' = Serves("index")
    BY <1>6, Places DEF Listed
  <2>2. (\A q \in Ingests : ~Replaces(q)') => \A q \in Ingests : ~Replaces(q)
    BY <1>1, <1>4 DEF Replaces, Sharing
  <2>3. IndexAgrees => IndexAgrees'
    BY <1>1, <2>1 DEF IndexAgrees
  <2>4. ingest'[r].at = 3 => inventory'[r] = Listed'
    BY <1>1, <1>4, <2>1 DEF SnapshotInv, Agreement, Sharing, IngestIsAt
  <2> QED
    BY <1>13, <2>2, <2>3, <2>4 DEF SnapshotInv, Agreement
<1> QED
  BY <1>7, <1>8, <1>9, <1>10, <1>11, <1>12, <1>14, <1>15 DEF SnapshotInv

LEMMA WriteKeeps ==
    ASSUME SnapshotInv, NEW r \in Ingests, NEW o \in SharedObjects, WriteTemporary(r, o)
    PROVE  SnapshotInv'
<1> DEFINE file == ingest[r].file
           i == ingest[r].at
<1>1. /\ SnapshotTypeOK /\ IngestIsAt(r, "write") /\ Writes(r, o) /\ Sharing(r)
      /\ UNCHANGED <<objects, target, temporary, inventory, killed, overlap>>
      /\ IngestGoes(r, "rename", i)
  BY DEF SnapshotInv, WriteTemporary, IngestIsAt, Sharing
<1>2. PICK holds \in {r, "torn"} :
         /\ bytes' = [bytes EXCEPT ![o][file] = holds]
         /\ uneven' = (uneven \/ holds = "torn")
         /\ bytes[o][file] = "empty" => holds = r
  BY DEF WriteTemporary
<1>3. /\ i \in 1 .. 3 /\ Shared[i] = o /\ HasAll(r) /\ r \in Ingesting
      /\ \A j \in 1 .. 3 : j # i => Shared[j] # o
      /\ temporary[o] = NoFile \/ temporary[o] # target[o]
  BY <1>1, SharingFacts
<1>4. file \in Ingests
  BY <1>1 DEF SnapshotInv, IngestStored
<1>5. /\ ingest'[r].step = "rename" /\ ingest'[r].at = i
      /\ \A q \in Ingests \ {r} : ingest'[q] = ingest[q]
      /\ ingest' \in [Ingests -> Doings]
  <2>1. "rename" \in IngestSteps /\ i \in 1 .. 4
    BY <1>3 DEF IngestSteps
  <2> QED
    BY <1>1, <2>1, GoesOn
<1>6. /\ bytes' \in [SharedObjects -> [Ingests -> Holds]]
      /\ bytes'[o][file] = holds
      /\ \A p \in SharedObjects, f \in Ingests : p # o \/ f # file => bytes'[p][f] = bytes[p][f]
      /\ target[o] # file =>
            /\ \A p \in SharedObjects : Serves(p)' = Serves(p)
            /\ \A p \in SharedObjects : HoldsWhole(p, target[p]) => HoldsWhole(p, target[p])'
  <2>1. holds \in Holds
    BY DEF Holds
  <2>2. bytes' = [bytes EXCEPT ![o][file] = holds]
    BY <1>2
  <2>3. SnapshotTypeOK /\ target' = target
    BY <1>1
  <2> HIDE DEF file
  <2> QED
    BY <1>4, <2>1, <2>2, <2>3, FillsAFile
<1>7. SnapshotTypeOK'
  BY <1>1, <1>2, <1>5, <1>6 DEF SnapshotTypeOK, Doings
<1>8. \A q \in Ingests : IngestStored(q)'
  <2>1. IngestStored(r)'
    BY <1>1, <1>3, <1>5 DEF IngestStored, IngestIsAt, Sharing, HasAll
  <2>2. \A q \in Ingests \ {r} : IngestStored(q)'
    BY <1>1, <1>5 DEF SnapshotInv, IngestStored, IngestIsAt, Sharing, HasAll
  <2> QED
    BY <2>1, <2>2
<1>9. FilesStored'
  BY <1>1, <1>2, <1>3, <1>6, IngestAssumption DEF SnapshotInv, FilesStored, HasAll
<1>10. FilesApart'
  <2>1. \A q \in Ingests, j \in 1 .. 3 : Untouched(q, j)' => Untouched(q, j)
    BY <1>1, <1>5 DEF Untouched, IngestIsAt
  <2> QED
    BY <1>1, <2>1 DEF SnapshotInv, FilesApart
<1>11. SoonWhole'
  <2> SUFFICES ASSUME killed' = 0, ~uneven', NEW p \in SharedObjects
               PROVE  /\ HoldsWhole(p, target[p])' \/ IsWritten(p, target[p])'
                      /\ HoldsWhole(p, temporary[p])' \/ IsWritten(p, temporary[p])'
    BY DEF SoonWhole
  <2>1. ~uneven /\ holds = r
    BY <1>2
  <2>2. ASSUME NEW f \in Files, HoldsWhole(p, f) \/ IsWritten(p, f)
        PROVE  (f = NoFile \/ bytes'[p][f] \in Ingests) \/ IsWritten(p, f)'
    <3>1. CASE p = o /\ f = file
      BY <1>6, <2>1, <3>1
    <3>2. CASE (p # o \/ f # file) /\ HoldsWhole(p, f)
      BY <1>6, <3>2 DEF HoldsWhole, Files
    <3>3. CASE (p # o \/ f # file) /\ IsWritten(p, f)
      <4>1. PICK q \in Ingests : IngestIsAt(q, "write") /\ Writes(q, p) /\ ingest[q].file = f
        BY <3>3 DEF IsWritten
      <4>2. q # r
        BY <1>1, <3>3, <4>1 DEF Writes
      <4> QED
        BY <1>5, <4>1, <4>2 DEF IsWritten, IngestIsAt, Writes
    <3> QED
      BY <2>2, <3>1, <3>2, <3>3
  <2>3. target[p] \in Files /\ temporary[p] \in Files
    BY <1>1 DEF SnapshotTypeOK
  <2>4. /\ HoldsWhole(p, target[p]) \/ IsWritten(p, target[p])
        /\ HoldsWhole(p, temporary[p]) \/ IsWritten(p, temporary[p])
    BY <1>1, <2>1 DEF SnapshotInv, SoonWhole
  <2> QED
    BY <1>1, <2>2, <2>3, <2>4 DEF HoldsWhole, IsWritten, IngestIsAt, Writes
<1>12. IngestsCounted'
  BY <1>1, <1>3, <1>5, CountKeeps DEF SnapshotInv
<1>13. ASSUME overlap <= 1
       PROVE  /\ \A q \in Ingests \ {r} : ~Sharing(q) /\ ~Sharing(q)'
              /\ file = temporary[o] /\ file # target[o] /\ holds = r
  <2>1. \A q \in Ingests \ {r} : ~Sharing(q) /\ ~Sharing(q)'
    BY <1>1, <1>3, <1>5, <1>13, OneIngests DEF SnapshotInv, Ingesting, Sharing
  <2>2. file = temporary[o] /\ bytes[o][file] = "empty"
    BY <1>1, <1>3, <1>13 DEF SnapshotInv, Unopposed, HasItsFile
  <2> QED
    BY <1>2, <1>3, <1>4, <2>1, <2>2, FileFacts
<1>14. Unopposed'
  <2> SUFFICES ASSUME overlap <= 1
               PROVE  /\ \A p \in SharedObjects : HoldsWhole(p, target[p])'
                      /\ \A q \in Ingests : HasItsFile(q)'
    BY <1>1 DEF Unopposed
  <2>1. \A p \in SharedObjects : HoldsWhole(p, target[p])'
    BY <1>6, <1>13 DEF SnapshotInv, Unopposed
  <2>2. HasItsFile(r)'
    <3>1. /\ temporary'[Shared[ingest'[r].at]] # NoFile
          /\ bytes'[Shared[ingest'[r].at]][temporary'[Shared[ingest'[r].at]]] = r
      BY <1>1, <1>3, <1>4, <1>5, <1>6, <1>13, FileFacts
    <3> QED
      BY <1>5, <3>1 DEF HasItsFile, IngestIsAt
  <2>3. \A q \in Ingests \ {r} : HasItsFile(q)'
    BY <1>13 DEF HasItsFile, Sharing, IngestIsAt
  <2> QED
    BY <2>1, <2>2, <2>3
<1>15. Agreement'
  <2> SUFFICES ASSUME overlap <= 1, killed = 0
               PROVE  /\ (\A q \in Ingests : ~Replaces(q)') => IndexAgrees'
                      /\ \A q \in Ingests : Sharing(q)' /\ ingest'[q].at = 3 /\ ~IngestIsAt(q, "list")'
                            => (inventory[q] = Listed)'
    BY <1>1 DEF Agreement
  <2>1. Listed' = Listed /\ Serves("index")' = Serves("index")
    BY <1>6, <1>13, Places DEF Listed
  <2>2. (\A q \in Ingests : ~Replaces(q)') => \A q \in Ingests : ~Replaces(q)
    BY <1>1, <1>5 DEF Replaces, Sharing
  <2>3. IndexAgrees => IndexAgrees'
    BY <1>1, <2>1 DEF IndexAgrees
  <2>4. ingest'[r].at = 3 => inventory'[r] = Listed'
    BY <1>1, <1>5, <2>1 DEF SnapshotInv, Agreement, Sharing, IngestIsAt
  <2> QED
    BY <1>13, <2>2, <2>3, <2>4 DEF SnapshotInv, Agreement
<1> QED
  BY <1>7, <1>8, <1>9, <1>10, <1>11, <1>12, <1>14, <1>15 DEF SnapshotInv

LEMMA ReplaceKeeps ==
    ASSUME SnapshotInv, NEW r \in Ingests, NEW o \in SharedObjects, ReplaceTarget(r, o)
    PROVE  SnapshotInv'
<1> DEFINE i == ingest[r].at
<1>1. /\ SnapshotTypeOK /\ IngestIsAt(r, "rename") /\ Writes(r, o) /\ Sharing(r)
      /\ UNCHANGED <<objects, bytes, inventory, killed, overlap, uneven>>
  BY DEF SnapshotInv, ReplaceTarget, IngestIsAt, Sharing
<1>2. /\ i \in 1 .. 3 /\ Shared[i] = o /\ HasAll(r) /\ r \in Ingesting
      /\ \A j \in 1 .. 3 : j # i => Shared[j] # o
      /\ temporary[o] \in Files
  BY <1>1, SharingFacts
<1>3. PICK step \in {"open", "list", "over"}, at \in 1 .. 3 :
         /\ IngestGoes(r, step, at)
         /\ step = "open" => i = 1 /\ at = 2
         /\ step = "list" => i = 2 /\ at = 3
         /\ step = "over" /\ temporary[o] # NoFile => i = 3
  <2>1. CASE temporary[o] = NoFile
    BY <2>1 DEF ReplaceTarget
  <2>2. CASE temporary[o] # NoFile
    <3>1. AfterReplacing(r)
      BY <2>2 DEF ReplaceTarget
    <3>2. CASE i = 1
      BY <3>1, <3>2, Places DEF AfterReplacing
    <3>3. CASE i = 2
      BY <3>1, <3>3, Places DEF AfterReplacing
    <3>4. CASE i = 3
      BY <3>1, <3>4, Places DEF AfterReplacing
    <3> QED
      BY <1>2, <3>2, <3>3, <3>4
  <2> QED
    BY <2>1, <2>2
<1>4. /\ ingest'[r].step = step /\ ingest'[r].at = at
      /\ \A q \in Ingests \ {r} : ingest'[q] = ingest[q]
      /\ ingest' \in [Ingests -> Doings]
  <2>1. step \in IngestSteps /\ at \in 1 .. 4
    BY DEF IngestSteps
  <2> QED
    BY <1>1, <1>3, <2>1, GoesOn
<1>5. /\ target' \in [SharedObjects -> Files] /\ temporary' \in [SharedObjects -> Files]
      /\ \A p \in SharedObjects \ {o} : target'[p] = target[p] /\ temporary'[p] = temporary[p]
      /\ temporary'[o] = NoFile
      /\ target'[o] = IF temporary[o] = NoFile THEN target[o] ELSE temporary[o]
  BY <1>1, FileFacts DEF SnapshotTypeOK, ReplaceTarget
<1>6. SnapshotTypeOK'
  BY <1>1, <1>4, <1>5 DEF SnapshotTypeOK, Doings
<1>7. \A q \in Ingests : IngestStored(q)'
  <2>1. IngestStored(r)'
    BY <1>1, <1>2, <1>3, <1>4 DEF IngestStored, IngestIsAt, Sharing, HasAll
  <2>2. \A q \in Ingests \ {r} : IngestStored(q)'
    BY <1>1, <1>4 DEF SnapshotInv, IngestStored, IngestIsAt, Sharing, HasAll
  <2> QED
    BY <2>1, <2>2
<1>8. FilesStored'
  BY <1>1 DEF SnapshotInv, FilesStored, HasAll
<1>9. FilesApart'
  <2> SUFFICES ASSUME NEW j \in 1 .. 3
               PROVE  /\ temporary'[Shared[j]] = NoFile \/ temporary'[Shared[j]] # target'[Shared[j]]
                      /\ \A q \in Ingests : Untouched(q, j)' => target'[Shared[j]] # q
                                                             /\ temporary'[Shared[j]] # q
    BY DEF FilesApart
  <2>1. \A q \in Ingests : Untouched(q, j)' => Untouched(q, j)
    <3>1. Untouched(r, j)' => Untouched(r, j)
      <4>1. CASE step = "over"
        BY <1>4, <4>1 DEF Untouched
      <4>2. CASE step = "open"
        BY <1>1, <1>3, <1>4, <4>2 DEF Untouched, IngestIsAt
      <4>3. CASE step = "list"
        BY <1>1, <1>3, <1>4, <4>3 DEF Untouched, IngestIsAt
      <4> QED
        BY <4>1, <4>2, <4>3
    <3> QED
      BY <1>4, <3>1 DEF Untouched
  <2>2. CASE j # i
    BY <1>2, <1>5, <2>1, <2>2, Places DEF SnapshotInv, FilesApart
  <2>3. CASE j = i
    BY <1>2, <1>5, <2>1, <2>3, FileFacts DEF SnapshotInv, FilesApart
  <2> QED
    BY <2>2, <2>3
<1>10. SoonWhole'
  <2> SUFFICES ASSUME killed' = 0, ~uneven', NEW p \in SharedObjects
               PROVE  /\ HoldsWhole(p, target[p])' \/ IsWritten(p, target[p])'
                      /\ HoldsWhole(p, temporary[p])' \/ IsWritten(p, temporary[p])'
    BY DEF SoonWhole
  <2>1. /\ HoldsWhole(p, target[p]) \/ IsWritten(p, target[p])
        /\ HoldsWhole(p, temporary[p]) \/ IsWritten(p, temporary[p])
    BY <1>1 DEF SnapshotInv, SoonWhole
  <2>2. \A f \in Files : IsWritten(p, f) =>
           \E q \in Ingests \ {r} : IngestIsAt(q, "write") /\ Writes(q, p) /\ ingest[q].file = f
    BY <1>1 DEF IsWritten, IngestIsAt
  <2>3. \A f \in Files : IsWritten(p, f) =>
           \E q \in Ingests : IngestIsAt(q, "write")' /\ Writes(q, p)' /\ ingest'[q].file = f
    BY <1>4, <2>2 DEF IngestIsAt, Writes
  <2>4. /\ target[p] \in Files /\ temporary[p] \in Files
        /\ target'[p] \in {target[p], temporary[p]} /\ temporary'[p] \in {NoFile, temporary[p]}
    BY <1>1, <1>5 DEF SnapshotTypeOK
  <2> QED
    BY <1>1, <2>1, <2>3, <2>4 DEF HoldsWhole, IsWritten
<1>11. IngestsCounted'
  BY <1>1, <1>2, <1>4, CountKeeps DEF SnapshotInv
<1>12. ASSUME overlap <= 1
       PROVE  /\ \A q \in Ingests \ {r} : ~Sharing(q) /\ ~Sharing(q)'
              /\ temporary[o] # NoFile /\ bytes[o][temporary[o]] = r
  <2>1. \A q \in Ingests \ {r} : ~Sharing(q) /\ ~Sharing(q)'
    BY <1>1, <1>2, <1>4, <1>12, OneIngests DEF SnapshotInv, Ingesting, Sharing
  <2>2. temporary[o] # NoFile /\ bytes[o][temporary[o]] = r
    BY <1>1, <1>2, <1>12 DEF SnapshotInv, Unopposed, HasItsFile
  <2> QED
    BY <2>1, <2>2
<1>13. Unopposed'
  <2> SUFFICES ASSUME overlap <= 1
               PROVE  /\ \A p \in SharedObjects : HoldsWhole(p, target[p])'
                      /\ \A q \in Ingests : HasItsFile(q)'
    BY <1>1 DEF Unopposed
  <2>1. \A p \in SharedObjects : HoldsWhole(p, target[p])'
    BY <1>1, <1>5, <1>12 DEF SnapshotInv, Unopposed, HoldsWhole
  <2>2. HasItsFile(r)'
    BY <1>3, <1>4 DEF HasItsFile, IngestIsAt
  <2>3. \A q \in Ingests \ {r} : HasItsFile(q)'
    BY <1>12 DEF HasItsFile, Sharing, IngestIsAt
  <2> QED
    BY <2>1, <2>2, <2>3
<1>14. Agreement'
  <2> SUFFICES ASSUME overlap <= 1, killed = 0
               PROVE  /\ (\A q \in Ingests : ~Replaces(q)') => IndexAgrees'
                      /\ \A q \in Ingests : Sharing(q)' /\ ingest'[q].at = 3 /\ ~IngestIsAt(q, "list")'
                            => (inventory[q] = Listed)'
    BY <1>1 DEF Agreement
  <2>1. ~(Sharing(r)' /\ ingest'[r].at = 3 /\ ~IngestIsAt(r, "list")')
    BY <1>3, <1>4 DEF Sharing, IngestIsAt
  <2>2. ASSUME ~Replaces(r)' PROVE IndexAgrees'
    <3>1. step = "over" /\ i = 3
      BY <1>3, <1>4, <1>12, <2>2 DEF Replaces, Sharing
    <3>2. inventory[r] = Listed
      BY <1>1, <3>1 DEF SnapshotInv, Agreement, IngestIsAt
    <3>3. o = "index"
      BY <1>2, <3>1, Places
    <3>4. Listed' = Listed
      BY <1>1, <1>5, <3>3, Places DEF Listed, Serves
    <3>5. Serves("index")' = r
      BY <1>1, <1>5, <1>12, <3>3 DEF Serves
    <3> QED
      BY <1>1, <3>2, <3>4, <3>5 DEF IndexAgrees
  <2> QED
    BY <1>12, <2>1, <2>2
<1> QED
  BY <1>6, <1>7, <1>8, <1>9, <1>10, <1>11, <1>13, <1>14 DEF SnapshotInv

LEMMA TakeInventoryKeeps ==
    ASSUME SnapshotInv, NEW r \in Ingests, TakeInventory(r)
    PROVE  SnapshotInv'
<1>1. /\ SnapshotTypeOK /\ IngestIsAt(r, "list") /\ Sharing(r) /\ IngestStored(r)
      /\ UNCHANGED <<objects, target, temporary, bytes, killed, overlap, uneven>>
      /\ inventory' = [inventory EXCEPT ![r] = Listed]
      /\ IngestGoes(r, "open", ingest[r].at)
  BY DEF SnapshotInv, TakeInventory, IngestIsAt, Sharing, Listed
<1>2. ingest[r].at = 3 /\ HasAll(r) /\ r \in Ingesting
  BY <1>1 DEF IngestStored, Ingesting, IngestIsAt
<1>3. /\ ingest'[r].step = "open" /\ ingest'[r].at = 3
      /\ \A q \in Ingests \ {r} : ingest'[q] = ingest[q]
      /\ ingest' \in [Ingests -> Doings]
  <2>1. "open" \in IngestSteps /\ 3 \in 1 .. 4
    BY DEF IngestSteps
  <2> QED
    BY <1>1, <1>2, <2>1, GoesOn
<1>4. Listed \in [latest : Holds, portable : Holds]
  <2>1. \A o \in SharedObjects : Serves(o) \in Holds
    BY <1>1 DEF SnapshotTypeOK, Serves, Files, Holds
  <2> QED
    BY <2>1, Places DEF Listed
<1>5. /\ inventory' \in [Ingests -> [latest : Holds, portable : Holds]]
      /\ inventory'[r] = Listed
      /\ \A q \in Ingests \ {r} : inventory'[q] = inventory[q]
  BY <1>1, <1>4 DEF SnapshotTypeOK
<1>6. SnapshotTypeOK'
  BY <1>1, <1>3, <1>5 DEF SnapshotTypeOK, Doings
<1>7. \A q \in Ingests : IngestStored(q)'
  <2>1. IngestStored(r)'
    BY <1>1, <1>2, <1>3 DEF IngestStored, IngestIsAt, Sharing, HasAll
  <2>2. \A q \in Ingests \ {r} : IngestStored(q)'
    BY <1>1, <1>3 DEF SnapshotInv, IngestStored, IngestIsAt, Sharing, HasAll
  <2> QED
    BY <2>1, <2>2
<1>8. FilesStored'
  BY <1>1 DEF SnapshotInv, FilesStored, HasAll
<1>9. FilesApart'
  <2>1. \A q \in Ingests, j \in 1 .. 3 : Untouched(q, j)' => Untouched(q, j)
    BY <1>1, <1>2, <1>3 DEF Untouched, IngestIsAt
  <2> QED
    BY <1>1, <2>1 DEF SnapshotInv, FilesApart
<1>10. SoonWhole'
  <2>1. \A p \in SharedObjects, f \in Files : IsWritten(p, f) =>
           \E q \in Ingests : IngestIsAt(q, "write")' /\ Writes(q, p)' /\ ingest'[q].file = f
    BY <1>1, <1>3 DEF IsWritten, IngestIsAt, Writes
  <2>2. \A p \in SharedObjects : target[p] \in Files /\ temporary[p] \in Files
    BY <1>1 DEF SnapshotTypeOK
  <2> QED
    BY <1>1, <2>1, <2>2 DEF SnapshotInv, SoonWhole, HoldsWhole, IsWritten
<1>11. IngestsCounted'
  BY <1>1, <1>2, <1>3, CountKeeps DEF SnapshotInv
<1>12. Unopposed'
  <2>1. HasItsFile(r)'
    BY <1>3 DEF HasItsFile, IngestIsAt
  <2>2. \A q \in Ingests \ {r} : HasItsFile(q) => HasItsFile(q)'
    BY <1>1, <1>3 DEF HasItsFile, IngestIsAt
  <2> QED
    BY <1>1, <2>1, <2>2 DEF SnapshotInv, Unopposed, HoldsWhole
<1>13. Agreement'
  <2> SUFFICES ASSUME overlap <= 1, killed = 0
               PROVE  /\ (\A q \in Ingests : ~Replaces(q)') => IndexAgrees'
                      /\ \A q \in Ingests : Sharing(q)' /\ ingest'[q].at = 3 /\ ~IngestIsAt(q, "list")'
                            => (inventory[q] = Listed)'
    BY <1>1 DEF Agreement
  <2>1. Replaces(r)'
    BY <1>3 DEF Replaces, Sharing
  <2>2. Listed' = Listed
    BY <1>1 DEF Listed, Serves
  <2>3. \A q \in Ingests \ {r} :
           Sharing(q)' /\ ingest'[q].at = 3 /\ ~IngestIsAt(q, "list")' => (inventory[q] = Listed)'
    BY <1>1, <1>3, <1>5, <2>2 DEF SnapshotInv, Agreement, Sharing, IngestIsAt
  <2> QED
    BY <1>5, <2>1, <2>2, <2>3
<1> QED
  BY <1>6, <1>7, <1>8, <1>9, <1>10, <1>11, <1>12, <1>13 DEF SnapshotInv

LEMMA SnapshotIsInvariant == SnapshotSpec => []SnapshotInv
<1>1. SnapshotInv /\ [SnapshotNext]_snapshotVars => SnapshotInv'
  <2> SUFFICES ASSUME SnapshotInv, [SnapshotNext]_snapshotVars PROVE SnapshotInv'
    OBVIOUS
  <2>1. CASE UNCHANGED snapshotVars
    <3>1. SnapshotTypeOK'
      BY <2>1 DEF snapshotVars, SnapshotInv, SnapshotTypeOK
    <3>2. (\A r \in Ingests : IngestStored(r)') /\ FilesStored' /\ FilesApart'
      BY <2>1 DEF snapshotVars, SnapshotInv, IngestStored, IngestIsAt, Sharing, HasAll,
                  FilesStored, FilesApart, Untouched
    <3>3. SoonWhole'
      BY <2>1 DEF snapshotVars, SnapshotInv, SoonWhole, HoldsWhole, IsWritten, IngestIsAt, Writes
    <3>4. IngestsCounted' /\ Unopposed'
      BY <2>1 DEF snapshotVars, SnapshotInv, IngestsCounted, Ingesting, Unopposed, HasItsFile,
                  HoldsWhole, IngestIsAt
    <3>5. Agreement'
      BY <2>1 DEF snapshotVars, SnapshotInv, Agreement, Replaces, Sharing, IngestIsAt,
                  IndexAgrees, Listed, Serves
    <3> QED
      BY <3>1, <3>2, <3>3, <3>4, <3>5 DEF SnapshotInv
  <2>2. ASSUME SnapshotNext PROVE SnapshotInv'
    <3>1. PICK r \in Ingests :
             \/ BeginIngest(r) \/ StoreObject(r) \/ NormalizeFails(r)
             \/ \E o \in SharedObjects : OpenTemporary(r, o) \/ WriteTemporary(r, o) \/ ReplaceTarget(r, o)
             \/ TakeInventory(r)
             \/ KillIngest(r)
      BY <2>2 DEF SnapshotNext
    <3>2. CASE BeginIngest(r)
      BY <3>2, BeginKeeps
    <3>3. CASE StoreObject(r)
      BY <3>3, StoreKeeps
    <3>4. CASE NormalizeFails(r)
      BY <3>4, NormalizeFailsKeeps
    <3>5. ASSUME NEW o \in SharedObjects, OpenTemporary(r, o) PROVE SnapshotInv'
      BY <3>5, OpenKeeps
    <3>6. ASSUME NEW o \in SharedObjects, WriteTemporary(r, o) PROVE SnapshotInv'
      BY <3>6, WriteKeeps
    <3>7. ASSUME NEW o \in SharedObjects, ReplaceTarget(r, o) PROVE SnapshotInv'
      BY <3>7, ReplaceKeeps
    <3>8. CASE TakeInventory(r)
      BY <3>8, TakeInventoryKeeps
    <3>9. CASE KillIngest(r)
      BY <3>9, KillKeeps
    <3> QED
      BY <3>1, <3>2, <3>3, <3>4, <3>5, <3>6, <3>7, <3>8, <3>9
  <2> QED
    BY <2>1, <2>2
<1> QED
  BY <1>1, SnapshotStarts, PTL DEF SnapshotSpec

(* Whatever number of ingests share a local lake: while they go on one at  *)
(* a time each of the three shared objects is whole or absent, even where  *)
(* ingests are killed; where they overlap they are whole again once all    *)
(* are at an end, unless one was killed or overwrote a longer file; a      *)
(* generation that can be read has its objects; and the index of a lake    *)
(* that undisturbed ingests have written lists its manifests.              *)
THEOREM SnapshotsAreServable == SnapshotSpec => []SnapshotIsServable
<1>1. SnapshotInv => SnapshotIsServable
  <2> SUFFICES ASSUME SnapshotInv PROVE SnapshotIsServable
    OBVIOUS
  <2>1. SharedAreWhole
    <3>1. Resting => \A o \in SharedObjects, f \in Files : ~IsWritten(o, f)
      BY DEF Resting, IsWritten, IngestIsAt, Ingesting
    <3>2. \A o \in SharedObjects : target[o] \in Files
      BY DEF SnapshotInv, SnapshotTypeOK
    <3> QED
      BY <3>1, <3>2 DEF SnapshotInv, SharedAreWhole, Resting, Unopposed, SoonWhole
  <2>2. ReadableIsStored
    <3> SUFFICES ASSUME NEW o \in SharedObjects, Serves(o) \in Ingests,
                        NEW i \in DOMAIN Kinds
                 PROVE  <<Kinds[i], Serves(o)>> \in objects
      BY DEF ReadableIsStored
    <3>1. target[o] \in Ingests /\ Serves(o) = bytes[o][target[o]]
      BY IngestAssumption DEF SnapshotInv, SnapshotTypeOK, Serves, Files
    <3>2. HasAll(Serves(o))
      BY <3>1 DEF SnapshotInv, FilesStored
    <3> QED
      BY <3>2, KindPlaces DEF HasAll
  <2>3. IndexListsTheLake
    <3> SUFFICES ASSUME overlap <= 1, Resting, target["index"] # NoFile
                 PROVE  inventory[Serves("index")] = Listed
      BY DEF IndexListsTheLake, Listed
    <3>1. \A r \in Ingests : ~Replaces(r)
      BY DEF Resting, Ingesting, Replaces, Sharing
    <3> QED
      BY <3>1 DEF SnapshotInv, Agreement, IndexAgrees, Resting
  <2> QED
    BY <2>1, <2>2, <2>3 DEF SnapshotIsServable
<1> QED
  BY <1>1, SnapshotIsInvariant, PTL
=============================================================================
