---------------------------- MODULE BuildProofs -----------------------------
(***************************************************************************)
(* The builds of an artifact, the images and environments they run in, and *)
(* the terminal of a user who works in one of them.                        *)
(***************************************************************************)
EXTENDS ArtifactBuild, Images, TtyConsole, FiniteSetTheorems,
        SequenceTheorems, TLAPS

-----------------------------------------------------------------------------
(***************************************************************************)
(* What a build is made of, for any definitions, patches and               *)
(* architectures, and any number of builds and kills: archives that were   *)
(* verified, an environment that is clean, packages that are signed.       *)
(***************************************************************************)

UnderWay == step \notin {"idle", "load"}

\* Where archives come from, and the version of the artifact, from Load on.
LoadedShape ==
    /\ archives \in [Sources -> {"none", "user", "cache"}]
    /\ ~UnderWay => archives = Nowhere
    /\ UnderWay =>
          /\ definition \in Definitions
          /\ \A s \in Provided : archives[s] # "none"
          /\ version = [main |-> MainVersion(definition),
                        number |-> version.number]

\* An archive of the cache has an address, and is the one that was verified.
CacheShape ==
    /\ DOMAIN cache = CacheFiles
    /\ \A s \in Sources : archives[s] = "cache" =>
          /\ HasAddress(s)
          /\ s \notin Provided
          /\ cache[FileOf(s)] = RightArchive(s)

\* An environment that is changed is about to be cleaned.
OverlayShape ==
    /\ step \in {"snapshot", "clean", "scrub"} => request.format = "rpm"
    /\ overlay # "base" /\ ~excused =>
          step \in {"inside", "clean", "scrub"} /\ request.format = "rpm"

\* Unsigned packages are about to be signed, or more of them are to be built.
SignedShape ==
    request.format = "rpm" =>
        /\ step = "binary" => targets # {} \/ signed = packages
        /\ step \in {"check", "publish"} => signed = packages

\* What escapes ends a build.
EscapeShape == result = "escapes" => step = "idle"

BuildIInv ==
    /\ LoadedShape /\ CacheShape /\ OverlayShape /\ SignedShape
    /\ EscapeShape /\ WorkerSurvives
-----------------------------------------------------------------------------

(* Where a source is in the cache, and what is right there.  *)
LEMMA FileTypes ==
  ASSUME definition \in Definitions, NEW s \in Sources
  PROVE  /\ FileOf(s) \in CacheFiles
         /\ HasAddress(s) => RightArchive(s) # NoFile
  <1>1. definition \in ArtifactDefs
    BY DefinitionsAssumption
  <1>2. FileOf(s) \in CacheFiles
    BY <1>1 DEF FileOf, CacheFiles, ArtifactDefs, Sources
  <1>3. HasAddress(s) => RightArchive(s) \in Archives
    BY <1>1 DEF HasAddress, RightArchive, Archives, ArtifactDefs
  <1>4. QED
    BY <1>2, <1>3, NoFileAssumption

LEMMA BuildInitIInv == BuildInit => BuildIInv
  BY DEF BuildInit, BuildIInv, LoadedShape, UnderWay, Nowhere, CacheShape,
         OverlayShape, SignedShape, EscapeShape, WorkerSurvives

(* The end of a build leaves nothing but the cache and the environment.  *)
LEMMA EndsIInv ==
  ASSUME BuildIInv, NEW how, BuildEnds(how), UNCHANGED request,
         DOMAIN cache' = CacheFiles,
         overlay' # "base" /\ ~excused' => FALSE,
         how = "escapes" => WorkerSurvives'
  PROVE  BuildIInv'
  <1> USE DEF BuildIInv, BuildEnds, ForgetBuild
  <1>1. LoadedShape'
    BY DEF LoadedShape, UnderWay, Nowhere
  <1>2. CacheShape'
    BY DEF CacheShape, Nowhere
  <1>3. OverlayShape' /\ SignedShape' /\ EscapeShape'
    BY DEF OverlayShape, SignedShape, EscapeShape
  <1>4. WorkerSurvives'
    BY DEF WorkerSurvives
  <1>5. QED
    BY <1>1, <1>2, <1>3, <1>4

(* The steps that collect archives.  *)
LEMMA CollectIInv ==
  ASSUME BuildIInv, NEW s \in Sources
  PROVE  /\ \A how : CollectFails(s, how) => BuildIInv'
         /\ \A right \in BOOLEAN : Download(s, right) => BuildIInv'
         /\ UseCached(s) => BuildIInv'
         /\ ChecksumFails(s) => BuildIInv'
  <1> USE DEF BuildIInv
  <1> DEFINE Collecting == step = "collect" /\ s \in Wanted
  <1>1. Collecting => s \notin Provided /\ definition \in Definitions
    BY DEF LoadedShape, UnderWay, Wanted
  <1>2. ASSUME NEW how, CollectFails(s, how) PROVE BuildIInv'
    <2>1. UNCHANGED <<request, definition>> /\ Collecting
          /\ (how = "escapes" => ~HasAddress(s) \/ how = "offline")
      BY <1>2 DEF CollectFails
    <2>2. how = "escapes" => ~HasAddress(s)
      BY <2>1
    <2>3. how = "escapes" => WorkerSurvives'
      BY <1>1, <2>1, <2>2
      DEF WorkerSurvives, DefinedSources, Provided, HasAddress, Wanted
    <2>4. UNCHANGED storageVars /\ step = "collect" /\ BuildEnds(how)
      BY <1>2 DEF CollectFails
    <2>5. overlay' # "base" /\ ~excused' => FALSE
      BY <2>4 DEF OverlayShape, storageVars
    <2>6. QED
      BY <2>1, <2>3, <2>4, <2>5, EndsIInv DEF storageVars, CacheShape
  <1>3. ASSUME NEW right \in BOOLEAN, Download(s, right) PROVE BuildIInv'
    <2> USE <1>3 DEF Download, sourceVars, patchVars, packageVars
    <2>1. LoadedShape'
      BY DEF LoadedShape, UnderWay, Provided, MainVersion
    <2>2. \A t \in Sources : archives[t] = "cache" =>
              FileOf(t) \in CacheFiles /\ cache[FileOf(t)] # NoFile
      BY <1>1, FileTypes DEF CacheShape
    <2>3. \A t \in Sources : archives[t] = "cache" =>
              cache'[FileOf(t)] = cache[FileOf(t)]
      BY <2>2 DEF CacheShape
    <2>4. CacheShape'
      BY <2>3
      DEF CacheShape, HasAddress, Provided, FileOf, RightArchive
    <2>5. OverlayShape' /\ SignedShape' /\ EscapeShape' /\ WorkerSurvives'
      BY DEF OverlayShape, SignedShape, EscapeShape, WorkerSurvives,
             VersionIsKnown, MainVersion, DefinedSources, Provided, HasAddress
    <2>6. QED
      BY <2>1, <2>4, <2>5
  <1>4. ASSUME UseCached(s) PROVE BuildIInv'
    <2> USE <1>4 DEF UseCached, storageVars, patchVars, packageVars
    <2>1. LoadedShape'
      BY DEF LoadedShape, UnderWay, Provided, MainVersion
    <2>2. CacheShape'
      BY <1>1
      DEF CacheShape, LoadedShape, HasAddress, Provided, FileOf, RightArchive,
          ChecksumsMatch
    <2>3. OverlayShape' /\ SignedShape' /\ EscapeShape' /\ WorkerSurvives'
      BY DEF OverlayShape, SignedShape, EscapeShape, WorkerSurvives,
             VersionIsKnown, MainVersion, DefinedSources, Provided, HasAddress
    <2>4. QED
      BY <2>1, <2>2, <2>3
  <1>5. ASSUME ChecksumFails(s) PROVE BuildIInv'
    BY <1>5, EndsIInv
    DEF ChecksumFails, storageVars, CacheShape, OverlayShape
  <1>6. QED
    BY <1>2, <1>3, <1>4, <1>5

(* The steps that start a build, and those that work on patches.  *)
LEMMA PrepareIInv ==
  ASSUME BuildIInv,
         \/ \E f \in BuildFormats, main \in Upstream \cup {0},
               supp \in BOOLEAN :
               Submit(f, main, supp)
         \/ \E d \in Definitions \cup {NoDefinition} : LoadFails(d) \/ Load(d)
         \/ \E given \in SUBSET GivenPatches : Collected(given)
         \/ Symlinks \/ NoPrescript
         \/ \E changes \in BOOLEAN : PrescriptStarts(changes)
         \/ ExportPatch \/ Render
  PROVE  BuildIInv'
  <1> USE DEF BuildIInv, storageVars
  <1>1. ASSUME NEW f, NEW main, NEW supp, Submit(f, main, supp)
        PROVE  BuildIInv'
    BY <1>1
    DEF Submit, LoadedShape, UnderWay, CacheShape, OverlayShape, SignedShape,
        EscapeShape, WorkerSurvives, Nowhere
  <1>2. ASSUME NEW d, LoadFails(d) PROVE BuildIInv'
    <2>1. WorkerSurvives'
      BY <1>2
      DEF LoadFails, WorkerSurvives, Loadable, VersionIsKnown, MainVersion,
          DefinedSources, Packaged
    <2>2. QED
      BY <1>2, <2>1, EndsIInv DEF LoadFails, CacheShape, OverlayShape
  <1>3. ASSUME NEW d \in Definitions \cup {NoDefinition}, Load(d)
        PROVE  BuildIInv'
    <2> USE <1>3 DEF Load, patchVars, packageVars
    <2>1. d \in Definitions
      BY DEF Loadable, VersionIsKnown
    <2>2. LoadedShape'
      BY <2>1
      DEF LoadedShape, UnderWay, Provided, MainVersion, Sources
    <2>3. CacheShape' /\ OverlayShape' /\ SignedShape' /\ EscapeShape'
          /\ WorkerSurvives'
      BY DEF CacheShape, OverlayShape, SignedShape, EscapeShape, WorkerSurvives
    <2>4. QED
      BY <2>2, <2>3
  <1>4. ASSUME UNCHANGED <<storageVars, request, sourceVars, packageVars,
                           result>>,
               step # "binary", step' \notin {"idle", "load", "check",
                                              "publish", "binary"},
               UnderWay, step \notin {"inside", "clean", "scrub"},
               step' \notin {"clean", "scrub"},
               step' = "snapshot" => request.format = "rpm"
        PROVE  BuildIInv'
    <2> USE <1>4 DEF sourceVars, packageVars
    <2>1. LoadedShape' /\ CacheShape'
      BY DEF LoadedShape, UnderWay, CacheShape, HasAddress, Provided, FileOf,
             RightArchive, MainVersion
    <2>2. OverlayShape' /\ SignedShape'
      BY DEF OverlayShape, SignedShape
    <2>3. EscapeShape' /\ WorkerSurvives'
      BY DEF EscapeShape, UnderWay, WorkerSurvives
    <2>4. QED
      BY <2>1, <2>2, <2>3
  <1>5. ASSUME NEW given, Collected(given) PROVE BuildIInv'
    BY <1>4, <1>5 DEF Collected, UnderWay
  <1>6. CASE Symlinks \/ NoPrescript \/ ExportPatch \/ Render
    BY <1>4, <1>6
    DEF Symlinks, NoPrescript, ExportPatch, Render, UnderWay, patchVars
  <1>7. ASSUME NEW changes, PrescriptStarts(changes) PROVE BuildIInv'
    BY <1>4, <1>7 DEF PrescriptStarts, UnderWay
  <1>8. QED
    BY <1>1, <1>2, <1>3, <1>5, <1>6, <1>7

(* The environment of the prescript.  *)
LEMMA EnvironmentIInv ==
  ASSUME BuildIInv,
         Snapshot \/ PrescriptRuns \/ PrescriptFails \/ Clean \/ Scrub
  PROVE  BuildIInv'
  <1> USE DEF BuildIInv, storageVars, sourceVars, patchVars, packageVars
  <1>1. ASSUME UNCHANGED <<cache, request, sourceVars, packageVars>>,
               UnderWay, result' \in {result, "failed"},
               step' \in {"inside", "clean", "scrub", "export"}
        PROVE  LoadedShape' /\ CacheShape' /\ SignedShape' /\ EscapeShape'
               /\ WorkerSurvives'
    <2>1. LoadedShape' /\ CacheShape'
      BY <1>1
      DEF LoadedShape, UnderWay, CacheShape, HasAddress, Provided, FileOf,
          RightArchive, MainVersion
    <2>2. SignedShape' /\ EscapeShape' /\ WorkerSurvives'
      BY <1>1 DEF SignedShape, EscapeShape, UnderWay, WorkerSurvives
    <2>3. QED
      BY <2>1, <2>2
  <1>2. CASE Snapshot
    <2>1. OverlayShape'
      BY <1>2 DEF Snapshot, OverlayShape
    <2>2. QED
      BY <1>1, <1>2, <2>1 DEF Snapshot, UnderWay
  <1>3. CASE PrescriptRuns
    BY <1>1, <1>3 DEF PrescriptRuns, UnderWay, OverlayShape
  <1>4. CASE PrescriptFails
    <2>1. CASE request.format = "rpm"
      <3>1. OverlayShape'
        BY <1>4, <2>1 DEF PrescriptFails, OverlayShape
      <3>2. QED
        BY <1>1, <1>4, <2>1, <3>1 DEF PrescriptFails, UnderWay
    <2>2. CASE request.format # "rpm"
      BY <1>4, <2>2, EndsIInv DEF PrescriptFails, CacheShape, OverlayShape
    <2>3. QED
      BY <2>1, <2>2
  <1>5. CASE Clean
    BY <1>1, <1>5 DEF Clean, UnderWay, OverlayShape
  <1>6. CASE Scrub
    <2>1. CASE result = "failed"
      BY <1>6, <2>1, EndsIInv DEF Scrub, CacheShape
    <2>2. CASE result # "failed"
      <3>1. OverlayShape'
        BY <1>6 DEF Scrub, OverlayShape
      <3>2. QED
        BY <1>1, <1>6, <2>2, <3>1 DEF Scrub, UnderWay
    <2>3. QED
      BY <2>1, <2>2
  <1>7. QED
    BY <1>2, <1>3, <1>4, <1>5, <1>6

(* Packages are built, signed and published.  *)
LEMMA PackagesIInv ==
  ASSUME BuildIInv,
         \/ \E architectures \in (SUBSET Targets) \ {{}} :
                BuildSource(architectures)
         \/ \E a \in targets : BuildBinary(a)
         \/ BuildImage \/ SignRpms \/ Built \/ StaticCheck
  PROVE  BuildIInv'
  <1> USE DEF BuildIInv, storageVars, sourceVars, patchVars, packageVars
  <1>1. ASSUME UNCHANGED <<storageVars, request, definition, archives, result>>,
               UnderWay, step \notin {"inside", "clean", "scrub"},
               version' = [main |-> MainVersion(definition),
                           number |-> version'.number],
               step' \in {"binary", "sign", "check", "publish"}
        PROVE  LoadedShape' /\ CacheShape' /\ OverlayShape' /\ EscapeShape'
               /\ WorkerSurvives'
    <2>1. LoadedShape' /\ CacheShape'
      BY <1>1
      DEF LoadedShape, UnderWay, CacheShape, HasAddress, Provided, FileOf,
          RightArchive, MainVersion
    <2>2. OverlayShape' /\ EscapeShape' /\ WorkerSurvives'
      BY <1>1 DEF OverlayShape, EscapeShape, UnderWay, WorkerSurvives
    <2>3. QED
      BY <2>1, <2>2
  <1>2. UnderWay => version = [main |-> MainVersion(definition),
                               number |-> version.number]
    BY DEF LoadedShape
  <1>3. ASSUME NEW architectures \in (SUBSET Targets) \ {{}},
               BuildSource(architectures)
        PROVE  BuildIInv'
    <2>1. SignedShape' /\ UnderWay
      <3>1. architectures # {}
        OBVIOUS
      <3>2. /\ targets' = architectures
            /\ step = "source" /\ step' = "binary"
        BY <1>3 DEF BuildSource
      <3>3. QED
        BY <3>1, <3>2 DEF SignedShape, UnderWay
    <2>2. version' = [main |-> MainVersion(definition),
                      number |-> version'.number]
      BY <1>2, <1>3, <2>1 DEF BuildSource
    <2>3. QED
      BY <1>1, <1>3, <2>1, <2>2 DEF BuildSource
  <1>4. ASSUME NEW a \in targets, BuildBinary(a) PROVE BuildIInv'
    <2>1. SignedShape' /\ UnderWay
      BY <1>4 DEF BuildBinary, SignedShape, UnderWay
    <2>2. QED
      BY <1>1, <1>2, <1>4, <2>1 DEF BuildBinary
  <1>5. CASE BuildImage
    <2>1. SignedShape' /\ UnderWay
      BY <1>5 DEF BuildImage, SignedShape, UnderWay
    <2>2. QED
      BY <1>1, <1>2, <1>5, <2>1 DEF BuildImage
  <1>6. CASE SignRpms \/ Built \/ StaticCheck
    <2>1. SignedShape' /\ UnderWay
      BY <1>6 DEF SignRpms, Built, StaticCheck, SignedShape, UnderWay
    <2>2. QED
      BY <1>1, <1>2, <1>6, <2>1 DEF SignRpms, Built, StaticCheck
  <1>7. QED
    BY <1>3, <1>4, <1>5, <1>6

(* The ends of a build, good or bad.  *)
LEMMA OverIInv ==
  ASSUME BuildIInv, SourceFails \/ PublishBuild \/ BuildFails \/ Kill
  PROVE  BuildIInv'
  <1> USE DEF BuildIInv, storageVars
  <1>1. CASE SourceFails
    BY <1>1, EndsIInv DEF SourceFails, CacheShape, OverlayShape
  <1>2. CASE PublishBuild
    BY <1>2, EndsIInv DEF PublishBuild, CacheShape, OverlayShape
  <1>3. CASE BuildFails
    BY <1>3, EndsIInv DEF BuildFails, CacheShape, OverlayShape
  <1>4. CASE Kill
    <2>1. DOMAIN cache' = CacheFiles
      BY <1>4 DEF Kill, CacheShape
    <2>2. overlay' # "base" /\ ~excused' => FALSE
      BY <1>4 DEF Kill, OverlayShape
    <2>3. BuildEnds("none") /\ UNCHANGED request
      BY <1>4 DEF Kill
    <2>4. QED
      BY <2>1, <2>2, <2>3, EndsIInv
  <1>5. QED
    BY <1>1, <1>2, <1>3, <1>4

LEMMA BuildNextIInv == BuildIInv /\ [BuildNext]_buildVars => BuildIInv'
  <1> SUFFICES ASSUME BuildIInv, [BuildNext]_buildVars PROVE BuildIInv'
    OBVIOUS
  <1>1. CASE BuildNext
    BY <1>1, CollectIInv, PrepareIInv, EnvironmentIInv, PackagesIInv, OverIInv
    DEF BuildNext
  <1>2. CASE UNCHANGED buildVars
    BY <1>2
    DEF BuildIInv, buildVars, storageVars, sourceVars, patchVars, packageVars,
        LoadedShape, UnderWay, Provided, MainVersion, CacheShape, HasAddress,
        FileOf, RightArchive, OverlayShape, SignedShape, EscapeShape,
        WorkerSurvives, VersionIsKnown, DefinedSources
  <1>3. QED
    BY <1>1, <1>2

LEMMA BuildSpecIInv == BuildSpec => []BuildIInv
  BY BuildInitIInv, BuildNextIInv, PTL DEF BuildSpec

-----------------------------------------------------------------------------

(***************************************************************************)
(* No build of any sequence of builds, downloads and kills uses an archive *)
(* of the cache that is not the one its definition has checksums for       *)
(* (builds/__init__.py:325-354).                                           *)
(***************************************************************************)
THEOREM VerifiedAlways == BuildSpec => []BuildsFromVerified
  <1>1. BuildIInv => BuildsFromVerified
    <2> SUFFICES ASSUME BuildIInv PROVE BuildsFromVerified
      OBVIOUS
    <2>1. \A s \in Sources : archives[s] = "cache" =>
              cache[FileOf(s)] = RightArchive(s)
      BY DEF BuildIInv, CacheShape
    <2>2. ASSUME archives["main"] = "cache"
          PROVE  RightArchive("main").version = version.main
      <3>1. UnderWay
        BY <2>2 DEF BuildIInv, LoadedShape, Nowhere, Sources
      <3>2. request.main = 0
        BY <2>2 DEF BuildIInv, CacheShape, Provided, Sources
      <3>3. QED
        BY <3>1, <3>2
        DEF BuildIInv, LoadedShape, MainVersion, RightArchive
    <2>3. QED
      BY <2>1, <2>2 DEF BuildsFromVerified, Sources
  <1>2. QED
    BY <1>1, BuildSpecIInv, PTL

(***************************************************************************)
(* An environment is only dirty at the start of a prescript if a command   *)
(* that cleans it failed or was never run (builds/formats/rpm.py:532-552). *)
(***************************************************************************)
THEOREM CleanAlways == BuildSpec => []PrescriptStartsClean
  <1>1. BuildIInv => PrescriptStartsClean
    BY DEF BuildIInv, OverlayShape, PrescriptStartsClean
  <1>2. QED
    BY <1>1, BuildSpecIInv, PTL

(***************************************************************************)
(* All RPM packages are signed when they are published, for any number of  *)
(* architectures (builds/formats/rpm.py:145-150, 381-402).                 *)
(***************************************************************************)
THEOREM SignedAlways == BuildSpec => []PublishedAreSigned
  <1>1. BuildIInv => PublishedAreSigned
    BY DEF BuildIInv, SignedShape, PublishedAreSigned
  <1>2. QED
    BY <1>1, BuildSpecIInv, PTL

(***************************************************************************)
(* Only an artifact with a source that has no address ends a worker, of    *)
(* those whose version is known (builds/__init__.py:325-346).              *)
(***************************************************************************)
THEOREM WorkerAlways == BuildSpec => []WorkerSurvives
  <1>1. BuildIInv => WorkerSurvives
    BY DEF BuildIInv
  <1>2. QED
    BY <1>1, BuildSpecIInv, PTL

-----------------------------------------------------------------------------
(***************************************************************************)
(* A creation that no other one met is sound, for any set of instances, of *)
(* formats and of environments, and any number of creations and kills.     *)
(***************************************************************************)

AllDone == {"idle", "dead", "look", "unlink", "open", "write", "mkosi",
            "making"}

AnyUsers == {"sysusers.d", "passwd", "none"}
Unpacked == [users : AnyUsers, whole : BOOLEAN]

\* A worker whose creation met no other one is not dead, and is the only one
\* that creates an image while it does.
AloneShape ==
    /\ doing \in [Instances -> AllDone]
    /\ taken \in [Instances -> Unpacked]
    /\ met \in [Instances -> BOOLEAN]
    /\ \A i \in Instances : ~met[i] =>
          /\ doing[i] # "dead"
          /\ IsCreating(i) => \A k \in Instances \ {i} : ~IsCreating(k)

\* The skeleton it has given mkosi.
ItsUsers(i) == [users |-> UsersOf(wanted[i]), whole |-> TRUE]

\* What the skeleton is at each of its steps.
SkeletonShape ==
    \A i \in Instances : ~met[i] =>
        /\ doing[i] = "unlink" => skeleton # NoSkeleton
        /\ doing[i] = "open" => skeleton = NoSkeleton
        /\ doing[i] = "write" => /\ skeleton.users = UsersOf(wanted[i])
                                 /\ skeleton.writer = {i}
        /\ doing[i] = "mkosi" => /\ skeleton.users = UsersOf(wanted[i])
                                 /\ skeleton.whole = TRUE
        /\ doing[i] = "making" => taken[i] = ItsUsers(i)

SkeletonTyped ==
    skeleton \in [users : AnyUsers, whole : BOOLEAN,
                  writer : SUBSET Instances]
WantedTyped == wanted \in [Instances -> ImageFormats]

ImagesIInv == AloneShape /\ SkeletonShape /\ SkeletonTyped /\ WantedTyped

(* What is empty has its type.  *)
LEMMA NothingTyped ==
  /\ NoImage \in Unpacked
  /\ NoSkeleton \in [users : AnyUsers, whole : BOOLEAN,
                     writer : SUBSET Instances]
  BY DEF NoImage, NoSkeleton, Unpacked, AnyUsers

LEMMA ImagesInitIInv == ImagesInit => ImagesIInv
  <1> SUFFICES ASSUME ImagesInit PROVE ImagesIInv
    OBVIOUS
  <1>1. AloneShape /\ SkeletonShape
    BY NothingTyped
    DEF ImagesInit, AloneShape, AllDone, SkeletonShape, IsCreating
  <1>2. SkeletonTyped
    BY NothingTyped DEF ImagesInit, SkeletonTyped
  <1>3. WantedTyped
    <2>1. (CHOOSE f \in ImageFormats : TRUE) \in ImageFormats
      BY ImageFormatsAssumption
    <2>2. QED
      BY <2>1 DEF ImagesInit, WantedTyped
  <1>4. QED
    BY <1>1, <1>2, <1>3 DEF ImagesIInv

(* A task of an idle worker ends.  *)
LEMMA TaskEndsIInv ==
  ASSUME ImagesIInv, NEW i \in Instances, NEW how \in {"success", "failed"},
         doing[i] # "dead",
         TaskEnds(i, how), UNCHANGED <<skeleton, wanted, met>>
  PROVE  ImagesIInv'
  <1>1. AloneShape'
    BY NothingTyped
    DEF ImagesIInv, AloneShape, AllDone, TaskEnds, IsCreating
  <1>2. SkeletonShape'
    BY DEF ImagesIInv, AloneShape, SkeletonShape, TaskEnds, ItsUsers
  <1>3. SkeletonTyped' /\ WantedTyped'
    BY DEF ImagesIInv, SkeletonTyped, WantedTyped
  <1>4. QED
    BY <1>1, <1>2, <1>3 DEF ImagesIInv

(* A creation is refused, or starts: if it is not alone, all that create    *)
(* an image know.                                                          *)
LEMMA CreateIInv ==
  ASSUME ImagesIInv, NEW i \in Instances, NEW f \in ImageFormats,
         NEW force \in BOOLEAN, CreateImage(i, f, force)
  PROVE  ImagesIInv'
  <1>1. WantedTyped' /\ SkeletonTyped'
    BY DEF CreateImage, ImagesIInv, WantedTyped, SkeletonTyped
  <1>2. \A j \in Instances \ {i} : wanted'[j] = wanted[j]
    BY DEF CreateImage, ImagesIInv, WantedTyped
  <1>3. CASE ImageExists(i, f) /\ ~force
    <2>1. AloneShape'
      BY <1>3, NothingTyped
      DEF CreateImage, TaskEnds, ImagesIInv, AloneShape, AllDone, IsCreating
    <2>2. SkeletonShape'
      BY <1>2, <1>3
      DEF CreateImage, TaskEnds, ImagesIInv, AloneShape, SkeletonShape,
          ItsUsers
    <2>3. QED
      BY <1>1, <2>1, <2>2 DEF ImagesIInv
  <1>4. CASE ~(ImageExists(i, f) /\ ~force)
    <2>1. /\ doing' = [doing EXCEPT ![i] = "look"]
          /\ met' = [j \in Instances |->
                IF j = i THEN \E k \in Instances : IsCreating(k)
                ELSE met[j] \/ IsCreating(j)]
          /\ UNCHANGED <<taken, skeleton>>
          /\ doing[i] = "idle"
      BY <1>4 DEF CreateImage
    <2>2. AloneShape'
      BY <2>1 DEF ImagesIInv, AloneShape, AllDone, IsCreating
    <2>3. SkeletonShape'
      BY <1>2, <2>1
      DEF ImagesIInv, AloneShape, SkeletonShape, ItsUsers
    <2>4. QED
      BY <1>1, <2>2, <2>3 DEF ImagesIInv
  <1>5. QED
    BY <1>3, <1>4

(* The worker i goes from one of its steps to another, or dies because it  *)
(* met another creation: who is alone stays so.                            *)
LEMMA StepIsAlone ==
  ASSUME ImagesIInv, NEW i \in Instances, NEW next \in AllDone,
         IsCreating(i), doing' = [doing EXCEPT ![i] = next],
         ~met[i] => next # "dead",
         taken' \in [Instances -> Unpacked],
         UNCHANGED <<wanted, met>>
  PROVE  /\ AloneShape' /\ WantedTyped'
         /\ \A j \in Instances \ {i} : ~met[j] => ~IsCreating(j)'
  BY DEF ImagesIInv, AloneShape, WantedTyped, AllDone, IsCreating

(* The steps on the skeleton.  *)
LEMMA SkeletonIInv ==
  ASSUME ImagesIInv, NEW i \in Instances,
         \/ LookSkeleton(i) \/ UnlinkSkeleton(i) \/ OpenSkeleton(i)
         \/ WriteSkeleton(i)
  PROVE  ImagesIInv'
  <1> USE DEF ImagesIInv
  <1>1. CASE LookSkeleton(i)
    <2>1. PICK next \in {"unlink", "open"} :
             /\ doing' = [doing EXCEPT ![i] = next]
             /\ next = "unlink" <=> skeleton # NoSkeleton
      BY <1>1 DEF LookSkeleton
    <2>2. /\ AloneShape' /\ WantedTyped'
          /\ \A j \in Instances \ {i} : ~met[j] => ~IsCreating(j)'
      BY <1>1, <2>1, StepIsAlone
      DEF LookSkeleton, AllDone, IsCreating, AloneShape
    <2>3. SkeletonShape' /\ SkeletonTyped'
      BY <1>1, <2>1, <2>2
      DEF LookSkeleton, SkeletonShape, SkeletonTyped, IsCreating, AloneShape
    <2>4. QED
      BY <2>2, <2>3
  <1>2. CASE UnlinkSkeleton(i)
    <2>1. PICK next \in {"dead", "open"} :
             /\ doing' = [doing EXCEPT ![i] = next]
             /\ next = "dead" <=> skeleton = NoSkeleton
      BY <1>2 DEF UnlinkSkeleton, TaskEnds
    <2>2. taken' \in [Instances -> Unpacked]
      BY <1>2, NothingTyped DEF UnlinkSkeleton, TaskEnds, AloneShape
    <2>3. ~met[i] => next # "dead"
      BY <1>2, <2>1 DEF UnlinkSkeleton, SkeletonShape
    <2>4. /\ AloneShape' /\ WantedTyped'
          /\ \A j \in Instances \ {i} : ~met[j] => ~IsCreating(j)'
      BY <1>2, <2>1, <2>2, <2>3, StepIsAlone
      DEF UnlinkSkeleton, AllDone, IsCreating
    <2>5. SkeletonShape' /\ SkeletonTyped'
      BY <1>2, <2>1, <2>3, <2>4
      DEF UnlinkSkeleton, SkeletonShape, SkeletonTyped, AnyUsers, NoSkeleton,
          IsCreating,
          AloneShape
    <2>6. QED
      BY <2>4, <2>5
  <1>3. CASE OpenSkeleton(i)
    <2>1. PICK next \in {"dead", "write"} :
             /\ doing' = [doing EXCEPT ![i] = next]
             /\ next = "dead" <=> skeleton # NoSkeleton
      BY <1>3 DEF OpenSkeleton, TaskEnds
    <2>2. taken' \in [Instances -> Unpacked]
      BY <1>3, NothingTyped DEF OpenSkeleton, TaskEnds, AloneShape
    <2>3. ~met[i] => next # "dead"
      BY <1>3, <2>1 DEF OpenSkeleton, SkeletonShape
    <2>4. /\ AloneShape' /\ WantedTyped'
          /\ \A j \in Instances \ {i} : ~met[j] => ~IsCreating(j)'
      BY <1>3, <2>1, <2>2, <2>3, StepIsAlone
      DEF OpenSkeleton, AllDone, IsCreating
    <2>5. SkeletonTyped'
      <3>1. UsersOf(wanted[i]) \in AnyUsers
        BY DEF UsersOf, AnyUsers
      <3>2. [users |-> UsersOf(wanted[i]), whole |-> FALSE,
             writer |-> {i}] \in [users : AnyUsers, whole : BOOLEAN,
                                  writer : SUBSET Instances]
        BY <3>1
      <3>3. QED
        BY <1>3, <3>2 DEF OpenSkeleton, SkeletonTyped
    <2>6. SkeletonShape'
      BY <1>3, <2>1, <2>3, <2>4
      DEF OpenSkeleton, SkeletonShape, IsCreating, AloneShape
    <2>7. QED
      BY <2>4, <2>5, <2>6
  <1>4. CASE WriteSkeleton(i)
    <2>1. /\ AloneShape' /\ WantedTyped'
          /\ \A j \in Instances \ {i} : ~met[j] => ~IsCreating(j)'
      BY <1>4, StepIsAlone
      DEF WriteSkeleton, AllDone, IsCreating, AloneShape
    <2>2. SkeletonTyped'
      BY <1>4
      DEF WriteSkeleton, SkeletonTyped, NoSkeleton
    <2>3. SkeletonShape'
      <3>1. \A j \in Instances \ {i} : ~met'[j] => doing'[j] = "idle"
        BY <1>4, <2>1 DEF WriteSkeleton, IsCreating, AloneShape
      <3>2. ~met[i] => /\ skeleton'.users = UsersOf(wanted[i])
                       /\ skeleton'.whole = TRUE
        <4>1. ~met[i] => /\ skeleton.users = UsersOf(wanted[i])
                         /\ skeleton.writer = {i}
          BY <1>4 DEF WriteSkeleton, SkeletonShape
        <4>2. ~met[i] =>
                 skeleton' = [skeleton EXCEPT !.whole = TRUE, !.writer = {}]
          BY <1>4, <4>1 DEF WriteSkeleton
        <4>3. QED
          BY <4>1, <4>2 DEF SkeletonTyped
      <3>3. doing'[i] = "mkosi"
        BY <1>4 DEF WriteSkeleton, AloneShape
      <3>4. QED
        BY <1>4, <3>1, <3>2, <3>3 DEF WriteSkeleton, SkeletonShape
    <2>4. QED
      BY <2>1, <2>2, <2>3
  <1>5. QED
    BY <1>1, <1>2, <1>3, <1>4

(* mkosi runs.  *)
LEMMA MkosiIInv ==
  ASSUME ImagesIInv, NEW i \in Instances,
         MkosiStarts(i) \/ MkosiEnds(i) \/ MkosiFails(i)
  PROVE  ImagesIInv'
  <1>1. CASE MkosiStarts(i)
    <2> USE DEF ImagesIInv
    <2>1. taken' \in [Instances -> Unpacked]
      BY <1>1
      DEF MkosiStarts, SkeletonTyped, Unpacked, AnyUsers, NoSkeleton,
          AloneShape
    <2>2. /\ AloneShape' /\ WantedTyped'
          /\ \A j \in Instances \ {i} : ~met[j] => ~IsCreating(j)'
      BY <1>1, <2>1, StepIsAlone
      DEF MkosiStarts, AllDone, IsCreating
    <2>3. SkeletonShape' /\ SkeletonTyped'
      <3>1. \A j \in Instances \ {i} : ~met'[j] => doing'[j] = "idle"
        BY <1>1, <2>2 DEF MkosiStarts, IsCreating, AloneShape
      <3>2. ~met[i] => taken'[i] = ItsUsers(i)
        <4>1. ~met[i] => /\ skeleton.users = UsersOf(wanted[i])
                         /\ skeleton.whole = TRUE
          BY <1>1 DEF MkosiStarts, SkeletonShape
        <4>2. taken'[i] = [users |-> skeleton.users, whole |-> skeleton.whole]
          BY <1>1 DEF MkosiStarts, AloneShape
        <4>3. QED
          BY <4>1, <4>2, Zenon DEF ItsUsers
      <3>3. doing'[i] = "making" /\ ItsUsers(i)' = ItsUsers(i)
        BY <1>1 DEF MkosiStarts, AloneShape, ItsUsers
      <3>4. QED
        BY <1>1, <3>1, <3>2, <3>3
        DEF MkosiStarts, SkeletonShape, SkeletonTyped
    <2>4. QED
      BY <2>2, <2>3
  <1>2. CASE MkosiEnds(i) \/ MkosiFails(i)
    BY <1>2, TaskEndsIInv DEF MkosiEnds, MkosiFails
  <1>3. QED
    BY <1>1, <1>2

(* The other tasks.  *)
LEMMA ContainerIInv ==
  ASSUME ImagesIInv, NEW i \in Instances, NEW f \in ImageFormats,
         NEW how \in {"success", "failed"},
         \/ UseImage(i, f, how)
         \/ \E e \in Environs : \/ CreateEnvironment(i, f, e, how)
                                \/ UseEnvironment(i, f, e, how)
  PROVE  ImagesIInv'
  BY TaskEndsIInv
  DEF UseImage, CreateEnvironment, UseEnvironment, RunInContainer

LEMMA StopsIInv ==
  ASSUME ImagesIInv, DaemonStops
  PROVE  ImagesIInv'
  <1>1. AloneShape'
    BY NothingTyped
    DEF DaemonStops, ImagesIInv, AloneShape, AllDone, IsCreating
  <1>2. SkeletonShape' /\ WantedTyped'
    BY DEF DaemonStops, ImagesIInv, SkeletonShape, WantedTyped
  <1>3. SkeletonTyped'
    BY DEF DaemonStops, ImagesIInv, SkeletonTyped, NoSkeleton
  <1>4. QED
    BY <1>1, <1>2, <1>3 DEF ImagesIInv

LEMMA ImagesNextIInv == ImagesIInv /\ [ImagesNext]_imageVars => ImagesIInv'
  <1> SUFFICES ASSUME ImagesIInv, [ImagesNext]_imageVars PROVE ImagesIInv'
    OBVIOUS
  <1>1. CASE UNCHANGED imageVars
    BY <1>1
    DEF imageVars, ImagesIInv, AloneShape, SkeletonShape, SkeletonTyped,
        WantedTyped, IsCreating, ItsUsers
  <1>2. CASE ImagesNext
    BY <1>2, CreateIInv, SkeletonIInv, MkosiIInv, ContainerIInv, StopsIInv
    DEF ImagesNext
  <1>3. QED
    BY <1>1, <1>2

(***************************************************************************)
(* A creation that no other one met gives its image the user of the        *)
(* daemon, whole and in the way of its format, and never ends its worker   *)
(* (images.py:83-126).                                                     *)
(***************************************************************************)
THEOREM CreationIsSound == ImagesSpec => []CreationAloneIsSound
  <1>1. ImagesInit => ImagesIInv
    BY ImagesInitIInv
  <1>2. ImagesIInv /\ [ImagesNext]_imageVars => ImagesIInv'
    BY ImagesNextIInv
  <1>3. ImagesIInv => CreationAloneIsSound
    BY DEF ImagesIInv, AloneShape, SkeletonShape, ItsUsers,
           CreationAloneIsSound
  <1>4. QED
    BY <1>1, <1>2, <1>3, PTL DEF ImagesSpec

(* The end of a task keeps the types of what it changes.  *)
LEMMA TaskEndsTyped ==
  ASSUME ImagesTypeOK, NEW i \in Instances,
         NEW how \in {"success", "failed", "escapes"}, TaskEnds(i, how)
  PROVE  /\ doing' \in [Instances -> {"idle", "look", "unlink", "open",
                                      "write", "mkosi", "making", "dead"}]
         /\ outcome' \in [Instances -> {"none", "success", "failed", "escapes"}]
         /\ taken' \in [Instances -> SkeletonUsers]
  <1>1. NoImage \in SkeletonUsers
    BY DEF SkeletonUsers
  <1>2. QED
    BY <1>1 DEF ImagesTypeOK, TaskEnds

LEMMA CreateTyped ==
  ASSUME ImagesTypeOK, NEW i \in Instances, NEW f \in ImageFormats,
         NEW force \in BOOLEAN, CreateImage(i, f, force)
  PROVE  ImagesTypeOK'
  <1>1. imageCount' \in 0..MaxImages
    BY ImageBoundsAssumption DEF CreateImage, ImagesTypeOK
  <1>2. wanted' \in [Instances -> ImageFormats]
    BY DEF CreateImage, ImagesTypeOK
  <1>3. /\ made' = made /\ environments' = environments
        /\ skeleton' = skeleton /\ stops' = stops
    BY DEF CreateImage
  <1>4. CASE ImageExists(i, f) /\ ~force
    <2>1. TaskEnds(i, "failed") /\ met' = met
      BY <1>4 DEF CreateImage
    <2>2. QED
      BY <1>1, <1>2, <1>3, <2>1, TaskEndsTyped DEF ImagesTypeOK
  <1>5. CASE ~(ImageExists(i, f) /\ ~force)
    <2>1. /\ doing' = [doing EXCEPT ![i] = "look"]
          /\ outcome' = [outcome EXCEPT ![i] = "none"]
          /\ met' = [j \in Instances |->
                IF j = i THEN \E k \in Instances : IsCreating(k)
                ELSE met[j] \/ IsCreating(j)]
          /\ taken' = taken
      BY <1>5 DEF CreateImage
    <2>2. met' \in [Instances -> BOOLEAN]
      BY <2>1
    <2>3. QED
      BY <1>1, <1>2, <1>3, <2>1, <2>2 DEF ImagesTypeOK
  <1>6. QED
    BY <1>4, <1>5

LEMMA SkeletonTypes ==
  ASSUME ImagesTypeOK, NEW i \in Instances,
         LookSkeleton(i) \/ UnlinkSkeleton(i) \/ OpenSkeleton(i)
            \/ WriteSkeleton(i)
  PROVE  ImagesTypeOK'
  <1>1. /\ made' = made /\ environments' = environments /\ stops' = stops
        /\ wanted' = wanted /\ met' = met /\ imageCount' = imageCount
    BY DEF LookSkeleton, UnlinkSkeleton, OpenSkeleton, WriteSkeleton
  <1>2. skeleton' \in Skeletons
    <2>1. CASE LookSkeleton(i)
      BY <2>1 DEF LookSkeleton, ImagesTypeOK
    <2>2. CASE UnlinkSkeleton(i)
      BY <2>2 DEF UnlinkSkeleton, Skeletons
    <2>3. CASE OpenSkeleton(i)
      <3>1. UsersOf(wanted[i]) \in UserFiles
        BY DEF UsersOf, UserFiles
      <3>2. [users |-> UsersOf(wanted[i]), whole |-> FALSE,
             writer |-> {i}] \in Skeletons
        BY <3>1 DEF Skeletons
      <3>3. QED
        BY <2>3, <3>2 DEF OpenSkeleton, ImagesTypeOK
    <2>4. CASE WriteSkeleton(i)
      <3>1. CASE skeleton.writer = {i}
        <4>1. skeleton # NoSkeleton
          BY <3>1 DEF NoSkeleton
        <4>2. skeleton \in [users : UserFiles, whole : BOOLEAN,
                            writer : SUBSET Instances]
          BY <4>1 DEF ImagesTypeOK, Skeletons
        <4>3. skeleton' = [skeleton EXCEPT !.whole = TRUE, !.writer = {}]
          BY <2>4, <3>1 DEF WriteSkeleton
        <4>4. QED
          BY <4>2, <4>3 DEF Skeletons
      <3>2. CASE skeleton.writer # {i}
        BY <2>4, <3>2 DEF WriteSkeleton, ImagesTypeOK
      <3>3. QED
        BY <3>1, <3>2
    <2>5. QED
      BY <2>1, <2>2, <2>3, <2>4
  <1>3. CASE TaskEnds(i, "escapes")
    BY <1>1, <1>2, <1>3, TaskEndsTyped DEF ImagesTypeOK
  <1>4. CASE ~TaskEnds(i, "escapes")
    <2>1. /\ outcome' = outcome /\ taken' = taken
          /\ \E s \in {"unlink", "open", "write", "mkosi"} :
                doing' = [doing EXCEPT ![i] = s]
      BY <1>4 DEF LookSkeleton, UnlinkSkeleton, OpenSkeleton, WriteSkeleton
    <2>2. doing' \in [Instances -> {"idle", "look", "unlink", "open",
                                    "write", "mkosi", "making", "dead"}]
      BY <2>1 DEF ImagesTypeOK
    <2>3. QED
      BY <1>1, <1>2, <2>1, <2>2 DEF ImagesTypeOK
  <1>5. QED
    BY <1>3, <1>4

LEMMA MkosiTypes ==
  ASSUME ImagesTypeOK, NEW i \in Instances,
         MkosiStarts(i) \/ MkosiEnds(i) \/ MkosiFails(i)
  PROVE  ImagesTypeOK'
  <1>1. /\ skeleton' = skeleton /\ stops' = stops
        /\ wanted' = wanted /\ met' = met /\ imageCount' = imageCount
    BY DEF MkosiStarts, MkosiEnds, MkosiFails
  <1>2. /\ wanted[i] \in ImageFormats /\ NoImage \in SkeletonUsers
        /\ taken[i] \in SkeletonUsers
    BY DEF ImagesTypeOK, SkeletonUsers
  <1>3. CASE MkosiStarts(i)
    <2>1. [users |-> skeleton.users, whole |-> skeleton.whole] \in SkeletonUsers
      <3>1. skeleton \in [users : UserFiles, whole : BOOLEAN,
                          writer : SUBSET Instances]
        BY <1>3 DEF ImagesTypeOK, Skeletons, MkosiStarts
      <3>2. QED
        BY <3>1 DEF SkeletonUsers
    <2>2. made' \in [Instances -> [ImageFormats -> SkeletonUsers]]
      BY <1>2, <1>3 DEF MkosiStarts, ImagesTypeOK
    <2>3. environments' \in [Instances -> [ImageFormats -> SUBSET Environs]]
      BY <1>2, <1>3 DEF MkosiStarts, ImagesTypeOK
    <2>4. /\ taken' \in [Instances -> SkeletonUsers] /\ outcome' = outcome
          /\ doing' \in [Instances -> {"idle", "look", "unlink", "open",
                                       "write", "mkosi", "making", "dead"}]
      BY <1>3, <2>1 DEF MkosiStarts, ImagesTypeOK
    <2>5. QED
      BY <1>1, <2>2, <2>3, <2>4 DEF ImagesTypeOK
  <1>4. CASE MkosiEnds(i)
    <2>1. made' \in [Instances -> [ImageFormats -> SkeletonUsers]]
      BY <1>2, <1>4 DEF MkosiEnds, ImagesTypeOK
    <2>2. TaskEnds(i, "success") /\ environments' = environments
      BY <1>4 DEF MkosiEnds
    <2>3. QED
      BY <1>1, <2>1, <2>2, TaskEndsTyped DEF ImagesTypeOK
  <1>5. CASE MkosiFails(i)
    <2>1. TaskEnds(i, "failed") /\ environments' = environments /\ made' = made
      BY <1>5 DEF MkosiFails
    <2>2. QED
      BY <1>1, <2>1, TaskEndsTyped DEF ImagesTypeOK
  <1>6. QED
    BY <1>3, <1>4, <1>5

LEMMA ContainerTypes ==
  ASSUME ImagesTypeOK, NEW i \in Instances, NEW f \in ImageFormats,
         NEW e \in Environs, NEW how \in {"success", "failed"},
         CreateEnvironment(i, f, e, how) \/ UseEnvironment(i, f, e, how)
  PROVE  ImagesTypeOK'
  <1>1. /\ made' = made /\ skeleton' = skeleton /\ stops' = stops
        /\ wanted' = wanted /\ met' = met /\ imageCount' = imageCount
        /\ TaskEnds(i, how)
    BY DEF CreateEnvironment, UseEnvironment, RunInContainer
  <1>2. environments' \in [Instances -> [ImageFormats -> SUBSET Environs]]
    <2>1. environments' = environments
          \/ environments' = [environments EXCEPT ![i][f] = @ \cup {e}]
      BY DEF CreateEnvironment, UseEnvironment
    <2>2. environments[i][f] \cup {e} \in SUBSET Environs
      BY DEF ImagesTypeOK
    <2>3. /\ environments \in [Instances -> [ImageFormats -> SUBSET Environs]]
          /\ environments[i] \in [ImageFormats -> SUBSET Environs]
      BY DEF ImagesTypeOK
    <2> DEFINE row == [environments[i] EXCEPT ![f] = @ \cup {e}]
    <2>4. row \in [ImageFormats -> SUBSET Environs]
      BY <2>2, <2>3
    <2>5. environments' = environments
          \/ environments' = [environments EXCEPT ![i] = row]
      BY <2>1
    <2> HIDE DEF row
    <2>6. QED
      BY <2>3, <2>4, <2>5
  <1>3. QED
    BY <1>1, <1>2, TaskEndsTyped DEF ImagesTypeOK

(***************************************************************************)
(* The variables keep their types: the worker of an instance has one task  *)
(* at a time, and what is unpacked is nothing or a skeleton                *)
(* (images.py:69-147).                                                     *)
(***************************************************************************)
THEOREM ImagesTypes == ImagesSpec => []ImagesTypeOK
  <1>1. ImagesInit => ImagesTypeOK
    <2> SUFFICES ASSUME ImagesInit PROVE ImagesTypeOK
      OBVIOUS
    <2>1. (CHOOSE f \in ImageFormats : TRUE) \in ImageFormats
      BY ImageFormatsAssumption
    <2>2. NoImage \in SkeletonUsers /\ NoSkeleton \in Skeletons
      BY DEF SkeletonUsers, Skeletons
    <2>3. wanted \in [Instances -> ImageFormats]
      BY <2>1 DEF ImagesInit
    <2>4. made \in [Instances -> [ImageFormats -> SkeletonUsers]]
      BY <2>2 DEF ImagesInit
    <2>5. imageCount \in 0..MaxImages /\ stops \in 0..MaxStops
      BY ImageBoundsAssumption DEF ImagesInit
    <2>6. QED
      BY <2>2, <2>3, <2>4, <2>5 DEF ImagesInit, ImagesTypeOK
  <1>2. ASSUME ImagesTypeOK, [ImagesNext]_imageVars PROVE ImagesTypeOK'
    <2>1. CASE \E i \in Instances, f \in ImageFormats, force \in BOOLEAN :
                  CreateImage(i, f, force)
      BY <1>2, <2>1, CreateTyped
    <2>2. CASE \E i \in Instances :
                  \/ LookSkeleton(i) \/ UnlinkSkeleton(i) \/ OpenSkeleton(i)
                  \/ WriteSkeleton(i)
      BY <1>2, <2>2, SkeletonTypes
    <2>3. CASE \E i \in Instances :
                  MkosiStarts(i) \/ MkosiEnds(i) \/ MkosiFails(i)
      BY <1>2, <2>3, MkosiTypes
    <2>4. CASE \E i \in Instances, f \in ImageFormats,
                  how \in {"success", "failed"} : UseImage(i, f, how)
      <3>1. PICK i \in Instances, f \in ImageFormats,
                 how \in {"success", "failed"} : UseImage(i, f, how)
        BY <2>4
      <3>2. TaskEnds(i, how)
        BY <3>1 DEF UseImage, RunInContainer
      <3>3. QED
        BY <1>2, <3>1, <3>2, TaskEndsTyped DEF UseImage, ImagesTypeOK
    <2>5. CASE \E i \in Instances, f \in ImageFormats,
                  how \in {"success", "failed"}, e \in Environs :
                  \/ CreateEnvironment(i, f, e, how)
                  \/ UseEnvironment(i, f, e, how)
      BY <1>2, <2>5, ContainerTypes
    <2>6. CASE DaemonStops
      <3>1. skeleton' \in Skeletons
        <4>1. CASE skeleton = NoSkeleton
          BY <2>6, <4>1 DEF DaemonStops, NoSkeleton, Skeletons
        <4>2. CASE skeleton # NoSkeleton
          BY <1>2, <2>6, <4>2 DEF DaemonStops, ImagesTypeOK, Skeletons
        <4>3. QED
          BY <4>1, <4>2
      <3>2. stops' \in 0..MaxStops
        BY <1>2, <2>6, ImageBoundsAssumption DEF DaemonStops, ImagesTypeOK
      <3>3. NoImage \in SkeletonUsers
        BY DEF SkeletonUsers
      <3>4. QED
        BY <1>2, <2>6, <3>1, <3>2, <3>3 DEF DaemonStops, ImagesTypeOK
    <2>7. CASE UNCHANGED imageVars
      BY <1>2, <2>7 DEF imageVars, ImagesTypeOK
    <2>8. QED
      BY <1>2, <2>1, <2>2, <2>3, <2>4, <2>5, <2>6, <2>7 DEF ImagesNext
  <1>3. QED
    BY <1>1, <1>2, PTL DEF ImagesSpec

-----------------------------------------------------------------------------
(***************************************************************************)
(* The terminal of the user and that of the command agree, whatever the    *)
(* command writes, however long the reads of the pipes are and however     *)
(* often the size of the window changes.                                   *)
(***************************************************************************)

\* What atexit needs to put a terminal back: the guard is there as long as the
\* mode is raw, and a client that has left is in the mode of the user.
GuardShape ==
    /\ terminal \in {"user", "raw"}
    /\ client \in {"watching", "lost"} => (terminal = "raw" => guard)
    /\ client = "left" => terminal = "user"

\* The size the terminal of the command has when all that was sent is handled.
LastSize == IF input = <<>> THEN ptySize ELSE input[Len(input)]

SizeShape ==
    /\ window \in Nat /\ ptySize \in Nat
    /\ input \in Seq(Nat)
    /\ signals \in Nat
    /\ client = "watching" /\ terminal = "raw" /\ signals = 0 /\ ~missed
          => LastSize = window

TtyIInv == GuardShape /\ SizeShape

LEMMA TtyInitIInv == TtyInit => TtyIInv
  BY DEF TtyInit, TtyIInv, GuardShape, SizeShape, LastSize

(* What is left of the input after its head ends as it did.  *)
LEMMA HeadIsHandled ==
  ASSUME NEW s \in Seq(Nat), s # <<>>
  PROVE  /\ Head(s) \in Nat /\ Tail(s) \in Seq(Nat)
         /\ Tail(s) = <<>> => Head(s) = s[Len(s)]
         /\ Tail(s) # <<>> => Tail(s)[Len(Tail(s))] = s[Len(s)]
  <1>1. /\ Head(s) = s[1] /\ Len(s) \in Nat \ {0}
        /\ Head(s) \in Nat /\ Tail(s) \in Seq(Nat)
        /\ Len(Tail(s)) = Len(s) - 1
        /\ \A i \in 1..Len(Tail(s)) : Tail(s)[i] = s[i + 1]
    OBVIOUS
  <1>2. Tail(s) = <<>> => Len(s) = 1
    <2>1. Len(<<>>) = 0
      OBVIOUS
    <2>2. Tail(s) = <<>> => Len(Tail(s)) = 0
      BY <2>1, Zenon
    <2>3. QED
      BY <1>1, <2>2
  <1>3. Tail(s) # <<>> => Len(Tail(s)) \in 1..Len(Tail(s))
    BY <1>1
  <1>4. QED
    BY <1>1, <1>2, <1>3

(* A size that is sent is the last one.  *)
LEMMA SizeIsSent ==
  ASSUME SizeShape, input' = Append(input, window)
  PROVE  /\ input' \in Seq(Nat)
         /\ LastSize' = window
  <1>1. /\ Append(input, window) \in Seq(Nat)
        /\ Append(input, window) # <<>>
        /\ Append(input, window)[Len(Append(input, window))] = window
    BY DEF SizeShape
  <1>2. QED
    BY <1>1 DEF LastSize

(* The steps that touch neither the sizes nor the client.  *)
LEMMA OthersIInv ==
  ASSUME TtyIInv, UNCHANGED <<sizeVars, ptySize, client, terminal, guard>>
  PROVE  TtyIInv'
  BY DEF TtyIInv, GuardShape, SizeShape, LastSize, sizeVars

(* The client receives a message, and may leave.  *)
LEMMA ReceiveIInv ==
  ASSUME TtyIInv,
         \/ ReceiveRawEnable \/ ReceiveRawDisable \/ ReceiveBytes
         \/ ReceiveLog \/ ReceiveEnd \/ ReceiveGarbage
  PROVE  TtyIInv'
  <1> USE DEF TtyIInv, ClientReceives
  <1>1. CASE ReceiveRawEnable
    <2>1. GuardShape'
      BY <1>1 DEF ReceiveRawEnable, GuardShape
    <2>2. input' \in Seq(Nat) /\ LastSize' = window
      BY <1>1, SizeIsSent DEF ReceiveRawEnable
    <2>3. SizeShape'
      BY <1>1, <2>2
      DEF ReceiveRawEnable, SizeShape, serverVars
    <2>4. QED
      BY <2>1, <2>3
  <1>2. CASE ReceiveRawDisable
    BY <1>2
    DEF ReceiveRawDisable, GuardShape, SizeShape, LastSize, serverVars,
        sizeVars
  <1>3. CASE ReceiveBytes \/ ReceiveLog
    BY <1>3, OthersIInv
    DEF ReceiveBytes, ReceiveLog, serverVars, screenVars
  <1>4. CASE ReceiveEnd
    BY <1>4
    DEF ReceiveEnd, ClientLeaves, GuardShape, SizeShape, LastSize, serverVars,
        sizeVars
  <1>5. CASE ReceiveGarbage
    BY <1>5
    DEF ReceiveGarbage, GuardShape, SizeShape, LastSize, serverVars, sizeVars
  <1>6. QED
    BY <1>1, <1>2, <1>3, <1>4, <1>5

(* The client leaves in another way.  *)
LEMMA LeavingIInv ==
  ASSUME TtyIInv, ClientRaises \/ ClientHangsUp \/ Interrupted \/ ClientKilled
  PROVE  TtyIInv'
  BY DEF ClientRaises, ClientHangsUp, Interrupted, ClientKilled, ClientLeaves,
         TtyIInv, GuardShape, SizeShape, LastSize, serverVars, sizeVars

(* The size of the window changes, and the worker handles it.  *)
LEMMA SizesIInv ==
  ASSUME TtyIInv, ResizePty \/ Resize \/ HandleSignals
  PROVE  TtyIInv'
  <1> USE DEF TtyIInv
  <1>1. CASE ResizePty
    <2>1. GuardShape'
      BY <1>1 DEF ResizePty, GuardShape, screenVars
    <2>2. /\ ptySize' \in Nat /\ input' \in Seq(Nat)
          /\ LastSize' = LastSize
      BY <1>1, HeadIsHandled DEF ResizePty, SizeShape, LastSize
    <2>3. SizeShape'
      BY <1>1, <2>2 DEF ResizePty, SizeShape, screenVars
    <2>4. QED
      BY <2>1, <2>3
  <1>2. CASE Resize
    BY <1>2
    DEF Resize, GuardShape, SizeShape, LastSize, serverVars, screenVars
  <1>3. CASE HandleSignals
    <2>1. GuardShape'
      BY <1>3 DEF HandleSignals, GuardShape, screenVars
    <2>2. CASE signals = 1
      BY <1>3, <2>1, <2>2, SizeIsSent
      DEF HandleSignals, SizeShape, serverVars
    <2>3. CASE signals # 1
      <3>1. /\ UNCHANGED <<input, window, ptySize>>
            /\ signals' = 0
        BY <1>3, <2>3 DEF HandleSignals, serverVars
      <3>2. missed'
        <4>1. signals > 1
          BY <1>3, <2>3 DEF HandleSignals, SizeShape
        <4>2. QED
          BY <1>3, <4>1, Zenon DEF HandleSignals
      <3>3. SizeShape'
        BY <3>1, <3>2 DEF SizeShape
      <3>4. QED
        BY <2>1, <3>3
    <2>4. QED
      BY <2>2, <2>3
  <1>4. QED
    BY <1>1, <1>2, <1>3

LEMMA TtyNextIInv == TtyIInv /\ [TtyNext]_ttyVars => TtyIInv'
  <1> SUFFICES ASSUME TtyIInv, [TtyNext]_ttyVars PROVE TtyIInv'
    OBVIOUS
  <1>1. CASE LogStart \/ RawEnable \/ CopyOutput \/ HangUpDetected
             \/ RawDisable \/ LogEnd \/ ChildWrites \/ ChildExits
    BY <1>1, OthersIInv
    DEF LogStart, RawEnable, CopyOutput, HangUpDetected, RawDisable, LogEnd,
        ChildWrites, ChildExits, screenVars
  <1>2. CASE DispatchLogs \/ DispatchOuts
    BY <1>2, OthersIInv
    DEF DispatchLogs, DispatchOuts, Dispatched, serverVars, screenVars
  <1>3. CASE ReceiveRawEnable \/ ReceiveRawDisable \/ ReceiveBytes
             \/ ReceiveLog \/ ReceiveEnd \/ ReceiveGarbage
    BY <1>3, ReceiveIInv
  <1>4. CASE ClientRaises \/ ClientHangsUp \/ Interrupted \/ ClientKilled
    BY <1>4, LeavingIInv
  <1>5. CASE ResizePty \/ Resize \/ HandleSignals
    BY <1>5, SizesIInv
  <1>6. CASE UNCHANGED ttyVars
    BY <1>6, OthersIInv DEF ttyVars, serverVars, screenVars
  <1>7. QED
    BY <1>1, <1>2, <1>3, <1>4, <1>5, <1>6 DEF TtyNext

LEMMA IInvAgrees == TtyIInv => TerminalsAgree
  BY DEF TtyIInv, GuardShape, SizeShape, LastSize, TerminalsAgree,
         TerminalIsRestored, SizeIsFollowed

(***************************************************************************)
(* The terminal of the user is as it was when a client has left, and the   *)
(* terminal of the command has the size of its window as soon as nothing   *)
(* is on its way (console/client.py:82-216, console/server.py:121-142).    *)
(***************************************************************************)
THEOREM TerminalsAlwaysAgree == TtySpec => []TerminalsAgree
  <1>1. TtyInit => TtyIInv
    BY TtyInitIInv
  <1>2. TtyIInv /\ [TtyNext]_ttyVars => TtyIInv'
    BY TtyNextIInv
  <1>3. TtyIInv => TerminalsAgree
    BY IInvAgrees
  <1>4. QED
    BY <1>1, <1>2, <1>3, PTL DEF TtySpec

-----------------------------------------------------------------------------
(***************************************************************************)
(* What the client shows is what the command wrote, whatever the lengths   *)
(* of the reads.  A message is two halves.  Those of the pipe of what      *)
(* concerns the terminal are numbered as the worker writes them, from 1;   *)
(* the halves in the stream to the client, log records apart, are the ones *)
(* that follow what it received, in order and with no gap.                 *)
(***************************************************************************)

Outputs == {"enable", "bytes", "disable"}

Halves == [kind : Kinds, chunk : Nat, part : {1, 2}]

\* The number of a half, when copied is the number of chunks before disable.
Rank(f, copied) ==
    (IF f.kind = "bytes" THEN 2 * f.chunk
     ELSE IF f.kind = "disable" THEN 2 * copied + 2 ELSE 0) + f.part

\* The halves of s that are no log records follow the first r, up to t.
Follows(s, r, t, copied) ==
    /\ r <= t
    /\ \A i \in 1..Len(s) : s[i].kind \in Outputs =>
          r < Rank(s[i], copied) /\ Rank(s[i], copied) <= t
    /\ \A i, j \in 1..Len(s) :
          i < j /\ s[i].kind \in Outputs /\ s[j].kind \in Outputs
             => Rank(s[i], copied) < Rank(s[j], copied)
    /\ \A k \in Int : r < k /\ k <= t =>
          \E i \in 1..Len(s) :
             s[i].kind \in Outputs /\ Rank(s[i], copied) = k

\* The halves of p are those after the first t.
Numbered(p, t, copied) ==
    \A i \in 1..Len(p) :
        p[i].kind \in Outputs /\ Rank(p[i], copied) = t + i

\* The halves of each message are next to each other.
Paired(s) ==
    \A i \in 1..(Len(s) - 1) :
        IF s[i].part = 1 THEN s[i + 1] = [s[i] EXCEPT !.part = 2]
        ELSE s[i + 1].part = 1

\* p goes on where s ends.
Joins(s, p) ==
    IF s # <<>> /\ s[Len(s)].part = 1
    THEN p[1] = [s[Len(s)] EXCEPT !.part = 2]
    ELSE p[1].part = 1

Starts(s) == s # <<>> => s[1].part = 1
Ends(s) == s # <<>> => s[Len(s)].part = 2

(* Numbers are integers.  *)
LEMMA RankInt ==
  ASSUME NEW f \in Halves, NEW c \in Nat
  PROVE  Rank(f, c) \in Int
  BY DEF Rank, Halves

(* The dispatch thread sends what comes next of the pipe that is numbered.  *)
LEMMA FollowsOuts ==
  ASSUME NEW s \in Seq(Halves), NEW p \in Seq(Halves), NEW c \in Nat,
         NEW r \in Nat, NEW t \in Nat, Follows(s, r, t, c), Numbered(p, t, c)
  PROVE  Follows(s \o p, r, t + Len(p), c)
  <1> DEFINE q == s \o p
  <1>1. /\ Len(s) \in Nat /\ Len(p) \in Nat /\ Len(q) = Len(s) + Len(p)
        /\ \A i \in 1..Len(s) : q[i] = s[i]
        /\ \A i \in 1..Len(p) : q[Len(s) + i] = p[i]
    OBVIOUS
  <1>2. \A i \in 1..Len(q) : i \in 1..Len(s) \/ i - Len(s) \in 1..Len(p)
    BY <1>1
  <1>3. \A i \in 1..Len(q) : i \notin 1..Len(s) =>
            /\ i - Len(s) \in 1..Len(p) /\ q[i] = p[i - Len(s)]
            /\ q[i].kind \in Outputs /\ Rank(q[i], c) = t + i - Len(s)
    <2> SUFFICES ASSUME NEW i \in 1..Len(q), i \notin 1..Len(s)
                 PROVE  /\ i - Len(s) \in 1..Len(p) /\ q[i] = p[i - Len(s)]
                        /\ q[i].kind \in Outputs
                        /\ Rank(q[i], c) = t + i - Len(s)
      OBVIOUS
    <2> DEFINE j == i - Len(s)
    <2>1. j \in 1..Len(p) /\ q[Len(s) + j] = p[j] /\ Len(s) + j = i
      BY <1>1, <1>2
    <2>2. p[j].kind \in Outputs /\ Rank(p[j], c) = t + j
      BY <2>1 DEF Numbered
    <2>3. QED
      BY <1>1, <2>1, <2>2
  <1>4. \A i \in 1..Len(s) : s[i].kind \in Outputs =>
            Rank(s[i], c) \in Int /\ r < Rank(s[i], c) /\ Rank(s[i], c) <= t
    <2>1. \A i \in 1..Len(s) : s[i] \in Halves
      OBVIOUS
    <2>2. QED
      BY <2>1, RankInt DEF Follows
  <1> HIDE DEF q
  <1>5. \A i \in 1..Len(q) : q[i].kind \in Outputs =>
            r < Rank(q[i], c) /\ Rank(q[i], c) <= t + Len(p)
    <2> SUFFICES ASSUME NEW i \in 1..Len(q), q[i].kind \in Outputs
                 PROVE  r < Rank(q[i], c) /\ Rank(q[i], c) <= t + Len(p)
      OBVIOUS
    <2>1. CASE i \in 1..Len(s)
      BY <1>1, <1>4, <2>1
    <2>2. CASE i \notin 1..Len(s)
      BY <1>1, <1>3, <2>2 DEF Follows
    <2>3. QED
      BY <2>1, <2>2
  <1>6. \A i, j \in 1..Len(q) :
            i < j /\ q[i].kind \in Outputs /\ q[j].kind \in Outputs
               => Rank(q[i], c) < Rank(q[j], c)
    <2> SUFFICES ASSUME NEW i \in 1..Len(q), NEW j \in 1..Len(q), i < j,
                        q[i].kind \in Outputs, q[j].kind \in Outputs
                 PROVE  Rank(q[i], c) < Rank(q[j], c)
      OBVIOUS
    <2>1. CASE j \in 1..Len(s)
      <3>1. i \in 1..Len(s) /\ q[i] = s[i] /\ q[j] = s[j]
        BY <1>1, <2>1
      <3>2. QED
        BY <2>1, <3>1 DEF Follows
    <2>2. CASE j \notin 1..Len(s) /\ i \in 1..Len(s)
      <3>1. Rank(q[j], c) = t + j - Len(s) /\ Rank(q[j], c) > t
        BY <1>1, <1>3, <2>2
      <3>2. Rank(q[i], c) <= t /\ Rank(q[i], c) \in Int
        BY <1>1, <1>4, <2>2
      <3>3. QED
        BY <1>1, <3>1, <3>2
    <2>3. CASE j \notin 1..Len(s) /\ i \notin 1..Len(s)
      BY <1>1, <1>3, <2>3
    <2>4. QED
      BY <2>1, <2>2, <2>3
  <1>7. \A k \in Int : r < k /\ k <= t + Len(p) =>
            \E i \in 1..Len(q) : q[i].kind \in Outputs /\ Rank(q[i], c) = k
    <2> SUFFICES ASSUME NEW k \in Int, r < k, k <= t + Len(p)
                 PROVE  \E i \in 1..Len(q) :
                            q[i].kind \in Outputs /\ Rank(q[i], c) = k
      OBVIOUS
    <2>1. CASE k <= t
      <3>1. PICK i \in 1..Len(s) : s[i].kind \in Outputs /\ Rank(s[i], c) = k
        BY <2>1 DEF Follows
      <3>2. i \in 1..Len(q) /\ q[i] = s[i]
        BY <1>1
      <3>3. QED
        BY <3>1, <3>2
    <2>2. CASE k > t
      <3> DEFINE i == Len(s) + (k - t)
      <3>1. i \in 1..Len(q) /\ i \notin 1..Len(s) /\ t + i - Len(s) = k
        BY <1>1, <2>2
      <3>2. QED
        BY <1>3, <3>1
    <2>3. QED
      BY <2>1, <2>2
  <1>8. r <= t + Len(p)
    BY <1>1 DEF Follows
  <1>9. QED
    BY <1>5, <1>6, <1>7, <1>8 DEF Follows, q

(* It sends log records, which are not numbered.  *)
LEMMA FollowsLogs ==
  ASSUME NEW s \in Seq(Halves), NEW p \in Seq(Halves), NEW c \in Nat,
         NEW r \in Nat, NEW t \in Nat, Follows(s, r, t, c),
         \A i \in 1..Len(p) : p[i].kind \notin Outputs
  PROVE  Follows(s \o p, r, t, c)
  <1> DEFINE q == s \o p
  <1>1. /\ Len(s) \in Nat /\ Len(p) \in Nat /\ Len(q) = Len(s) + Len(p)
        /\ \A i \in 1..Len(s) : q[i] = s[i]
        /\ \A i \in 1..Len(p) : q[Len(s) + i] = p[i]
    OBVIOUS
  <1>2. \A i \in 1..Len(s) : i \in 1..Len(q)
    BY <1>1
  <1>3. \A i \in 1..Len(q) : q[i].kind \in Outputs => i \in 1..Len(s)
    <2> SUFFICES ASSUME NEW i \in 1..Len(q), i \notin 1..Len(s)
                 PROVE  q[i].kind \notin Outputs
      OBVIOUS
    <2> DEFINE j == i - Len(s)
    <2>1. j \in 1..Len(p) /\ q[Len(s) + j] = p[j] /\ Len(s) + j = i
      BY <1>1
    <2>2. QED
      BY <2>1
  <1> HIDE DEF q
  <1>4. QED
    BY <1>1, <1>2, <1>3 DEF Follows, q

(* The number of copied chunks matters for disable only.  *)
LEMMA FollowsCopied ==
  ASSUME NEW s \in Seq(Halves), NEW c \in Nat, NEW d \in Nat,
         NEW r \in Nat, NEW t \in Nat, Follows(s, r, t, c),
         \A i \in 1..Len(s) : s[i].kind # "disable"
  PROVE  Follows(s, r, t, d)
  <1>1. \A i \in 1..Len(s) : Rank(s[i], d) = Rank(s[i], c)
    BY DEF Rank
  <1>2. QED
    BY <1>1 DEF Follows

(* What is left when the client has received a message.  *)
LEMMA TailRest ==
  ASSUME NEW s \in Seq(Halves), Len(s) > 1
  PROVE  LET q == SubSeq(s, 3, Len(s))
         IN  /\ q \in Seq(Halves) /\ Len(q) = Len(s) - 2
             /\ \A i \in 1..Len(q) : q[i] = s[i + 2]
             /\ s[1] \in Halves /\ s[2] \in Halves
  OBVIOUS

(* A log record leaves the numbers as they are.  *)
LEMMA FollowsPopLog ==
  ASSUME NEW s \in Seq(Halves), NEW c \in Nat, NEW r \in Nat, NEW t \in Nat,
         Follows(s, r, t, c), Len(s) > 1,
         s[1].kind \notin Outputs, s[2].kind \notin Outputs
  PROVE  Follows(SubSeq(s, 3, Len(s)), r, t, c)
  <1> DEFINE q == SubSeq(s, 3, Len(s))
  <1>1. /\ Len(q) = Len(s) - 2
        /\ \A i \in 1..Len(q) : q[i] = s[i + 2]
    BY TailRest
  <1>2. Len(s) \in Nat
    OBVIOUS
  <1> HIDE DEF q
  <1>3. \A i \in 1..Len(q) : i + 2 \in 1..Len(s) /\ q[i] = s[i + 2]
    BY <1>1, <1>2
  <1>4. \A i \in 1..Len(s) : s[i].kind \in Outputs =>
            i - 2 \in 1..Len(q) /\ q[i - 2] = s[i]
    <2> SUFFICES ASSUME NEW i \in 1..Len(s), s[i].kind \in Outputs
                 PROVE  i - 2 \in 1..Len(q) /\ q[i - 2] = s[i]
      OBVIOUS
    <2>1. i > 2
      BY <1>2
    <2> DEFINE j == i - 2
    <2>2. j \in 1..Len(q) /\ j + 2 = i
      BY <1>1, <1>2, <2>1
    <2>3. q[j] = s[j + 2]
      BY <1>3, <2>2
    <2>4. QED
      BY <2>2, <2>3
  <1>5. /\ r <= t
        /\ \A i \in 1..Len(q) : q[i].kind \in Outputs =>
              r < Rank(q[i], c) /\ Rank(q[i], c) <= t
    BY <1>3 DEF Follows
  <1>6. \A i, j \in 1..Len(q) :
            i < j /\ q[i].kind \in Outputs /\ q[j].kind \in Outputs
               => Rank(q[i], c) < Rank(q[j], c)
    <2> SUFFICES ASSUME NEW i \in 1..Len(q), NEW j \in 1..Len(q), i < j,
                        q[i].kind \in Outputs, q[j].kind \in Outputs
                 PROVE  Rank(q[i], c) < Rank(q[j], c)
      OBVIOUS
    <2>1. /\ i + 2 \in 1..Len(s) /\ j + 2 \in 1..Len(s) /\ i + 2 < j + 2
          /\ q[i] = s[i + 2] /\ q[j] = s[j + 2]
      BY <1>3
    <2>2. QED
      BY <2>1 DEF Follows
  <1>7. \A k \in Int : r < k /\ k <= t =>
            \E i \in 1..Len(q) : q[i].kind \in Outputs /\ Rank(q[i], c) = k
    <2> SUFFICES ASSUME NEW k \in Int, r < k, k <= t
                 PROVE  \E i \in 1..Len(q) :
                            q[i].kind \in Outputs /\ Rank(q[i], c) = k
      OBVIOUS
    <2>1. PICK i \in 1..Len(s) : s[i].kind \in Outputs /\ Rank(s[i], c) = k
      BY DEF Follows
    <2>2. i - 2 \in 1..Len(q) /\ q[i - 2] = s[i]
      BY <1>4, <2>1
    <2>3. QED
      BY <2>1, <2>2
  <1>8. QED
    BY <1>5, <1>6, <1>7 DEF Follows, q

(* A message of the terminal is the next one: none comes before it.  *)
LEMMA FollowsPop ==
  ASSUME NEW s \in Seq(Halves), NEW c \in Nat, NEW r \in Nat, NEW t \in Nat,
         Follows(s, r, t, c), Len(s) > 1, s[1].kind \in Outputs,
         s[1].part = 1, s[2] = [s[1] EXCEPT !.part = 2]
  PROVE  /\ Rank(s[1], c) = r + 1
         /\ r + 2 <= t
         /\ Follows(SubSeq(s, 3, Len(s)), r + 2, t, c)
  <1> DEFINE q == SubSeq(s, 3, Len(s))
  <1>1. /\ Len(q) = Len(s) - 2 /\ Len(s) \in Nat
        /\ \A i \in 1..Len(q) : q[i] = s[i + 2]
        /\ s[1] \in Halves /\ s[2] \in Halves
    BY TailRest
  <1> HIDE DEF q
  <1>2. /\ s[2].kind = s[1].kind /\ s[2].chunk = s[1].chunk /\ s[2].part = 2
        /\ Rank(s[2], c) = Rank(s[1], c) + 1
    BY <1>1 DEF Halves, Rank
  <1>3. \A i \in 1..Len(s) : s[i].kind \in Outputs =>
            Rank(s[i], c) \in Int /\ r < Rank(s[i], c) /\ Rank(s[i], c) <= t
    <2>1. \A i \in 1..Len(s) : s[i] \in Halves
      OBVIOUS
    <2>2. QED
      BY <2>1, RankInt DEF Follows
  <1>4. \A i \in 1..Len(s) : 1 < i /\ s[i].kind \in Outputs =>
            Rank(s[1], c) < Rank(s[i], c)
    BY <1>1 DEF Follows
  <1>5. 1 \in 1..Len(s) /\ 2 \in 1..Len(s)
    BY <1>1
  <1>6. Rank(s[1], c) = r + 1
    <2>1. /\ Rank(s[1], c) \in Int /\ r < Rank(s[1], c)
          /\ Rank(s[1], c) <= t
      BY <1>3, <1>5
    <2>2. r + 1 \in Int /\ r < r + 1 /\ r + 1 <= t
      BY <2>1
    <2>3. \A k \in Int : r < k /\ k <= t =>
              \E i \in 1..Len(s) :
                  s[i].kind \in Outputs /\ Rank(s[i], c) = k
      BY DEF Follows
    <2>4. PICK i \in 1..Len(s) : s[i].kind \in Outputs /\ Rank(s[i], c) = r + 1
      BY <2>2, <2>3, Zenon
    <2>5. i > 1 => Rank(s[1], c) < r + 1
      BY <1>4, <2>4
    <2>6. QED
      BY <2>1, <2>4, <2>5
  <1>7. Rank(s[2], c) = r + 2 /\ r + 2 <= t
    <2>1. Rank(s[2], c) = r + 2
      BY <1>2, <1>6
    <2>2. s[2].kind \in Outputs
      BY <1>2
    <2>3. Rank(s[2], c) <= t
      BY <1>3, <1>5, <2>2
    <2>4. QED
      BY <2>1, <2>3
  <1>8. \A i \in 1..Len(q) : i + 2 \in 1..Len(s) /\ q[i] = s[i + 2]
    BY <1>1
  <1>9. \A i \in 1..Len(q) : q[i].kind \in Outputs =>
            r + 2 < Rank(q[i], c) /\ Rank(q[i], c) <= t
    <2> SUFFICES ASSUME NEW i \in 1..Len(q), q[i].kind \in Outputs
                 PROVE  r + 2 < Rank(q[i], c) /\ Rank(q[i], c) <= t
      OBVIOUS
    <2>1. i + 2 \in 1..Len(s) /\ q[i] = s[i + 2] /\ 2 < i + 2
      BY <1>8
    <2>2. Rank(s[2], c) < Rank(s[i + 2], c)
      BY <1>2, <1>5, <2>1 DEF Follows
    <2>3. QED
      BY <1>3, <1>7, <2>1, <2>2
  <1>10. \A i, j \in 1..Len(q) :
            i < j /\ q[i].kind \in Outputs /\ q[j].kind \in Outputs
               => Rank(q[i], c) < Rank(q[j], c)
    <2> SUFFICES ASSUME NEW i \in 1..Len(q), NEW j \in 1..Len(q), i < j,
                        q[i].kind \in Outputs, q[j].kind \in Outputs
                 PROVE  Rank(q[i], c) < Rank(q[j], c)
      OBVIOUS
    <2>1. /\ i + 2 \in 1..Len(s) /\ j + 2 \in 1..Len(s) /\ i + 2 < j + 2
          /\ q[i] = s[i + 2] /\ q[j] = s[j + 2]
      BY <1>8
    <2>2. QED
      BY <2>1 DEF Follows
  <1>11. \A k \in Int : r + 2 < k /\ k <= t =>
            \E i \in 1..Len(q) : q[i].kind \in Outputs /\ Rank(q[i], c) = k
    <2> SUFFICES ASSUME NEW k \in Int, r + 2 < k, k <= t
                 PROVE  \E i \in 1..Len(q) :
                            q[i].kind \in Outputs /\ Rank(q[i], c) = k
      OBVIOUS
    <2>1. PICK i \in 1..Len(s) : s[i].kind \in Outputs /\ Rank(s[i], c) = k
      BY DEF Follows
    <2>2. i # 1 /\ i # 2
      BY <1>6, <1>7, <2>1
    <2> DEFINE j == i - 2
    <2>3. j \in 1..Len(q) /\ j + 2 = i
      BY <1>1, <2>2
    <2>4. q[j] = s[i]
      BY <1>8, <2>3
    <2>5. QED
      BY <2>1, <2>3, <2>4
  <1>12. QED
    BY <1>6, <1>7, <1>9, <1>10, <1>11 DEF Follows, q

(* The parts of a sequence of messages, and two that are put together.  *)
LEMMA PairedPart ==
  ASSUME NEW s \in Seq(Halves), Paired(s), NEW a \in 1..(Len(s) + 1),
         NEW b \in 0..Len(s)
  PROVE  Paired(SubSeq(s, a, b))
  <1> DEFINE q == SubSeq(s, a, b)
  <1>1. /\ Len(s) \in Nat /\ Len(q) \in Nat
        /\ Len(q) <= IF a <= b THEN b - a + 1 ELSE 0
        /\ \A i \in 1..Len(q) : q[i] = s[i + a - 1]
    OBVIOUS
  <1> HIDE DEF q
  <1>2. SUFFICES ASSUME NEW i \in 1..(Len(q) - 1)
                 PROVE  IF q[i].part = 1
                        THEN q[i + 1] = [q[i] EXCEPT !.part = 2]
                        ELSE q[i + 1].part = 1
    BY DEF Paired, q
  <1>3. /\ i \in 1..Len(q) /\ i + 1 \in 1..Len(q)
        /\ i + a - 1 \in 1..(Len(s) - 1)
    BY <1>1
  <1>4. q[i] = s[i + a - 1] /\ q[i + 1] = s[i + a - 1 + 1]
    BY <1>1, <1>3
  <1>5. QED
    BY <1>3, <1>4 DEF Paired

LEMMA PairedConcat ==
  ASSUME NEW s \in Seq(Halves), NEW p \in Seq(Halves), Paired(s), Paired(p),
         p # <<>> => Joins(s, p)
  PROVE  Paired(s \o p)
  <1> DEFINE q == s \o p
  <1>1. /\ Len(s) \in Nat /\ Len(p) \in Nat /\ Len(q) = Len(s) + Len(p)
        /\ \A i \in 1..Len(s) : q[i] = s[i]
        /\ \A i \in 1..Len(p) : q[Len(s) + i] = p[i]
    OBVIOUS
  <1>2. Len(s) # 0 => s # <<>>
    OBVIOUS
  <1>3. Len(p) # 0 => p # <<>>
    OBVIOUS
  <1> HIDE DEF q
  <1>4. SUFFICES ASSUME NEW i \in 1..(Len(q) - 1)
                 PROVE  IF q[i].part = 1
                        THEN q[i + 1] = [q[i] EXCEPT !.part = 2]
                        ELSE q[i + 1].part = 1
    BY DEF Paired, q
  <1>5. CASE i < Len(s)
    <2>1. /\ i \in 1..(Len(s) - 1) /\ q[i] = s[i] /\ q[i + 1] = s[i + 1]
      BY <1>1, <1>5
    <2>2. QED
      BY <2>1 DEF Paired
  <1>6. CASE i = Len(s)
    <2>1. 1 \in 1..Len(p) /\ i \in 1..Len(s)
      BY <1>1, <1>6
    <2>2. q[i] = s[Len(s)] /\ q[i + 1] = p[1] /\ s # <<>> /\ p # <<>>
      BY <1>1, <1>2, <1>3, <1>6, <2>1
    <2>3. QED
      BY <2>2 DEF Joins
  <1>7. CASE i > Len(s)
    <2> DEFINE j == i - Len(s)
    <2>1. /\ j \in 1..(Len(p) - 1) /\ j \in 1..Len(p) /\ j + 1 \in 1..Len(p)
          /\ Len(s) + j = i /\ Len(s) + (j + 1) = i + 1
      <3>1. i \in Int /\ i >= 1 /\ i <= Len(s) + Len(p) - 1
        BY <1>1
      <3>2. Len(s) \in Nat /\ Len(p) \in Nat
        OBVIOUS
      <3>3. QED
        BY ONLY <1>7, <3>1, <3>2
    <2>2. q[i] = p[j] /\ q[i + 1] = p[j + 1]
      BY <1>1, <2>1
    <2>3. QED
      BY <2>1, <2>2 DEF Paired
  <1>8. QED
    BY <1>1, <1>5, <1>6, <1>7

(* A message, and a pipe it is written in.  *)
LEMMA MessageHalves ==
  ASSUME NEW kind \in Kinds, NEW chunk \in Nat
  PROVE  LET m == Message(kind, chunk)
         IN  /\ m \in Seq(Halves) /\ Len(m) = 2 /\ m # <<>>
             /\ m[1] = [kind |-> kind, chunk |-> chunk, part |-> 1]
             /\ m[2] = [kind |-> kind, chunk |-> chunk, part |-> 2]
             /\ Paired(m)
  <1> DEFINE m == Message(kind, chunk)
  <1>1. m = [i \in 1..2 |-> [kind |-> kind, chunk |-> chunk, part |-> i]]
    BY DEF Message
  <1>2. \A i \in 1..2 : [kind |-> kind, chunk |-> chunk, part |-> i] \in Halves
    BY DEF Halves
  <1>3. m \in Seq(Halves) /\ Len(m) = 2
    BY <1>1, <1>2
  <1>4. /\ m[1] = [kind |-> kind, chunk |-> chunk, part |-> 1]
        /\ m[2] = [kind |-> kind, chunk |-> chunk, part |-> 2]
    BY <1>1
  <1> HIDE DEF m
  <1>5. m # <<>>
    BY <1>3
  <1>6. Paired(m)
    BY <1>3, <1>4 DEF Paired
  <1>7. QED
    BY <1>3, <1>4, <1>5, <1>6 DEF m

LEMMA ConcatParts ==
  ASSUME NEW p \in Seq(Halves), NEW m \in Seq(Halves)
  PROVE  LET q == p \o m
         IN  /\ q \in Seq(Halves) /\ Len(q) = Len(p) + Len(m)
             /\ Len(p) \in Nat /\ Len(m) \in Nat
             /\ \A i \in 1..Len(p) : q[i] = p[i]
             /\ \A i \in 1..Len(m) : q[Len(p) + i] = m[i]
  OBVIOUS

LEMMA WrittenIsWhole ==
  ASSUME NEW p \in Seq(Halves), Paired(p), Ends(p),
         NEW kind \in Kinds, NEW chunk \in Nat
  PROVE  LET q == p \o Message(kind, chunk)
         IN  /\ q \in Seq(Halves) /\ q # <<>> /\ Len(q) = Len(p) + 2
             /\ \A i \in 1..Len(p) : q[i] = p[i]
             /\ q[Len(p) + 1] = [kind |-> kind, chunk |-> chunk, part |-> 1]
             /\ q[Len(p) + 2] = [kind |-> kind, chunk |-> chunk, part |-> 2]
             /\ Paired(q) /\ Ends(q)
             /\ p # <<>> => q[1] = p[1]
             /\ Starts(p) => Starts(q)
  <1> DEFINE m == Message(kind, chunk)
             q == p \o m
  <1>1. /\ m \in Seq(Halves) /\ Len(m) = 2 /\ m # <<>>
        /\ m[1] = [kind |-> kind, chunk |-> chunk, part |-> 1]
        /\ m[2] = [kind |-> kind, chunk |-> chunk, part |-> 2]
        /\ Paired(m)
    BY MessageHalves
  <1> HIDE DEF m
  <1>2. /\ q \in Seq(Halves) /\ Len(q) = Len(p) + 2 /\ Len(p) \in Nat
        /\ \A i \in 1..Len(p) : q[i] = p[i]
        /\ q[Len(p) + 1] = m[1] /\ q[Len(p) + 2] = m[2]
    <2>1. /\ q \in Seq(Halves) /\ Len(q) = Len(p) + Len(m) /\ Len(p) \in Nat
          /\ \A i \in 1..Len(p) : q[i] = p[i]
          /\ \A i \in 1..Len(m) : q[Len(p) + i] = m[i]
      BY <1>1, ConcatParts
    <2>2. 1 \in 1..Len(m) /\ 2 \in 1..Len(m)
      BY <1>1
    <2> HIDE DEF q
    <2>3. QED
      BY <1>1, <2>1, <2>2
  <1>3. Paired(q)
    <2>1. p # <<>> => p[Len(p)] \in Halves /\ p[Len(p)].part # 1
      BY DEF Ends
    <2>2. Joins(p, m)
      BY <1>1, <2>1 DEF Joins
    <2>3. QED
      BY <1>1, <2>2, PairedConcat
  <1>4. p # <<>> => 1 \in 1..Len(p)
    OBVIOUS
  <1>5. p = <<>> => Len(p) + 1 = 1
    OBVIOUS
  <1> HIDE DEF q
  <1>6. q # <<>> /\ q[Len(q)].part = 2
    BY <1>1, <1>2
  <1>7. p # <<>> => q[1] = p[1]
    BY <1>2, <1>4
  <1>8. Starts(p) => q[1].part = 1
    BY <1>1, <1>2, <1>5, <1>7 DEF Starts
  <1>9. QED
    BY <1>1, <1>2, <1>3, <1>6, <1>7, <1>8 DEF Starts, Ends, m, q

(* The client receives a whole message: what is left is as it was.  *)
LEMMA ReceivedIsWhole ==
  ASSUME NEW s \in Seq(Halves), Paired(s), Len(s) > 1,
         s[1].part = 1, s[2] = [s[1] EXCEPT !.part = 2]
  PROVE  LET q == SubSeq(s, 3, Len(s))
         IN  /\ Paired(q) /\ Starts(q)
             /\ Ends(s) => Ends(q)
             /\ s[Len(s)].part = 1 => q # <<>> /\ q[Len(q)] = s[Len(s)]
  <1> DEFINE q == SubSeq(s, 3, Len(s))
  <1>1. /\ q \in Seq(Halves) /\ Len(q) = Len(s) - 2 /\ Len(s) \in Nat
        /\ \A i \in 1..Len(q) : q[i] = s[i + 2]
        /\ s[1] \in Halves
    BY TailRest
  <1>2. Paired(q)
    <2>1. 3 \in 1..(Len(s) + 1) /\ Len(s) \in 0..Len(s)
      BY <1>1
    <2>2. QED
      BY <2>1, PairedPart
  <1>3. s # <<>>
    OBVIOUS
  <1> HIDE DEF q
  <1>4. q # <<>> => 1 \in 1..Len(q) /\ Len(q) \in 1..Len(q)
    BY <1>1
  <1>5. Len(q) = 0 => Len(s) = 2
    BY <1>1
  <1>6. q # <<>> => q[1] = s[3] /\ q[Len(q)] = s[Len(s)] /\ Len(s) > 2
    BY <1>1, <1>4
  <1>7. s[2].part = 2
    BY <1>1 DEF Halves
  <1>8. Starts(q)
    <2>1. q # <<>> => 2 \in 1..(Len(s) - 1) /\ s[2 + 1] = s[3]
      BY <1>1, <1>6
    <2>2. q # <<>> => s[3].part = 1
      BY <1>7, <2>1 DEF Paired
    <2>3. QED
      BY <1>6, <2>2 DEF Starts
  <1>9. Ends(s) => Ends(q)
    BY <1>3, <1>6 DEF Ends
  <1>10. q = <<>> => s[Len(s)].part = 2
    BY <1>5, <1>7
  <1>11. QED
    BY <1>2, <1>6, <1>8, <1>9, <1>10 DEF q

(* The dispatch thread reads n halves of a pipe and sends them.  *)
LEMMA ReadParts ==
  ASSUME NEW p \in Seq(Halves), NEW n \in 1..Len(p)
  PROVE  /\ SubSeq(p, 1, n) \in Seq(Halves) /\ Len(SubSeq(p, 1, n)) = n
         /\ \A i \in 1..n : SubSeq(p, 1, n)[i] = p[i]
         /\ SubSeq(p, n + 1, Len(p)) \in Seq(Halves)
         /\ Len(SubSeq(p, n + 1, Len(p))) = Len(p) - n
         /\ \A i \in 1..(Len(p) - n) : SubSeq(p, n + 1, Len(p))[i] = p[n + i]
         /\ Len(p) \in Nat /\ n \in Nat
  OBVIOUS

LEMMA SentIsWhole ==
  ASSUME NEW s \in Seq(Halves), NEW p \in Seq(Halves), NEW n \in 1..Len(p),
         Paired(s), Paired(p), Ends(p), Starts(s), Joins(s, p)
  PROVE  LET q == s \o SubSeq(p, 1, n)
             rest == SubSeq(p, n + 1, Len(p))
         IN  /\ Paired(q) /\ Starts(q) /\ q # <<>> /\ q[Len(q)] = p[n]
             /\ Paired(rest)
             /\ p[n].part = 1 =>
                   rest # <<>> /\ rest[1] = [p[n] EXCEPT !.part = 2]
             /\ p[n].part # 1 => Starts(rest) /\ p[n].part = 2
  <1> DEFINE pre == SubSeq(p, 1, n)
             q == s \o pre
             rest == SubSeq(p, n + 1, Len(p))
  <1>1. /\ pre \in Seq(Halves) /\ Len(pre) = n
        /\ \A i \in 1..n : pre[i] = p[i]
        /\ rest \in Seq(Halves) /\ Len(rest) = Len(p) - n
        /\ \A i \in 1..(Len(p) - n) : rest[i] = p[n + i]
        /\ Len(p) \in Nat /\ n \in Nat
    BY ReadParts
  <1>2. Paired(pre) /\ Paired(rest)
    <2>1. /\ 1 \in 1..(Len(p) + 1) /\ n + 1 \in 1..(Len(p) + 1)
          /\ n \in 0..Len(p) /\ Len(p) \in 0..Len(p)
      BY <1>1
    <2>2. QED
      BY <2>1, PairedPart
  <1> HIDE DEF pre, rest
  <1>3. pre[1] = p[1] /\ pre[n] = p[n] /\ pre # <<>>
    <2>1. 1 \in 1..n /\ n \in 1..n
      BY <1>1
    <2>2. QED
      BY <1>1, <2>1
  <1>4. Paired(q)
    <2>1. Joins(s, pre)
      BY <1>3 DEF Joins
    <2>2. QED
      BY <1>1, <1>2, <2>1, PairedConcat
  <1>5. /\ Len(s) \in Nat /\ Len(q) = Len(s) + n
        /\ \A i \in 1..Len(s) : q[i] = s[i]
        /\ \A i \in 1..n : q[Len(s) + i] = pre[i]
    BY <1>1, ConcatParts
  <1>6. s # <<>> => 1 \in 1..Len(s)
    OBVIOUS
  <1>7. s = <<>> => Len(s) + 1 = 1
    OBVIOUS
  <1>8. q # <<>>
    BY <1>1, <1>5
  <1> HIDE DEF q
  <1>9. q[Len(q)] = p[n]
    BY <1>1, <1>3, <1>5
  <1>10. q[1].part = 1
    <2>1. CASE s = <<>>
      <3>1. q[1] = pre[1]
        <4>1. 1 \in 1..n
          BY <1>1
        <4>2. q[Len(s) + 1] = pre[1]
          BY <1>5, <4>1
        <4>3. QED
          BY <1>7, <2>1, <4>2
      <3>2. QED
        BY <1>3, <2>1, <3>1 DEF Joins
    <2>2. CASE s # <<>>
      BY <1>5, <1>6, <2>2 DEF Starts
    <2>3. QED
      BY <2>1, <2>2
  <1>11. p # <<>> /\ p[n] \in Halves
    BY <1>1
  <1>12. n < Len(p) => rest # <<>> /\ rest[1] = p[n + 1]
    BY <1>1
  <1>13. n = Len(p) => p[n].part = 2 /\ rest = <<>>
    BY <1>1, <1>11 DEF Ends
  <1>14. n < Len(p) => n \in 1..(Len(p) - 1)
    BY <1>1
  <1>15. p[n].part = 1 => rest # <<>> /\ rest[1] = [p[n] EXCEPT !.part = 2]
    BY <1>1, <1>12, <1>13, <1>14 DEF Paired
  <1>16. p[n].part # 1 => Starts(rest) /\ p[n].part = 2
    <2>1. p[n].part # 1 => p[n].part = 2
      BY <1>11 DEF Halves
    <2>2. p[n].part # 1 /\ n < Len(p) => rest[1].part = 1
      BY <1>12, <1>14 DEF Paired
    <2>3. QED
      BY <1>1, <1>13, <2>1, <2>2 DEF Starts
  <1>17. QED
    BY <1>2, <1>4, <1>8, <1>9, <1>10, <1>15, <1>16 DEF Starts, q, pre, rest

(* A read returns something, and no more than there is.  *)
LEMMA ReadsSome ==
  ASSUME NEW p \in Seq(Halves), p # <<>>
  PROVE  ReadLength(p) \in 1..Len(p)
  <1>1. Len(p) \in Nat /\ Len(p) # 0
    OBVIOUS
  <1>2. TtyReadSize \in Nat /\ TtyReadSize # 0
    BY TtyBoundsAssumption
  <1> DEFINE S == {TtyReadSize, Len(p)}
  <1>3. \E x \in S : \A y \in S : x <= y
    <2>1. CASE TtyReadSize <= Len(p)
      BY <1>1, <1>2, <2>1
    <2>2. CASE Len(p) <= TtyReadSize
      BY <1>1, <1>2, <2>2
    <2>3. QED
      BY <1>1, <1>2, <2>1, <2>2
  <1>4. ReadLength(p) \in S /\ \A y \in S : ReadLength(p) <= y
    BY <1>3 DEF ReadLength, Min
  <1>5. QED
    BY <1>1, <1>2, <1>4

-----------------------------------------------------------------------------

Copied == written - Len(pty)

Begun == server \notin {"start", "enable"}
Ended == server \in {"end", "over"}

\* The numbers of the last half that is written, and that is sent.
Top ==
    IF Ended THEN 2 * Copied + 4 ELSE IF Begun THEN 2 * Copied + 2 ELSE 0

Sent == Top - Len(outs)

\* What a half says of what was done before it was written.
Sane(s) ==
    \A i \in 1..Len(s) :
        /\ s[i].kind = "bytes" => s[i].chunk # 0
        /\ s[i].kind = "disable" => Ended

PtyShape ==
    /\ written \in Nat /\ pty \in Seq(Nat) /\ Len(pty) <= written
    /\ \A i \in 1..Len(pty) : pty[i] = Copied + i
    /\ ~Begun => Copied = 0

OutsShape ==
    /\ outs \in Seq(Halves) /\ Sane(outs)
    /\ Len(outs) <= Top
    /\ Numbered(outs, Sent, Copied)

LogsShape ==
    /\ logs \in Seq(Halves)
    /\ \A i \in 1..Len(logs) : logs[i].kind \notin Outputs

\* Before enable, between enable and disable, after disable.
StreamShape ==
    client = "watching" =>
        /\ stream \in Seq(Halves) /\ Sane(stream)
        /\ \/ /\ terminal = "user" /\ shown = <<>>
              /\ Follows(stream, 0, Sent, Copied)
           \/ /\ terminal = "raw" /\ Begun
              /\ Follows(stream, 2 * Len(shown) + 2, Sent, Copied)
           \/ /\ terminal = "user" /\ Ended
              /\ Follows(stream, Top, Sent, Copied)

ShownShape ==
    /\ shown \in Seq([chunk : Nat, mode : {"user", "raw"}])
    /\ \A i \in 1..Len(shown) : shown[i] = [chunk |-> i, mode |-> "raw"]

\* The first half is in the stream, the second one still in the pipe.
Cuts(pipe) ==
    /\ stream # <<>> /\ pipe # <<>>
    /\ stream[Len(stream)].part = 1
    /\ pipe[1] = [stream[Len(stream)] EXCEPT !.part = 2]

\* A message that is cut is completed before another one is sent, as long as
\* no other pipe was read in between.
ThreadShape ==
    client = "watching" /\ ~mixed =>
        /\ Paired(stream) /\ Starts(stream)
        /\ IF cut = "logs" THEN Cuts(logs) ELSE Starts(logs)
        /\ IF cut = "outs" THEN Cuts(outs) ELSE Starts(outs)
        /\ cut = "none" => Ends(stream)

CutShape ==
    /\ cut \in {"none", "logs", "outs"}
    /\ Paired(logs) /\ Ends(logs) /\ Paired(outs) /\ Ends(outs)
    /\ client = "lost" => mixed

ScreenInv ==
    /\ PtyShape /\ OutsShape /\ LogsShape /\ StreamShape /\ ShownShape
    /\ ThreadShape /\ CutShape

LEMMA ScreenInit == TtyInit => ScreenInv
  <1> SUFFICES ASSUME TtyInit PROVE ScreenInv
    OBVIOUS
  <1> USE DEF TtyInit
  <1>1. Len(<<>>) = 0 /\ <<>> \in Seq(Nat) /\ <<>> \in Seq(Halves)
    OBVIOUS
  <1>2. PtyShape /\ Copied = 0 /\ ~Begun /\ ~Ended /\ Top = 0 /\ Sent = 0
    <2>1. ~Begun /\ ~Ended /\ Copied = 0
      <3>1. ~Begun /\ ~Ended
        BY DEF Begun, Ended
      <3>2. written = 0 /\ Len(pty) = 0
        BY <1>1
      <3>3. QED
        BY ONLY <3>1, <3>2 DEF Copied
    <2>2. PtyShape
      BY <1>1, <2>1 DEF PtyShape
    <2>3. Top = 0 /\ Sent = 0
      BY <1>1, <2>1 DEF Top, Sent
    <2>4. QED
      BY <2>1, <2>2, <2>3
  <1>3. OutsShape /\ LogsShape
    BY <1>1, <1>2 DEF OutsShape, LogsShape, Sane, Numbered
  <1>4. StreamShape
    BY <1>1, <1>2 DEF StreamShape, Sane, Follows
  <1>5. ShownShape
    BY DEF ShownShape
  <1>6. ThreadShape /\ CutShape
    BY <1>1 DEF ThreadShape, CutShape, Paired, Starts, Ends
  <1>7. QED
    BY <1>2, <1>3, <1>4, <1>5, <1>6 DEF ScreenInv

(* The counts are numbers.  *)
LEMMA Counts ==
  ASSUME ScreenInv
  PROVE  Copied \in Nat /\ Top \in Nat /\ Sent \in Nat
  <1>1. Copied \in Nat
    BY DEF ScreenInv, PtyShape, Copied
  <1>2. Top \in Nat
    BY <1>1 DEF Top
  <1>3. Sent \in Nat
    <2>1. Len(outs) \in Nat
      BY DEF ScreenInv, OutsShape
    <2>2. QED
      BY <1>2, <2>1 DEF ScreenInv, OutsShape, Sent
  <1>4. QED
    BY <1>1, <1>2, <1>3

(* The worker does something else than to write in the pipes.  *)
LEMMA QuietScreen ==
  ASSUME ScreenInv, PtyShape',
         Copied' = Copied, Begun' = Begun, Ended' = Ended,
         UNCHANGED <<pipesVars, stream, screenVars>>
  PROVE  ScreenInv'
  <1> USE DEF ScreenInv, pipesVars, screenVars
  <1>1. Top' = Top /\ Sent' = Sent
    BY DEF Top, Sent
  <1>2. OutsShape' /\ LogsShape'
    BY <1>1 DEF OutsShape, LogsShape, Sane
  <1>3. StreamShape' /\ ShownShape'
    BY <1>1 DEF StreamShape, ShownShape, Sane
  <1>4. ThreadShape' /\ CutShape'
    BY DEF ThreadShape, CutShape, Cuts
  <1>5. QED
    BY <1>2, <1>3, <1>4

(* The command writes; a read of the terminal takes what it wrote first.  *)
LEMMA ChildWritesPty ==
  ASSUME PtyShape, written' = written + 1, pty' = Append(pty, written + 1),
         server' = server
  PROVE  PtyShape' /\ Copied' = Copied
  <1>1. /\ pty' \in Seq(Nat) /\ Len(pty') = Len(pty) + 1 /\ Len(pty) \in Nat
        /\ \A i \in 1..Len(pty) : pty'[i] = pty[i]
        /\ pty'[Len(pty) + 1] = written + 1
    BY DEF PtyShape
  <1>2. Copied' = Copied /\ Copied + Len(pty') = written + 1 /\ Copied \in Int
    BY <1>1 DEF PtyShape, Copied
  <1>3. \A i \in 1..Len(pty') : pty'[i] = Copied + i
    <2> SUFFICES ASSUME NEW i \in 1..Len(pty') PROVE pty'[i] = Copied + i
      OBVIOUS
    <2>1. CASE i \in 1..Len(pty)
      BY <1>1, <2>1 DEF PtyShape
    <2>2. CASE i = Len(pty) + 1
      BY <1>1, <1>2, <2>2
    <2>3. QED
      BY <1>1, <2>1, <2>2
  <1>4. QED
    BY <1>1, <1>2, <1>3 DEF PtyShape, Begun

LEMMA CopyTakesNext ==
  ASSUME PtyShape, pty # <<>>, pty' = Tail(pty), written' = written,
         server' = server, Begun
  PROVE  PtyShape' /\ Copied' = Copied + 1 /\ Head(pty) = Copied + 1
  <1>1. /\ pty' \in Seq(Nat) /\ Len(pty') = Len(pty) - 1
        /\ Len(pty) \in Nat \ {0} /\ Head(pty) = pty[1]
        /\ \A i \in 1..Len(pty') : pty'[i] = pty[i + 1] /\ i + 1 \in 1..Len(pty)
    BY DEF PtyShape
  <1>2. Copied' = Copied + 1 /\ Copied \in Int
    BY <1>1 DEF PtyShape, Copied
  <1>3. Head(pty) = Copied + 1
    BY <1>1 DEF PtyShape
  <1>4. \A i \in 1..Len(pty') : pty'[i] = Copied' + i
    BY <1>1, <1>2 DEF PtyShape
  <1>5. QED
    BY <1>1, <1>2, <1>3, <1>4 DEF PtyShape, Begun

(* The worker writes a message in the pipe that is numbered.  *)
LEMMA WritesOuts ==
  ASSUME ScreenInv, PtyShape', ~Ended,
         NEW kind \in Outputs, NEW chunk \in Nat,
         outs' = outs \o Message(kind, chunk), Top' = Top + 2,
         Rank([kind |-> kind, chunk |-> chunk, part |-> 1], Copied') = Top + 1,
         Rank([kind |-> kind, chunk |-> chunk, part |-> 2], Copied') = Top + 2,
         kind = "bytes" => chunk # 0, kind = "disable" => Ended',
         Begun => Begun',
         UNCHANGED <<logs, cut, mixed, stream, screenVars>>
  PROVE  ScreenInv'
  <1> USE DEF ScreenInv
  <1>1. /\ Copied \in Nat /\ Top \in Nat /\ Sent \in Nat
        /\ Copied' \in Nat
    BY Counts DEF PtyShape, Copied
  <1>2. kind \in Kinds
    BY DEF Outputs, Kinds
  <1>3. /\ outs' \in Seq(Halves) /\ outs' # <<>> /\ Len(outs') = Len(outs) + 2
        /\ \A i \in 1..Len(outs) : outs'[i] = outs[i]
        /\ outs'[Len(outs) + 1] = [kind |-> kind, chunk |-> chunk, part |-> 1]
        /\ outs'[Len(outs) + 2] = [kind |-> kind, chunk |-> chunk, part |-> 2]
        /\ Paired(outs') /\ Ends(outs')
        /\ outs # <<>> => outs'[1] = outs[1]
        /\ Starts(outs) => Starts(outs')
    BY <1>2, WrittenIsWhole DEF OutsShape, CutShape
  <1>4. Len(outs) \in Nat
    BY DEF OutsShape
  <1>5. Sent' = Sent
    BY <1>1, <1>3, <1>4 DEF Sent
  <1>6. \A i \in 1..Len(outs') :
            i \in 1..Len(outs) \/ i = Len(outs) + 1 \/ i = Len(outs) + 2
    <2>1. Len(outs') = Len(outs) + 2
      BY <1>3
    <2>2. QED
      BY ONLY <1>4, <2>1
  <1>7. Numbered(outs', Sent', Copied')
    <2> SUFFICES ASSUME NEW i \in 1..Len(outs')
                 PROVE  /\ outs'[i].kind \in Outputs
                        /\ Rank(outs'[i], Copied') = Sent + i
      BY <1>5 DEF Numbered
    <2>1. CASE i \in 1..Len(outs)
      <3>1. outs'[i] = outs[i] /\ outs[i].kind # "disable"
        BY <1>3, <2>1 DEF OutsShape, Sane
      <3>2. outs[i].kind \in Outputs /\ Rank(outs[i], Copied) = Sent + i
        BY <2>1 DEF OutsShape, Numbered
      <3>3. Rank(outs[i], Copied') = Rank(outs[i], Copied)
        BY <3>1 DEF Rank
      <3>4. QED
        BY <3>1, <3>2, <3>3
    <2>2. CASE i = Len(outs) + 1
      BY <1>1, <1>3, <1>4, <2>2 DEF Sent
    <2>3. CASE i = Len(outs) + 2
      BY <1>1, <1>3, <1>4, <2>3 DEF Sent
    <2>4. QED
      BY <1>6, <2>1, <2>2, <2>3
  <1>8. Sane(outs)'
    <2> SUFFICES ASSUME NEW i \in 1..Len(outs')
                 PROVE  /\ outs'[i].kind = "bytes" => outs'[i].chunk # 0
                        /\ outs'[i].kind = "disable" => Ended'
      BY DEF Sane
    <2>1. CASE i \in 1..Len(outs)
      <3>1. outs'[i] = outs[i]
        BY <1>3, <2>1
      <3>2. QED
        BY <2>1, <3>1 DEF OutsShape, Sane
    <2>2. CASE i = Len(outs) + 1 \/ i = Len(outs) + 2
      BY <1>3, <2>2
    <2>3. QED
      BY <1>6, <2>1, <2>2
  <1>9. OutsShape'
    <2>1. Len(outs') <= Top'
      BY <1>1, <1>3, <1>4 DEF OutsShape
    <2>2. QED
      BY <1>3, <1>7, <1>8, <2>1 DEF OutsShape
  <1>10. StreamShape'
    <2> SUFFICES ASSUME client = "watching" PROVE StreamShape'
      BY DEF StreamShape, screenVars
    <2>1. /\ stream \in Seq(Halves) /\ Sane(stream)
          /\ \A i \in 1..Len(stream) : stream[i].kind # "disable"
      BY DEF StreamShape, Sane
    <2>2. Sane(stream)'
      BY <2>1 DEF Sane
    <2>3. \A r \in Nat : Follows(stream, r, Sent, Copied) =>
                             Follows(stream, r, Sent, Copied')
      BY <1>1, <2>1, FollowsCopied
    <2>4. 0 \in Nat /\ 2 * Len(shown) + 2 \in Nat
      BY DEF ShownShape
    <2>5. UNCHANGED <<client, terminal, shown, stream>>
      BY DEF screenVars
    <2>6. QED
      BY <1>5, <2>1, <2>2, <2>3, <2>4, <2>5 DEF StreamShape
  <1>11. LogsShape' /\ ShownShape'
    BY DEF LogsShape, ShownShape, screenVars
  <1>12. ThreadShape'
    BY <1>3 DEF ThreadShape, Cuts, screenVars
  <1>13. CutShape'
    BY <1>3 DEF CutShape, screenVars
  <1>14. QED
    BY <1>9, <1>10, <1>11, <1>12, <1>13

(* The worker writes a log record.  *)
LEMMA WritesLogs ==
  ASSUME ScreenInv, NEW kind \in Kinds, kind \notin Outputs,
         logs' = logs \o Message(kind, 0),
         UNCHANGED <<written, pty, outs, cut, mixed, stream, screenVars>>,
         Begun' = Begun, Ended' = Ended
  PROVE  ScreenInv'
  <1> USE DEF ScreenInv
  <1>1. /\ logs' \in Seq(Halves) /\ Len(logs') = Len(logs) + 2
        /\ \A i \in 1..Len(logs) : logs'[i] = logs[i]
        /\ logs'[Len(logs) + 1] = [kind |-> kind, chunk |-> 0, part |-> 1]
        /\ logs'[Len(logs) + 2] = [kind |-> kind, chunk |-> 0, part |-> 2]
        /\ logs' # <<>> /\ Paired(logs') /\ Ends(logs')
        /\ logs # <<>> => logs'[1] = logs[1]
        /\ Starts(logs) => Starts(logs')
    BY WrittenIsWhole DEF LogsShape, CutShape
  <1>2. Len(logs) \in Nat
    BY DEF LogsShape
  <1>3. \A i \in 1..Len(logs') :
            i \in 1..Len(logs) \/ i = Len(logs) + 1 \/ i = Len(logs) + 2
    BY <1>1, <1>2
  <1>4. LogsShape'
    BY <1>1, <1>3 DEF LogsShape
  <1>5. Copied' = Copied /\ Top' = Top /\ Sent' = Sent
    BY DEF Copied, Top, Sent
  <1>6. PtyShape' /\ OutsShape'
    BY <1>5 DEF PtyShape, OutsShape, Sane
  <1>7. StreamShape' /\ ShownShape'
    BY <1>5 DEF StreamShape, ShownShape, Sane, screenVars
  <1>8. ThreadShape'
    BY <1>1 DEF ThreadShape, Cuts, screenVars
  <1>9. CutShape'
    BY <1>1 DEF CutShape, screenVars
  <1>10. QED
    BY <1>4, <1>6, <1>7, <1>8, <1>9

(* The steps of the worker and of the command.  *)
LEMMA WorkerScreen ==
  ASSUME ScreenInv,
         \/ LogStart \/ RawEnable \/ ChildWrites \/ ChildExits \/ CopyOutput
         \/ ResizePty \/ HangUpDetected \/ RawDisable \/ LogEnd
  PROVE  ScreenInv'
  <1>1. CASE LogStart \/ LogEnd
    <2>1. {"log", "end"} \subseteq Kinds /\ "log" \notin Outputs
          /\ "end" \notin Outputs
      BY DEF Kinds, Outputs
    <2>2. Begun' = Begun /\ Ended' = Ended
      BY <1>1 DEF LogStart, LogEnd, Begun, Ended
    <2>3. QED
      BY <1>1, <2>1, <2>2, WritesLogs DEF LogStart, LogEnd
  <1>2. CASE RawEnable
    <2>1. /\ Copied = 0 /\ Copied' = Copied
          /\ ~Begun /\ ~Ended /\ Begun' /\ ~Ended'
      BY <1>2 DEF ScreenInv, PtyShape, RawEnable, Copied, Begun, Ended
    <2>2. Top = 0 /\ Top' = Top + 2
      BY <2>1 DEF Top
    <2>3. PtyShape'
      BY <1>2, <2>1 DEF ScreenInv, PtyShape, RawEnable
    <2>4. "enable" \in Outputs /\ "enable" # "bytes" /\ "enable" # "disable"
      BY DEF Outputs
    <2>5. \A c, i \in Nat : Rank([kind |-> "enable", chunk |-> 0, part |-> i],
                                 c) = i
      BY DEF Rank
    <2>6. /\ Rank([kind |-> "enable", chunk |-> 0, part |-> 1], Copied')
             = Top + 1
          /\ Rank([kind |-> "enable", chunk |-> 0, part |-> 2], Copied')
             = Top + 2
      BY <2>1, <2>2, <2>5
    <2>7. QED
      BY <1>2, <2>1, <2>2, <2>3, <2>4, <2>6, WritesOuts DEF RawEnable
  <1>3. CASE ChildWrites
    BY <1>3, ChildWritesPty, QuietScreen
    DEF ChildWrites, ScreenInv, Begun, Ended
  <1>4. CASE CopyOutput
    <2>1. Begun /\ ~Ended /\ Begun' /\ ~Ended'
      BY <1>4 DEF CopyOutput, Begun, Ended
    <2>2. /\ PtyShape' /\ Copied' = Copied + 1 /\ Head(pty) = Copied + 1
      BY <1>4, <2>1, CopyTakesNext DEF CopyOutput, ScreenInv
    <2>3. Copied \in Nat /\ Top = 2 * Copied + 2 /\ Top' = Top + 2
      BY <2>1, <2>2, Counts DEF Top
    <2>4. "bytes" \in Outputs /\ "bytes" # "disable"
      BY DEF Outputs
    <2>5. Head(pty) \in Nat /\ Head(pty) # 0
      BY <2>2, <2>3
    <2>6. \A c, d, i \in Nat :
              Rank([kind |-> "bytes", chunk |-> d, part |-> i], c) = 2 * d + i
      BY DEF Rank
    <2> DEFINE head == Head(pty)
    <2>7. /\ Rank([kind |-> "bytes", chunk |-> head, part |-> 1], Copied')
             = Top + 1
          /\ Rank([kind |-> "bytes", chunk |-> head, part |-> 2], Copied')
             = Top + 2
      <3>1. head \in Nat /\ head = Copied + 1 /\ Copied' \in Nat
        BY <2>2, <2>3
      <3> HIDE DEF head
      <3>2. QED
        BY <2>3, <2>6, <3>1
    <2>8. QED
      BY <1>4, <2>1, <2>2, <2>3, <2>4, <2>5, <2>7, WritesOuts DEF CopyOutput
  <1>5. CASE ChildExits \/ ResizePty \/ HangUpDetected
    <2>1. UNCHANGED <<written, pty, pipesVars, stream, screenVars>>
      BY <1>5 DEF ChildExits, ResizePty, HangUpDetected
    <2>2. Begun' = Begun /\ Ended' = Ended
      BY <1>5 DEF ChildExits, ResizePty, HangUpDetected, Begun, Ended
    <2>3. Copied' = Copied
      BY <2>1 DEF Copied
    <2>4. PtyShape'
      BY <2>1, <2>2, <2>3 DEF ScreenInv, PtyShape
    <2>5. QED
      BY <2>1, <2>2, <2>3, <2>4, QuietScreen
  <1>6. CASE RawDisable
    <2>1. Copied' = Copied /\ Begun /\ ~Ended /\ Begun' /\ Ended'
      BY <1>6 DEF RawDisable, Copied, Begun, Ended
    <2>2. Copied \in Nat /\ Top = 2 * Copied + 2 /\ Top' = Top + 2
      BY <2>1, Counts DEF Top
    <2>3. PtyShape'
      BY <1>6, <2>1 DEF ScreenInv, PtyShape, RawDisable
    <2>4. "disable" \in Outputs /\ "disable" # "bytes"
      BY DEF Outputs
    <2>5. \A c, i \in Nat : Rank([kind |-> "disable", chunk |-> 0, part |-> i],
                                 c) = 2 * c + 2 + i
      BY DEF Rank
    <2>6. /\ Rank([kind |-> "disable", chunk |-> 0, part |-> 1], Copied')
             = Top + 1
          /\ Rank([kind |-> "disable", chunk |-> 0, part |-> 2], Copied')
             = Top + 2
      BY <2>1, <2>2, <2>5
    <2>7. QED
      BY <1>6, <2>1, <2>2, <2>3, <2>4, <2>6, WritesOuts DEF RawDisable
  <1>7. QED
    BY <1>1, <1>2, <1>3, <1>4, <1>5, <1>6

(* A read of a pipe, when none of another pipe cut a message in two.  *)
LEMMA SendsWhole ==
  ASSUME ScreenInv, client = "watching", ~mixed',
         NEW name \in {"logs", "outs"}, NEW pipe,
         pipe = IF name = "logs" THEN logs ELSE outs,
         NEW n \in 1..Len(pipe), Dispatched(name, pipe, n)
  PROVE  LET rest == SubSeq(pipe, n + 1, Len(pipe))
         IN  /\ Paired(stream') /\ Starts(stream') /\ stream' # <<>>
             /\ stream'[Len(stream')] = pipe[n]
             /\ IF pipe[n].part = 1
                THEN /\ cut' = name /\ rest # <<>>
                     /\ rest[1] = [pipe[n] EXCEPT !.part = 2]
                ELSE cut' = "none" /\ Starts(rest) /\ Ends(stream')
             /\ name # "logs" => Starts(logs)
             /\ name # "outs" => Starts(outs)
  <1> DEFINE rest == SubSeq(pipe, n + 1, Len(pipe))
  <1>1. /\ pipe \in Seq(Halves) /\ Paired(pipe) /\ Ends(pipe)
        /\ stream \in Seq(Halves)
    BY DEF ScreenInv, LogsShape, OutsShape, StreamShape, CutShape
  <1>2. /\ pipe # <<>> /\ stream' = stream \o SubSeq(pipe, 1, n)
        /\ mixed' = (mixed \/ cut \notin {"none", name})
        /\ cut' = IF pipe[n].part = 1 THEN name
                  ELSE IF cut = name THEN "none" ELSE cut
    BY DEF Dispatched
  <1>3. ~mixed /\ cut \in {"none", name}
    BY <1>2
  <1>4. /\ Paired(stream) /\ Starts(stream)
        /\ cut = "none" => Ends(stream) /\ Starts(pipe)
        /\ cut = name => Cuts(pipe)
        /\ name # "logs" => Starts(logs)
        /\ name # "outs" => Starts(outs)
    BY <1>3 DEF ScreenInv, ThreadShape
  <1>5. Joins(stream, pipe)
    BY <1>2, <1>3, <1>4 DEF Cuts, Starts, Ends, Joins
  <1>6. Paired(stream) /\ Starts(stream)
    BY <1>4
  <1>7. /\ Paired(stream') /\ Starts(stream') /\ stream' # <<>>
        /\ stream'[Len(stream')] = pipe[n]
        /\ pipe[n].part = 1 =>
              rest # <<>> /\ rest[1] = [pipe[n] EXCEPT !.part = 2]
        /\ pipe[n].part # 1 => Starts(rest) /\ pipe[n].part = 2
    <2> DEFINE q == stream \o SubSeq(pipe, 1, n)
    <2>1. /\ Paired(q) /\ Starts(q) /\ q # <<>> /\ q[Len(q)] = pipe[n]
          /\ pipe[n].part = 1 =>
                rest # <<>> /\ rest[1] = [pipe[n] EXCEPT !.part = 2]
          /\ pipe[n].part # 1 => Starts(rest) /\ pipe[n].part = 2
      BY ONLY <1>1, <1>5, <1>6, SentIsWhole
    <2> HIDE DEF q, rest
    <2>2. stream' = q
      BY <1>2 DEF q
    <2>3. QED
      BY <2>1, <2>2
  <1> HIDE DEF rest
  <1>8. IF pipe[n].part = 1
        THEN /\ cut' = name /\ rest # <<>>
             /\ rest[1] = [pipe[n] EXCEPT !.part = 2]
        ELSE cut' = "none" /\ Starts(rest) /\ Ends(stream')
    BY <1>2, <1>3, <1>7 DEF Ends
  <1>9. QED
    BY <1>4, <1>7, <1>8 DEF rest

(* What a read leaves of a pipe.  *)
LEMMA RestIsWhole ==
  ASSUME NEW p \in Seq(Halves), NEW n \in 1..Len(p), Paired(p), Ends(p)
  PROVE  LET rest == SubSeq(p, n + 1, Len(p)) IN Paired(rest) /\ Ends(rest)
  <1> DEFINE rest == SubSeq(p, n + 1, Len(p))
  <1>1. /\ Len(rest) = Len(p) - n /\ rest \in Seq(Halves)
        /\ \A i \in 1..(Len(p) - n) : rest[i] = p[n + i]
        /\ Len(p) \in Nat /\ n \in Nat
    BY ReadParts
  <1>2. Paired(rest)
    <2>1. n + 1 \in 1..(Len(p) + 1) /\ Len(p) \in 0..Len(p)
      BY <1>1
    <2>2. QED
      BY <2>1, PairedPart
  <1>3. p # <<>>
    BY <1>1
  <1> HIDE DEF rest
  <1>4. rest # <<>> => Len(rest) \in 1..(Len(p) - n) /\ n + Len(rest) = Len(p)
    BY <1>1
  <1>5. Ends(rest)
    BY <1>1, <1>3, <1>4 DEF Ends
  <1>6. QED
    BY <1>2, <1>5 DEF rest

(* The halves a sequence has are sane if those of what it is made of are.  *)
LEMMA SaneParts ==
  ASSUME NEW p \in Seq(Halves), Sane(p), NEW n \in 1..Len(p),
         NEW s \in Seq(Halves), Sane(s)
  PROVE  Sane(s \o SubSeq(p, 1, n)) /\ Sane(SubSeq(p, n + 1, Len(p)))
  <1> DEFINE pre == SubSeq(p, 1, n)
             rest == SubSeq(p, n + 1, Len(p))
             q == s \o pre
  <1>1. /\ pre \in Seq(Halves) /\ Len(pre) = n
        /\ \A i \in 1..n : pre[i] = p[i]
        /\ Len(rest) = Len(p) - n
        /\ \A i \in 1..(Len(p) - n) : rest[i] = p[n + i]
        /\ Len(p) \in Nat /\ n \in Nat
    BY ReadParts
  <1> HIDE DEF pre, rest
  <1>2. /\ Len(q) = Len(s) + n /\ Len(s) \in Nat
        /\ \A i \in 1..Len(s) : q[i] = s[i]
        /\ \A i \in 1..n : q[Len(s) + i] = pre[i]
    BY <1>1, ConcatParts
  <1> HIDE DEF q
  <1>3. \A i \in 1..Len(rest) : n + i \in 1..Len(p) /\ rest[i] = p[n + i]
    BY <1>1
  <1>4. Sane(rest)
    BY <1>3 DEF Sane
  <1>5. \A i \in 1..Len(q) :
            \/ i \in 1..Len(s) /\ q[i] = s[i]
            \/ \E j \in 1..Len(p) : q[i] = p[j]
    <2> SUFFICES ASSUME NEW i \in 1..Len(q), i \notin 1..Len(s)
                 PROVE  \E j \in 1..Len(p) : q[i] = p[j]
      BY <1>2
    <2> DEFINE j == i - Len(s)
    <2>1. j \in 1..n /\ Len(s) + j = i /\ j \in 1..Len(p)
      BY <1>1, <1>2
    <2>2. q[i] = p[j]
      BY <1>1, <1>2, <2>1
    <2>3. QED
      BY <2>1, <2>2
  <1>6. Sane(q)
    BY <1>5 DEF Sane
  <1>7. QED
    BY <1>4, <1>6 DEF pre, rest, q

(* The dispatch thread.  *)
LEMMA DispatchScreen ==
  ASSUME ScreenInv, DispatchLogs \/ DispatchOuts
  PROVE  ScreenInv'
  <1> USE DEF ScreenInv
  <1>1. /\ UNCHANGED <<written, pty, server, client, terminal, shown>>
        /\ mixed => mixed'
    BY DEF DispatchLogs, DispatchOuts, Dispatched, serverVars, screenVars
  <1>2. /\ Copied' = Copied /\ Begun' = Begun /\ Ended' = Ended /\ Top' = Top
    BY <1>1 DEF Copied, Begun, Ended, Top
  <1>3. PtyShape' /\ ShownShape'
    BY <1>1, <1>2 DEF PtyShape, ShownShape
  <1>4. Copied \in Nat /\ Top \in Nat /\ Sent \in Nat
    BY Counts
  <1>5. \A s : Sane(s)' = Sane(s)
    BY <1>2 DEF Sane
  <1>6. 0 \in Nat /\ 2 * Len(shown) + 2 \in Nat
    BY DEF ShownShape
  <1>7. CASE DispatchLogs
    <2> DEFINE n == ReadLength(logs)
               pre == SubSeq(logs, 1, n)
    <2>1. /\ logs # <<>> /\ Dispatched("logs", logs, n)
          /\ logs' = SubSeq(logs, n + 1, Len(logs)) /\ outs' = outs
          /\ stream' = stream \o pre
      BY <1>7 DEF DispatchLogs, Dispatched
    <2>2. n \in 1..Len(logs)
      BY <2>1, ReadsSome DEF LogsShape
    <2> HIDE DEF n
    <2>3. /\ pre \in Seq(Halves) /\ Len(pre) = n
          /\ \A i \in 1..n : pre[i] = logs[i]
          /\ logs' \in Seq(Halves) /\ Len(logs') = Len(logs) - n
          /\ \A i \in 1..(Len(logs) - n) : logs'[i] = logs[n + i]
          /\ Len(logs) \in Nat /\ n \in Nat
      BY <2>1, <2>2, ReadParts DEF LogsShape
    <2> HIDE DEF pre
    <2>4. LogsShape'
      <3>1. \A i \in 1..Len(logs') :
                n + i \in 1..Len(logs) /\ logs'[i] = logs[n + i]
        BY ONLY <2>3
      <3>2. QED
        BY <2>3, <3>1 DEF LogsShape
    <2>5. Sent' = Sent /\ OutsShape'
      BY <1>2, <1>5, <2>1 DEF Sent, OutsShape
    <2>6. \A i \in 1..Len(pre) : pre[i].kind \notin Outputs
      <3>1. \A i \in 1..Len(pre) : i \in 1..Len(logs) /\ pre[i] = logs[i]
        BY ONLY <2>2, <2>3
      <3>2. QED
        BY <3>1 DEF LogsShape
    <2>7. StreamShape'
      <3> SUFFICES ASSUME client = "watching" PROVE StreamShape'
        BY <1>1 DEF StreamShape
      <3>1. stream \in Seq(Halves) /\ Sane(stream) /\ stream' \in Seq(Halves)
        BY <2>1, <2>3, ConcatParts DEF StreamShape
      <3>2. Sane(logs)
        BY DEF LogsShape, Sane, Outputs
      <3>3. Sane(stream')
        BY <2>1, <2>2, <3>1, <3>2, SaneParts DEF pre, LogsShape
      <3>4. \A r \in Nat : Follows(stream, r, Sent, Copied) =>
                               Follows(stream', r, Sent, Copied)
        BY <1>4, <2>1, <2>3, <2>6, <3>1, FollowsLogs
      <3>5. QED
        BY <1>1, <1>2, <1>4, <1>5, <1>6, <2>5, <3>1, <3>3, <3>4
        DEF StreamShape
    <2>8. Paired(logs') /\ Ends(logs')
      BY <2>1, <2>2, RestIsWhole DEF LogsShape, CutShape
    <2>9. CutShape'
      <3>1. cut' \in {"none", "logs", "outs"}
        BY <2>1 DEF Dispatched, CutShape
      <3>2. QED
        BY <1>1, <2>1, <2>8, <3>1 DEF CutShape
    <2>10. ThreadShape'
      <3> SUFFICES ASSUME client = "watching", ~mixed' PROVE ThreadShape'
        BY <1>1 DEF ThreadShape
      <3>1. /\ Paired(stream') /\ Starts(stream') /\ stream' # <<>>
            /\ stream'[Len(stream')] = logs[n]
            /\ IF logs[n].part = 1
               THEN /\ cut' = "logs" /\ logs' # <<>>
                    /\ logs'[1] = [logs[n] EXCEPT !.part = 2]
               ELSE cut' = "none" /\ Starts(logs') /\ Ends(stream')
            /\ Starts(outs)
        BY <2>1, <2>2, SendsWhole
      <3>2. QED
        BY <2>1, <3>1 DEF ThreadShape, Cuts
    <2>11. QED
      BY <1>3, <2>4, <2>5, <2>7, <2>9, <2>10
  <1>8. CASE DispatchOuts
    <2> DEFINE n == ReadLength(outs)
               pre == SubSeq(outs, 1, n)
    <2>1. /\ outs # <<>> /\ Dispatched("outs", outs, n)
          /\ outs' = SubSeq(outs, n + 1, Len(outs)) /\ logs' = logs
          /\ stream' = stream \o pre
      BY <1>8 DEF DispatchOuts, Dispatched
    <2>2. n \in 1..Len(outs)
      BY <2>1, ReadsSome DEF OutsShape
    <2> HIDE DEF n
    <2>3. /\ pre \in Seq(Halves) /\ Len(pre) = n
          /\ \A i \in 1..n : pre[i] = outs[i]
          /\ outs' \in Seq(Halves) /\ Len(outs') = Len(outs) - n
          /\ \A i \in 1..(Len(outs) - n) : outs'[i] = outs[n + i]
          /\ Len(outs) \in Nat /\ n \in Nat
      BY <2>1, <2>2, ReadParts DEF OutsShape
    <2> HIDE DEF pre
    <2>4. LogsShape'
      BY <2>1 DEF LogsShape
    <2>5. Sent' = Sent + n /\ n <= Len(outs)
      BY <1>2, <1>4, <2>2, <2>3 DEF Sent
    <2>6. Numbered(pre, Sent, Copied) /\ Numbered(outs', Sent', Copied')
      <3>1. Numbered(pre, Sent, Copied)
        BY <2>3, <2>5 DEF OutsShape, Numbered
      <3>2. ASSUME NEW i \in 1..Len(outs')
            PROVE  /\ outs'[i].kind \in Outputs
                   /\ Rank(outs'[i], Copied) = Sent' + i
        <4>1. n + i \in 1..Len(outs) /\ outs'[i] = outs[n + i]
          BY <2>3
        <4>2. /\ outs[n + i].kind \in Outputs
              /\ Rank(outs[n + i], Copied) = Sent + (n + i)
          BY <4>1 DEF OutsShape, Numbered
        <4>3. i \in Int
          OBVIOUS
        <4>4. QED
          BY <1>4, <2>3, <2>5, <4>1, <4>2, <4>3
      <3>3. QED
        BY <1>2, <3>1, <3>2 DEF Numbered
    <2>7. Sane(outs') /\ OutsShape'
      <3>1. <<>> \in Seq(Halves) /\ Sane(<<>>)
        BY DEF Sane
      <3>2. Sane(outs')
        BY <2>1, <2>2, <3>1, SaneParts DEF OutsShape
      <3>3. Len(outs') <= Top
        BY <1>4, <2>3, <2>5 DEF OutsShape
      <3>4. QED
        BY <1>2, <1>5, <2>3, <2>6, <3>2, <3>3 DEF OutsShape
    <2>8. StreamShape'
      <3> SUFFICES ASSUME client = "watching" PROVE StreamShape'
        BY <1>1 DEF StreamShape
      <3>1. stream \in Seq(Halves) /\ Sane(stream) /\ stream' \in Seq(Halves)
        BY <2>1, <2>3, ConcatParts DEF StreamShape
      <3>2. Sane(stream')
        BY <2>1, <2>2, <3>1, SaneParts DEF pre, OutsShape
      <3>3. \A r \in Nat : Follows(stream, r, Sent, Copied) =>
                               Follows(stream', r, Sent', Copied)
        BY <1>4, <2>1, <2>3, <2>5, <2>6, <3>1, FollowsOuts
      <3>4. QED
        BY <1>1, <1>2, <1>4, <1>5, <1>6, <3>1, <3>2, <3>3 DEF StreamShape
    <2>9. Paired(outs') /\ Ends(outs')
      BY <2>1, <2>2, RestIsWhole DEF OutsShape, CutShape
    <2>10. CutShape'
      <3>1. cut' \in {"none", "logs", "outs"}
        BY <2>1 DEF Dispatched, CutShape
      <3>2. QED
        BY <1>1, <2>1, <2>9, <3>1 DEF CutShape
    <2>11. ThreadShape'
      <3> SUFFICES ASSUME client = "watching", ~mixed' PROVE ThreadShape'
        BY <1>1 DEF ThreadShape
      <3>1. /\ Paired(stream') /\ Starts(stream') /\ stream' # <<>>
            /\ stream'[Len(stream')] = outs[n]
            /\ IF outs[n].part = 1
               THEN /\ cut' = "outs" /\ outs' # <<>>
                    /\ outs'[1] = [outs[n] EXCEPT !.part = 2]
               ELSE cut' = "none" /\ Starts(outs') /\ Ends(stream')
            /\ Starts(logs)
        BY <2>1, <2>2, SendsWhole
      <3>2. QED
        BY <2>1, <3>1 DEF ThreadShape, Cuts
    <2>12. QED
      BY <1>3, <2>4, <2>7, <2>8, <2>10, <2>11
  <1>9. QED
    BY <1>7, <1>8

(* The client receives a message: it is the next one of the terminal.  *)
LEMMA ReceivedNext ==
  ASSUME ScreenInv, NEW kind \in Kinds, ClientReceives(kind)
  PROVE  /\ client = "watching" /\ Head(stream).kind = kind
         /\ stream' \in Seq(Halves) /\ Sane(stream')
         /\ kind \notin Outputs =>
               \A r \in Nat : Follows(stream, r, Sent, Copied) =>
                                  Follows(stream', r, Sent, Copied)
         /\ kind \in Outputs =>
               \A r \in Nat : Follows(stream, r, Sent, Copied) =>
                   /\ Rank(Head(stream), Copied) = r + 1
                   /\ r + 2 <= Sent
                   /\ Follows(stream', r + 2, Sent, Copied)
         /\ Head(stream).part = 1 /\ Head(stream) \in Halves
         /\ kind = "bytes" => Head(stream).chunk # 0
         /\ kind = "disable" => Ended
  <1>1. /\ client = "watching" /\ Len(stream) > 1
        /\ Head(stream).part = 1 /\ Head(stream).kind = kind
        /\ stream[2] = [Head(stream) EXCEPT !.part = 2]
        /\ stream' = SubSeq(stream, 3, Len(stream))
    BY DEF ClientReceives, NextIsWhole
  <1>2. stream \in Seq(Halves) /\ Sane(stream)
    BY <1>1 DEF ScreenInv, StreamShape
  <1>3. Head(stream) = stream[1] /\ Len(stream) \in Nat
    BY <1>1, <1>2
  <1>4. /\ stream' \in Seq(Halves) /\ Len(stream') = Len(stream) - 2
        /\ \A i \in 1..Len(stream') : stream'[i] = stream[i + 2]
        /\ stream[1] \in Halves
    BY <1>1, <1>2, TailRest
  <1>5. Sane(stream')
    <2>1. \A i \in 1..Len(stream') :
              i + 2 \in 1..Len(stream) /\ stream'[i] = stream[i + 2]
      BY ONLY <1>3, <1>4
    <2>2. QED
      BY <1>2, <2>1 DEF Sane
  <1>6. Copied \in Nat /\ Sent \in Nat
    BY Counts
  <1>7. /\ stream[1].kind = kind /\ stream[2].kind = kind
        /\ stream[1].part = 1 /\ stream[2] = [stream[1] EXCEPT !.part = 2]
    BY <1>1, <1>3, <1>4 DEF Halves
  <1>8. ASSUME kind \notin Outputs, NEW r \in Nat,
               Follows(stream, r, Sent, Copied)
        PROVE  Follows(stream', r, Sent, Copied)
    BY <1>1, <1>2, <1>6, <1>7, <1>8, FollowsPopLog
  <1>9. ASSUME kind \in Outputs, NEW r \in Nat,
               Follows(stream, r, Sent, Copied)
        PROVE  /\ Rank(stream[1], Copied) = r + 1
               /\ r + 2 <= Sent
               /\ Follows(stream', r + 2, Sent, Copied)
    BY <1>1, <1>2, <1>6, <1>7, <1>9, FollowsPop
  <1>10. 1 \in 1..Len(stream)
    BY <1>1, <1>3
  <1>11. /\ kind = "bytes" => stream[1].chunk # 0
         /\ kind = "disable" => Ended
    BY <1>2, <1>7, <1>10 DEF Sane
  <1>12. QED
    BY <1>1, <1>3, <1>4, <1>5, <1>8, <1>9, <1>11

(* Whatever it receives, the thread of messages goes on.  *)
LEMMA ReceivedThread ==
  ASSUME ScreenInv, NEW kind \in Kinds, ClientReceives(kind),
         UNCHANGED <<logs, outs, cut, mixed>>, client' # "lost"
  PROVE  ThreadShape' /\ CutShape'
  <1>1. /\ client = "watching" /\ Len(stream) > 1
        /\ Head(stream).part = 1
        /\ stream[2] = [Head(stream) EXCEPT !.part = 2]
        /\ stream' = SubSeq(stream, 3, Len(stream))
    BY DEF ClientReceives, NextIsWhole
  <1>2. stream \in Seq(Halves)
    BY <1>1 DEF ScreenInv, StreamShape
  <1>3. Head(stream) = stream[1]
    BY <1>1, <1>2
  <1>4. CutShape'
    BY DEF ScreenInv, CutShape
  <1>5. ThreadShape'
    <2> SUFFICES ASSUME ~mixed PROVE ThreadShape'
      BY DEF ThreadShape
    <2>1. Paired(stream) /\ Starts(stream)
      BY <1>1 DEF ScreenInv, ThreadShape
    <2>2. /\ Paired(stream') /\ Starts(stream')
          /\ Ends(stream) => Ends(stream')
          /\ stream[Len(stream)].part = 1 =>
                stream' # <<>> /\ stream'[Len(stream')] = stream[Len(stream)]
      BY <1>1, <1>2, <1>3, <2>1, ReceivedIsWhole
    <2>3. QED
      BY <1>1, <2>2 DEF ScreenInv, ThreadShape, Cuts
  <1>6. QED
    BY <1>4, <1>5

(* The client receives a whole message.  *)
LEMMA ReceivesScreen ==
  ASSUME ScreenInv,
         \/ ReceiveRawEnable \/ ReceiveRawDisable \/ ReceiveBytes
         \/ ReceiveLog \/ ReceiveEnd
  PROVE  ScreenInv'
  <1>1. UNCHANGED <<serverVars, pipesVars>>
    BY DEF ReceiveRawEnable, ReceiveRawDisable, ReceiveBytes, ReceiveLog,
           ReceiveEnd
  <1>2. /\ Copied' = Copied /\ Begun' = Begun /\ Ended' = Ended
        /\ Top' = Top /\ Sent' = Sent
    BY <1>1 DEF Copied, Begun, Ended, Top, Sent, serverVars, pipesVars
  <1>3. PtyShape' /\ OutsShape' /\ LogsShape'
    BY <1>1, <1>2
    DEF ScreenInv, PtyShape, OutsShape, LogsShape, Sane, serverVars, pipesVars
  <1>4. Copied \in Nat /\ Top \in Nat /\ Sent \in Nat
    BY Counts
  <1>5. \A s : Sane(s)' = Sane(s)
    BY <1>2 DEF Sane
  <1>6. {"log", "end", "enable", "disable", "bytes"} \subseteq Kinds
    BY DEF Kinds
  <1>7. /\ "log" \notin Outputs /\ "end" \notin Outputs
        /\ "enable" \in Outputs /\ "disable" \in Outputs /\ "bytes" \in Outputs
    BY DEF Outputs
  <1>8. /\ shown \in Seq([chunk : Nat, mode : {"user", "raw"}])
        /\ Len(shown) \in Nat
        /\ \A i \in 1..Len(shown) : shown[i] = [chunk |-> i, mode |-> "raw"]
    BY DEF ScreenInv, ShownShape
  <1> DEFINE r0 == 2 * Len(shown) + 2
  <1>9. r0 \in Nat /\ 0 \in Nat /\ r0 >= 2 /\ r0 + 2 = 2 * (Len(shown) + 1) + 2
    BY <1>8
  <1> HIDE DEF r0
  <1>10. client = "watching" =>
            \/ /\ terminal = "user" /\ shown = <<>>
               /\ Follows(stream, 0, Sent, Copied)
            \/ /\ terminal = "raw" /\ Begun
               /\ Follows(stream, r0, Sent, Copied)
            \/ /\ terminal = "user" /\ Ended
               /\ Follows(stream, Top, Sent, Copied)
    BY DEF ScreenInv, StreamShape, r0
  <1>11. Sent <= Top
    BY <1>4 DEF Sent, ScreenInv, OutsShape
  <1>12. CASE ReceiveRawEnable
    <2>1. /\ ClientReceives("enable") /\ terminal' = "raw"
          /\ client' = client /\ shown' = shown
      BY <1>12 DEF ReceiveRawEnable
    <2>2. /\ client = "watching" /\ stream' \in Seq(Halves) /\ Sane(stream')
          /\ \A r \in Nat : Follows(stream, r, Sent, Copied) =>
                /\ Rank(Head(stream), Copied) = r + 1
                /\ r + 2 <= Sent
                /\ Follows(stream', r + 2, Sent, Copied)
          /\ Head(stream).part = 1 /\ Head(stream).kind = "enable"
      BY <1>6, <1>7, <2>1, ReceivedNext
    <2>3. Rank(Head(stream), Copied) = 1
      BY <2>2 DEF Rank
    <2>4. Follows(stream, 0, Sent, Copied) /\ shown = <<>>
      BY <1>4, <1>9, <1>10, <1>11, <2>2, <2>3
    <2>5. Follows(stream', 2, Sent, Copied) /\ 2 <= Sent
      BY <1>9, <2>2, <2>4
    <2>6. Begun
      BY <1>4, <1>11, <2>5 DEF Top, Begun, Ended
    <2>7. Len(shown) = 0
      BY <2>4
    <2>8. StreamShape'
      BY <1>2, <1>5, <2>1, <2>2, <2>5, <2>6, <2>7 DEF StreamShape
    <2>9. ThreadShape' /\ CutShape'
      BY <1>1, <1>6, <2>1, <2>2, ReceivedThread DEF pipesVars
    <2>10. ShownShape'
      BY <2>1 DEF ScreenInv, ShownShape
    <2>11. QED
      BY <1>3, <2>8, <2>9, <2>10 DEF ScreenInv
  <1>13. CASE ReceiveRawDisable
    <2>1. /\ ClientReceives("disable") /\ terminal' = "user"
          /\ client' = client /\ shown' = shown
      BY <1>13 DEF ReceiveRawDisable
    <2>2. /\ client = "watching" /\ stream' \in Seq(Halves) /\ Sane(stream')
          /\ \A r \in Nat : Follows(stream, r, Sent, Copied) =>
                /\ Rank(Head(stream), Copied) = r + 1
                /\ r + 2 <= Sent
                /\ Follows(stream', r + 2, Sent, Copied)
          /\ Head(stream).part = 1 /\ Head(stream).kind = "disable" /\ Ended
      BY <1>6, <1>7, <2>1, ReceivedNext
    <2>3. Rank(Head(stream), Copied) = 2 * Copied + 3
      BY <1>4, <2>2 DEF Rank
    <2>4. Top = 2 * Copied + 4
      BY <2>2 DEF Top
    <2>5. PICK r \in Nat : Follows(stream, r, Sent, Copied)
      BY <1>4, <1>9, <1>10, <2>2
    <2>6. r + 2 = Top /\ Follows(stream', r + 2, Sent, Copied)
      BY <1>4, <2>2, <2>3, <2>4, <2>5
    <2>7. Follows(stream', Top, Sent, Copied)
      BY <2>6
    <2>8. StreamShape'
      BY <1>2, <1>5, <2>1, <2>2, <2>7 DEF StreamShape
    <2>9. ThreadShape' /\ CutShape'
      BY <1>1, <1>6, <2>1, <2>2, ReceivedThread DEF pipesVars
    <2>10. ShownShape'
      BY <2>1 DEF ScreenInv, ShownShape
    <2>11. QED
      BY <1>3, <2>8, <2>9, <2>10 DEF ScreenInv
  <1>14. CASE ReceiveBytes
    <2> DEFINE new == [chunk |-> Head(stream).chunk, mode |-> terminal]
    <2>1. /\ ClientReceives("bytes") /\ terminal' = terminal
          /\ client' = client /\ shown' = Append(shown, new)
      BY <1>14 DEF ReceiveBytes
    <2>2. /\ client = "watching" /\ stream' \in Seq(Halves) /\ Sane(stream')
          /\ \A r \in Nat : Follows(stream, r, Sent, Copied) =>
                /\ Rank(Head(stream), Copied) = r + 1
                /\ r + 2 <= Sent
                /\ Follows(stream', r + 2, Sent, Copied)
          /\ Head(stream).part = 1 /\ Head(stream).kind = "bytes"
          /\ Head(stream) \in Halves /\ Head(stream).chunk # 0
      BY <1>6, <1>7, <2>1, ReceivedNext
    <2> DEFINE c == Head(stream).chunk
    <2>3. Rank(Head(stream), Copied) = 2 * c + 1 /\ c \in Nat /\ c # 0
      BY <2>2 DEF Rank, Halves
    <2> HIDE DEF c
    <2>4. ~Follows(stream, 0, Sent, Copied)
      <3> SUFFICES ASSUME Follows(stream, 0, Sent, Copied) PROVE FALSE
        OBVIOUS
      <3>1. Rank(Head(stream), Copied) = 0 + 1
        BY <1>9, <2>2
      <3>2. QED
        BY <2>3, <3>1
    <2>5. ~Follows(stream, Top, Sent, Copied)
      <3> SUFFICES ASSUME Follows(stream, Top, Sent, Copied) PROVE FALSE
        OBVIOUS
      <3>1. Top + 2 <= Sent
        BY <1>4, <2>2
      <3>2. QED
        BY <1>4, <1>11, <3>1
    <2>6. terminal = "raw" /\ Begun /\ Follows(stream, r0, Sent, Copied)
      BY <1>10, <2>2, <2>4, <2>5
    <2>7. /\ Rank(Head(stream), Copied) = r0 + 1
          /\ Follows(stream', r0 + 2, Sent, Copied)
      BY <1>9, <2>2, <2>6
    <2>8. c = Len(shown) + 1
      BY <1>8, <2>3, <2>7 DEF r0
    <2>9. new = [chunk |-> Len(shown) + 1, mode |-> "raw"]
      BY <2>6, <2>8 DEF c
    <2>10. new \in [chunk : Nat, mode : {"user", "raw"}]
      BY <1>8, <2>9
    <2> HIDE DEF new
    <2>11. /\ shown' \in Seq([chunk : Nat, mode : {"user", "raw"}])
           /\ Len(shown') = Len(shown) + 1
           /\ \A i \in 1..Len(shown) : shown'[i] = shown[i]
           /\ shown'[Len(shown) + 1] = new
      BY <1>8, <2>1, <2>10
    <2>12. ShownShape'
      <3>1. \A i \in 1..Len(shown') : i \in 1..Len(shown) \/ i = Len(shown) + 1
        BY ONLY <1>8, <2>11
      <3>2. QED
        BY <1>8, <2>9, <2>11, <3>1 DEF ShownShape
    <2>13. r0 + 2 = 2 * Len(shown') + 2
      BY <1>9, <2>11
    <2>14. StreamShape'
      BY <1>2, <1>5, <2>1, <2>2, <2>6, <2>7, <2>13 DEF StreamShape
    <2>15. ThreadShape' /\ CutShape'
      BY <1>1, <1>6, <2>1, <2>2, ReceivedThread DEF pipesVars
    <2>16. QED
      BY <1>3, <2>12, <2>14, <2>15 DEF ScreenInv
  <1>15. CASE ReceiveLog
    <2>1. /\ ClientReceives("log") /\ UNCHANGED <<client, terminal, shown>>
      BY <1>15 DEF ReceiveLog, screenVars
    <2>2. /\ client = "watching" /\ stream' \in Seq(Halves) /\ Sane(stream')
          /\ \A r \in Nat : Follows(stream, r, Sent, Copied) =>
                                Follows(stream', r, Sent, Copied)
      BY <1>6, <1>7, <2>1, ReceivedNext
    <2>3. StreamShape'
      BY <1>2, <1>4, <1>5, <1>9, <1>10, <2>1, <2>2 DEF StreamShape, r0
    <2>4. ThreadShape' /\ CutShape'
      BY <1>1, <1>6, <2>1, <2>2, ReceivedThread DEF pipesVars
    <2>5. ShownShape'
      BY <2>1 DEF ScreenInv, ShownShape
    <2>6. QED
      BY <1>3, <2>3, <2>4, <2>5 DEF ScreenInv
  <1>16. CASE ReceiveEnd
    <2>1. ClientReceives("end") /\ client' = "left" /\ shown' = shown
      BY <1>16 DEF ReceiveEnd, ClientLeaves
    <2>2. StreamShape'
      BY <2>1 DEF StreamShape
    <2>3. ThreadShape' /\ CutShape'
      BY <1>1, <1>6, <2>1, ReceivedThread DEF pipesVars
    <2>4. ShownShape'
      BY <2>1 DEF ScreenInv, ShownShape
    <2>5. QED
      BY <1>3, <2>2, <2>3, <2>4 DEF ScreenInv
  <1>17. QED
    BY <1>12, <1>13, <1>14, <1>15, <1>16

(* The client stops watching: because it lost the thread, or for good.  *)
LEMMA LeavesScreen ==
  ASSUME ScreenInv,
         \/ ReceiveGarbage \/ ClientRaises \/ ClientHangsUp \/ Interrupted
         \/ ClientKilled
  PROVE  ScreenInv'
  <1>1. /\ UNCHANGED <<serverVars, pipesVars, stream, shown>>
        /\ client' # "watching"
    BY DEF ReceiveGarbage, ClientRaises, ClientHangsUp, Interrupted,
           ClientKilled, ClientLeaves
  <1>2. /\ Copied' = Copied /\ Begun' = Begun /\ Ended' = Ended
        /\ Top' = Top /\ Sent' = Sent
    BY <1>1 DEF Copied, Begun, Ended, Top, Sent, serverVars, pipesVars
  <1>3. PtyShape' /\ OutsShape' /\ LogsShape' /\ ShownShape'
    BY <1>1, <1>2
    DEF ScreenInv, PtyShape, OutsShape, LogsShape, ShownShape, Sane,
        serverVars, pipesVars
  <1>4. StreamShape' /\ ThreadShape'
    BY <1>1 DEF StreamShape, ThreadShape
  <1>5. client' = "lost" => mixed
    <2> SUFFICES ASSUME ReceiveGarbage, ~mixed PROVE FALSE
      BY DEF ClientRaises, ClientHangsUp, Interrupted, ClientKilled,
             ClientLeaves
    <2>1. client = "watching" /\ Len(stream) > 1 /\ ~NextIsWhole
      BY DEF ReceiveGarbage
    <2>2. stream \in Seq(Halves) /\ Paired(stream) /\ Starts(stream)
      BY <2>1 DEF ScreenInv, StreamShape, ThreadShape
    <2>3. /\ stream # <<>> /\ Head(stream) = stream[1]
          /\ 1 \in 1..(Len(stream) - 1)
      BY <2>1, <2>2
    <2>4. stream[1].part = 1 /\ stream[1 + 1] = [stream[1] EXCEPT !.part = 2]
      BY <2>2, <2>3 DEF Starts, Paired
    <2>5. NextIsWhole
      BY <2>1, <2>3, <2>4 DEF NextIsWhole
    <2>6. QED
      BY <2>1, <2>5
  <1>6. CutShape'
    BY <1>1, <1>5 DEF ScreenInv, CutShape, pipesVars
  <1>7. QED
    BY <1>3, <1>4, <1>6 DEF ScreenInv

LEMMA ScreenNext == ScreenInv /\ [TtyNext]_ttyVars => ScreenInv'
  <1> SUFFICES ASSUME ScreenInv, [TtyNext]_ttyVars PROVE ScreenInv'
    OBVIOUS
  <1>1. CASE \/ LogStart \/ RawEnable \/ ChildWrites \/ ChildExits
             \/ CopyOutput \/ ResizePty \/ HangUpDetected \/ RawDisable
             \/ LogEnd
    BY <1>1, WorkerScreen
  <1>2. CASE DispatchLogs \/ DispatchOuts
    BY <1>2, DispatchScreen
  <1>3. CASE \/ ReceiveRawEnable \/ ReceiveRawDisable \/ ReceiveBytes
             \/ ReceiveLog \/ ReceiveEnd
    BY <1>3, ReceivesScreen
  <1>4. CASE \/ ReceiveGarbage \/ ClientRaises \/ ClientHangsUp
             \/ Interrupted \/ ClientKilled
    BY <1>4, LeavesScreen
  <1>5. CASE Resize \/ HandleSignals \/ UNCHANGED ttyVars
    <2>1. UNCHANGED <<serverVars, pipesVars, stream, screenVars>>
      BY <1>5 DEF Resize, HandleSignals, ttyVars
    <2>2. Copied' = Copied /\ Begun' = Begun /\ Ended' = Ended
      BY <2>1 DEF Copied, Begun, Ended, serverVars
    <2>3. PtyShape'
      BY <2>1, <2>2 DEF ScreenInv, PtyShape, serverVars
    <2>4. QED
      BY <2>1, <2>2, <2>3, QuietScreen
  <1>6. QED
    BY <1>1, <1>2, <1>3, <1>4, <1>5 DEF TtyNext

(***************************************************************************)
(* Whatever the command writes and however the dispatch thread reads the   *)
(* two pipes, the client shows it in order, with no gap and in raw mode,   *)
(* and it only loses the thread of messages when a read of one pipe came   *)
(* between the halves of a message of the other (tasks/__init__.py:185-206,*)
(* console/server.py:143-151).                                             *)
(***************************************************************************)
THEOREM ScreenStaysFaithful == TtySpec => []ScreenIsFaithful
  <1>1. TtyInit => ScreenInv
    BY ScreenInit
  <1>2. ScreenInv /\ [TtyNext]_ttyVars => ScreenInv'
    BY ScreenNext
  <1>3. ScreenInv => ScreenIsFaithful
    <2> SUFFICES ASSUME ScreenInv PROVE ScreenIsFaithful
      OBVIOUS
    <2>1. DOMAIN shown = 1..Len(shown)
      BY DEF ScreenInv, ShownShape
    <2>2. QED
      BY <2>1 DEF ScreenInv, ShownShape, CutShape, ScreenIsFaithful
  <1>4. QED
    BY <1>1, <1>2, <1>3, PTL DEF TtySpec

-----------------------------------------------------------------------------
(* The types of the terminal.                                              *)

\* The output in a message is one of the chunks that were written.
WrittenPieces == {p \in Pieces : p.kind = "bytes" => p.chunk \in 1..written}
Screenfuls == [chunk : 1..written, mode : {"user", "raw"}]

CommandTyped ==
    /\ server \in {"start", "enable", "loop", "hung", "end", "over"}
    /\ child \in {"none", "runs", "gone"}
    /\ written \in 0..MaxChunks
    /\ pty \in Seq(1..written)

PipesTyped ==
    /\ logs \in Seq(WrittenPieces) /\ outs \in Seq(WrittenPieces)
    /\ stream \in Seq(WrittenPieces)
    /\ cut \in {"none", "logs", "outs"}
    /\ mixed \in BOOLEAN

\* The sizes are those the window has had, and each change sends one signal.
SizesTyped ==
    /\ window \in 1..(MaxResizes + 1)
    /\ ptySize \in 0..window
    /\ input \in Seq(1..window)
    /\ signals \in 0..(window - 1)
    /\ missed \in BOOLEAN

ClientTyped ==
    /\ client \in {"watching", "lost", "left", "killed"}
    /\ terminal \in {"user", "raw"}
    /\ guard \in BOOLEAN
    /\ shown \in Seq(Screenfuls)

TtyTyped == CommandTyped /\ PipesTyped /\ SizesTyped /\ ClientTyped

LEMMA SeqGrows ==
  ASSUME NEW S, NEW T, S \subseteq T, NEW s \in Seq(S)
  PROVE  s \in Seq(T)
  <1>1. /\ Len(s) \in Nat /\ DOMAIN s = 1..Len(s)
        /\ s = [i \in 1..Len(s) |-> s[i]]
    BY LenProperties
  <1>2. \A i \in 1..Len(s) : s[i] \in T
    BY ElementOfSeq
  <1>3. s \in [1..Len(s) -> T]
    BY <1>1, <1>2
  <1>4. QED
    BY <1>1, <1>3, SeqDef

LEMMA RangeTyped ==
  ASSUME NEW S, NEW s \in Seq(S)
  PROVE  Range(s) \subseteq S
  BY ElementOfSeq, LenProperties DEF Range

LEMMA TypedTypes == TtyTyped => TtyTypeOK
  <1> SUFFICES ASSUME TtyTyped PROVE TtyTypeOK
    OBVIOUS
  <1>1. Range(pty) \subseteq 1..written
    BY RangeTyped DEF TtyTyped, CommandTyped
  <1>2. Range(logs \o outs \o stream) \subseteq Pieces
    <2>1. logs \o outs \o stream \in Seq(WrittenPieces)
      BY ConcatProperties DEF TtyTyped, PipesTyped
    <2>2. QED
      BY <2>1, RangeTyped DEF WrittenPieces
  <1>3. Range(input) \subseteq 1..window
    BY RangeTyped DEF TtyTyped, SizesTyped
  <1>4. Range(shown) \subseteq Screenfuls
    BY RangeTyped DEF TtyTyped, ClientTyped
  <1>5. MaxResizes \in Nat
    BY TtyBoundsAssumption
  <1>6. ptySize \in 0..(MaxResizes + 1) /\ signals \in 0..MaxResizes
    BY <1>5 DEF TtyTyped, SizesTyped
  <1>7. QED
    BY <1>1, <1>2, <1>3, <1>4, <1>6
    DEF TtyTypeOK, Screenfuls, TtyTyped, CommandTyped, PipesTyped, SizesTyped,
        ClientTyped

LEMMA TtyInitTyped == TtyInit => TtyTyped
  <1> SUFFICES ASSUME TtyInit PROVE TtyTyped
    OBVIOUS
  <1>1. MaxChunks \in Nat /\ MaxResizes \in Nat
    BY TtyBoundsAssumption
  <1>a. \A S : <<>> \in Seq(S)
    BY EmptySeq
  <1>2. CommandTyped
    BY <1>1, <1>a DEF TtyInit, CommandTyped
  <1>b. SizesTyped
    <2>1. window = 1 /\ ptySize = 0 /\ signals = 0 /\ input = <<>>
          /\ missed = FALSE
      BY DEF TtyInit
    <2>2. window \in 1..(MaxResizes + 1)
      BY <1>1, <2>1
    <2>3. ptySize \in 0..window /\ signals \in 0..(window - 1)
      BY <2>1
    <2>4. input \in Seq(1..window)
      BY <1>a, <2>1
    <2>5. QED
      BY <2>1, <2>2, <2>3, <2>4 DEF SizesTyped
  <1>3. PipesTyped /\ ClientTyped
    BY <1>a DEF TtyInit, PipesTyped, ClientTyped
  <1>4. QED
    BY <1>2, <1>b, <1>3 DEF TtyTyped

(* What the worker writes in a pipe, and how the pipe stays what it is.  *)
LEMMA MessageTyped ==
  ASSUME NEW kind \in Kinds, NEW chunk \in 0..MaxChunks,
         kind = "bytes" => chunk \in 1..written
  PROVE  Message(kind, chunk) \in Seq(WrittenPieces)
  <1>1. Message(kind, chunk) \in [1..2 -> WrittenPieces]
    BY DEF Message, WrittenPieces, Pieces
  <1>2. QED
    BY <1>1, SeqDef

LEMMA WorkerTyped ==
  ASSUME TtyTyped,
         \/ LogStart \/ RawEnable \/ CopyOutput \/ RawDisable \/ LogEnd
         \/ HangUpDetected \/ ChildExits
  PROVE  TtyTyped'
  <1>1. written' = written /\ stream' = stream /\ cut' = cut /\ mixed' = mixed
        /\ UNCHANGED <<ptySize, input, window, signals, missed>>
        /\ UNCHANGED <<client, terminal, guard, shown>>
    BY DEF LogStart, RawEnable, CopyOutput, RawDisable, LogEnd, HangUpDetected,
           ChildExits, screenVars, sizeVars, pipesVars
  <1>2. SizesTyped' /\ ClientTyped'
    BY <1>1 DEF TtyTyped, SizesTyped, ClientTyped, Screenfuls
  <1>3. WrittenPieces' = WrittenPieces
    BY <1>1 DEF WrittenPieces
  <1>4. /\ written \in 0..MaxChunks /\ pty \in Seq(1..written)
        /\ logs \in Seq(WrittenPieces) /\ outs \in Seq(WrittenPieces)
    BY DEF TtyTyped, CommandTyped, PipesTyped
  <1>a. 0 \in 0..MaxChunks
    BY TtyBoundsAssumption
  <1>b. \A kind \in Kinds : kind # "bytes" =>
            Message(kind, 0) \in Seq(WrittenPieces)
    BY <1>a, MessageTyped
  <1>5. /\ logs' \in Seq(WrittenPieces) /\ outs' \in Seq(WrittenPieces)
        /\ pty' \in Seq(1..written)
    <2>1. CASE LogStart \/ RawEnable \/ RawDisable \/ LogEnd
      <3>1. /\ Message("log", 0) \in Seq(WrittenPieces)
            /\ Message("enable", 0) \in Seq(WrittenPieces)
            /\ Message("disable", 0) \in Seq(WrittenPieces)
            /\ Message("end", 0) \in Seq(WrittenPieces)
        BY <1>b DEF Kinds
      <3>2. pty' = pty
        BY <2>1 DEF LogStart, RawEnable, RawDisable, LogEnd
      <3>3. \E m \in {Message("log", 0), Message("enable", 0),
                      Message("disable", 0), Message("end", 0)} :
               \/ logs' = logs \o m /\ outs' = outs
               \/ outs' = outs \o m /\ logs' = logs
        BY <2>1 DEF LogStart, RawEnable, RawDisable, LogEnd
      <3>4. PICK m \in Seq(WrittenPieces) :
               \/ logs' = logs \o m /\ outs' = outs
               \/ outs' = outs \o m /\ logs' = logs
        BY <3>1, <3>3
      <3>5. logs \o m \in Seq(WrittenPieces) /\ outs \o m \in Seq(WrittenPieces)
        BY <1>4, ConcatProperties
      <3>6. QED
        BY <1>4, <3>2, <3>4, <3>5
    <2>2. CASE CopyOutput
      <3>1. /\ pty # <<>> /\ outs' = outs \o Message("bytes", Head(pty))
            /\ pty' = Tail(pty) /\ logs' = logs
        BY <2>2 DEF CopyOutput
      <3>2. Head(pty) \in 1..written /\ pty' \in Seq(1..written)
        BY <1>4, <3>1, HeadTailProperties
      <3>3. Head(pty) \in 0..MaxChunks
        BY <1>4, <3>2, TtyBoundsAssumption
      <3>4. Message("bytes", Head(pty)) \in Seq(WrittenPieces)
        BY <3>2, <3>3, MessageTyped DEF Kinds
      <3>5. QED
        BY <1>4, <3>1, <3>2, <3>4, ConcatProperties
    <2>3. CASE HangUpDetected \/ ChildExits
      BY <1>4, <2>3 DEF HangUpDetected, ChildExits, pipesVars
    <2>4. QED
      BY <2>1, <2>2, <2>3
  <1>6. PipesTyped'
    BY <1>1, <1>3, <1>5 DEF TtyTyped, PipesTyped
  <1>7. /\ server' \in {"start", "enable", "loop", "hung", "end", "over"}
        /\ child' \in {"none", "runs", "gone"}
    BY DEF LogStart, RawEnable, CopyOutput, RawDisable, LogEnd, HangUpDetected,
           ChildExits, TtyTyped, CommandTyped
  <1>8. CommandTyped'
    BY <1>1, <1>4, <1>5, <1>7 DEF CommandTyped
  <1>9. QED
    BY <1>2, <1>6, <1>8 DEF TtyTyped

LEMMA ChildWritesTyped ==
  ASSUME TtyTyped, ChildWrites
  PROVE  TtyTyped'
  <1>1. /\ written' = written + 1 /\ written < MaxChunks
        /\ pty' = Append(pty, written + 1)
        /\ UNCHANGED <<server, child>>
        /\ UNCHANGED <<logs, outs, cut, mixed, stream>>
        /\ UNCHANGED <<ptySize, input, window, signals, missed>>
        /\ UNCHANGED <<client, terminal, guard, shown>>
    BY DEF ChildWrites, pipesVars, sizeVars, screenVars
  <1>2. /\ written \in 0..MaxChunks /\ MaxChunks \in Nat
        /\ pty \in Seq(1..written)
    BY TtyBoundsAssumption DEF TtyTyped, CommandTyped
  <1>3. written' \in 0..MaxChunks /\ 1..written \subseteq 1..written'
        /\ written + 1 \in 1..written'
    BY <1>1, <1>2
  <1>4. pty' \in Seq(1..written')
    BY <1>1, <1>2, <1>3, SeqGrows, AppendProperties
  <1>5. /\ WrittenPieces \subseteq WrittenPieces'
        /\ Screenfuls \subseteq Screenfuls'
    BY <1>3 DEF WrittenPieces, Screenfuls
  <1>6. (/\ logs \in Seq(WrittenPieces) /\ outs \in Seq(WrittenPieces)
         /\ stream \in Seq(WrittenPieces) /\ shown \in Seq(Screenfuls))'
    BY <1>1, <1>5, SeqGrows DEF TtyTyped, PipesTyped, ClientTyped
  <1>7. QED
    BY <1>1, <1>3, <1>4, <1>6
    DEF TtyTyped, CommandTyped, PipesTyped, SizesTyped, ClientTyped

LEMMA DispatchTyped ==
  ASSUME TtyTyped, DispatchLogs \/ DispatchOuts
  PROVE  TtyTyped'
  <1>1. /\ UNCHANGED <<server, child, written, pty, ptySize>>
        /\ UNCHANGED <<input, window, signals, missed>>
        /\ UNCHANGED <<client, terminal, guard, shown>>
    BY DEF DispatchLogs, DispatchOuts, Dispatched, serverVars, sizeVars,
           screenVars
  <1>2. CommandTyped' /\ SizesTyped' /\ ClientTyped'
    BY <1>1 DEF TtyTyped, CommandTyped, SizesTyped, ClientTyped, Screenfuls
  <1>3. WrittenPieces' = WrittenPieces
    BY <1>1 DEF WrittenPieces
  <1>4. ASSUME NEW pipe \in Seq(WrittenPieces), pipe # <<>>
        PROVE  /\ SubSeq(pipe, 1, ReadLength(pipe)) \in Seq(WrittenPieces)
               /\ SubSeq(pipe, ReadLength(pipe) + 1, Len(pipe))
                      \in Seq(WrittenPieces)
    <2>1. /\ Len(pipe) \in Nat
          /\ \A i \in 1..Len(pipe) : pipe[i] \in WrittenPieces
      BY LenProperties, ElementOfSeq
    <2>2. ReadLength(pipe) \in 0..Len(pipe)
      <3>1. WrittenPieces \subseteq Halves
        BY TtyBoundsAssumption DEF WrittenPieces, Pieces, Halves
      <3>2. pipe \in Seq(Halves)
        BY <3>1, SeqGrows
      <3>3. QED
        BY <1>4, <2>1, <3>2, ReadsSome
    <2>3. QED
      BY <2>1, <2>2, SubSeqProperties
  <1>5. PipesTyped'
    <2>1. CASE DispatchLogs
      <3>1. /\ logs # <<>> /\ outs' = outs
            /\ stream' = stream \o SubSeq(logs, 1, ReadLength(logs))
            /\ logs' = SubSeq(logs, ReadLength(logs) + 1, Len(logs))
            /\ cut' \in {"logs", "none", cut}
            /\ mixed' \in BOOLEAN
        BY <2>1 DEF DispatchLogs, Dispatched, TtyTyped, PipesTyped
      <3>2. QED
        BY <1>3, <1>4, <3>1, ConcatProperties DEF TtyTyped, PipesTyped
    <2>2. CASE DispatchOuts
      <3>1. /\ outs # <<>> /\ logs' = logs
            /\ stream' = stream \o SubSeq(outs, 1, ReadLength(outs))
            /\ outs' = SubSeq(outs, ReadLength(outs) + 1, Len(outs))
            /\ cut' \in {"outs", "none", cut}
            /\ mixed' \in BOOLEAN
        BY <2>2 DEF DispatchOuts, Dispatched, TtyTyped, PipesTyped
      <3>2. QED
        BY <1>3, <1>4, <3>1, ConcatProperties DEF TtyTyped, PipesTyped
    <2>3. QED
      BY <2>1, <2>2
  <1>6. QED
    BY <1>2, <1>5 DEF TtyTyped

(* What a client receives, and what it does then.  *)
LEMMA ReceivesTyped ==
  ASSUME TtyTyped,
         \/ ReceiveRawEnable \/ ReceiveRawDisable \/ ReceiveBytes
         \/ ReceiveLog \/ ReceiveEnd
  PROVE  TtyTyped'
  <1>1. /\ UNCHANGED <<server, child, written, pty, ptySize>>
        /\ UNCHANGED <<logs, outs, cut, mixed>>
        /\ UNCHANGED <<window, signals, missed>>
        /\ \E kind \in Kinds : ClientReceives(kind)
    BY DEF ReceiveRawEnable, ReceiveRawDisable, ReceiveBytes, ReceiveLog,
           ReceiveEnd, serverVars, pipesVars, sizeVars, Kinds
  <1>2. WrittenPieces' = WrittenPieces /\ Screenfuls' = Screenfuls
    BY <1>1 DEF WrittenPieces, Screenfuls
  <1>3. /\ stream \in Seq(WrittenPieces) /\ Len(stream) \in Nat
        /\ Len(stream) > 1 /\ stream' = SubSeq(stream, 3, Len(stream))
        /\ Head(stream) = stream[1]
        /\ \A i \in 1..Len(stream) : stream[i] \in WrittenPieces
    BY <1>1, LenProperties, ElementOfSeq
    DEF TtyTyped, PipesTyped, ClientReceives, NextIsWhole
  <1>4. stream' \in Seq(WrittenPieces) /\ Head(stream) \in WrittenPieces
    BY <1>3, SubSeqProperties
  <1>5. CommandTyped' /\ PipesTyped'
    BY <1>1, <1>2, <1>4 DEF TtyTyped, CommandTyped, PipesTyped
  <1>6. input' \in Seq(1..window)
    <2>1. input \in Seq(1..window) /\ window \in 1..window
      BY TtyBoundsAssumption DEF TtyTyped, SizesTyped
    <2>2. input' = input \/ input' = Append(input, window)
      BY DEF ReceiveRawEnable, ReceiveRawDisable, ReceiveBytes, ReceiveLog,
             ReceiveEnd, sizeVars
    <2>3. QED
      BY <2>1, <2>2, AppendProperties
  <1>7. SizesTyped'
    BY <1>1, <1>6 DEF TtyTyped, SizesTyped
  <1>8. /\ client' \in {"watching", "lost", "left", "killed"}
        /\ terminal' \in {"user", "raw"} /\ guard' \in BOOLEAN
    BY DEF ReceiveRawEnable, ReceiveRawDisable, ReceiveBytes, ReceiveLog,
           ReceiveEnd, ClientLeaves, screenVars, TtyTyped, ClientTyped
  <1>9. shown' \in Seq(Screenfuls)
    <2>1. shown \in Seq(Screenfuls) /\ terminal \in {"user", "raw"}
      BY DEF TtyTyped, ClientTyped
    <2>2. CASE ReceiveBytes
      <3>1. /\ Head(stream).kind = "bytes"
            /\ shown' = Append(shown, [chunk |-> Head(stream).chunk,
                                       mode |-> terminal])
        BY <2>2 DEF ReceiveBytes, ClientReceives
      <3>2. Head(stream).chunk \in 1..written
        BY <1>4, <3>1 DEF WrittenPieces
      <3>3. [chunk |-> Head(stream).chunk, mode |-> terminal] \in Screenfuls
        BY <2>1, <3>2 DEF Screenfuls
      <3>4. QED
        BY <2>1, <3>1, <3>3, AppendProperties
    <2>3. CASE ~ReceiveBytes
      BY <2>1, <2>3 DEF ReceiveRawEnable, ReceiveRawDisable, ReceiveLog,
                        ReceiveEnd, screenVars
    <2>4. QED
      BY <2>2, <2>3
  <1>10. ClientTyped'
    BY <1>2, <1>8, <1>9 DEF ClientTyped
  <1>11. QED
    BY <1>5, <1>7, <1>10 DEF TtyTyped

LEMMA LeavesTyped ==
  ASSUME TtyTyped,
         \/ ReceiveGarbage \/ ClientRaises \/ ClientHangsUp \/ Interrupted
         \/ ClientKilled
  PROVE  TtyTyped'
  <1>1. /\ UNCHANGED <<server, child, written, pty, ptySize>>
        /\ UNCHANGED <<logs, outs, cut, mixed, stream>>
        /\ UNCHANGED <<input, window, signals, missed, shown>>
    BY DEF ReceiveGarbage, ClientRaises, ClientHangsUp, Interrupted,
           ClientKilled, serverVars, pipesVars, sizeVars
  <1>2. /\ client' \in {"watching", "lost", "left", "killed"}
        /\ terminal' \in {"user", "raw"} /\ guard' \in BOOLEAN
    BY DEF ReceiveGarbage, ClientRaises, ClientHangsUp, Interrupted,
           ClientKilled, ClientLeaves, TtyTyped, ClientTyped
  <1>3. QED
    BY <1>1, <1>2
    DEF TtyTyped, CommandTyped, PipesTyped, SizesTyped, ClientTyped,
        WrittenPieces, Screenfuls

(* The window changes its size, and the terminal of the command follows.  *)
LEMMA ResizesTyped ==
  ASSUME TtyTyped, ResizePty \/ Resize \/ HandleSignals
  PROVE  TtyTyped'
  <1>1. /\ UNCHANGED <<server, child, written, pty>>
        /\ UNCHANGED <<logs, outs, cut, mixed, stream>>
        /\ UNCHANGED <<client, terminal, guard, shown>>
    BY DEF ResizePty, Resize, HandleSignals, serverVars, pipesVars, screenVars
  <1>2. CommandTyped' /\ PipesTyped' /\ ClientTyped'
    BY <1>1 DEF TtyTyped, CommandTyped, PipesTyped, ClientTyped, WrittenPieces,
                Screenfuls
  <1>3. /\ window \in 1..(MaxResizes + 1) /\ MaxResizes \in Nat
        /\ ptySize \in 0..window /\ input \in Seq(1..window)
        /\ signals \in 0..(window - 1) /\ missed \in BOOLEAN
    BY TtyBoundsAssumption DEF TtyTyped, SizesTyped
  <1>4. CASE ResizePty
    <2>1. /\ input # <<>> /\ ptySize' = Head(input) /\ input' = Tail(input)
          /\ UNCHANGED <<window, signals, missed>>
      BY <1>4 DEF ResizePty
    <2>2. Head(input) \in 1..window /\ input' \in Seq(1..window)
      BY <1>3, <2>1, HeadTailProperties
    <2>3. QED
      BY <1>2, <1>3, <2>1, <2>2 DEF TtyTyped, SizesTyped
  <1>5. CASE Resize
    <2>1. /\ window <= MaxResizes /\ window' = window + 1
          /\ signals' = signals + 1 /\ UNCHANGED <<input, missed, ptySize>>
      BY <1>5 DEF Resize, serverVars
    <2>2. 1..window \subseteq 1..window' /\ 0..window \subseteq 0..window'
          /\ window' \in 1..(MaxResizes + 1) /\ signals' \in 0..(window' - 1)
      BY <1>3, <2>1
    <2>3. input' \in Seq(1..window')
      BY <1>3, <2>1, <2>2, SeqGrows
    <2>4. QED
      BY <1>2, <1>3, <2>1, <2>2, <2>3 DEF TtyTyped, SizesTyped
  <1>6. CASE HandleSignals
    <2>1. /\ input' = input \/ input' = Append(input, window)
          /\ missed' \in BOOLEAN /\ signals' = 0
          /\ UNCHANGED <<window, ptySize>>
      BY <1>6 DEF HandleSignals, serverVars
    <2>2. window \in 1..window
      BY <1>3
    <2>3. input' \in Seq(1..window)
      BY <1>3, <2>1, <2>2, AppendProperties
    <2>4. signals' \in 0..(window' - 1)
      BY <1>3, <2>1
    <2>5. QED
      BY <1>2, <1>3, <2>1, <2>3, <2>4 DEF TtyTyped, SizesTyped
  <1>7. QED
    BY <1>4, <1>5, <1>6

(***************************************************************************)
(* The variables keep their types: what is in the pipes are halves of      *)
(* messages, the output on its way and on the screen was written, and the  *)
(* sizes are sizes the window has had (console/server.py:51-151).          *)
(***************************************************************************)
THEOREM TtyTypes == TtySpec => []TtyTypeOK
  <1>1. ASSUME TtyTyped, [TtyNext]_ttyVars PROVE TtyTyped'
    <2>1. CASE UNCHANGED ttyVars
      BY <1>1, <2>1
      DEF ttyVars, serverVars, pipesVars, sizeVars, screenVars, TtyTyped,
          CommandTyped, PipesTyped, SizesTyped, ClientTyped, WrittenPieces,
          Screenfuls
    <2>2. CASE \/ LogStart \/ RawEnable \/ CopyOutput \/ RawDisable \/ LogEnd
               \/ HangUpDetected \/ ChildExits
      BY <1>1, <2>2, WorkerTyped
    <2>3. CASE ChildWrites
      BY <1>1, <2>3, ChildWritesTyped
    <2>4. CASE DispatchLogs \/ DispatchOuts
      BY <1>1, <2>4, DispatchTyped
    <2>5. CASE \/ ReceiveRawEnable \/ ReceiveRawDisable \/ ReceiveBytes
               \/ ReceiveLog \/ ReceiveEnd
      BY <1>1, <2>5, ReceivesTyped
    <2>6. CASE \/ ReceiveGarbage \/ ClientRaises \/ ClientHangsUp
               \/ Interrupted \/ ClientKilled
      BY <1>1, <2>6, LeavesTyped
    <2>7. CASE ResizePty \/ Resize \/ HandleSignals
      BY <1>1, <2>7, ResizesTyped
    <2>8. QED
      BY <1>1, <2>1, <2>2, <2>3, <2>4, <2>5, <2>6, <2>7 DEF TtyNext
  <1>2. QED
    BY <1>1, TtyInitTyped, TypedTypes, PTL DEF TtySpec
=============================================================================
