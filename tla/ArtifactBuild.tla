--------------------------- MODULE ArtifactBuild ---------------------------
(***************************************************************************)
(* The builds of one artifact, one after the other in the worker of an     *)
(* instance: ArtifactBuild, ArtifactEnvBuild and their three formats       *)
(* (src/fatbuildr/builds), with the cache of source archives (cache.py)    *)
(* and the definition of the artifact (artifact.py).                       *)
(*                                                                         *)
(* A build extracts what the user submitted, collects the source archives, *)
(* completes the queue of patches with those it generates, runs the        *)
(* prescript, builds the source package, then the binary packages, and     *)
(* publishes them.  What outlives a build is the cache, the build          *)
(* environment the prescript runs in, and the registry.                    *)
(*                                                                         *)
(* The registry is here the version it has of the source package: see      *)
(* RegistryRpm for the rest.  Command lines, templates, rename rules and   *)
(* the contents of archives other than right or wrong are left out.        *)
(***************************************************************************)
EXTENDS Integers, Sequences, FiniteSets, SequencesExt

CONSTANTS Upstream,      \* versions of the source archives
          Definitions,   \* what artifact.yml may say, see below
          GivenPatches,  \* patches an artifact may come with
          Targets,       \* architectures of a request
          MaxBuilds,     \* bound on the number of builds
          MaxKills,      \* bound on the kills of the daemon
          NoFile,        \* no file in the cache
          Garbage,       \* an error page, or a file that was cut
          NoDefinition,  \* artifact.yml is missing or incomplete
          NotRead,       \* a cached property nothing has read
          NoVersion      \* not defined yet, or not in the registry

Sources == {"main", "supp"}

\* multi: the file has "sources", else "source".  urls: sources with an URL.
\* version: for the derivative of the build, 0 if there is none.  sums: sources
\* with checksums for that version.  names: whether the name of the file has
\* the version, or not, or is the same for all sources.
ArtifactDefs ==
    [multi : BOOLEAN, urls : SUBSET Sources,
     version : [Sources -> Upstream \cup {0}], sums : SUBSET Sources,
     names : {"versioned", "fixed", "shared"}]

BuildFormats == {"rpm", "deb", "osi"}
Packaged == {"rpm", "deb"}

\* Build numbers, -1 for none.
Numbers == -1..MaxBuilds

\* A patch file: its subdirectory, the number that stands for its name there,
\* and the formats (the field Formats, or the formats of Distributions) it is
\* for.
PatchFiles ==
    [dir : {"generic", "version"}, index : 1..9999, for : SUBSET BuildFormats]

ASSUME UpstreamAssumption == Upstream \subseteq Nat \ {0}
ASSUME DefinitionsAssumption ==
    /\ Definitions \subseteq ArtifactDefs
    /\ \A d \in Definitions : ~d.multi => d.urls \subseteq {"main"}
ASSUME GivenPatchesAssumption ==
    /\ IsFiniteSet(GivenPatches)
    /\ GivenPatches \subseteq PatchFiles
    /\ \A p \in GivenPatches : p.index < 9998
ASSUME TargetsAssumption == IsFiniteSet(Targets) /\ "src" \notin Targets
ASSUME BuildBoundsAssumption == {MaxBuilds, MaxKills} \subseteq Nat

VARIABLES
    cache,      \* the files of the cache of the artifact
    overlay,    \* the native build environment: "base", or changed
    excused,    \* history: a cleaning of the environment did not happen
    registry,   \* the version of the source package in each registry
    step,       \* where the build is
    request,    \* the format, and the sources the user provided
    definition, \* defs
    archives,   \* where the source archives collected so far come from
    version,    \* version of the artifact
    queue,      \* the patches in the two subdirectories of patches_dir
    selected,   \* the cached property patches
    seen,       \* the patches applied in the tree the prescript runs in
    generated,  \* history: what the prescript has to add to the patches
    series,     \* the series in the source package
    targets,    \* architectures still to be built
    packages,   \* the packages built, "src" being the source package
    signed,     \* those with a signature
    result,     \* how the build ended
    builds,     \* history: number of builds
    kills       \* history: number of kills

storageVars == <<cache, overlay, excused, registry>>
sourceVars == <<definition, archives, version>>
patchVars == <<queue, selected, seen, generated, series>>
packageVars == <<targets, packages, signed>>
buildVars == <<storageVars, step, request, sourceVars, patchVars, packageVars,
               result, builds, kills>>

CacheFiles == [of : Sources \cup {"any"}, version : Upstream \cup {0}]

\* What an archive holds.
Archives == [of : Sources, version : Upstream]

ASSUME NoFileAssumption == NoFile \notin Archives

BuildSteps == {"idle", "load", "collect", "symlinks", "prescript", "snapshot",
               "inside", "clean", "scrub", "export", "render", "source",
               "binary", "sign", "check", "publish"}

BuildTypeOK ==
    /\ \A f \in CacheFiles : cache[f] \in Archives \cup {NoFile, Garbage}
    /\ DOMAIN cache = CacheFiles
    /\ overlay \in {"base", "changed"}
    /\ excused \in BOOLEAN
    /\ registry \in [Packaged -> [main : Upstream, number : Numbers]
                                 \cup {NoVersion}]
    /\ step \in BuildSteps
    /\ request \in [format : BuildFormats, main : Upstream \cup {0},
                    supp : BOOLEAN]
    /\ definition \in Definitions \cup {NoDefinition}
    /\ archives \in [Sources -> {"none", "user", "cache"}]
    /\ queue \subseteq PatchFiles
    /\ selected = NotRead \/ selected \subseteq queue
    /\ seen = NotRead \/ seen \subseteq queue
    /\ generated \subseteq PatchFiles
    /\ Range(series) \subseteq PatchFiles
    /\ targets \subseteq Targets
    /\ signed \subseteq packages
    /\ packages \subseteq Targets \cup {"src", "image"}
    /\ result \in {"none", "success", "failed", "escapes", "offline"}
    /\ builds \in 0..MaxBuilds
    /\ kills \in 0..MaxKills

Nowhere == [s \in Sources |-> "none"]

BuildInit ==
    /\ cache = [f \in CacheFiles |-> NoFile]
    /\ overlay = "base"
    /\ excused = FALSE
    /\ registry = [f \in Packaged |-> NoVersion]
    /\ step = "idle"
    /\ request = [format |-> "osi", main |-> 0, supp |-> FALSE]
    /\ definition = NoDefinition
    /\ archives = Nowhere
    /\ version = NoVersion
    /\ queue = {}
    /\ selected = NotRead
    /\ seen = NotRead
    /\ generated = {}
    /\ series = <<>>
    /\ targets = {}
    /\ packages = {}
    /\ signed = {}
    /\ result = "none"
    /\ builds = 0
    /\ kills = 0

\* A subdirectory has one file of a name.
NamesAreUnique(patches) ==
    \A p, q \in patches : p.dir = q.dir /\ p.index = q.index => p = q

-----------------------------------------------------------------------------
(* The end of a build.                                                     *)

\* The workspace of a build that has ended is not looked at any more.
ForgetBuild ==
    /\ version' = NoVersion
    /\ archives' = Nowhere
    /\ queue' = {} /\ selected' = NotRead /\ seen' = NotRead
    /\ generated' = {} /\ series' = <<>>
    /\ targets' = {} /\ packages' = {} /\ signed' = {}

\* run of the tasks manager catches RuntimeError and
\* FatbuildrTaskExecutionError, which make a task "failed".  Any other
\* exception "escapes" and ends the worker, be it because a server is "offline".
BuildEnds(how) ==
    /\ step' = "idle"
    /\ result' = how
    /\ ForgetBuild

Submit(f, main, supp) ==
    /\ step = "idle"
    /\ builds < MaxBuilds
    /\ builds' = builds + 1
    /\ request' = [format |-> f, main |-> main, supp |-> supp]
    /\ definition' = NoDefinition
    /\ result' = "none"
    /\ step' = "load"
    /\ UNCHANGED <<storageVars, archives, version, patchVars, packageVars,
                   kills>>

-----------------------------------------------------------------------------
(* prepare: the definition, then the source archives.                      *)

Provided ==
    (IF request.main # 0 THEN {"main"} ELSE {})
    \cup (IF request.supp THEN {"supp"} ELSE {})

\* Without "sources", the definition has one source, with an URL or not.
DefinedSources(d) == IF d.multi THEN d.urls ELSE {"main"}

\* fullversion, unless the name of the archive of the user has the version.
MainVersion(d) == IF request.main # 0 THEN request.main ELSE d.version["main"]

VersionIsKnown(d) ==
    d # NoDefinition /\ (request.main # 0 \/ "main" \in DefinedSources(d))
    /\ MainVersion(d) # 0

NothingToCollect(d) == Provided = {} /\ "main" \notin d.urls

\* An OSI distribution has no tag: FatbuildrPipelineError once there is a
\* source archive.
Loadable(d) ==
    VersionIsKnown(d) /\ (request.format = "osi" => NothingToCollect(d))

\* FatbuildrArtifactError, or AttributeError when the main source is missing.
LoadFails(d) ==
    /\ step = "load"
    /\ ~Loadable(d)
    /\ definition' = d
    /\ BuildEnds("escapes")
    /\ UNCHANGED <<storageVars, request, builds, kills>>

\* The cache directory is made, the archives of the user are moved.
Load(d) ==
    /\ step = "load"
    /\ Loadable(d)
    /\ definition' = d
    /\ version' = [main |-> MainVersion(d), number |-> -1]
    /\ archives' = [s \in Sources |-> IF s \in Provided THEN "user" ELSE "none"]
    /\ step' = IF NothingToCollect(d) THEN "source" ELSE "collect"
    /\ UNCHANGED <<storageVars, request, patchVars, packageVars, result, builds,
                   kills>>

\* Sources of the definition that nothing has been found for yet.
Wanted == {s \in DefinedSources(definition) : archives[s] = "none"}

HasAddress(s) == s \in definition.urls /\ definition.version[s] # 0

\* filename: the last part of the URL, or what follows the mark in it.
FileOf(s) ==
    [of |-> IF definition.names = "shared" THEN "any" ELSE s,
     version |-> IF definition.names = "fixed" THEN 0
                 ELSE definition.version[s]]

RightArchive(s) == [of |-> s, version |-> definition.version[s]]

\* The URL or the version of a source is missing, or the server is.
CollectFails(s, how) ==
    /\ step = "collect"
    /\ s \in Wanted
    /\ IF HasAddress(s)
       THEN cache[FileOf(s)] = NoFile /\ how = "offline"
       ELSE how = "escapes"
    /\ BuildEnds(how)
    /\ UNCHANGED <<storageVars, request, definition, builds, kills>>

\* dl_file writes what the server answers, whatever it is.
Download(s, right) ==
    /\ step = "collect"
    /\ s \in Wanted
    /\ HasAddress(s)
    /\ cache[FileOf(s)] = NoFile
    /\ cache' = [cache EXCEPT ![FileOf(s)] =
                    IF right THEN RightArchive(s) ELSE Garbage]
    /\ UNCHANGED <<overlay, excused, registry, step, request,
                   sourceVars, patchVars, packageVars, result, builds, kills>>

ChecksumsMatch(s) ==
    s \in definition.sums /\ cache[FileOf(s)] = RightArchive(s)

\* Mutant: an archive of the cache is not verified any more.
UseCached_Trusting(s) ==
    /\ step = "collect"
    /\ s \in Wanted
    /\ HasAddress(s)
    /\ cache[FileOf(s)] # NoFile
    /\ archives' = [archives EXCEPT ![s] = "cache"]
    /\ UNCHANGED <<storageVars, step, request, definition, version, patchVars,
                   packageVars, result, builds, kills>>

UseCached(s) ==
    /\ step = "collect"
    /\ s \in Wanted
    /\ HasAddress(s)
    /\ cache[FileOf(s)] # NoFile
    /\ ChecksumsMatch(s)
    /\ archives' = [archives EXCEPT ![s] = "cache"]
    /\ UNCHANGED <<storageVars, step, request, definition, version, patchVars,
                   packageVars, result, builds, kills>>

\* Mutant: the exception for a missing checksum is not converted.
ChecksumFails_Raw(s) ==
    /\ step = "collect"
    /\ s \in Wanted
    /\ HasAddress(s)
    /\ cache[FileOf(s)] # NoFile
    /\ ~ChecksumsMatch(s)
    /\ BuildEnds(IF s \in definition.sums THEN "failed" ELSE "escapes")
    /\ UNCHANGED <<storageVars, request, definition, builds, kills>>

\* There is no checksum, or a wrong one.  The file stays in the cache.
ChecksumFails(s) ==
    /\ step = "collect"
    /\ s \in Wanted
    /\ HasAddress(s)
    /\ cache[FileOf(s)] # NoFile
    /\ ~ChecksumsMatch(s)
    /\ BuildEnds("failed")
    /\ UNCHANGED <<storageVars, request, definition, builds, kills>>

\* The artifact comes with the patches given, in patches_dir.
Collected(given) ==
    /\ step = "collect"
    /\ Wanted = {}
    /\ NamesAreUnique(given)
    /\ queue' = given
    /\ step' = "symlinks"
    /\ UNCHANGED <<storageVars, request, sourceVars, selected, seen, generated,
                   series, packageVars, result, builds, kills>>

-----------------------------------------------------------------------------
(* prepare: the patches and the prescript.                                 *)

Generated(n) == [dir |-> "version", index |-> n, for |-> BuildFormats]
SymlinksPatch == Generated(9998)
PrescriptPatch == Generated(9999)

\* patch_selected: the patches for the format of the build.
Selection == {p \in queue : request.format \in p.for}

\* patches: a cached property, computed when it is first read.
ReadPatches == IF selected = NotRead THEN Selection ELSE selected

\* supplementary_archives_symlinks_patch.
Symlinks ==
    /\ step = "symlinks"
    /\ queue' = queue \cup IF archives["supp"] # "none" THEN {SymlinksPatch}
                           ELSE {}
    /\ step' = "prescript"
    /\ UNCHANGED <<storageVars, request, sourceVars, selected, seen, generated,
                   series, packageVars, result, builds, kills>>

\* The artifact has a prescript that leads to a patch, or not.  It runs in a
\* tree with all patches of patches_dir, those for other formats too.
PrescriptStarts(changes) ==
    /\ step = "prescript"
    /\ seen' = queue
    /\ generated' = generated \cup IF changes THEN {PrescriptPatch} ELSE {}
    /\ step' = IF request.format = "rpm" THEN "snapshot" ELSE "inside"
    /\ UNCHANGED <<storageVars, request, sourceVars, queue, selected, series,
                   packageVars, result, builds, kills>>

NoPrescript ==
    /\ step = "prescript"
    /\ step' = "render"
    /\ UNCHANGED <<storageVars, request, sourceVars, patchVars, packageVars,
                   result, builds, kills>>

\* A snapshot of the environment, which dependencies are then installed in.
Snapshot ==
    /\ step = "snapshot"
    /\ overlay' = "changed"
    /\ step' = "inside"
    /\ UNCHANGED <<cache, excused, registry, request, sourceVars,
                   patchVars, packageVars, result, builds, kills>>

PrescriptRuns ==
    /\ step = "inside"
    /\ step' = IF request.format = "rpm" THEN "clean" ELSE "export"
    /\ UNCHANGED <<storageVars, request, sourceVars, patchVars, packageVars,
                   result, builds, kills>>

\* Mutant: a prescript that fails ends the build at once.
PrescriptFails_AtOnce ==
    /\ step = "inside"
    /\ BuildEnds("failed")
    /\ UNCHANGED <<storageVars, request, definition, builds, kills>>

\* With RPM the environment is cleaned first, the result being known already.
PrescriptFails ==
    /\ step = "inside"
    /\ IF request.format = "rpm"
       THEN /\ result' = "failed"
            /\ step' = "clean"
            /\ UNCHANGED <<archives, version, patchVars, packageVars>>
       ELSE BuildEnds("failed")
    /\ UNCHANGED <<storageVars, request, definition, builds, kills>>

Clean ==
    /\ step = "clean"
    /\ step' = "scrub"
    /\ UNCHANGED <<storageVars, request, sourceVars, patchVars, packageVars,
                   result, builds, kills>>

Scrub ==
    /\ step = "scrub"
    /\ overlay' = "base"
    /\ excused' = FALSE
    /\ IF result = "failed"
       THEN BuildEnds("failed")
       ELSE /\ step' = "export"
            /\ UNCHANGED <<archives, version, patchVars, packageVars, result>>
    /\ UNCHANGED <<cache, registry, request, definition, builds,
                   kills>>

\* commit_export: a patch file is written if there is a difference.
ExportPatch ==
    /\ step = "export"
    /\ queue' = queue \cup generated
    /\ step' = "render"
    /\ UNCHANGED <<storageVars, request, sourceVars, selected, seen, generated,
                   series, packageVars, result, builds, kills>>

\* Templates are rendered in place.
Render ==
    /\ step = "render"
    /\ selected' = ReadPatches
    /\ step' = "source"
    /\ UNCHANGED <<storageVars, request, sourceVars, queue, seen, generated,
                   series, packageVars, result, builds, kills>>

-----------------------------------------------------------------------------
(* build and publish.                                                      *)

Before(p, q) ==
    \/ p.dir = "generic" /\ q.dir = "version"
    \/ p.dir = q.dir /\ p.index < q.index

\* Mutant: the numbers of the patches alone make the order.
InOrder_ByName(patches) ==
    CHOOSE s \in SetToSeqs(patches) :
        \A i, j \in 1..Len(s) : i < j => s[i].index < s[j].index

\* patches: each subdirectory sorted by name, the generic one first.
InOrder(patches) ==
    CHOOSE s \in SetToSeqs(patches) :
        \A i, j \in 1..Len(s) : i < j => Before(s[i], s[j])

\* The build number above the one of the same version in the registry.
NextNumber ==
    LET existing == registry[request.format]
    IN  IF existing # NoVersion /\ existing.main = version.main
        THEN existing.number + 1 ELSE -1

\* Deb and RPM need a main archive: FatbuildrTaskExecutionError.
SourceFails ==
    /\ step = "source"
    /\ request.format # "osi"
    /\ archives["main"] = "none"
    /\ BuildEnds("failed")
    /\ UNCHANGED <<storageVars, request, definition, builds, kills>>

BuildSource(architectures) ==
    /\ step = "source"
    /\ request.format # "osi"
    /\ archives["main"] # "none"
    /\ series' = InOrder(ReadPatches)
    /\ version' = [version EXCEPT !.number = NextNumber]
    /\ packages' = {"src"}
    /\ targets' = architectures
    /\ step' = "binary"
    /\ UNCHANGED <<storageVars, request, definition, archives, queue, selected,
                   seen, generated, signed, result, builds, kills>>

\* mkosi.
BuildImage ==
    /\ step = "source"
    /\ request.format = "osi"
    /\ packages' = {"image"}
    /\ step' = "publish"
    /\ UNCHANGED <<storageVars, request, sourceVars, patchVars, targets, signed,
                   result, builds, kills>>

\* mock makes the source package anew beside the binary packages.
BuildBinary(a) ==
    /\ step = "binary"
    /\ a \in targets
    /\ targets' = targets \ {a}
    /\ packages' = packages \cup {a}
    /\ signed' = signed \ {a, "src"}
    /\ step' = IF request.format = "rpm" THEN "sign" ELSE "binary"
    /\ UNCHANGED <<storageVars, request, sourceVars, patchVars, result, builds,
                   kills>>

\* Mutant: packages are signed once, when the first ones are built.
SignRpms_Once ==
    /\ step = "sign"
    /\ signed' = IF signed = {} THEN packages ELSE signed
    /\ step' = "binary"
    /\ UNCHANGED <<storageVars, request, sourceVars, patchVars, targets,
                   packages, result, builds, kills>>

\* rpmsign on every RPM file of the workspace.
SignRpms ==
    /\ step = "sign"
    /\ signed' = packages
    /\ step' = "binary"
    /\ UNCHANGED <<storageVars, request, sourceVars, patchVars, targets,
                   packages, result, builds, kills>>

Built ==
    /\ step = "binary"
    /\ targets = {}
    /\ step' = IF request.format = "rpm" THEN "check" ELSE "publish"
    /\ UNCHANGED <<storageVars, request, sourceVars, patchVars, packageVars,
                   result, builds, kills>>

StaticCheck ==
    /\ step = "check"
    /\ step' = "publish"
    /\ UNCHANGED <<storageVars, request, sourceVars, patchVars, packageVars,
                   result, builds, kills>>

\* reprepro passes over a source package older than the one it has.
PassedOver ==
    /\ request.format = "deb"
    /\ registry["deb"] # NoVersion
    /\ registry["deb"].main > version.main

PublishBuild ==
    /\ step = "publish"
    /\ IF request.format = "osi" \/ PassedOver
       THEN UNCHANGED registry
       ELSE registry' = [registry EXCEPT ![request.format] = version]
    /\ BuildEnds("success")
    /\ UNCHANGED <<cache, overlay, excused, request, definition, builds, kills>>

\* A command fails, or an image or an environment does not exist.
BuildFails ==
    /\ step \in {"snapshot", "clean", "scrub", "source", "binary", "sign",
                 "check", "publish"}
    /\ excused' = (excused \/ step \in {"clean", "scrub"})
    /\ BuildEnds("failed")
    /\ UNCHANGED <<cache, overlay, registry, request, definition,
                   builds, kills>>

\* The daemon is killed, or the machine stops.  A download that is cut leaves
\* the file it has opened.
Kill ==
    /\ step # "idle"
    /\ kills < MaxKills
    /\ kills' = kills + 1
    /\ \/ UNCHANGED cache
       \/ /\ step = "collect"
          /\ \E s \in Wanted :
                /\ HasAddress(s)
                /\ cache[FileOf(s)] = NoFile
                /\ cache' = [cache EXCEPT ![FileOf(s)] = Garbage]
    /\ excused' = (excused \/ step \in {"snapshot", "inside", "clean", "scrub"})
    /\ BuildEnds("none")
    /\ UNCHANGED <<overlay, registry, request, definition, builds>>

BuildNext ==
    \/ \E f \in BuildFormats, main \in Upstream \cup {0}, supp \in BOOLEAN :
          Submit(f, main, supp)
    \/ Kill
    \/ \E d \in Definitions \cup {NoDefinition} : LoadFails(d) \/ Load(d)
    \/ \E s \in Sources :
          \/ \E how \in {"escapes", "offline"} : CollectFails(s, how)
          \/ \E right \in BOOLEAN : Download(s, right)
          \/ UseCached(s)
          \/ ChecksumFails(s)
    \/ \E given \in SUBSET GivenPatches : Collected(given)
    \/ Symlinks
    \/ NoPrescript \/ \E changes \in BOOLEAN : PrescriptStarts(changes)
    \/ Snapshot \/ PrescriptRuns \/ PrescriptFails \/ Clean \/ Scrub
    \/ ExportPatch \/ Render
    \/ SourceFails \/ BuildImage
    \/ \E architectures \in (SUBSET Targets) \ {{}} :
          BuildSource(architectures)
    \/ \E a \in targets : BuildBinary(a)
    \/ SignRpms \/ Built \/ StaticCheck \/ PublishBuild
    \/ BuildFails

BuildSpec == BuildInit /\ [][BuildNext]_buildVars

-----------------------------------------------------------------------------
(* Properties.                                                             *)

SourceIsBuilt == step \in {"binary", "sign", "check", "publish"}
                 /\ request.format \in Packaged

(***************************************************************************)
(* Whatever was downloaded before, and however it was cut, the archives    *)
(* that come from the cache are those the definition has checksums for,    *)
(* when they are collected and until the packages are published, and the   *)
(* packages get the version of their main archive                          *)
(* (builds/__init__.py:309-346).                                           *)
(***************************************************************************)
BuildsFromVerified ==
    /\ \A s \in Sources : archives[s] = "cache" =>
          cache[FileOf(s)] = RightArchive(s)
    /\ archives["main"] = "cache" =>
          cache[FileOf("main")].version = version.main

(***************************************************************************)
(* The series of a source package is all the patches there are for its     *)
(* format, those the build has generated too, each once, generic patches   *)
(* first and then in the order of their numbers (repo.adoc:510-515).  The  *)
(* patch made of what the prescript did applies where it was made: there   *)
(* is then no other patch than those of the tree the prescript ran in.     *)
(* The reverse does not hold: that tree has the patches for other formats  *)
(* too (builds/__init__.py:435-437, git.py:284-301).                       *)
(***************************************************************************)
SeriesIsComplete ==
    SourceIsBuilt =>
        /\ Range(series) = Selection
        /\ generated \subseteq Range(series)
        /\ archives["supp"] # "none" => SymlinksPatch \in Range(series)
        /\ \A i, j \in 1..Len(series) : i < j => Before(series[i], series[j])
        /\ seen # NotRead => Range(series) \ {PrescriptPatch} \subseteq seen

(***************************************************************************)
(* A prescript never finds what another one has left in its environment,   *)
(* unless a command that cleans it has failed or never ran                 *)
(* (builds/formats/rpm.py:536-552).                                        *)
(***************************************************************************)
PrescriptStartsClean == step = "snapshot" /\ ~excused => overlay = "base"

(***************************************************************************)
(* RPM packages are published signed, all of them, the source package that *)
(* each architecture makes anew included (builds/formats/rpm.py:381-402).  *)
(***************************************************************************)
PublishedAreSigned ==
    step \in {"check", "publish"} /\ request.format = "rpm" =>
        signed = packages

(***************************************************************************)
(* A worker survives every artifact that says where all its sources are:   *)
(* a download or a cached file that is wrong, and checksums that are       *)
(* missing, make the task fail and no more (builds/__init__.py:337-346).   *)
(***************************************************************************)
WorkerSurvives ==
    result = "escapes" /\ VersionIsKnown(definition)
    /\ request.format \in Packaged =>
        \E s \in DefinedSources(definition) \ Provided : ~HasAddress(s)
=============================================================================
