---------------------------- MODULE RegistryDeb ----------------------------
(***************************************************************************)
(* The registry of Deb packages: class RegistryDeb of                      *)
(* src/fatbuildr/registry/formats/deb.py, with the build number a build    *)
(* takes from it (src/fatbuildr/builds/formats/deb.py).                    *)
(*                                                                         *)
(* reprepro, which is external, keeps the packages in a database of lines, *)
(* one for each architecture a package is in, and exports each             *)
(* distribution it changes in a directory under dists/.  It takes the      *)
(* distributions and components from a file that each publication writes   *)
(* anew.  An artifact has a source package and a binary one of the same    *)
(* name.  Publications and deletions are tasks of one worker.              *)
(***************************************************************************)
EXTENDS Integers, FiniteSets

CONSTANTS Distributions,  \* of the pipelines
          Derivatives,    \* of the pipelines
          DebPlaces,      \* the distribution and derivative of builds
          DebArtifacts,   \* source packages
          DebNoarch,      \* those whose binary package is noarch
          DebMains,       \* what precedes the build number in versions
          MaxDebNumber,   \* bound on the build number
          MaxDebTasks,    \* bound on the number of tasks
          MaxDebFailures, \* bound on the publications that do not end
          NoPublication   \* no task

ASSUME DebPlacesAssumption == DebPlaces \subseteq Distributions \X Derivatives
ASSUME DebNoarchAssumption == DebNoarch \subseteq DebArtifacts
ASSUME DebMainsAssumption == DebMains \subseteq Nat
ASSUME DebBoundsAssumption ==
    {MaxDebNumber, MaxDebTasks, MaxDebFailures} \subseteq Nat

\* ArchMap: the architectures of the pipelines, and two more.
Native == [x86_64 |-> "amd64", aarch64 |-> "arm64", src |-> "source",
           noarch |-> "all"]
DebArchitectures == {"x86_64", "aarch64"}

\* Architectures of the repository.
Locations == {Native[x] : x \in DebArchitectures \cup {"src"}}

\* A version without build number has the number -1.
DebVersions == [main : DebMains, number : -1..MaxDebNumber]

\* What reprepro lists: arch is a field of the package, loc is the
\* architecture of the repository it is listed in.
Lines == [place : DebPlaces, name : DebArtifacts, arch : Locations \cup {"all"},
          loc : Locations, version : DebVersions]

VARIABLES
    lines,        \* the database of reprepro
    dists,        \* directories under dists/
    conf,         \* the configuration file
    confDists,    \* the distributions it names
    confComps,    \* the components it names
    publication,  \* the publication in progress
    debPhase,     \* where it is
    toInclude,    \* architectures whose changes file is still to be included
    passed,       \* history: a package was older than the one there is
    promised,     \* history: per artifact, the lines that tasks have promised
    doubtful,     \* history: artifacts and places whose last publication was
                  \* not complete
    debTasks,     \* history: number of tasks
    debFailures   \* history: number of publications that did not end

debStoreVars == <<lines, dists, conf, confDists, confComps>>
debHistVars == <<promised, doubtful, debFailures>>
debVars == <<debStoreVars, publication, debPhase, toInclude, passed,
             debHistVars, debTasks>>

Publications ==
    [artifact : DebArtifacts, place : DebPlaces, version : DebVersions,
     archs : SUBSET DebArchitectures]

ASSUME NoPublicationAssumption == NoPublication \notin Publications

DebTypeOK ==
    /\ lines \subseteq Lines
    /\ dists \subseteq Distributions
    /\ conf \in {"missing", "empty", "written"}
    /\ confDists \subseteq Distributions
    /\ confComps \subseteq Derivatives
    /\ publication \in Publications \cup {NoPublication}
    /\ debPhase \in {"idle", "open", "write", "include", "export"}
    /\ toInclude \subseteq DebArchitectures
    /\ passed \in BOOLEAN
    /\ \A a \in DebArtifacts : promised[a] \subseteq Lines
    /\ doubtful \subseteq DebArtifacts \X DebPlaces
    /\ debTasks \in 0..MaxDebTasks
    /\ debFailures \in 0..MaxDebFailures

DebInit ==
    /\ lines = {}
    /\ dists = {}
    /\ conf = "missing"
    /\ confDists = {} /\ confComps = {}
    /\ publication = NoPublication
    /\ debPhase = "idle"
    /\ toInclude = {}
    /\ passed = FALSE
    /\ promised = [a \in DebArtifacts |-> {}]
    /\ doubtful = {}
    /\ debTasks = 0
    /\ debFailures = 0

-----------------------------------------------------------------------------
(* What the registry says.                                                 *)

\* components: the directories of the pool, which reprepro removes when they
\* are empty.
Components == {l.place[2] : l \in lines}

\* reprepro list.
LinesOf(place, a) == {l \in lines : l.place = place /\ l.name = a}

\* _check_derivative: a distribution has all components of the pool.
Known(place) == place[1] \in dists /\ place[2] \in Components

\* artifacts and source_version do without reprepro, which fails when the
\* configuration is empty.
IsEmpty(place) == conf = "missing" \/ ~Known(place)

\* source_version: None, or the version in the line of the source package.
DebSourceVersions(place, a) ==
    IF IsEmpty(place) THEN {}
    ELSE {l.version : l \in {k \in LinesOf(place, a) : k.loc = "source"}}

\* The version of a build, if it does not fail: see Bumped in RegistryRpm.
DebBuildVersions(place, a, main) ==
    IF conf = "empty" /\ ~IsEmpty(place) THEN {}
    ELSE IF DebSourceVersions(place, a) = {}
    THEN {[main |-> main, number |-> -1]}
    ELSE {[main |-> main,
           number |-> IF v.main = main THEN v.number + 1 ELSE -1] :
              v \in DebSourceVersions(place, a)}

Normalized(arch) == CHOOSE x \in DOMAIN Native : Native[x] = arch

Entry(l, arch) ==
    [name |-> l.name, arch |-> Normalized(arch), version |-> l.version]

\* Mutant: the architecture the package is listed in.
DebListing_Locations(place) ==
    IF IsEmpty(place) \/ conf = "empty" THEN {}
    ELSE {Entry(l, l.loc) : l \in {k \in lines : k.place = place}}

\* artifacts, without duplicates.
DebListing(place) ==
    IF IsEmpty(place) \/ conf = "empty" THEN {}
    ELSE {Entry(l, IF l.loc = "source" THEN l.loc ELSE l.arch) :
             l \in {k \in lines : k.place = place}}

\* artifact_bins, and the binary package whose source artifact_src names.
Bins(place, a) ==
    {Entry(l, l.arch) : l \in {k \in LinesOf(place, a) : k.loc # "source"}}

\* The file changelog reads, _package_dsc_path or _package_deb_path, and
\* artifact_content for a binary package: that of the first line that fits.
FilesFor(place, a, arch) ==
    IF arch = "src" THEN {l \in LinesOf(place, a) : l.loc = "source"}
    ELSE {l \in LinesOf(place, a) : l.arch = Native[arch]}

-----------------------------------------------------------------------------
(* publish.                                                                *)

Line(place, a, arch, loc, v) ==
    [place |-> place, name |-> a, arch |-> arch, loc |-> loc, version |-> v]

\* The packages a changes file names: the source package too (-sa).  A noarch
\* package goes in all architectures.
ChangesFile(place, a, x, v) ==
    {Line(place, a, "source", "source", v)}
    \cup IF a \in DebNoarch
         THEN {Line(place, a, "all", Native[y], v) : y \in DebArchitectures}
         ELSE {Line(place, a, Native[x], Native[x], v)}

PackagesOf(p) ==
    UNION {ChangesFile(p.place, p.artifact, x, p.version) : x \in p.archs}

DebStart(a, place, archs, v) ==
    /\ publication = NoPublication
    /\ debTasks < MaxDebTasks
    /\ archs # {}
    /\ v.number <= MaxDebNumber
    /\ debTasks' = debTasks + 1
    /\ publication' = [artifact |-> a, place |-> place, version |-> v,
                       archs |-> archs]
    /\ debPhase' = "open"
    /\ passed' = FALSE
    /\ UNCHANGED <<debStoreVars, toInclude, debHistVars>>

\* What the configuration file is about to name: what the registry has, and
\* what the build needs.
ConfDists == dists \cup {publication.place[1]}

ConfComps == Components \cup {publication.place[2]}

\* open(..., 'w+') leaves an empty file.
OpenConf ==
    /\ debPhase = "open"
    /\ conf' = "empty"
    /\ confDists' = {} /\ confComps' = {}
    /\ debPhase' = "write"
    /\ UNCHANGED <<lines, dists, publication, toInclude, passed, debHistVars,
                   debTasks>>

\* The agent of the keyring is loaded next.
WriteConf ==
    /\ debPhase = "write"
    /\ conf' = "written"
    /\ confDists' = ConfDists /\ confComps' = ConfComps
    /\ toInclude' = publication.archs
    /\ debPhase' = "include"
    /\ UNCHANGED <<lines, dists, publication, passed, debHistVars, debTasks>>

Older(v, w) ==
    v.main < w.main \/ (v.main = w.main /\ v.number < w.number)

\* The line of the same package, if there is one.
Former(l) == {k \in lines : k.place = l.place /\ k.name = l.name
                            /\ k.loc = l.loc}

Obsolete(l) == \E k \in Former(l) : Older(l.version, k.version)

\* Mutant: the source package has a changes file of its own, and is skipped.
IncludedLines_Binary(x) ==
    {l \in ChangesFile(publication.place, publication.artifact, x,
                   publication.version) : l.loc # "source"}

IncludedLines(x) ==
    ChangesFile(publication.place, publication.artifact, x, publication.version)

\* reprepro include: changes files come in any order, *_source.changes is
\* skipped.
Include(x) ==
    /\ debPhase = "include"
    /\ x \in toInclude
    /\ LET new == {l \in IncludedLines(x) : ~Obsolete(l)} IN
          /\ lines' = (lines \ UNION {Former(l) : l \in new}) \cup new
          /\ passed' = (passed \/ new # IncludedLines(x))
    /\ toInclude' = toInclude \ {x}
    /\ debPhase' = "export"
    /\ UNCHANGED <<dists, conf, confDists, confComps, publication, debHistVars,
                   debTasks>>

ExportDist ==
    /\ debPhase = "export"
    /\ dists' = dists \cup {publication.place[1]}
    /\ debPhase' = "include"
    /\ UNCHANGED <<lines, conf, confDists, confComps, publication, toInclude,
                   passed, debHistVars, debTasks>>

IsComplete(p) == p.archs = DebArchitectures \/ p.artifact \in DebNoarch

DebPublished ==
    /\ debPhase = "include"
    /\ toInclude = {}
    /\ LET p == publication
           here == {l \in promised[p.artifact] : l.place = p.place}
       IN  /\ promised' = [promised EXCEPT ![p.artifact] =
                              (@ \ here) \cup PackagesOf(p)]
           /\ doubtful' = IF IsComplete(p) /\ ~passed
                          THEN doubtful \ {<<p.artifact, p.place>>}
                          ELSE doubtful \cup {<<p.artifact, p.place>>}
    /\ publication' = NoPublication
    /\ debPhase' = "idle"
    /\ UNCHANGED <<debStoreVars, toInclude, passed, debTasks, debFailures>>

\* The task fails in a command, or the daemon is killed.
DebInterrupt ==
    /\ publication # NoPublication
    /\ debFailures < MaxDebFailures
    /\ debFailures' = debFailures + 1
    /\ doubtful' =
          doubtful \cup {<<publication.artifact, publication.place>>}
    /\ publication' = NoPublication
    /\ debPhase' = "idle"
    /\ toInclude' = {}
    /\ UNCHANGED <<debStoreVars, passed, promised, debTasks>>

-----------------------------------------------------------------------------
(* delete_artifact.                                                        *)

\* A noarch package is removed from all architectures.
Removed(place, a, arch) ==
    {l \in LinesOf(place, a) :
        l.loc \in IF arch = "noarch" THEN {Native[y] : y \in DebArchitectures}
                  ELSE {Native[arch]}}

\* What a user deletes is an entry of the listing, by name and architecture.
DebDelete(place, a, arch) ==
    /\ publication = NoPublication
    /\ debTasks < MaxDebTasks
    /\ \E e \in DebListing(place) : e.name = a /\ e.arch = arch
    /\ place[1] \in confDists /\ place[2] \in confComps
    /\ debTasks' = debTasks + 1
    /\ lines' = lines \ Removed(place, a, arch)
    /\ promised' = [promised EXCEPT ![a] =
          {l \in @ : l.place # place \/ l.arch # Native[arch]}]
    /\ UNCHANGED <<dists, conf, confDists, confComps, publication, debPhase,
                   toInclude, passed, doubtful, debFailures>>

DebNext ==
    \/ \E a \in DebArtifacts, place \in DebPlaces, main \in DebMains,
          archs \in SUBSET DebArchitectures :
          \E v \in DebBuildVersions(place, a, main) :
              DebStart(a, place, archs, v)
    \/ OpenConf \/ WriteConf
    \/ \E x \in toInclude : Include(x)
    \/ ExportDist \/ DebPublished \/ DebInterrupt
    \/ \E a \in DebArtifacts, place \in DebPlaces, arch \in DOMAIN Native :
          DebDelete(place, a, arch)

DebSpec == DebInit /\ [][DebNext]_debVars

-----------------------------------------------------------------------------
(* Properties.                                                             *)

IsSettled(a, place) ==
    /\ <<a, place>> \notin doubtful
    /\ publication # NoPublication =>
          publication.artifact # a \/ publication.place # place

(***************************************************************************)
(* After a complete publication that replaced what was there, the packages *)
(* of an artifact are those of that publication, source and binary, in     *)
(* every architecture they belong to, less those deleted since; tasks of   *)
(* other artifacts, distributions and derivatives change nothing of it     *)
(* (deb.py:135-167, 488-519).                                              *)
(***************************************************************************)
DebSettledIsCurrent ==
    \A a \in DebArtifacts, place \in DebPlaces : IsSettled(a, place) =>
        LinesOf(place, a) = {l \in promised[a] : l.place = place}

(***************************************************************************)
(* The configuration a publication gives to reprepro names every           *)
(* distribution and component that has packages, without which reprepro    *)
(* refuses to do anything: only a distribution that was never exported,    *)
(* its first publication having failed, may be left out (deb.py:110-130).  *)
(***************************************************************************)
ConfNamesAll ==
    debPhase = "include" =>
        \A l \in lines : l.place[2] \in confComps
                         /\ (l.place[1] \in dists => l.place[1] \in confDists)

(***************************************************************************)
(* As RegistryRpm's BuildIsNew: a build never gives its packages a version *)
(* that packages of the artifact have there, as long as its source package *)
(* is there and the last publication was complete (deb.py:288-327).        *)
(***************************************************************************)
DebBuildIsNew ==
    [][ \A a \in DebArtifacts, place \in DebPlaces :
          (\E l \in promised[a] : l.place = place /\ l.loc = "source")
          /\ publication = NoPublication /\ publication' # NoPublication
          /\ publication'.artifact = a /\ publication'.place = place
          /\ IsSettled(a, place) =>
              \A l \in LinesOf(place, a) : l.version # publication'.version
      ]_debVars

Promised(a, place) == {l \in promised[a] : l.place = place}

Entries(ls) == {Entry(l, l.arch) : l \in ls}

\* A publication is between opening the configuration and writing it, or was
\* stopped there.
HalfConfigured ==
    conf = "empty" /\ (debPhase = "write" \/ doubtful # {})

(***************************************************************************)
(* Unless the configuration is empty, what a client is told of an artifact *)
(* whose last publication was complete is what the tasks promised, no more *)
(* and no less, by name, architecture and version, and the file it is then *)
(* given for an entry has the version of the entry.  reprepro can list     *)
(* nothing only while a publication writes the configuration or after one  *)
(* that failed, of any artifact (deb.py:121-139, 169-286, 329-388).        *)
(***************************************************************************)
ListedIsPromised ==
    \/ HalfConfigured
    \/ /\ conf # "empty"
       /\ \A a \in DebArtifacts, place \in DebPlaces : IsSettled(a, place) =>
             LET listed == {e \in DebListing(place) : e.name = a} IN
             /\ listed = Entries(Promised(a, place))
             /\ Bins(place, a) =
                   Entries({l \in Promised(a, place) : l.loc # "source"})
             /\ \A e \in listed :
                   {l.version : l \in FilesFor(place, a, e.arch)} = {e.version}
=============================================================================
