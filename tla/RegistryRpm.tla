---------------------------- MODULE RegistryRpm ----------------------------
(***************************************************************************)
(* The registry of RPM packages of one distribution and derivative: class  *)
(* RegistryRpm of src/fatbuildr/registry/formats/rpm.py, with the build    *)
(* number a build takes from it (src/fatbuildr/builds/formats/rpm.py).     *)
(*                                                                         *)
(* A repository per architecture, and one for source packages, is a        *)
(* directory of files beside the metadata createrepo_c makes of it.        *)
(* Publications and deletions are tasks of one worker: they exclude each   *)
(* other, and fail or are killed at any point, which leaves what they did. *)
(***************************************************************************)
EXTENDS Integers, FiniteSets

CONSTANTS Architectures,  \* instance.pipelines.architectures
          Artifacts,      \* source packages
          Noarch,         \* those whose binary packages are noarch
          Mains,          \* main, release and dist of an ArtifactVersion,
                          \* release of one character: see the README
          MaxNumber,      \* bound on ArtifactVersion.build
          MaxTasks,       \* bound on the number of tasks
          MaxFailures,    \* bound on the number of tasks that do not end
          NoJob           \* no task

ASSUME ArchitecturesAssumption ==
    /\ IsFiniteSet(Architectures)
    /\ Architectures \cap {"src", "noarch"} = {}
ASSUME NoarchAssumption == Noarch \subseteq Artifacts
ASSUME BoundsAssumption == {MaxNumber, MaxTasks, MaxFailures} \subseteq Nat

Repos == Architectures \cup {"src"}

\* A version without build number has the number -1.
Versions == [main : Mains, number : -1..MaxNumber]

Packages == [artifact : Artifacts,
             arch : Repos \cup {"noarch"},
             version : Versions]

VARIABLES
    dirs,      \* directories of repositories that exist
    files,     \* per repository, the packages in its directory
    meta,      \* per repository, the packages its metadata names
    indexed,   \* repositories that have metadata
    job,       \* the task in progress
    toVisit,   \* repositories delete_artifact has still to visit
    toRemove,  \* <<repository, package>> pairs still to be removed
    toCopy,    \* <<repository, package>> pairs still to be copied
    toIndex,   \* repositories whose metadata is still to be updated
    current,   \* history: per artifact, what the tasks have promised is there
    unsettled, \* history: per artifact, the complete publications it takes to
               \* make up for a task that did not end
    tasks,     \* history: number of tasks
    failures   \* history: number of tasks that did not end

storeVars == <<dirs, files, meta, indexed>>
todoVars == <<toVisit, toRemove, toCopy, toIndex>>
histVars == <<current, unsettled, failures>>

rpmVars == <<storeVars, job, todoVars, histVars, tasks>>

Jobs == [kind : {"publish"}, artifact : Artifacts, rpms : SUBSET Packages]
        \cup [kind : {"delete"}, artifact : Artifacts,
              arch : Repos \cup {"noarch"}]

ASSUME NoJobAssumption == NoJob \notin Jobs

NothingLeft == toVisit = {} /\ toRemove = {} /\ toCopy = {} /\ toIndex = {}

RpmTypeOK ==
    /\ dirs \subseteq Repos
    /\ indexed \subseteq dirs
    /\ \A r \in Repos :
          /\ files[r] \cup meta[r] \subseteq Packages
          /\ files[r] # {} => r \in dirs
          /\ meta[r] # {} => r \in indexed
    /\ job = NoJob => NothingLeft
    /\ toVisit \cup toIndex \subseteq Repos
    /\ toRemove \cup toCopy \subseteq Repos \X Packages
    /\ \A a \in Artifacts : current[a] \subseteq Repos \X Packages
    /\ unsettled \in [Artifacts -> 0..2]
    /\ tasks \in 0..MaxTasks
    /\ failures \in 0..MaxFailures

RpmInit ==
    /\ dirs = {}
    /\ files = [r \in Repos |-> {}]
    /\ meta = [r \in Repos |-> {}]
    /\ indexed = {}
    /\ job = NoJob
    /\ toVisit = {} /\ toRemove = {} /\ toCopy = {} /\ toIndex = {}
    /\ current = [a \in Artifacts |-> {}]
    /\ unsettled = [a \in Artifacts |-> 0]
    /\ tasks = 0
    /\ failures = 0

-----------------------------------------------------------------------------
(* Builds: the packages and their version.                                 *)

\* source_version: of the first source package of that name in the metadata.
SourceVersions(a) ==
    {p.version : p \in {q \in meta["src"] : q.artifact = a /\ q.arch = "src"}}

\* Mutant: the number is taken over, not incremented.
Bumped_Same(main, existing) ==
    IF existing.main = main THEN existing ELSE [main |-> main, number |-> -1]

\* The version of a build beside an existing one (ArtifactVersion.__eq__
\* leaves the number out).
Bumped(main, existing) ==
    [main |-> main,
     number |-> IF existing.main = main THEN existing.number + 1 ELSE -1]

BuildVersions(a, main) ==
    IF SourceVersions(a) = {}
    THEN {[main |-> main, number |-> -1]}
    ELSE {Bumped(main, v) : v \in SourceVersions(a)}

Package(a, arch, v) == [artifact |-> a, arch |-> arch, version |-> v]

\* The packages of a build: those of every architecture it is asked for, or a
\* noarch package, and the source package.
Rpms(a, archs, v) ==
    {Package(a, arch, v) : arch \in IF a \in Noarch THEN {"noarch"} ELSE archs}
    \cup {Package(a, "src", v)}

\* noarch packages are duplicated in the repositories of all architectures.
Homes(p) == IF p.arch = "noarch" THEN Architectures ELSE {p.arch}

Placed(rpms) == UNION {Homes(p) \X {p} : p \in rpms}

-----------------------------------------------------------------------------
(* publish.                                                                *)

StartTask == job = NoJob /\ tasks < MaxTasks /\ tasks' = tasks + 1

\* Mutant: the source repository is forgotten.
Involved_Binaries(rpms) == UNION {Homes(p) : p \in rpms} \ {"src"}

\* The repositories whose metadata publish updates.
Involved(rpms) == UNION {Homes(p) : p \in rpms}

\* _remove_deprecated_rpms: what the metadata of any repository names.
Deprecated(a, rpms) ==
    {x \in Repos \X UNION {meta[r] : r \in Repos} :
        x[2] \in meta[x[1]] /\ x[2].artifact = a}

PublishStart(a, archs, main, v) ==
    /\ StartTask
    /\ archs # {}
    /\ v \in BuildVersions(a, main)
    /\ v.number <= MaxNumber
    /\ LET rpms == Rpms(a, archs, v) IN
          /\ job' = [kind |-> "publish", artifact |-> a, rpms |-> rpms]
          /\ toRemove' = Deprecated(a, rpms)
          /\ toCopy' = Placed(rpms)
          /\ toIndex' = Involved(rpms)
    /\ UNCHANGED <<storeVars, toVisit, histVars>>

\* Architectures are searched in any order, the source repository last.  A
\* file that is not there is passed over.
RemoveRpm(r, p) ==
    /\ <<r, p>> \in toRemove
    /\ r = "src" => \A pair \in toRemove : pair[1] = "src"
    /\ files' = [files EXCEPT ![r] = @ \ {p}]
    /\ toRemove' = toRemove \ {<<r, p>>}
    /\ UNCHANGED <<dirs, meta, indexed, job, toVisit, toCopy, toIndex, histVars,
                   tasks>>

\* _publish_rpm_arch: the directory is made if it is missing.
CopyRpm(r, p) ==
    /\ toRemove = {}
    /\ <<r, p>> \in toCopy
    /\ dirs' = dirs \cup {r}
    /\ files' = [files EXCEPT ![r] = @ \cup {p}]
    /\ toCopy' = toCopy \ {<<r, p>>}
    /\ UNCHANGED <<meta, indexed, job, toVisit, toRemove, toIndex, histVars,
                   tasks>>

\* createrepo_c --update replaces the metadata at once, or fails.
IndexRepo(r) ==
    /\ toRemove = {} /\ toCopy = {}
    /\ r \in toIndex
    /\ meta' = [meta EXCEPT ![r] = files[r]]
    /\ indexed' = indexed \cup {r}
    /\ toIndex' = toIndex \ {r}
    /\ UNCHANGED <<dirs, files, job, toVisit, toRemove, toCopy, histVars,
                   tasks>>

Finished == job # NoJob /\ NothingLeft

Complete(rpms) == Involved(rpms) = Repos

PublishDone ==
    /\ Finished
    /\ job.kind = "publish"
    /\ current' = [current EXCEPT ![job.artifact] = Placed(job.rpms)]
    /\ unsettled' = [unsettled EXCEPT ![job.artifact] =
                        IF @ > 0 /\ Complete(job.rpms) THEN @ - 1 ELSE @]
    /\ job' = NoJob
    /\ UNCHANGED <<storeVars, todoVars, failures, tasks>>

-----------------------------------------------------------------------------
(* delete_artifact, for the package of an artifact in one architecture.    *)

DeleteStart(a, arch) ==
    /\ StartTask
    /\ job' = [kind |-> "delete", artifact |-> a, arch |-> arch]
    /\ toVisit' = IF arch = "noarch" THEN Architectures ELSE {arch}
    /\ UNCHANGED <<storeVars, toRemove, toCopy, toIndex, histVars>>

\* The metadata of the next repository is loaded.  All versions go.
DeleteVisit(r) ==
    /\ r \in toVisit
    /\ toRemove = {} /\ toIndex = {}
    /\ r \in indexed
    /\ toRemove' = {r} \X {p \in meta[r] : p.artifact = job.artifact
                                           /\ p.arch = job.arch}
    /\ toIndex' = {r}
    /\ toVisit' = toVisit \ {r}
    /\ UNCHANGED <<storeVars, job, toCopy, histVars, tasks>>

\* The metadata cannot be loaded: OSError ends the task.
DeleteAborts(r) ==
    /\ r \in toVisit
    /\ toRemove = {} /\ toIndex = {}
    /\ r \notin indexed
    /\ toVisit' = {}
    /\ job' = NoJob
    /\ UNCHANGED <<storeVars, toRemove, toCopy, toIndex, histVars, tasks>>

DeleteDone ==
    /\ Finished
    /\ job.kind = "delete"
    /\ current' = [current EXCEPT ![job.artifact] =
                      {pair \in @ : pair[2].arch # job.arch}]
    /\ job' = NoJob
    /\ UNCHANGED <<storeVars, todoVars, unsettled, failures, tasks>>

-----------------------------------------------------------------------------

\* The task fails in a command or a file operation, or the daemon is killed.
Interrupt ==
    /\ job # NoJob
    /\ failures < MaxFailures
    /\ failures' = failures + 1
    /\ job' = NoJob
    /\ toVisit' = {} /\ toRemove' = {} /\ toCopy' = {} /\ toIndex' = {}
    /\ unsettled' = [unsettled EXCEPT ![job.artifact] = 2]
    /\ UNCHANGED <<storeVars, current, tasks>>

RpmNext ==
    \/ \E a \in Artifacts, archs \in SUBSET Architectures, main \in Mains :
          \E v \in BuildVersions(a, main) : PublishStart(a, archs, main, v)
    \/ \E pair \in toRemove : RemoveRpm(pair[1], pair[2])
    \/ \E pair \in toCopy : CopyRpm(pair[1], pair[2])
    \/ \E r \in toIndex : IndexRepo(r)
    \/ PublishDone
    \/ \E a \in Artifacts, arch \in Repos \cup {"noarch"} : DeleteStart(a, arch)
    \/ \E r \in toVisit : DeleteVisit(r) \/ DeleteAborts(r)
    \/ DeleteDone
    \/ Interrupt

RpmSpec == RpmInit /\ [][RpmNext]_rpmVars

-----------------------------------------------------------------------------
(* Properties.                                                             *)

FilesOf(a) == {x \in Repos \X UNION {files[r] : r \in Repos} :
                  x[2] \in files[x[1]] /\ x[2].artifact = a}

NamesOf(a, r) == {p \in meta[r] : p.artifact = a}

Settled(a) == unsettled[a] = 0 /\ (job = NoJob \/ job.artifact # a)

(***************************************************************************)
(* The registry holds what the tasks promised: the files of an artifact    *)
(* are those of its last publication, but for what was deleted since, with *)
(* nothing left of former versions, and the metadata of each repository    *)
(* that has any names exactly them.  That is so whatever tasks of other    *)
(* artifacts fail, and again after two complete publications that follow a *)
(* failure of its own (rpm.py:126-161, 394-436).                           *)
(***************************************************************************)
SettledIsCurrent ==
    \A a \in Artifacts : Settled(a) =>
        /\ FilesOf(a) = current[a]
        /\ \A r \in Repos :
              (\E pair \in current[a] : pair[1] = r) =>
                  {r} \X NamesOf(a, r) = {pair \in current[a] : pair[1] = r}

HasSource(a) == \E pair \in current[a] : pair[1] = "src"

(***************************************************************************)
(* A build never gives new packages a version that packages of its         *)
(* artifact in the registry have, as long as the source package is there   *)
(* (builds/formats/rpm.py:211-231).                                        *)
(***************************************************************************)
BuildIsNew ==
    [][ \A a \in Artifacts :
          Settled(a) /\ HasSource(a) /\ job' # NoJob /\ job'.artifact = a
          /\ job'.kind = "publish" =>
              \A p \in job'.rpms, pair \in FilesOf(a) :
                  p.version # pair[2].version ]_rpmVars

\* artifacts: what the packages of all repositories are, or nothing as soon
\* as one has no metadata.
Listing ==
    IF dirs \subseteq indexed THEN UNION {meta[r] : r \in dirs} ELSE {}

ListedOf(a) == {p \in Listing : p.artifact = a}

ThereOf(a) == {pair[2] : pair \in FilesOf(a)}

\* The last publication of the artifact put nothing in r, or it was deleted
\* since.
LeftOut(a, r) == \A pair \in current[a] : pair[1] # r

\* A directory was made and not indexed, by the publication in progress or by
\* one that failed and that no complete one of the same artifact followed.
HalfPublished ==
    /\ ~(dirs \subseteq indexed)
    /\ dirs \ indexed \subseteq toIndex \/ \E a \in Artifacts : unsettled[a] = 2

(***************************************************************************)
(* Unless it is empty, the listing of a client names every package of an   *)
(* artifact that is in the registry, also while tasks of other artifacts   *)
(* run or after they failed, and nothing that is not there, with one       *)
(* exception: a publication that leaves a repository out removes what was  *)
(* there and does not index it, and its metadata goes on naming packages   *)
(* that are gone.  The listing is empty, whatever the registry holds, only *)
(* when a publication made a directory it has not indexed: as long as it   *)
(* is in progress or, if it failed, until a complete one of its artifact   *)
(* (rpm.py:126-161, 188-218).                                              *)
(***************************************************************************)
ListingIsExact ==
    \/ HalfPublished
    \/ /\ dirs \subseteq indexed
       /\ \A a \in Artifacts : Settled(a) =>
             /\ ThereOf(a) \subseteq ListedOf(a)
             /\ \A p \in ListedOf(a) \ ThereOf(a), r \in Repos :
                   p \in meta[r] => LeftOut(a, r)
=============================================================================
