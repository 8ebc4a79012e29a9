--------------------------- MODULE RegistryProofs ---------------------------
(***************************************************************************)
(* The two package registries.                                             *)
(***************************************************************************)
EXTENDS RegistryRpm, RegistryDeb, TLAPS

-----------------------------------------------------------------------------
(***************************************************************************)
(* The RPM registry, for any artifacts and architectures, and any number   *)
(* of publications, deletions and failures.                                *)
(***************************************************************************)

IsPublish == job # NoJob /\ job.kind = "publish"
IsDelete == job # NoJob /\ job.kind = "delete"

\* The repositories of the packages of an architecture: see Homes.
HomesOf(arch) == IF arch = "noarch" THEN Architectures ELSE {arch}

RpmTypes ==
    /\ files \in [Repos -> SUBSET Packages]
    /\ meta \in [Repos -> SUBSET Packages]
    /\ toRemove \cup toCopy \subseteq Repos \X Packages
    /\ toVisit \cup toIndex \subseteq Repos
    /\ indexed \subseteq dirs
    /\ current \in [Artifacts -> SUBSET (Repos \X Packages)]
    /\ unsettled \in [Artifacts -> 0..2]
    /\ failures \in Nat

JobShape ==
    /\ job # NoJob => job \in Jobs
    /\ job = NoJob => NothingLeft
    /\ IsPublish => toVisit = {}
    /\ \A r \in Repos, p \in Packages :
          <<r, p>> \in toRemove => p.artifact = job.artifact
    /\ IsDelete => /\ toCopy = {}
                   /\ toVisit \subseteq HomesOf(job.arch)
                   /\ toIndex \subseteq HomesOf(job.arch) \ toVisit
                   /\ \A r \in Repos, p \in Packages :
                         <<r, p>> \in toRemove =>
                             r \in toIndex /\ p.arch = job.arch

\* What was promised is of one version, and noarch packages are everywhere.
PromiseOf(a, pairs) ==
    \A r \in Repos, p \in Packages : <<r, p>> \in pairs =>
        /\ p.artifact = a
        /\ r \in HomesOf(p.arch)
        /\ \A h \in HomesOf(p.arch) : <<h, p>> \in pairs
        /\ \A s \in Repos, q \in Packages :
              <<s, q>> \in pairs => q.version = p.version

CurrentShape == \A a \in Artifacts : PromiseOf(a, current[a])

\* The progress of a publication.
PublishShape == IsPublish =>
    /\ \A p \in job.rpms : p.artifact = job.artifact
    /\ \A p, q \in job.rpms : p.version = q.version
    /\ toCopy \subseteq Placed(job.rpms)
    /\ toRemove # {} => toCopy = Placed(job.rpms)
    /\ toRemove # {} \/ toCopy # {} => toIndex = Involved(job.rpms)
    /\ \A r \in Repos, p \in Packages :
          <<r, p>> \in Placed(job.rpms) \ toCopy => p \in files[r]
    /\ unsettled[job.artifact] < 2 =>
          \A r \in Repos : \A p \in files[r] : p.artifact = job.artifact =>
              <<r, p>> \in toRemove \cup (Placed(job.rpms) \ toCopy)
    /\ \A r \in Involved(job.rpms) \ toIndex : meta[r] = files[r]

\* The files of an artifact have a name, but for two publications after a
\* failure and during one.
NamedShape ==
    \A a \in Artifacts :
        unsettled[a] < 2 /\ ~(IsPublish /\ job.artifact = a) =>
            \A r \in Repos : \A p \in files[r] :
                p.artifact = a => p \in meta[r]

\* The names an artifact has in a repository are those promised, if any is.
NamesAreCurrent(a, r) ==
    (\E p \in Packages : <<r, p>> \in current[a]) =>
        \A p \in Packages : p \in meta[r] /\ p.artifact = a
                            <=> <<r, p>> \in current[a]

\* The progress of a deletion.
DeleteShape == IsDelete /\ unsettled[job.artifact] = 0 =>
    LET a == job.artifact IN
    /\ \A r \in Repos, p \in Packages :
          p \in files[r] /\ p.artifact = a => <<r, p>> \in current[a]
    /\ \A r \in Repos, p \in Packages :
          <<r, p>> \in current[a] /\ p \notin files[r] => p.arch = job.arch
    /\ \A r \in HomesOf(job.arch) \ toVisit : \A p \in files[r] :
          p.artifact = a /\ p.arch = job.arch => <<r, p>> \in toRemove
    /\ \A r \in Repos : r \in toVisit \/ r \notin HomesOf(job.arch) =>
          NamesAreCurrent(a, r)
    /\ \A r \in HomesOf(job.arch) \ toVisit :
          r \in toIndex \/ meta[r] = files[r]

SettledShape ==
    \A a \in Artifacts : Settled(a) => \A r \in Repos :
        /\ \A p \in Packages : p \in files[r] /\ p.artifact = a
                               <=> <<r, p>> \in current[a]
        /\ NamesAreCurrent(a, r)

\* A directory is on its way to have metadata, unless a task failed that no
\* complete publication of its artifact followed.
ListShape ==
    /\ \A r \in Repos : meta[r] # {} => r \in indexed
    /\ \A r \in toIndex : r \in dirs \/ \E p \in Packages : <<r, p>> \in toCopy
    /\ \A r \in Repos, p \in Packages : <<r, p>> \in toCopy => r \in toIndex
    /\ dirs \subseteq Repos
    /\ \/ dirs \subseteq indexed \cup toIndex
       \/ \E a \in Artifacts : unsettled[a] = 2
    /\ IsPublish => Involved(job.rpms) \subseteq indexed \cup toIndex

RpmIInv ==
    /\ RpmTypes /\ JobShape /\ CurrentShape /\ PublishShape /\ NamedShape
    /\ DeleteShape /\ SettledShape /\ ListShape

-----------------------------------------------------------------------------

LEMMA HomesTypes ==
  ASSUME NEW p \in Packages
  PROVE  /\ Homes(p) = HomesOf(p.arch)
         /\ Homes(p) \subseteq Repos
  BY DEF Homes, HomesOf, Packages, Repos

LEMMA PlacedPairs ==
  ASSUME NEW rpms \in SUBSET Packages
  PROVE  /\ Placed(rpms) \subseteq Repos \X Packages
         /\ \A r, p : <<r, p>> \in Placed(rpms) <=> p \in rpms /\ r \in Homes(p)
         /\ \A r : r \in Involved(rpms) <=>
                      \E p \in Packages : <<r, p>> \in Placed(rpms)
  <1>1. \A r, p : <<r, p>> \in Placed(rpms) <=> p \in rpms /\ r \in Homes(p)
    BY DEF Placed
  <1>2. Placed(rpms) \subseteq Repos \X Packages
    BY HomesTypes DEF Placed
  <1>3. \A r : r \in Involved(rpms) <=>
                  \E p \in Packages : <<r, p>> \in Placed(rpms)
    BY <1>1 DEF Involved
  <1>4. QED
    BY <1>1, <1>2, <1>3

LEMMA DeprecatedPairs ==
  ASSUME RpmTypes, NEW a, NEW rpms
  PROVE  /\ Deprecated(a, rpms) \subseteq Repos \X Packages
         /\ \A r, p : <<r, p>> \in Deprecated(a, rpms) <=>
                         r \in Repos /\ p \in meta[r] /\ p.artifact = a
  BY DEF Deprecated, RpmTypes

LEMMA FilesPairs ==
  ASSUME RpmTypes, NEW a
  PROVE  /\ FilesOf(a) \subseteq Repos \X Packages
         /\ \A r, p : <<r, p>> \in FilesOf(a) <=>
                         r \in Repos /\ p \in files[r] /\ p.artifact = a
  BY DEF FilesOf, RpmTypes

(* Two sets of pairs with the same pairs are equal.  *)
LEMMA SamePairs ==
  ASSUME NEW S, NEW T,
         S \subseteq Repos \X Packages, T \subseteq Repos \X Packages,
         \A r \in Repos, p \in Packages : <<r, p>> \in S <=> <<r, p>> \in T
  PROVE  S = T
  OBVIOUS

LEMMA RpmInitIInv == RpmInit => RpmIInv
  <1> SUFFICES ASSUME RpmInit PROVE RpmIInv
    OBVIOUS
  <1>1. RpmTypes /\ CurrentShape /\ ListShape
    BY DEF RpmInit, RpmTypes, CurrentShape, PromiseOf, ListShape, IsPublish
  <1>2. JobShape /\ PublishShape /\ NamedShape /\ DeleteShape
    BY DEF RpmInit, JobShape, NothingLeft, IsPublish, IsDelete, PublishShape,
           NamedShape, DeleteShape
  <1>3. SettledShape
    BY DEF RpmInit, SettledShape, NamesAreCurrent
  <1>4. QED
    BY <1>1, <1>2, <1>3 DEF RpmIInv

LEMMA SameCurrent ==
  ASSUME CurrentShape, current' = current
  PROVE  CurrentShape'
  BY DEF CurrentShape

(* The version of a build is none of those of the source packages.  *)
LEMMA RpmVersionIsNew ==
  ASSUME RpmTypes, NEW a, NEW main \in Mains,
         NEW v \in BuildVersions(a, main), v.number <= MaxNumber
  PROVE  /\ v \in Versions
         /\ SourceVersions(a) # {} => \E w \in SourceVersions(a) : v # w
  <1>1. CASE SourceVersions(a) = {}
    BY <1>1, BoundsAssumption DEF BuildVersions, Versions
  <1>2. CASE SourceVersions(a) # {}
    <2>1. PICK w \in SourceVersions(a) : v = Bumped(main, w)
      BY <1>2 DEF BuildVersions
    <2>2. w \in Versions
      BY DEF SourceVersions, RpmTypes, Packages, Repos
    <2>3. w.number \in -1..MaxNumber
      BY <2>2 DEF Versions
    <2>4. v.number \in -1..MaxNumber /\ v.main = main
      BY <2>1, <2>3, BoundsAssumption DEF Bumped
    <2>5. v # w
      BY <2>1, <2>3 DEF Bumped
    <2>6. v \in Versions
      BY <2>1, <2>4 DEF Versions, Bumped
    <2>7. QED
      BY <2>5, <2>6
  <1>3. QED
    BY <1>1, <1>2

LEMMA RpmsShape ==
  ASSUME NEW a \in Artifacts, NEW archs \in SUBSET Architectures,
         NEW v \in Versions
  PROVE  /\ Rpms(a, archs, v) \subseteq Packages
         /\ \A p \in Rpms(a, archs, v) : p.artifact = a /\ p.version = v
  BY DEF Rpms, Package, Packages, Repos

LEMMA PublishStartIInv ==
  ASSUME RpmIInv, NEW a \in Artifacts, NEW archs \in SUBSET Architectures,
         NEW main \in Mains, NEW v \in BuildVersions(a, main),
         PublishStart(a, archs, main, v)
  PROVE  RpmIInv'
  <1> DEFINE rpms == Rpms(a, archs, v)
  <1> USE DEF RpmIInv
  <1>1. /\ job = NoJob
        /\ v.number <= MaxNumber
        /\ job' = [kind |-> "publish", artifact |-> a, rpms |-> rpms]
        /\ toRemove' = Deprecated(a, rpms)
        /\ toCopy' = Placed(rpms)
        /\ toIndex' = Involved(rpms)
        /\ UNCHANGED <<dirs, files, meta, indexed, toVisit, current, unsettled,
                       failures>>
    BY DEF PublishStart, StartTask, storeVars, histVars
  <1>2. /\ rpms \subseteq Packages
        /\ \A p \in rpms : p.artifact = a /\ p.version = v
    BY <1>1, RpmVersionIsNew, RpmsShape
  <1>3. job' \in Jobs /\ job' # NoJob
    BY <1>1, <1>2, NoJobAssumption DEF Jobs
  <1>4. /\ job'.kind = "publish" /\ job'.artifact = a /\ job'.rpms = rpms
        /\ IsPublish' /\ ~IsDelete'
    BY <1>1, <1>3 DEF IsPublish, IsDelete
  <1> HIDE DEF rpms
  <1>5. toVisit = {} /\ toRemove = {} /\ toCopy = {} /\ toIndex = {}
    BY <1>1 DEF JobShape, NothingLeft
  <1>6. ~IsPublish /\ ~IsDelete
    BY <1>1 DEF IsPublish, IsDelete
  <1>7. RpmTypes'
    <2>1. Placed(rpms) \subseteq Repos \X Packages
      BY <1>2, PlacedPairs
    <2>2. Deprecated(a, rpms) \subseteq Repos \X Packages
      BY DeprecatedPairs
    <2>3. Involved(rpms) \subseteq Repos
      BY <1>2, HomesTypes DEF Involved
    <2>4. QED
      BY <1>1, <1>5, <2>1, <2>2, <2>3 DEF RpmTypes
  <1>8. JobShape'
    BY <1>1, <1>3, <1>4, <1>5, DeprecatedPairs DEF JobShape
  <1>9. CurrentShape'
    BY <1>1, SameCurrent
  <1>10. PublishShape'
    <2>1. unsettled[a] < 2 => \A r \in Repos : \A p \in files[r] :
             p.artifact = a => <<r, p>> \in toRemove'
      BY <1>1, <1>6, DeprecatedPairs DEF NamedShape
    <2>2. QED
      BY <1>1, <1>2, <1>4, <2>1 DEF PublishShape
  <1>11. NamedShape'
    BY <1>1, <1>6 DEF NamedShape
  <1>12. DeleteShape'
    BY <1>4 DEF DeleteShape
  <1>13. SettledShape'
    BY <1>1 DEF SettledShape, Settled, NamesAreCurrent
  <1>14. ListShape'
    <2>1. \A r \in toIndex' : \E p \in Packages : <<r, p>> \in toCopy'
      BY <1>1, <1>2, PlacedPairs
    <2>2. \A r \in Repos, p \in Packages :
             <<r, p>> \in toCopy' => r \in toIndex'
      BY <1>1, <1>2, PlacedPairs
    <2>3. IsPublish' => Involved(job'.rpms) \subseteq indexed' \cup toIndex'
      BY <1>1, <1>4
    <2>4. \/ dirs' \subseteq indexed' \cup toIndex'
          \/ \E b \in Artifacts : unsettled'[b] = 2
      BY <1>1, <1>5 DEF ListShape
    <2>5. QED
      BY <1>1, <1>5, <2>1, <2>2, <2>3, <2>4 DEF ListShape
  <1>15. QED
    BY <1>7, <1>8, <1>9, <1>10, <1>11, <1>12, <1>13, <1>14

(* A file is removed.  *)
LEMMA RemoveIInv ==
  ASSUME RpmIInv, NEW r \in Repos, NEW p \in Packages, RemoveRpm(r, p)
  PROVE  RpmIInv'
  <1> USE DEF RpmIInv
  <1>1. /\ <<r, p>> \in toRemove
        /\ files' = [files EXCEPT ![r] = @ \ {p}]
        /\ toRemove' = toRemove \ {<<r, p>>}
        /\ UNCHANGED <<dirs, meta, indexed, job, toVisit, toCopy, toIndex,
                       current, unsettled, failures>>
    BY DEF RemoveRpm, histVars
  <1>2. job # NoJob /\ p.artifact = job.artifact
    BY <1>1 DEF JobShape, NothingLeft
  <1>3. /\ files'[r] = files[r] \ {p}
        /\ \A s \in Repos \ {r} : files'[s] = files[s]
        /\ files' \in [Repos -> SUBSET Packages]
    BY <1>1 DEF RpmTypes
  <1>4. \A s \in Repos, q \in Packages :
           q \in files'[s] <=> q \in files[s] /\ <<s, q>> # <<r, p>>
    BY <1>3
  <1>5. RpmTypes'
    BY <1>1, <1>3 DEF RpmTypes
  <1>6. JobShape'
    BY <1>1, <1>2 DEF JobShape, IsPublish, IsDelete
  <1>7. CurrentShape'
    BY <1>1, SameCurrent
  <1>8. PublishShape'
    <2>1. SUFFICES ASSUME IsPublish PROVE PublishShape'
      BY <1>1 DEF PublishShape, IsPublish
    <2>2. toCopy = Placed(job.rpms) /\ toIndex = Involved(job.rpms)
      BY <1>1, <2>1 DEF PublishShape
    <2>3. unsettled[job.artifact] < 2 =>
             \A s \in Repos : \A q \in files'[s] : q.artifact = job.artifact =>
                 <<s, q>> \in toRemove'
      BY <1>1, <1>3, <1>4, <2>1, <2>2 DEF PublishShape, RpmTypes
    <2>4. QED
      BY <1>1, <2>1, <2>2, <2>3 DEF PublishShape
  <1>9. NamedShape'
    BY <1>1, <1>3 DEF NamedShape, IsPublish, RpmTypes
  <1>10. DeleteShape'
    <2>1. SUFFICES ASSUME IsDelete, unsettled[job.artifact] = 0
                   PROVE DeleteShape'
      BY <1>1 DEF DeleteShape, IsDelete
    <2>2. p.arch = job.arch /\ r \in toIndex
      BY <1>1, <2>1 DEF JobShape
    <2>3. \A s \in HomesOf(job.arch) \ toVisit : s \in Repos =>
             \A q \in files'[s] :
               q.artifact = job.artifact /\ q.arch = job.arch =>
                   <<s, q>> \in toRemove'
      BY <1>1, <1>3, <1>4, <2>1 DEF DeleteShape, RpmTypes
    <2>4. HomesOf(job.arch) \subseteq Repos
      BY <2>1 DEF JobShape, IsDelete, Jobs, HomesOf, Repos
    <2>5. \A s \in HomesOf(job.arch) \ toVisit :
             s \in toIndex \/ meta[s] = files'[s]
      BY <1>3, <2>1, <2>2, <2>4 DEF DeleteShape
    <2>6. QED
      BY <1>1, <1>4, <2>1, <2>2, <2>3, <2>4, <2>5
      DEF DeleteShape, NamesAreCurrent, IsDelete
  <1>11. SettledShape'
    BY <1>1, <1>2, <1>4 DEF SettledShape, Settled, NamesAreCurrent
  <1>12. ListShape'
    BY <1>1 DEF ListShape, IsPublish
  <1>13. QED
    BY <1>5, <1>6, <1>7, <1>8, <1>9, <1>10, <1>11, <1>12

(* A task that copies packages is a publication.  *)
LEMMA CopyingIsPublishing ==
  ASSUME JobShape, NEW pair \in toCopy
  PROVE  IsPublish /\ ~IsDelete /\ job.rpms \subseteq Packages
  <1>1. job # NoJob /\ job \in Jobs /\ ~IsDelete
    BY DEF JobShape, NothingLeft
  <1>2. QED
    BY <1>1 DEF IsPublish, IsDelete, Jobs

(* A package is copied.  *)
LEMMA CopyIInv ==
  ASSUME RpmIInv, NEW r \in Repos, NEW p \in Packages, CopyRpm(r, p)
  PROVE  RpmIInv'
  <1> USE DEF RpmIInv
  <1>1. /\ toRemove = {} /\ <<r, p>> \in toCopy
        /\ dirs' = dirs \cup {r}
        /\ files' = [files EXCEPT ![r] = @ \cup {p}]
        /\ toCopy' = toCopy \ {<<r, p>>}
        /\ UNCHANGED <<meta, indexed, job, toVisit, toRemove, toIndex,
                       current, unsettled, failures>>
    BY DEF CopyRpm, histVars
  <1>2. IsPublish /\ ~IsDelete /\ job.rpms \subseteq Packages
    BY <1>1, CopyingIsPublishing
  <1>3. /\ <<r, p>> \in Placed(job.rpms)
        /\ toIndex = Involved(job.rpms)
        /\ p.artifact = job.artifact
    BY <1>1, <1>2, PlacedPairs DEF PublishShape
  <1>4. /\ files'[r] = files[r] \cup {p}
        /\ \A s \in Repos \ {r} : files'[s] = files[s]
        /\ files' \in [Repos -> SUBSET Packages]
    BY <1>1 DEF RpmTypes
  <1>5. \A s \in Repos, q \in Packages :
           q \in files'[s] <=> q \in files[s] \/ <<s, q>> = <<r, p>>
    BY <1>4
  <1>6. IsPublish' /\ ~IsDelete' /\ job # NoJob
    BY <1>1, <1>2 DEF IsPublish, IsDelete
  <1>7. RpmTypes'
    BY <1>1, <1>4 DEF RpmTypes
  <1>8. JobShape'
    BY <1>1, <1>2, <1>6 DEF JobShape
  <1>9. CurrentShape'
    BY <1>1, SameCurrent
  <1>10. PublishShape'
    <2>1. unsettled[job.artifact] < 2 =>
             \A s \in Repos : \A q \in files'[s] : q.artifact = job.artifact =>
                 <<s, q>> \in Placed(job.rpms) \ toCopy'
      BY <1>1, <1>2, <1>3, <1>4, <1>5 DEF PublishShape, RpmTypes
    <2>2. \A s \in Repos, q \in Packages :
             <<s, q>> \in Placed(job.rpms) \ toCopy' => q \in files'[s]
      BY <1>1, <1>2, <1>5 DEF PublishShape
    <2>3. QED
      BY <1>1, <1>2, <1>3, <2>1, <2>2 DEF PublishShape
  <1>11. NamedShape'
    BY <1>1, <1>2, <1>3, <1>4, <1>5, <1>6 DEF NamedShape, RpmTypes
  <1>12. DeleteShape'
    BY <1>6 DEF DeleteShape
  <1>13. SettledShape'
    BY <1>1, <1>3, <1>5, <1>6 DEF SettledShape, Settled, NamesAreCurrent
  <1>14. ListShape'
    <2>1. r \in toIndex
      BY <1>1 DEF ListShape
    <2>2. QED
      BY <1>1, <2>1 DEF ListShape, IsPublish
  <1>15. QED
    BY <1>7, <1>8, <1>9, <1>10, <1>11, <1>12, <1>13, <1>14

(* The metadata of a repository is updated.  *)
LEMMA IndexIInv ==
  ASSUME RpmIInv, NEW r \in Repos, IndexRepo(r)
  PROVE  RpmIInv'
  <1> USE DEF RpmIInv
  <1>1. /\ toRemove = {} /\ toCopy = {} /\ r \in toIndex
        /\ meta' = [meta EXCEPT ![r] = files[r]]
        /\ indexed' = indexed \cup {r}
        /\ toIndex' = toIndex \ {r}
        /\ UNCHANGED <<dirs, files, job, toVisit, toRemove, toCopy,
                       current, unsettled, failures>>
    BY DEF IndexRepo, histVars
  <1>2. job # NoJob
    BY <1>1 DEF JobShape, NothingLeft
  <1>3. /\ meta'[r] = files[r]
        /\ \A s \in Repos \ {r} : meta'[s] = meta[s]
        /\ meta' \in [Repos -> SUBSET Packages]
    BY <1>1 DEF RpmTypes
  <1>4. r \in dirs
    BY <1>1 DEF ListShape
  <1>5. RpmTypes'
    BY <1>1, <1>3, <1>4 DEF RpmTypes
  <1>6. JobShape'
    BY <1>1, <1>2 DEF JobShape, IsPublish, IsDelete
  <1>7. CurrentShape'
    BY <1>1, SameCurrent
  <1>8. PublishShape'
    <2>1. SUFFICES ASSUME IsPublish PROVE PublishShape'
      BY <1>1 DEF PublishShape, IsPublish
    <2>2. Involved(job.rpms) \subseteq Repos
      BY <2>1, HomesTypes DEF Involved, JobShape, IsPublish, Jobs
    <2>3. \A s \in Involved(job.rpms) \ toIndex' : meta'[s] = files[s]
      BY <1>1, <1>3, <2>1, <2>2 DEF PublishShape
    <2>4. QED
      BY <1>1, <2>1, <2>3 DEF PublishShape
  <1>9. NamedShape'
    BY <1>1, <1>3 DEF NamedShape, IsPublish, RpmTypes
  <1>10. DeleteShape'
    <2>1. SUFFICES ASSUME IsDelete, unsettled[job.artifact] = 0
                   PROVE DeleteShape'
      BY <1>1 DEF DeleteShape, IsDelete
    <2>2. r \in HomesOf(job.arch) \ toVisit
      BY <1>1, <2>1 DEF JobShape
    <2>3. HomesOf(job.arch) \subseteq Repos
      BY <2>1 DEF JobShape, IsDelete, Jobs, HomesOf, Repos
    <2>4. \A s \in HomesOf(job.arch) \ toVisit :
             s \in toIndex' \/ meta'[s] = files[s]
      BY <1>1, <1>3, <2>1, <2>3 DEF DeleteShape
    <2>5. \A s \in Repos : s \in toVisit \/ s \notin HomesOf(job.arch) =>
             NamesAreCurrent(job.artifact, s)'
      BY <1>1, <1>3, <2>1, <2>2 DEF DeleteShape, NamesAreCurrent
    <2>6. QED
      BY <1>1, <2>1, <2>4, <2>5 DEF DeleteShape, IsDelete
  <1>11. SettledShape'
    <2>1. SUFFICES ASSUME NEW a \in Artifacts, Settled(a)
                   PROVE \A s \in Repos : NamesAreCurrent(a, s)'
      BY <1>1, <1>2 DEF SettledShape, Settled
    <2>2. \A q \in Packages : q \in files[r] /\ q.artifact = a
                              <=> <<r, q>> \in current[a]
      BY <2>1 DEF SettledShape
    <2>3. QED
      BY <1>1, <1>3, <2>1, <2>2 DEF SettledShape, NamesAreCurrent
  <1>12. ListShape'
    BY <1>1, <1>3, <1>4 DEF ListShape, IsPublish
  <1>13. QED
    BY <1>5, <1>6, <1>7, <1>8, <1>9, <1>10, <1>11, <1>12

LEMMA JobKinds ==
  ASSUME JobShape, job # NoJob
  PROVE  /\ job.artifact \in Artifacts
         /\ IsPublish => job.rpms \subseteq Packages
         /\ IsDelete => /\ job.arch \in Repos \cup {"noarch"}
                        /\ HomesOf(job.arch) \subseteq Repos
         /\ IsPublish \/ IsDelete
         /\ ~(IsPublish /\ IsDelete)
  <1>1. job \in Jobs
    BY DEF JobShape
  <1>2. CASE job \in [kind : {"publish"}, artifact : Artifacts,
                      rpms : SUBSET Packages]
    BY <1>2 DEF IsPublish, IsDelete
  <1>3. CASE job \in [kind : {"delete"}, artifact : Artifacts,
                      arch : Repos \cup {"noarch"}]
    BY <1>3 DEF IsPublish, IsDelete, HomesOf, Repos
  <1>4. QED
    BY <1>1, <1>2, <1>3 DEF Jobs

(* A publication ends.  *)
LEMMA PublishDoneIInv ==
  ASSUME RpmIInv, PublishDone
  PROVE  RpmIInv'
  <1> USE DEF RpmIInv
  <1>a. PICK a : a = job.artifact
    OBVIOUS
  <1> DEFINE pairs == Placed(job.rpms)
  <1>1. /\ job # NoJob /\ IsPublish /\ NothingLeft
        /\ current' = [current EXCEPT ![a] = pairs]
        /\ unsettled' = [unsettled EXCEPT ![a] =
                            IF @ > 0 /\ Complete(job.rpms) THEN @ - 1 ELSE @]
        /\ job' = NoJob
        /\ UNCHANGED <<dirs, files, meta, indexed, toVisit, toRemove, toCopy,
                       toIndex, failures>>
    BY <1>a DEF PublishDone, Finished, IsPublish, storeVars, todoVars
  <1>2. a \in Artifacts /\ job.rpms \subseteq Packages
    BY <1>1, <1>a, JobKinds
  <1>3. pairs \subseteq Repos \X Packages
    BY <1>2, PlacedPairs
  <1>4. /\ \A r, p : <<r, p>> \in pairs <=> p \in job.rpms /\ r \in Homes(p)
        /\ \A r : r \in Involved(job.rpms) <=>
                     \E p \in Packages : <<r, p>> \in pairs
    BY <1>2, PlacedPairs
  <1>5. /\ \A p \in job.rpms : p.artifact = a
        /\ \A p, q \in job.rpms : p.version = q.version
        /\ \A r \in Repos, p \in Packages : <<r, p>> \in pairs => p \in files[r]
        /\ \A r \in Involved(job.rpms) : meta[r] = files[r]
        /\ unsettled[a] < 2 =>
              \A r \in Repos : \A p \in files[r] : p.artifact = a =>
                  <<r, p>> \in pairs
    BY <1>1, <1>a DEF PublishShape, NothingLeft
  <1>6. /\ current'[a] = pairs
        /\ \A b \in Artifacts \ {a} : current'[b] = current[b]
        /\ current' \in [Artifacts -> SUBSET (Repos \X Packages)]
    BY <1>1, <1>2, <1>3 DEF RpmTypes
  <1>7. /\ unsettled' \in [Artifacts -> 0..2]
        /\ \A b \in Artifacts \ {a} : unsettled'[b] = unsettled[b]
        /\ unsettled'[a] < 2 => unsettled[a] < 2 \/ Complete(job.rpms)
        /\ unsettled'[a] = 0 => unsettled[a] < 2
    <2>1. unsettled[a] \in 0..2
      BY <1>2 DEF RpmTypes
    <2>2. unsettled'[a] =
             IF unsettled[a] > 0 /\ Complete(job.rpms)
             THEN unsettled[a] - 1 ELSE unsettled[a]
      BY <1>1, <1>2 DEF RpmTypes
    <2>3. unsettled'[a] \in 0..2
      BY <2>1, <2>2
    <2>4. /\ unsettled' \in [Artifacts -> 0..2]
          /\ \A b \in Artifacts \ {a} : unsettled'[b] = unsettled[b]
      BY <1>1, <2>2, <2>3 DEF RpmTypes
    <2>5. QED
      BY <2>1, <2>2, <2>4
  <1>8. ~IsPublish' /\ ~IsDelete'
    BY <1>1 DEF IsPublish, IsDelete
  <1> HIDE DEF pairs
  <1>9. RpmTypes'
    BY <1>1, <1>6, <1>7 DEF RpmTypes
  <1>10. JobShape'
    BY <1>1, <1>8 DEF JobShape, NothingLeft
  <1>11. CurrentShape'
    <2>1. \A p \in Packages : Homes(p) = HomesOf(p.arch)
      BY HomesTypes
    <2>2. PromiseOf(a, pairs)
      BY <1>4, <1>5, <2>1 DEF PromiseOf
    <2>3. QED
      BY <1>6, <2>2 DEF CurrentShape
  <1>12. PublishShape'
    BY <1>8 DEF PublishShape
  <1>13. NamedShape'
    <2>1. ASSUME unsettled'[a] < 2, NEW r \in Repos, NEW p \in files[r],
                 p.artifact = a
          PROVE  p \in meta[r]
      <3>1. p \in Packages
        BY DEF RpmTypes
      <3>2. r \in Involved(job.rpms)
        BY <1>4, <1>5, <1>7, <2>1, <3>1 DEF Complete
      <3>3. QED
        BY <1>5, <3>2
    <2>2. QED
      BY <1>1, <1>2, <1>7, <1>a, <2>1 DEF NamedShape
  <1>14. DeleteShape'
    BY <1>8 DEF DeleteShape
  <1>15. SettledShape'
    <2>1. ASSUME NEW b \in Artifacts, Settled(b)', b # a, NEW r \in Repos
          PROVE  /\ \A p \in Packages : p \in files[r] /\ p.artifact = b
                                        <=> <<r, p>> \in current'[b]
                 /\ NamesAreCurrent(b, r)'
      <3>1. Settled(b)
        BY <1>1, <1>7, <1>a, <2>1 DEF Settled
      <3>2. QED
        BY <1>1, <1>6, <2>1, <3>1, SMTT(20)
        DEF SettledShape, NamesAreCurrent
    <2>2. ASSUME Settled(a)', NEW r \in Repos
          PROVE  /\ \A p \in Packages : p \in files[r] /\ p.artifact = a
                                        <=> <<r, p>> \in current'[a]
                 /\ NamesAreCurrent(a, r)'
      <3>1. unsettled[a] < 2
        BY <1>7, <2>2 DEF Settled
      <3>2. \A p \in Packages : p \in files[r] /\ p.artifact = a
                                <=> <<r, p>> \in pairs
        BY <1>4, <1>5, <3>1
      <3>3. (\E p \in Packages : <<r, p>> \in pairs) => meta[r] = files[r]
        BY <1>4, <1>5
      <3>4. QED
        BY <1>1, <1>6, <3>2, <3>3 DEF NamesAreCurrent
    <2>3. QED
      BY <1>1, <2>1, <2>2 DEF SettledShape
  <1>16. ListShape'
    <2>1. Involved(job.rpms) \subseteq indexed
      BY <1>1 DEF ListShape, NothingLeft
    <2>2. ASSUME NEW b \in Artifacts, unsettled[b] = 2
          PROVE  dirs \subseteq indexed \/ unsettled'[b] = 2
      <3>1. CASE b = a /\ Complete(job.rpms)
        BY <2>1, <3>1 DEF ListShape, Complete
      <3>2. CASE b # a \/ ~Complete(job.rpms)
        BY <1>1, <1>2, <2>2, <3>2 DEF RpmTypes
      <3>3. QED
        BY <3>1, <3>2
    <2>3. \/ dirs \subseteq indexed
          \/ \E b \in Artifacts : unsettled'[b] = 2
      BY <1>1, <2>2 DEF ListShape, NothingLeft
    <2>4. QED
      BY <1>1, <2>3 DEF ListShape, IsPublish
  <1>17. QED
    BY <1>9, <1>10, <1>11, <1>12, <1>13, <1>14, <1>15, <1>16

(* A deletion starts.  *)
LEMMA DeleteStartIInv ==
  ASSUME RpmIInv, NEW a \in Artifacts, NEW arch \in Repos \cup {"noarch"},
         DeleteStart(a, arch)
  PROVE  RpmIInv'
  <1> USE DEF RpmIInv
  <1>1. /\ job = NoJob
        /\ job' = [kind |-> "delete", artifact |-> a, arch |-> arch]
        /\ toVisit' = HomesOf(arch)
        /\ UNCHANGED <<dirs, files, meta, indexed, toRemove, toCopy, toIndex,
                       current, unsettled, failures>>
    BY DEF DeleteStart, StartTask, HomesOf, storeVars, histVars
  <1>2. /\ job' \in Jobs /\ job' # NoJob
        /\ job'.kind = "delete" /\ job'.artifact = a /\ job'.arch = arch
    BY <1>1, NoJobAssumption DEF Jobs
  <1>3. /\ ~IsPublish /\ ~IsDelete /\ ~IsPublish' /\ IsDelete'
        /\ toRemove = {} /\ toCopy = {} /\ toIndex = {}
    BY <1>1, <1>2 DEF IsPublish, IsDelete, JobShape, NothingLeft
  <1>4. HomesOf(arch) \subseteq Repos
    BY DEF HomesOf, Repos
  <1>5. RpmTypes'
    BY <1>1, <1>3, <1>4 DEF RpmTypes
  <1>6. JobShape'
    BY <1>1, <1>2, <1>3 DEF JobShape
  <1>7. CurrentShape'
    BY <1>1, SameCurrent
  <1>8. PublishShape'
    BY <1>3 DEF PublishShape
  <1>9. NamedShape'
    BY <1>1, <1>3 DEF NamedShape
  <1>10. DeleteShape'
    <2>1. SUFFICES ASSUME unsettled[a] = 0 PROVE DeleteShape'
      BY <1>1, <1>2 DEF DeleteShape
    <2>2. \A r \in Repos :
             /\ \A p \in Packages : p \in files[r] /\ p.artifact = a
                                    <=> <<r, p>> \in current[a]
             /\ NamesAreCurrent(a, r)
      BY <1>1, <2>1 DEF SettledShape, Settled
    <2>3. \A r \in Repos, p \in Packages : <<r, p>> \in current[a] =>
             p \in files[r]
      BY <2>2
    <2>4. QED
      BY <1>1, <1>2, <2>1, <2>2, <2>3 DEF DeleteShape, NamesAreCurrent
  <1>11. SettledShape'
    BY <1>1 DEF SettledShape, Settled, NamesAreCurrent
  <1>12. ListShape'
    BY <1>1, <1>3 DEF ListShape
  <1>13. QED
    BY <1>5, <1>6, <1>7, <1>8, <1>9, <1>10, <1>11, <1>12

(* The metadata of a repository is loaded for a deletion.  *)
LEMMA DeleteVisitIInv ==
  ASSUME RpmIInv, NEW r \in Repos, DeleteVisit(r)
  PROVE  RpmIInv'
  <1> USE DEF RpmIInv
  <1>1. /\ r \in toVisit /\ toRemove = {} /\ toIndex = {} /\ r \in indexed
        /\ toRemove' = {r} \X {p \in meta[r] : p.artifact = job.artifact
                                               /\ p.arch = job.arch}
        /\ toIndex' = {r}
        /\ toVisit' = toVisit \ {r}
        /\ UNCHANGED <<dirs, files, meta, indexed, job, toCopy,
                       current, unsettled, failures>>
    BY DEF DeleteVisit, storeVars, histVars
  <1>2. job # NoJob /\ IsDelete /\ ~IsPublish
    BY <1>1, JobKinds DEF JobShape, NothingLeft
  <1>3. IsDelete' /\ ~IsPublish'
    BY <1>1, <1>2 DEF IsPublish, IsDelete
  <1>4. toCopy = {} /\ r \in HomesOf(job.arch)
    BY <1>1, <1>2 DEF JobShape
  <1>5. meta[r] \subseteq Packages
    BY DEF RpmTypes
  <1>6. \A s \in Repos, q \in Packages : <<s, q>> \in toRemove' <=>
           /\ s = r /\ q \in meta[r]
           /\ q.artifact = job.artifact /\ q.arch = job.arch
    BY <1>1
  <1>7. RpmTypes'
    BY <1>1, <1>4, <1>5 DEF RpmTypes
  <1>8. JobShape'
    BY <1>1, <1>2, <1>3, <1>4, <1>6 DEF JobShape
  <1>9. CurrentShape'
    BY <1>1, SameCurrent
  <1>10. PublishShape'
    BY <1>3 DEF PublishShape
  <1>11. NamedShape'
    BY <1>1, <1>2, <1>3 DEF NamedShape
  <1>12. DeleteShape'
    <2>1. SUFFICES ASSUME unsettled[job.artifact] = 0 PROVE DeleteShape'
      BY <1>1 DEF DeleteShape
    <2>2. /\ \A s \in Repos, p \in Packages :
                p \in files[s] /\ p.artifact = job.artifact =>
                    <<s, p>> \in current[job.artifact]
          /\ \A s \in HomesOf(job.arch) \ toVisit : \A p \in files[s] :
                ~(p.artifact = job.artifact /\ p.arch = job.arch)
          /\ NamesAreCurrent(job.artifact, r)
      BY <1>1, <1>2, <2>1 DEF DeleteShape
    <2>3. \A p \in files[r] : p.artifact = job.artifact => p \in meta[r]
      BY <2>2 DEF NamesAreCurrent, RpmTypes
    <2>4. HomesOf(job.arch) \subseteq Repos
      BY <1>2, JobKinds
    <2>5. \A s \in HomesOf(job.arch) \ toVisit' : \A p \in files[s] :
             p.artifact = job.artifact /\ p.arch = job.arch =>
                 <<s, p>> \in toRemove'
      BY <1>1, <1>5, <1>6, <2>2, <2>3, <2>4 DEF RpmTypes
    <2>6. QED
      BY <1>1, <1>2, <2>1, <2>5 DEF DeleteShape, NamesAreCurrent
  <1>13. SettledShape'
    BY <1>1, <1>2 DEF SettledShape, Settled, NamesAreCurrent
  <1>14. ListShape'
    BY <1>1, <1>4 DEF ListShape, RpmTypes, IsPublish
  <1>15. QED
    BY <1>7, <1>8, <1>9, <1>10, <1>11, <1>12, <1>13, <1>14

(* When a task ends without another change, only its artifact matters.  *)
LEMMA EndSettledShape ==
  ASSUME RpmIInv, NEW CONSTANT a, a = job.artifact, job' = NoJob,
         UNCHANGED <<files, meta>>,
         \A b \in Artifacts \ {a} :
             unsettled'[b] = unsettled[b] /\ current'[b] = current[b],
         unsettled'[a] = 0 => \A r \in Repos :
             /\ \A p \in Packages : p \in files[r] /\ p.artifact = a
                                    <=> <<r, p>> \in current'[a]
             /\ (\E p \in Packages : <<r, p>> \in current'[a]) =>
                   \A p \in Packages : p \in meta[r] /\ p.artifact = a
                                       <=> <<r, p>> \in current'[a]
  PROVE  SettledShape'
  <1>1. ASSUME NEW b \in Artifacts, Settled(b)', b # a, NEW r \in Repos
        PROVE  /\ \A p \in Packages : p \in files[r] /\ p.artifact = b
                                      <=> <<r, p>> \in current'[b]
               /\ NamesAreCurrent(b, r)'
    <2>1. Settled(b)
      BY <1>1 DEF Settled
    <2>2. /\ \A p \in Packages : p \in files[r] /\ p.artifact = b
                                  <=> <<r, p>> \in current[b]
          /\ NamesAreCurrent(b, r)
      BY <2>1 DEF RpmIInv, SettledShape
    <2>3. QED
      BY <1>1, <2>2 DEF NamesAreCurrent
  <1>2. ASSUME Settled(a)', NEW r \in Repos
        PROVE  /\ \A p \in Packages : p \in files[r] /\ p.artifact = a
                                      <=> <<r, p>> \in current'[a]
               /\ NamesAreCurrent(a, r)'
    BY <1>2 DEF Settled, NamesAreCurrent
  <1>3. QED
    BY <1>1, <1>2 DEF SettledShape

(* A repository of a deletion has no metadata.  *)
LEMMA DeleteAbortsIInv ==
  ASSUME RpmIInv, NEW r \in Repos, DeleteAborts(r)
  PROVE  RpmIInv'
  <1> USE DEF RpmIInv
  <1>a. PICK a : a = job.artifact
    OBVIOUS
  <1>1. /\ r \in toVisit /\ toRemove = {} /\ toIndex = {} /\ r \notin indexed
        /\ toVisit' = {} /\ job' = NoJob
        /\ UNCHANGED <<dirs, files, meta, indexed, toRemove, toCopy, toIndex,
                       current, unsettled, failures>>
    BY DEF DeleteAborts, storeVars, histVars
  <1>2. job # NoJob /\ IsDelete /\ ~IsPublish
    BY <1>1, JobKinds DEF JobShape, NothingLeft
  <1>3. ~IsDelete' /\ ~IsPublish'
    BY <1>1 DEF IsPublish, IsDelete
  <1>4. toCopy = {} /\ r \in HomesOf(job.arch)
    BY <1>1, <1>2 DEF JobShape
  <1>5. RpmTypes'
    BY <1>1 DEF RpmTypes
  <1>6. JobShape'
    BY <1>1, <1>3, <1>4 DEF JobShape, NothingLeft
  <1>7. CurrentShape'
    BY <1>1, SameCurrent
  <1>8. PublishShape' /\ DeleteShape'
    BY <1>3 DEF PublishShape, DeleteShape
  <1>9. NamedShape'
    BY <1>1, <1>2, <1>3 DEF NamedShape
  <1>10. SettledShape'
    <2>1. ASSUME unsettled[a] = 0, NEW s \in Repos
          PROVE  /\ \A p \in Packages : p \in files[s] /\ p.artifact = a
                                        <=> <<s, p>> \in current[a]
                 /\ NamesAreCurrent(a, s)
      <3>1. meta[r] = {} /\ NamesAreCurrent(a, r)
        BY <1>1, <1>2, <1>a, <2>1 DEF ListShape, DeleteShape
      <3>2. \A p \in Packages : <<r, p>> \notin current[a]
        BY <3>1 DEF NamesAreCurrent
      <3>3. a \in Artifacts
        BY <1>2, <1>a, JobKinds
      <3>4. \A t \in Repos, p \in Packages : <<t, p>> \in current[a] =>
               p.artifact = a /\ p.arch # job.arch
        BY <1>4, <3>2, <3>3 DEF CurrentShape, PromiseOf
      <3>5. /\ \A t \in Repos, p \in Packages :
                  p \in files[t] /\ p.artifact = a => <<t, p>> \in current[a]
            /\ \A t \in Repos, p \in Packages :
                  <<t, p>> \in current[a] /\ p \notin files[t] =>
                      p.arch = job.arch
            /\ \A t \in Repos : t \in toVisit \/ t \notin HomesOf(job.arch) =>
                  NamesAreCurrent(a, t)
            /\ \A t \in HomesOf(job.arch) \ toVisit : meta[t] = files[t]
        BY <1>1, <1>2, <1>a, <2>1 DEF DeleteShape
      <3>6. \A p \in Packages : p \in files[s] /\ p.artifact = a
                                <=> <<s, p>> \in current[a]
        BY <3>4, <3>5
      <3>7. NamesAreCurrent(a, s)
        BY <3>5, <3>6 DEF NamesAreCurrent
      <3>8. QED
        BY <3>6, <3>7
    <2>2. QED
      BY <1>1, <1>a, <2>1, EndSettledShape DEF NamesAreCurrent
  <1>11. ListShape'
    BY <1>1, <1>3, <1>4 DEF ListShape
  <1>12. QED
    BY <1>5, <1>6, <1>7, <1>8, <1>9, <1>10, <1>11

(* A deletion ends.  *)
LEMMA DeleteDoneIInv ==
  ASSUME RpmIInv, DeleteDone
  PROVE  RpmIInv'
  <1> USE DEF RpmIInv
  <1>a. PICK a : a = job.artifact
    OBVIOUS
  <1>b. PICK rest : rest = {pair \in current[a] : pair[2].arch # job.arch}
    OBVIOUS
  <1>1. /\ job # NoJob /\ IsDelete /\ ~IsPublish /\ NothingLeft
        /\ current' = [current EXCEPT ![a] = rest]
        /\ job' = NoJob
        /\ UNCHANGED <<dirs, files, meta, indexed, toVisit, toRemove, toCopy,
                       toIndex, unsettled, failures>>
    BY <1>a, <1>b
    DEF DeleteDone, Finished, IsDelete, IsPublish, storeVars, todoVars
  <1>2. a \in Artifacts /\ HomesOf(job.arch) \subseteq Repos
    BY <1>1, <1>a, JobKinds
  <1>3. ~IsDelete' /\ ~IsPublish'
    BY <1>1 DEF IsPublish, IsDelete
  <1>4. /\ rest \subseteq Repos \X Packages
        /\ \A r, p : <<r, p>> \in rest <=>
                        <<r, p>> \in current[a] /\ p.arch # job.arch
    BY <1>2, <1>b DEF RpmTypes
  <1>5. /\ current'[a] = rest
        /\ \A b \in Artifacts \ {a} : current'[b] = current[b]
        /\ current' \in [Artifacts -> SUBSET (Repos \X Packages)]
    BY <1>1, <1>2, <1>4 DEF RpmTypes
  <1>6. RpmTypes'
    BY <1>1, <1>5 DEF RpmTypes
  <1>7. JobShape'
    BY <1>1, <1>3 DEF JobShape, NothingLeft
  <1>8. PromiseOf(a, current[a])
    BY <1>2 DEF CurrentShape
  <1>9. CurrentShape'
    <2>1. PromiseOf(a, rest)
      <3> SUFFICES ASSUME NEW r \in Repos, NEW p \in Packages, <<r, p>> \in rest
                   PROVE  /\ p.artifact = a
                          /\ r \in HomesOf(p.arch)
                          /\ \A h \in HomesOf(p.arch) : <<h, p>> \in rest
                          /\ \A s \in Repos, q \in Packages :
                                <<s, q>> \in rest => q.version = p.version
        BY DEF PromiseOf
      <3>1. <<r, p>> \in current[a] /\ p.arch # job.arch
        BY <1>4
      <3>2. /\ p.artifact = a
            /\ r \in HomesOf(p.arch)
            /\ \A h \in HomesOf(p.arch) : <<h, p>> \in current[a]
            /\ \A s \in Repos, q \in Packages :
                  <<s, q>> \in current[a] => q.version = p.version
        BY <1>8, <3>1 DEF PromiseOf
      <3>3. QED
        BY <1>4, <3>1, <3>2
    <2>2. QED
      BY <1>5, <2>1 DEF CurrentShape
  <1>10. PublishShape' /\ DeleteShape'
    BY <1>3 DEF PublishShape, DeleteShape
  <1>11. NamedShape'
    BY <1>1, <1>3 DEF NamedShape
  <1>12. SettledShape'
    <2>1. ASSUME unsettled[a] = 0, NEW s \in Repos
          PROVE  /\ \A p \in Packages : p \in files[s] /\ p.artifact = a
                                        <=> <<s, p>> \in rest
                 /\ (\E p \in Packages : <<s, p>> \in rest) =>
                       \A p \in Packages : p \in meta[s] /\ p.artifact = a
                                           <=> <<s, p>> \in rest
      <3>1. /\ \A t \in Repos, p \in Packages :
                  p \in files[t] /\ p.artifact = a => <<t, p>> \in current[a]
            /\ \A t \in Repos, p \in Packages :
                  <<t, p>> \in current[a] /\ p \notin files[t] =>
                      p.arch = job.arch
            /\ \A t \in HomesOf(job.arch) : \A p \in files[t] :
                  ~(p.artifact = a /\ p.arch = job.arch)
            /\ \A t \in Repos : t \notin HomesOf(job.arch) =>
                  NamesAreCurrent(a, t)
            /\ \A t \in HomesOf(job.arch) : meta[t] = files[t]
        BY <1>1, <1>a, <2>1 DEF DeleteShape, NothingLeft
      <3>2. \A p \in Packages : p \in files[s] /\ p.artifact = a
                                <=> <<s, p>> \in rest
        BY <1>4, <1>8, <3>1 DEF PromiseOf
      <3>3. CASE s \in HomesOf(job.arch)
        BY <3>1, <3>2, <3>3
      <3>4. CASE s \notin HomesOf(job.arch)
        <4>1. \A p \in Packages : <<s, p>> \in rest <=> <<s, p>> \in current[a]
          BY <1>4, <1>8, <3>4 DEF PromiseOf
        <4>2. QED
          BY <3>1, <3>2, <3>4, <4>1 DEF NamesAreCurrent
      <3>5. QED
        BY <3>3, <3>4
    <2>2. QED
      BY <1>1, <1>5, <1>a, <2>1, EndSettledShape
  <1>13. ListShape'
    BY <1>1, <1>3 DEF ListShape, NothingLeft
  <1>14. QED
    BY <1>6, <1>7, <1>9, <1>10, <1>11, <1>12, <1>13

(* A task fails, or is killed.  *)
LEMMA RpmInterruptIInv ==
  ASSUME RpmIInv, Interrupt
  PROVE  RpmIInv'
  <1> USE DEF RpmIInv
  <1>a. PICK a : a = job.artifact
    OBVIOUS
  <1>1. /\ job # NoJob /\ job' = NoJob /\ failures' = failures + 1
        /\ toVisit' = {} /\ toRemove' = {} /\ toCopy' = {} /\ toIndex' = {}
        /\ unsettled' = [unsettled EXCEPT ![a] = 2]
        /\ UNCHANGED <<dirs, files, meta, indexed, current>>
    BY <1>a DEF Interrupt, storeVars
  <1>2. a \in Artifacts
    BY <1>1, <1>a, JobKinds
  <1>3. /\ unsettled'[a] = 2
        /\ \A b \in Artifacts \ {a} : unsettled'[b] = unsettled[b]
        /\ unsettled' \in [Artifacts -> 0..2]
    BY <1>1, <1>2 DEF RpmTypes
  <1>4. ~IsDelete' /\ ~IsPublish'
    BY <1>1 DEF IsPublish, IsDelete
  <1>5. RpmTypes'
    BY <1>1, <1>3 DEF RpmTypes
  <1>6. JobShape'
    BY <1>1, <1>4 DEF JobShape, NothingLeft
  <1>7. CurrentShape'
    BY <1>1, SameCurrent
  <1>8. PublishShape' /\ DeleteShape'
    BY <1>4 DEF PublishShape, DeleteShape
  <1>9. NamedShape'
    BY <1>1, <1>3, <1>4, <1>a DEF NamedShape
  <1>10. SettledShape'
    BY <1>1, <1>3, <1>a, EndSettledShape
  <1>11. \E b \in Artifacts : unsettled'[b] = 2
    BY <1>2, <1>3
  <1>12. ListShape'
    BY <1>1, <1>4, <1>11 DEF ListShape, JobShape
  <1>13. QED
    BY <1>5, <1>6, <1>7, <1>8, <1>9, <1>10, <1>12

LEMMA RpmNextIInv ==
  ASSUME RpmIInv, [RpmNext]_rpmVars
  PROVE  RpmIInv'
  <1>1. RpmTypes /\ JobShape
    BY DEF RpmIInv
  <1>2. CASE \E a \in Artifacts, archs \in SUBSET Architectures,
                main \in Mains : \E v \in BuildVersions(a, main) :
                    PublishStart(a, archs, main, v)
    BY <1>2, PublishStartIInv
  <1>3. CASE \E pair \in toRemove : RemoveRpm(pair[1], pair[2])
    <2>1. PICK pair \in toRemove : RemoveRpm(pair[1], pair[2])
      BY <1>3
    <2>2. pair[1] \in Repos /\ pair[2] \in Packages
      BY <1>1 DEF RpmTypes
    <2>3. QED
      BY <2>1, <2>2, RemoveIInv
  <1>4. CASE \E pair \in toCopy : CopyRpm(pair[1], pair[2])
    <2>1. PICK pair \in toCopy : CopyRpm(pair[1], pair[2])
      BY <1>4
    <2>2. pair[1] \in Repos /\ pair[2] \in Packages
      BY <1>1 DEF RpmTypes
    <2>3. QED
      BY <2>1, <2>2, CopyIInv
  <1>5. CASE \E r \in toIndex : IndexRepo(r)
    BY <1>1, <1>5, IndexIInv DEF RpmTypes
  <1>6. CASE PublishDone
    BY <1>6, PublishDoneIInv
  <1>7. CASE \E a \in Artifacts, arch \in Repos \cup {"noarch"} :
                DeleteStart(a, arch)
    BY <1>7, DeleteStartIInv
  <1>8. CASE \E r \in toVisit : DeleteVisit(r) \/ DeleteAborts(r)
    BY <1>1, <1>8, DeleteVisitIInv, DeleteAbortsIInv DEF RpmTypes
  <1>9. CASE DeleteDone
    BY <1>9, DeleteDoneIInv
  <1>10. CASE Interrupt
    BY <1>10, RpmInterruptIInv
  <1>11. CASE UNCHANGED rpmVars
    <2>1. UNCHANGED <<dirs, files, meta, indexed, job, toVisit, toRemove,
                      toCopy, toIndex, current, unsettled, failures>>
      BY <1>11 DEF rpmVars, storeVars, todoVars, histVars
    <2>2. RpmTypes' /\ ListShape'
      BY <2>1 DEF RpmIInv, RpmTypes, ListShape, IsPublish
    <2>3. JobShape'
      BY <2>1 DEF RpmIInv, JobShape, IsPublish, IsDelete, NothingLeft
    <2>4. CurrentShape'
      BY <2>1, SameCurrent DEF RpmIInv
    <2>5. PublishShape' /\ NamedShape'
      BY <2>1 DEF RpmIInv, PublishShape, NamedShape, IsPublish
    <2>6. DeleteShape'
      BY <2>1 DEF RpmIInv, DeleteShape, NamesAreCurrent, IsDelete
    <2>7. SettledShape'
      BY <2>1 DEF RpmIInv, SettledShape, Settled, NamesAreCurrent
    <2>8. QED
      BY <2>2, <2>3, <2>4, <2>5, <2>6, <2>7 DEF RpmIInv
  <1>12. QED
    BY <1>2, <1>3, <1>4, <1>5, <1>6, <1>7, <1>8, <1>9, <1>10, <1>11
    DEF RpmNext

LEMMA RpmSpecIInv == RpmSpec => []RpmIInv
  BY RpmInitIInv, RpmNextIInv, PTL DEF RpmSpec

-----------------------------------------------------------------------------

LEMMA RpmIInvSettled == RpmIInv => SettledIsCurrent
  <1> SUFFICES ASSUME RpmIInv, NEW a \in Artifacts, Settled(a)
               PROVE  /\ FilesOf(a) = current[a]
                      /\ \A r \in Repos :
                            (\E pair \in current[a] : pair[1] = r) =>
                                {r} \X NamesOf(a, r)
                                  = {pair \in current[a] : pair[1] = r}
    BY DEF SettledIsCurrent
  <1> USE DEF RpmIInv
  <1>1. current[a] \subseteq Repos \X Packages
    BY DEF RpmTypes
  <1>2. \A r \in Repos :
           /\ \A p \in Packages : p \in files[r] /\ p.artifact = a
                                  <=> <<r, p>> \in current[a]
           /\ NamesAreCurrent(a, r)
    BY DEF SettledShape
  <1>3. FilesOf(a) = current[a]
    <2>1. /\ FilesOf(a) \subseteq Repos \X Packages
          /\ \A r, p : <<r, p>> \in FilesOf(a) <=>
                          r \in Repos /\ p \in files[r] /\ p.artifact = a
      BY FilesPairs
    <2>2. \A r \in Repos, p \in Packages :
             <<r, p>> \in FilesOf(a) <=> <<r, p>> \in current[a]
      BY <1>2, <2>1
    <2>3. QED
      BY <1>1, <2>1, <2>2, SamePairs
  <1>4. ASSUME NEW r \in Repos, \E pair \in current[a] : pair[1] = r
        PROVE  {r} \X NamesOf(a, r) = {pair \in current[a] : pair[1] = r}
    <2> DEFINE S == {r} \X NamesOf(a, r)
               T == {pair \in current[a] : pair[1] = r}
    <2>1. \A p \in Packages : p \in meta[r] /\ p.artifact = a
                              <=> <<r, p>> \in current[a]
      BY <1>1, <1>2, <1>4 DEF NamesAreCurrent
    <2>2. meta[r] \subseteq Packages
      BY DEF RpmTypes
    <2>3. S \subseteq Repos \X Packages /\ T \subseteq Repos \X Packages
      BY <1>1, <2>2 DEF NamesOf
    <2>4. \A s \in Repos, p \in Packages : <<s, p>> \in S <=> <<s, p>> \in T
      BY <2>1, <2>2 DEF NamesOf
    <2> HIDE DEF S, T
    <2>5. S = T
      BY <2>3, <2>4, SamePairs
    <2>6. QED
      BY <2>5 DEF S, T
  <1>5. QED
    BY <1>3, <1>4

(***************************************************************************)
(* Settled packages are those promised, in the directories and in the      *)
(* metadata, whatever fails (rpm.py:126-161, 394-436).                     *)
(***************************************************************************)
THEOREM RpmIsCurrent == RpmSpec => []SettledIsCurrent
  BY RpmSpecIInv, RpmIInvSettled, PTL

(***************************************************************************)
(* A listing names all packages of a settled artifact, and beside them     *)
(* only names of repositories its last publication left out; it is empty   *)
(* in spite of packages only while a directory of a publication waits for  *)
(* its metadata (rpm.py:126-161, 188-218).                                 *)
(***************************************************************************)
THEOREM RpmListingIsExact == RpmSpec => []ListingIsExact
  <1>1. ASSUME RpmIInv, dirs \subseteq indexed, NEW a \in Artifacts, Settled(a)
        PROVE  /\ ThereOf(a) \subseteq ListedOf(a)
               /\ \A p \in ListedOf(a) \ ThereOf(a), r \in Repos :
                     p \in meta[r] => LeftOut(a, r)
    <2> USE DEF RpmIInv
    <2>1. /\ current[a] \subseteq Repos \X Packages
          /\ meta \in [Repos -> SUBSET Packages]
      BY <1>1 DEF RpmTypes
    <2>2. \A r \in Repos :
             /\ \A p \in Packages : p \in files[r] /\ p.artifact = a
                                    <=> <<r, p>> \in current[a]
             /\ NamesAreCurrent(a, r)
      BY <1>1 DEF SettledShape
    <2>3. \A r, p : <<r, p>> \in FilesOf(a) <=>
                       r \in Repos /\ p \in files[r] /\ p.artifact = a
      BY <1>1, FilesPairs
    <2>4. FilesOf(a) \subseteq Repos \X Packages
      BY <1>1, FilesPairs
    <2>5. \A r \in Repos, p \in Packages :
             <<r, p>> \in current[a] => p \in ThereOf(a)
      BY <2>2, <2>3 DEF ThereOf
    <2>6. ASSUME NEW p \in ThereOf(a)
          PROVE  p \in ListedOf(a)
      <3>1. PICK r \in Repos : p \in Packages /\ <<r, p>> \in FilesOf(a)
        BY <2>4, <2>6 DEF ThereOf
      <3>2. <<r, p>> \in current[a] /\ p.artifact = a
        BY <2>2, <2>3, <3>1
      <3>3. p \in meta[r]
        BY <2>2, <3>1, <3>2 DEF NamesAreCurrent
      <3>4. r \in dirs
        BY <1>1, <3>1, <3>3 DEF ListShape, RpmTypes
      <3>5. QED
        BY <1>1, <3>2, <3>3, <3>4 DEF ListedOf, Listing
    <2>7. ASSUME NEW p \in ListedOf(a) \ ThereOf(a), NEW r \in Repos,
                 p \in meta[r], ~LeftOut(a, r)
          PROVE  FALSE
      <3>1. p \in Packages /\ p.artifact = a
        BY <2>1, <2>7 DEF ListedOf
      <3>2. \E q \in Packages : <<r, q>> \in current[a]
        BY <2>1, <2>7 DEF LeftOut
      <3>3. <<r, p>> \in current[a]
        BY <2>2, <2>7, <3>1, <3>2 DEF NamesAreCurrent
      <3>4. QED
        BY <2>5, <2>7, <3>1, <3>3
    <2>8. QED
      BY <2>6, <2>7
  <1>2. RpmIInv /\ ~(dirs \subseteq indexed) => HalfPublished
    BY DEF RpmIInv, ListShape, HalfPublished
  <1>3. RpmIInv => ListingIsExact
    BY <1>1, <1>2 DEF ListingIsExact
  <1>4. QED
    BY <1>3, RpmSpecIInv, PTL

(* The source packages that are promised give the version of the files.  *)
LEMMA SourcesAreCurrent ==
  ASSUME RpmIInv, NEW a \in Artifacts, Settled(a), HasSource(a)
  PROVE  /\ SourceVersions(a) # {}
         /\ \A w \in SourceVersions(a), pair \in FilesOf(a) :
               pair[2].version = w
  <1> USE DEF RpmIInv
  <1>1. "src" \in Repos /\ "src" \notin Architectures
    BY ArchitecturesAssumption DEF Repos
  <1>2. /\ current[a] \subseteq Repos \X Packages
        /\ PromiseOf(a, current[a])
    BY DEF RpmTypes, CurrentShape
  <1>3. /\ \A r \in Repos, p \in Packages :
              p \in files[r] /\ p.artifact = a <=> <<r, p>> \in current[a]
        /\ NamesAreCurrent(a, "src")
    BY <1>1 DEF SettledShape
  <1>4. PICK p \in Packages : <<"src", p>> \in current[a]
    BY <1>2 DEF HasSource
  <1>5. \A q \in Packages : q \in meta["src"] /\ q.artifact = a
                            <=> <<"src", q>> \in current[a]
    BY <1>3, <1>4 DEF NamesAreCurrent
  <1>6. p.arch = "src"
    BY <1>1, <1>2, <1>4 DEF PromiseOf, HomesOf
  <1>7. SourceVersions(a) # {}
    BY <1>4, <1>5, <1>6 DEF SourceVersions
  <1>8. ASSUME NEW w \in SourceVersions(a), NEW pair \in FilesOf(a)
        PROVE  pair[2].version = w
    <2>1. PICK q \in meta["src"] : q.artifact = a /\ q.version = w
      BY <1>8 DEF SourceVersions
    <2>2. q \in Packages /\ <<"src", q>> \in current[a]
      BY <1>1, <1>5, <2>1 DEF RpmTypes
    <2>3. PICK r \in Repos, s \in Packages :
             pair = <<r, s>> /\ s \in files[r] /\ s.artifact = a
      BY <1>8, FilesPairs
    <2>4. <<r, s>> \in current[a]
      BY <1>3, <2>3
    <2>5. s.version = q.version
      <3>1. \A t \in Repos, u \in Packages :
               <<t, u>> \in current[a] => u.version = q.version
        BY <1>1, <1>2, <2>2 DEF PromiseOf
      <3>2. QED
        BY <2>4, <3>1
    <2>6. QED
      BY <2>1, <2>3, <2>5
  <1>9. QED
    BY <1>7, <1>8

(* Only a start makes an artifact the one of the task in progress.  *)
LEMMA OnlyStartsTake ==
  ASSUME RpmNext, NEW a \in Artifacts, Settled(a), job' # NoJob,
         job'.artifact = a, job'.kind = "publish", RpmTypes
  PROVE  \E archs \in SUBSET Architectures, main \in Mains :
            \E v \in BuildVersions(a, main) : PublishStart(a, archs, main, v)
  <1>1. job' # job
    BY DEF Settled
  <1>2. ~\E pair \in toRemove : RemoveRpm(pair[1], pair[2])
    BY <1>1 DEF RemoveRpm
  <1>3. ~\E pair \in toCopy : CopyRpm(pair[1], pair[2])
    BY <1>1 DEF CopyRpm
  <1>4. ~\E r \in toIndex : IndexRepo(r)
    BY <1>1 DEF IndexRepo
  <1>5. ~\E r \in toVisit : DeleteVisit(r) \/ DeleteAborts(r)
    BY <1>1 DEF DeleteVisit, DeleteAborts
  <1>6. ~PublishDone /\ ~DeleteDone /\ ~Interrupt
    BY DEF PublishDone, DeleteDone, Interrupt
  <1>7. ~\E b \in Artifacts, arch \in Repos \cup {"noarch"} :
            DeleteStart(b, arch)
    BY DEF DeleteStart
  <1>8. PICK b \in Artifacts, archs \in SUBSET Architectures, main \in Mains :
           \E v \in BuildVersions(b, main) : PublishStart(b, archs, main, v)
    BY <1>2, <1>3, <1>4, <1>5, <1>6, <1>7 DEF RpmNext
  <1>9. b = a
    BY <1>8 DEF PublishStart
  <1>10. QED
    BY <1>8, <1>9

(***************************************************************************)
(* A build beside a settled source package gives a new version             *)
(* (builds/formats/rpm.py:211-231).                                        *)
(***************************************************************************)
THEOREM RpmVersionsAreNew == RpmSpec => BuildIsNew
  <1> DEFINE New == \A a \in Artifacts :
               Settled(a) /\ HasSource(a) /\ job' # NoJob /\ job'.artifact = a
               /\ job'.kind = "publish" =>
                   \A p \in job'.rpms, pair \in FilesOf(a) :
                       p.version # pair[2].version
  <1>1. ASSUME RpmIInv, RpmNext PROVE New
    <2> SUFFICES ASSUME NEW a \in Artifacts, Settled(a), HasSource(a),
                        job' # NoJob, job'.artifact = a, job'.kind = "publish",
                        NEW p \in job'.rpms, NEW pair \in FilesOf(a)
                 PROVE  p.version # pair[2].version
      OBVIOUS
    <2>1. RpmTypes
      BY <1>1 DEF RpmIInv
    <2>2. PICK archs \in SUBSET Architectures, main \in Mains :
             \E v \in BuildVersions(a, main) : PublishStart(a, archs, main, v)
      BY <1>1, <2>1, OnlyStartsTake
    <2>3. PICK v \in BuildVersions(a, main) : PublishStart(a, archs, main, v)
      BY <2>2
    <2>4. v.number <= MaxNumber /\ job'.rpms = Rpms(a, archs, v)
      BY <2>3 DEF PublishStart
    <2>5. PICK w \in SourceVersions(a) : v # w /\ v \in Versions
      BY <1>1, <2>1, <2>4, RpmVersionIsNew, SourcesAreCurrent
    <2>6. p.version = v
      BY <2>4, <2>5, RpmsShape
    <2>7. pair[2].version = w
      BY <1>1, <2>5, SourcesAreCurrent
    <2>8. QED
      BY <2>5, <2>6, <2>7
  <1>2. RpmIInv /\ [RpmNext]_rpmVars => [New]_rpmVars
    BY <1>1
  <1>3. QED
    BY <1>2, RpmSpecIInv, PTL DEF RpmSpec, BuildIsNew

-----------------------------------------------------------------------------

\* The directories there are, and the bounds of the model.
DirsShape ==
    /\ dirs \subseteq Repos
    /\ \A r \in Repos : files[r] # {} => r \in dirs
    /\ tasks \in 0..MaxTasks
    /\ failures \in 0..MaxFailures

LEMMA NextDirsShape ==
  ASSUME RpmTypes, DirsShape, [RpmNext]_rpmVars
  PROVE  DirsShape'
  <1>1. CASE UNCHANGED rpmVars
    BY <1>1 DEF DirsShape, rpmVars, storeVars, histVars
  <1>2. ASSUME NEW a \in Artifacts, NEW archs, NEW main, NEW v,
               PublishStart(a, archs, main, v)
        PROVE  DirsShape'
    BY <1>2, BoundsAssumption
    DEF PublishStart, StartTask, DirsShape, storeVars, histVars
  <1>3. ASSUME NEW pair \in toRemove, RemoveRpm(pair[1], pair[2])
        PROVE  DirsShape'
    BY <1>3 DEF RemoveRpm, DirsShape, histVars, RpmTypes
  <1>4. ASSUME NEW pair \in toCopy, CopyRpm(pair[1], pair[2])
        PROVE  DirsShape'
    BY <1>4 DEF CopyRpm, DirsShape, histVars, RpmTypes
  <1>5. ASSUME NEW r \in toIndex, IndexRepo(r)
        PROVE  DirsShape'
    BY <1>5 DEF IndexRepo, DirsShape, histVars
  <1>6. ASSUME PublishDone \/ DeleteDone
        PROVE  DirsShape'
    BY <1>6 DEF PublishDone, DeleteDone, DirsShape, storeVars
  <1>7. ASSUME NEW a, NEW arch, DeleteStart(a, arch)
        PROVE  DirsShape'
    BY <1>7, BoundsAssumption
    DEF DeleteStart, StartTask, DirsShape, storeVars, histVars
  <1>8. ASSUME NEW r, DeleteVisit(r) \/ DeleteAborts(r)
        PROVE  DirsShape'
    BY <1>8 DEF DeleteVisit, DeleteAborts, DirsShape, storeVars, histVars
  <1>9. ASSUME Interrupt
        PROVE  DirsShape'
    BY <1>9, BoundsAssumption DEF Interrupt, DirsShape, storeVars
  <1>10. QED
    BY <1>1, <1>2, <1>3, <1>4, <1>5, <1>6, <1>7, <1>8, <1>9 DEF RpmNext

(***************************************************************************)
(* The repositories keep their types: metadata and files are in            *)
(* directories that exist, and no work is left without a task              *)
(* (rpm.py:126-161).                                                       *)
(***************************************************************************)
THEOREM RpmKeepsTypes == RpmSpec => []RpmTypeOK
  <1>1. RpmInit => DirsShape
    BY BoundsAssumption DEF RpmInit, DirsShape
  <1>2. RpmIInv => RpmTypes
    BY DEF RpmIInv
  <1>3. RpmIInv /\ DirsShape => RpmTypeOK
    BY DEF RpmIInv, RpmTypes, JobShape, ListShape, DirsShape, RpmTypeOK
  <1>4. QED
    BY <1>1, <1>2, <1>3, NextDirsShape, RpmSpecIInv, PTL DEF RpmSpec

-----------------------------------------------------------------------------
(***************************************************************************)
(* The deb registry, for any artifacts, distributions and derivatives, and *)
(* any number of publications, deletions and failures.                     *)
(***************************************************************************)

Publishing == debPhase \in {"include", "export"}

\* The architectures of a package follow from where it is listed.
GoodLine(l) ==
    /\ l.loc \in Locations
    /\ l.arch = IF l.loc = "source" \/ l.name \notin DebNoarch THEN l.loc
                ELSE "all"
    /\ l.name \in DebArtifacts
    /\ l.version \in DebVersions

PublicationShape ==
    /\ debPhase \in {"idle", "open", "write", "include", "export"}
    /\ debPhase = "idle" <=> publication = NoPublication
    /\ publication # NoPublication =>
          /\ publication \in Publications
          /\ publication.archs # {}
    /\ Publishing => toInclude \subseteq publication.archs

LinesShape == \A l \in lines : GoodLine(l)

\* What was promised is of one version in each place, in a distribution that
\* was exported.
PromiseShape ==
    /\ promised = [a \in DebArtifacts |-> promised[a]]
    /\ \A a \in DebArtifacts : \A l \in promised[a] :
          /\ GoodLine(l)
          /\ l.name = a
          /\ l.place[1] \in dists
          /\ conf # "missing"
          /\ \A k \in promised[a] : k.place = l.place => k.version = l.version

ConfShape ==
    /\ debPhase \in {"write", "include", "export"} => conf # "missing"
    /\ conf = "empty" => debPhase = "write" \/ doubtful # {}
    /\ Publishing =>
          /\ conf = "written"
          /\ publication.place[1] \in confDists
          /\ publication.place[2] \in confComps
          /\ dists \subseteq confDists
          /\ \A l \in lines : l.place[2] \in confComps

LinesAt(loc) ==
    {k \in LinesOf(publication.place, publication.artifact) : k.loc = loc}

\* The changes files that were included are all there is where they go.
ProgressShape ==
    /\ Publishing /\ ~passed =>
          \A x \in publication.archs \ toInclude :
              \A l \in IncludedLines(x) : LinesAt(l.loc) = {l}
    /\ debPhase = "include" /\ toInclude # publication.archs =>
          publication.place[1] \in dists

DebIInv ==
    /\ PublicationShape /\ LinesShape /\ PromiseShape /\ ConfShape
    /\ ProgressShape /\ DebSettledIsCurrent

-----------------------------------------------------------------------------

LEMMA NativeNames ==
  /\ DOMAIN Native = {"x86_64", "aarch64", "src", "noarch"}
  /\ Native["x86_64"] = "amd64" /\ Native["aarch64"] = "arm64"
  /\ Native["src"] = "source" /\ Native["noarch"] = "all"
  /\ Locations = {"amd64", "arm64", "source"}
  /\ DebArchitectures = {"x86_64", "aarch64"}
  BY DEF Native, Locations, DebArchitectures

LEMMA NormalizedIsInverse ==
  \A x \in DOMAIN Native : Normalized(Native[x]) = x
  BY NativeNames DEF Normalized

(* The lines of a changes file are well formed, and two changes files of    *)
(* one build agree where they both go.                                      *)
LEMMA ChangesShape ==
  ASSUME NEW place, NEW a \in DebArtifacts, NEW v \in DebVersions,
         NEW x \in DebArchitectures
  PROVE  /\ \A l \in ChangesFile(place, a, x, v) :
               /\ GoodLine(l)
               /\ l.place = place /\ l.name = a /\ l.version = v
         /\ \A y \in DebArchitectures :
               \A l \in ChangesFile(place, a, x, v),
                  k \in ChangesFile(place, a, y, v) : l.loc = k.loc => l = k
         /\ \E l \in ChangesFile(place, a, x, v) : l.loc = "source"
  <1>1. \A l \in ChangesFile(place, a, x, v) :
           /\ GoodLine(l)
           /\ l.place = place /\ l.name = a /\ l.version = v
    BY NativeNames DEF ChangesFile, Line, GoodLine
  <1>2. ASSUME NEW y \in DebArchitectures,
               NEW l \in ChangesFile(place, a, x, v),
               NEW k \in ChangesFile(place, a, y, v), l.loc = k.loc
        PROVE  l = k
    <2>1. CASE a \in DebNoarch
      <3>1. ASSUME NEW z \in DebArchitectures,
                   NEW m \in ChangesFile(place, a, z, v)
            PROVE  m = IF m.loc = "source"
                       THEN Line(place, a, "source", "source", v)
                       ELSE Line(place, a, "all", m.loc, v)
        BY <2>1, NativeNames DEF ChangesFile, Line
      <3>2. QED
        BY <1>2, <3>1, Zenon
    <2>2. CASE a \notin DebNoarch
      <3>1. ASSUME NEW z \in DebArchitectures,
                   NEW m \in ChangesFile(place, a, z, v)
            PROVE  m = Line(place, a, m.loc, m.loc, v)
        BY <2>2 DEF ChangesFile, Line
      <3>2. QED
        BY <1>2, <3>1, Zenon
    <2>3. QED
      BY <2>1, <2>2
  <1>3. \E l \in ChangesFile(place, a, x, v) : l.loc = "source"
    <2>1. /\ Line(place, a, "source", "source", v)
                \in ChangesFile(place, a, x, v)
          /\ Line(place, a, "source", "source", v).loc = "source"
      BY DEF ChangesFile, Line
    <2>2. QED
      BY <2>1
  <1>4. QED
    BY <1>1, <1>2, <1>3

(* A complete publication goes everywhere.  *)
LEMMA CompleteIsEverywhere ==
  ASSUME NEW p \in Publications, p.archs # {}, IsComplete(p),
         NEW loc \in Locations
  PROVE  \E x \in p.archs :
            \E l \in ChangesFile(p.place, p.artifact, x, p.version) :
                l.loc = loc
  <1>1. p.archs \subseteq DebArchitectures
    BY DEF Publications
  <1> DEFINE Files(x) == ChangesFile(p.place, p.artifact, x, p.version)
             Its(arch) == Line(p.place, p.artifact, arch, loc, p.version)
  <1>2. \A arch : Its(arch).loc = loc
    BY DEF Line
  <1>3. CASE loc = "source"
    <2>1. PICK x \in p.archs : TRUE
      OBVIOUS
    <2>2. Its("source") \in Files(x)
      BY <1>3 DEF ChangesFile
    <2>3. QED
      BY <1>2, <2>2
  <1>4. CASE loc # "source" /\ p.artifact \in DebNoarch
    <2>1. PICK x \in p.archs : TRUE
      OBVIOUS
    <2>2. PICK y \in DebArchitectures : loc = Native[y]
      BY <1>4, NativeNames
    <2>3. Its("all") \in Files(x)
      BY <1>4, <2>2 DEF ChangesFile
    <2>4. QED
      BY <1>2, <2>3
  <1>5. CASE loc # "source" /\ p.artifact \notin DebNoarch
    <2>1. PICK x \in p.archs : loc = Native[x]
      BY <1>5, NativeNames DEF IsComplete
    <2>2. Its(loc) \in Files(x)
      BY <1>5, <2>1 DEF ChangesFile
    <2>3. QED
      BY <1>2, <2>2
  <1>6. QED
    BY <1>3, <1>4, <1>5

-----------------------------------------------------------------------------

LEMMA DebInitIInv == DebInit => DebIInv
  <1> SUFFICES ASSUME DebInit PROVE DebIInv
    OBVIOUS
  <1>1. PublicationShape /\ LinesShape /\ ConfShape /\ ProgressShape
    BY DEF DebInit, PublicationShape, LinesShape, ConfShape, ProgressShape,
           Publishing
  <1>2. PromiseShape
    BY DEF DebInit, PromiseShape
  <1>3. DebSettledIsCurrent
    BY DEF DebInit, DebSettledIsCurrent, LinesOf
  <1>4. QED
    BY <1>1, <1>2, <1>3 DEF DebIInv

(* The version of a build is new.  *)
LEMMA BuildVersionIsNew ==
  ASSUME NEW place, NEW a, NEW main \in DebMains, LinesShape,
         NEW v \in DebBuildVersions(place, a, main), v.number <= MaxDebNumber
  PROVE  /\ v \in DebVersions
         /\ DebSourceVersions(place, a) # {} =>
               \E w \in DebSourceVersions(place, a) : v # w
  <1>1. -1 \in -1..MaxDebNumber
    BY DebBoundsAssumption
  <1>2. CASE DebSourceVersions(place, a) = {}
    BY <1>1, <1>2 DEF DebBuildVersions, DebVersions
  <1>3. CASE DebSourceVersions(place, a) # {}
    <2>1. PICK w \in DebSourceVersions(place, a) :
             v = [main |-> main,
                  number |-> IF w.main = main THEN w.number + 1 ELSE -1]
      BY <1>3 DEF DebBuildVersions
    <2>2. w \in DebVersions
      BY DEF DebSourceVersions, LinesOf, LinesShape, GoodLine
    <2>3. w.number \in -1..MaxDebNumber
      BY <2>2 DEF DebVersions
    <2>4. v.number \in -1..MaxDebNumber /\ v.main = main
      BY <2>1, <2>3, DebBoundsAssumption
    <2>5. v # w
      BY <2>1, <2>3
    <2>6. v \in DebVersions
      BY <2>1, <2>4 DEF DebVersions
    <2>7. QED
      BY <2>5, <2>6
  <1>4. QED
    BY <1>2, <1>3

LEMMA StartIInv ==
  ASSUME DebIInv, NEW a \in DebArtifacts, NEW place \in DebPlaces,
         NEW main \in DebMains, NEW archs \in SUBSET DebArchitectures,
         NEW v \in DebBuildVersions(place, a, main),
         DebStart(a, place, archs, v)
  PROVE  DebIInv'
  <1> USE DEF DebIInv
  <1>1. v \in DebVersions
    BY BuildVersionIsNew DEF DebStart
  <1>2. publication' \in Publications /\ publication' # NoPublication
    BY <1>1, NoPublicationAssumption DEF DebStart, Publications
  <1>3. PublicationShape'
    BY <1>2 DEF DebStart, PublicationShape, Publishing
  <1>4. LinesShape' /\ PromiseShape' /\ ProgressShape'
    BY DEF DebStart, debStoreVars, debHistVars, LinesShape, PromiseShape,
           ProgressShape, Publishing
  <1>5. ConfShape'
    <2>1. debPhase # "write"
      BY DEF DebStart, PublicationShape
    <2>2. QED
      BY <2>1 DEF DebStart, debStoreVars, debHistVars, ConfShape, Publishing
  <1>6. DebSettledIsCurrent'
    BY DEF DebStart, debStoreVars, debHistVars, DebSettledIsCurrent, IsSettled,
           LinesOf
  <1>7. QED
    BY <1>3, <1>4, <1>5, <1>6

(* The configuration is opened and written.  *)
LEMMA ConfIInv ==
  ASSUME DebIInv, OpenConf \/ WriteConf
  PROVE  DebIInv'
  <1> USE DEF DebIInv
  <1>1. CASE OpenConf
    <2>1. PublicationShape' /\ ConfShape' /\ ProgressShape'
      BY <1>1
      DEF OpenConf, PublicationShape, ConfShape, ProgressShape, Publishing
    <2>2. LinesShape' /\ PromiseShape' /\ DebSettledIsCurrent'
      BY <1>1
      DEF OpenConf, debHistVars, LinesShape, PromiseShape, IsSettled,
          DebSettledIsCurrent, LinesOf
    <2>3. QED
      BY <2>1, <2>2
  <1>2. CASE WriteConf
    <2>1. PublicationShape'
      BY <1>2 DEF WriteConf, PublicationShape, Publishing
    <2>2. ConfShape'
      BY <1>2
      DEF WriteConf, ConfShape, ConfDists, ConfComps, Components, Publishing
    <2>3. ProgressShape'
      BY <1>2 DEF WriteConf, ProgressShape, Publishing
    <2>4. LinesShape' /\ PromiseShape' /\ DebSettledIsCurrent'
      BY <1>2
      DEF WriteConf, debHistVars, LinesShape, PromiseShape, IsSettled,
          DebSettledIsCurrent, LinesOf
    <2>5. QED
      BY <2>1, <2>2, <2>3, <2>4
  <1>3. QED
    BY <1>1, <1>2

LEMMA ExportIInv ==
  ASSUME DebIInv, ExportDist
  PROVE  DebIInv'
  <1> USE DEF DebIInv
  <1>1. PublicationShape'
    BY DEF ExportDist, PublicationShape, Publishing
  <1>2. ConfShape'
    BY DEF ExportDist, ConfShape, Publishing
  <1>3. ProgressShape'
    <2>1. UNCHANGED <<lines, publication, toInclude, passed>>
      BY DEF ExportDist
    <2>2. QED
      BY <2>1
      DEF ExportDist, ProgressShape, Publishing, LinesAt, LinesOf,
          IncludedLines
  <1>4. LinesShape' /\ PromiseShape' /\ DebSettledIsCurrent'
    BY DEF ExportDist, debHistVars, LinesShape, PromiseShape, IsSettled,
           DebSettledIsCurrent, LinesOf
  <1>5. QED
    BY <1>1, <1>2, <1>3, <1>4

(* What a publication is made of, while it is in progress.  *)
LEMMA PublicationTypes ==
  ASSUME PublicationShape, publication # NoPublication
  PROVE  /\ publication.artifact \in DebArtifacts
         /\ publication.place \in DebPlaces
         /\ publication.version \in DebVersions
         /\ publication.archs \subseteq DebArchitectures
         /\ publication.archs # {}
  BY DEF PublicationShape, Publications

(* reprepro replaces the lines of the same package, artifact and place, and *)
(* no other ones.                                                           *)
LEMMA IncludeIInv ==
  ASSUME DebIInv, NEW x \in toInclude, Include(x)
  PROVE  DebIInv'
  <1> DEFINE new == {l \in IncludedLines(x) : ~Obsolete(l)}
  <1> USE DEF DebIInv
  <1>1. /\ lines' = (lines \ UNION {Former(l) : l \in new}) \cup new
        /\ passed' = (passed \/ new # IncludedLines(x))
        /\ toInclude' = toInclude \ {x}
        /\ debPhase = "include" /\ debPhase' = "export"
        /\ UNCHANGED <<dists, conf, confDists, confComps, publication,
                       promised, doubtful>>
    BY DEF Include, debHistVars
  <1>2. /\ publication # NoPublication
        /\ x \in publication.archs
        /\ publication.archs \subseteq DebArchitectures
        /\ publication.artifact \in DebArtifacts
        /\ publication.version \in DebVersions
    BY <1>1, PublicationTypes DEF PublicationShape, Publishing
  <1>3. \A l \in IncludedLines(x) :
           /\ GoodLine(l) /\ l.place = publication.place
           /\ l.name = publication.artifact
    BY <1>2, ChangesShape DEF IncludedLines
  <1>4. PublicationShape'
    BY <1>1 DEF PublicationShape, Publishing
  <1>5. LinesShape'
    BY <1>1, <1>3 DEF LinesShape
  <1>6. PromiseShape'
    BY <1>1 DEF PromiseShape
  <1>7. ConfShape'
    BY <1>1, <1>3 DEF ConfShape, Publishing
  <1>8. ProgressShape'
    <2>1. SUFFICES ASSUME ~passed',
                          NEW y \in publication.archs \ toInclude',
                          NEW l \in IncludedLines(y)
                   PROVE  LinesAt(l.loc)' = {l}
      BY <1>1 DEF ProgressShape, IncludedLines
    <2>2. ~passed /\ new = IncludedLines(x)
      BY <1>1, <2>1, Zenon
    <2>3. \A k \in IncludedLines(x) : k.loc = l.loc => k = l
      BY <1>2, <2>1, ChangesShape DEF IncludedLines
    <2>4. l.place = publication.place /\ l.name = publication.artifact
      BY <1>2, <2>1, ChangesShape DEF IncludedLines
    <2>5. CASE l \in IncludedLines(x)
      <3>1. \A k \in lines : k \in LinesAt(l.loc) => k \in Former(l)
        BY <2>4 DEF LinesAt, LinesOf, Former
      <3>2. l \in lines'
        BY <1>1, <2>2, <2>5
      <3>3. \A k \in lines' : k.place = publication.place
                              /\ k.name = publication.artifact
                              /\ k.loc = l.loc => k = l
        BY <1>1, <2>2, <2>3, <2>5, <3>1 DEF LinesAt, LinesOf
      <3>4. QED
        BY <1>1, <2>4, <3>2, <3>3 DEF LinesAt, LinesOf
    <2>6. CASE l \notin IncludedLines(x)
      <3>1. y \in publication.archs \ toInclude
        BY <1>1, <2>1, <2>6
      <3>2. LinesAt(l.loc) = {l}
        BY <1>1, <2>2, <3>1 DEF ProgressShape, Publishing
      <3>3. \A k \in IncludedLines(x) : k.loc # l.loc
        BY <2>3, <2>6
      <3>4. \A k \in new : l \notin Former(k)
        BY <3>3 DEF Former
      <3>5. QED
        BY <1>1, <2>2, <3>2, <3>3, <3>4 DEF LinesAt, LinesOf
    <2>7. QED
      BY <2>5, <2>6
  <1>9. DebSettledIsCurrent'
    <2>1. SUFFICES ASSUME NEW b \in DebArtifacts, NEW place \in DebPlaces,
                          IsSettled(b, place)'
                   PROVE  LinesOf(place, b)'
                          = {l \in promised[b] : l.place = place}
      BY <1>1 DEF DebSettledIsCurrent
    <2>2. /\ IsSettled(b, place)
          /\ b # publication.artifact \/ place # publication.place
      BY <1>1, <1>2, <2>1 DEF IsSettled
    <2>3. LinesOf(place, b)' = LinesOf(place, b)
      <3>1. \A l \in new : l \notin LinesOf(place, b)'
        BY <1>3, <2>2 DEF LinesOf
      <3>2. \A l \in new : \A k \in Former(l) : k \notin LinesOf(place, b)
        BY <1>3, <2>2 DEF LinesOf, Former
      <3>3. QED
        BY <1>1, <3>1, <3>2 DEF LinesOf
    <2>4. QED
      BY <2>2, <2>3 DEF DebSettledIsCurrent
  <1>10. QED
    BY <1>4, <1>5, <1>6, <1>7, <1>8, <1>9

(* A publication that ends has put all its packages, unless it was partial  *)
(* or met more recent ones.                                                 *)
LEMMA PublishedIInv ==
  ASSUME DebIInv, DebPublished
  PROVE  DebIInv'
  <1> DEFINE p == publication
             here == {l \in promised[p.artifact] : l.place = p.place}
  <1> USE DEF DebIInv
  <1>1. /\ debPhase = "include" /\ toInclude = {}
        /\ promised' = [promised EXCEPT ![p.artifact] =
                           (@ \ here) \cup PackagesOf(p)]
        /\ doubtful' = IF IsComplete(p) /\ ~passed
                       THEN doubtful \ {<<p.artifact, p.place>>}
                       ELSE doubtful \cup {<<p.artifact, p.place>>}
        /\ publication' = NoPublication
        /\ debPhase' = "idle"
        /\ UNCHANGED <<lines, dists, conf, confDists, confComps, toInclude,
                       passed>>
    BY DEF DebPublished, debStoreVars
  <1>2. /\ p \in Publications
        /\ p.artifact \in DebArtifacts /\ p.place \in DebPlaces
        /\ p.version \in DebVersions
        /\ p.archs \subseteq DebArchitectures /\ p.archs # {}
    BY <1>1, PublicationTypes DEF PublicationShape
  <1>3. PublicationShape' /\ LinesShape' /\ ConfShape' /\ ProgressShape'
    BY <1>1
    DEF PublicationShape, LinesShape, ConfShape, ProgressShape, Publishing
  <1>4. \A l \in PackagesOf(p) :
           /\ GoodLine(l) /\ l.name = p.artifact
           /\ l.place = p.place /\ l.version = p.version
    BY <1>2, ChangesShape DEF PackagesOf
  <1>5. p.place[1] \in dists /\ conf # "missing"
    BY <1>1, <1>2 DEF ProgressShape, ConfShape
  <1>6. /\ \A b \in DebArtifacts \ {p.artifact} : promised'[b] = promised[b]
        /\ promised'[p.artifact]
           = (promised[p.artifact] \ here) \cup PackagesOf(p)
        /\ promised' = [b \in DebArtifacts |-> promised'[b]]
    BY <1>1, <1>2 DEF PromiseShape
  <1>7. PromiseShape'
    <2>1. SUFFICES ASSUME NEW b \in DebArtifacts, NEW l \in promised'[b]
                   PROVE  /\ GoodLine(l) /\ l.name = b
                          /\ l.place[1] \in dists /\ conf # "missing"
                          /\ \A k \in promised'[b] :
                                k.place = l.place => k.version = l.version
      BY <1>1, <1>6 DEF PromiseShape
    <2>2. CASE b # p.artifact
      BY <1>6, <2>2 DEF PromiseShape
    <2>3. CASE b = p.artifact
      BY <1>4, <1>5, <1>6, <2>3 DEF PromiseShape
    <2>4. QED
      BY <2>2, <2>3
  <1>8. DebSettledIsCurrent'
    <2>1. SUFFICES ASSUME NEW b \in DebArtifacts, NEW place \in DebPlaces,
                          <<b, place>> \notin doubtful'
                   PROVE  LinesOf(place, b)
                          = {l \in promised'[b] : l.place = place}
      BY <1>1 DEF DebSettledIsCurrent, IsSettled, LinesOf
    <2>2. CASE b # p.artifact \/ place # p.place
      <3>1. IsSettled(b, place)
        BY <1>1, <2>1, <2>2 DEF IsSettled
      <3>2. LinesOf(place, b) = {l \in promised[b] : l.place = place}
        BY <3>1 DEF DebSettledIsCurrent
      <3>3. CASE b # p.artifact
        BY <1>6, <3>2, <3>3
      <3>4. CASE b = p.artifact /\ place # p.place
        BY <1>4, <1>6, <3>2, <3>4
      <3>5. QED
        BY <2>2, <3>3, <3>4
    <2>3. CASE b = p.artifact /\ place = p.place
      <3>1. IsComplete(p) /\ ~passed
        BY <1>1, <2>1, <2>3
      <3>2. {l \in promised'[b] : l.place = place} = PackagesOf(p)
        BY <1>4, <1>6, <2>3
      <3>3. \A x \in p.archs : \A l \in IncludedLines(x) :
               LinesAt(l.loc) = {l}
        BY <1>1, <3>1 DEF ProgressShape, Publishing
      <3>4. ASSUME NEW k \in LinesOf(place, b) PROVE k \in PackagesOf(p)
        <4>1. k.loc \in Locations
          BY DEF LinesOf, LinesShape, GoodLine
        <4>2. PICK x \in p.archs : \E l \in IncludedLines(x) : l.loc = k.loc
          BY <1>2, <3>1, <4>1, CompleteIsEverywhere DEF IncludedLines
        <4>3. PICK l \in IncludedLines(x) : l.loc = k.loc
          BY <4>2
        <4>4. k \in LinesAt(l.loc)
          BY <2>3, <4>3 DEF LinesAt, LinesOf
        <4>5. k = l
          BY <3>3, <4>3, <4>4
        <4>6. QED
          BY <4>3, <4>5 DEF PackagesOf, IncludedLines
      <3>5. ASSUME NEW l \in PackagesOf(p) PROVE l \in LinesOf(place, b)
        <4>1. PICK x \in p.archs : l \in IncludedLines(x)
          BY DEF PackagesOf, IncludedLines
        <4>2. l \in LinesAt(l.loc)
          BY <3>3, <4>1
        <4>3. QED
          BY <2>3, <4>2 DEF LinesAt
      <3>6. QED
        BY <3>2, <3>4, <3>5
    <2>4. QED
      BY <2>2, <2>3
  <1>9. QED
    BY <1>3, <1>7, <1>8

LEMMA InterruptIInv ==
  ASSUME DebIInv, DebInterrupt
  PROVE  DebIInv'
  <1> USE DEF DebIInv
  <1>1. /\ publication # NoPublication
        /\ doubtful' =
              doubtful \cup {<<publication.artifact, publication.place>>}
        /\ publication' = NoPublication /\ debPhase' = "idle"
        /\ UNCHANGED <<lines, dists, conf, confDists, confComps, promised>>
    BY DEF DebInterrupt, debStoreVars
  <1>2. PublicationShape' /\ LinesShape' /\ PromiseShape' /\ ConfShape'
        /\ ProgressShape'
    BY <1>1
    DEF PublicationShape, LinesShape, PromiseShape, ConfShape, ProgressShape,
        Publishing
  <1>3. DebSettledIsCurrent'
    BY <1>1 DEF DebSettledIsCurrent, IsSettled, LinesOf
  <1>4. QED
    BY <1>2, <1>3

(* The architecture an entry of the listing has.  *)
LEMMA EntryArch ==
  ASSUME NEW l, GoodLine(l),
         NEW arch, arch = Normalized(IF l.loc = "source" THEN l.loc ELSE l.arch)
  PROVE  /\ arch \in DOMAIN Native
         /\ arch = "src" <=> l.loc = "source"
         /\ Native[arch] = IF l.loc = "source" THEN l.loc ELSE l.arch
  <1>1. CASE l.loc = "source"
    BY <1>1, NativeNames, NormalizedIsInverse
  <1>2. CASE l.loc # "source"
    <2>1. PICK x \in {"x86_64", "aarch64", "noarch"} : l.arch = Native[x]
      BY <1>2, NativeNames DEF GoodLine
    <2>2. arch = x
      BY <1>2, <2>1, NativeNames, NormalizedIsInverse
    <2>3. QED
      BY <1>2, <2>1, <2>2, NativeNames
  <1>3. QED
    BY <1>1, <1>2

LEMMA ListedArch ==
  ASSUME LinesShape, NEW place, NEW e \in DebListing(place)
  PROVE  \E l \in LinesOf(place, e.name) :
            /\ e.version = l.version
            /\ e.arch \in DOMAIN Native
            /\ e.arch = "src" <=> l.loc = "source"
            /\ Native[e.arch] = IF l.loc = "source" THEN l.loc ELSE l.arch
            /\ GoodLine(l)
  <1>1. PICK l \in lines :
           /\ l.place = place
           /\ e = Entry(l, IF l.loc = "source" THEN l.loc ELSE l.arch)
    BY DEF DebListing
  <1>2. GoodLine(l)
    BY DEF LinesShape
  <1>3. /\ l \in LinesOf(place, e.name)
        /\ e.version = l.version
        /\ e.arch = Normalized(IF l.loc = "source" THEN l.loc ELSE l.arch)
    BY <1>1 DEF Entry, LinesOf
  <1>4. QED
    BY <1>2, <1>3, EntryArch

(* What is deleted is what is not promised any more.  *)
LEMMA DeleteIInv ==
  ASSUME DebIInv, NEW a \in DebArtifacts, NEW place \in DebPlaces,
         NEW arch \in DOMAIN Native, DebDelete(place, a, arch)
  PROVE  DebIInv'
  <1> USE DEF DebIInv
  <1>1. /\ publication = NoPublication
        /\ \E e \in DebListing(place) : e.name = a /\ e.arch = arch
        /\ lines' = lines \ Removed(place, a, arch)
        /\ promised' = [promised EXCEPT ![a] =
              {l \in @ : l.place # place \/ l.arch # Native[arch]}]
        /\ UNCHANGED <<dists, conf, confDists, confComps, publication,
                       debPhase, toInclude, passed, doubtful>>
    BY DEF DebDelete
  <1>2. /\ \A b \in DebArtifacts \ {a} : promised'[b] = promised[b]
        /\ promised'[a] = {l \in promised[a] :
                              l.place # place \/ l.arch # Native[arch]}
        /\ promised' = [b \in DebArtifacts |-> promised'[b]]
    BY <1>1 DEF PromiseShape
  <1>3. PublicationShape' /\ LinesShape' /\ ConfShape' /\ ProgressShape'
    BY <1>1
    DEF PublicationShape, LinesShape, ConfShape, ProgressShape, Publishing
  <1>4. PromiseShape'
    <2>1. \A b \in DebArtifacts : promised'[b] \subseteq promised[b]
      BY <1>2
    <2>2. QED
      BY <1>1, <1>2, <2>1 DEF PromiseShape
  <1>5. \A l \in LinesOf(place, a) :
           l \in Removed(place, a, arch) <=> l.arch = Native[arch]
    <2>1. PICK k \in LinesOf(place, a) :
             /\ arch = "src" <=> k.loc = "source"
             /\ Native[arch] = IF k.loc = "source" THEN k.loc ELSE k.arch
             /\ GoodLine(k)
      BY <1>1, ListedArch
    <2>2. SUFFICES ASSUME NEW l \in LinesOf(place, a)
                   PROVE  l \in Removed(place, a, arch)
                          <=> l.arch = Native[arch]
      OBVIOUS
    <2>3. GoodLine(l) /\ l.name = a /\ k.name = a
      BY DEF LinesShape, LinesOf
    <2>4. CASE arch = "noarch"
      <3>1. a \in DebNoarch
        BY <2>1, <2>3, <2>4, NativeNames DEF GoodLine
      <3>2. QED
        BY <2>3, <2>4, <3>1, NativeNames DEF Removed, GoodLine
    <2>5. CASE arch = "src"
      BY <2>3, <2>5, NativeNames DEF Removed, GoodLine
    <2>6. CASE arch \in {"x86_64", "aarch64"}
      <3>1. a \notin DebNoarch
        BY <2>1, <2>3, <2>6, NativeNames DEF GoodLine
      <3>2. QED
        BY <2>3, <2>6, <3>1, NativeNames DEF Removed, GoodLine
    <2>7. QED
      BY <2>4, <2>5, <2>6, NativeNames
  <1>6. DebSettledIsCurrent'
    <2>1. SUFFICES ASSUME NEW b \in DebArtifacts, NEW pl \in DebPlaces,
                          IsSettled(b, pl)'
                   PROVE  LinesOf(pl, b)' = {l \in promised'[b] : l.place = pl}
      BY DEF DebSettledIsCurrent
    <2>2. LinesOf(pl, b) = {l \in promised[b] : l.place = pl}
      BY <1>1, <2>1 DEF IsSettled, DebSettledIsCurrent
    <2>3. CASE b = a /\ pl = place
      BY <1>1, <1>2, <1>5, <2>2, <2>3 DEF LinesOf
    <2>4. CASE b # a
      BY <1>1, <1>2, <2>2, <2>4 DEF LinesOf, Removed
    <2>5. CASE b = a /\ pl # place
      BY <1>1, <1>2, <2>2, <2>5 DEF LinesOf, Removed
    <2>6. QED
      BY <2>3, <2>4, <2>5
  <1>7. QED
    BY <1>3, <1>4, <1>6

LEMMA DebNextIInv == DebIInv /\ [DebNext]_debVars => DebIInv'
  <1> SUFFICES ASSUME DebIInv, [DebNext]_debVars PROVE DebIInv'
    OBVIOUS
  <1>1. CASE UNCHANGED debVars
    BY <1>1
    DEF DebIInv, debVars, debStoreVars, debHistVars, PublicationShape,
        LinesShape, PromiseShape, ConfShape, ProgressShape, Publishing,
        LinesAt, LinesOf, IncludedLines, DebSettledIsCurrent, IsSettled
  <1>2. CASE DebNext
    BY <1>2, StartIInv, ConfIInv, IncludeIInv, ExportIInv, PublishedIInv,
       InterruptIInv, DeleteIInv
    DEF DebNext
  <1>3. QED
    BY <1>1, <1>2

LEMMA DebSpecIInv == DebSpec => []DebIInv
  BY DebInitIInv, DebNextIInv, PTL DEF DebSpec

-----------------------------------------------------------------------------

(***************************************************************************)
(* The registry holds, of every artifact in every place, what the last     *)
(* complete publication gave it less what was deleted since, and the       *)
(* configuration of reprepro names it (deb.py:110-167, 488-519).           *)
(***************************************************************************)
THEOREM DebIsCurrent == DebSpec => [](DebSettledIsCurrent /\ ConfNamesAll)
  <1>1. DebIInv => DebSettledIsCurrent /\ ConfNamesAll
    BY DEF DebIInv, ConfShape, Publishing, ConfNamesAll
  <1>2. QED
    BY <1>1, DebSpecIInv, PTL

(***************************************************************************)
(* A listing of what was completely published is what the tasks promised,  *)
(* entry by entry, and each entry has a file of its version; reprepro can  *)
(* list nothing only while the configuration is written or after a         *)
(* publication that failed (deb.py:121-139, 169-286, 329-388).             *)
(***************************************************************************)
THEOREM DebListingIsTrue == DebSpec => []ListedIsPromised
  <1>1. ASSUME DebIInv, conf # "empty", NEW a \in DebArtifacts,
               NEW place \in DebPlaces, IsSettled(a, place)
        PROVE  LET listed == {e \in DebListing(place) : e.name = a} IN
               /\ listed = Entries(Promised(a, place))
               /\ Bins(place, a) =
                     Entries({l \in Promised(a, place) : l.loc # "source"})
               /\ \A e \in listed :
                     {l.version : l \in FilesFor(place, a, e.arch)}
                       = {e.version}
    <2> DEFINE listed == {e \in DebListing(place) : e.name = a}
               Its(k) == Entry(k, IF k.loc = "source" THEN k.loc ELSE k.arch)
    <2> USE DEF DebIInv
    <2>1. LinesOf(place, a) = Promised(a, place)
      BY <1>1 DEF DebSettledIsCurrent, Promised
    <2>2. \A k \in lines : Its(k) = Entry(k, k.arch) /\ Its(k).name = k.name
      BY <1>1 DEF LinesShape, GoodLine, Entry
    <2>3. LinesOf(place, a) # {} => ~IsEmpty(place)
      BY <1>1, <2>1
      DEF PromiseShape, Promised, LinesOf, IsEmpty, Known, Components
    <2>4. listed = {Its(k) : k \in LinesOf(place, a)}
      <3>1. CASE IsEmpty(place)
        BY <2>3, <3>1 DEF DebListing
      <3>2. CASE ~IsEmpty(place)
        <4>1. DebListing(place)
              = {Its(k) : k \in {j \in lines : j.place = place}}
          BY <1>1, <3>2 DEF DebListing
        <4> HIDE DEF Its
        <4>2. QED
          BY <2>2, <4>1 DEF LinesOf
      <3>3. QED
        BY <3>1, <3>2
    <2>5. listed = Entries(Promised(a, place))
      <3>1. \A k \in LinesOf(place, a) : Its(k) = Entry(k, k.arch)
        BY <2>2 DEF LinesOf
      <3>2. Entries(LinesOf(place, a)) = {Its(k) : k \in LinesOf(place, a)}
        BY <3>1 DEF Entries
      <3>3. QED
        BY <2>1, <2>4, <3>2
    <2>6. Bins(place, a)
          = Entries({l \in Promised(a, place) : l.loc # "source"})
      BY <2>1 DEF Bins, Entries
    <2>7. ASSUME NEW e \in listed
          PROVE  {l.version : l \in FilesFor(place, a, e.arch)} = {e.version}
      <3>1. PICK l \in LinesOf(place, a) :
               /\ e.version = l.version
               /\ e.arch \in DOMAIN Native
               /\ e.arch = "src" <=> l.loc = "source"
               /\ Native[e.arch] = IF l.loc = "source" THEN l.loc ELSE l.arch
        BY <1>1, ListedArch
      <3>2. l \in FilesFor(place, a, e.arch)
        BY <3>1 DEF FilesFor
      <3>3. \A k \in FilesFor(place, a, e.arch) : k.version = e.version
        BY <1>1, <2>1, <3>1 DEF FilesFor, Promised, PromiseShape
      <3>4. QED
        BY <3>1, <3>2, <3>3
    <2>8. QED
      BY <2>5, <2>6, <2>7
  <1>2. DebIInv => ListedIsPromised
    <2>1. DebIInv /\ conf = "empty" => HalfConfigured
      BY DEF DebIInv, ConfShape, HalfConfigured
    <2>2. QED
      BY <1>1, <2>1 DEF ListedIsPromised
  <1>3. QED
    BY <1>2, DebSpecIInv, PTL

(* Between tasks the lines of a settled artifact are of one version, and    *)
(* reprepro says which.                                                     *)
LEMMA SettledVersion ==
  ASSUME DebIInv, publication = NoPublication,
         NEW a \in DebArtifacts, NEW place \in DebPlaces,
         IsSettled(a, place),
         \E l \in promised[a] : l.place = place /\ l.loc = "source"
  PROVE  /\ conf = "empty" \/ DebSourceVersions(place, a) # {}
         /\ ~IsEmpty(place)
         /\ \A v \in DebSourceVersions(place, a), l \in LinesOf(place, a) :
               l.version = v
  <1> USE DEF DebIInv
  <1>1. LinesOf(place, a) = {l \in promised[a] : l.place = place}
    BY DEF DebSettledIsCurrent
  <1>2. PICK l \in LinesOf(place, a) : l.loc = "source"
    BY <1>1
  <1>3. ~IsEmpty(place)
    <2>1. place[1] \in dists /\ conf # "missing"
      BY <1>1, <1>2 DEF PromiseShape
    <2>2. l \in lines /\ l.place = place
      BY <1>2 DEF LinesOf
    <2>3. place[2] \in Components
      BY <2>2 DEF Components
    <2>4. QED
      BY <2>1, <2>3 DEF IsEmpty, Known
  <1>4. DebSourceVersions(place, a)
        = {k.version : k \in {j \in LinesOf(place, a) : j.loc = "source"}}
    BY <1>3 DEF DebSourceVersions
  <1>5. \A k, j \in LinesOf(place, a) : k.version = j.version
    BY <1>1 DEF PromiseShape
  <1>6. QED
    BY <1>2, <1>3, <1>4, <1>5

LEMMA StartIsNew ==
  ASSUME DebIInv, [DebNext]_debVars,
         NEW a \in DebArtifacts, NEW place \in DebPlaces,
         \E l \in promised[a] : l.place = place /\ l.loc = "source",
         publication = NoPublication, publication' # NoPublication,
         publication'.artifact = a, publication'.place = place,
         IsSettled(a, place),
         NEW l \in LinesOf(place, a)
  PROVE  l.version # publication'.version
  <1>1. ~UNCHANGED debVars
    BY DEF debVars
  <1>2. debPhase = "idle"
    BY DEF DebIInv, PublicationShape
  <1>3. ~(OpenConf \/ WriteConf \/ ExportDist \/ DebPublished \/ DebInterrupt)
    BY <1>2 DEF OpenConf, WriteConf, ExportDist, DebPublished, DebInterrupt
  <1>4. ~ \E x \in toInclude : Include(x)
    BY <1>2 DEF Include
  <1>5. ~ \E b \in DebArtifacts, pl \in DebPlaces, arch \in DOMAIN Native :
             DebDelete(pl, b, arch)
    BY DEF DebDelete
  <1>6. PICK b \in DebArtifacts, pl \in DebPlaces, main \in DebMains,
             archs \in SUBSET DebArchitectures :
           \E v \in DebBuildVersions(pl, b, main) : DebStart(b, pl, archs, v)
    BY <1>1, <1>3, <1>4, <1>5 DEF DebNext
  <1>7. PICK v \in DebBuildVersions(pl, b, main) : DebStart(b, pl, archs, v)
    BY <1>6
  <1>8. publication' = [artifact |-> b, place |-> pl, version |-> v,
                        archs |-> archs] /\ v.number <= MaxDebNumber
    BY <1>7 DEF DebStart
  <1>9. b = a /\ pl = place /\ publication'.version = v
    BY <1>8
  <1>10. DebSourceVersions(place, a) # {}
    BY <1>9, SettledVersion DEF DebBuildVersions
  <1>11. PICK w \in DebSourceVersions(place, a) : v # w
    BY <1>8, <1>9, <1>10, BuildVersionIsNew DEF DebIInv
  <1>12. QED
    BY <1>9, <1>11, SettledVersion

(***************************************************************************)
(* A build never gives its packages a version that packages of its         *)
(* artifact have in the same place (deb.py:288-327).                       *)
(***************************************************************************)
THEOREM DebVersionsAreNew == DebSpec => DebBuildIsNew
  <1>1. DebIInv /\ [DebNext]_debVars =>
           [ \A a \in DebArtifacts, place \in DebPlaces :
               (\E l \in promised[a] : l.place = place /\ l.loc = "source")
               /\ publication = NoPublication /\ publication' # NoPublication
               /\ publication'.artifact = a /\ publication'.place = place
               /\ IsSettled(a, place) =>
                   \A l \in LinesOf(place, a) :
                       l.version # publication'.version ]_debVars
    BY StartIsNew
  <1>2. QED
    BY <1>1, DebSpecIInv, PTL DEF DebSpec, DebBuildIsNew

-----------------------------------------------------------------------------

\* The places and names of everything, and the bounds of the model.
PlacesShape ==
    /\ lines \subseteq Lines
    /\ dists \subseteq Distributions
    /\ conf \in {"missing", "empty", "written"}
    /\ confDists \subseteq Distributions
    /\ confComps \subseteq Derivatives
    /\ toInclude \subseteq DebArchitectures
    /\ passed \in BOOLEAN
    /\ \A a \in DebArtifacts : promised[a] \subseteq Lines
    /\ doubtful \subseteq DebArtifacts \X DebPlaces
    /\ debTasks \in 0..MaxDebTasks
    /\ debFailures \in 0..MaxDebFailures

LEMMA ChangesAreLines ==
  ASSUME NEW place \in DebPlaces, NEW a \in DebArtifacts,
         NEW v \in DebVersions, NEW x \in DebArchitectures
  PROVE  ChangesFile(place, a, x, v) \subseteq Lines
  BY NativeNames DEF ChangesFile, Line, Lines

LEMMA NextPlacesShape ==
  ASSUME PublicationShape, PromiseShape, PlacesShape, [DebNext]_debVars
  PROVE  PlacesShape'
  <1>1. CASE UNCHANGED debVars
    BY <1>1 DEF PlacesShape, debVars, debStoreVars, debHistVars
  <1>2. ASSUME NEW a, NEW place, NEW archs, NEW v, DebStart(a, place, archs, v)
        PROVE  PlacesShape'
    <2>1. passed' \in BOOLEAN
      BY <1>2 DEF DebStart
    <2>2. debTasks' \in 0..MaxDebTasks
      BY <1>2, DebBoundsAssumption DEF DebStart, PlacesShape
    <2>3. QED
      BY <1>2, <2>1, <2>2
      DEF DebStart, PlacesShape, debStoreVars, debHistVars
  <1>3. ASSUME OpenConf PROVE PlacesShape'
    BY <1>3 DEF OpenConf, PlacesShape, debHistVars
  <1>4. ASSUME WriteConf PROVE PlacesShape'
    <2>1. publication # NoPublication
      BY <1>4 DEF WriteConf, PublicationShape
    <2>2. /\ publication.place[1] \in Distributions
          /\ publication.place[2] \in Derivatives
          /\ publication.archs \subseteq DebArchitectures
      BY <2>1, PublicationTypes, DebPlacesAssumption
    <2>3. Components \subseteq Derivatives
      BY DebPlacesAssumption DEF Components, PlacesShape, Lines
    <2>4. QED
      BY <1>4, <2>2, <2>3
      DEF WriteConf, PlacesShape, ConfDists, ConfComps, debHistVars
  <1>5. ASSUME NEW x \in toInclude, Include(x) PROVE PlacesShape'
    <2>1. publication # NoPublication
      BY <1>5 DEF Include, PublicationShape
    <2>2. IncludedLines(x) \subseteq Lines
      BY <2>1, PublicationTypes, ChangesAreLines DEF IncludedLines, PlacesShape
    <2>3. lines' \subseteq Lines /\ passed' \in BOOLEAN
      BY <1>5, <2>2 DEF Include, PlacesShape
    <2>4. toInclude' \subseteq DebArchitectures
      BY <1>5 DEF Include, PlacesShape
    <2>5. QED
      BY <1>5, <2>3, <2>4 DEF Include, PlacesShape, debHistVars
  <1>6. ASSUME ExportDist PROVE PlacesShape'
    <2>1. publication # NoPublication
      BY <1>6 DEF ExportDist, PublicationShape
    <2>2. publication.place[1] \in Distributions
      BY <2>1, PublicationTypes, DebPlacesAssumption
    <2>3. QED
      BY <1>6, <2>2 DEF ExportDist, PlacesShape, debHistVars
  <1>7. ASSUME DebPublished PROVE PlacesShape'
    <2>1. publication # NoPublication
      BY <1>7 DEF DebPublished, PublicationShape
    <2>2. PackagesOf(publication) \subseteq Lines
      BY <2>1, PublicationTypes, ChangesAreLines DEF PackagesOf
    <2>3. \A a \in DebArtifacts : promised'[a] \subseteq Lines
      BY <1>7, <2>2 DEF DebPublished, PlacesShape, PromiseShape
    <2>4. doubtful' \subseteq DebArtifacts \X DebPlaces
      BY <1>7, <2>1, PublicationTypes DEF DebPublished, PlacesShape
    <2>5. QED
      BY <1>7, <2>3, <2>4 DEF DebPublished, PlacesShape, debStoreVars
  <1>8. ASSUME DebInterrupt PROVE PlacesShape'
    <2>1. doubtful' \subseteq DebArtifacts \X DebPlaces
      BY <1>8, PublicationTypes DEF DebInterrupt, PlacesShape
    <2>2. QED
      BY <1>8, <2>1, DebBoundsAssumption
      DEF DebInterrupt, PlacesShape, debStoreVars
  <1>9. ASSUME NEW a \in DebArtifacts, NEW place, NEW arch,
               DebDelete(place, a, arch)
        PROVE  PlacesShape'
    <2>1. \A b \in DebArtifacts : promised'[b] \subseteq Lines
      BY <1>9 DEF DebDelete, PlacesShape, PromiseShape
    <2>2. QED
      BY <1>9, <2>1, DebBoundsAssumption DEF DebDelete, PlacesShape
  <1>10. QED
    BY <1>1, <1>2, <1>3, <1>4, <1>5, <1>6, <1>7, <1>8, <1>9 DEF DebNext

(***************************************************************************)
(* The registry keeps its types: all it lists, names in the configuration  *)
(* and promises is of the distributions and derivatives of the pipelines   *)
(* (deb.py:110-167).                                                       *)
(***************************************************************************)
THEOREM DebKeepsTypes == DebSpec => []DebTypeOK
  <1>1. DebInit => PlacesShape
    <2>1. DebInit => passed \in BOOLEAN
      BY DEF DebInit
    <2>2. DebInit => debTasks \in 0..MaxDebTasks
                     /\ debFailures \in 0..MaxDebFailures
      BY DebBoundsAssumption DEF DebInit
    <2>3. DebInit => \A a \in DebArtifacts : promised[a] \subseteq Lines
      BY DEF DebInit
    <2>4. QED
      BY <2>1, <2>2, <2>3 DEF DebInit, PlacesShape
  <1>2. DebIInv => PublicationShape /\ PromiseShape
    BY DEF DebIInv
  <1>3. DebIInv /\ PlacesShape => DebTypeOK
    BY DEF DebIInv, PublicationShape, PlacesShape, DebTypeOK
  <1>4. QED
    BY <1>1, <1>2, <1>3, NextPlacesShape, DebSpecIInv, PTL DEF DebSpec
=============================================================================
