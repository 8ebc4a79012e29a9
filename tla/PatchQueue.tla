----------------------------- MODULE PatchQueue -----------------------------
(***************************************************************************)
(* The patch queue of an artifact: the command "patches" of the client,    *)
(* classes PatchQueue (src/fatbuildr/patches.py), GitRepository,           *)
(* PatchesDir, PatchesSubdir and PatchFile (src/fatbuildr/git.py).         *)
(*                                                                         *)
(* The patches of the artifact, generic ones and those of the version, are *)
(* imported as commits in a temporary repository of the upstream sources,  *)
(* the user works on the commits in a shell, and the commits are exported  *)
(* as patches in place of the former ones.  The client may be stopped at   *)
(* any point.                                                              *)
(*                                                                         *)
(* A patch changes one file from one content to another.  Titles, authors  *)
(* and fields other than Generic are copied and left out, and commits are  *)
(* added or removed at the end of the history.                             *)
(***************************************************************************)
EXTENDS Integers, Sequences, FiniteSets, SequencesExt

CONSTANTS SourceFiles,    \* files of the source tree
          FileContents,   \* what they may contain
          TreeOf,         \* per upstream version, its source tree
          MaxCommits,     \* bound on the commits to which the user adds one
          MaxRuns,        \* bound on the runs of the command
          NoChange        \* a commit without difference

PatchVersions == DOMAIN TreeOf
Subdirs == {"generic"} \cup PatchVersions
Changes == [file : SourceFiles, from : FileContents, to : FileContents]

ASSUME TreeOfAssumption ==
    /\ TreeOf \in [PatchVersions -> [SourceFiles -> FileContents]]
    /\ "generic" \notin PatchVersions
ASSUME PatchBoundsAssumption == {MaxCommits, MaxRuns} \subseteq Nat
ASSUME NoChangeAssumption == NoChange \notin Changes

VARIABLES
    folder,   \* per subdirectory, the patch files: number and change
    worked,   \* upstream version of the run
    tree,     \* the files of the repository
    commits,  \* its history, without the initial commit
    stage,    \* where the run is
    toImport, \* patches still to be imported
    counter,  \* index_generic and index_version
    exported, \* number of commits the second walk has still to visit
    before,   \* history: the directories when the run began
    touched,  \* history: the user has made or dropped a commit
    runs      \* history: number of runs

queueVars == <<folder, worked, tree, commits, stage, toImport, counter,
               exported, before, touched, runs>>

PatchEntries == [index : Nat \ {0}, change : Changes]

\* What is imported: a change, and whether it comes from the generic directory.
Patches == [generic : BOOLEAN, change : Changes]

Commits == [change : Changes \cup {NoChange}, generic : BOOLEAN,
            body : BOOLEAN]

QueueTypeOK ==
    /\ \A d \in Subdirs : folder[d] \subseteq PatchEntries
    /\ worked \in PatchVersions
    /\ tree \in [SourceFiles -> FileContents]
    /\ Range(commits) \subseteq Commits
    /\ stage \in {"over", "stopped", "import", "shell", "clean generic",
                  "clean version", "count", "export"}
    /\ Range(toImport) \subseteq Patches
    /\ counter \in [{"generic", "version"} -> Nat]
    /\ exported \in 0..Len(commits)
    /\ touched \in BOOLEAN
    /\ runs \in 0..MaxRuns

PatchQueueInit ==
    /\ folder = [d \in Subdirs |-> {}]
    /\ worked \in PatchVersions
    /\ tree = TreeOf[worked]
    /\ commits = <<>>
    /\ stage = "over"
    /\ toImport = <<>>
    /\ counter = [k \in {"generic", "version"} |-> 0]
    /\ exported = 0
    /\ before = folder
    /\ touched = FALSE
    /\ runs = 0

-----------------------------------------------------------------------------
(* The end of a run that fails: nobody looks at its repository any more.   *)

Stops ==
    /\ stage' = "stopped"
    /\ tree' = TreeOf[worked]
    /\ commits' = <<>>
    /\ toImport' = <<>>
    /\ counter' = [k \in {"generic", "version"} |-> 0]
    /\ exported' = 0

-----------------------------------------------------------------------------
(* Import.                                                                 *)

\* The patches of a subdirectory, sorted by name, which begins with the number
\* in four digits: by number, as long as there are fewer than 10000 of them.
Sorted(entries) ==
    CHOOSE s \in SetToSeqs(entries) :
        \A i, j \in 1..Len(s) : i < j => s[i].index < s[j].index

InSubdir(d) ==
    LET s == Sorted(folder[d])
    IN  [i \in DOMAIN s |-> [generic |-> d = "generic", change |-> s[i].change]]

\* Mutant: the patches of the version come first.
Queued_VersionFirst(v) == InSubdir(v) \o InSubdir("generic")

Queued(v) == InSubdir("generic") \o InSubdir(v)

\* Archives are extracted, which makes the initial commit.
PatchesRun(v) ==
    /\ stage \in {"over", "stopped"}
    /\ runs < MaxRuns
    /\ runs' = runs + 1
    /\ worked' = v
    /\ tree' = TreeOf[v]
    /\ commits' = <<>>
    /\ toImport' = Queued(v)
    /\ before' = folder
    /\ touched' = FALSE
    /\ stage' = "import"
    /\ counter' = [k \in {"generic", "version"} |-> 0]
    /\ exported' = 0
    /\ UNCHANGED folder

Applies(change, t) == t[change.file] = change.from

ImportedGeneric(patch) == patch.generic

\* A patch that does not apply makes a commit without difference.
ImportPatch ==
    /\ stage = "import"
    /\ toImport # <<>>
    /\ LET patch == Head(toImport)
           change == patch.change
           fits == Applies(change, tree)
       IN  /\ tree' = IF fits THEN [tree EXCEPT ![change.file] = change.to]
                      ELSE tree
           /\ commits' = Append(commits,
                 [change |-> IF fits THEN change ELSE NoChange,
                  generic |-> ImportedGeneric(patch), body |-> TRUE])
    /\ toImport' = Tail(toImport)
    /\ UNCHANGED <<folder, worked, stage, counter, exported, before, touched,
                   runs>>

LaunchSubshell ==
    /\ stage = "import"
    /\ toImport = <<>>
    /\ stage' = "shell"
    /\ UNCHANGED <<folder, worked, tree, commits, toImport, counter, exported,
                   before, touched, runs>>

-----------------------------------------------------------------------------
(* The user in the shell.                                                  *)

\* body: the message has more than its first line.
UserCommits(file, content, generic, body) ==
    /\ stage = "shell"
    /\ Len(commits) < MaxCommits
    /\ tree[file] # content
    /\ commits' = Append(commits,
          [change |-> [file |-> file, from |-> tree[file], to |-> content],
           generic |-> generic, body |-> body])
    /\ tree' = [tree EXCEPT ![file] = content]
    /\ touched' = TRUE
    /\ UNCHANGED <<folder, worked, stage, toImport, counter, exported, before,
                   runs>>

UserDrops ==
    /\ stage = "shell"
    /\ commits # <<>>
    /\ LET change == Last(commits).change
       IN  tree' = IF change = NoChange THEN tree
                   ELSE [tree EXCEPT ![change.file] = change.from]
    /\ commits' = Front(commits)
    /\ touched' = TRUE
    /\ UNCHANGED <<folder, worked, stage, toImport, counter, exported, before,
                   runs>>

UserLeaves ==
    /\ stage = "shell"
    /\ stage' = "clean generic"
    /\ UNCHANGED <<folder, worked, tree, commits, toImport, counter, exported,
                   before, touched, runs>>

-----------------------------------------------------------------------------
(* export_queue.                                                           *)

CleanGeneric ==
    /\ stage = "clean generic"
    /\ folder' = [folder EXCEPT !["generic"] = {}]
    /\ stage' = "clean version"
    /\ UNCHANGED <<worked, tree, commits, toImport, counter, exported, before,
                   touched, runs>>

CleanVersion ==
    /\ stage = "clean version"
    /\ folder' = [folder EXCEPT ![worked] = {}]
    /\ stage' = "count"
    /\ UNCHANGED <<worked, tree, commits, toImport, counter, exported, before,
                   touched, runs>>

Positions(generic) == {i \in DOMAIN commits : commits[i].generic = generic}

\* The first walk reads the message of every commit: IndexError for one that
\* has a first line only, which ends the client.
CountCommits ==
    /\ stage = "count"
    /\ IF \A i \in DOMAIN commits : commits[i].body
       THEN /\ counter' = [k \in {"generic", "version"} |->
                             Cardinality(Positions(k = "generic"))]
            /\ exported' = Len(commits)
            /\ stage' = "export"
            /\ UNCHANGED <<tree, commits, toImport>>
       ELSE Stops
    /\ UNCHANGED <<folder, worked, before, touched, runs>>

\* Mutant: the numbers go up while the walk goes back in time.
NumberOf_Up(commit) ==
    IF commit.generic THEN Cardinality(Positions(TRUE)) + 1 - counter["generic"]
    ELSE Cardinality(Positions(FALSE)) + 1 - counter["version"]

NumberOf(commit) ==
    IF commit.generic THEN counter["generic"] ELSE counter["version"]

\* From the last commit to the first.  Those without difference are skipped,
\* and their number is.
ExportCommit ==
    /\ stage = "export"
    /\ exported > 0
    /\ LET commit == commits[exported]
           d == IF commit.generic THEN "generic" ELSE worked
           kind == IF commit.generic THEN "generic" ELSE "version"
       IN  /\ folder' = IF commit.change = NoChange THEN folder
                        ELSE [folder EXCEPT ![d] = @ \cup
                                {[index |-> NumberOf(commit),
                                  change |-> commit.change]}]
           /\ counter' = [counter EXCEPT ![kind] = @ - 1]
    /\ exported' = exported - 1
    /\ UNCHANGED <<worked, tree, commits, stage, toImport, before, touched,
                   runs>>

\* The temporary directory is removed.
PatchesEnd ==
    /\ stage = "export"
    /\ exported = 0
    /\ stage' = "over"
    /\ UNCHANGED <<folder, worked, tree, commits, toImport, counter, exported,
                   before, touched, runs>>

\* The user, a signal or an error ends the client.
ClientStops ==
    /\ stage \notin {"over", "stopped"}
    /\ Stops
    /\ UNCHANGED <<folder, worked, before, touched, runs>>

PatchQueueNext ==
    \/ \E v \in PatchVersions : PatchesRun(v)
    \/ ImportPatch \/ LaunchSubshell
    \/ \E file \in SourceFiles, content \in FileContents, generic \in BOOLEAN,
          body \in BOOLEAN : UserCommits(file, content, generic, body)
    \/ UserDrops \/ UserLeaves
    \/ CleanGeneric \/ CleanVersion \/ CountCommits \/ ExportCommit
    \/ PatchesEnd
    \/ ClientStops

PatchQueueSpec == PatchQueueInit /\ [][PatchQueueNext]_queueVars

-----------------------------------------------------------------------------
(* Properties.                                                             *)

ChangesIn(d) ==
    LET s == Sorted(folder[d]) IN [i \in DOMAIN s |-> s[i].change]

\* Numbers from the least to the greatest.
Ascending(S) ==
    CHOOSE s \in SetToSeqs(S) : \A i, j \in 1..Len(s) : i < j => s[i] < s[j]

ChangesOf(generic) ==
    LET s == Ascending({i \in Positions(generic) :
                           commits[i].change # NoChange})
    IN  [k \in DOMAIN s |-> commits[s[k]].change]

(***************************************************************************)
(* After a run the directories have the commits, generic and other ones    *)
(* apart, in the order of the history, and nothing of what was there       *)
(* before; patches of other versions are as they were (git.py:351-421).    *)
(***************************************************************************)
ExportIsFaithful ==
    /\ stage = "over" /\ runs > 0 =>
          /\ ChangesIn("generic") = ChangesOf(TRUE)
          /\ ChangesIn(worked) = ChangesOf(FALSE)
    /\ \A v \in PatchVersions \ {worked} : folder[v] = before[v]

ChangesBefore(d) ==
    LET s == Sorted(before[d]) IN [i \in DOMAIN s |-> s[i].change]

(***************************************************************************)
(* A run whose user does nothing keeps the patches, each in its directory  *)
(* and in its place, as long as all of them apply; and until the export    *)
(* begins, which is the point of no return of a run that is stopped, no    *)
(* run has changed any (git.py:284-349, 351-359).                          *)
(***************************************************************************)
IdleRunKeepsPatches ==
    /\ stage = "over" /\ runs > 0 /\ ~touched
       /\ (\A i \in DOMAIN commits : commits[i].change # NoChange) =>
          \A d \in Subdirs : ChangesIn(d) = ChangesBefore(d)
    /\ stage \in {"import", "shell"} => folder = before

\* A run neither loses patches nor makes any up.
RunsKeepPatches == ExportIsFaithful /\ IdleRunKeepsPatches

\* No generic commit follows one of the version that changes the same file.
GenericFirst ==
    \A i, j \in DOMAIN commits :
        i < j /\ ~commits[i].generic /\ commits[j].generic
        /\ commits[i].change # NoChange /\ commits[j].change # NoChange =>
            commits[i].change.file # commits[j].change.file

\* The tree after the changes of a sequence, those that do not apply left out.
Patched(changes, start) ==
    FoldLeft(LAMBDA t, change :
                IF Applies(change, t)
                THEN [t EXCEPT ![change.file] = change.to] ELSE t,
             start, changes)

(***************************************************************************)
(* What was exported is what the user has seen: applied again, as the next *)
(* run and the builds do, generic patches first, the patches give the tree *)
(* the shell was left with.  It takes that no generic commit depends on    *)
(* one of the version: nothing in the code prevents it, and the generic    *)
(* patch is then dropped with no error (git.py:303-349, 380-421).          *)
(***************************************************************************)
ReimportGivesTree ==
    stage = "over" /\ runs > 0 /\ GenericFirst =>
        LET queued == Queued(worked)
        IN  Patched([i \in DOMAIN queued |-> queued[i].change],
                    TreeOf[worked]) = tree
=============================================================================
