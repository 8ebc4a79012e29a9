------------------------------- MODULE Images -------------------------------
(***************************************************************************)
(* Container images and build environments of the instances: classes       *)
(* Image, BuildEnv and ImagesManager (src/fatbuildr/images.py), the tasks  *)
(* of src/fatbuildr/tasks/images.py and ContainerRunner (containers.py).   *)
(*                                                                         *)
(* Each instance has a worker that runs its tasks one after the other, and *)
(* the workers run in parallel.  Images and environments belong to one     *)
(* instance; the skeleton archive, which gives an image the system user of *)
(* the daemon, is one file for all instances and formats.                  *)
(*                                                                         *)
(* The commands mkosi, systemd-nspawn and those they run are external:     *)
(* they succeed or fail.  Command lines, mirrors, components and modules   *)
(* are left out, for no property is about them.                            *)
(***************************************************************************)
EXTENDS Integers, FiniteSets

CONSTANTS Instances,    \* instances of the daemon
          ImageFormats, \* formats with an image definition
          Environs,     \* environments of the pipelines, with architectures
          MaxImages,    \* bound on the creations of images
          MaxStops      \* bound on the kills of the daemon

ASSUME ImageFormatsAssumption ==
    ImageFormats # {} /\ ImageFormats \subseteq {"rpm", "deb", "osi"}
ASSUME ImageBoundsAssumption == {MaxImages, MaxStops} \subseteq Nat

VARIABLES
    made,         \* per instance and format, what the image was made with
    environments, \* those whose path exists in the image
    skeleton,     \* the file skeleton.tar
    doing,        \* per instance, where its worker is
    wanted,       \* the format of the image it creates
    taken,        \* the skeleton mkosi has unpacked
    outcome,      \* how its last task ended
    met,          \* history: another creation ran at the same time
    imageCount,   \* history: number of creations of images
    stops         \* history: number of kills

imageVars == <<made, environments, skeleton, doing, wanted, taken, outcome,
               met, imageCount, stops>>

\* img_create_use_sysusersd: what the skeleton has for a format.
UsersOf(f) == IF f = "deb" THEN "sysusers.d" ELSE "passwd"

UserFiles == {"sysusers.d", "passwd"}
NoImage == [users |-> "none", whole |-> FALSE]
SkeletonUsers == {NoImage} \cup [users : UserFiles, whole : BOOLEAN]

\* writer: the worker whose open file this is; a file that was removed is
\* written to all the same, with no effect on the one that has its name now.
NoSkeleton == [users |-> "none", whole |-> FALSE, writer |-> {}]
Skeletons ==
    {NoSkeleton} \cup [users : UserFiles, whole : BOOLEAN,
                       writer : SUBSET Instances]

ImagesTypeOK ==
    /\ made \in [Instances -> [ImageFormats -> SkeletonUsers]]
    /\ environments \in [Instances -> [ImageFormats -> SUBSET Environs]]
    /\ skeleton \in Skeletons
    /\ doing \in [Instances -> {"idle", "look", "unlink", "open", "write",
                              "mkosi", "making", "dead"}]
    /\ wanted \in [Instances -> ImageFormats]
    /\ taken \in [Instances -> SkeletonUsers]
    /\ outcome \in [Instances -> {"none", "success", "failed", "escapes"}]
    /\ met \in [Instances -> BOOLEAN]
    /\ imageCount \in 0..MaxImages
    /\ stops \in 0..MaxStops

ImagesInit ==
    /\ made = [i \in Instances |-> [f \in ImageFormats |-> NoImage]]
    /\ environments = [i \in Instances |-> [f \in ImageFormats |-> {}]]
    /\ skeleton = NoSkeleton
    /\ doing = [i \in Instances |-> "idle"]
    /\ wanted = [i \in Instances |-> CHOOSE f \in ImageFormats : TRUE]
    /\ taken = [i \in Instances |-> NoImage]
    /\ outcome = [i \in Instances |-> "none"]
    /\ met = [i \in Instances |-> FALSE]
    /\ imageCount = 0
    /\ stops = 0

ImageExists(i, f) == made[i][f] # NoImage

IsCreating(i) == doing[i] \notin {"idle", "dead"}

\* RuntimeError makes the task "failed"; what else a task raises "escapes" from
\* the run method of the tasks manager and ends the worker.
TaskEnds(i, how) ==
    /\ doing' = [doing EXCEPT ![i] = IF how = "escapes" THEN "dead" ELSE "idle"]
    /\ outcome' = [outcome EXCEPT ![i] = how]
    /\ taken' = [taken EXCEPT ![i] = NoImage]

-----------------------------------------------------------------------------
(* Image.create.                                                           *)

\* The directory of the instance is made, unless it exists.  What is made is
\* the directory of its name where the image goes in that of its identifier:
\* mkosi may fail, as it may for any other reason.
CreateImage(i, f, force) ==
    /\ doing[i] = "idle"
    /\ imageCount < MaxImages
    /\ imageCount' = imageCount + 1
    /\ wanted' = [wanted EXCEPT ![i] = f]
    /\ IF ImageExists(i, f) /\ ~force
       THEN /\ TaskEnds(i, "failed")
            /\ UNCHANGED met
       ELSE /\ doing' = [doing EXCEPT ![i] = "look"]
            /\ outcome' = [outcome EXCEPT ![i] = "none"]
            /\ met' = [j \in Instances |->
                  IF j = i THEN \E k \in Instances : IsCreating(k)
                  ELSE met[j] \/ IsCreating(j)]
            /\ UNCHANGED taken
    /\ UNCHANGED <<made, environments, skeleton, stops>>

\* Mutant: a skeleton that exists is not removed.
LookSkeleton_Opens(i) ==
    /\ doing[i] = "look"
    /\ doing' = [doing EXCEPT ![i] = "open"]
    /\ UNCHANGED <<made, environments, skeleton, wanted, taken, outcome, met,
                   imageCount, stops>>

LookSkeleton(i) ==
    /\ doing[i] = "look"
    /\ doing' = [doing EXCEPT ![i] =
          IF skeleton # NoSkeleton THEN "unlink" ELSE "open"]
    /\ UNCHANGED <<made, environments, skeleton, wanted, taken, outcome, met,
                   imageCount, stops>>

\* FileNotFoundError when another worker was faster.
UnlinkSkeleton(i) ==
    /\ doing[i] = "unlink"
    /\ skeleton' = NoSkeleton
    /\ IF skeleton = NoSkeleton
       THEN TaskEnds(i, "escapes")
       ELSE /\ doing' = [doing EXCEPT ![i] = "open"]
            /\ UNCHANGED <<outcome, taken>>
    /\ UNCHANGED <<made, environments, wanted, met, imageCount, stops>>

\* Mode 'x': FileExistsError when another worker was faster.
OpenSkeleton(i) ==
    /\ doing[i] = "open"
    /\ IF skeleton # NoSkeleton
       THEN /\ TaskEnds(i, "escapes")
            /\ UNCHANGED skeleton
       ELSE /\ skeleton' = [users |-> UsersOf(wanted[i]),
                            whole |-> FALSE, writer |-> {i}]
            /\ doing' = [doing EXCEPT ![i] = "write"]
            /\ UNCHANGED <<outcome, taken>>
    /\ UNCHANGED <<made, environments, wanted, met, imageCount, stops>>

WriteSkeleton(i) ==
    /\ doing[i] = "write"
    /\ skeleton' = IF skeleton.writer = {i}
                   THEN [skeleton EXCEPT !.whole = TRUE, !.writer = {}]
                   ELSE skeleton
    /\ doing' = [doing EXCEPT ![i] = "mkosi"]
    /\ UNCHANGED <<made, environments, wanted, taken, outcome, met, imageCount,
                   stops>>

\* With --force the former image is removed, with its environments; then the
\* skeleton is unpacked.
MkosiStarts(i) ==
    /\ doing[i] = "mkosi"
    /\ skeleton # NoSkeleton
    /\ made' = [made EXCEPT ![i][wanted[i]] = NoImage]
    /\ environments' = [environments EXCEPT ![i][wanted[i]] = {}]
    /\ taken' = [taken EXCEPT ![i] =
          [users |-> skeleton.users, whole |-> skeleton.whole]]
    /\ doing' = [doing EXCEPT ![i] = "making"]
    /\ UNCHANGED <<skeleton, wanted, outcome, met, imageCount, stops>>

MkosiEnds(i) ==
    /\ doing[i] = "making"
    /\ made' = [made EXCEPT ![i][wanted[i]] = taken[i]]
    /\ TaskEnds(i, "success")
    /\ UNCHANGED <<environments, skeleton, wanted, met, imageCount, stops>>

MkosiFails(i) ==
    /\ doing[i] \in {"mkosi", "making"}
    /\ TaskEnds(i, "failed")
    /\ UNCHANGED <<made, environments, skeleton, wanted, met, imageCount,
                   stops>>

-----------------------------------------------------------------------------
(* The other tasks: commands in a container of the image, which fail when  *)
(* there is no image.                                                      *)

RunInContainer(i, f, how) ==
    /\ doing[i] = "idle"
    /\ ~ImageExists(i, f) => how = "failed"
    /\ TaskEnds(i, how)

\* update, shell and execute of the image.
UseImage(i, f, how) ==
    /\ RunInContainer(i, f, how)
    /\ UNCHANGED <<made, environments, skeleton, wanted, met, imageCount,
                   stops>>

\* init_cmds: none for OSI, one for Deb, two for RPM of which the second one
\* makes the path.  That path may be there when the command has failed, and is
\* all that exists looks at.
CreateEnvironment(i, f, e, how) ==
    /\ RunInContainer(i, f, how)
    /\ f = "osi" => how = "failed"
    /\ \/ /\ how = "failed"
          /\ UNCHANGED environments
       \/ /\ ImageExists(i, f)
          /\ f # "osi"
          /\ environments' = [environments EXCEPT ![i][f] = @ \cup {e}]
    /\ UNCHANGED <<made, skeleton, wanted, met, imageCount, stops>>

\* update, shell and execute of the environment.
UseEnvironment(i, f, e, how) ==
    /\ RunInContainer(i, f, how)
    /\ e \notin environments[i][f] => how = "failed"
    /\ UNCHANGED <<made, environments, skeleton, wanted, met, imageCount,
                   stops>>

-----------------------------------------------------------------------------
\* The daemon is killed and started again.
DaemonStops ==
    /\ stops < MaxStops
    /\ stops' = stops + 1
    /\ doing' = [i \in Instances |-> "idle"]
    /\ taken' = [i \in Instances |-> NoImage]
    /\ skeleton' = [skeleton EXCEPT !.writer = {}]
    /\ UNCHANGED <<made, environments, wanted, outcome, met, imageCount>>

ImagesNext ==
    \/ \E i \in Instances :
          \/ \E f \in ImageFormats, force \in BOOLEAN : CreateImage(i, f, force)
          \/ LookSkeleton(i) \/ UnlinkSkeleton(i) \/ OpenSkeleton(i)
          \/ WriteSkeleton(i)
          \/ MkosiStarts(i) \/ MkosiEnds(i) \/ MkosiFails(i)
          \/ \E f \in ImageFormats, how \in {"success", "failed"} :
                \/ UseImage(i, f, how)
                \/ \E e \in Environs :
                      \/ CreateEnvironment(i, f, e, how)
                      \/ UseEnvironment(i, f, e, how)
    \/ DaemonStops

ImagesSpec == ImagesInit /\ [][ImagesNext]_imageVars

-----------------------------------------------------------------------------
(* Properties.                                                             *)

(***************************************************************************)
(* Whatever other formats were created before and whatever a kill has left *)
(* of the skeleton, a creation that no other one met gives its image the   *)
(* user of the daemon, whole and in the way of its format, and never ends  *)
(* its worker (images.py:83-126).                                          *)
(***************************************************************************)
CreationAloneIsSound ==
    \A i \in Instances : ~met[i] =>
        /\ doing[i] = "making" =>
              taken[i] = [users |-> UsersOf(wanted[i]), whole |-> TRUE]
        /\ doing[i] # "dead"

(***************************************************************************)
(* "Each instance has its own set of container images, build environments, *)
(* keyring and registries. They are fully independant"                     *)
(* (architecture.adoc:62-63): what another instance does never ends the    *)
(* worker of an instance.                                                  *)
(***************************************************************************)
InstancesAreIndependent == \A i \in Instances : doing[i] # "dead"
=============================================================================
