# Fatbuildr, modelled and proved in TLA+

Fatbuildr builds packages (deb, rpm, osi images) from artifact definitions,
signs them and publishes them in registries. A daemon, `fatbuildrd`, does the
work; clients (`fatbuildrctl`, the web application `fatbuildrweb`) ask for it by
D-Bus or HTTP and follow the tasks on a console socket. This directory holds
specifications of the daemon and of what its tasks do, translated from the Python
code under `src/fatbuildr`, the TLC configurations that check them on small
instances, and machine-checked proofs of what matters most. Paths below are
relative to `src/fatbuildr` unless they start with `src/`.

1. [The system](#1-the-system): its parts, their state, how they interact
2. [The modules](#2-the-modules): what models what
3. [The runs](#3-the-runs): questions, bounds, fairness
4. [What the code does not keep](#4-what-the-code-does-not-keep)
5. [The proofs](#5-the-proofs)
6. [What is not modelled](#6-what-is-not-modelled)
7. [Plan](#7-plan)

## 1. The system

### Threads of the daemon

`cli/fatbuildrd.py` starts, in one process, a worker thread for each instance
(instances are independent sets of artifacts, registries and keyrings), one
D-Bus server thread for all of them, and a timer thread. The main thread joins
them. A running task adds a fourth kind of thread, which dispatches its output.

```
 clients --D-Bus--> server thread --put--> queue --get--> worker thread --run--> task
    |                 |    ^                                  |                    |
    |               reset  | list                          (un)register         pipes
    |                 v    |                                  v                    v
    |               timer thread (idle stop, watchdog)     ServerTimer       dispatch thread
    +--console socket-----------------------------------------------------------> journal
```

What they share is the hard part: the queue (a deque and a semaphore, each with
its own lock), the attribute `running`, the file `tasks.queue`, the workspace
directories, the timer, the keyring in memory. Most of it is read in one thread
and written in another without a lock that covers both. What a task does is
sequential, but fails, or is killed with the daemon, between any two of its
steps, and the next task finds what it left. The tests of the repository cover
git and templates only.

### Inventory

| Part | Source | State | Operations | What makes it correct |
|---|---|---|---|---|
| Queue | `tasks/manager.py` 28-85 | deque, semaphore value, `_state_lock` | put, get, release, interrupt_get, dump, empty | first in first out, the semaphore counts the deque, no lost wakeup, no pop of an empty deque |
| Tasks manager | `tasks/manager.py` 88-246 | `running`, `tasks.queue`, workspaces | submit, pick, run, fullqueue, save, restore, clear, hooks | each task run at most once and in order, its result archived, nothing pending forgotten, restart cleans what the crash left |
| History | `history.py`, `tasks/history.py` | the workspaces with `task.yml` | dump, save_task, purge with four policies | a scan or a purge spares unfinished tasks; the policy removes what it promises and no more |
| Client lookup | `protocols/dbus/client.py` 286-304 | none | get, watch | a submitted task is found wherever it is |
| Daemon life | `cli/fatbuildrd.py`, `timer.py`, `services.py` | registered workers, timer, watchdog | worker loop, timer loop, idle stop, restart | no stop under a running task; an idle daemon stops; a dead worker is noticed |
| D-Bus server | `protocols/dbus/server.py` | connection, loop | requests, Polkit authorization, stop | each request that may lead to work keeps the daemon alive |
| Task I/O | `tasks/__init__.py` 41-240 | pipes, journal, connections, stop flag | dispatch, broadcast, replay, stop | each client sees the journal; the journal has the output; the task ends |
| Console clients | `console/client.py`, `console/__init__.py` | mode of the terminal, signal pipe | receive, resize, leave | the terminal is restored however the client leaves; what it shows is the output |
| Interactive server | `console/server.py` 50-174 | epoll, pty | tty_runcmd | the terminal of the command follows the size of the user's; all output is read |
| Build | `builds/__init__.py`, `cache.py`, `artifact.py` | cache, build place, patches | prepare (archives, checksums, links patch, prescript patch), run | an archive is built only if it has the right checksums; all patches are in the series, once and in order |
| Build formats | `builds/formats/*.py` | build environment of the prescript | source package, binary packages, signature, prescript in a snapshot | packages are signed; a prescript starts in a clean environment |
| Registries | `registry/` | packages and metadata per distribution | publish, delete, list, version of a build | packages, metadata, checksums and signatures agree; a rebuild has a new version |
| Images, environments | `images.py`, `tasks/images.py`, `containers.py` | image and environment directories, the skeleton archive | create, update, shell | no half-made image is used; instances do not disturb each other |
| Keyring | `keyring.py`, `tasks/keyring.py` | GPG home, passphrase, keys in memory | create, renew, export, load agent | a key usable or absent |
| Patch queue | `git.py`, `patches.py` | patches of the artifact, temporary git repository | import, shell, export | no patch is lost or made up; what was exported gives the same tree again |
| Tokens, HTTP policy | `tokens.py`, `protocols/http/server/` | token files, policy | generate, decode, authorize | an action is allowed as the policy says |
| Pipelines | `instances.py` 38-176 | definitions | derivatives, formats | resolution of derivatives ends and is unique |
| The rest | `cli/`, `conf.py`, `templates.py`, `log/`, `protocols/exports.py` | none shared | parsing, formatting, conversions | |

### Where it is hard

The list with a line for each is under "hazards" in `PROJECT.json`. In short:

- *Two locks and a deque.* put appends without a lock and then releases the
  semaphore; get returns with `_state_lock` held; an acquire that had to wait
  returns False even when a release woke it up.
- *Two instants.* fullqueue reads the queue and then `running`; the timer reads
  its workers and then the time; a client asks for queue, running and history in
  three requests; a purge removes on the word of an older fullqueue; save tests a
  file and then unlinks it; creations of two instances test, remove and open the
  same skeleton.
- *Partial failure.* Only one class of exceptions is caught in the worker loop,
  another in run: each of the others skips the close of the I/O, the archive and
  the reset of `running`, or ends the thread. A build, a publication, a creation
  of an image or of a key leaves what it did until it failed.
- *Restart.* `tasks.queue` is rewritten by put and run only, so that after a crash
  it names tasks that are already done, and never the one that was running. The
  download that was cut is in the cache, the patched environment is there.
- *Stale and cached.* The list of patches is computed at its first use; an archive
  that is in the cache is not downloaded again; the version of a build is that of
  the packages published now; the dates of a key are those of the last load.
- *Ends that race.* The idle stop against a new request, the stop flag against
  output that is still in a pipe, the client that leaves against a broadcast, the
  hang up of a terminal against its last output, the record of the end of a task
  against the message that restores the terminal.

## 2. The modules

| Module | Models | State | Actions |
|---|---|---|---|
| `QueueManager` | `InterruptableSemaphore`, `QueueManager` | deque, semaphore, lock, where the server and worker threads are in put and get | one for each piece of code between two points where another thread can run: `PutAppend`, `PutRelease`, `AcquireTake`, `AcquireWait`, `AcquireTimeout`, `GetNothing`, `GetLock`, `GetPop`, `Release`, `InterruptGet`, and the condition `Dump` |
| `TasksManager` | `ServerTasksManager`, the life of a task, directory scans of `HistoryManager`, restart | the queue's, program counters of both threads, `running`, `tasks.queue` with the open handles, workspaces, results of scans | submit, pick, prerun, `RunEnds`, postrun, terminate, reset, the four steps of save, the scan, the purge, clear, crash, boot |
| `TaskLedger` | what a tasks manager promises | known, pending, active, archive | `Submit`, `Take`, `Archive`, `GiveUp`, `Purge`, `Stop`, `Clear` |
| `TasksManagerRefinement` | the mapping from `TasksManager` to `TaskLedger` | | |
| `TaskLookup` | method get of the D-Bus client, over `TasksManager` | the stage of the lookup | `AskQueue`, `AskRunning`, `AskHistory` |
| `Daemon` | worker loop, server thread, timer thread, `ServerTimer`, service manager | a queue for each instance, program counters, registration, timer | one for each blocking call and each access to what is shared |
| `TaskIO`, `MCTaskIO` | `TaskIO`, `TaskJournal`, console clients | pipes, sockets, journal, events of epoll, connections | writes, poll, one handler for each kind of event, each blocking send, stop and close |
| `TtyConsole` | `tty_runcmd`, `tty_client_console`, the pipes between them | terminal of the command with its size, pipes of messages, signal pipe, mode of the terminal of the user, `atexit` | the framing messages of the server, reads of either pipe, each kind of message the client receives, its five ways to leave, `Resize`, `HandleSignals` |
| `HistoryPurge`, `MCHistoryPurge` | `HistoryPurgePolicy` and its four classes, the dates of tasks | workspaces with date, size and histid, the listing, the counters of the policy | `Archive`, `PurgeStart`, `DumpMalformed`, `DumpSort`, one `…Visit` for each policy, `RemoveWorkspace`, `Report`, `Restart` |
| `ArtifactBuild` | `ArtifactBuild`, `ArtifactEnvBuild`, the three formats, the cache, the definition of an artifact | the cache, the environment of prescripts, the published version; of a build its archives, patches, series, packages | `Submit`, `Load`, `Download`, `UseCached`, `ChecksumFails`, `Symlinks`, the steps of a prescript, `ExportPatch`, `Render`, `BuildSource`, `BuildBinary`, `SignRpms`, `StaticCheck`, `PublishBuild`, their failures, `Kill` |
| `PatchQueue` | `PatchQueue`, `GitRepository`, `PatchesDir` | the patch files of each directory, the tree and the commits of the repository | `PatchesRun`, `ImportPatch`, `UserCommits`, `UserDrops`, `UserLeaves`, `CleanGeneric`, `CleanVersion`, `CountCommits`, `ExportCommit`, `ClientStops` |
| `Images` | `Image`, `BuildEnv`, `ImagesManager`, image tasks | images and environments of each instance, the skeleton, where each worker is | `CreateImage`, `LookSkeleton`, `UnlinkSkeleton`, `OpenSkeleton`, `WriteSkeleton`, `MkosiStarts`, `MkosiEnds`, `UseImage`, `CreateEnvironment`, `UseEnvironment`, `DaemonStops` |
| `RegistryRpm` | `RegistryRpm`, the build number of a build | per repository its files and its metadata, what is left to do of the task | `PublishStart`, `RemoveRpm`, `CopyRpm`, `IndexRepo`, `PublishDone`, `DeleteStart`, `DeleteVisit`, `DeleteAborts`, `DeleteDone`, `Interrupt` |
| `RegistryDeb` | `RegistryDeb`, the build number of a build | the lines of the database of reprepro, exported distributions, the configuration | `DebStart`, `OpenConf`, `WriteConf`, `Include`, `ExportDist`, `DebPublished`, `DebDelete`, `DebInterrupt` |
| `RegistryOsi` | `RegistryOsi` | images, checksums and signature by the build they are of, the step of publish | `ChecksumsOpen`, `ChecksumsWrite`, `LoadAgent`, `RemoveSignature`, `Sign`, `CopyOpen`, `CopyEnds`, `CommandFails`, `Dies`, `Delete` |
| `Keyring` | `InstanceKeyring`, its master key and subkey, their tasks and exports | passphrase file, keys in the GPG home, keys in memory, both threads | the steps of create (`CreateStart` to `SubkeyAssign`) and renew, `List` and `Assign` for a load, `Export`, `Boot`, `GpgFails`, `Stop` |
| `Parts`, `MCParts` | the parts that share no state, side by side | the part a behaviour is about | those of the eight modules above |
| `…Proofs` | theorems, see section 5 | | |

Composition. `TasksManager` EXTENDS `QueueManager` and takes its actions as parts
of its own, so that what is proved of the queue's operations is about the same
definitions; `TaskLookup` and `TasksManagerRefinement` EXTEND `TasksManager`.
`Daemon` uses a queue of which get is one step: the exactness of the semaphore
and the absence of lost wakeups, proved for `QueueManager`, justify it.
`TasksManager` lets a purge remove any archive, at any pace, beside the server
thread; `HistoryPurge` says which ones. A purge, a build, a publication and a
deletion are tasks of the one worker of an instance: that is why `HistoryPurge`,
`ArtifactBuild` and the registries need no second writer. Images do, for
the workers of two instances share the skeleton; the keyring has two, since an
export in the server thread loads it too. `RegistryOsi` EXTENDS `Keyring`, whose
worker is in `publish` while it signs. `TtyConsole` is the interactive mode of
`TaskIO` with one client: the journal and the other clients are in `TaskIO`.

`Parts` EXTENDS the history, the builds, the patch queue, the images, the terminal
and the three registries and chooses one at the start of a behaviour. They share
no file and no attribute, so nothing is lost by looking at one at a time;
`PartsAreApart` proves that each behaviour of `Parts` is one of each part that has
theorems, so that the theorems are about what the run checks.

Granularity. The steps of `QueueManager`, `TasksManager` and `Daemon` are cut at
each access to shared state that no lock joins to the next. The GIL makes one
operation on a deque, a dictionary or an attribute atomic. What lies between two
cuts touches only what the thread owns. In the modules of tasks a step is what
changes the disk once: a file written, a command run, a directory removed. The
daemon is killed between any two.

Abstractions. Tasks are model values; a task is what its identifier, its place on
disk and the way its run ends say of it. A log record is two fragments and a piece
of command output is one, so that a read can end inside of a record; in
`TtyConsole` every message is two. An archive is right for a version, or garbage. A
patch changes one file of the tree from one content to another. A version is its
main part and its build number. Time is one bit (`expired`) in `Daemon`, and timeouts
are nondeterministic elsewhere. External programs are an outcome and what they
leave. systemd, D-Bus activation, epoll, pipes and sockets, mkosi, mock, reprepro,
createrepo_c and GnuPG are modelled from the way the code uses them, and marked
external in the map.

History variables (marked so where they are declared: `submitted`, `born`, `views`,
`current`, `promised`, `excused`, `met`, `touched`…) are read by properties and
bounds only, but for one use: an identifier is a fresh UUID, hence `t \notin born`
and `t \notin Range(submitted)` in the guards.

## 3. The runs

All complete their state space on two workers, each in a few minutes and of
less than two million states.

| Run | Question | Bounds | Properties |
|---|---|---|---|
| `tasks` | Do the semaphore and the deque stay together, do server and worker together implement the ledger, is a purge safe beside them, and does a client find its task? | 3 tasks, one of them a purge, 4 outcomes, 1 crash, one client (module `TaskLookup`) | `TypeOK`, `SemaphoreCountsQueue`, `NoSleepOnWork`, `FirstInFirstOut`, `ScanSparesUnfinished`, `PrerunFindsNoWorkspace`, `NothingFallsBetween`, `LookupFinds`, `FullqueueIsOneInstant`, `ImplementsLedger` |
| `tasks_live` | Does the server thread answer, and is a submission taken? | 3 tasks, 1 crash | `ServerAnswers`, `SubmittedIsTaken` |
| `daemon` | Does the daemon stop at the right time, and is a dead worker replaced? | 2 instances, 2 tasks, workers may die | `TypeOK`, `IdleWorkerReleasesTimer`, `OverMeansIdle`, `LeavesWithEmptyQueue`, `DeadWorkerIsReplaced` |
| `daemon_live` | Does an idle daemon end by itself? | 2 instances, 2 tasks, slow authorizations | `DaemonStops` |
| `task_io` | Do clients see the journal, and does the stop of a task lose nothing? | 2 clients, a script of log, output, end, 3 fragments to a record; pipes of 4, reads of 2, sockets of 2 fragments | `TypeOK`, `ClientsMirrorJournal`, `StopLosesNothing`, `TaskCloses` |
| `parts` | Does each thing a task does keep its promise, whatever was cut before it? | see below | `PartsTypeOK` and the properties below |
| `two_unlinks`, `older_recent`, `leaves`, `hang_up`, `output_copied`, `independent` | see section 4 | | one property each, violated |

The parts of the run `parts`:

| Part | Bounds | Properties |
|---|---|---|
| history | 3 tasks, 2 histids, sizes 1 and 2; `older` 0 and 1, `last` 0 and 2, `each` 1, `size` 1 and 3; time 0 to 1 | `PurgeIsExact` |
| build | 4 definitions of different shapes, 2 upstream versions, 2 sources, 2 patches, 2 architectures, 3 formats; 2 builds, 1 kill | `BuildsFromVerified`, `SeriesIsComplete`, `PrescriptStartsClean`, `PublishedAreSigned`, `WorkerSurvives` |
| patches | 2 files with 2 contents, 2 versions, 2 commits in the repository, 2 runs | `RunsKeepPatches`, `ReimportGivesTree` |
| images | 2 instances, 2 formats (with and without `sysusers.d`), 1 environment; 3 creations, 1 kill | `CreationAloneIsSound` |
| terminal | 2 chunks of output, 2 changes of size, reads of 3 fragments | `TerminalsAgree`, `ScreenIsFaithful` |
| rpm | 2 architectures, an artifact with packages for each and one with a noarch package, 2 versions, build numbers to 2; 3 tasks, 1 fails | `RegistriesAreCurrent`, `ListingsAreTrue`, `RebuildsAreNew` |
| deb | 2 places (distribution and derivative), artifacts as above, 2 versions, build numbers to 1; 3 tasks, 1 fails | the same three |
| osi | 2 images, 2 publications, 2 creations of a key, 1 renewal, 2 faults or kills | `CanSignForEver`, `CreationCanBeRepeated`, `VerifiersAreCurrent` |

### What they show

Of the daemon:

- `SemaphoreCountsQueue` is an equality: any release too many or too few, any
  element popped without its count, breaks it. That a pop finds an element follows
  from it (theorem `PopIsSafe`), and is what keeps the server thread alive: an
  IndexError in get would leave `_state_lock` held, and every request that dumps
  the queue would block.
- `ImplementsLedger`: every step of the two threads, of a crash and of a restart
  is a step of the ledger or leaves it alone. In particular only the task that was
  run is archived, tasks are taken one at a time and in order.
- `PrerunFindsNoWorkspace` holds over restarts: restore is only used by clear, so
  no task is run twice.
- `FullqueueIsOneInstant`: the answer is what an observer of the queue and `running`
  would have seen at one instant of the call. That depends on two details: pick
  sets `running` before it releases `_state_lock`, and fullqueue reads the queue
  before `running`.
- `ScanSparesUnfinished` depends on fullqueue being called before the directory is
  listed (`history.py:338`). `NothingFallsBetween` and `LookupFinds` depend on
  `task.yml` being written before `running` is reset (`tasks/manager.py:221-222`).
- `OverMeansIdle`: the timer thread never tells the server to stop while a worker
  that has not left runs a task or has an accepted one queued, although it reads
  the set of workers and the time separately.
- `IdleWorkerReleasesTimer` and `DaemonStops`: a worker that finds its queue filled
  again in its grace time keeps its registration, and still gives it back later.
- `DeadWorkerIsReplaced`: a worker ended by an exception stays registered, which
  keeps the timer thread in the daemon until it sees that the thread is dead.
- `ClientsMirrorJournal`: a connection is replayed the journal and then added to the
  broadcasts by one thread, so it is sent each fragment once. That is all there is to it
  only for a client accepted when no record of the journal is broken off. The replay does
  not copy bytes: it reads messages and encodes them again. A record cut in its body is
  sent as a shorter message, and its rest comes with a later broadcast, without a header;
  a record with output inside of it is read out of step; a header cut short ends the
  dispatch thread. The property says that such a client still has the journal up to that
  record, and all that was added after it connected.
- `TerminalsAgree`: a client puts the terminal of its user back whether it leaves by
  the end record, an exception, a hang up or an interrupt, because `atexit` has
  the guard as soon as the mode is raw; also when the end record, which comes by
  another pipe, overtakes the message that ends the raw mode. The terminal of
  the command has the size of the window as soon as nothing is on its way.
- `ScreenIsFaithful`: output is shown in order, without gap, in raw mode; a client
  that loses the thread of messages does so only after a read that ended inside of
  one was followed by a read of the other pipe.

Of what tasks do:

- `PurgeIsExact` is about every state of a purge, so about one that is killed at any
  point, and about one that ends. `dump` sorts tasks of one date in any order, which
  is what `last` and `each` then cut. It states what the code of each policy does, and
  where that is not what the documentation says (section 4): `size` removes from the
  task that reaches the limit on; the order of the tasks is the one they were submitted in
  over the lives of the daemon, and any within one.
- `BuildsFromVerified`: the checksum is taken after the archive is found or
  downloaded, in every build, so a cut download or an error page is never built.
- `SeriesIsComplete`: the list of patches is cached at its first use, and that use comes
  after the links patch and the one of the prescript are in the directory; the tree
  the prescript ran in had all the other patches of the series.
- `PrescriptStartsClean`: the snapshot of mock is cleaned and scrubbed after each
  prescript, also after one that failed; `excused` marks the kills and failed
  commands after which it is not.
- `PublishedAreSigned`: every architecture builds the source package again and puts it
  over the signed one, hence the signature after the last architecture.
- `WorkerSurvives`: of the failures modelled here (sources, downloads, checksums, the
  commands of a build), those that end the worker as an exception are limited to
  artifacts that do not say where one of their sources is. It says nothing of what
  else may be raised in a task: section 4 names some, of the keyring among them.
- `RunsKeepPatches` and `ReimportGivesTree`: what a run exports is what was committed,
  and a run of a user who does nothing changes nothing. Series of generic and of
  version patches are numbered from the last commit to the first, and imported
  generic ones first, hence the condition `GenericFirst`.
- `CreationAloneIsSound`: a skeleton that a kill left half written is removed by the
  next creation. With two instances at once it is not sound: `independent`.
- `RegistriesAreCurrent`: the packages of an artifact are those of its last
  publication, whatever tasks of other artifacts fail. In an RPM registry it takes,
  after a failure of its own, two complete publications, not one: files that were
  copied but not indexed are not seen by the removal of the first, and are indexed
  by its end. In a deb registry one is enough, if it replaces what is there. The
  configuration of reprepro is made anew of the directories and the pipelines, so
  that it names all the registry has.
- `ListingsAreTrue`: what is listed of an artifact that is settled, its last
  publications being complete. In a deb registry that is what its tasks promised, no
  more and no less, and each entry has a file of its version. In an RPM registry it is
  all that is there, and beside that only what the metadata of repositories still names
  which the last publication left out (section 4). Both also hold while tasks of other
  artifacts run, or after they failed. A listing that is empty or fails in spite of
  packages is tied to its causes: a directory of the publication in progress that is not
  indexed yet, or one a failed publication left, until a complete one of the same
  artifact; a configuration of reprepro that is being written, or was when its
  publication failed.
- `RebuildsAreNew`: as long as the source package is in the registry, new packages
  have a version that no package they replace has.
- `VerifiersAreCurrent`: an image that was published completely matches its checksum
  whatever other publications fail later, as long as none is cut while the file of
  checksums is empty; lines of other images are carried over from it. What was
  signed is what the file says, once a publication has come as far as signing. Keys
  are edited on disk, so memory is only right because renew loads them again, and is
  not right if an export listed them before (`overtaken`).
- `CanSignForEver`: a load that fails assigns `_masterkey` only, and the subkey, which
  is what the agent needs, is kept. An export beside a creation, which finds no key
  or half a key, is the case that would break it.
- `CreationCanBeRepeated`: the order of the steps matters. Up to the protection of the
  passphrase a creation can be repeated; the states it cuts after that are named.

### Bounds

- *Tasks.* A get, a put and a waiting element make three at a time in the queue;
  the proofs have no bound. In `TasksManager` the interesting cases have one task in
  the worker, one in the queue, and a third that arrives while either moves.
- *Crashes.* One crash gives a `tasks.queue` written by another daemon, tasks that
  are archived and tasks that are orphans. `MaxCrashes` bounds nothing else.
- *Instances.* Workers only interact through the timer, the stop and the skeleton: two
  are enough for one to leave, die or run while the other does something else.
- *Histories.* Three tasks are one to keep, one at the boundary and one to remove, or
  two histids of which one has two. Times 0 and 1 give equal and different dates.
- *Builds.* Two builds are one that leaves something in the cache or the environment
  and one that finds it. The definitions are: one source; only the second source with
  an address; fixed names, which two versions share in the cache; one name for both
  sources; checksums for all, some or none.
- *Patches.* Two runs are one that exports and one that imports what was exported;
  two commits of two kinds on two files may depend on each other or not.
- *Images.* Three creations in two instances are two at once and one after them.
- *Registry tasks.* A publication, one that fails or a deletion, and one after it; the
  proofs have no bound. Two publications of two images are one that replaces or one
  that another overtakes; two faults cut a creation and its repetition.
- *Fragments.* A record has three: a part of its header, the rest of it with a part of
  the body, the rest of the body; each way to cut one is different for a replay. A pipe
  of four blocks a record behind a record; a socket of two blocks the broadcast; reads of
  two end after each of the three. In `hang_up` pipes and reads of six cut nothing, so
  that it is the client that leaves which ends the dispatch thread.

`CHECK_DEADLOCK FALSE` in `parts` and in the violation runs of its modules only: when
the requests the bounds allow are done, a part waits for the next, which may not
come. No run uses symmetry.

### Fairness

- `TasksManager!FairSpec`: weak fairness of each thread as a whole (the scheduler
  and the GIL are fair; a handler runs to its end), and of the start of the daemon.
  Runs of tasks end: nothing in the daemon bounds them, so this is an assumption
  on the commands. No client has to ask for anything; timeouts are not assumed to
  expire, so `SubmittedIsTaken` does not rest on one.
- `Daemon!FairSpec`: the same for the threads, a timed wait ends, Polkit answers,
  the service manager restarts what reported an error. The 30 seconds pass while
  all threads are blocked: `[]<>Quiet` and strong fairness of `Expire` say that
  they are blocked again and again and that time does not stop. `ManagedSpec` adds
  that the service manager kills a service that does not end after it said it was
  stopping (the default `TimeoutStopSec`).
- `TaskIO!FairSpec`: the worker and the dispatch thread go on while they can, and a
  client that has not hung up receives. Without the last one `sendall` blocks the
  task, by design.
- `Parts` states no fairness: all it is asked is safety.

## 4. What the code does not keep

Each of these runs finds a behaviour of the code against what the repository says.

| Run | Behaviour |
|---|---|
| `two_unlinks` | `save` tests that `tasks.queue` exists and then unlinks it, in two threads without a lock. A submission whose queue was emptied by the worker meanwhile, and the save at the end of a run, may both see the file. The loser of the race raises FileNotFoundError: in the worker that is the end of the thread, and later submissions of the instance wait until the watchdog restarts the service, which forgets them. |
| `older_recent` | The default of the submission date of a task is `datetime.now()` as a default argument: the time at which the daemon was started. A purge with the policy `older` removes recent tasks of a daemon that has run for long, all of them at once. |
| `leaves` | A worker leaves as soon as it finds the timer over, and the server is disconnected later, by another thread. A request in between resets the timer: its task is accepted and has no worker. |
| `hang_up` | A client that closes its connection while the dispatch thread is in a broadcast makes `sendall` raise BrokenPipeError, which is not caught. The thread ends with output unread and the journal is cut. If the task has more output than a pipe holds, its commands block, and the worker with them. |
| `output_copied` | When an interactive command exits, epoll reports the hang up of its terminal together with output that is left to read. `tty_runcmd` tests the hang up first, leaves and closes the terminal: the last output of the command is never read. |
| `independent` | The skeleton archive has one path for all instances. Workers of two instances that create images at once test, remove and exclusively open it beside each other: FileNotFoundError or FileExistsError, which the worker loop does not catch, ends a worker. |

Other disagreements, met while modelling and not given a run of their own.

Tasks and clients:

- An error of the keyring in a build is neither FatbuildrTaskExecutionError nor
  RuntimeError: run is left before `running` is reset, and the task is listed as
  running although nothing runs. Its dispatch thread, pipes and log handler stay.
- `tasks.queue` is not rewritten by pick, so after a crash it may name a task that has
  been run and archived since. clear removes its directory: archive and journal.
- The workspace of the task that was running at a crash is in no `tasks.queue`, so
  that clear, there "to cleanup optional orphaned tasks directories"
  (`tasks/manager.py:227-229`), leaves it. The next purge removes it as malformed.
- A Polkit authorization that lasts longer than the 30 seconds makes the timer over
  at the submission: a worker may leave with a task in its queue. This is why
  `LeavesWithEmptyQueue` is checked with `SlowAuth = FALSE`.
- A read of 2048 bytes of log may end inside of a record; command output read next
  is then written in the middle of it, in the journal and to the clients. A client
  that reads such a message may fail on it (`mixed` in `TtyConsole`).
- "Send tasks output from its beginning to new incoming connection"
  (`tasks/__init__.py:177-178`): `TaskJournal.replay` (`tasks/__init__.py:64-78`) reads
  the journal with `ConsoleMessage.read` and sends `raw` (`console/__init__.py:74-108`).
  When such a read has left the journal in the body of a record, a late client is sent a
  message with the size of what there is, then the rest without a header. When it has
  left it in a header, or output was written into a record, `struct.unpack` may raise
  `struct.error`, which is no RuntimeError: the dispatch thread ends, as in `hang_up`.
- Logs and output come by two pipes: the record that the task has ended, at which
  clients leave, may overtake output that was written before it.
- "removes the oldest tasks whose cumulative size exceeds the specified limit value"
  (`src/docs/modules/admin/pages/purge.adoc:30-31`): the policy `size` removes the task
  with which the sum reaches the limit (`history.py:282`), so tasks whose size is exactly
  the limit lose one.
- "except the last _n_ tasks" (`purge.adoc:26-27`, and for each artifact `36-37`): all tasks of
  one life of the daemon have one date (`tasks/__init__.py:286`), which is all the
  history is sorted by (`history.py:383-384`). Among them `last` and `each` keep any n.
- A client whose connection is closed by the daemon in the middle of a message loops
  at the end of file: `recv` returns nothing for ever (`console/client.py:113-120`).
- Two changes of the size of the window that are read at once from the signal pipe are
  not handled, since the byte is compared as a whole: the terminal of the command
  keeps the former size until the next change (`console/client.py:153`).
- tty_runcmd writes input into the terminal and output into a pipe with blocking
  calls of one thread: a command that reads nothing while its user pastes, or a
  dispatch thread that waits for a client, stops both directions
  (`console/server.py:140-151`).
- `KeyringRenewalTask` passes its duration in the place of the state of the task
  (`tasks/keyring.py:55`, `tasks/__init__.py:279-289`).

Builds and patches:

- An archive whose checksum is wrong stays in the cache, where `has_archive` finds it:
  all later builds of that version fail in the same way
  (`builds/__init__.py:332-346`). The same holds for two sources whose URLs end in
  the same name.
- The early return of prepare for an artifact without source archive
  (`builds/__init__.py:263-271`) comes before the removal of the directory of the
  submission, which is left empty.
- Patches of the generic directory and of a version that have the same name overwrite
  each other when they are moved beside the sources (`builds/formats/rpm.py:203`,
  `deb.py:161`); the export numbers each directory from 0001.
- A commit without a body makes the export of the patch queue fail
  (`git.py:47-48`), after all patches were removed (`git.py:358`): the patches of the
  artifact are lost, as they are when the client is stopped there.
- A generic commit that depends on a commit of the version is numbered among the
  generic ones, which are imported first: it does not apply any more and is dropped.
- "`#PRESCRIPT_DEPS@format:deb`" (`src/docs/modules/usage/pages/repo.adoc:703`): the
  code looks for `@formats:` (`builds/__init__.py:612`), so that this line has no
  effect.
- "the default user cache directory `~/.cache` is selected"
  (`src/docs/modules/usage/pages/fatbuildrctl.adoc:449`): it is `~/.local/fatbuildr`
  (`patches.py:43`).
- "without the index prefix … and the `.patch` suffix"
  (`src/docs/modules/usage/pages/repo.adoc:569`): exported files have no suffix
  (`git.py:408`).

Registries, images, keyring:

- A publication removes packages of the artifact from the repositories of all
  architectures and updates the metadata of those of the new packages only. A build
  for one architecture leaves names of absent files in the others
  (`registry/formats/rpm.py:126-161`).
- "This notably protect from situations where packages repositories host successively
  slightly different binary artifacts with the same version number"
  (`src/docs/modules/overview/pages/features.adoc:76-78`): a version is compared with
  that of the present source package only. After builds of versions 1, 2 and 1, after
  a deletion of the source package, or after a failed publication, it is used again.
- A repository directory without metadata makes the listing of all repositories empty
  (`registry/formats/rpm.py:196-203`), in the middle of a publication or after one
  that failed, although the others may have packages.
- The expression of a release takes one character of it: `10.el8` is read as release
  1 without a distribution tag (`registry/formats/__init__.py:75-77`), so the version
  of a rebuild does not compare equal. `RegistryRpm` takes releases of one character.
- The configuration of reprepro is truncated before it is written anew
  (`registry/formats/deb.py:110-130`). A kill in between leaves an empty one, with
  which reprepro refuses the query that gives builds their version: deb builds for a
  distribution that has packages fail before they could publish and write it again.
- A build for one architecture leaves in the other one the binary package of the
  former version (`builds/formats/deb.py:169`).
- A publication of OSI images in an instance without a key rewrites the checksums
  before it finds that it cannot sign them, and leaves the former signature beside
  them (`registry/formats/osi.py:112-123`). A deletion leaves the checksums alone.
- A build environment exists as soon as its directory is in the image
  (`images.py:213-221`): what a creation that failed or was killed has left is used.
- `ImagesManager.prepare` names a directory after the name of the instance, where the
  images are in one named after its identifier (`images.py:45-47`, `396-403`).
- A creation of the keyring that is cut between the protection of the passphrase and
  the subkey leaves an instance that cannot sign and cannot be repaired by a task: a
  key in place is refused, a protected passphrase cannot be opened for writing by the
  user of the service (`keyring.py:211-249`), and PermissionError ends the worker.
- An export that finds no key while one is created resets `_masterkey`, which the
  creation reads next: AttributeError, which ends the worker, cuts it there. The same
  export just before the signature of an OSI publication has the same end.

HTTP policy, read and not modelled:

- "This list can also contain values prefixed by `@` followed by a role name"
  (`src/docs/modules/admin/pages/web.adoc`): `_expand_actions` drops the result of
  `union`, and `role_actions` compares a role with itself and returns an exception
  (`protocols/http/server/policy.py`).

## 5. The proofs

Eight modules hold theorems. All are safety, for every value of the constants within
the named assumptions of the modules, so without the bounds of section 3 on the number
of tasks, clients, patches, failures or kills.

| Module | Theorem | Says |
|---|---|---|
| `TasksManagerProofs` | `QueueTypes` | the variables keep their types, the value of the semaphore is never negative |
| | `SemaphoreMatches` | `SemaphoreCountsQueue` |
| | `PopIsSafe` | `PopFindsElement` |
| | `NoLostWakeup` | `NoSleepOnWork` |
| | `Fifo` | `FirstInFirstOut` |
| | `ManagerTypes` | `TypeOK` |
| | `ManagerQueue` | the threads of the manager keep the promises of the queue, restarts between any two steps included |
| | `RunOnce` | `PrerunFindsNoWorkspace` |
| | `ScansAreSafe` | `ScanSparesUnfinished` |
| | `FullqueueLinearizes` | `FullqueueIsOneInstant` |
| | `NothingIsLost` | `NothingFallsBetween` |
| | `ManagerImplementsLedger` | `ImplementsLedger`, the refinement of `TaskLedger` |
| | `LookupIsSafe` | `LookupFinds` |
| `DaemonProofs` | `DaemonTypes` | `TypeOK` |
| | `IdleWorkersRelease` | `IdleWorkerReleasesTimer` |
| | `OverIsIdle` | `OverMeansIdle`, when authorizations are answered in time |
| | `LeavesNothing` | `LeavesWithEmptyQueue`, when authorizations are answered in time |
| `TaskIOProofs` | `IOTypes` | `TypeOK` |
| | `ClientsSeeJournal` | `ClientsMirrorJournal` |
| | `StopIsComplete` | `StopLosesNothing` |
| `BuildProofs` | `VerifiedAlways` | `BuildsFromVerified` |
| | `CleanAlways` | `PrescriptStartsClean` |
| | `SignedAlways` | `PublishedAreSigned` |
| | `WorkerAlways` | `WorkerSurvives` |
| | `ImagesTypes`, `TtyTypes` | `ImagesTypeOK`, `TtyTypeOK` |
| | `CreationIsSound` | `CreationAloneIsSound` |
| | `TerminalsAlwaysAgree` | `TerminalsAgree` |
| | `ScreenStaysFaithful` | `ScreenIsFaithful` |
| `PatchesProofs` | `BuildTypes` | `BuildTypeOK` |
| | `SeriesIsWhole` | `SeriesIsComplete` |
| | `PatchQueueTypes` | `QueueTypeOK` of the patch queue |
| | `PatchesAreKept` | `RunsKeepPatches` |
| | `ReimportIsFaithful` | `ReimportGivesTree` |
| `RegistryProofs` | `RpmKeepsTypes`, `DebKeepsTypes` | `RpmTypeOK`, `DebTypeOK` |
| | `RpmIsCurrent` | `SettledIsCurrent` |
| | `RpmListingIsExact` | `ListingIsExact` |
| | `RpmVersionsAreNew` | `BuildIsNew`, an action property |
| | `DebIsCurrent` | `DebSettledIsCurrent`, `ConfNamesAll` |
| | `DebListingIsTrue` | `ListedIsPromised` |
| | `DebVersionsAreNew` | `DebBuildIsNew`, an action property |
| `KeyringProofs` | `KeyringTypes`, `OsiTypes` | `KeyringTypeOK`, `OsiTypeOK` |
| | `SignsForEver` | `CanSignForEver` |
| | `CreatesAgain` | `CreationCanBeRepeated` |
| | `VerifiersStayCurrent` | `VerifiersAreCurrent` |
| `PartsProofs` | `HistoryTypes` | `TypeOK` of the purge |
| | `PurgeStaysExact` | `PurgeIsExact` |
| | `PartsAreApart` | a behaviour of `Parts` is one of every part |
| | `PartsKeepTypes` | `PartsTypeOK` |
| | `PartsKeepPromises` | what is proved of builds, patches, purges, images, terminals and the keyring, of `PartsSpec` |
| | `RegistriesStayCurrent`, `ListingsStayTrue`, `RebuildsStayNew` | `RegistriesAreCurrent`, `ListingsAreTrue`, `RebuildsAreNew` of `PartsSpec` |

Each part has an inductive invariant, a conjunction of named parts, a lemma for each
action or group of actions that can disturb it, and a lemma for what the operators of
the model return. TLC has checked the properties on the instances of section 3 before
they were proved.

- *Queue* (`IInv`): the types, `SemaphoreCountsQueue`, `LockHeldByGetter`,
  `FirstInFirstOut` and `WaitsAtZero`. `NoSleepOnWork` is not inductive: it says
  nothing of a worker that waits while put is between its append and its release.
  `WaitsAtZero` says that a worker only waits at value zero; with the exact count, the
  deque then holds at most the element that is being put. `PopFindsElement` is the count
  again: what is granted is still queued. `AppendToConcat` and `MoveHead` are the
  facts on sequences. Assumption: `None \notin Tasks`. It is about one server thread
  and one worker thread, which is how the code uses a queue.
- *Tasks manager* (`ManagerInv`, on top of `IInv` of its queue). None of the properties
  about it is inductive: each is about a thread that acts on what it has read before.
  `OnceInv`: an identifier is drawn once, is at most once in the queue, and never both
  there and taken. `PlaceInv`: the workspace tells how far a task has got; what is
  accepted and not yet prepared has none, which is `PrerunFindsNoWorkspace`. `ScanInv`:
  what a scan has taken from fullqueue covers every task that is not finished, and what
  it still has to visit is none of those, unless it is archived meanwhile. `ViewsInv` is
  why two reads without a common lock are one instant: the copy of the queue is the
  queue until the next popleft; from then on the task that left it is in the copy, and
  is in the answer whether or not `running` is read before it is set. For the refinement,
  every action is shown to be a step of `TaskLedger` or to leave its variables alone
  (`LedgerStep`); the mapping is that of `TasksManagerRefinement`. `LookupInv` adds
  what the client knows: a task that has left the queue stays out of it, and one that
  is no longer running was archived before the history is listed.
- *Daemon* (`DaemonInv`). `QueueShape`: the count of the semaphore again, per instance.
  `RegisteredShape`: a registered worker that goes back to its queue has something in
  it, as `IdleWorkerReleasesTimer` says, and a worker that reads the timer is not
  registered. `ExpiredShape` is what makes two reads without a lock safe: each request
  resets the timer before the task is put, so that once the time has expired nothing is
  put, and a worker that is not registered has nothing to do, then and later. It holds
  with `~SlowAuth` only, which `OverIsIdle` and `LeavesNothing` assume as the runs
  of these properties do: section 4 says what happens otherwise. No assumption on the
  number of instances.
- *Task I/O* (`IOInv`). `ClientsMirrorJournal` says nothing in the middle of a
  broadcast: `SendShape` does, for clients that are served, that are being served, of
  which a prefix was accepted, and that are still to be served (`Broadcasts`), and for
  the replay to a client that has just connected (`Replaying`): what a replay makes of
  the journal follows it (`ReplayFollows`), and still does when both grow by the same
  broadcast (`FollowsGrows`), because the first record that is broken off stays where
  it is (`FirstBreak`). `WrittenShape` says where each fragment the task
  has written is (the journal, the message being sent, the two pipes) and that those of
  one pipe are in the order they were written in, so that empty pipes make the journal
  complete. `OrderShape`: nothing was sent to a client that was not accepted.
- *Build* (`BuildIInv`): where each archive comes from and that one of the cache has
  an address and the right checksum (`LoadedShape`, `CacheShape`), at which steps an
  environment is changed (`OverlayShape`), at which packages are unsigned and that
  then more are to come or the signature is (`SignedShape`), and what escapes ends a
  build (`EscapeShape`). `BuildsFromVerified` is not inductive: it does not say that an
  archive in use is a file of the cache, which is why nothing is downloaded over it.
- *Series* (`SeriesInv`): `PatchShape` says which patches there are at each step, and
  `SelectedShape` that the cached list is read only when no more of them come, which
  is what `SeriesIsComplete` needs. `NumbersShape` bounds the build numbers by the number
  of builds, for the types. The order of the series is a sorted sequence, one of the
  *orders* below (`InOrderSorts`). Assumption: a subdirectory has one file of a name
  (`NamesAreUnique`, a guard of the collection).
- *Orders*: `OrderExists` says that a finite set whose elements have distinct numbers
  can be put in order, by the least number of elements for which it could not;
  `OneOrder` that this can be done in one way; `OrderLists` that the order lists each
  element once. Patches of a series, patches of a directory and commits of a kind are
  put in order by these.
- *Patch queue* (`PatchQueueInv`). `RunsKeepPatches` is about the two ends of a run and
  says nothing of the middle of it. `CleanShape`: what was removed from the directories
  at each step before the export. `ImportShape`: what a run has imported, followed by
  what it still has to import, are the patches it began with, unless the user has his
  say. `ExportShape`: what is in the directories while commits are walked back from the
  last one is the commits after that point, under their places among those of their
  kind. Places may have gaps, for commits without difference: `RanksGrow` is why the
  order of the directory is that of the history all the same, and `HistoryIsGiven` puts
  an import and an export together. The proof of the types has corrected the model: a
  bound said that a history has at most `MaxCommits` commits, which holds with two runs
  only, as import makes a commit of each patch whatever their number. It also takes
  fewer than 10000 patches: their names have four digits and are sorted as text
  (`Sorted` in `PatchQueue`).
- *Tree of the queue* (`TreeShape`, on top of `PatchQueueInv`). `ReimportGivesTree` is
  about the last step of a run and about patches; `TreeShape` is about commits, at every
  step: they form a chain, in which each change starts from the content that the one
  before it on the same file has left, and the tree has what the last one of each file
  has left. A commit lengthens the chain, dropping the last one shortens it
  (`ChainGrows`, `ChainShrinks`). A chain that is replayed gives the tree it ends with
  (`ChainGivesTree`), and one whose changes keep their order per file is still a chain
  (`ReorderedChain`): putting generic patches first is such an order, exactly when no
  generic commit follows one of the version on the same file. `ChainAgrees` shows that
  what is exported is the history in that order. Assumption: `NoChange \notin Changes`,
  a commit without difference is none of the changes (`NoChangeAssumption`).
- *Folds and sums*: a fold over a set is, in the library, a function on the subsets that
  is chosen for satisfying its recursive equation, so nothing follows from it before such
  a function is shown to exist and to be the only one (`FoldExists`, `FoldIsOne`). Both
  are by the size of the set, as a least counterexample (`BySize`), since the induction
  theorems of the library cannot be instantiated. From these, a replay is that of all
  but its last patch, followed by it (`ReplayIsOfOne`), and a sum does not depend on the
  order in which it is taken (`SumTakes`) and grows with its set (`SumGrows`).
- *Images* (`ImagesIInv`): a worker whose creation met no other one is the only one that
  creates (`AloneShape`), and what the skeleton is at each of its steps
  (`SkeletonShape`). No assumption on the number of instances.
- *Terminal* (`TtyIInv`): the guard is registered as long as the mode is raw
  (`GuardShape`); the last size that was sent, handled or not, is that of the window
  (`SizeShape`). `HeadIsHandled` is the fact on sequences.
- *Output of the terminal* (`ScreenInv`): halves of messages have a rank, and what is in
  a pipe and in the stream is numbered without a gap after what was shown
  (`OutsShape`, `StreamShape`, `ShownShape`); as long as the two pipes were not mixed,
  the half that is missing in the stream is the first one of the pipe that was cut
  (`ThreadShape`, `CutShape`). `ScreenIsFaithful` says nothing of messages on their way.
- *History* (`HistoryIInv`, `PurgeInv`): the types, and that a counter is at most the
  number of tasks the loop has visited (`LoopShape`), that being all the types need.
  `PurgeIsExact` is not inductive: it speaks of what was removed, and the loop decides
  by its counters. `PurgeInv` says, at every step, what a counter is a count of: tasks
  visited and spared, of all artifacts (`LastLoop`), of each one, up to the value
  (`EachLoop`), the sum of their sizes until the limit is met (`SizeLoop`); with
  `older`, the date alone decides (`OlderLoop`). `RunsOut` says that once a task is
  removed all those that follow are (with `each`, those of the same artifact), so that
  what is left is the latest, as the listing is sorted by date (`ListingShape`), and
  dates are those of lives of the daemon, which come one after the other (`SinceShape`).
  `SizeLoop` is the delicate one: the size of the task that meets the limit is counted
  though it is removed, so that from then on `measured` is no longer the sum of what is
  left, which only stays below the limit; and what is left together with a task that
  was removed reaches it, which is why nothing was removed in vain. Assumptions:
  tasks are finitely many, there is a histid and a size.
- *RPM registry* (`RpmIInv`): what was promised is of one version and in all the homes
  of a package (`CurrentShape`); the progress of a publication and of a deletion
  (`PublishShape`, `DeleteShape`); files of an artifact have a name in the metadata but
  for one complete publication after a failure (`NamedShape`), which is why it takes two;
  a directory without metadata is on its way to have some, unless a task has failed that
  no complete publication of its artifact followed, since such a one indexes every
  repository (`ListShape`). A deletion
  that finds no metadata is the surprising step: `DeleteAborts` ends a task without
  making its promise, and keeps the former one only because a package is promised in
  all its homes, so nothing of that architecture was there.
- *Deb registry* (`DebIInv`): architectures of a line follow from where it is listed
  (`LinesShape`), what was promised is of one version in each place that was exported
  (`PromiseShape`), what the configuration names and when it may be empty (`ConfShape`),
  and that what was included is all there is where it goes (`ProgressShape`).
- *Keyring* (`IInv` of `KeyringProofs`), with the OSI registry: what is on disk at each
  step of a creation (`CreationShape`), that there is never a second key (`KeyShape`),
  where a creation that cannot be repeated was cut (`Repeatable`), and that the worker is
  in `publish` while a publication is in progress (`PublishHolds`). `CanSignForEver` is
  not inductive: it does not say that a creation which is under way has not succeeded
  before. `LoadedTypes` is the fact about a load that matters: it never loses a subkey.
- *What clients check images with* (`VInv`): the dates in memory are those of the key on
  disk unless an export overtook a task, and an export that overlaps a creation can
  only have listed the new key (`DatesShape`); the checksums at each step of a
  publication (`ChecksumsShape`); a signature of former checksums is never left without
  a trace (`SignatureShape`). Assumption: no image is named `None`.
- *Parts*: a step of one part leaves the variables of the others as they are, so a
  behaviour of `PartsSpec` satisfies the specification of each of them, and what is
  proved there holds.

Every safety property and every action property that a passing run checks is stated by
one of these theorems. Only model-checked: liveness, with the fairness it needs, which
is beyond the prover: `ServerAnswers`, `SubmittedIsTaken`, `DeadWorkerIsReplaced`,
`DaemonStops` and `TaskCloses`.

## 6. What is not modelled

- *Hooks* (`tasks/manager.py:175-202`): a program run for at most five seconds, which
  changes no state of the daemon.
- *Builds*: the directory of the submission, templates and rename rules, malformed
  patches, tarballs the prescript downloads, changelogs, command lines of containers.
- *The console*: bytes of keys, colours, titles; the HTTP client of the console, which
  reads the same messages from a stream.
- *HTTP*: each view is one D-Bus request; its policy is a table that is read once.
  *Tokens* are signed, kept in files that are written once, and expire: no state.
- *Pipelines*: read once from a file; the derivatives of a distribution are constants of
  the registries.
- *Conversions* (`protocols/exports.py`, `protocols/wire.py`), templates,
  configuration, logging formats, command line: no state.
- *More than one crash in `TasksManager`, a full disk, an unreadable `task.yml`.*

## 7. Plan

Done: the queue, the tasks manager with its refinement, the lookup, the life of the
daemon, the I/O of a task and its interactive mode, the purge of the history, builds
with their cache and patches, the patch queue, images, the three registries, the
keyring; proofs of the safety of all of these.
Next, in this order:

1. *Versions* (`registry/formats/__init__.py:73-120`) as a pure algorithm: parsing and
   printing against a reference.
2. *HTTP policy* and *derivatives of pipelines*, as pure algorithms.
3. *Builds and registries together*: `ArtifactBuild` takes its version from a registry
   that is one variable; with `RegistryRpm` in its place, a build that waits for its
   publication would be checked against deletions queued before it.

Proofs: what is left is liveness, which stays with TLC, and each module of this plan
with its own invariants.
