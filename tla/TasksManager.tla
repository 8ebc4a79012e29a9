---------------------------- MODULE TasksManager ----------------------------
(***************************************************************************)
(* The tasks manager of one instance: class ServerTasksManager of          *)
(* src/fatbuildr/tasks/manager.py, the life of a RunnableTask              *)
(* (tasks/__init__.py) as far as its workspace directory shows it, and the *)
(* directory scans of HistoryManager (history.py).                         *)
(*                                                                         *)
(* The server thread submits tasks and answers queue and history requests, *)
(* the worker thread picks tasks and runs them.  Both save the queue state *)
(* file; nothing orders the two saves.  The daemon may stop at any point   *)
(* (power loss, kill, or the normal exit of an idle daemon) and loses all  *)
(* but the directory of the instance: the state file and the workspaces.   *)
(* The next daemon clears before it starts its threads.                    *)
(***************************************************************************)
EXTENDS QueueManager, FiniteSets

CONSTANTS Purges,      \* the tasks that are history purge tasks
          Outcomes,    \* how task.run may end, see RunEnds
          MaxCrashes   \* bound on the number of crashes

ASSUME PurgesAssumption == Purges \subseteq Tasks
ASSUME OutcomesAssumption ==
    Outcomes \subseteq {"success", "failed", "escapes", "dies"}
ASSUME MaxCrashesAssumption == MaxCrashes \in Nat

VARIABLES
    pc,         \* where the two threads are
    task,       \* the task the worker picked (its local variable)
    running,    \* attribute running, read by both threads
    toSave,     \* per thread, the dump that save is about to write
    handle,     \* per thread, the file object save opened
    stateFile,  \* the file tasks.queue
    place,      \* workspace directories of the tasks
    snap,       \* per thread, the result of fullqueue
    todo,       \* per thread, the directories HistoryManager.dump has to visit
    cleanup,    \* identifiers clear has still to remove
    views,      \* history: the queue views since the server dumped the queue
    born,       \* history: every identifier ever drawn
    crashes     \* history: number of crashes

diskVars == <<stateFile, place>>
scanVars == <<snap, todo>>
saveVars == <<toSave, handle>>
histVars == <<born, crashes>>

vars == <<queueVars, pc, task, running, saveVars, diskVars, scanVars, cleanup,
          views, histVars>>

Threads == {"server", "worker"}

Labels == {"down", "clear", "loop", "appended", "picked", "prerun", "run",
           "postrun", "terminated", "saveDump", "saveTest", "saveUnlink",
           "saveOpen", "saveWrite", "fullqueue", "list", "visit", "policy",
           "dead"}

\* A file that exists with no identifiers was truncated and not yet written.
NoFile == [exists |-> FALSE, ids |-> <<>>]

TypeOK ==
    /\ QueueTypeOK
    /\ pc \in [Threads -> Labels]
    /\ task \in Tasks \cup {None}
    /\ running \in Tasks \cup {None}
    /\ toSave \in [Threads -> Seq(Tasks)]
    /\ handle \in [Threads -> {"closed", "live", "unlinked"}]
    /\ stateFile \in [exists : BOOLEAN, ids : Seq(Tasks)]
    /\ place \in [Tasks -> {"absent", "workspace", "archived"}]
    /\ snap \in [Threads -> Seq(Tasks)]
    /\ todo \in [Threads -> SUBSET Tasks]
    /\ cleanup \in Seq(Tasks)
    /\ views \subseteq Seq(Tasks)
    /\ born \subseteq Tasks
    /\ crashes \in 0..MaxCrashes

Init ==
    /\ QueueInit
    /\ task = None
    /\ running = None
    /\ toSave = [p \in Threads |-> <<>>]
    /\ handle = [p \in Threads |-> "closed"]
    /\ snap = [p \in Threads |-> <<>>]
    /\ todo = [p \in Threads |-> {}]
    /\ cleanup = <<>>
    /\ pc = [p \in Threads |-> "down"]
    /\ stateFile = NoFile
    /\ place = [t \in Tasks |-> "absent"]
    /\ views = {}
    /\ born = {}
    /\ crashes = 0

Goto(p, label) == pc' = [pc EXCEPT ![p] = label]
Move(p, from, to) == pc[p] = from /\ Goto(p, to)

-----------------------------------------------------------------------------
(* save, by either thread.  The queue is dumped, then the file is removed  *)
(* or rewritten; other steps of the other thread fit anywhere between.     *)

SaveDump(p) ==
    /\ pc[p] = "saveDump"
    /\ \E copy \in {queue} :
          /\ Dump(copy)
          /\ toSave' = [toSave EXCEPT ![p] = copy]
          /\ Goto(p, IF copy = <<>> THEN "saveTest" ELSE "saveOpen")
    /\ UNCHANGED <<queueVars, task, running, handle, diskVars, scanVars,
                   cleanup, histVars>>

\* Nothing to save: return, or remove the file if it exists.
SaveTest(p) ==
    /\ Move(p, "saveTest", IF stateFile.exists THEN "saveUnlink" ELSE "loop")
    /\ UNCHANGED <<queueVars, task, running, saveVars, diskVars, scanVars,
                   cleanup, histVars>>

\* unlink raises FileNotFoundError if the other thread was faster.  It makes
\* the D-Bus request fail, and kills the worker, which only catches
\* FatbuildrRuntimeError.
SaveUnlink(p) ==
    /\ Move(p, "saveUnlink",
            IF ~stateFile.exists /\ p = "worker" THEN "dead" ELSE "loop")
    /\ stateFile' = NoFile
    /\ handle' = [q \in Threads |->
                     IF handle[q] = "live" THEN "unlinked" ELSE handle[q]]
    /\ UNCHANGED <<queueVars, task, running, toSave, place, scanVars, cleanup,
                   histVars>>

\* open(..., 'wb+') creates or truncates the file.
SaveOpen(p) ==
    /\ Move(p, "saveOpen", "saveWrite")
    /\ stateFile' = [exists |-> TRUE, ids |-> <<>>]
    /\ handle' = [handle EXCEPT ![p] = "live"]
    /\ UNCHANGED <<queueVars, task, running, toSave, place, scanVars, cleanup,
                   histVars>>

\* The pickle reaches the file when it is closed, unless the file the handle
\* was opened on has been unlinked since.
SaveWrite(p) ==
    /\ Move(p, "saveWrite", "loop")
    /\ stateFile' = IF handle[p] = "live"
                    THEN [stateFile EXCEPT !.ids = toSave[p]]
                    ELSE stateFile
    /\ handle' = [handle EXCEPT ![p] = "closed"]
    /\ UNCHANGED <<queueVars, task, running, toSave, place, scanVars, cleanup,
                   histVars>>

Save(p) ==
    \/ SaveDump(p) \/ SaveTest(p) \/ SaveUnlink(p) \/ SaveOpen(p)
    \/ SaveWrite(p)

-----------------------------------------------------------------------------
(* submit, by the server thread: put, then save.                           *)

\* Mutant: identifiers are only unique in one run of the daemon.
SubmitAppend_Reuse(t) ==
    /\ Move("server", "loop", "appended")
    /\ born' = born \cup {t}
    /\ PutAppend(t)
    /\ UNCHANGED <<task, running, saveVars, diskVars, scanVars, cleanup,
                   crashes>>

SubmitAppend(t) ==
    /\ Move("server", "loop", "appended")
    /\ t \notin born
    /\ born' = born \cup {t}
    /\ PutAppend(t)
    /\ UNCHANGED <<task, running, saveVars, diskVars, scanVars, cleanup,
                   crashes>>

SubmitRelease ==
    /\ Move("server", "appended", "saveDump")
    /\ PutRelease
    /\ UNCHANGED <<task, running, saveVars, diskVars, scanVars, cleanup,
                   histVars>>

-----------------------------------------------------------------------------
(* HistoryManager.dump, which starts with fullqueue.  The server thread    *)
(* runs it for a history request.  The worker runs it when it runs a purge *)
(* task, and then also removes malformed directories.                      *)

FullqueueDump(p) ==
    /\ \/ p = "server" /\ pc[p] = "loop"
       \/ p = "worker" /\ pc[p] = "run" /\ task \in Purges
    /\ Goto(p, "fullqueue")
    /\ \E copy \in {queue} : Dump(copy) /\ snap' = [snap EXCEPT ![p] = copy]
    /\ UNCHANGED <<queueVars, task, running, saveVars, diskVars, todo, cleanup,
                   histVars>>

\* Mutant: the dump is not searched for the running task.
FullqueueRunning_Doubled(p) ==
    /\ Move(p, "fullqueue", "list")
    /\ snap' = IF running = None THEN snap
               ELSE [snap EXCEPT ![p] = <<running>> \o @]
    /\ UNCHANGED <<queueVars, task, running, saveVars, diskVars, todo, cleanup,
                   histVars>>

\* Mutant: running is inserted without a test for None.
FullqueueRunning_Untested(p) ==
    /\ Move(p, "fullqueue", "list")
    /\ snap' = IF running \in Range(snap[p]) THEN snap
               ELSE [snap EXCEPT ![p] = <<running>> \o @]
    /\ UNCHANGED <<queueVars, task, running, saveVars, diskVars, todo, cleanup,
                   histVars>>

\* The running task comes first, unless the dump already has it.
FullqueueRunning(p) ==
    /\ Move(p, "fullqueue", "list")
    /\ snap' = IF running = None \/ running \in Range(snap[p])
               THEN snap
               ELSE [snap EXCEPT ![p] = <<running>> \o @]
    /\ UNCHANGED <<queueVars, task, running, saveVars, diskVars, todo, cleanup,
                   histVars>>

\* Mutant: the directories of unfinished tasks are not skipped.
HistoryList_All(p) ==
    /\ Move(p, "list", "visit")
    /\ todo' = [todo EXCEPT ![p] = {t \in Tasks : place[t] # "absent"}]
    /\ UNCHANGED <<queueVars, task, running, saveVars, diskVars, snap, cleanup,
                   histVars>>

\* iterdir lists the directories, of which those of queued tasks are skipped.
HistoryList(p) ==
    /\ Move(p, "list", "visit")
    /\ todo' = [todo EXCEPT ![p] =
                  {t \in Tasks : place[t] # "absent"} \ Range(snap[p])]
    /\ UNCHANGED <<queueVars, task, running, saveVars, diskVars, snap, cleanup,
                   histVars>>

\* A directory without task.yml is malformed; only the purge removes it.
HistoryVisit(p, t) ==
    /\ pc[p] = "visit"
    /\ t \in todo[p]
    /\ todo' = [todo EXCEPT ![p] = @ \ {t}]
    /\ place' = IF p = "worker" /\ place[t] = "workspace"
                THEN [place EXCEPT ![t] = "absent"]
                ELSE place
    /\ UNCHANGED <<queueVars, pc, task, running, saveVars, stateFile, snap,
                   cleanup, histVars>>

HistoryDone(p) ==
    /\ todo[p] = {}
    /\ Move(p, "visit", IF p = "server" THEN "loop" ELSE "policy")
    /\ UNCHANGED <<queueVars, task, running, saveVars, diskVars, scanVars,
                   cleanup, histVars>>

\* The policy of the purge removes some of the archived tasks.
PurgePolicy ==
    /\ Move("worker", "policy", "postrun")
    /\ \E removed \in SUBSET {t \in Tasks : place[t] = "archived"} :
          place' = [t \in Tasks |->
                       IF t \in removed THEN "absent" ELSE place[t]]
    /\ UNCHANGED <<queueVars, task, running, saveVars, stateFile, scanVars,
                   cleanup, histVars>>

Fullqueue(p) == FullqueueDump(p) \/ FullqueueRunning(p)

History(p) ==
    \/ HistoryList(p)
    \/ \E t \in Tasks : HistoryVisit(p, t)
    \/ HistoryDone(p)

-----------------------------------------------------------------------------
(* pick and run, by the worker thread.                                     *)

\* Inside queue.get: only the queue changes.
PickGet ==
    /\ pc["worker"] = "loop"
    /\ AcquireTake \/ AcquireWait \/ GetNothing \/ GetLock \/ GetPop
    /\ UNCHANGED <<pc, task, running, saveVars, diskVars, scanVars, cleanup,
                   histVars>>

\* The 60 seconds given to pick expire, or the timer thread interrupts it.
PickInterrupted ==
    /\ pc["worker"] = "loop"
    /\ AcquireTimeout
    /\ UNCHANGED <<pc, task, running, saveVars, diskVars, scanVars, cleanup,
                   histVars>>

\* running is set while _state_lock is still held: fullqueue sees the task
\* either in the queue or running.
PickRunning ==
    /\ Move("worker", "loop", "picked")
    /\ getter = "holding"
    /\ running' = popped
    /\ task' = popped
    /\ UNCHANGED <<queueVars, saveVars, diskVars, scanVars, cleanup, histVars>>

PickRelease ==
    /\ Move("worker", "picked", "prerun")
    /\ Release
    /\ UNCHANGED <<task, running, saveVars, diskVars, scanVars, cleanup,
                   histVars>>

\* prerun creates the workspace.
Prerun ==
    /\ Move("worker", "prerun", "run")
    /\ place' = [place EXCEPT ![task] =
                    IF @ = "absent" THEN "workspace" ELSE @]
    /\ UNCHANGED <<queueVars, task, running, saveVars, stateFile, scanVars,
                   cleanup, histVars>>

\* Mutant: running is reset as soon as task.run returns.
RunEnds_Resets(outcome) ==
    /\ pc["worker"] = "run"
    /\ outcome \in {"success", "failed"}
    /\ Goto("worker", "postrun")
    /\ running' = None
    /\ UNCHANGED <<queueVars, task, saveVars, diskVars, scanVars, cleanup,
                   histVars>>

(***************************************************************************)
(* task.run ends.  A FatbuildrTaskExecutionError or a RuntimeError is a    *)
(* failed task.  Another FatbuildrRuntimeError ("escapes": the keyring     *)
(* error of a deb or rpm build in an instance without key) leaves run and  *)
(* is caught by the loop of the worker, with running still set.  Any other *)
(* exception ("dies": the registry error of a deletion, the configuration  *)
(* error of a purge with an unknown policy) ends the worker thread.        *)
(***************************************************************************)
RunEnds(outcome) ==
    /\ \/ pc["worker"] = "run" /\ task \notin Purges
       \/ pc["worker"] = "policy" /\ outcome = "dies"   \* unknown policy
    /\ Goto("worker", CASE outcome \in {"success", "failed"} -> "postrun"
                         [] outcome = "escapes" -> "loop"
                         [] outcome = "dies" -> "dead")
    /\ UNCHANGED <<queueVars, task, running, saveVars, diskVars, scanVars,
                   cleanup, histVars>>

\* postrun, then terminate, which writes task.yml in the workspace.
Terminate ==
    /\ Move("worker", "postrun", "terminated")
    /\ place' = [place EXCEPT ![task] = "archived"]
    /\ UNCHANGED <<queueVars, task, running, saveVars, stateFile, scanVars,
                   cleanup, histVars>>

ResetRunning ==
    /\ Move("worker", "terminated", "saveDump")
    /\ running' = None
    /\ UNCHANGED <<queueVars, task, saveVars, diskVars, scanVars, cleanup,
                   histVars>>

-----------------------------------------------------------------------------
(* The daemon stops, and starts again.                                     *)

\* All memory is lost.
Crash ==
    /\ pc["server"] # "down"
    /\ crashes < MaxCrashes
    /\ crashes' = crashes + 1
    /\ pc' = [p \in Threads |-> "down"]
    /\ QueueReset
    /\ task' = None
    /\ running' = None
    /\ toSave' = [p \in Threads |-> <<>>]
    /\ handle' = [p \in Threads |-> "closed"]
    /\ snap' = [p \in Threads |-> <<>>]
    /\ todo' = [p \in Threads |-> {}]
    /\ cleanup' = <<>>
    /\ UNCHANGED <<diskVars, born>>

\* clear starts with restore, which takes a truncated file for an empty one.
Boot ==
    /\ pc["server"] = "down"
    /\ pc' = [p \in Threads |-> "clear"]
    /\ cleanup' = IF stateFile.exists THEN stateFile.ids ELSE <<>>
    /\ UNCHANGED <<queueVars, task, running, saveVars, diskVars, scanVars,
                   histVars>>

ClearWorkspace ==
    /\ pc["server"] = "clear"
    /\ cleanup # <<>>
    /\ place' = [place EXCEPT ![Head(cleanup)] = "absent"]
    /\ cleanup' = Tail(cleanup)
    /\ UNCHANGED <<queueVars, pc, task, running, saveVars, stateFile, scanVars,
                   histVars>>

\* The save of clear finds the queue empty, and starts the threads.
ClearSave ==
    /\ pc["server"] = "clear"
    /\ cleanup = <<>>
    /\ stateFile' = NoFile
    /\ pc' = [p \in Threads |-> "loop"]
    /\ UNCHANGED <<queueVars, task, running, saveVars, place, scanVars,
                   cleanup, histVars>>

-----------------------------------------------------------------------------

ServerStep ==
    \/ SubmitRelease
    \/ Save("server")
    \/ FullqueueRunning("server")
    \/ History("server")

ServerRequest == (\E t \in Tasks : SubmitAppend(t)) \/ FullqueueDump("server")

WorkerStep ==
    \/ PickGet
    \/ PickRunning
    \/ PickRelease
    \/ Prerun
    \/ \E outcome \in Outcomes : RunEnds(outcome)
    \/ Fullqueue("worker")
    \/ History("worker")
    \/ PurgePolicy
    \/ Terminate
    \/ ResetRunning
    \/ Save("worker")

DaemonStart == Boot \/ ClearWorkspace \/ ClearSave

Step ==
    ServerRequest \/ ServerStep \/ WorkerStep \/ PickInterrupted \/ DaemonStart
    \/ Crash

\* What a reader that sees the queue and running at one instant would answer.
View == IF running = None THEN queue ELSE <<running>> \o queue

\* Not between popleft and the assignment of running: the task is in neither.
ViewIsWhole == ~(getter = "holding" /\ pc["worker"] = "loop")

InFullqueue == pc["server"] = "fullqueue"

\* The history variable views collects the views during a call of fullqueue.
TrackViews ==
    views' = IF ~InFullqueue' THEN {}
             ELSE (IF InFullqueue THEN views ELSE {})
                  \cup (IF ViewIsWhole' THEN {View'} ELSE {})

Next == Step /\ TrackViews

Spec == Init /\ [][Next]_vars

(***************************************************************************)
(* Threads that have something to do do it, handlers and saves end, and    *)
(* task.run returns: nothing in the daemon bounds the time of a run, so    *)
(* that it ends is assumed.  No client has to submit anything, no timeout  *)
(* has to expire.                                                          *)
(***************************************************************************)
FairSpec ==
    /\ Spec
    /\ WF_vars(WorkerStep /\ TrackViews)
    /\ WF_vars(ServerStep /\ TrackViews)
    /\ WF_vars(DaemonStart /\ TrackViews)

-----------------------------------------------------------------------------
(* Properties.                                                             *)

Busy == {"picked", "prerun", "run", "fullqueue", "list", "visit", "policy",
         "postrun", "terminated"}

\* The task a worker has taken from the queue and is not done with.
Active ==
    CASE pc["worker"] \in Busy -> task
      [] getter = "holding" -> popped
      [] OTHER -> None

\* Tasks that are accepted and not done with.
Unfinished == Range(queue) \cup ({Active} \ {None})

(***************************************************************************)
(* fullqueue dumps the queue and then reads running, with the worker free  *)
(* to finish and pick tasks in between, yet its answer is the queue at one *)
(* instant of the call: no task that stays queued or running is missing or *)
(* doubled (manager.py:105-118 and the order of manager.py:170-171).       *)
(***************************************************************************)
FullqueueIsOneInstant ==
    [][pc["server"] = "fullqueue" /\ pc'["server"] = "list"
         => snap'["server"] \in views]_vars

(***************************************************************************)
(* A directory that a history scan finds without task.yml, reports as      *)
(* malformed, and in a purge removes, is never the workspace of a task     *)
(* that is queued, picked or running, although the scan works on an older  *)
(* answer of fullqueue (history.py:338-376).                               *)
(***************************************************************************)
ScanSparesUnfinished ==
    \A p \in Threads : pc[p] = "visit" =>
        \A t \in todo[p] : place[t] = "workspace" => t \notin Unfinished

(***************************************************************************)
(* No task falls between queue and history: once fullqueue has answered a  *)
(* history request, a task this daemon is not done with and that is not in *)
(* the answer already has its task.yml, because that is written before     *)
(* running is reset (manager.py:221-222, history.py:338).                  *)
(***************************************************************************)
NothingFallsBetween ==
    pc["server"] = "list" =>
        \A t \in Unfinished \ Range(snap["server"]) : place[t] = "archived"

(***************************************************************************)
(* A task is run at most once, over all restarts of the daemon: prerun     *)
(* never meets the workspace of an earlier run (tasks/__init__.py:305).    *)
(***************************************************************************)
PrerunFindsNoWorkspace ==
    pc["worker"] = "prerun" => place[task] = "absent"

(***************************************************************************)
(* The server thread is never stuck on _state_lock or in a save, whatever  *)
(* becomes of the worker: it answers every request (manager.py:57-60).     *)
(***************************************************************************)
ServerAnswers == (pc["server"] # "loop") ~> (pc["server"] = "loop")

(***************************************************************************)
(* A submitted task is taken by the worker without the help of a timeout   *)
(* or an interrupt, although the acquire that the submission wakes up      *)
(* takes nothing; unless the worker died (manager.py:38-46, 161-173).      *)
(***************************************************************************)
SubmittedIsTaken ==
    \A t \in Tasks : t \in Range(queue) ~>
        t \in Range(taken) \/ pc["worker"] = "dead" \/ pc["server"] = "down"

(***************************************************************************)
(* "Successive tasks are enqueued and processed asynchronously by worker   *)
(* threads" (architecture.adoc:76-77).  The code breaks it: see the README *)
(* on the two unlinks of the queue state file.                             *)
(***************************************************************************)
SubmittedIsProcessed ==
    \A t \in Tasks : t \in Range(queue) ~> place[t] = "archived"
=============================================================================
