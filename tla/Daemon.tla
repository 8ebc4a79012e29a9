------------------------------- MODULE Daemon -------------------------------
(***************************************************************************)
(* The life of the fatbuildrd process: its worker threads (one for each    *)
(* instance), its D-Bus server thread and its timer thread, of             *)
(* src/fatbuildr/cli/fatbuildrd.py, the ServerTimer they share, of         *)
(* src/fatbuildr/timer.py, and the D-Bus requests that reset the timer, of *)
(* src/fatbuildr/protocols/dbus/server.py.                                 *)
(*                                                                         *)
(* The daemon stops itself when nothing has been asked for 30 seconds and  *)
(* no worker is registered with the timer, and D-Bus starts it again with  *)
(* the next request.  The queue of an instance is the one of QueueManager, *)
(* with get a single step: FirstInFirstOut and PopFindsElement are what    *)
(* that needs.                                                             *)
(*                                                                         *)
(* Time is abstract.  Expire lets the 30 seconds pass, and they only pass  *)
(* while every thread is blocked: what a thread does between two blocking  *)
(* calls takes no time that counts against 30 seconds.                     *)
(***************************************************************************)
EXTENDS Integers, Sequences, FiniteSets, Functions

CONSTANTS Instances,   \* the instances of the daemon
          Tasks,       \* identifiers of the tasks clients may submit
          NoRequest,   \* the server thread handles no request
          SlowAuth,    \* Polkit's user may take more than the timeout
          MayDie       \* an exception no handler catches may end a worker

ASSUME InstancesAssumption == IsFiniteSet(Instances) /\ Instances # {}
ASSUME FlagsAssumption == SlowAuth \in BOOLEAN /\ MayDie \in BOOLEAN

VARIABLES
    queue,      \* per instance, the deque of its QueueManager
    count,      \* per instance, the value of the semaphore
    worker,     \* where the worker threads are
    server,     \* where the server thread is
    request,    \* the submission it handles
    timer,      \* where the timer thread is
    toNotify,   \* instances the timer thread has still to interrupt
    registered, \* ServerTimer._workers
    expired,    \* ServerTimer.remaining is zero
    connected,  \* the daemon owns its name on the bus
    quitting,   \* the main loop of the server has been told to quit
    errored,    \* the service manager has received WATCHDOG=trigger
    exited,     \* the process has ended
    born,       \* history: identifiers ever drawn
    accepted,   \* history: tasks whose identifier a client has received
    taken       \* history: tasks a worker has taken

queueVars == <<queue, count>>
serverVars == <<server, request, connected, quitting>>
timerVars == <<timer, toNotify, errored>>
historyVars == <<born, accepted, taken>>

vars == <<queueVars, worker, serverVars, timerVars, registered, expired,
          exited, historyVars>>

WorkerLabels == {"pick", "waiting", "woken", "picked", "run", "empty", "grace",
                 "release", "unregister", "notask", "remaining", "left", "dead",
                 "killed"}
ServerLabels == {"starting", "idle", "auth", "put", "notify", "reply",
                 "stopped"}
TimerLabels == {"notask", "remaining", "watch", "wait", "blocked", "rest",
                "sleeping", "stop", "quit", "interrupt", "left"}

Requests == [instance : Instances, task : Tasks]

TypeOK ==
    /\ queue \in [Instances -> Seq(Tasks)]
    /\ count \in [Instances -> Nat]
    /\ worker \in [Instances -> WorkerLabels]
    /\ server \in ServerLabels
    /\ request \in Requests \cup {NoRequest}
    /\ timer \in TimerLabels
    /\ toNotify \subseteq Instances
    /\ registered \subseteq Instances
    /\ {expired, connected, quitting, errored, exited} \subseteq BOOLEAN
    /\ born \subseteq Tasks
    /\ accepted \subseteq born
    /\ taken \subseteq born

Init ==
    /\ queue = [i \in Instances |-> <<>>]
    /\ count = [i \in Instances |-> 0]
    /\ worker = [i \in Instances |-> "pick"]
    /\ server = "starting"
    /\ request = NoRequest
    /\ timer = "notask"
    /\ toNotify = {}
    /\ registered = {}
    /\ expired = FALSE
    /\ connected = FALSE
    /\ quitting = FALSE
    /\ errored = FALSE
    /\ exited = FALSE
    /\ born = {}
    /\ accepted = {}
    /\ taken = {}

\* A new process. Identifiers stay unique, memory is lost.
Start ==
    /\ queue' = [i \in Instances |-> <<>>]
    /\ count' = [i \in Instances |-> 0]
    /\ worker' = [i \in Instances |-> "pick"]
    /\ server' = "starting"
    /\ request' = NoRequest
    /\ timer' = "notask"
    /\ toNotify' = {}
    /\ registered' = {}
    /\ expired' = FALSE
    /\ connected' = FALSE
    /\ quitting' = FALSE
    /\ errored' = FALSE
    /\ exited' = FALSE
    /\ UNCHANGED historyVars

-----------------------------------------------------------------------------
(* The D-Bus server thread.  It handles one request at a time.             *)

ServerGoto(from, to) == server = from /\ server' = to

\* The objects are published and the service name is registered.
ServerStart ==
    /\ ServerGoto("starting", "idle")
    /\ connected' = TRUE
    /\ UNCHANGED <<queueVars, worker, request, quitting, timerVars, registered,
                   expired, exited, historyVars>>

\* Mutant: the call does not reset the timer.
Receive_NoReset(i, t) ==
    /\ connected
    /\ ServerGoto("idle", "auth")
    /\ t \notin born
    /\ born' = born \cup {t}
    /\ request' = [instance |-> i, task |-> t]
    /\ UNCHANGED <<queueVars, worker, connected, quitting, timerVars,
                   registered, expired, exited, accepted, taken>>

\* Any call resets the timer, before the authorization is asked for.
Receive(i, t) ==
    /\ connected
    /\ ServerGoto("idle", "auth")
    /\ t \notin born
    /\ born' = born \cup {t}
    /\ request' = [instance |-> i, task |-> t]
    /\ expired' = FALSE
    /\ UNCHANGED <<queueVars, worker, connected, quitting, timerVars,
                   registered, exited, accepted, taken>>

\* Polkit grants the request; the question needs the bus.
Authorize ==
    /\ connected
    /\ ServerGoto("auth", "put")
    /\ UNCHANGED <<queueVars, worker, request, connected, quitting, timerVars,
                   registered, expired, exited, historyVars>>

\* Polkit refuses, or the connection is closed under the question.
Refuse ==
    /\ ServerGoto("auth", "idle")
    /\ request' = NoRequest
    /\ UNCHANGED <<queueVars, worker, connected, quitting, timerVars,
                   registered, expired, exited, historyVars>>

PutAppend ==
    /\ ServerGoto("put", "notify")
    /\ queue' = [queue EXCEPT ![request.instance] = Append(@, request.task)]
    /\ UNCHANGED <<count, worker, request, connected, quitting, timerVars,
                   registered, expired, exited, historyVars>>

PutRelease ==
    /\ ServerGoto("notify", "reply")
    /\ count' = [count EXCEPT ![request.instance] = @ + 1]
    /\ worker' = [worker EXCEPT ![request.instance] =
                     IF @ = "waiting" THEN "woken" ELSE @]
    /\ UNCHANGED <<queue, request, connected, quitting, timerVars, registered,
                   expired, exited, historyVars>>

\* The identifier of the task is returned, if there still is a connection.
Reply ==
    /\ ServerGoto("reply", "idle")
    /\ accepted' = IF connected THEN accepted \cup {request.task} ELSE accepted
    /\ request' = NoRequest
    /\ UNCHANGED <<queueVars, worker, connected, quitting, timerVars,
                   registered, expired, exited, born, taken>>

\* The loop quits once the handler it is in has returned.
ServerStop ==
    /\ quitting
    /\ ServerGoto("idle", "stopped")
    /\ UNCHANGED <<queueVars, worker, request, connected, quitting, timerVars,
                   registered, expired, exited, historyVars>>

-----------------------------------------------------------------------------
(* A worker thread.                                                        *)

WorkerGoto(i, from, to) ==
    /\ worker[i] = from
    /\ worker' = [worker EXCEPT ![i] = to]

PickTask(i) ==
    /\ count[i] > 0
    /\ WorkerGoto(i, "pick", "picked")
    /\ count' = [count EXCEPT ![i] = @ - 1]
    /\ taken' = taken \cup {Head(queue[i])}
    /\ queue' = [queue EXCEPT ![i] = Tail(@)]
    /\ UNCHANGED <<serverVars, timerVars, registered, expired, exited, born,
                   accepted>>

\* Mutant: the semaphore counts the thread that waits.
PickWait_Counts(i) ==
    /\ count[i] = 0
    /\ WorkerGoto(i, "pick", "waiting")
    /\ count' = [count EXCEPT ![i] = @ - 1]
    /\ UNCHANGED <<queue, serverVars, timerVars, registered, expired, exited,
                   historyVars>>

PickWait(i) ==
    /\ count[i] = 0
    /\ WorkerGoto(i, "pick", "waiting")
    /\ UNCHANGED <<queueVars, serverVars, timerVars, registered, expired,
                   exited, historyVars>>

\* Mutant: pick waits without a timeout.
PickTimeout_Never(i) == FALSE /\ WorkerGoto(i, "waiting", "waiting")

PickTimeout(i) ==
    /\ WorkerGoto(i, "waiting", "woken")
    /\ UNCHANGED <<queueVars, serverVars, timerVars, registered, expired,
                   exited, historyVars>>

\* pick returns None after a wait, whatever ended it.
PickNothing(i) ==
    /\ WorkerGoto(i, "woken", "empty")
    /\ UNCHANGED <<queueVars, serverVars, timerVars, registered, expired,
                   exited, historyVars>>

Register(i) ==
    /\ WorkerGoto(i, "picked", "run")
    /\ registered' = registered \cup {i}
    /\ UNCHANGED <<queueVars, serverVars, timerVars, expired, exited,
                   historyVars>>

\* Mutant: the loop continues with the next pick.
RunEnds_Continue(i) ==
    /\ WorkerGoto(i, "run", "pick")
    /\ UNCHANGED <<queueVars, serverVars, timerVars, registered, expired,
                   exited, historyVars>>

\* The task ends, in whatever way the loop of the worker survives.
RunEnds(i) ==
    /\ WorkerGoto(i, "run", "empty")
    /\ UNCHANGED <<queueVars, serverVars, timerVars, registered, expired,
                   exited, historyVars>>

\* The thread ends while it is registered.
RunDies(i) ==
    /\ MayDie
    /\ WorkerGoto(i, "run", "dead")
    /\ UNCHANGED <<queueVars, serverVars, timerVars, registered, expired,
                   exited, historyVars>>

\* First test of the queue: sleep for the grace time if it is empty.
TestEmpty(i) ==
    /\ WorkerGoto(i, "empty", IF queue[i] = <<>> THEN "grace" ELSE "release")
    /\ UNCHANGED <<queueVars, serverVars, timerVars, registered, expired,
                   exited, historyVars>>

GraceEnds(i) ==
    /\ WorkerGoto(i, "grace", "release")
    /\ UNCHANGED <<queueVars, serverVars, timerVars, registered, expired,
                   exited, historyVars>>

\* Second test: release the timer if the queue is (still) empty.
TestRelease(i) ==
    /\ WorkerGoto(i, "release",
                  IF queue[i] = <<>> THEN "unregister" ELSE "notask")
    /\ UNCHANGED <<queueVars, serverVars, timerVars, registered, expired,
                   exited, historyVars>>

\* The timer thread is notified if it waits for the last worker.
Unregister(i) ==
    /\ WorkerGoto(i, "unregister", "notask")
    /\ registered' = registered \ {i}
    /\ timer' = IF registered' = {} /\ timer = "blocked" THEN "rest"
                ELSE timer
    /\ UNCHANGED <<queueVars, serverVars, toNotify, errored, expired, exited,
                   historyVars>>

\* timer.over: first notask, then, if it holds, remaining == 0.
WorkerNotask(i) ==
    /\ WorkerGoto(i, "notask", IF registered = {} THEN "remaining" ELSE "pick")
    /\ UNCHANGED <<queueVars, serverVars, timerVars, registered, expired,
                   exited, historyVars>>

WorkerRemaining(i) ==
    /\ WorkerGoto(i, "remaining", IF expired THEN "left" ELSE "pick")
    /\ UNCHANGED <<queueVars, serverVars, timerVars, registered, expired,
                   exited, historyVars>>

WorkerStep(i) ==
    \/ PickTask(i) \/ PickWait(i) \/ PickTimeout(i) \/ PickNothing(i)
    \/ Register(i) \/ RunEnds(i) \/ RunDies(i)
    \/ TestEmpty(i) \/ GraceEnds(i) \/ TestRelease(i) \/ Unregister(i)
    \/ WorkerNotask(i) \/ WorkerRemaining(i)

-----------------------------------------------------------------------------
(* The timer thread.                                                       *)

TimerGoto(from, to) == timer = from /\ timer' = to

\* Mutant: the timer is over as soon as no time remains.
TimerNotask_Skipped ==
    /\ TimerGoto("notask", "remaining")
    /\ UNCHANGED <<queueVars, worker, serverVars, toNotify, errored,
                   registered, expired, exited, historyVars>>

\* The condition of its loop is the same pair of reads.
TimerNotask ==
    /\ TimerGoto("notask", IF registered = {} THEN "remaining" ELSE "watch")
    /\ UNCHANGED <<queueVars, worker, serverVars, toNotify, errored,
                   registered, expired, exited, historyVars>>

TimerRemaining ==
    /\ TimerGoto("remaining", IF expired THEN "stop" ELSE "watch")
    /\ UNCHANGED <<queueVars, worker, serverVars, toNotify, errored,
                   registered, expired, exited, historyVars>>

\* Mutant: a registered worker is taken for alive.
TimerWatch_Unregistered ==
    /\ TimerGoto("watch", "wait")
    /\ errored' = (errored \/ \E i \in Instances \ registered :
                                 worker[i] \in {"left", "dead"})
    /\ UNCHANGED <<queueVars, worker, serverVars, toNotify, registered,
                   expired, exited, historyVars>>

\* A worker thread that is not alive, for whatever reason, is an error.
TimerWatch ==
    /\ TimerGoto("watch", "wait")
    /\ errored' =
           (errored \/ \E i \in Instances : worker[i] \in {"left", "dead"})
    /\ UNCHANGED <<queueVars, worker, serverVars, toNotify, registered,
                   expired, exited, historyVars>>

\* waitnotask returns at once, or waits for up to 10 seconds.
TimerWait ==
    /\ TimerGoto("wait", IF registered = {} THEN "rest" ELSE "blocked")
    /\ UNCHANGED <<queueVars, worker, serverVars, toNotify, errored,
                   registered, expired, exited, historyVars>>

TimerWaitTimeout ==
    /\ TimerGoto("blocked", "notask")
    /\ UNCHANGED <<queueVars, worker, serverVars, toNotify, errored,
                   registered, expired, exited, historyVars>>

\* Sleep for the time that remains now, if any: a reset does not prolong it.
TimerRest ==
    /\ TimerGoto("rest", IF expired THEN "notask" ELSE "sleeping")
    /\ UNCHANGED <<queueVars, worker, serverVars, toNotify, errored,
                   registered, expired, exited, historyVars>>

TimerWakes ==
    /\ TimerGoto("sleeping", "notask")
    /\ UNCHANGED <<queueVars, worker, serverVars, toNotify, errored,
                   registered, expired, exited, historyVars>>

\* server.quit leaves the bus first ...
TimerDisconnect ==
    /\ TimerGoto("stop", "quit")
    /\ connected' = FALSE
    /\ UNCHANGED <<queueVars, worker, server, request, quitting, toNotify,
                   errored, registered, expired, exited, historyVars>>

\* ... and then tells the main loop to quit.
TimerQuit ==
    /\ TimerGoto("quit", "interrupt")
    /\ quitting' = TRUE
    /\ toNotify' = Instances
    /\ UNCHANGED <<queueVars, worker, server, request, connected, errored,
                   registered, expired, exited, historyVars>>

\* The interrupt is lost on a worker that is not waiting.
TimerInterrupt(i) ==
    /\ timer = "interrupt"
    /\ i \in toNotify
    /\ toNotify' = toNotify \ {i}
    /\ worker' = [worker EXCEPT ![i] = IF @ = "waiting" THEN "woken" ELSE @]
    /\ UNCHANGED <<queueVars, serverVars, timer, errored, registered, expired,
                   exited, historyVars>>

TimerLeave ==
    /\ toNotify = {}
    /\ TimerGoto("interrupt", "left")
    /\ UNCHANGED <<queueVars, worker, serverVars, toNotify, errored,
                   registered, expired, exited, historyVars>>

TimerStep ==
    \/ TimerNotask \/ TimerRemaining \/ TimerWatch \/ TimerWait
    \/ TimerWaitTimeout \/ TimerRest \/ TimerWakes
    \/ TimerDisconnect \/ TimerQuit
    \/ \E i \in Instances : TimerInterrupt(i)
    \/ TimerLeave

-----------------------------------------------------------------------------
(* Time, and the process.                                                  *)

(***************************************************************************)
(* Every thread is in a call that may block for long.  The grace time is 3 *)
(* seconds: a task put during it had its call, and its reset, shortly      *)
(* before, unless its authorization was slow.                              *)
(***************************************************************************)
Quiet ==
    /\ \A i \in Instances :
          \/ worker[i] \in {"waiting", "run", "left", "dead"}
          \/ worker[i] = "grace" /\ (SlowAuth \/ queue[i] = <<>>)
    /\ server \in {"idle", "stopped"} \cup (IF SlowAuth THEN {"auth"} ELSE {})
    /\ timer \in {"blocked", "sleeping", "left"}

\* 30 seconds have passed since the last reset.
Expire ==
    /\ ~expired
    /\ Quiet
    /\ expired' = TRUE
    /\ UNCHANGED <<queueVars, worker, serverVars, timerVars, registered,
                   exited, historyVars>>

\* The main thread has joined all the others.
Exit ==
    /\ ~exited
    /\ \A i \in Instances : worker[i] \in {"left", "dead"}
    /\ server = "stopped"
    /\ timer = "left"
    /\ exited' = TRUE
    /\ UNCHANGED <<queueVars, worker, serverVars, timerVars, registered,
                   expired, historyVars>>

\* D-Bus activation: a client has something to ask and no daemon runs.
Activate ==
    /\ exited
    /\ born # Tasks
    /\ Start

\* The service manager aborts the process that reported an error and starts
\* another (WatchdogSec and Restart=on-failure of fatbuildrd.service).
Restart ==
    /\ errored
    /\ ~exited
    /\ Start

\* The service manager has been told that the service is stopping: when that
\* takes too long it kills the process.
StopTimeout ==
    /\ timer \in {"stop", "quit", "interrupt", "left"}
    /\ ~exited
    /\ exited' = TRUE
    /\ worker' = [i \in Instances |-> "killed"]
    /\ server' = "stopped"
    /\ timer' = "left"
    /\ connected' = FALSE
    /\ request' = NoRequest
    /\ UNCHANGED <<queueVars, quitting, toNotify, errored, registered,
                   expired, historyVars>>

-----------------------------------------------------------------------------

ServerStep ==
    ServerStart \/ Authorize \/ PutAppend \/ PutRelease \/ Reply \/ ServerStop

Submission == \E i \in Instances, t \in Tasks : Receive(i, t)

\* Everything has ended and no client has a request left.
Rest == exited /\ born = Tasks /\ UNCHANGED vars

Next ==
    \/ Submission \/ Refuse \/ ServerStep
    \/ \E i \in Instances : WorkerStep(i)
    \/ TimerStep
    \/ Expire \/ Exit \/ Activate \/ Restart \/ StopTimeout
    \/ Rest

Spec == Init /\ [][Next]_vars

(***************************************************************************)
(* Every thread that can move does, a wait with a timeout ends, tasks end, *)
(* Polkit answers, and the service manager restarts what reported an       *)
(* error.  Expire is only possible while all threads are blocked.  That is *)
(* so most of the time, but not for ever: it happens again and again, and  *)
(* fairness of time is strong.  No client has to ask for anything.         *)
(***************************************************************************)
FairSpec ==
    /\ Spec
    /\ WF_vars(ServerStep \/ Refuse)
    /\ \A i \in Instances : WF_vars(WorkerStep(i))
    /\ WF_vars(TimerStep)
    /\ []<>Quiet
    /\ SF_vars(Expire)
    /\ WF_vars(Exit)
    /\ WF_vars(Restart)

\* The same with a service manager that kills what does not stop.
ManagedSpec == FairSpec /\ WF_vars(StopTimeout)

-----------------------------------------------------------------------------
(* Properties.                                                             *)

(***************************************************************************)
(* A registered worker holds the daemon: when it has nothing to do it must *)
(* have released the timer before it waits for work, or the daemon would   *)
(* never stop.  It only waits registered for the instant between the       *)
(* append and the semaphore release of a submission, which its emptiness   *)
(* tests see and its pick does not (fatbuildrd.py:129-151).                *)
(***************************************************************************)
IdleWorkerReleasesTimer ==
    \A i \in Instances : worker[i] = "waiting" /\ i \in registered =>
        server = "notify" /\ request.instance = i

(***************************************************************************)
(* When the timer thread finds the timer over, by two separate reads, no   *)
(* worker runs a task and none that is still there has an accepted task    *)
(* queued: nothing else keeps the server thread from being stopped under   *)
(* the clients of a running task (timer.py:46-53, fatbuildrd.py:130-132,   *)
(* 169).  LeavesSafely is about the workers that are not there any more.   *)
(***************************************************************************)
OverMeansIdle ==
    [][timer = "remaining" /\ timer' = "stop" =>
         \A i \in Instances :
            /\ worker[i] \notin {"picked", "run"}
            /\ worker[i] # "left" => Range(queue[i]) \cap accepted = {}]_vars

(***************************************************************************)
(* "Stopping worker thread for instance {instance.id} as timer is over and *)
(* task queue is empty" (fatbuildrd.py:152-155).  It holds when            *)
(* authorizations are answered in less than the timeout.                   *)
(***************************************************************************)
LeavesWithEmptyQueue ==
    [][\A i \in Instances :
         worker[i] # "left" /\ worker'[i] = "left" => queue[i] = <<>>]_vars

(***************************************************************************)
(* "If the queue is still empty after these extra seconds, we can consider *)
(* the worker can release the timer and leave safely"                      *)
(* (fatbuildrd.py:139-141): a client never gets the identifier of a task   *)
(* whose worker has left.  The code breaks it: the worker may leave while  *)
(* the bus is still connected.                                             *)
(***************************************************************************)
LeavesSafely ==
    \A i \in Instances :
        worker[i] = "left" => Range(queue[i]) \cap accepted = {}

(***************************************************************************)
(* The daemon stops after some time of inactivity (features.adoc:154-155): *)
(* when clients ask for nothing more all the threads end by themselves,    *)
(* with every interrupt that misses its worker, every reset and every task *)
(* put late on the way.  Stated for workers no exception ends.             *)
(***************************************************************************)
DaemonStops == <>[](born = Tasks) => <>[]exited

(***************************************************************************)
(* The watchdog detects an internal failure and the service is restarted   *)
(* (features.adoc:155-157): a worker thread ended by an exception keeps    *)
(* its registration, so that the timer thread stays to find it dead; when  *)
(* that thread has already left, the stop timeout ends the process         *)
(* (fatbuildrd.py:169-184, 190).                                           *)
(***************************************************************************)
DeadWorkerIsReplaced ==
    \A i \in Instances : worker[i] = "dead" ~> exited \/ worker[i] = "pick"
=============================================================================
