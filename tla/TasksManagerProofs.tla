------------------------- MODULE TasksManagerProofs -------------------------
(***************************************************************************)
(* The tasks manager of an instance, for any set of tasks, any outcomes of *)
(* a run and any number of crashes: the invariants of TasksManager, its    *)
(* action property, the refinement of TaskLedger and the promise of        *)
(* TaskLookup.                                                             *)
(*                                                                         *)
(* None of the invariants is inductive alone.  The argument is that an     *)
(* identifier is drawn once (OnceInv), so that a task that has left the    *)
(* queue never comes back; that the workspace of a task tells how far it   *)
(* has got (PlaceInv); and that the worker always moves a task to the next *)
(* place before it takes it from the last one, so that a reader that goes  *)
(* from the queue to running to the history meets it somewhere (ScanInv,   *)
(* ViewsInv, LookupInv).                                                   *)
(***************************************************************************)
EXTENDS TaskLookup, SequenceTheorems, TLAPS

-----------------------------------------------------------------------------
(***************************************************************************)
(* The queue, for any set of tasks and any number of submissions.          *)
(*                                                                         *)
(* SemaphoreCountsQueue is not inductive alone.  Two facts are needed      *)
(* beside the types: a thread that waits has found the semaphore at zero   *)
(* and nothing has raised it since without waking it, and the lock is held *)
(* exactly where get has taken it and release has not been called.         *)
(***************************************************************************)

\* A release of the semaphore wakes the thread that waits, so that it never
\* waits on a value it could take (manager.py:38-46).
WaitsAtZero == getter = "waiting" => count = 0

IInv ==
    /\ QueueTypeOK
    /\ SemaphoreCountsQueue
    /\ LockHeldByGetter
    /\ WaitsAtZero
    /\ FirstInFirstOut

-----------------------------------------------------------------------------

\* Appending to the end of a concatenation appends to its second part, as a
\* put appends to the deque (manager.py:63).
LEMMA AppendToConcat ==
    ASSUME NEW s \in Seq(Tasks), NEW u \in Seq(Tasks), NEW e \in Tasks
    PROVE  Append(s \o u, e) = s \o Append(u, e)
<1>1. /\ <<e>> \in Seq(Tasks)
      /\ s \o u \in Seq(Tasks)
    BY ConcatProperties
<1>2. /\ Append(u, e) = u \o <<e>>
      /\ Append(s \o u, e) = (s \o u) \o <<e>>
    BY <1>1, AppendIsConcat
<1> QED
    BY <1>1, <1>2, ConcatAssociative

\* Moving the first element of a sequence to the end of the one before it
\* leaves their concatenation, as a popleft does (manager.py:69).
LEMMA MoveHead ==
    ASSUME NEW s \in Seq(Tasks), NEW u \in Seq(Tasks), u # <<>>
    PROVE  Append(s, Head(u)) \o Tail(u) = s \o u
<1>1. /\ Head(u) \in Tasks
      /\ Tail(u) \in Seq(Tasks)
      /\ u = <<Head(u)>> \o Tail(u)
    BY HeadTailProperties, HeadTailAppend
<1>2. Append(s, Head(u)) = s \o <<Head(u)>>
    BY <1>1, AppendIsConcat
<1> QED
    BY <1>1, <1>2, ConcatAssociative
-----------------------------------------------------------------------------

LEMMA InitIInv == QueueInit => IInv
<1> SUFFICES ASSUME QueueInit
             PROVE  IInv
  OBVIOUS
<1>1. <<>> \in Seq(Tasks) /\ Len(<<>>) = 0
  BY EmptySeq
<1>2. FirstInFirstOut
  BY <1>1, ConcatEmptySeq DEF QueueInit, FirstInFirstOut
<1>3. QueueTypeOK
  BY <1>1 DEF QueueInit, QueueTypeOK, PutterState, GetterState
<1> QED
  BY <1>1, <1>2, <1>3
     DEF QueueInit, IInv, SemaphoreCountsQueue, Granted, Unreleased,
         LockHeldByGetter, WaitsAtZero

\* Every step keeps the invariant.  Only put and the popleft change the
\* sequences; the others move the count, the lock and the two threads.
LEMMA NextIInv == IInv /\ [QueueNext]_queueVars => IInv'
<1> SUFFICES ASSUME IInv, [QueueNext]_queueVars
             PROVE  IInv'
  OBVIOUS
<1> USE DEF IInv, QueueTypeOK, PutterState, GetterState
<1>1. ASSUME NEW t \in Tasks, PutAppend(t)
      PROVE  IInv'
  <2>1. /\ Append(queue, t) \in Seq(Tasks)
        /\ Len(Append(queue, t)) = Len(queue) + 1
    BY AppendProperties
  <2>2. Append(submitted, t) \in Seq(Tasks)
    BY AppendProperties
  <2>3. QueueTypeOK'
    BY <1>1, <2>1, <2>2 DEF PutAppend
  <2>4. SemaphoreCountsQueue'
    BY <1>1, <2>1 DEF PutAppend, SemaphoreCountsQueue, Granted, Unreleased
  <2>5. FirstInFirstOut'
    <3>1. taken \in Seq(Tasks) /\ queue \in Seq(Tasks)
      OBVIOUS
    <3>2. Append(taken \o queue, t) = taken \o Append(queue, t)
      BY ONLY <3>1, t \in Tasks, AppendToConcat, Zenon
    <3> QED
      BY <1>1, <3>2, Zenon DEF PutAppend, FirstInFirstOut
  <2> QED
    BY <1>1, <2>3, <2>4, <2>5 DEF PutAppend, LockHeldByGetter, WaitsAtZero
<1>2. ASSUME GetPop
      PROVE  IInv'
  <2>1. /\ Head(queue) \in Tasks
        /\ Tail(queue) \in Seq(Tasks)
        /\ Len(Tail(queue)) = Len(queue) - 1
    BY <1>2, HeadTailProperties DEF GetPop
  <2>2. Append(taken, Head(queue)) \in Seq(Tasks)
    BY <2>1, AppendProperties
  <2>3. QueueTypeOK'
    BY <1>2, <2>1, <2>2 DEF GetPop
  <2>4. SemaphoreCountsQueue'
    BY <1>2, <2>1 DEF GetPop, SemaphoreCountsQueue, Granted, Unreleased
  <2>5. FirstInFirstOut'
    BY <1>2, MoveHead DEF GetPop, FirstInFirstOut
  <2> QED
    BY <1>2, <2>3, <2>4, <2>5 DEF GetPop, LockHeldByGetter, WaitsAtZero
<1>3. CASE PutRelease
  BY <1>3 DEF PutRelease, SemaphoreCountsQueue, Granted, Unreleased,
              LockHeldByGetter, WaitsAtZero, FirstInFirstOut
<1>4. CASE AcquireTake
  BY <1>4 DEF AcquireTake, SemaphoreCountsQueue, Granted, Unreleased,
              LockHeldByGetter, WaitsAtZero, FirstInFirstOut
<1>5. CASE AcquireWait
  BY <1>5 DEF AcquireWait, SemaphoreCountsQueue, Granted, Unreleased,
              LockHeldByGetter, WaitsAtZero, FirstInFirstOut
<1>6. CASE AcquireTimeout
  BY <1>6 DEF AcquireTimeout, SemaphoreCountsQueue, Granted, Unreleased,
              LockHeldByGetter, WaitsAtZero, FirstInFirstOut
<1>7. CASE GetNothing
  BY <1>7 DEF GetNothing, SemaphoreCountsQueue, Granted, Unreleased,
              LockHeldByGetter, WaitsAtZero, FirstInFirstOut
<1>8. CASE GetLock
  BY <1>8 DEF GetLock, SemaphoreCountsQueue, Granted, Unreleased,
              LockHeldByGetter, WaitsAtZero, FirstInFirstOut
<1>9. CASE Release
  BY <1>9 DEF Release, SemaphoreCountsQueue, Granted, Unreleased,
              LockHeldByGetter, WaitsAtZero, FirstInFirstOut
<1>10. CASE InterruptGet
  BY <1>10 DEF InterruptGet, SemaphoreCountsQueue, Granted, Unreleased,
               LockHeldByGetter, WaitsAtZero, FirstInFirstOut
<1>11. CASE UNCHANGED queueVars
  BY <1>11 DEF queueVars, SemaphoreCountsQueue, Granted, Unreleased,
               LockHeldByGetter, WaitsAtZero, FirstInFirstOut
<1> QED
  BY <1>1, <1>2, <1>3, <1>4, <1>5, <1>6, <1>7, <1>8, <1>9, <1>10, <1>11
     DEF QueueNext

\* The invariant holds in every state of the queue.
LEMMA QueueInvariant == QueueSpec => []IInv
  BY InitIInv, NextIInv, PTL DEF QueueSpec

-----------------------------------------------------------------------------
(* The theorems.                                                           *)

(***************************************************************************)
(* Every variable of the queue keeps its type; in particular the value of  *)
(* the semaphore never falls below zero (manager.py:38-46).                *)
(***************************************************************************)
THEOREM QueueTypes == QueueSpec => []QueueTypeOK
  BY QueueInvariant, PTL DEF IInv

(***************************************************************************)
(* The semaphore counts the elements of the deque at every step of put and *)
(* get, for any number of submissions (manager.py:62-70).                  *)
(***************************************************************************)
THEOREM SemaphoreMatches == QueueSpec => []SemaphoreCountsQueue
  BY QueueInvariant, PTL DEF IInv

(***************************************************************************)
(* What clients submit is what the worker gets, in the same order, with    *)
(* nothing lost and nothing added (manager.py:62-70).                      *)
(***************************************************************************)
THEOREM Fifo == QueueSpec => []FirstInFirstOut
  BY QueueInvariant, PTL DEF IInv

\* The popleft of get never raises IndexError with the lock held
\* (manager.py:66-70): one more element is in the deque than the count says.
THEOREM PopIsSafe == QueueSpec => []PopFindsElement
<1>1. IInv => PopFindsElement
  BY EmptySeq
     DEF IInv, QueueTypeOK, SemaphoreCountsQueue, Granted, Unreleased,
         PopFindsElement
<1> QED
  BY <1>1, QueueInvariant, PTL

\* No wakeup is lost: a worker sleeps only when the deque is empty or its last
\* element is about to be announced by its put (manager.py:38-46, 62-64).
THEOREM NoLostWakeup == QueueSpec => []NoSleepOnWork
<1>1. ASSUME NEW s \in Seq(Tasks), Len(s) = 0
      PROVE  s = <<>>
  BY <1>1
<1>2. IInv => NoSleepOnWork
  BY <1>1
     DEF IInv, QueueTypeOK, SemaphoreCountsQueue, Granted, Unreleased,
         WaitsAtZero, NoSleepOnWork
<1> QED
  BY <1>2, QueueInvariant, PTL

-----------------------------------------------------------------------------
(* The inductive invariant.                                                *)

Stopped == pc["server"] \in {"down", "clear"}

\* The threads and the queue agree: get is only called in the loop, the lock
\* is kept up to PickRelease, and a daemon that starts has nothing to do.
ThreadsInv ==
    /\ getter # "out" => pc["worker"] \in {"loop", "picked"}
    /\ getter = "holding" => popped \in Tasks
    /\ pc["worker"] = "picked" => getter = "holding" /\ popped = task
    /\ pc["worker"] \in Busy => task \in Tasks /\ running = task
    /\ Stopped => /\ pc["worker"] = pc["server"]
                  /\ queue = <<>>
                  /\ running = None

\* Accepted tasks whose workspace prerun has still to create.
Fresh ==
    Range(queue) \cup
    (IF pc["worker"] \in {"loop", "picked", "prerun"}
     THEN {Active} \ {None} ELSE {})

Distinct(s) == \A i, j \in DOMAIN s : s[i] = s[j] => i = j

\* An identifier drawn once is queued once, taken once, and gone for good.
OnceInv ==
    /\ Distinct(queue)
    /\ Active \notin Range(queue)
    /\ running \notin Range(queue)
    /\ Unfinished \cup ({running} \ {None}) \subseteq born
    /\ Range(submitted) \subseteq born

\* The workspace tells how far a task has got.
PlaceInv ==
    /\ \A t \in Tasks \ born : place[t] = "absent"
    /\ \A t \in Fresh : place[t] = "absent"
    /\ pc["worker"] \in Busy \ {"picked", "prerun", "terminated"}
         => place[task] = "workspace"
    /\ running # None /\ running # Active => place[running] # "archived"

\* A scan never has a task to visit that is still to be run, and what it took
\* from fullqueue covers every task that is not finished.
ScanInv ==
    /\ pc["server"] = "fullqueue" =>
         Unfinished \subseteq Range(snap["server"]) \cup {running}
    /\ pc["server"] = "list" => Unfinished \subseteq Range(snap["server"])
    /\ pc["worker"] = "list" => task \in Range(snap["worker"])
    /\ \A p \in Threads : pc[p] = "visit" =>
         /\ todo[p] \subseteq born \ Fresh
         /\ \A t \in todo[p] : place[t] = "workspace" => t \notin Unfinished

\* What fullqueue will answer, and the views it has lived through.  The dump is
\* the queue until the next popleft; when running is set after it, what the
\* server sees is the dump itself, and from then on running is in the dump.
Answer ==
    IF running = None \/ running \in Range(snap["server"])
    THEN snap["server"] ELSE <<running>> \o snap["server"]

ViewsInv ==
    InFullqueue =>
        /\ snap["server"] \in Seq(Tasks)
        /\ \/ /\ queue = snap["server"]
              /\ getter # "holding"
              /\ Answer \in views
           \/ /\ <<popped>> \o queue = snap["server"]
              /\ getter = "holding"
              /\ pc["worker"] = "loop"
              /\ running \notin Range(snap["server"])
              /\ Answer \in views
           \/ /\ Range(queue) \subseteq Range(snap["server"])
              /\ getter = "holding" => popped \in Range(snap["server"])
              /\ running = None \/ running \in Range(snap["server"])
              /\ snap["server"] \in views

ManagerInv ==
    /\ TypeOK
    /\ IInv
    /\ ThreadsInv
    /\ OnceInv
    /\ PlaceInv
    /\ ScanInv
    /\ ViewsInv

\* A client that looks for a task: it was submitted and has left the queue
\* before the first answer; after the second it is not running either.  Its
\* task.yml, if there is one, is in the answer that is being made.
LookupInv ==
    /\ stage \in {"idle", "running", "history", "scan", "seen", "lost"}
    /\ stage # "idle" =>
         /\ looking \in Tasks
         /\ looking \in born \ Range(queue)
         /\ pc["worker"] = "loop" => looking # Active
    /\ stage \in {"history", "scan", "seen", "lost"}
         => looking \notin Unfinished
    /\ stage = "scan" =>
         /\ pc["server"] \in {"fullqueue", "list", "visit"}
         /\ place[looking] = "archived" =>
              /\ pc["server"] # "visit" => looking \notin Range(snap["server"])
              /\ pc["server"] = "visit" => looking \in todo["server"]
    /\ stage = "lost" => place[looking] # "archived"


-----------------------------------------------------------------------------
(* Sequences of tasks.                                                     *)

\* What a put does to the set of queued tasks (manager.py:62-64).
LEMMA RangeAppend ==
    ASSUME NEW s \in Seq(Tasks), NEW t \in Tasks
    PROVE  Range(Append(s, t)) = Range(s) \cup {t}
<1> DEFINE u == Append(s, t)
<1>1. /\ DOMAIN s = 1 .. Len(s)
      /\ DOMAIN u = 1 .. Len(s) + 1
      /\ \A i \in 1 .. Len(s) : u[i] = s[i]
      /\ u[Len(s) + 1] = t
  BY AppendProperties
<1> HIDE DEF u
<1>2. /\ \A i \in DOMAIN u : i \in DOMAIN s \/ i = Len(s) + 1
      /\ \A i \in DOMAIN s : i \in DOMAIN u /\ u[i] = s[i]
      /\ Len(s) + 1 \in DOMAIN u
  BY <1>1, LenProperties
<1>3. {u[i] : i \in DOMAIN u} = {s[i] : i \in DOMAIN s} \cup {t}
  BY <1>1, <1>2
<1> QED
  BY <1>3 DEF Range, u

\* What fullqueue does to the dump (manager.py:105-118).
LEMMA RangeCons ==
    ASSUME NEW s \in Seq(Tasks), NEW t \in Tasks
    PROVE  /\ <<t>> \o s \in Seq(Tasks)
           /\ Range(<<t>> \o s) = {t} \cup Range(s)
<1> DEFINE u == <<t>> \o s
<1>1. /\ u \in Seq(Tasks)
      /\ Len(u) = Len(s) + 1
      /\ u[1] = t
      /\ \A i \in 1 .. Len(s) : u[i + 1] = s[i]
  OBVIOUS
<1>2. DOMAIN u = 1 .. Len(s) + 1 /\ DOMAIN s = 1 .. Len(s)
  BY <1>1, LenProperties
<1> HIDE DEF u
<1>3. \A i \in DOMAIN u : u[i] \in {t} \cup {s[j] : j \in DOMAIN s}
  <2> SUFFICES ASSUME NEW i \in DOMAIN u, i # 1
               PROVE  u[i] \in {s[j] : j \in DOMAIN s}
    BY <1>1
  <2>1. i - 1 \in 1 .. Len(s) /\ (i - 1) + 1 = i
    BY <1>2, LenProperties
  <2> QED
    BY <1>1, <1>2, <2>1
<1>4. \A j \in DOMAIN s : j + 1 \in DOMAIN u /\ u[j + 1] = s[j]
  BY <1>1, <1>2, LenProperties
<1>5. 1 \in DOMAIN u
  BY <1>2, LenProperties
<1>6. {u[i] : i \in DOMAIN u} = {t} \cup {s[j] : j \in DOMAIN s}
  BY <1>1, <1>3, <1>4, <1>5
<1> QED
  BY <1>1, <1>6 DEF Range, u

\* An empty deque has no tasks.
LEMMA RangeEmpty == Range(<<>>) = {}
  BY DEF Range

\* A deque of tasks has only tasks.
LEMMA RangeTyped ==
    ASSUME NEW s \in Seq(Tasks)
    PROVE  Range(s) \subseteq Tasks
  BY DEF Range

\* What a popleft does to the set of queued tasks (manager.py:66-70).
LEMMA RangePop ==
    ASSUME NEW s \in Seq(Tasks), s # <<>>
    PROVE  /\ Head(s) \in Tasks
           /\ Tail(s) \in Seq(Tasks)
           /\ Range(s) = {Head(s)} \cup Range(Tail(s))
           /\ <<Head(s)>> \o Tail(s) = s
<1>1. /\ Head(s) \in Tasks
      /\ Tail(s) \in Seq(Tasks)
      /\ <<Head(s)>> \o Tail(s) = s
  BY HeadTailProperties, HeadTailAppend
<1> QED
  BY <1>1, RangeCons

\* A put of a new identifier keeps the deque free of duplicates.
LEMMA DistinctAppend ==
    ASSUME NEW s \in Seq(Tasks), NEW t \in Tasks, Distinct(s),
           t \notin Range(s)
    PROVE  Distinct(Append(s, t))
  BY DEF Distinct, Range

\* What a popleft takes from such a deque is not in the rest of it.
LEMMA DistinctPop ==
    ASSUME NEW s \in Seq(Tasks), s # <<>>, Distinct(s)
    PROVE  Distinct(Tail(s)) /\ Head(s) \notin Range(Tail(s))
  BY DEF Distinct, Range

-----------------------------------------------------------------------------
(* The steps.                                                              *)

PickPop ==
    /\ pc["worker"] = "loop"
    /\ GetPop
    /\ UNCHANGED <<pc, task, running, saveVars, diskVars, scanVars, cleanup,
                   histVars>>

PickMinor ==
    /\ pc["worker"] = "loop"
    /\ AcquireTake \/ AcquireWait \/ GetNothing \/ GetLock
    /\ UNCHANGED <<pc, task, running, saveVars, diskVars, scanVars, cleanup,
                   histVars>>

\* Steps that move no task and take no part in a scan.
MinorStep ==
    \/ SubmitRelease
    \/ \E p \in Threads : Save(p)
    \/ PickMinor
    \/ PickInterrupted
    \/ Boot
    \/ ClearSave

\* Every step is one of these: the case distinction of the proofs below.
LEMMA StepCases ==
    ASSUME Step
    PROVE  \/ MinorStep
           \/ \E t \in Tasks : SubmitAppend(t)
           \/ PickPop
           \/ PickRunning
           \/ PickRelease
           \/ Prerun
           \/ \E outcome \in Outcomes : RunEnds(outcome)
           \/ Terminate
           \/ ResetRunning
           \/ PurgePolicy
           \/ \E p \in Threads : FullqueueDump(p)
           \/ \E p \in Threads : FullqueueRunning(p)
           \/ \E p \in Threads : HistoryList(p)
           \/ \E p \in Threads, t \in Tasks : HistoryVisit(p, t)
           \/ \E p \in Threads : HistoryDone(p)
           \/ ClearWorkspace
           \/ Crash
<1>1. PickGet => PickPop \/ PickMinor
  BY Zenon DEF PickGet, PickPop, PickMinor
<1> HIDE DEF PickPop, PickMinor
<1>2. "server" \in Threads /\ "worker" \in Threads
  BY DEF Threads
<1>3. CASE ServerRequest
  BY <1>2, <1>3, Zenon DEF ServerRequest
<1>4. CASE ServerStep
  BY <1>2, <1>4, Zenon DEF ServerStep, History, MinorStep
<1>5. CASE WorkerStep
  BY <1>1, <1>2, <1>5, Zenon DEF WorkerStep, Fullqueue, History, MinorStep
<1>6. CASE PickInterrupted \/ DaemonStart \/ Crash
  BY <1>6, Zenon DEF DaemonStart, MinorStep
<1> QED
  BY <1>3, <1>4, <1>5, <1>6, Zenon DEF Step

-----------------------------------------------------------------------------
(* The threads and the queue.                                              *)

\* Every step of the tasks manager but a crash is one of the queue, or leaves
\* the queue alone.
LEMMA QueueStep == ASSUME Step PROVE [QueueNext]_queueVars \/ QueueReset
<1> USE DEF QueueNext
<1>1. CASE MinorStep
  BY <1>1 DEF MinorStep, SubmitRelease, Save, SaveDump, SaveTest, SaveUnlink,
              SaveOpen, SaveWrite, PickMinor, PickInterrupted, Boot, ClearSave
<1>2. CASE \E t \in Tasks : SubmitAppend(t)
  BY <1>2 DEF SubmitAppend
<1>3. CASE PickPop \/ PickRunning \/ PickRelease \/ Prerun \/ Terminate
           \/ ResetRunning \/ PurgePolicy \/ ClearWorkspace \/ Crash
  BY <1>3 DEF PickPop, PickRunning, PickRelease, Prerun, Terminate,
              ResetRunning, PurgePolicy, ClearWorkspace, Crash
<1>4. CASE \E outcome \in Outcomes : RunEnds(outcome)
  BY <1>4 DEF RunEnds
<1>5. CASE \E p \in Threads : FullqueueDump(p) \/ FullqueueRunning(p)
                              \/ HistoryList(p) \/ HistoryDone(p)
  BY <1>5 DEF FullqueueDump, FullqueueRunning, HistoryList, HistoryDone
<1>6. CASE \E p \in Threads, t \in Tasks : HistoryVisit(p, t)
  BY <1>6 DEF HistoryVisit
<1> QED
  BY StepCases, <1>1, <1>2, <1>3, <1>4, <1>5, <1>6, Zenon

\* The invariant of the queue holds again when a crash has reset the queue.
LEMMA ResetIInv == QueueInit' => IInv'
  BY InitIInv, PTL

\* What is shown of the queue alone holds in the tasks manager.
LEMMA QueueInvNext == ASSUME IInv, [Next]_vars PROVE IInv'
<1>1. CASE QueueReset
  BY <1>1, ResetIInv DEF QueueReset, QueueInit
<1>2. CASE [QueueNext]_queueVars
  BY <1>2, NextIInv
<1>3. CASE UNCHANGED vars
  BY <1>3, NextIInv DEF vars
<1> QED
  BY <1>1, <1>2, <1>3, QueueStep DEF Next

\* The threads keep to the queue, whatever the interleaving.
LEMMA ThreadsNext ==
    ASSUME TypeOK, IInv, ThreadsInv, Step
    PROVE  ThreadsInv'
<1> USE DEF ThreadsInv, Stopped, Busy, TypeOK, QueueTypeOK, Move, Goto,
            Threads, queueVars, saveVars, diskVars, scanVars, histVars
<1>1. CASE MinorStep
  <2>1. CASE SubmitRelease
    BY <2>1 DEF SubmitRelease, PutRelease
  <2>2. ASSUME NEW p \in Threads, SaveDump(p) PROVE ThreadsInv'
    BY <2>2 DEF SaveDump
  <2>3. ASSUME NEW p \in Threads,
               SaveTest(p) \/ SaveUnlink(p) \/ SaveOpen(p) \/ SaveWrite(p)
        PROVE  ThreadsInv'
    BY <2>3 DEF SaveTest, SaveUnlink, SaveOpen, SaveWrite
  <2>4. CASE PickMinor
    BY <2>4 DEF PickMinor, AcquireTake, AcquireWait, GetNothing, GetLock
  <2>5. CASE PickInterrupted
    BY <2>5 DEF PickInterrupted, AcquireTimeout
  <2>6. CASE Boot \/ ClearSave
    BY <2>6 DEF Boot, ClearSave
  <2> QED
    BY <1>1, <2>1, <2>2, <2>3, <2>4, <2>5, <2>6, Zenon DEF MinorStep, Save
<1>2. ASSUME NEW t \in Tasks, SubmitAppend(t) PROVE ThreadsInv'
  BY <1>2 DEF SubmitAppend, PutAppend
<1>3. CASE PickPop
  BY <1>3, HeadTailProperties DEF PickPop, GetPop
<1>4. CASE PickRunning \/ PickRelease
  BY <1>4 DEF PickRunning, PickRelease, Release
<1>5. CASE Prerun \/ Terminate \/ ResetRunning \/ PurgePolicy
  BY <1>5 DEF Prerun, Terminate, ResetRunning, PurgePolicy
<1>6. ASSUME NEW outcome \in Outcomes, RunEnds(outcome) PROVE ThreadsInv'
  <2>1. outcome \in {"success", "failed", "escapes", "dies"}
    BY OutcomesAssumption
  <2> QED
    BY <1>6, <2>1 DEF RunEnds
<1>7. ASSUME NEW p \in Threads,
             \/ FullqueueDump(p) \/ FullqueueRunning(p) \/ HistoryList(p)
             \/ HistoryDone(p)
      PROVE  ThreadsInv'
  BY <1>7 DEF FullqueueDump, FullqueueRunning, HistoryList, HistoryDone
<1>8. ASSUME NEW p \in Threads, NEW t \in Tasks, HistoryVisit(p, t)
      PROVE  ThreadsInv'
  BY <1>8 DEF HistoryVisit
<1>9. CASE ClearWorkspace
  BY <1>9 DEF ClearWorkspace
<1>10. CASE Crash
  BY <1>10 DEF Crash, QueueReset
<1> QED
  BY StepCases, <1>1, <1>2, <1>3, <1>4, <1>5, <1>6, <1>7, <1>8, <1>9, <1>10,
     Zenon

-----------------------------------------------------------------------------
(* The types.                                                              *)

\* Every step keeps the types.
LEMMA TypesNext ==
    ASSUME TypeOK, IInv', ThreadsInv, Step, TrackViews
    PROVE  TypeOK'
<1> USE DEF TypeOK, Labels, Threads, Move, Goto, queueVars, saveVars, diskVars,
            scanVars, histVars
<1>1. QueueTypeOK'
  BY DEF IInv
<1>2. ASSUME NEW s \in Seq(Tasks), NEW p \in Threads
      PROVE  /\ [toSave EXCEPT ![p] = s] \in [Threads -> Seq(Tasks)]
             /\ [snap EXCEPT ![p] = s] \in [Threads -> Seq(Tasks)]
  OBVIOUS
<1> DEFINE Rest == /\ pc' \in [Threads -> Labels]
                   /\ task' \in Tasks \cup {None}
                   /\ running' \in Tasks \cup {None}
                   /\ toSave' \in [Threads -> Seq(Tasks)]
                   /\ handle' \in [Threads -> {"closed", "live", "unlinked"}]
                   /\ stateFile' \in [exists : BOOLEAN, ids : Seq(Tasks)]
                   /\ place' \in [Tasks -> {"absent", "workspace", "archived"}]
                   /\ snap' \in [Threads -> Seq(Tasks)]
                   /\ todo' \in [Threads -> SUBSET Tasks]
                   /\ cleanup' \in Seq(Tasks)
                   /\ born' \subseteq Tasks
                   /\ crashes' \in 0..MaxCrashes
<1>3. queue \in Seq(Tasks) /\ <<>> \in Seq(Tasks)
  BY DEF QueueTypeOK
<1>4. Rest
  <2>1. CASE MinorStep
    <3>1. CASE SubmitRelease
      BY <3>1 DEF SubmitRelease
    <3>2. ASSUME NEW p \in Threads, SaveDump(p) PROVE Rest
      BY <3>2, <1>2, <1>3 DEF SaveDump
    <3>3. ASSUME NEW p \in Threads, SaveTest(p) PROVE Rest
      BY <3>3 DEF SaveTest
    <3>4. ASSUME NEW p \in Threads, SaveUnlink(p) PROVE Rest
      <4>1. handle' \in [Threads -> {"closed", "live", "unlinked"}]
        BY <3>4 DEF SaveUnlink
      <4>2. stateFile' \in [exists : BOOLEAN, ids : Seq(Tasks)]
        BY <3>4, <1>3 DEF SaveUnlink, NoFile
      <4> QED
        BY <3>4, <4>1, <4>2 DEF SaveUnlink
    <3>5. ASSUME NEW p \in Threads, SaveOpen(p) PROVE Rest
      <4>1. stateFile' \in [exists : BOOLEAN, ids : Seq(Tasks)]
        BY <3>5, <1>3 DEF SaveOpen
      <4> QED
        BY <3>5, <4>1 DEF SaveOpen
    <3>6. ASSUME NEW p \in Threads, SaveWrite(p) PROVE Rest
      <4>1. stateFile' \in [exists : BOOLEAN, ids : Seq(Tasks)]
        BY <3>6 DEF SaveWrite
      <4> QED
        BY <3>6, <4>1 DEF SaveWrite
    <3>7. CASE PickMinor \/ PickInterrupted
      BY <3>7 DEF PickMinor, PickInterrupted
    <3>8. CASE Boot
      BY <3>8, <1>3 DEF Boot
    <3>9. CASE ClearSave
      <4>1. stateFile' \in [exists : BOOLEAN, ids : Seq(Tasks)]
        BY <3>9, <1>3 DEF ClearSave, NoFile
      <4> QED
        BY <3>9, <4>1 DEF ClearSave
    <3> QED
      BY <2>1, <3>1, <3>2, <3>3, <3>4, <3>7, <3>8, <3>5, <3>6, <3>9, Zenon
         DEF MinorStep, Save
  <2>2. ASSUME NEW t \in Tasks, SubmitAppend(t) PROVE Rest
    BY <2>2 DEF SubmitAppend
  <2>3. CASE PickPop \/ PickRunning \/ PickRelease
    BY <2>3 DEF PickPop, PickRunning, PickRelease, QueueTypeOK
  <2>4. CASE Prerun \/ Terminate
    <3>1. task \in Tasks
      BY <2>4 DEF Prerun, Terminate, ThreadsInv, Busy
    <3>2. place' \in [Tasks -> {"absent", "workspace", "archived"}]
      BY <2>4, <3>1 DEF Prerun, Terminate
    <3>3. CASE Prerun
      BY <3>2, <3>3 DEF Prerun
    <3>4. CASE Terminate
      BY <3>2, <3>4 DEF Terminate
    <3> QED
      BY <2>4, <3>3, <3>4
  <2>5. CASE ResetRunning
    BY <2>5 DEF ResetRunning
  <2>6. CASE PurgePolicy
    <3>1. place' \in [Tasks -> {"absent", "workspace", "archived"}]
      BY <2>6 DEF PurgePolicy
    <3> QED
      BY <2>6, <3>1 DEF PurgePolicy
  <2>7. ASSUME NEW outcome \in Outcomes, RunEnds(outcome) PROVE Rest
    <3>1. outcome \in {"success", "failed", "escapes", "dies"}
      BY OutcomesAssumption
    <3> QED
      BY <2>7, <3>1 DEF RunEnds
  <2>8. ASSUME NEW p \in Threads, FullqueueDump(p) PROVE Rest
    BY <2>8, <1>2, <1>3 DEF FullqueueDump
  <2>9. ASSUME NEW p \in Threads, FullqueueRunning(p) PROVE Rest
    <3>1. running # None => <<running>> \o snap[p] \in Seq(Tasks)
      BY RangeCons
    <3> QED
      BY <2>9, <1>2, <3>1 DEF FullqueueRunning
  <2>10. ASSUME NEW p \in Threads, HistoryList(p) PROVE Rest
    <3>1. todo' \in [Threads -> SUBSET Tasks]
      BY <2>10 DEF HistoryList
    <3> QED
      BY <2>10, <3>1 DEF HistoryList
  <2>11. ASSUME NEW p \in Threads, HistoryDone(p) PROVE Rest
    BY <2>11 DEF HistoryDone
  <2>12. ASSUME NEW p \in Threads, NEW t \in Tasks, HistoryVisit(p, t)
        PROVE  Rest
    BY <2>12 DEF HistoryVisit
  <2>13. CASE ClearWorkspace
    BY <2>13, HeadTailProperties DEF ClearWorkspace
  <2>14. CASE Crash
    BY <2>14, <1>3, MaxCrashesAssumption DEF Crash
  <2> QED
    BY StepCases, <2>1, <2>2, <2>3, <2>4, <2>7, <2>8, <2>9, <2>10, <2>12, <2>13,
       <2>14, <2>6, <2>11, <2>5, Zenon
<1>5. View' \in Seq(Tasks)
  BY <1>1, <1>4, RangeCons DEF View, QueueTypeOK
<1>6. (views \subseteq Seq(Tasks))'
  BY <1>5 DEF TrackViews
<1> QED
  BY <1>1, <1>4, <1>6

-----------------------------------------------------------------------------
(* What the steps do to the task a worker is busy with.                    *)

ActiveCases ==
    /\ pc["worker"] \in Busy => Active = task
    /\ pc["worker"] \notin Busy /\ getter = "holding" => Active = popped
    /\ pc["worker"] \notin Busy /\ getter # "holding" => Active = None

\* The three cases of Active exclude each other, see ThreadsInv.
LEMMA ActiveIs == ThreadsInv => ActiveCases
  BY DEF ThreadsInv, ActiveCases, Active, Busy

\* The same after a step.
LEMMA ActiveIsNext == ThreadsInv' => ActiveCases'
  BY ActiveIs, PTL

\* A minor step leaves the tasks, their directories and the scans alone.
Aside ==
    /\ UNCHANGED <<queue, popped, submitted, task, running, born, place, snap,
                   todo>>
    /\ Active' = Active
    /\ Fresh' = Fresh
    /\ (getter' = "holding") = (getter = "holding")
    /\ getter = "holding" => pc'["worker"] = pc["worker"]
    /\ \A p \in Threads :
          pc'[p] = pc[p] \/ (pc[p] \notin Busy /\ pc'[p] \notin Busy)

\* That is so for the saves, the waits of get and the start of the daemon.
LEMMA AsideStep ==
    ASSUME TypeOK, ThreadsInv, ThreadsInv', MinorStep
    PROVE  Aside
<1> USE DEF Move, Goto, Threads, queueVars, saveVars, diskVars, scanVars,
            histVars
<1> DEFINE Still ==
        /\ UNCHANGED <<queue, popped, submitted, task, running, born, place,
                       snap, todo>>
        /\ (getter' = "holding") = (getter = "holding")
        /\ getter = "holding" => pc'["worker"] = pc["worker"]
        /\ \A p \in Threads :
              pc'[p] = pc[p] \/ (pc[p] \notin Busy /\ pc'[p] \notin Busy)
<1>1. Still
  <2> USE DEF TypeOK, Busy
  <2>1. CASE SubmitRelease
    BY <2>1 DEF SubmitRelease, PutRelease
  <2>2. ASSUME NEW p \in Threads, SaveDump(p) PROVE Still
    BY <2>2 DEF SaveDump, ThreadsInv
  <2>3. ASSUME NEW p \in Threads,
               SaveTest(p) \/ SaveUnlink(p) \/ SaveOpen(p) \/ SaveWrite(p)
        PROVE  Still
    BY <2>3 DEF SaveTest, SaveUnlink, SaveOpen, SaveWrite, ThreadsInv
  <2>4. CASE PickMinor
    BY <2>4 DEF PickMinor, AcquireTake, AcquireWait, GetNothing, GetLock
  <2>5. CASE PickInterrupted
    BY <2>5 DEF PickInterrupted, AcquireTimeout
  <2>6. CASE Boot
    BY <2>6 DEF Boot, ThreadsInv, Stopped
  <2>7. CASE ClearSave
    BY <2>7 DEF ClearSave, ThreadsInv, Stopped
  <2> QED
    BY <2>1, <2>2, <2>3, <2>4, <2>5, <2>6, <2>7, Zenon DEF MinorStep, Save
<1> HIDE DEF Still
<1>2. ActiveCases /\ ActiveCases'
  BY ActiveIs, ActiveIsNext
<1>3. Active' = Active
  BY <1>1, <1>2 DEF Still, ActiveCases
<1>4. \/ pc'["worker"] = pc["worker"]
      \/ /\ pc["worker"] \notin Busy
         /\ pc'["worker"] \notin Busy
         /\ getter # "holding"
  BY <1>1 DEF Still
<1>5. Fresh' = Fresh
  BY <1>1, <1>2, <1>3, <1>4 DEF Still, Fresh, ActiveCases, Busy
<1> QED
  BY <1>1, <1>3, <1>5, Zenon DEF Aside, Still

\* What each of the other steps does to the active task, and to the tasks that
\* have no workspace yet.
Kept == Active' = Active /\ Fresh' = Fresh

\* The effect on both, action by action.
LEMMA Moves ==
    ASSUME TypeOK, ThreadsInv, ThreadsInv'
    PROVE  /\ \A t \in Tasks :
                 SubmitAppend(t) => Active' = Active /\ Fresh' = Fresh \cup {t}
           /\ PickPop => /\ Active = None
                         /\ Active' = Head(queue)
                         /\ Fresh' = Fresh
           /\ PickRunning \/ PickRelease => Kept /\ Active \in Tasks
           /\ Prerun => /\ Active = task
                        /\ Active' = Active
                        /\ Fresh' = Range(queue)
           /\ Terminate \/ PurgePolicy => Kept /\ Active = task
           /\ ResetRunning => /\ Active = task
                              /\ Active' = None
                              /\ Fresh' = Fresh
           /\ \A outcome \in Outcomes :
                 RunEnds(outcome) => /\ Active = task
                                     /\ Active' \in {task, None}
                                     /\ Fresh' = Fresh
           /\ \A p \in Threads :
                 \/ FullqueueDump(p) \/ FullqueueRunning(p) \/ HistoryList(p)
                 \/ HistoryDone(p)
                 => Kept
           /\ \A p \in Threads, t \in Tasks : HistoryVisit(p, t) => Kept
           /\ ClearWorkspace => Kept /\ Active = None
           /\ Crash => Active' = None /\ Fresh' = {}
<1> USE DEF Move, Goto, Threads, queueVars, saveVars, diskVars, scanVars,
            histVars, Kept
<1>1. ActiveCases /\ ActiveCases'
  BY ActiveIs, ActiveIsNext
<1>2. queue \in Seq(Tasks) /\ pc \in [Threads -> Labels]
  BY DEF TypeOK, QueueTypeOK
<1> USE DEF ActiveCases, Busy
<1>3. ASSUME NEW t \in Tasks, SubmitAppend(t)
      PROVE  Active' = Active /\ Fresh' = Fresh \cup {t}
  <2>1. Active' = Active /\ queue' = Append(queue, t)
        /\ pc'["worker"] = pc["worker"]
    BY <1>1, <1>2, <1>3 DEF SubmitAppend, PutAppend
  <2>2. Range(queue') = Range(queue) \cup {t}
    BY <1>2, <2>1, RangeAppend
  <2> QED
    BY <2>1, <2>2 DEF Fresh
<1>4. ASSUME PickPop
      PROVE  Active = None /\ Active' = Head(queue) /\ Fresh' = Fresh
  <2>1. Active = None /\ Active' = Head(queue)
    BY <1>1, <1>2, <1>4 DEF PickPop, GetPop
  <2>2. /\ Head(queue) \in Tasks
        /\ Range(queue) = {Head(queue)} \cup Range(queue')
    BY <1>2, <1>4, RangePop DEF PickPop, GetPop
  <2> QED
    BY <1>4, <2>1, <2>2, NoneAssumption DEF Fresh, PickPop
<1>5. ASSUME PickRunning \/ PickRelease PROVE Kept /\ Active \in Tasks
  <2>1. Active' = Active /\ Active \in Tasks
    BY <1>1, <1>2, <1>5 DEF PickRunning, PickRelease, Release, ThreadsInv
  <2> QED
    BY <1>2, <1>5, <2>1 DEF PickRunning, PickRelease, Release, Fresh
<1>6. ASSUME Prerun
      PROVE  Active = task /\ Active' = Active /\ Fresh' = Range(queue)
  BY <1>1, <1>2, <1>6 DEF Prerun, Fresh
<1>7. ASSUME Terminate \/ PurgePolicy PROVE Kept /\ Active = task
  BY <1>1, <1>2, <1>7 DEF Terminate, PurgePolicy, Fresh
<1>8. ASSUME ResetRunning
      PROVE  Active = task /\ Active' = None /\ Fresh' = Fresh
  BY <1>1, <1>2, <1>8 DEF ResetRunning, Fresh, ThreadsInv
<1>9. ASSUME NEW outcome \in Outcomes, RunEnds(outcome)
      PROVE  Active = task /\ Active' \in {task, None} /\ Fresh' = Fresh
  <2>1. outcome \in {"success", "failed", "escapes", "dies"}
    BY OutcomesAssumption
  <2> QED
    BY <1>1, <1>2, <1>9, <2>1 DEF RunEnds, Fresh, ThreadsInv
<1>10. ASSUME NEW p \in Threads,
              \/ FullqueueDump(p) \/ FullqueueRunning(p) \/ HistoryList(p)
              \/ HistoryDone(p)
       PROVE  Kept
  BY <1>1, <1>2, <1>10 DEF FullqueueDump, FullqueueRunning, HistoryList,
                           HistoryDone, Fresh
<1>11. ASSUME NEW p \in Threads, NEW t \in Tasks, HistoryVisit(p, t) PROVE Kept
  BY <1>1, <1>11 DEF HistoryVisit, Fresh
<1>12. ASSUME ClearWorkspace PROVE Kept /\ Active = None
  BY <1>1, <1>12 DEF ClearWorkspace, Fresh, ThreadsInv, Stopped
<1>13. ASSUME Crash PROVE Active' = None /\ Fresh' = {}
  BY <1>1, <1>13, RangeEmpty DEF Crash, QueueReset, Fresh
<1> QED
  BY <1>3, <1>4, <1>5, <1>6, <1>7, <1>8, <1>9, <1>10, <1>11, <1>12, <1>13,
     Zenon

-----------------------------------------------------------------------------
(* An identifier is used once.                                             *)

\* Every step keeps OnceInv: only a submission adds to the queue.
LEMMA OnceNext ==
    ASSUME TypeOK, ThreadsInv, ThreadsInv', OnceInv, Step
    PROVE  OnceInv'
<1> USE NoneAssumption DEF OnceInv, Unfinished, Move, queueVars, saveVars,
        diskVars, scanVars, histVars, Kept
<1>1. queue \in Seq(Tasks) /\ submitted \in Seq(Tasks)
  BY DEF TypeOK, QueueTypeOK
<1>2. CASE MinorStep
  BY <1>2, AsideStep DEF Aside
<1>3. ASSUME NEW t \in Tasks, SubmitAppend(t) PROVE OnceInv'
  <2>1. /\ queue' = Append(queue, t)
        /\ submitted' = Append(submitted, t)
        /\ Active' = Active
        /\ running' = running
        /\ born' = born \cup {t}
        /\ t \notin born
    BY <1>3, Moves DEF SubmitAppend, PutAppend
  <2>2. /\ Range(queue') = Range(queue) \cup {t}
        /\ Range(submitted') = Range(submitted) \cup {t}
        /\ Distinct(queue')
    BY <1>1, <2>1, RangeAppend, DistinctAppend
  <2> QED
    BY <2>1, <2>2
<1>4. CASE PickPop
  <2>1. /\ Active = None
        /\ Active' = Head(queue)
        /\ queue' = Tail(queue)
        /\ queue # <<>>
        /\ UNCHANGED <<running, born, submitted>>
    BY <1>4, Moves DEF PickPop, GetPop
  <2>2. /\ Range(queue) = {Active'} \cup Range(queue')
        /\ Distinct(queue')
        /\ Active' \notin Range(queue')
    BY <1>1, <2>1, RangePop, DistinctPop
  <2> QED
    BY <2>1, <2>2
<1>5. CASE PickRunning
  BY <1>5, Moves, ActiveIs DEF PickRunning, ActiveCases, Busy
<1>6. CASE PickRelease \/ Prerun \/ Terminate \/ PurgePolicy
  BY <1>6, Moves DEF PickRelease, Release, Prerun, Terminate, PurgePolicy
<1>7. CASE ResetRunning
  BY <1>1, <1>7, Moves, RangeTyped DEF ResetRunning
<1>8. ASSUME NEW outcome \in Outcomes, RunEnds(outcome) PROVE OnceInv'
  BY <1>1, <1>8, Moves, RangeTyped DEF RunEnds
<1>9. ASSUME NEW p \in Threads,
             \/ FullqueueDump(p) \/ FullqueueRunning(p) \/ HistoryList(p)
             \/ HistoryDone(p)
      PROVE  OnceInv'
  BY <1>9, Moves DEF FullqueueDump, FullqueueRunning, HistoryList, HistoryDone
<1>10. ASSUME NEW p \in Threads, NEW t \in Tasks, HistoryVisit(p, t)
       PROVE  OnceInv'
  BY <1>10, Moves DEF HistoryVisit
<1>11. CASE ClearWorkspace
  BY <1>11, Moves DEF ClearWorkspace
<1>12. CASE Crash
  <2>1. Distinct(<<>>)
    BY DEF Distinct
  <2> QED
    BY <1>12, <2>1, Moves, RangeEmpty DEF Crash, QueueReset
<1> QED
  BY StepCases, <1>2, <1>3, <1>4, <1>5, <1>6, <1>7, <1>8, <1>9, <1>10, <1>11,
     <1>12, Zenon

-----------------------------------------------------------------------------
(* What a workspace tells.                                                 *)

\* Every step keeps PlaceInv; that a purge spares the workspace of its own
\* task needs ScanInv.
LEMMA PlaceNext ==
    ASSUME TypeOK, ThreadsInv, ThreadsInv', OnceInv, PlaceInv, ScanInv, Step
    PROVE  PlaceInv'
<1> USE NoneAssumption DEF PlaceInv, Move, Goto, queueVars, saveVars, diskVars,
        scanVars, histVars, Kept
<1>1. /\ queue \in Seq(Tasks)
      /\ Range(queue) \subseteq Tasks
      /\ place \in [Tasks -> {"absent", "workspace", "archived"}]
      /\ pc \in [Threads -> Labels]
      /\ "worker" \in Threads /\ "server" \in Threads
  BY RangeTyped DEF TypeOK, QueueTypeOK, Threads
<1>2. CASE MinorStep
  BY <1>1, <1>2, AsideStep DEF Aside
<1>3. ASSUME NEW t \in Tasks, SubmitAppend(t) PROVE PlaceInv'
  BY <1>1, <1>3, Moves DEF SubmitAppend, PutAppend
<1>4. CASE PickPop
  BY <1>1, <1>4, Moves DEF PickPop, GetPop, Busy
<1>5. CASE PickRunning
  <2>1. Active' = running'
    BY <1>5, ActiveIsNext DEF PickRunning, ActiveCases, Busy, ThreadsInv
  <2> QED
    BY <1>1, <1>5, <2>1, Moves DEF PickRunning, Busy
<1>6. CASE PickRelease
  BY <1>1, <1>6, Moves DEF PickRelease, Release, Busy
<1>7. CASE Prerun
  <2>1. /\ task \in Tasks
        /\ task \in Fresh
        /\ task \in born
        /\ task \notin Range(queue)
        /\ running = task
    BY <1>1, <1>7, Moves DEF Prerun, ThreadsInv, OnceInv, Unfinished, Fresh,
                             Busy
  <2> QED
    BY <1>1, <1>7, <2>1, Moves DEF Prerun, OnceInv, Fresh
<1>8. CASE Terminate
  <2>1. /\ task \in Tasks
        /\ task \in born
        /\ running = task
        /\ task \notin Fresh
    BY <1>1, <1>8, Moves DEF Terminate, ThreadsInv, OnceInv, Unfinished, Fresh,
                             Busy
  <2> QED
    BY <1>1, <1>8, <2>1, Moves DEF Terminate
<1>9. CASE PurgePolicy
  <2>1. \A t \in Tasks :
           \/ place'[t] = place[t]
           \/ place[t] = "archived" /\ place'[t] = "absent"
    BY <1>9 DEF PurgePolicy
  <2>2. /\ UNCHANGED <<running, born, task>>
        /\ task \in Tasks
        /\ place[task] = "workspace"
        /\ pc["worker"] = "policy" /\ pc'["worker"] = "postrun"
        /\ running' = Active'
    BY <1>1, <1>9, Moves DEF PurgePolicy, Busy, ThreadsInv
  <2>3. Fresh' = Fresh /\ Fresh \subseteq Tasks
    BY <1>1, <1>9, <2>2, Moves DEF Fresh
  <2> QED
    BY <2>1, <2>2, <2>3
<1>10. CASE ResetRunning
  BY <1>1, <1>10, Moves DEF ResetRunning, Busy
<1>11. ASSUME NEW outcome \in Outcomes, RunEnds(outcome) PROVE PlaceInv'
  <2>1. outcome \in {"success", "failed", "escapes", "dies"}
    BY OutcomesAssumption
  <2> QED
    BY <1>1, <1>11, <2>1, Moves DEF RunEnds, Busy, ThreadsInv
<1>12. ASSUME NEW p \in Threads,
              \/ FullqueueDump(p) \/ FullqueueRunning(p) \/ HistoryList(p)
              \/ HistoryDone(p)
       PROVE  PlaceInv'
  BY <1>1, <1>12, Moves DEF FullqueueDump, FullqueueRunning, HistoryList,
                            HistoryDone, Busy, Threads
<1>13. ASSUME NEW p \in Threads, NEW t \in Tasks, HistoryVisit(p, t)
       PROVE  PlaceInv'
  <2>1. place[t] = "workspace" => t # Active
    BY <1>13 DEF HistoryVisit, ScanInv, Unfinished
  <2>2. pc["worker"] \in Busy => Active = task /\ task \in Tasks
    BY ActiveIs DEF ActiveCases, ThreadsInv
  <2>3. \A u \in Tasks :
           \/ place'[u] = place[u]
           \/ u = t /\ place[u] = "workspace" /\ place'[u] = "absent"
    BY <1>1, <1>13 DEF HistoryVisit
  <2>4. UNCHANGED <<Fresh, Active, running, born, task, pc>>
    BY <1>13, Moves DEF HistoryVisit
  <2>5. Fresh \subseteq Tasks /\ (running # None => running \in Tasks)
    BY <1>1, <2>2, ActiveIs DEF Fresh, ActiveCases, ThreadsInv, TypeOK
  <2> QED
    BY <2>1, <2>2, <2>3, <2>4, <2>5
<1>14. CASE ClearWorkspace
  <2>1. pc["worker"] \notin Busy /\ running = None
    BY <1>14 DEF ClearWorkspace, ThreadsInv, Stopped, Busy
  <2> QED
    BY <1>1, <1>14, <2>1, Moves DEF ClearWorkspace
<1>15. CASE Crash
  <2>1. pc'["worker"] \notin Busy
    BY <1>1, <1>15 DEF Crash, Busy
  <2> QED
    BY <1>15, <2>1, Moves DEF Crash
<1> QED
  BY StepCases, <1>2, <1>3, <1>4, <1>5, <1>6, <1>7, <1>8, <1>9, <1>10, <1>11,
     <1>12, <1>13, <1>14, <1>15, Zenon

-----------------------------------------------------------------------------
(* What a scan visits.                                                     *)

\* Every step keeps ScanInv: no step of the worker brings a task back that a
\* dump has missed.
LEMMA ScanNext ==
    ASSUME TypeOK, IInv, ThreadsInv, ThreadsInv', OnceInv, PlaceInv, ScanInv,
           Step
    PROVE  ScanInv'
<1> USE NoneAssumption DEF ScanInv, Unfinished, Move, Goto, queueVars,
        saveVars, diskVars, scanVars, histVars, Kept, Threads
<1>1. /\ queue \in Seq(Tasks)
      /\ Range(queue) \subseteq Tasks
      /\ place \in [Tasks -> {"absent", "workspace", "archived"}]
      /\ pc \in [Threads -> Labels]
      /\ todo \in [Threads -> SUBSET Tasks]
      /\ snap \in [Threads -> Seq(Tasks)]
  BY RangeTyped DEF TypeOK, QueueTypeOK
<1>2. ActiveCases
  BY ActiveIs
<1>3. CASE MinorStep
  BY <1>1, <1>3, AsideStep DEF Aside, Busy
<1>4. ASSUME NEW t \in Tasks, SubmitAppend(t) PROVE ScanInv'
  <2>1. /\ Range(queue') = Range(queue) \cup {t}
        /\ Fresh' = Fresh \cup {t}
        /\ Active' = Active
        /\ t \notin born /\ born \subseteq born'
    BY <1>1, <1>4, Moves, RangeAppend DEF SubmitAppend, PutAppend
  <2> QED
    BY <1>1, <1>4, <2>1 DEF SubmitAppend, PutAppend
<1>5. CASE PickPop
  <2>1. Range(queue) = {Active'} \cup Range(queue')
    BY <1>1, <1>5, Moves, RangePop DEF PickPop, GetPop
  <2> QED
    BY <1>1, <1>5, <2>1, Moves DEF PickPop
<1>6. CASE PickRunning
  <2>1. running' = Active /\ Active' = Active /\ Fresh' = Fresh
    BY <1>2, <1>6, Moves DEF PickRunning, ActiveCases, Busy
  <2> QED
    BY <1>1, <1>6, <2>1 DEF PickRunning, OnceInv
<1>7. CASE PickRelease
  BY <1>1, <1>7, Moves DEF PickRelease, Release
<1>8. CASE Prerun
  <2>1. /\ task \in Fresh
        /\ Fresh' \subseteq Fresh
        /\ Active' = Active
    BY <1>1, <1>8, Moves DEF Prerun, Fresh, ThreadsInv, Busy
  <2> QED
    BY <1>1, <1>8, <2>1 DEF Prerun
<1>9. CASE Terminate
  BY <1>1, <1>9, Moves DEF Terminate
<1>10. CASE PurgePolicy
  <2>1. \A t \in Tasks : place'[t] = "workspace" => place[t] = "workspace"
    BY <1>10 DEF PurgePolicy
  <2>2. UNCHANGED <<queue, Active, Fresh, born, running, snap, todo>>
    BY <1>10, Moves DEF PurgePolicy
  <2> QED
    BY <1>1, <1>10, <2>1, <2>2 DEF PurgePolicy
<1>11. CASE ResetRunning
  BY <1>1, <1>11, Moves DEF ResetRunning, OnceInv, ThreadsInv, Busy
<1>12. ASSUME NEW outcome \in Outcomes, RunEnds(outcome) PROVE ScanInv'
  <2>1. outcome \in {"success", "failed", "escapes", "dies"}
    BY OutcomesAssumption
  <2> QED
    BY <1>1, <1>12, <2>1, Moves DEF RunEnds
<1>13. ASSUME NEW p \in Threads, FullqueueDump(p) PROVE ScanInv'
  <2>1. p = "server" => Active = None \/ Active = running
    BY <1>2, <1>13 DEF FullqueueDump, Dump, ActiveCases, ThreadsInv, Busy,
                       IInv, LockHeldByGetter
  <2> QED
    BY <1>1, <1>13, <2>1, Moves DEF FullqueueDump, Dump
<1>14. ASSUME NEW p \in Threads, FullqueueRunning(p) PROVE ScanInv'
  <2>1. running # None =>
           Range(<<running>> \o snap[p]) = {running} \cup Range(snap[p])
    BY <1>1, RangeCons DEF TypeOK
  <2>2. /\ Range(snap'[p]) = Range(snap[p]) \cup ({running} \ {None})
        /\ \A q \in Threads : q # p => snap'[q] = snap[q]
    BY <1>1, <1>14, <2>1 DEF FullqueueRunning
  <2>3. p = "worker" => running = task /\ task \in Tasks
    BY <1>14 DEF FullqueueRunning, ThreadsInv, Busy
  <2>4. Unfinished \subseteq Tasks
    BY <1>1, <1>2 DEF ActiveCases, ThreadsInv
  <2>5. /\ UNCHANGED <<queue, Active, Fresh, running, task, todo, place, born>>
        /\ pc[p] = "fullqueue" /\ pc'[p] = "list"
        /\ \A q \in Threads : q # p => pc'[q] = pc[q]
    BY <1>1, <1>14, Moves DEF FullqueueRunning
  <2>6. CASE p = "server"
    BY <2>2, <2>4, <2>5, <2>6
  <2>7. CASE p = "worker"
    BY <2>2, <2>3, <2>5, <2>7
  <2> QED
    BY <2>6, <2>7
<1>15. ASSUME NEW p \in Threads, HistoryList(p) PROVE ScanInv'
  <2>1. \A t \in todo'[p] :
           /\ t \in born \ Fresh
           /\ place[t] = "workspace" => t \notin Unfinished
    <3> SUFFICES ASSUME NEW t \in Tasks, place[t] # "absent",
                        t \notin Range(snap[p])
                 PROVE  /\ t \in born \ Fresh
                        /\ place[t] = "workspace" => t \notin Unfinished
      BY <1>1, <1>15 DEF HistoryList
    <3>1. t \in born \ Fresh /\ t \notin Range(queue)
      BY DEF PlaceInv, Fresh
    <3>2. CASE p = "server"
      BY <1>15, <3>1, <3>2 DEF HistoryList
    <3>3. CASE p = "worker"
      BY <1>2, <1>15, <3>1, <3>3 DEF HistoryList, ActiveCases, Busy
    <3> QED
      BY <3>2, <3>3
  <2> QED
    BY <1>1, <1>15, <2>1, Moves DEF HistoryList
<1>16. ASSUME NEW p \in Threads, NEW t \in Tasks, HistoryVisit(p, t)
       PROVE  ScanInv'
  <2>1. \A u \in Tasks : place'[u] = "workspace" => place[u] = "workspace"
    BY <1>1, <1>16 DEF HistoryVisit
  <2>2. \A q \in Threads : todo'[q] \subseteq todo[q]
    BY <1>1, <1>16 DEF HistoryVisit
  <2>3. UNCHANGED <<queue, Active, Fresh, born, running, snap, pc, task>>
    BY <1>16, Moves DEF HistoryVisit
  <2> QED
    BY <1>1, <2>1, <2>2, <2>3
<1>17. ASSUME NEW p \in Threads, HistoryDone(p) PROVE ScanInv'
  BY <1>1, <1>17, Moves DEF HistoryDone
<1>18. CASE ClearWorkspace \/ Crash
  <2>1. \A p \in Threads : pc'[p] \notin Busy
    BY <1>1, <1>18 DEF ClearWorkspace, Crash, ThreadsInv, Stopped, Busy
  <2> QED
    BY <2>1 DEF Busy
<1> QED
  BY StepCases, <1>3, <1>4, <1>5, <1>6, <1>7, <1>8, <1>9, <1>10, <1>11,
     <1>12, <1>13, <1>14, <1>15, <1>16, <1>17, <1>18, Zenon

-----------------------------------------------------------------------------
(* The answer of fullqueue.                                                *)

\* What TrackViews collects: nothing is forgotten while fullqueue runs, and a
\* whole view is added as it appears.
LEMMA ViewsGrow ==
    ASSUME TrackViews
    PROVE  /\ InFullqueue /\ InFullqueue' => views \subseteq views'
           /\ InFullqueue' /\ ViewIsWhole' => View' \in views'
  BY DEF TrackViews

\* Every step of a call of fullqueue stays in one of the three cases.
LEMMA ViewsNext ==
    ASSUME TypeOK, IInv, ThreadsInv, ThreadsInv', OnceInv, ViewsInv,
           Step, TrackViews
    PROVE  ViewsInv'
<1> USE NoneAssumption DEF Move, Goto, queueVars, saveVars, diskVars, scanVars,
        histVars, Threads
<1>1. /\ queue \in Seq(Tasks)
      /\ pc \in [Threads -> Labels]
      /\ snap \in [Threads -> Seq(Tasks)]
      /\ running \in Tasks \cup {None}
  BY DEF TypeOK, QueueTypeOK
<1>2. SUFFICES ASSUME InFullqueue'
               PROVE  ViewsInv'
  BY DEF ViewsInv
<1> DEFINE S == snap["server"]
           First == /\ queue = S
                    /\ getter # "holding"
                    /\ Answer \in views
           Second == /\ <<popped>> \o queue = S
                     /\ getter = "holding"
                     /\ pc["worker"] = "loop"
                     /\ running \notin Range(S)
                     /\ Answer \in views
           Third == /\ Range(queue) \subseteq Range(S)
                    /\ getter = "holding" => popped \in Range(S)
                    /\ running = None \/ running \in Range(S)
                    /\ S \in views
<1>3. CASE FullqueueDump("server")
  <2>1. /\ S' = queue /\ queue' = queue
        /\ getter # "holding" /\ getter' = getter
        /\ running' = running
    BY <1>1, <1>3 DEF FullqueueDump, Dump, IInv, LockHeldByGetter
  <2>2. Answer' = View'
    BY <2>1 DEF Answer, View, OnceInv
  <2>3. First'
    BY <1>2, <2>1, <2>2, ViewsGrow DEF ViewIsWhole
  <2> QED
    BY <1>1, <2>1, <2>3 DEF ViewsInv
<1>4. CASE InFullqueue /\ snap'["server"] = snap["server"]
  <2>1. /\ S \in Seq(Tasks) /\ S' = S
        /\ First \/ Second \/ Third
        /\ views \subseteq views'
    BY <1>2, <1>4, ViewsGrow DEF ViewsInv
  <2> SUFFICES First' \/ Second' \/ Third'
    BY <2>1 DEF ViewsInv
  <2>2. ASSUME /\ UNCHANGED <<queue, popped, running>>
               /\ (getter' = "holding") = (getter = "holding")
               /\ getter = "holding" => pc'["worker"] = pc["worker"]
        PROVE  First' \/ Second' \/ Third'
    <3>1. Answer' = Answer
      BY <2>1, <2>2 DEF Answer
    <3> QED
      BY <2>1, <2>2, <3>1
  <2>3. CASE PickPop
    <3>1. /\ popped' = Head(queue) /\ queue' = Tail(queue)
          /\ getter # "holding" /\ getter' = "holding"
          /\ pc["worker"] = "loop" /\ pc' = pc
          /\ running' = running /\ queue # <<>>
      BY <2>3 DEF PickPop, GetPop
    <3>2. /\ <<popped'>> \o queue' = queue
          /\ Range(queue) = {popped'} \cup Range(queue')
      BY <1>1, <3>1, RangePop
    <3>3. Answer' = Answer
      BY <2>1, <3>1 DEF Answer
    <3>4. CASE First
      BY <2>1, <3>1, <3>2, <3>3, <3>4 DEF OnceInv
    <3>5. CASE Third
      BY <2>1, <3>1, <3>2, <3>5
    <3> QED
      BY <2>1, <3>1, <3>4, <3>5
  <2>4. CASE PickRunning
    <3>1. /\ getter = "holding"
          /\ running' = popped /\ popped \in Tasks
          /\ UNCHANGED <<queue, getter, popped>>
          /\ pc'["worker"] = "picked"
      BY <1>1, <2>4 DEF PickRunning, ThreadsInv
    <3>2. CASE Second
      <4>1. Range(S) = {popped} \cup Range(queue)
        BY <1>1, <3>1, <3>2, RangeCons
      <4>2. View' = S
        BY <3>1, <3>2 DEF View
      <4>3. S \in views'
        BY <1>2, <3>1, <4>2, ViewsGrow DEF ViewIsWhole
      <4> QED
        BY <2>1, <3>1, <4>1, <4>3
    <3>3. CASE Third
      BY <2>1, <3>1, <3>3
    <3> QED
      BY <2>1, <3>1, <3>2, <3>3
  <2>5. CASE PickRelease
    BY <2>1, <2>5 DEF PickRelease, Release
  <2>6. CASE ResetRunning
    <3>1. /\ running' = None
          /\ getter = "out"
          /\ UNCHANGED <<queue, getter, popped>>
          /\ pc'["worker"] = "saveDump"
      BY <1>1, <2>6 DEF ResetRunning, ThreadsInv
    <3>2. CASE First
      <4>1. Answer' = View'
        BY <2>1, <3>1, <3>2 DEF Answer, View
      <4> QED
        BY <1>2, <2>1, <3>1, <3>2, <4>1, ViewsGrow DEF ViewIsWhole
    <3>3. CASE Third
      BY <2>1, <3>1, <3>3
    <3> QED
      BY <2>1, <3>1, <3>2, <3>3
  <2>7. CASE MinorStep
    BY <2>2, <2>7, AsideStep DEF Aside
  <2>8. ASSUME NEW t \in Tasks, SubmitAppend(t) PROVE FALSE
    BY <1>4, <2>8 DEF SubmitAppend, InFullqueue
  <2>9. CASE Prerun \/ Terminate \/ PurgePolicy
    BY <1>1, <2>2, <2>9 DEF Prerun, Terminate, PurgePolicy, ThreadsInv
  <2>10. ASSUME NEW outcome \in Outcomes, RunEnds(outcome)
         PROVE  First' \/ Second' \/ Third'
    BY <1>1, <2>2, <2>10 DEF RunEnds, ThreadsInv
  <2>11. ASSUME NEW p \in Threads,
                \/ FullqueueDump(p) \/ FullqueueRunning(p) \/ HistoryList(p)
                \/ HistoryDone(p) \/ \E t \in Tasks : HistoryVisit(p, t)
         PROVE  First' \/ Second' \/ Third'
    BY <1>1, <2>2, <2>11 DEF FullqueueDump, FullqueueRunning, HistoryList,
                             HistoryDone, HistoryVisit, ThreadsInv
  <2>12. CASE ClearWorkspace \/ Crash
    BY <1>1, <1>2, <1>4, <2>12 DEF ClearWorkspace, Crash, InFullqueue
  <2> QED
    BY StepCases, <2>3, <2>4, <2>5, <2>6, <2>7, <2>8, <2>9, <2>10, <2>11,
       <2>12, Zenon
<1>5. FullqueueDump("server") \/ (InFullqueue /\ snap'["server"] = S)
  <2>1. ASSUME NEW p \in Threads, FullqueueDump(p), p # "server"
        PROVE  InFullqueue /\ snap'["server"] = S
    BY <1>1, <1>2, <2>1 DEF FullqueueDump, InFullqueue
  <2>2. ASSUME NEW p \in Threads, FullqueueRunning(p)
        PROVE  InFullqueue /\ snap'["server"] = S
    BY <1>1, <1>2, <2>2 DEF FullqueueRunning, InFullqueue
  <2>3. ASSUME NEW p \in Threads,
               \/ HistoryList(p) \/ HistoryDone(p)
               \/ \E t \in Tasks : HistoryVisit(p, t)
        PROVE  InFullqueue /\ snap'["server"] = S
    BY <1>1, <1>2, <2>3 DEF HistoryList, HistoryDone, HistoryVisit,
                            InFullqueue
  <2>4. CASE MinorStep
    BY <1>2, <2>4, AsideStep DEF Aside, InFullqueue, Busy
  <2>5. ASSUME NEW t \in Tasks, SubmitAppend(t) PROVE FALSE
    BY <1>1, <1>2, <2>5 DEF SubmitAppend, InFullqueue
  <2>6. CASE PickPop \/ PickRunning \/ PickRelease \/ Prerun \/ Terminate
             \/ ResetRunning \/ PurgePolicy
    BY <1>1, <1>2, <2>6 DEF PickPop, PickRunning, PickRelease, Prerun,
                            Terminate, ResetRunning, PurgePolicy, InFullqueue
  <2>7. ASSUME NEW outcome \in Outcomes, RunEnds(outcome)
        PROVE  InFullqueue /\ snap'["server"] = S
    BY <1>1, <1>2, <2>7 DEF RunEnds, InFullqueue
  <2>8. CASE ClearWorkspace \/ Crash
    BY <1>1, <1>2, <2>8 DEF ClearWorkspace, Crash, InFullqueue
  <2> QED
    BY StepCases, <2>1, <2>2, <2>3, <2>4, <2>5, <2>6, <2>7, <2>8, Zenon
<1> QED
  BY <1>3, <1>4, <1>5

-----------------------------------------------------------------------------
(* The invariant, and the theorems of the tasks manager.                   *)

\* The invariant holds before the first daemon has started.
LEMMA InitManagerInv == Init => ManagerInv
<1> SUFFICES ASSUME Init
             PROVE  ManagerInv
  OBVIOUS
<1> USE DEF Init, QueueInit
<1>1. <<>> \in Seq(Tasks) /\ Range(<<>>) = {} /\ Distinct(<<>>)
  BY RangeEmpty DEF Distinct
<1>2. IInv
  BY InitIInv
<1>3. TypeOK
  BY <1>1, <1>2, MaxCrashesAssumption DEF TypeOK, IInv, Threads, Labels, NoFile
<1>4. ThreadsInv /\ pc["worker"] = "down" /\ pc["server"] = "down"
  BY DEF ThreadsInv, Busy, Stopped, Threads
<1>5. Active = None
  BY <1>4, ActiveIs DEF ActiveCases, Busy
<1>6. OnceInv /\ PlaceInv
  BY <1>1, <1>4, <1>5 DEF OnceInv, PlaceInv, Unfinished, Fresh, Busy
<1>7. ScanInv /\ ViewsInv
  BY <1>4 DEF ScanInv, ViewsInv, InFullqueue, Threads
<1> QED
  BY <1>2, <1>3, <1>4, <1>6, <1>7 DEF ManagerInv

\* Every step of the tasks manager keeps the invariant.
LEMMA NextManagerInv == ManagerInv /\ [Next]_vars => ManagerInv'
<1> SUFFICES ASSUME ManagerInv, [Next]_vars
             PROVE  ManagerInv'
  OBVIOUS
<1>1. IInv'
  BY QueueInvNext DEF ManagerInv
<1>2. CASE Next
  BY <1>1, <1>2, ThreadsNext, TypesNext, OnceNext, PlaceNext, ScanNext,
     ViewsNext, Zenon DEF ManagerInv, Next
<1>3. CASE UNCHANGED vars
  <2> USE DEF ManagerInv, vars, queueVars, saveVars, diskVars, scanVars,
              histVars
  <2>1. /\ UNCHANGED <<queue, popped, getter, submitted, pc, task, running,
                       place, snap, todo, born, views>>
        /\ Active' = Active
    BY <1>3 DEF Active
  <2>2. Unfinished' = Unfinished /\ Fresh' = Fresh /\ Answer' = Answer
    BY <2>1, Zenon DEF Unfinished, Fresh, Answer
  <2>3. TypeOK'
    BY <1>1, <1>3 DEF TypeOK, IInv
  <2>4. ThreadsInv'
    BY <1>3 DEF ThreadsInv, Stopped
  <2>5. OnceInv' /\ PlaceInv'
    BY <2>1, <2>2 DEF OnceInv, PlaceInv
  <2>6. ScanInv' /\ ViewsInv'
    BY <2>1, <2>2 DEF ScanInv, ViewsInv, InFullqueue
  <2> QED
    BY <1>1, <2>3, <2>4, <2>5, <2>6
<1> QED
  BY <1>2, <1>3

\* The invariant holds in every state of the tasks manager.
LEMMA ManagerInvariant == Spec => []ManagerInv
  BY InitManagerInv, NextManagerInv, PTL DEF Spec

(***************************************************************************)
(* Every variable of the tasks manager keeps its type, whatever the two    *)
(* threads do to the queue and to the state file and whenever the daemon   *)
(* stops.                                                                  *)
(***************************************************************************)
THEOREM ManagerTypes == Spec => []TypeOK
  BY ManagerInvariant, PTL DEF ManagerInv

(***************************************************************************)
(* The queue of a tasks manager is the queue of QueueManager: its order    *)
(* and its count survive crashes, saves and scans (manager.py:38-70).      *)
(***************************************************************************)
THEOREM ManagerQueue ==
    Spec => [](SemaphoreCountsQueue /\ NoSleepOnWork /\ FirstInFirstOut)
<1>1. ASSUME NEW s \in Seq(Tasks), Len(s) = 0
      PROVE  s = <<>>
  BY <1>1
<1>2. ManagerInv =>
         SemaphoreCountsQueue /\ NoSleepOnWork /\ FirstInFirstOut
  BY <1>1
     DEF ManagerInv, IInv, QueueTypeOK, SemaphoreCountsQueue, Granted,
         Unreleased, WaitsAtZero, NoSleepOnWork
<1> QED
  BY <1>2, ManagerInvariant, PTL

(***************************************************************************)
(* No scan of the history ever takes the workspace of a queued, picked or  *)
(* running task for a malformed one, for any number of tasks and crashes   *)
(* (history.py:338-376).                                                   *)
(***************************************************************************)
THEOREM ScansAreSafe == Spec => []ScanSparesUnfinished
<1>1. ManagerInv => ScanSparesUnfinished
  BY DEF ManagerInv, ScanInv, ScanSparesUnfinished
<1> QED
  BY <1>1, ManagerInvariant, PTL

(***************************************************************************)
(* A task is in the queue, running or archived when the server lists the   *)
(* history: terminate comes before the reset of running                    *)
(* (manager.py:221-222).                                                   *)
(***************************************************************************)
THEOREM NothingIsLost == Spec => []NothingFallsBetween
<1>1. ManagerInv => NothingFallsBetween
  BY DEF ManagerInv, ScanInv, NothingFallsBetween
<1> QED
  BY <1>1, ManagerInvariant, PTL

(***************************************************************************)
(* No task is run twice, not even over restarts: prerun never meets the    *)
(* workspace of an earlier run (tasks/__init__.py:305).                    *)
(***************************************************************************)
THEOREM RunOnce == Spec => []PrerunFindsNoWorkspace
<1>1. ManagerInv => PrerunFindsNoWorkspace
  <2> SUFFICES ASSUME ManagerInv, pc["worker"] = "prerun"
               PROVE  place[task] = "absent"
    BY DEF PrerunFindsNoWorkspace
  <2>1. Active = task /\ task # None
    BY ActiveIs, NoneAssumption DEF ManagerInv, ThreadsInv, ActiveCases, Busy
  <2> QED
    BY <2>1 DEF ManagerInv, PlaceInv, Fresh
<1> QED
  BY <1>1, ManagerInvariant, PTL

(***************************************************************************)
(* fullqueue, which reads the queue and then running with no lock over     *)
(* both, answers what a reader with a lock would have seen at one instant  *)
(* of the call (manager.py:105-118).                                       *)
(***************************************************************************)
THEOREM FullqueueLinearizes == Spec => FullqueueIsOneInstant
<1>1. ASSUME ManagerInv, [Next]_vars,
             pc["server"] = "fullqueue", pc'["server"] = "list"
      PROVE  snap'["server"] \in views
  <2>1. /\ pc \in [Threads -> Labels] /\ snap \in [Threads -> Seq(Tasks)]
        /\ ThreadsInv /\ TypeOK
    BY <1>1 DEF ManagerInv, TypeOK
  <2>2. ThreadsInv'
    BY <1>1, NextManagerInv DEF ManagerInv
  <2>3. CASE UNCHANGED vars
    BY <1>1, <2>3 DEF vars
  <2>4. CASE FullqueueRunning("server")
    <3>1. snap'["server"] = Answer
      BY <2>1, <2>4, Zenon DEF FullqueueRunning, Answer, Threads
    <3>2. Answer \in views
      BY <1>1 DEF ManagerInv, ViewsInv, InFullqueue, Answer
    <3> QED
      BY <3>1, <3>2
  <2>5. CASE Step
    <3> USE DEF Move, Goto, Threads
    <3>1. CASE MinorStep
      BY <1>1, <2>1, <2>2, <3>1, AsideStep DEF Aside, Busy
    <3>2. ASSUME NEW t \in Tasks, SubmitAppend(t) PROVE FALSE
      BY <1>1, <3>2 DEF SubmitAppend
    <3>3. CASE PickPop \/ PickRunning \/ PickRelease \/ Prerun \/ Terminate
               \/ ResetRunning \/ PurgePolicy \/ ClearWorkspace \/ Crash
      BY <1>1, <2>1, <3>3
         DEF PickPop, PickRunning, PickRelease, Prerun, Terminate,
             ResetRunning, PurgePolicy, ClearWorkspace, Crash
    <3>4. ASSUME NEW outcome \in Outcomes, RunEnds(outcome) PROVE FALSE
      BY <1>1, <2>1, <3>4 DEF RunEnds
    <3>5. ASSUME NEW p \in Threads, FullqueueRunning(p), p # "server"
          PROVE  FALSE
      BY <1>1, <2>1, <3>5 DEF FullqueueRunning
    <3>6. ASSUME NEW p \in Threads,
                 \/ FullqueueDump(p) \/ HistoryList(p) \/ HistoryDone(p)
                 \/ \E t \in Tasks : HistoryVisit(p, t)
          PROVE  FALSE
      BY <1>1, <2>1, <3>6 DEF FullqueueDump, HistoryList, HistoryDone,
                              HistoryVisit
    <3> QED
      BY <2>4, <2>5, StepCases, <3>1, <3>2, <3>3, <3>4, <3>5, <3>6, Zenon
  <2> QED
    BY <1>1, <2>3, <2>5 DEF Next
<1>2. ManagerInv /\ [Next]_vars =>
         [pc["server"] = "fullqueue" /\ pc'["server"] = "list"
            => snap'["server"] \in views]_vars
  BY <1>1
<1> QED
  BY <1>2, ManagerInvariant, PTL DEF Spec, FullqueueIsOneInstant

-----------------------------------------------------------------------------
(* The refinement of TaskLedger, step by step.                             *)

ArchivedTasks == {t \in Tasks : place[t] = "archived"}

\* Nothing is known, pending, active or archived at first.
LEMMA LedgerInit == Init => Ledger!Init
<1> SUFFICES ASSUME Init
             PROVE  Ledger!Init
  OBVIOUS
<1>1. ThreadsInv
  BY InitManagerInv DEF ManagerInv
<1>2. Active = None
  BY <1>1, ActiveIs DEF ActiveCases, Init, Busy, Threads, QueueInit
<1> QED
  BY <1>2 DEF Ledger!Init, Init, QueueInit

\* Every step is one of the ledger, or leaves the ledger alone.
LEMMA LedgerStep ==
    ASSUME ManagerInv, Next
    PROVE  [Ledger!Next]_(Ledger!ledger)
<1> USE DEF Move, Goto, queueVars, saveVars, diskVars, scanVars, histVars, Kept
<1>1. /\ TypeOK /\ ThreadsInv /\ OnceInv /\ PlaceInv /\ ScanInv
      /\ place \in [Tasks -> {"absent", "workspace", "archived"}]
      /\ Step
  BY DEF ManagerInv, TypeOK, Next
<1>2. ThreadsInv'
  BY NextManagerInv DEF ManagerInv
<1>3. ASSUME UNCHANGED <<born, queue, Active, ArchivedTasks>>
      PROVE  UNCHANGED Ledger!ledger
  BY <1>3 DEF Ledger!ledger, ArchivedTasks
<1>4. CASE MinorStep
  BY <1>1, <1>2, <1>3, <1>4, AsideStep DEF Aside, ArchivedTasks
<1>5. ASSUME NEW t \in Tasks, SubmitAppend(t) PROVE Ledger!Submit(t)
  BY <1>1, <1>2, <1>5, Moves DEF SubmitAppend, PutAppend, Ledger!Submit
<1>6. CASE PickPop
  <2>1. Ledger!Take
    BY <1>1, <1>2, <1>6, Moves DEF PickPop, GetPop, Ledger!Take
  <2> QED
    BY <2>1 DEF Ledger!Next
<1>7. CASE PickRunning
  BY <1>1, <1>2, <1>3, <1>7, Moves DEF PickRunning, ArchivedTasks
<1>8. CASE PickRelease
  BY <1>1, <1>2, <1>3, <1>8, Moves DEF PickRelease, Release, ArchivedTasks
<1>9. CASE Prerun
  <2>1. ArchivedTasks' = ArchivedTasks
    <3>1. \A t \in Tasks :
             place'[t] = "archived" <=> place[t] = "archived"
      BY <1>1, <1>9 DEF Prerun
    <3> QED
      BY <3>1 DEF ArchivedTasks
  <2> QED
    BY <1>1, <1>2, <1>3, <1>9, <2>1, Moves DEF Prerun
<1>10. CASE Terminate
  <2>1. /\ task \in Tasks /\ Active = task /\ Active' = Active
        /\ UNCHANGED <<born, queue>>
        /\ place' = [place EXCEPT ![task] = "archived"]
    BY <1>1, <1>2, <1>10, Moves DEF Terminate, ThreadsInv, Busy
  <2>2. ArchivedTasks' = ArchivedTasks \cup {Active}
    BY <1>1, <2>1 DEF ArchivedTasks
  <2>3. Ledger!Archive
    BY <2>1, <2>2, NoneAssumption DEF Ledger!Archive, ArchivedTasks
  <2> QED
    BY <2>3 DEF Ledger!Next
<1>11. CASE ResetRunning
  <2>1. Ledger!GiveUp
    BY <1>1, <1>2, <1>11, Moves, NoneAssumption
       DEF ResetRunning, ThreadsInv, Busy, Ledger!GiveUp
  <2> QED
    BY <2>1 DEF Ledger!Next
<1>12. CASE PurgePolicy
  <2>1. /\ task \in Tasks /\ Active = task /\ Active' = Active
        /\ UNCHANGED <<born, queue>>
        /\ place[task] = "workspace"
    BY <1>1, <1>2, <1>12, Moves DEF PurgePolicy, ThreadsInv, PlaceInv, Busy
  <2>2. ArchivedTasks' \in SUBSET ArchivedTasks
    BY <1>12 DEF PurgePolicy, ArchivedTasks
  <2>3. Ledger!Purge
    BY <2>1, <2>2, NoneAssumption DEF Ledger!Purge, ArchivedTasks
  <2> QED
    BY <2>3 DEF Ledger!Next
<1>13. ASSUME NEW outcome \in Outcomes, RunEnds(outcome)
       PROVE  Ledger!GiveUp \/ UNCHANGED Ledger!ledger
  <2>1. /\ UNCHANGED <<born, queue, place>>
        /\ Active \in Tasks
        /\ Active' \in {Active, None}
    BY <1>1, <1>2, <1>13, Moves DEF RunEnds, ThreadsInv, Busy
  <2>2. CASE Active' = Active
    BY <1>3, <2>1, <2>2 DEF ArchivedTasks
  <2>3. CASE Active' = None
    BY <2>1, <2>3, NoneAssumption DEF Ledger!GiveUp
  <2> QED
    BY <2>1, <2>2, <2>3
<1>14. ASSUME NEW p \in Threads,
              \/ FullqueueDump(p) \/ FullqueueRunning(p) \/ HistoryList(p)
              \/ HistoryDone(p)
       PROVE  UNCHANGED Ledger!ledger
  BY <1>1, <1>2, <1>3, <1>14, Moves
     DEF FullqueueDump, FullqueueRunning, HistoryList, HistoryDone,
         ArchivedTasks
<1>15. ASSUME NEW p \in Threads, NEW t \in Tasks, HistoryVisit(p, t)
       PROVE  UNCHANGED Ledger!ledger
  <2>1. \A u \in Tasks : place'[u] = "archived" <=> place[u] = "archived"
    BY <1>1, <1>15 DEF HistoryVisit
  <2>2. ArchivedTasks' = ArchivedTasks
    BY <2>1 DEF ArchivedTasks
  <2> QED
    BY <1>1, <1>2, <1>3, <1>15, <2>2, Moves DEF HistoryVisit
<1>16. CASE ClearWorkspace
  <2>1. /\ queue = <<>> /\ Active = None /\ Active' = None
        /\ UNCHANGED <<born, queue>>
    BY <1>1, <1>2, <1>16, Moves DEF ClearWorkspace, ThreadsInv, Stopped
  <2>2. \A u \in Tasks : place'[u] = "archived" => place[u] = "archived"
    BY <1>1, <1>16 DEF ClearWorkspace
  <2>3. ArchivedTasks' \in SUBSET ArchivedTasks
    BY <2>2 DEF ArchivedTasks
  <2>4. Ledger!Clear
    BY <2>1, <2>3 DEF Ledger!Clear, ArchivedTasks
  <2> QED
    BY <2>4 DEF Ledger!Next
<1>17. CASE Crash
  <2>1. Ledger!Stop
    BY <1>1, <1>2, <1>17, Moves DEF Crash, QueueReset, Ledger!Stop
  <2> QED
    BY <2>1 DEF Ledger!Next
<1> QED
  BY <1>1, StepCases, <1>4, <1>5, <1>6, <1>7, <1>8, <1>9, <1>10, <1>11,
     <1>12, <1>13, <1>14, <1>15, <1>16, <1>17, Zenon DEF Ledger!Next

(***************************************************************************)
(* The tasks manager implements the ledger of TaskLedger: for any number   *)
(* of tasks and crashes, and any interleaving of the two threads, tasks    *)
(* are taken in order and one at a time, only the task that was run is     *)
(* archived, and only a stop of the daemon loses pending ones              *)
(* (docs/modules/overview/pages/architecture.adoc:74-85).                  *)
(***************************************************************************)
THEOREM ManagerImplementsLedger == Spec => ImplementsLedger
<1>1. ManagerInv /\ [Next]_vars => [Ledger!Next]_(Ledger!ledger)
  <2>1. CASE UNCHANGED vars
    BY <2>1 DEF vars, queueVars, diskVars, histVars, Ledger!ledger, Active
  <2> QED
    BY <2>1, LedgerStep
<1> QED
  BY <1>1, LedgerInit, ManagerInvariant, PTL
     DEF Spec, ImplementsLedger, Ledger!Spec

-----------------------------------------------------------------------------
(* The client that looks for a task.                                       *)

\* The requests of a client are steps of the tasks manager or only read it, so
\* that every theorem above also holds with a client.
LEMMA LookupIsManager == LookupSpec => Spec
<1>1. LookupInit => Init
  BY DEF LookupInit
<1>2. [LookupNext]_lookupVars => [Next]_vars
  <2>1. AskHistory => Next
    BY DEF AskHistory, Next, Step, ServerRequest
  <2> QED
    BY <2>1 DEF LookupNext, AskQueue, AskRunning, Proceed, lookupVars
<1> QED
  BY <1>1, <1>2, PTL DEF LookupSpec, Spec

\* Neither in the queue, nor between the popleft and the release of the lock.
Passed(t) == t \notin Range(queue) /\ (pc["worker"] = "loop" => t # Active)

\* What a step leaves of a task that was accepted: one that has passed does not
\* come back, one that is finished stays finished and gets no task.yml any more.
Gone(t) ==
    /\ t \in born'
    /\ Passed(t) => Passed(t)'
    /\ t \notin Unfinished => t \notin Unfinished'
    /\ t \notin Unfinished /\ place'[t] = "archived" => place[t] = "archived"

\* No step of the tasks manager puts a task back.
LEMMA GoneForGood ==
    ASSUME ManagerInv, Next, NEW t \in Tasks, t \in born
    PROVE  Gone(t)
<1> USE NoneAssumption DEF Gone, Passed, Unfinished, Move, Goto, queueVars,
        saveVars, diskVars, scanVars, histVars, Kept
<1>1. /\ TypeOK /\ ThreadsInv
      /\ queue \in Seq(Tasks)
      /\ pc \in [Threads -> Labels]
      /\ "server" \in Threads /\ "worker" \in Threads
      /\ place \in [Tasks -> {"absent", "workspace", "archived"}]
      /\ Step
  BY DEF ManagerInv, TypeOK, QueueTypeOK, Next, Threads
<1>2. ThreadsInv'
  BY NextManagerInv DEF ManagerInv
<1>3. ActiveCases
  BY <1>1, ActiveIs
<1>4. CASE MinorStep
  <2>1. Aside
    BY <1>1, <1>2, <1>4, AsideStep
  <2>2. getter = "holding" \/ pc["worker"] \in Busy \/ Active = None
    BY <1>3 DEF ActiveCases
  <2> QED
    BY <1>1, <2>1, <2>2 DEF Aside, Busy
<1>5. ASSUME NEW u \in Tasks, SubmitAppend(u) PROVE Gone(t)
  <2>1. Range(queue') = Range(queue) \cup {u} /\ u # t
    BY <1>1, <1>5, RangeAppend DEF SubmitAppend, PutAppend
  <2> QED
    BY <1>1, <1>2, <1>5, <2>1, Moves DEF SubmitAppend, PutAppend
<1>6. CASE PickPop
  <2>1. Range(queue) = {Active'} \cup Range(queue')
    BY <1>1, <1>2, <1>6, Moves, RangePop DEF PickPop, GetPop
  <2> QED
    BY <1>1, <1>2, <1>6, <2>1, Moves DEF PickPop
<1>7. CASE PickRunning \/ PickRelease
  BY <1>1, <1>2, <1>7, Moves DEF PickRunning, PickRelease, Release
<1>8. CASE Prerun
  BY <1>1, <1>2, <1>8, Moves DEF Prerun
<1>9. CASE Terminate
  <2>1. task \in Tasks
    BY <1>1, <1>9 DEF Terminate, ThreadsInv, Busy
  <2> QED
    BY <1>1, <1>2, <1>9, <2>1, Moves DEF Terminate
<1>10. CASE ResetRunning
  BY <1>1, <1>2, <1>10, Moves DEF ResetRunning
<1>11. CASE PurgePolicy
  BY <1>1, <1>2, <1>11, Moves DEF PurgePolicy
<1>12. ASSUME NEW outcome \in Outcomes, RunEnds(outcome) PROVE Gone(t)
  <2>1. outcome \in {"success", "failed", "escapes", "dies"}
    BY OutcomesAssumption
  <2>2. outcome = "escapes" => Active' = None
    BY <1>1, <1>2, <1>12, ActiveIsNext
       DEF RunEnds, ThreadsInv, ActiveCases, Busy
  <2> QED
    BY <1>1, <1>2, <1>12, <2>1, <2>2, Moves DEF RunEnds
<1>13. ASSUME NEW p \in Threads,
              \/ FullqueueDump(p) \/ FullqueueRunning(p) \/ HistoryList(p)
              \/ HistoryDone(p)
       PROVE  Gone(t)
  BY <1>1, <1>2, <1>13, Moves
     DEF FullqueueDump, FullqueueRunning, HistoryList, HistoryDone, Threads
<1>14. ASSUME NEW p \in Threads, NEW u \in Tasks, HistoryVisit(p, u)
       PROVE  Gone(t)
  BY <1>1, <1>2, <1>14, Moves DEF HistoryVisit
<1>15. CASE ClearWorkspace
  BY <1>1, <1>2, <1>15, Moves DEF ClearWorkspace
<1>16. CASE Crash
  BY <1>1, <1>2, <1>16, Moves, RangeEmpty DEF Crash, QueueReset
<1> HIDE DEF Gone
<1> QED
  BY <1>1, StepCases, <1>4, <1>5, <1>6, <1>7, <1>8, <1>9, <1>10, <1>11,
     <1>12, <1>13, <1>14, <1>15, <1>16, Zenon

\* The scan that answers the client has the task to visit, if it is archived.
Scanning == pc["server"] \in {"fullqueue", "list", "visit"}

Shown(t) ==
    place[t] = "archived" =>
        /\ pc["server"] # "visit" => t \notin Range(snap["server"])
        /\ pc["server"] = "visit" => t \in todo["server"]

\* A scan ends with the task listed, or the task is not archived.
LEMMA ScanShows ==
    ASSUME ManagerInv, Next, NEW t \in Tasks, t \in born, t \notin Unfinished,
           Scanning, Shown(t)
    PROVE  \/ pc'["server"] = "down"
           \/ Lists(t) /\ ~Answered
           \/ Answered /\ place[t] # "archived"
           \/ Scanning' /\ Shown(t)'
<1> DEFINE Goal == \/ pc'["server"] = "down"
                   \/ Lists(t) /\ ~Answered
                   \/ Answered /\ place[t] # "archived"
                   \/ Scanning' /\ Shown(t)'
<1> SUFFICES Goal
  OBVIOUS
<1> USE NoneAssumption DEF Move, Goto, queueVars, saveVars, diskVars, scanVars,
        histVars, Threads, Scanning
<1>1. /\ TypeOK /\ ThreadsInv
      /\ pc \in [Threads -> Labels]
      /\ place \in [Tasks -> {"absent", "workspace", "archived"}]
      /\ snap \in [Threads -> Seq(Tasks)]
      /\ todo \in [Threads -> SUBSET Tasks]
      /\ Step
  BY DEF ManagerInv, TypeOK, Next
<1>2. ThreadsInv'
  BY NextManagerInv DEF ManagerInv
<1>3. place'[t] = "archived" => place[t] = "archived"
  BY GoneForGood DEF Gone
<1>4. ASSUME /\ pc'["server"] = pc["server"]
             /\ snap'["server"] = snap["server"]
             /\ todo'["server"] = todo["server"]
      PROVE  Goal
  BY <1>3, <1>4 DEF Shown
<1>5. CASE MinorStep
  BY <1>1, <1>2, <1>4, <1>5, AsideStep DEF Aside, Busy
<1>6. ASSUME NEW u \in Tasks, SubmitAppend(u) PROVE Goal
  BY <1>1, <1>6 DEF SubmitAppend
<1>7. CASE PickPop \/ PickRunning \/ PickRelease \/ Prerun \/ Terminate
           \/ ResetRunning \/ PurgePolicy
  BY <1>1, <1>4, <1>7 DEF PickPop, PickRunning, PickRelease, Prerun,
                          Terminate, ResetRunning, PurgePolicy
<1>8. ASSUME NEW outcome \in Outcomes, RunEnds(outcome) PROVE Goal
  BY <1>1, <1>4, <1>8 DEF RunEnds
<1>9. ASSUME NEW p \in Threads, p # "server",
             \/ FullqueueDump(p) \/ FullqueueRunning(p) \/ HistoryList(p)
             \/ HistoryDone(p) \/ \E u \in Tasks : HistoryVisit(p, u)
      PROVE  Goal
  BY <1>1, <1>4, <1>9 DEF FullqueueDump, FullqueueRunning, HistoryList,
                          HistoryDone, HistoryVisit
<1>10. CASE FullqueueDump("server")
  BY <1>1, <1>10 DEF FullqueueDump
<1>11. CASE FullqueueRunning("server")
  <2>1. running # None =>
           Range(<<running>> \o snap["server"])
             = {running} \cup Range(snap["server"])
    BY <1>1, RangeCons DEF TypeOK
  <2>2. /\ pc["server"] = "fullqueue" /\ pc'["server"] = "list"
        /\ Range(snap'["server"])
             = Range(snap["server"]) \cup ({running} \ {None})
    BY <1>1, <1>11, <2>1 DEF FullqueueRunning
  <2>3. running = t => place[t] # "archived"
    BY DEF ManagerInv, PlaceInv, Unfinished
  <2> QED
    BY <1>3, <2>2, <2>3 DEF Shown
<1>12. CASE HistoryList("server")
  <2>1. /\ pc["server"] = "list" /\ pc'["server"] = "visit"
        /\ todo'["server"] =
             {u \in Tasks : place[u] # "absent"} \ Range(snap["server"])
    BY <1>1, <1>12 DEF HistoryList
  <2> QED
    BY <1>3, <2>1 DEF Shown
<1>13. ASSUME NEW u \in Tasks, HistoryVisit("server", u) PROVE Goal
  <2>1. /\ pc["server"] = "visit" /\ pc' = pc
    BY <1>13 DEF HistoryVisit
  <2> QED
    BY <1>3, <2>1 DEF Shown, Lists, Answered
<1>14. CASE HistoryDone("server")
  <2>1. /\ pc["server"] = "visit" /\ pc'["server"] = "loop"
        /\ todo["server"] = {}
    BY <1>1, <1>14 DEF HistoryDone
  <2> QED
    BY <2>1 DEF Shown, Answered
<1>15. CASE ClearWorkspace \/ Crash
  BY <1>1, <1>15 DEF ClearWorkspace, Crash
<1> QED
  BY <1>1, StepCases, <1>5, <1>6, <1>7, <1>8, <1>9, <1>10, <1>11, <1>12,
     <1>13, <1>14, <1>15, Zenon

\* What a step of the tasks manager makes of the request of the client.
LEMMA ProceedCases ==
    ASSUME Proceed
    PROVE  /\ looking' = IF stage' = "idle" THEN None ELSE looking
           /\ \/ stage' = "idle"
              \/ stage = "scan" /\ stage' = "seen"
              \/ stage = "scan" /\ Answered /\ stage' = "lost"
              \/ /\ stage' = stage
                 /\ pc'["server"] # "down"
                 /\ stage = "scan" => ~Lists(looking) /\ ~Answered
<1>1. looking' = IF stage' = "idle" THEN None ELSE looking
  BY DEF Proceed
<1>2. CASE pc'["server"] = "down"
  BY <1>1, <1>2 DEF Proceed
<1>3. CASE pc'["server"] # "down" /\ stage = "scan" /\ Lists(looking)
  BY <1>1, <1>3 DEF Proceed
<1>4. CASE pc'["server"] # "down" /\ stage = "scan" /\ ~Lists(looking)
  BY <1>1, <1>4 DEF Proceed
<1>5. CASE pc'["server"] # "down" /\ stage # "scan"
  BY <1>1, <1>5 DEF Proceed
<1> QED
  BY <1>2, <1>3, <1>4, <1>5

\* Every request, and every step between two requests, keeps LookupInv.
LEMMA LookupInvNext ==
    ASSUME ManagerInv, LookupInv, LookupNext
    PROVE  LookupInv'
<1> USE NoneAssumption
<1>1. /\ TypeOK /\ ThreadsInv /\ OnceInv /\ ActiveCases
      /\ pc \in [Threads -> Labels] /\ snap \in [Threads -> Seq(Tasks)]
      /\ queue \in Seq(Tasks) /\ submitted \in Seq(Tasks)
  BY ActiveIs DEF ManagerInv, TypeOK, QueueTypeOK
<1>2. ASSUME NEW t \in Tasks, AskQueue(t) PROVE LookupInv'
  <2>1. t \in born /\ t \notin Range(queue)
    BY <1>1, <1>2 DEF AskQueue, Dump, OnceInv
  <2>2. getter # "holding"
    BY <1>2 DEF AskQueue, Dump, ManagerInv, IInv, LockHeldByGetter
  <2>3. pc["worker"] = "loop" => t # Active
    BY <1>1, <2>2 DEF ActiveCases, Busy
  <2>4. /\ UNCHANGED <<born, queue, pc, Active>>
        /\ looking' = t /\ stage' = "running"
    BY <1>2 DEF AskQueue, vars, queueVars, histVars, Active
  <2> QED
    BY <2>1, <2>3, <2>4 DEF LookupInv
<1>3. CASE AskRunning
  <2>1. UNCHANGED <<born, queue, pc, Active, Unfinished>>
    BY <1>3 DEF AskRunning, vars, queueVars, histVars, Active, Unfinished
  <2>2. running # looking => looking \notin Unfinished
    BY <1>1, <1>3 DEF AskRunning, LookupInv, Unfinished, ActiveCases,
                      ThreadsInv, Busy
  <2> QED
    BY <1>3, <2>1, <2>2 DEF AskRunning, LookupInv
<1>4. CASE AskHistory
  <2>1. Next
    BY <1>4 DEF AskHistory, Next, Step, ServerRequest
  <2>2. /\ stage = "history" /\ stage' = "scan" /\ looking' = looking
        /\ looking \in Tasks /\ looking \in born /\ Passed(looking)
        /\ looking \notin Unfinished
    BY <1>4 DEF AskHistory, LookupInv, Passed
  <2>3. looking' \in born' /\ Passed(looking)' /\ looking' \notin Unfinished'
    <3>1. PICK t : t = looking
      OBVIOUS
    <3>2. Gone(t)
      BY <2>1, <2>2, <3>1, GoneForGood
    <3> QED
      BY <2>2, <3>1, <3>2 DEF Gone, Passed
  <2>4. pc'["server"] = "fullqueue" /\ snap'["server"] = queue
    BY <1>1, <1>4 DEF AskHistory, FullqueueDump, Dump, Goto, Threads
  <2> QED
    BY <2>2, <2>3, <2>4 DEF LookupInv, Passed
<1>5. CASE Proceed
  <2>1. Next
    BY <1>5 DEF Proceed
  <2>2. CASE stage' = "idle"
    BY <2>2 DEF LookupInv
  <2>3. ASSUME stage' # "idle", stage # "idle"
        PROVE  LookupInv'
    <3>1. /\ looking' = looking
          /\ looking \in Tasks /\ looking \in born /\ Passed(looking)
      BY <1>5, <2>3, ProceedCases DEF LookupInv, Passed
    <3>2. /\ looking' \in born'
          /\ Passed(looking)'
          /\ looking \notin Unfinished => looking' \notin Unfinished'
          /\ looking \notin Unfinished /\ place'[looking'] = "archived"
               => place[looking] = "archived"
      <4>1. PICK t : t = looking
        OBVIOUS
      <4>2. Gone(t)
        BY <2>1, <3>1, <4>1, GoneForGood
      <4> QED
        BY <3>1, <4>1, <4>2 DEF Gone, Passed
    <3>3. CASE stage = "scan"
      <4>1. looking \notin Unfinished /\ Scanning /\ Shown(looking)
        BY <3>3 DEF LookupInv, Scanning, Shown
      <4>2. \/ pc'["server"] = "down"
            \/ Lists(looking) /\ ~Answered
            \/ Answered /\ place[looking] # "archived"
            \/ Scanning' /\ Shown(looking)'
        <5>1. PICK t : t = looking
          OBVIOUS
        <5>2. \/ pc'["server"] = "down"
              \/ Lists(t) /\ ~Answered
              \/ Answered /\ place[t] # "archived"
              \/ Scanning' /\ Shown(t)'
          BY <2>1, <3>1, <4>1, <5>1, ScanShows
        <5> QED
          BY <3>1, <5>1, <5>2 DEF Shown, Lists
      <4>3. CASE stage' = "seen"
        BY <3>1, <3>2, <4>1, <4>3 DEF LookupInv, Passed
      <4>4. CASE stage' = "lost"
        BY <1>5, <3>1, <3>2, <3>3, <4>1, <4>2, <4>4, ProceedCases
           DEF LookupInv, Passed, Answered, Scanning
      <4>5. CASE stage' = "scan"
        BY <1>5, <3>1, <3>2, <3>3, <4>1, <4>2, <4>5, ProceedCases
           DEF LookupInv, Passed, Scanning, Shown
      <4> QED
        BY <1>5, <2>3, <3>3, <4>3, <4>4, <4>5, ProceedCases
    <3>4. CASE stage # "scan"
      BY <1>5, <2>3, <3>1, <3>2, <3>4, ProceedCases DEF LookupInv, Passed
    <3> QED
      BY <3>3, <3>4
  <2>4. stage = "idle" => stage' = "idle"
    BY <1>5, ProceedCases
  <2> QED
    BY <2>2, <2>3, <2>4
<1> QED
  BY <1>2, <1>3, <1>4, <1>5 DEF LookupNext

(***************************************************************************)
(* A client that asks for the queue, the running task and the history in   *)
(* three requests misses no task that is queued, running or archived, with *)
(* any number of other clients, tasks and crashes in between               *)
(* (src/fatbuildr/protocols/dbus/client.py:286-296).                       *)
(***************************************************************************)
THEOREM LookupIsSafe == LookupSpec => []LookupFinds
<1>1. LookupInit => LookupInv
  BY DEF LookupInit, LookupInv
<1>2. ManagerInv /\ LookupInv /\ [LookupNext]_lookupVars => LookupInv'
  <2>1. ASSUME LookupInv, UNCHANGED lookupVars PROVE LookupInv'
    <3>1. /\ UNCHANGED <<queue, getter, popped, pc, task, place, snap, todo,
                         born, stage, looking>>
          /\ Active' = Active
      BY <2>1 DEF lookupVars, vars, queueVars, diskVars, scanVars, histVars,
                  Active
    <3> QED
      BY <2>1, <3>1 DEF LookupInv, Unfinished
  <2> QED
    BY <2>1, LookupInvNext
<1>3. LookupInv => LookupFinds
  BY DEF LookupInv, LookupFinds
<1> QED
  BY <1>1, <1>2, <1>3, LookupIsManager, ManagerInvariant, PTL DEF LookupSpec
=============================================================================
