---------------------------- MODULE QueueManager ----------------------------
(***************************************************************************)
(* The queue of one Fatbuildr instance: classes InterruptableSemaphore and *)
(* QueueManager of src/fatbuildr/tasks/manager.py.                         *)
(*                                                                         *)
(* Two threads meet here.  The server thread (the D-Bus main loop, which   *)
(* runs every handler of every instance one after the other) calls put and *)
(* dump.  The worker thread of the instance calls get and release, and     *)
(* dump outside of the section between them.  The timer thread only calls  *)
(* interrupt_get.  A step of this module is what one thread does between   *)
(* two points where another can run: the append of put takes no lock, the  *)
(* semaphore is released under its own condition, and get keeps            *)
(* _state_lock when it returns an element, until release is called.        *)
(***************************************************************************)
EXTENDS Integers, Sequences, Functions

CONSTANTS Tasks,    \* identifiers of the tasks clients may submit
          None      \* no task

ASSUME NoneAssumption == None \notin Tasks

VARIABLES
    queue,      \* _queue, the deque of submissions
    count,      \* _count._value, the value of the semaphore
    stateLock,  \* _state_lock is held (only get acquires it across steps)
    putter,     \* where the server thread is in put
    getter,     \* where the worker thread is in get and release
    popped,     \* the element get returns, until release
    submitted,  \* history: every element put appended, in order
    taken       \* history: every element get popped, in order

queueVars ==
    <<queue, count, stateLock, putter, getter, popped, submitted, taken>>

PutterState == {"out", "appended"}

(***************************************************************************)
(* "waiting": blocked in _cond.wait.  "woken": wait has returned, whatever *)
(* the cause, and acquire is about to return False.  "granted": acquire    *)
(* has returned True.  "locked": _state_lock is acquired.  "holding":      *)
(* popleft is done and _state_lock is still held.                          *)
(***************************************************************************)
GetterState == {"out", "waiting", "woken", "granted", "locked", "holding"}

QueueTypeOK ==
    /\ queue \in Seq(Tasks)
    /\ count \in Nat
    /\ stateLock \in BOOLEAN
    /\ putter \in PutterState
    /\ getter \in GetterState
    /\ popped \in Tasks \cup {None}
    /\ submitted \in Seq(Tasks)
    /\ taken \in Seq(Tasks)

QueueInit ==
    /\ queue = <<>>
    /\ count = 0
    /\ stateLock = FALSE
    /\ putter = "out"
    /\ getter = "out"
    /\ popped = None
    /\ submitted = <<>>
    /\ taken = <<>>

\* A new process: the same values, as a step.
QueueReset ==
    /\ queue' = <<>>
    /\ count' = 0
    /\ stateLock' = FALSE
    /\ putter' = "out"
    /\ getter' = "out"
    /\ popped' = None
    /\ submitted' = <<>>
    /\ taken' = <<>>

-----------------------------------------------------------------------------
(* put: the append, then the release of the semaphore.                     *)

\* submit draws a new UUID for every task: an identifier is put only once.
PutAppend(t) ==
    /\ putter = "out"
    /\ t \notin Range(submitted)
    /\ queue' = Append(queue, t)
    /\ submitted' = Append(submitted, t)
    /\ putter' = "appended"
    /\ UNCHANGED <<count, stateLock, getter, popped, taken>>

\* Mutant: the waiting thread is not notified.
PutRelease_Silent ==
    /\ putter = "appended"
    /\ count' = count + 1
    /\ putter' = "out"
    /\ UNCHANGED <<queue, stateLock, getter, popped, submitted, taken>>

\* Semaphore.release adds one and notifies one thread that waits, if any.
PutRelease ==
    /\ putter = "appended"
    /\ count' = count + 1
    /\ putter' = "out"
    /\ getter' = IF getter = "waiting" THEN "woken" ELSE getter
    /\ UNCHANGED <<queue, stateLock, popped, submitted, taken>>

-----------------------------------------------------------------------------
(* get and release.                                                        *)

\* The semaphore has a value to take: acquire returns True without waiting.
AcquireTake ==
    /\ getter = "out"
    /\ count # 0
    /\ count' = count - 1
    /\ getter' = "granted"
    /\ UNCHANGED <<queue, stateLock, putter, popped, submitted, taken>>

\* The value is zero: wait.  Test and wait are under the same condition lock.
AcquireWait ==
    /\ getter = "out"
    /\ count = 0
    /\ getter' = "waiting"
    /\ UNCHANGED <<queue, count, stateLock, putter, popped, submitted, taken>>

\* The timeout of get expires.
AcquireTimeout ==
    /\ getter = "waiting"
    /\ getter' = "woken"
    /\ UNCHANGED <<queue, count, stateLock, putter, popped, submitted, taken>>

\* Mutant: acquire takes one after the wait, and still returns False.
GetNothing_Takes ==
    /\ getter = "woken"
    /\ getter' = "out"
    /\ count' = IF count > 0 THEN count - 1 ELSE count
    /\ UNCHANGED <<queue, stateLock, putter, popped, submitted, taken>>

\* After a wait acquire returns False and takes nothing, even when a release
\* woke it: get returns None and the element is left to the next call.
GetNothing ==
    /\ getter = "woken"
    /\ getter' = "out"
    /\ UNCHANGED <<queue, count, stateLock, putter, popped, submitted, taken>>

GetLock ==
    /\ getter = "granted"
    /\ ~stateLock
    /\ stateLock' = TRUE
    /\ getter' = "locked"
    /\ UNCHANGED <<queue, count, putter, popped, submitted, taken>>

\* Mutant: pop instead of popleft.
GetPop_Last ==
    /\ getter = "locked"
    /\ queue # <<>>
    /\ popped' = queue[Len(queue)]
    /\ queue' = SubSeq(queue, 1, Len(queue) - 1)
    /\ taken' = Append(taken, popped')
    /\ getter' = "holding"
    /\ UNCHANGED <<count, stateLock, putter, submitted>>

\* popleft would raise IndexError on an empty deque: see PopFindsElement.
GetPop ==
    /\ getter = "locked"
    /\ queue # <<>>
    /\ popped' = Head(queue)
    /\ queue' = Tail(queue)
    /\ taken' = Append(taken, Head(queue))
    /\ getter' = "holding"
    /\ UNCHANGED <<count, stateLock, putter, submitted>>

Release ==
    /\ getter = "holding"
    /\ stateLock' = FALSE
    /\ getter' = "out"
    /\ popped' = None
    /\ UNCHANGED <<queue, count, putter, submitted, taken>>

-----------------------------------------------------------------------------
(* interrupt_get and dump.                                                 *)

\* A notify that finds no thread waiting has no effect and is not remembered.
InterruptGet ==
    /\ getter' = IF getter = "waiting" THEN "woken" ELSE getter
    /\ UNCHANGED <<queue, count, stateLock, putter, popped, submitted, taken>>

\* Mutant: get takes _state_lock before it waits for the semaphore.
Dump_Waits(copy) ==
    /\ ~stateLock
    /\ getter \notin {"waiting", "woken"}
    /\ copy = queue

\* dump takes _state_lock, copies the deque and releases the lock.  It blocks
\* while get's caller holds the lock.
Dump(copy) == ~stateLock /\ copy = queue

-----------------------------------------------------------------------------

QueueNext ==
    \/ \E t \in Tasks : PutAppend(t)
    \/ PutRelease
    \/ AcquireTake
    \/ AcquireWait
    \/ AcquireTimeout
    \/ GetNothing
    \/ GetLock
    \/ GetPop
    \/ Release
    \/ InterruptGet

QueueSpec == QueueInit /\ [][QueueNext]_queueVars

-----------------------------------------------------------------------------
(* Properties.                                                             *)

\* Elements the worker has been granted by the semaphore and not yet popped.
Granted == IF getter \in {"granted", "locked"} THEN 1 ELSE 0

\* Elements appended whose semaphore release is still to come.
Unreleased == IF putter = "appended" THEN 1 ELSE 0

(***************************************************************************)
(* The semaphore counts exactly the elements of the deque, up to the one   *)
(* put is adding and the one get is taking, although neither the append    *)
(* nor the popleft is done under the condition of the semaphore            *)
(* (QueueManager.put and get, manager.py:62-70).                           *)
(***************************************************************************)
SemaphoreCountsQueue == Len(queue) = count + Granted + Unreleased

(***************************************************************************)
(* The popleft of get never meets an empty deque: an IndexError there      *)
(* would leave _state_lock held for ever, and block every dump of the      *)
(* server thread behind it (manager.py:66-70).                             *)
(***************************************************************************)
PopFindsElement == getter = "locked" => queue # <<>>

(***************************************************************************)
(* No lost wakeup: the worker never sleeps on the condition while a        *)
(* submission whose put has returned is in the deque (manager.py:38-46,    *)
(* 62-64).                                                                 *)
(***************************************************************************)
NoSleepOnWork == getter = "waiting" /\ putter = "out" => queue = <<>>

(***************************************************************************)
(* First in, first out, nothing lost and nothing taken twice: what put     *)
(* accepted is what get returned followed by what is still in the deque.   *)
(***************************************************************************)
FirstInFirstOut == submitted = taken \o queue

\* _state_lock is held exactly between the acquire in get and release.
LockHeldByGetter == stateLock <=> getter \in {"locked", "holding"}
=============================================================================
