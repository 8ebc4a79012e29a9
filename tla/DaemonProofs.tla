---------------------------- MODULE DaemonProofs ----------------------------
(***************************************************************************)
(* What the threads of the daemon never do, for any instances and tasks,   *)
(* and any number of requests, dead workers and restarts.                  *)
(*                                                                         *)
(* The argument is about what a worker may find between two of its steps:  *)
(* only it takes tasks from its queue, only it registers and unregisters   *)
(* its instance, and only a request puts a task.  Every request resets the *)
(* timer; so, once the time has expired, no task is put until a reset.     *)
(***************************************************************************)
EXTENDS Daemon, SequenceTheorems, TLAPS

HasRequest == {"auth", "put", "notify", "reply"}

\* The handler of the server thread has a request, whose task is drawn.
RequestShape ==
    server \in HasRequest => request \in Requests /\ request.task \in born

\* The task is in the queue and the semaphore does not count it yet.
Putting(i) == server = "notify" /\ request.instance = i

QueueShape ==
    \A i \in Instances :
        /\ Range(queue[i]) \subseteq born
        /\ ~exited => Len(queue[i]) = count[i] + (IF Putting(i) THEN 1 ELSE 0)
        /\ worker[i] = "waiting" => count[i] = 0

\* When a worker is registered, and what a registered one knows of its queue.
RegisteredShape ==
    \A i \in Instances :
        /\ worker[i] \in {"run", "dead"} => i \in registered
        /\ worker[i] \in {"remaining", "left"} => i \notin registered
        /\ worker[i] \in {"notask", "pick", "waiting"} /\ i \in registered
              => queue[i] # <<>>

\* All the threads of a process that has ended have ended.
ExitShape ==
    /\ \A i \in Instances : worker[i] = "killed" => exited
    /\ exited => /\ server = "stopped" /\ timer = "left"
                 /\ \A i \in Instances :
                       worker[i] \in {"left", "dead", "killed"}

\* Once the time has expired nothing is put, so that a worker that is not
\* registered has nothing to do, and the timer thread knows that.
ExpiredShape ==
    ~SlowAuth /\ expired =>
        /\ server \in {"idle", "stopped"}
        /\ \A i \in Instances :
              /\ i \notin registered /\ worker[i] \notin {"left", "killed"}
                    => queue[i] = <<>> /\ worker[i] # "picked"
              /\ worker[i] = "unregister" => queue[i] = <<>>
        /\ timer = "remaining" => registered = {}

DaemonInv ==
    /\ TypeOK
    /\ RequestShape
    /\ QueueShape
    /\ RegisteredShape
    /\ ExitShape
    /\ ExpiredShape

-----------------------------------------------------------------------------
(* Lemmas on sequences.                                                    *)

LEMMA RangeAppend ==
  ASSUME NEW S, NEW s \in Seq(S), NEW x
  PROVE  Range(Append(s, x)) = Range(s) \cup {x}
  <1>1. \A k \in DOMAIN s : Append(s, x)[k] = s[k]
    OBVIOUS
  <1>2. /\ DOMAIN s = 1..Len(s)
        /\ DOMAIN Append(s, x) = 1..(Len(s) + 1)
        /\ Append(s, x)[Len(s) + 1] = x
    OBVIOUS
  <1>3. Len(s) \in Nat
    OBVIOUS
  <1>4. 1..(Len(s) + 1) = 1..Len(s) \cup {Len(s) + 1}
    BY <1>3
  <1>5. QED
    BY <1>1, <1>2, <1>4 DEF Range

LEMMA RangePop ==
  ASSUME NEW S, NEW s \in Seq(S), s # <<>>
  PROVE  Head(s) \in Range(s) /\ Range(Tail(s)) \subseteq Range(s)
  <1>1. 1 \in DOMAIN s /\ Head(s) = s[1]
    OBVIOUS
  <1>2. \A k \in DOMAIN Tail(s) : k + 1 \in DOMAIN s /\ Tail(s)[k] = s[k + 1]
    OBVIOUS
  <1>3. QED
    BY <1>1, <1>2 DEF Range

-----------------------------------------------------------------------------
(* The invariant.                                                          *)

LEMMA DaemonInitInv == Init => DaemonInv
  <1> SUFFICES ASSUME Init
               PROVE  DaemonInv
    OBVIOUS
  <1>1. TypeOK
    <2>1. /\ queue \in [Instances -> Seq(Tasks)]
          /\ count \in [Instances -> Nat]
          /\ worker \in [Instances -> WorkerLabels]
      BY DEF Init, WorkerLabels
    <2>2. QED
      BY <2>1 DEF Init, TypeOK, ServerLabels, TimerLabels
  <1>2. RequestShape /\ QueueShape
    BY DEF Init, RequestShape, HasRequest, QueueShape, Putting, Range
  <1>3. RegisteredShape /\ ExitShape /\ ExpiredShape
    BY DEF Init, RegisteredShape, ExitShape, ExpiredShape
  <1>4. QED
    BY <1>1, <1>2, <1>3 DEF DaemonInv

(* A worker goes from one of its steps to the next and changes nothing     *)
(* else: the next step must be one it may be at.                           *)
LEMMA WorkerMoves ==
  ASSUME DaemonInv, NEW i \in Instances,
         NEW to \in WorkerLabels \ {"killed"},
         worker[i] \notin {"left", "dead", "killed"},
         worker' = [worker EXCEPT ![i] = to],
         UNCHANGED <<queueVars, serverVars, timerVars, registered, expired,
                     exited, historyVars>>,
         to = "waiting" => count[i] = 0,
         to \in {"run", "dead"} => i \in registered,
         to \in {"remaining", "left"} => i \notin registered,
         to \in {"notask", "pick", "waiting"} /\ i \in registered
            => queue[i] # <<>>,
         ~SlowAuth /\ expired =>
            /\ i \notin registered /\ to # "left"
                  => queue[i] = <<>> /\ to # "picked"
            /\ to = "unregister" => queue[i] = <<>>
  PROVE  DaemonInv'
  <1> USE DEF queueVars, serverVars, timerVars, historyVars
  <1>1. /\ worker \in [Instances -> WorkerLabels]
        /\ worker' \in [Instances -> WorkerLabels]
        /\ worker'[i] = to
        /\ \A k \in Instances \ {i} : worker'[k] = worker[k]
    BY DEF DaemonInv, TypeOK
  <1>2. TypeOK'
    BY <1>1 DEF DaemonInv, TypeOK, Requests
  <1>3. RequestShape'
    BY DEF DaemonInv, RequestShape, Requests
  <1>4. QueueShape'
    BY <1>1 DEF DaemonInv, QueueShape, Putting
  <1>5. RegisteredShape'
    BY <1>1 DEF DaemonInv, RegisteredShape
  <1>6. ExitShape'
    BY <1>1 DEF DaemonInv, ExitShape
  <1>7. ExpiredShape'
    BY <1>1 DEF DaemonInv, ExpiredShape
  <1>8. QED
    BY <1>2, <1>3, <1>4, <1>5, <1>6, <1>7 DEF DaemonInv

(* The timer thread goes from one of its steps to the next: it may only    *)
(* find that no worker is registered when that is so.                      *)
LEMMA TimerMoves ==
  ASSUME DaemonInv, timer # "left", timer' \in TimerLabels,
         toNotify' \subseteq Instances,
         {connected', quitting', errored'} \subseteq BOOLEAN,
         timer' = "remaining" => registered = {},
         UNCHANGED <<queueVars, worker, server, request, registered, expired,
                     exited, historyVars>>
  PROVE  DaemonInv'
  <1> USE DEF queueVars, historyVars
  <1>1. TypeOK'
    BY DEF DaemonInv, TypeOK, Requests
  <1>2. RequestShape'
    BY DEF DaemonInv, RequestShape, Requests
  <1>3. QueueShape'
    BY DEF DaemonInv, QueueShape, Putting
  <1>4. RegisteredShape'
    BY DEF DaemonInv, RegisteredShape
  <1>5. ExitShape'
    BY DEF DaemonInv, ExitShape
  <1>6. ExpiredShape'
    BY DEF DaemonInv, ExpiredShape
  <1>7. QED
    BY <1>1, <1>2, <1>3, <1>4, <1>5, <1>6 DEF DaemonInv

(* The server thread goes from one of its steps to the next and leaves the *)
(* queues alone.                                                           *)
LEMMA ServerMoves ==
  ASSUME DaemonInv, server # "stopped", server' \in ServerLabels,
         server # "notify", server' # "notify",
         request' \in Requests \cup {NoRequest},
         server' \in HasRequest =>
            request' \in Requests /\ request'.task \in born',
         connected' \in BOOLEAN,
         expired' => expired,
         ~SlowAuth /\ expired' => server' \in {"idle", "stopped"},
         expired' \in BOOLEAN,
         born \subseteq born', born' \subseteq Tasks,
         accepted' \subseteq born',
         UNCHANGED <<queueVars, worker, quitting, timerVars, registered,
                     exited, taken>>
  PROVE  DaemonInv'
  <1> USE DEF queueVars, timerVars
  <1>1. TypeOK'
    BY DEF DaemonInv, TypeOK, Requests
  <1>2. RequestShape'
    BY DEF DaemonInv, RequestShape, Requests
  <1>3. QueueShape'
    BY DEF DaemonInv, QueueShape, Putting
  <1>4. RegisteredShape'
    BY DEF DaemonInv, RegisteredShape
  <1>5. ExitShape'
    BY DEF DaemonInv, ExitShape
  <1>6. ExpiredShape'
    BY DEF DaemonInv, ExpiredShape
  <1>7. QED
    BY <1>1, <1>2, <1>3, <1>4, <1>5, <1>6 DEF DaemonInv

(* The steps of the server thread that put nothing.                        *)
LEMMA ServerInv ==
  ASSUME DaemonInv,
         \/ Submission \/ Refuse
         \/ ServerStart \/ Authorize \/ Reply \/ ServerStop
  PROVE  DaemonInv'
  <1> USE DEF DaemonInv, TypeOK, ServerLabels, HasRequest
  <1>1. CASE Submission
    <2>1. PICK i \in Instances, t \in Tasks : Receive(i, t)
      BY <1>1 DEF Submission
    <2>2. request' \in Requests /\ request'.task \in born'
      BY <2>1 DEF Receive, Requests
    <2>3. QED
      BY <2>1, <2>2, ServerMoves DEF Receive, ServerGoto
  <1>2. CASE Refuse
    BY <1>2, ServerMoves DEF Refuse, ServerGoto, historyVars
  <1>3. CASE ServerStart
    BY <1>3, ServerMoves
    DEF ServerStart, ServerGoto, historyVars, ExpiredShape
  <1>4. CASE Authorize
    BY <1>4, ServerMoves
    DEF Authorize, ServerGoto, historyVars, RequestShape, ExpiredShape
  <1>5. CASE Reply
    <2>1. request.task \in born
      BY <1>5 DEF Reply, ServerGoto, RequestShape
    <2>2. QED
      BY <1>5, <2>1, ServerMoves DEF Reply, ServerGoto, historyVars
  <1>6. CASE ServerStop
    BY <1>6, ServerMoves DEF ServerStop, ServerGoto, historyVars
  <1>7. QED
    BY <1>1, <1>2, <1>3, <1>4, <1>5, <1>6

(* The steps that put a task.                                              *)
LEMMA PutInv ==
  ASSUME DaemonInv, PutAppend \/ PutRelease
  PROVE  DaemonInv'
  <1> DEFINE i == request.instance
  <1> USE DEF queueVars, serverVars, timerVars, historyVars
  <1>1. /\ i \in Instances /\ request.task \in born
        /\ request.task \in Tasks /\ request \in Requests
        /\ ~exited
        /\ ~SlowAuth => ~expired
    BY DEF PutAppend, PutRelease, ServerGoto, DaemonInv, RequestShape,
           HasRequest, Requests, ExitShape, ExpiredShape
  <1>2. CASE PutAppend
    <2>1. /\ queue \in [Instances -> Seq(Tasks)]
          /\ queue' = [queue EXCEPT ![i] = Append(queue[i], request.task)]
      BY <1>2 DEF PutAppend, DaemonInv, TypeOK
    <2>2. /\ queue'[i] = Append(queue[i], request.task)
          /\ \A k \in Instances \ {i} : queue'[k] = queue[k]
          /\ queue' \in [Instances -> Seq(Tasks)]
      BY <1>1, <2>1
    <2>3. /\ Len(queue'[i]) = Len(queue[i]) + 1
          /\ Range(queue'[i]) = Range(queue[i]) \cup {request.task}
          /\ queue'[i] # <<>>
      <3>1. queue[i] \in Seq(Tasks)
        BY <1>1, <2>1
      <3>2. Range(Append(queue[i], request.task))
                = Range(queue[i]) \cup {request.task}
        BY <3>1, RangeAppend
      <3>3. QED
        BY <1>1, <2>2, <3>1, <3>2
    <2>4. TypeOK'
      BY <1>2, <2>2 DEF PutAppend, ServerGoto, DaemonInv, TypeOK, ServerLabels
    <2>5. RequestShape'
      BY <1>1, <1>2 DEF PutAppend, RequestShape
    <2>6. QueueShape'
      <3> SUFFICES ASSUME NEW k \in Instances
                   PROVE  /\ Range(queue'[k]) \subseteq born'
                          /\ ~exited' => Len(queue'[k]) =
                                count'[k] + (IF Putting(k)' THEN 1 ELSE 0)
                          /\ worker'[k] = "waiting" => count'[k] = 0
        BY DEF QueueShape
      <3>1. /\ server = "put" /\ server' = "notify"
            /\ UNCHANGED <<count, worker, request, exited, born>>
        BY <1>2 DEF PutAppend, ServerGoto
      <3>2. Len(queue[k]) = count[k] /\ count[k] \in Nat
        BY <1>1, <3>1 DEF DaemonInv, QueueShape, Putting, TypeOK
      <3>3. Putting(k)' <=> k = i
        BY <3>1 DEF Putting
      <3>4. /\ Range(queue[k]) \subseteq born
            /\ worker[k] = "waiting" => count[k] = 0
        BY DEF DaemonInv, QueueShape
      <3>5. CASE k = i
        BY <1>1, <2>3, <3>1, <3>2, <3>3, <3>4, <3>5
      <3>6. CASE k # i
        BY <2>2, <3>1, <3>2, <3>3, <3>4, <3>6
      <3>7. QED
        BY <3>5, <3>6
    <2>7. RegisteredShape'
      BY <1>2, <2>2, <2>3 DEF PutAppend, DaemonInv, RegisteredShape
    <2>8. ExitShape'
      BY <1>1, <1>2 DEF PutAppend, DaemonInv, ExitShape
    <2>9. ExpiredShape'
      BY <1>1, <1>2 DEF PutAppend, ExpiredShape
    <2>10. QED
      BY <2>4, <2>5, <2>6, <2>7, <2>8, <2>9 DEF DaemonInv
  <1>3. CASE PutRelease
    <2>1. /\ count' = [count EXCEPT ![i] = count[i] + 1]
          /\ worker' = [worker EXCEPT ![i] =
                           IF worker[i] = "waiting" THEN "woken"
                           ELSE worker[i]]
          /\ count \in [Instances -> Nat]
          /\ worker \in [Instances -> WorkerLabels]
      BY <1>3 DEF PutRelease, DaemonInv, TypeOK
    <2>2. /\ count' \in [Instances -> Nat] /\ count'[i] = count[i] + 1
          /\ \A k \in Instances \ {i} : count'[k] = count[k]
      BY <1>1, <2>1
    <2>3. /\ worker' \in [Instances -> WorkerLabels]
          /\ worker'[i] = IF worker[i] = "waiting" THEN "woken" ELSE worker[i]
          /\ \A k \in Instances \ {i} : worker'[k] = worker[k]
      BY <1>1, <2>1 DEF WorkerLabels
    <2>4. TypeOK'
      BY <1>3, <2>2, <2>3
      DEF PutRelease, ServerGoto, DaemonInv, TypeOK, ServerLabels
    <2>5. RequestShape'
      BY <1>1, <1>3 DEF PutRelease, RequestShape
    <2>6. QueueShape'
      <3> SUFFICES ASSUME NEW k \in Instances
                   PROVE  /\ Range(queue'[k]) \subseteq born'
                          /\ ~exited' => Len(queue'[k]) =
                                count'[k] + (IF Putting(k)' THEN 1 ELSE 0)
                          /\ worker'[k] = "waiting" => count'[k] = 0
        BY DEF QueueShape
      <3>1. /\ server = "notify" /\ server' = "reply"
            /\ UNCHANGED <<queue, request, exited, born>>
        BY <1>3 DEF PutRelease, ServerGoto
      <3>2. /\ Len(queue[k]) = count[k] + (IF k = i THEN 1 ELSE 0)
            /\ count[k] \in Nat
        BY <1>1, <3>1 DEF DaemonInv, QueueShape, Putting, TypeOK
      <3>3. ~Putting(k)'
        BY <3>1 DEF Putting
      <3>4. QED
        BY <1>1, <2>2, <2>3, <3>1, <3>2, <3>3 DEF DaemonInv, QueueShape
    <2>7. RegisteredShape'
      BY <1>3, <2>3 DEF PutRelease, DaemonInv, RegisteredShape
    <2>8. ExitShape'
      BY <1>1, <1>3, <2>3 DEF PutRelease, DaemonInv, ExitShape
    <2>9. ExpiredShape'
      BY <1>1, <1>3 DEF PutRelease, ExpiredShape
    <2>10. QED
      BY <2>4, <2>5, <2>6, <2>7, <2>8, <2>9 DEF DaemonInv
  <1>4. QED
    BY <1>2, <1>3

(* The worker takes a task.                                                *)
LEMMA PickTaskInv ==
  ASSUME DaemonInv, NEW i \in Instances, PickTask(i)
  PROVE  DaemonInv'
  <1> USE DEF queueVars, serverVars, timerVars, historyVars
  <1>1. /\ worker[i] = "pick" /\ count[i] > 0
        /\ worker' = [worker EXCEPT ![i] = "picked"]
        /\ count' = [count EXCEPT ![i] = count[i] - 1]
        /\ queue' = [queue EXCEPT ![i] = Tail(queue[i])]
        /\ taken' = taken \cup {Head(queue[i])}
        /\ count \in [Instances -> Nat]
        /\ worker \in [Instances -> WorkerLabels]
        /\ queue \in [Instances -> Seq(Tasks)]
    BY DEF PickTask, WorkerGoto, DaemonInv, TypeOK
  <1>2. /\ ~exited
        /\ queue[i] # <<>>
    <2>1. ~exited
      BY <1>1 DEF DaemonInv, ExitShape
    <2>2. Len(queue[i]) = count[i] + (IF Putting(i) THEN 1 ELSE 0)
      BY <2>1 DEF DaemonInv, QueueShape
    <2>3. count[i] \in Nat
      BY <1>1
    <2>4. Len(queue[i]) > 0
      BY <1>1, <2>2, <2>3
    <2>5. QED
      BY <2>1, <2>4
  <1>3. /\ Head(queue[i]) \in Range(queue[i])
        /\ Range(Tail(queue[i])) \subseteq Range(queue[i])
        /\ Tail(queue[i]) \in Seq(Tasks)
        /\ Len(Tail(queue[i])) = Len(queue[i]) - 1
    BY <1>1, <1>2, RangePop
  <1>4. /\ worker' \in [Instances -> WorkerLabels]
        /\ worker'[i] = "picked"
        /\ \A k \in Instances \ {i} : worker'[k] = worker[k]
    BY <1>1 DEF WorkerLabels
  <1>5. /\ queue' \in [Instances -> Seq(Tasks)]
        /\ queue'[i] = Tail(queue[i])
        /\ \A k \in Instances \ {i} : queue'[k] = queue[k]
    BY <1>1, <1>3
  <1>6. /\ count' \in [Instances -> Nat]
        /\ count'[i] = count[i] - 1
        /\ \A k \in Instances \ {i} : count'[k] = count[k]
    BY <1>1
  <1>7. TypeOK'
    <2>1. taken' \subseteq born
      BY <1>1, <1>3 DEF DaemonInv, TypeOK, QueueShape
    <2>2. QED
      BY <1>4, <1>5, <1>6, <2>1 DEF PickTask, DaemonInv, TypeOK
  <1>8. RequestShape'
    BY DEF PickTask, DaemonInv, RequestShape
  <1>9. QueueShape'
    <2> SUFFICES ASSUME NEW k \in Instances
                 PROVE  /\ Range(queue'[k]) \subseteq born'
                        /\ ~exited' => Len(queue'[k]) =
                              count'[k] + (IF Putting(k)' THEN 1 ELSE 0)
                        /\ worker'[k] = "waiting" => count'[k] = 0
      BY DEF QueueShape
    <2>1. /\ Putting(k)' <=> Putting(k)
          /\ UNCHANGED <<exited, born>>
      BY DEF PickTask, Putting
    <2>2. /\ Range(queue[k]) \subseteq born
          /\ Len(queue[k]) = count[k] + (IF Putting(k) THEN 1 ELSE 0)
          /\ worker[k] = "waiting" => count[k] = 0
      BY <1>2 DEF DaemonInv, QueueShape
    <2>3. CASE k = i
      BY <1>1, <1>3, <1>4, <1>5, <1>6, <2>1, <2>2, <2>3
    <2>4. CASE k # i
      BY <1>4, <1>5, <1>6, <2>1, <2>2, <2>4
    <2>5. QED
      BY <2>3, <2>4
  <1>10. RegisteredShape'
    BY <1>1, <1>4, <1>5 DEF PickTask, DaemonInv, RegisteredShape
  <1>11. ExitShape'
    BY <1>2, <1>4 DEF PickTask, DaemonInv, ExitShape
  <1>12. ExpiredShape'
    BY <1>1, <1>2, <1>4, <1>5 DEF PickTask, DaemonInv, ExpiredShape
  <1>13. QED
    BY <1>7, <1>8, <1>9, <1>10, <1>11, <1>12 DEF DaemonInv

(* The worker registers with the timer for its task, or unregisters.       *)
LEMMA RegisterInv ==
  ASSUME DaemonInv, NEW i \in Instances, Register(i) \/ Unregister(i)
  PROVE  DaemonInv'
  <1> USE DEF queueVars, serverVars, timerVars, historyVars
  <1>1. /\ worker \in [Instances -> WorkerLabels]
        /\ ~exited
        /\ UNCHANGED <<queue, count, server, request, connected, quitting,
                       toNotify, errored, expired, exited, born, accepted,
                       taken>>
    BY DEF Register, Unregister, WorkerGoto, DaemonInv, TypeOK, ExitShape
  <1>2. CASE Register(i)
    <2>1. /\ worker[i] = "picked" /\ worker'[i] = "run"
          /\ worker' \in [Instances -> WorkerLabels]
          /\ \A k \in Instances \ {i} : worker'[k] = worker[k]
          /\ registered' = registered \cup {i}
          /\ timer' = timer
      BY <1>1, <1>2 DEF Register, WorkerGoto, WorkerLabels
    <2>2. TypeOK'
      BY <1>1, <2>1 DEF DaemonInv, TypeOK
    <2>3. RequestShape' /\ QueueShape'
      BY <1>1, <2>1 DEF DaemonInv, RequestShape, QueueShape, Putting
    <2>4. RegisteredShape'
      BY <1>1, <2>1 DEF DaemonInv, RegisteredShape
    <2>5. ExitShape'
      BY <1>1, <2>1 DEF DaemonInv, ExitShape
    <2>6. ExpiredShape'
      BY <1>1, <2>1 DEF DaemonInv, ExpiredShape
    <2>7. QED
      BY <2>2, <2>3, <2>4, <2>5, <2>6 DEF DaemonInv
  <1>3. CASE Unregister(i)
    <2>1. /\ worker[i] = "unregister" /\ worker'[i] = "notask"
          /\ worker' \in [Instances -> WorkerLabels]
          /\ \A k \in Instances \ {i} : worker'[k] = worker[k]
          /\ registered' = registered \ {i}
          /\ timer' = timer \/ timer' = "rest"
      BY <1>1, <1>3 DEF Unregister, WorkerGoto, WorkerLabels
    <2>2. TypeOK'
      BY <1>1, <2>1 DEF DaemonInv, TypeOK, TimerLabels
    <2>3. RequestShape' /\ QueueShape'
      BY <1>1, <2>1 DEF DaemonInv, RequestShape, QueueShape, Putting
    <2>4. RegisteredShape'
      BY <1>1, <2>1 DEF DaemonInv, RegisteredShape
    <2>5. ExitShape'
      BY <1>1, <2>1 DEF DaemonInv, ExitShape
    <2>6. ExpiredShape'
      BY <1>1, <2>1 DEF DaemonInv, ExpiredShape
    <2>7. QED
      BY <2>2, <2>3, <2>4, <2>5, <2>6 DEF DaemonInv
  <1>4. QED
    BY <1>2, <1>3

(* The other steps of a worker.                                            *)
LEMMA WorkerInv ==
  ASSUME DaemonInv, NEW i \in Instances, WorkerStep(i)
  PROVE  DaemonInv'
  <1> USE DEF WorkerGoto, WorkerLabels
  <1>1. CASE PickTask(i)
    BY <1>1, PickTaskInv
  <1>2. CASE PickWait(i)
    BY <1>2, WorkerMoves
    DEF PickWait, DaemonInv, RegisteredShape, ExpiredShape
  <1>3. CASE PickTimeout(i)
    BY <1>3, WorkerMoves DEF PickTimeout, DaemonInv, ExpiredShape
  <1>4. CASE PickNothing(i)
    BY <1>4, WorkerMoves DEF PickNothing, DaemonInv, ExpiredShape
  <1>5. CASE Register(i) \/ Unregister(i)
    BY <1>5, RegisterInv
  <1>6. CASE RunEnds(i)
    BY <1>6, WorkerMoves
    DEF RunEnds, DaemonInv, RegisteredShape, ExpiredShape
  <1>7. CASE RunDies(i)
    BY <1>7, WorkerMoves
    DEF RunDies, DaemonInv, RegisteredShape, ExpiredShape
  <1>8. CASE TestEmpty(i)
    BY <1>8, WorkerMoves DEF TestEmpty, DaemonInv, ExpiredShape
  <1>9. CASE GraceEnds(i)
    BY <1>9, WorkerMoves DEF GraceEnds, DaemonInv, ExpiredShape
  <1>10. CASE TestRelease(i)
    BY <1>10, WorkerMoves DEF TestRelease, DaemonInv, ExpiredShape
  <1>11. CASE WorkerNotask(i)
    BY <1>11, WorkerMoves
    DEF WorkerNotask, DaemonInv, RegisteredShape, ExpiredShape
  <1>12. CASE WorkerRemaining(i)
    BY <1>12, WorkerMoves
    DEF WorkerRemaining, DaemonInv, RegisteredShape, ExpiredShape
  <1>13. QED
    BY <1>1, <1>2, <1>3, <1>4, <1>5, <1>6, <1>7, <1>8, <1>9, <1>10, <1>11,
       <1>12 DEF WorkerStep

(* The steps of the timer thread.                                          *)
LEMMA TimerInv ==
  ASSUME DaemonInv, TimerStep
  PROVE  DaemonInv'
  <1> USE DEF TimerGoto, TimerLabels, serverVars
  <1>1. /\ toNotify \subseteq Instances
        /\ {connected, quitting, errored} \subseteq BOOLEAN
        /\ timer = "remaining" /\ ~SlowAuth /\ expired => registered = {}
    BY DEF DaemonInv, TypeOK, ExpiredShape
  <1>2. CASE TimerNotask
    BY <1>1, <1>2, TimerMoves DEF TimerNotask
  <1>3. CASE TimerRemaining
    BY <1>1, <1>3, TimerMoves DEF TimerRemaining
  <1>4. CASE TimerWatch
    BY <1>1, <1>4, TimerMoves DEF TimerWatch
  <1>5. CASE TimerWait
    BY <1>1, <1>5, TimerMoves DEF TimerWait
  <1>6. CASE TimerWaitTimeout
    BY <1>1, <1>6, TimerMoves DEF TimerWaitTimeout
  <1>7. CASE TimerRest
    BY <1>1, <1>7, TimerMoves DEF TimerRest
  <1>8. CASE TimerWakes
    BY <1>1, <1>8, TimerMoves DEF TimerWakes
  <1>9. CASE TimerDisconnect
    BY <1>1, <1>9, TimerMoves DEF TimerDisconnect
  <1>10. CASE TimerQuit
    BY <1>1, <1>10, TimerMoves DEF TimerQuit
  <1>11. CASE TimerLeave
    BY <1>1, <1>11, TimerMoves DEF TimerLeave
  <1>12. ASSUME NEW i \in Instances, TimerInterrupt(i)
         PROVE  DaemonInv'
    <2> USE DEF queueVars, historyVars
    <2>1. /\ worker \in [Instances -> WorkerLabels]
          /\ worker' \in [Instances -> WorkerLabels]
          /\ worker'[i] = IF worker[i] = "waiting" THEN "woken" ELSE worker[i]
          /\ \A k \in Instances \ {i} : worker'[k] = worker[k]
          /\ timer = "interrupt" /\ toNotify' \subseteq Instances
          /\ UNCHANGED <<queueVars, serverVars, timer, errored, registered,
                         expired, exited, historyVars>>
      BY <1>1, <1>12 DEF TimerInterrupt, DaemonInv, TypeOK, WorkerLabels
    <2>2. TypeOK'
      BY <2>1 DEF DaemonInv, TypeOK
    <2>3. RequestShape' /\ QueueShape'
      BY <2>1 DEF DaemonInv, RequestShape, QueueShape, Putting
    <2>4. RegisteredShape' /\ ExitShape'
      BY <2>1 DEF DaemonInv, RegisteredShape, ExitShape
    <2>5. ExpiredShape'
      BY <2>1 DEF DaemonInv, ExpiredShape
    <2>6. QED
      BY <2>2, <2>3, <2>4, <2>5 DEF DaemonInv
  <1>13. QED
    BY <1>2, <1>3, <1>4, <1>5, <1>6, <1>7, <1>8, <1>9, <1>10, <1>11, <1>12
    DEF TimerStep

(* Time passes.                                                            *)
LEMMA ExpireInv ==
  ASSUME DaemonInv, Expire
  PROVE  DaemonInv'
  <1> USE DEF queueVars, serverVars, timerVars, historyVars
  <1>1. /\ Quiet /\ expired' = TRUE
        /\ UNCHANGED <<queueVars, worker, serverVars, timerVars, registered,
                       exited, historyVars>>
    BY DEF Expire
  <1>2. TypeOK' /\ RequestShape' /\ QueueShape' /\ RegisteredShape'
        /\ ExitShape'
    BY <1>1 DEF DaemonInv, TypeOK, RequestShape, QueueShape, Putting,
                RegisteredShape, ExitShape
  <1>3. ASSUME ~SlowAuth
        PROVE  ExpiredShape'
    <2>1. server \in {"idle", "stopped"} /\ timer # "remaining"
      BY <1>1, <1>3 DEF Quiet
    <2>2. ASSUME NEW i \in Instances, i \notin registered,
                 worker[i] \notin {"left", "killed"}
          PROVE  queue[i] = <<>> /\ worker[i] # "picked"
      <3>1. worker[i] \in {"waiting", "grace"}
        BY <1>1, <2>2 DEF Quiet, DaemonInv, RegisteredShape
      <3>2. CASE worker[i] = "grace"
        BY <1>1, <1>3, <3>2 DEF Quiet
      <3>3. CASE worker[i] = "waiting"
        <4>1. ~exited
          BY <3>3 DEF DaemonInv, ExitShape
        <4>2. Len(queue[i]) = 0
          BY <2>1, <3>3, <4>1 DEF DaemonInv, QueueShape, Putting
        <4>3. queue[i] \in Seq(Tasks)
          BY DEF DaemonInv, TypeOK
        <4>4. QED
          BY <3>3, <4>2, <4>3
      <3>4. QED
        BY <3>1, <3>2, <3>3
    <2>3. \A i \in Instances : worker[i] # "unregister"
      BY <1>1 DEF Quiet
    <2>4. QED
      BY <1>1, <2>1, <2>2, <2>3 DEF ExpiredShape
  <1>4. SlowAuth => ExpiredShape'
    BY DEF ExpiredShape
  <1>5. QED
    BY <1>2, <1>3, <1>4 DEF DaemonInv

(* A process starts or ends.                                               *)
LEMMA ProcessInv ==
  ASSUME DaemonInv, Exit \/ Activate \/ Restart \/ StopTimeout \/ Rest
  PROVE  DaemonInv'
  <1> USE DEF queueVars, serverVars, timerVars, historyVars
  <1>1. CASE Exit
    <2>1. /\ exited' = TRUE
          /\ server = "stopped" /\ timer = "left"
          /\ \A i \in Instances : worker[i] \in {"left", "dead"}
          /\ UNCHANGED <<queueVars, worker, serverVars, timerVars, registered,
                         expired, historyVars>>
      BY <1>1 DEF Exit
    <2>2. TypeOK' /\ RequestShape' /\ QueueShape' /\ RegisteredShape'
      BY <2>1 DEF DaemonInv, TypeOK, RequestShape, QueueShape, RegisteredShape
    <2>3. ExitShape' /\ ExpiredShape'
      BY <2>1 DEF DaemonInv, ExitShape, ExpiredShape
    <2>4. QED
      BY <2>2, <2>3 DEF DaemonInv
  <1>2. CASE Activate \/ Restart
    <2>1. Start
      BY <1>2 DEF Activate, Restart
    <2>2. TypeOK'
      <3>1. /\ queue' \in [Instances -> Seq(Tasks)]
            /\ count' \in [Instances -> Nat]
            /\ worker' \in [Instances -> WorkerLabels]
        BY <2>1 DEF Start, WorkerLabels
      <3>2. QED
        BY <2>1, <3>1
        DEF Start, DaemonInv, TypeOK, ServerLabels, TimerLabels
    <2>3. RequestShape' /\ QueueShape'
      BY <2>1 DEF Start, RequestShape, HasRequest, QueueShape, Putting, Range
    <2>4. RegisteredShape' /\ ExitShape' /\ ExpiredShape'
      BY <2>1 DEF Start, RegisteredShape, ExitShape, ExpiredShape
    <2>5. QED
      BY <2>2, <2>3, <2>4 DEF DaemonInv
  <1>3. CASE StopTimeout
    <2>1. /\ exited' = TRUE
          /\ worker' = [i \in Instances |-> "killed"]
          /\ server' = "stopped" /\ timer' = "left"
          /\ connected' = FALSE /\ request' = NoRequest
          /\ UNCHANGED <<queueVars, quitting, toNotify, errored, registered,
                         expired, historyVars>>
      BY <1>3 DEF StopTimeout
    <2>2. TypeOK'
      <3>1. worker' \in [Instances -> WorkerLabels]
        BY <2>1 DEF WorkerLabels
      <3>2. QED
        BY <2>1, <3>1 DEF DaemonInv, TypeOK, ServerLabels, TimerLabels
    <2>3. RequestShape' /\ QueueShape' /\ RegisteredShape'
      BY <2>1 DEF DaemonInv, RequestShape, HasRequest, QueueShape,
                  RegisteredShape
    <2>4. ExitShape' /\ ExpiredShape'
      BY <2>1 DEF DaemonInv, ExitShape, ExpiredShape
    <2>5. QED
      BY <2>2, <2>3, <2>4 DEF DaemonInv
  <1>4. CASE Rest
    BY <1>4 DEF Rest, vars, DaemonInv, TypeOK, RequestShape, QueueShape,
                Putting, RegisteredShape, ExitShape, ExpiredShape
  <1>5. QED
    BY <1>1, <1>2, <1>3, <1>4

LEMMA DaemonNextInv == DaemonInv /\ [Next]_vars => DaemonInv'
  <1> SUFFICES ASSUME DaemonInv, [Next]_vars
               PROVE  DaemonInv'
    OBVIOUS
  <1>1. CASE UNCHANGED vars
    BY <1>1
    DEF vars, queueVars, serverVars, timerVars, historyVars, DaemonInv,
        TypeOK, RequestShape, QueueShape, Putting, RegisteredShape, ExitShape,
        ExpiredShape
  <1>2. CASE Submission \/ Refuse \/ ServerStep
    BY <1>2, ServerInv, PutInv DEF ServerStep
  <1>3. CASE \E i \in Instances : WorkerStep(i)
    BY <1>3, WorkerInv
  <1>4. CASE TimerStep
    BY <1>4, TimerInv
  <1>5. CASE Expire
    BY <1>5, ExpireInv
  <1>6. CASE Exit \/ Activate \/ Restart \/ StopTimeout \/ Rest
    BY <1>6, ProcessInv
  <1>7. QED
    BY <1>1, <1>2, <1>3, <1>4, <1>5, <1>6 DEF Next

LEMMA DaemonInvariant == Spec => []DaemonInv
  BY DaemonInitInv, DaemonNextInv, PTL DEF Spec

-----------------------------------------------------------------------------
(* What the run of the daemon checks.                                      *)

(***************************************************************************)
(* The variables of the daemon keep their types: a task that is queued,    *)
(* accepted or taken has been drawn, and a semaphore never counts below    *)
(* zero (manager.py:38-70).                                                *)
(***************************************************************************)
THEOREM DaemonTypes == Spec => []TypeOK
  BY DaemonInvariant, PTL DEF DaemonInv

(***************************************************************************)
(* A worker that waits holds no registration, but for the instant between  *)
(* the append and the release of a put: the only way back to pick without  *)
(* unregistering is to have found a task in the queue, and only the worker *)
(* takes it away (fatbuildrd.py:129-151).                                  *)
(***************************************************************************)
THEOREM IdleWorkersRelease == Spec => []IdleWorkerReleasesTimer
  <1>1. DaemonInv => IdleWorkerReleasesTimer
    <2> SUFFICES ASSUME DaemonInv, NEW i \in Instances,
                        worker[i] = "waiting", i \in registered
                 PROVE  server = "notify" /\ request.instance = i
      BY DEF IdleWorkerReleasesTimer
    <2>1. ~exited /\ queue[i] # <<>> /\ queue[i] \in Seq(Tasks)
      BY DEF DaemonInv, ExitShape, RegisteredShape, TypeOK
    <2>2. Len(queue[i]) = IF Putting(i) THEN 1 ELSE 0
      BY <2>1 DEF DaemonInv, QueueShape
    <2>3. QED
      BY <2>1, <2>2 DEF Putting
  <1>2. QED
    BY <1>1, DaemonInvariant, PTL

(***************************************************************************)
(* As long as Polkit's user answers within the timeout, the timer thread   *)
(* only finds the timer over when no worker has a task and none that is    *)
(* still there has one queued, although it reads the registrations and the *)
(* remaining time one after the other: a worker that has taken a task      *)
(* since the first read has seen a reset, which the second read sees too   *)
(* (timer.py:46-53, fatbuildrd.py:130-132, 169).                           *)
(***************************************************************************)
THEOREM OverIsIdle ==
  ASSUME ~SlowAuth
  PROVE  Spec => OverMeansIdle
  <1>1. ASSUME DaemonInv, [Next]_vars, timer = "remaining", timer' = "stop",
               NEW i \in Instances
        PROVE  /\ worker[i] \notin {"picked", "run"}
               /\ worker[i] # "left" => Range(queue[i]) \cap accepted = {}
    <2>1. TimerRemaining
      BY <1>1 DEF Next, vars, timerVars, Submission, Receive, Refuse,
                  ServerStep, ServerStart, Authorize, PutAppend, PutRelease,
                  Reply, ServerStop, WorkerStep, PickTask, PickWait,
                  PickTimeout, PickNothing, Register, RunEnds, RunDies,
                  TestEmpty, GraceEnds, TestRelease, Unregister, WorkerNotask,
                  WorkerRemaining, TimerStep, TimerNotask, TimerWatch,
                  TimerWait, TimerWaitTimeout, TimerRest, TimerWakes,
                  TimerDisconnect, TimerQuit, TimerInterrupt, TimerLeave,
                  TimerGoto, Expire, Exit, Activate, Restart, Start,
                  StopTimeout, Rest
    <2>2. expired
      BY <1>1, <2>1 DEF TimerRemaining, TimerGoto
    <2>3. registered = {} /\ ~exited
      BY <1>1, <2>2 DEF DaemonInv, ExpiredShape, ExitShape
    <2>4. worker[i] \notin {"run", "killed"}
      BY <1>1, <2>3 DEF DaemonInv, RegisteredShape, ExitShape
    <2>5. worker[i] # "left" => queue[i] = <<>> /\ worker[i] # "picked"
      BY <1>1, <2>2, <2>3, <2>4 DEF DaemonInv, ExpiredShape
    <2>6. queue[i] = <<>> => Range(queue[i]) = {}
      BY DEF Range
    <2>7. QED
      BY <2>4, <2>5, <2>6
  <1>2. DaemonInv /\ [Next]_vars
           => [timer = "remaining" /\ timer' = "stop" =>
                 \A i \in Instances :
                    /\ worker[i] \notin {"picked", "run"}
                    /\ worker[i] # "left"
                          => Range(queue[i]) \cap accepted = {}]_vars
    BY <1>1
  <1>3. QED
    BY <1>2, DaemonInvariant, PTL DEF Spec, OverMeansIdle

(***************************************************************************)
(* As long as Polkit's user answers within the timeout, a worker leaves an *)
(* empty queue behind, although it reads whether a worker is registered    *)
(* and the remaining time long after its two tests of the queue            *)
(* (fatbuildrd.py:129-155).                                                *)
(***************************************************************************)
THEOREM LeavesNothing ==
  ASSUME ~SlowAuth
  PROVE  Spec => LeavesWithEmptyQueue
  <1>1. ASSUME DaemonInv, [Next]_vars, NEW i \in Instances,
               worker[i] # "left", worker'[i] = "left"
        PROVE  queue[i] = <<>>
    <2>1. worker \in [Instances -> WorkerLabels]
      BY <1>1 DEF DaemonInv, TypeOK
    <2>2. \E k \in Instances : WorkerStep(k)
      BY <1>1, <2>1 DEF Next, vars, Submission, Receive, Refuse,
                  ServerStep, ServerStart, Authorize, PutAppend, PutRelease,
                  Reply, ServerStop, TimerStep, TimerNotask, TimerRemaining,
                  TimerWatch,
                  TimerWait, TimerWaitTimeout, TimerRest, TimerWakes,
                  TimerDisconnect, TimerQuit, TimerInterrupt, TimerLeave,
                  Expire, Exit, Activate, Restart, Start, StopTimeout, Rest
    <2>3. worker[i] = "remaining" /\ expired
      BY <1>1, <2>1, <2>2
      DEF WorkerStep, WorkerGoto, PickTask, PickWait, PickTimeout,
          PickNothing, Register, RunEnds, RunDies, TestEmpty, GraceEnds,
          TestRelease, Unregister, WorkerNotask, WorkerRemaining
    <2>4. QED
      BY <1>1, <2>3 DEF DaemonInv, RegisteredShape, ExpiredShape
  <1>2. DaemonInv /\ [Next]_vars
           => [\A i \in Instances :
                 worker[i] # "left" /\ worker'[i] = "left"
                    => queue[i] = <<>>]_vars
    BY <1>1
  <1>3. QED
    BY <1>2, DaemonInvariant, PTL DEF Spec, LeavesWithEmptyQueue
=============================================================================
