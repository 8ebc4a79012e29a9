----------------------------- MODULE TaskLookup -----------------------------
(***************************************************************************)
(* A client that has submitted a task and looks for it later: method get   *)
(* of DBusInstance (src/fatbuildr/protocols/dbus/client.py) asks the       *)
(* server for the queue, then for the running task, then for the history,  *)
(* in three requests.  The worker goes on between them, and so does the    *)
(* server for other clients.                                               *)
(***************************************************************************)
EXTENDS TasksManagerRefinement

VARIABLES looking,  \* the task that was not in the queue, or None
          stage     \* "idle", or the request the client makes next ("running",
                    \* "history"), or its history request being answered
                    \* ("scan", and "seen" once the task is in the answer), or
                    \* "lost": get has failed

LookupInit == Init /\ looking = None /\ stage = "idle"

\* Mutant: the running task is not asked for.
AskQueue_ThenHistory(t) ==
    /\ stage = "idle"
    /\ pc["server"] = "loop"
    /\ t \in Range(submitted)
    /\ \E copy \in {queue} : Dump(copy) /\ t \notin Range(copy)
    /\ looking' = t
    /\ stage' = "history"
    /\ UNCHANGED vars

\* The answer to Queue does not have the task.  (If it does, get is done.)
AskQueue(t) ==
    /\ stage = "idle"
    /\ pc["server"] = "loop"
    /\ t \in Range(submitted)
    /\ \E copy \in {queue} : Dump(copy) /\ t \notin Range(copy)
    /\ looking' = t
    /\ stage' = "running"
    /\ UNCHANGED vars

AskRunning ==
    /\ stage = "running"
    /\ pc["server"] = "loop"
    /\ IF running = looking
       THEN stage' = "idle" /\ looking' = None
       ELSE stage' = "history" /\ looking' = looking
    /\ UNCHANGED vars

AskHistory ==
    /\ stage = "history"
    /\ FullqueueDump("server")
    /\ TrackViews
    /\ stage' = "scan"
    /\ looking' = looking

\* The scan of the client's request lists looking if it can load its task.yml.
Lists(t) ==
    /\ t \in todo["server"] \ todo'["server"]
    /\ place[t] = "archived"

Answered == pc["server"] = "visit" /\ pc'["server"] = "loop"

\* Any step of the tasks manager.  A crash breaks the connection.
Proceed ==
    /\ Next
    /\ stage' = CASE pc'["server"] = "down" -> "idle"
                  [] stage = "scan" /\ Lists(looking) -> "seen"
                  [] stage = "scan" /\ Answered -> "lost"
                  [] stage = "seen" /\ Answered -> "idle"
                  [] OTHER -> stage
    /\ looking' = IF stage' = "idle" THEN None ELSE looking

LookupNext ==
    \/ \E t \in Tasks : AskQueue(t)
    \/ AskRunning
    \/ AskHistory
    \/ Proceed

lookupVars == <<vars, looking, stage>>

LookupSpec == LookupInit /\ [][LookupNext]_lookupVars

(***************************************************************************)
(* A client finds the task it submitted, wherever the worker moves it      *)
(* between the three requests: get only fails with "Unable to find task"   *)
(* (client.py:286-296) for a task that is neither queued, picked, running  *)
(* nor archived.  What a purge removed is such a task, and what a run that *)
(* an exception ended left behind.                                         *)
(***************************************************************************)
LookupFinds ==
    stage = "lost" => looking \notin Unfinished /\ place[looking] # "archived"
=============================================================================
