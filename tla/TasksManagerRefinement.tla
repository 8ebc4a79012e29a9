----------------------- MODULE TasksManagerRefinement -----------------------
(***************************************************************************)
(* The tasks manager implements TaskLedger: the deque is the list of       *)
(* pending tasks, and a task is active from the popleft of get until run   *)
(* resets running, or until an exception takes the worker out of run.      *)
(***************************************************************************)
EXTENDS TasksManager

Ledger == INSTANCE TaskLedger
    WITH known <- born,
         pending <- queue,
         active <- Active,
         archive <- {t \in Tasks : place[t] = "archived"}

(***************************************************************************)
(* Every step of the threads, of a crash and of a restart is a step of the *)
(* ledger or leaves it alone: whatever the interleaving, tasks are taken   *)
(* in order, one at a time, and only the task that was run is archived.    *)
(***************************************************************************)
ImplementsLedger == Ledger!Spec
=============================================================================
