----------------------------- MODULE TaskLedger -----------------------------
(***************************************************************************)
(* What the tasks manager of an instance promises, with no thread, lock or *)
(* file in sight (docs/modules/overview/pages/architecture.adoc:74-85):    *)
(* tasks are enqueued, taken one at a time in the order of submission, and *)
(* archived by the worker that ran them.  A stop of the daemon loses the   *)
(* tasks that were pending or active, and no other step does.              *)
(*                                                                         *)
(* TasksManager implements this specification, see TasksManagerRefinement. *)
(***************************************************************************)
EXTENDS Sequences

CONSTANTS Tasks, None

VARIABLES known,     \* tasks ever submitted
          pending,   \* the queue
          active,    \* the task a worker has taken and not given up
          archive    \* tasks with a saved result

ledger == <<known, pending, active, archive>>

Init ==
    /\ known = {}
    /\ pending = <<>>
    /\ active = None
    /\ archive = {}

Submit(t) ==
    /\ t \notin known
    /\ known' = known \cup {t}
    /\ pending' = Append(pending, t)
    /\ UNCHANGED <<active, archive>>

Take ==
    /\ active = None
    /\ pending # <<>>
    /\ active' = Head(pending)
    /\ pending' = Tail(pending)
    /\ UNCHANGED <<known, archive>>

\* The result of the active task, and of no other, is saved.
Archive ==
    /\ active # None
    /\ archive' = archive \cup {active}
    /\ UNCHANGED <<known, pending, active>>

\* The worker is done with the active task, archived or not.
GiveUp ==
    /\ active # None
    /\ active' = None
    /\ UNCHANGED <<known, pending, archive>>

\* Archives are only removed by the active task, when it is a purge ...
Purge ==
    /\ active # None
    /\ active \notin archive
    /\ archive' \in SUBSET archive
    /\ UNCHANGED <<known, pending, active>>

Stop ==
    /\ pending' = <<>>
    /\ active' = None
    /\ UNCHANGED <<known, archive>>

\* ... or, against the documentation, by the clear of a starting daemon.
Clear ==
    /\ pending = <<>>
    /\ active = None
    /\ archive' \in SUBSET archive
    /\ UNCHANGED <<known, pending, active>>

Next ==
    \/ \E t \in Tasks : Submit(t)
    \/ Take \/ Archive \/ GiveUp \/ Purge \/ Stop \/ Clear

Spec == Init /\ [][Next]_ledger
=============================================================================
