---------------------------- MODULE HistoryPurge ----------------------------
(***************************************************************************)
(* The purge of the history of tasks: classes HistoryPurgePolicy and       *)
(* HistoryManager of src/fatbuildr/history.py, with the submission dates   *)
(* that tasks get (src/fatbuildr/tasks/__init__.py) over several lives of  *)
(* the daemon.                                                             *)
(*                                                                         *)
(* TasksManager says when a purge may run beside other threads and lets it *)
(* remove any archive.  This module says which archives a policy removes,  *)
(* when it is interrupted, too.  Tasks whose form this version of the      *)
(* program cannot read are skipped by every dump, and left out.            *)
(***************************************************************************)
EXTENDS Integers, Sequences, FiniteSets, FiniteSetsExt, SequencesExt

CONSTANTS Tasks,     \* tasks that may be archived
          Histids,   \* histid: the tasks the policy "each" counts together
          Sizes,     \* sizes of a workspace
          Policies,  \* [name, value] records, of the configuration
          MaxClock   \* bound on the time

ASSUME TasksAssumption == IsFiniteSet(Tasks)
ASSUME HistidsAssumption == Histids # {}
ASSUME SizesAssumption == Sizes # {} /\ Sizes \subseteq Nat \ {0}
ASSUME PoliciesAssumption ==
    Policies \subseteq [name : {"older", "last", "each", "size"}, value : Nat]
ASSUME MaxClockAssumption == MaxClock \in Nat

VARIABLES
    policy,    \* conf.tasks.purge_policy and purge_value
    clock,     \* the time
    started,   \* when the daemon was started
    place,     \* workspaces of the tasks
    date,      \* attribute submission, saved in task.yml
    histid,    \* attribute histid
    size,      \* directory_size(place)
    since,     \* history: when the task was submitted
    phase,     \* where the purge is
    listing,   \* the tasks dump returned
    position,  \* the task the loop of the policy looks at
    limit,     \* "older": the date before which tasks are removed
    kept,      \* "last": the tasks kept so far
    counts,    \* "each": the tasks met so far, per histid
    measured   \* "size": measured_size

clockVars == <<clock, started>>
taskVars == <<date, histid, size, since>>
loopVars == <<listing, position, limit, kept, counts, measured>>

vars == <<policy, clockVars, place, taskVars, phase, loopVars>>

Times == 0..MaxClock

TypeOK ==
    /\ policy \in Policies
    /\ clock \in Times
    /\ started \in 0..clock
    /\ place \in [Tasks -> {"none", "archived", "malformed", "removed"}]
    /\ date \in [Tasks -> 0..clock]
    /\ histid \in [Tasks -> Histids]
    /\ size \in [Tasks -> Sizes \cup {0}]
    /\ since \in [Tasks -> 0..clock]
    /\ phase \in {"idle", "dump", "run", "remove", "report"}
    /\ Range(listing) \subseteq Tasks
    /\ IsInjective(listing)
    /\ position \in 1..(Len(listing) + 1)
    /\ limit \in Int
    /\ kept \in 0..(position - 1)
    /\ counts \in [Histids -> 0..Len(listing)]
    /\ measured \in Nat

\* The attributes of a task have any value until it is archived.
Init ==
    /\ policy \in Policies
    /\ clock = 0
    /\ started = 0
    /\ place = [t \in Tasks |-> "none"]
    /\ date = [t \in Tasks |-> 0]
    /\ histid = [t \in Tasks |-> CHOOSE h \in Histids : TRUE]
    /\ size = [t \in Tasks |-> 0]
    /\ since = [t \in Tasks |-> 0]
    /\ phase = "idle"
    /\ listing = <<>>
    /\ position = 1
    /\ limit = 0
    /\ kept = 0
    /\ counts = [h \in Histids |-> 0]
    /\ measured = 0

-----------------------------------------------------------------------------
(* Tasks and time.                                                         *)

\* A task is run and archived.  Its submission date is a default argument,
\* datetime.now() at the time the module was loaded.
Archive(t, h, s) ==
    /\ phase = "idle"
    /\ place[t] = "none"
    /\ place' = [place EXCEPT ![t] = "archived"]
    /\ date' = [date EXCEPT ![t] = started]
    /\ histid' = [histid EXCEPT ![t] = h]
    /\ size' = [size EXCEPT ![t] = s]
    /\ since' = [since EXCEPT ![t] = clock]
    /\ UNCHANGED <<policy, clockVars, phase, loopVars>>

Tick ==
    /\ clock < MaxClock
    /\ clock' = clock + 1
    /\ UNCHANGED <<policy, started, place, taskVars, phase, loopVars>>

\* What an interrupted rmtree leaves: the workspace with less in it, one
\* without task.yml, or none.
Torn(t) ==
    \/ place' = place /\ size' \in {size, [size EXCEPT ![t] = 0]}
    \/ /\ place' \in {[place EXCEPT ![t] = p] : p \in {"malformed", "removed"}}
       /\ size' = size

\* The daemon stops, in the middle of a purge or not, and another one starts.
Restart ==
    /\ started' = clock
    /\ phase' = "idle"
    /\ listing' = <<>>
    /\ position' = 1
    /\ IF phase = "remove" THEN Torn(listing[position])
                           ELSE UNCHANGED <<place, size>>
    /\ UNCHANGED <<policy, clock, date, histid, since, limit, measured>>
    /\ kept' = 0
    /\ counts' = [h \in Histids |-> 0]

-----------------------------------------------------------------------------
(* The purge: dump, then the loop of the policy.                           *)

PurgeStart ==
    /\ phase = "idle"
    /\ phase' = "dump"
    /\ UNCHANGED <<policy, clockVars, place, taskVars, loopVars>>

\* dump removes the directories it finds without task.yml.
DumpMalformed(t) ==
    /\ phase = "dump"
    /\ place[t] = "malformed"
    /\ place' = [place EXCEPT ![t] = "removed"]
    /\ UNCHANGED <<policy, clockVars, taskVars, phase, loopVars>>

Archived == {t \in Tasks : place[t] = "archived"}

\* dump sorts by submission date, the most recent first.  Tasks of the same
\* date stay in the order of the directory, which is any order.
Listings ==
    {s \in SetToSeqs(Archived) :
        \A i, j \in 1..Len(s) : i < j => date[s[i]] >= date[s[j]]}

\* The factory makes a policy with its counters at zero.
DumpSort ==
    /\ phase = "dump"
    /\ \A t \in Tasks : place[t] # "malformed"
    /\ phase' = "run"
    /\ listing' \in Listings
    /\ position' = 1
    /\ limit' = IF policy.name = "older" THEN clock - policy.value ELSE 0
    /\ kept' = 0
    /\ counts' = [h \in Histids |-> 0]
    /\ measured' = 0
    /\ UNCHANGED <<policy, clockVars, place, taskVars>>

\* HistoryPurgeOlder.run
OlderVisit(t) ==
    /\ policy.name = "older"
    /\ phase' = IF date[t] < limit THEN "remove" ELSE "run"
    /\ UNCHANGED <<kept, counts, measured>>

\* HistoryPurgeLast.run
LastVisit(t) ==
    /\ policy.name = "last"
    /\ phase' = IF kept < policy.value THEN "run" ELSE "remove"
    /\ kept' = IF kept < policy.value THEN kept + 1 ELSE kept
    /\ UNCHANGED <<counts, measured>>

\* Mutant: the last task to keep is removed.
EachVisit_OneLess(t) ==
    /\ policy.name = "each"
    /\ counts' = [counts EXCEPT ![histid[t]] = @ + 1]
    /\ phase' = IF counts'[histid[t]] >= policy.value THEN "remove" ELSE "run"
    /\ UNCHANGED <<kept, measured>>

\* HistoryPurgeEach.run
EachVisit(t) ==
    /\ policy.name = "each"
    /\ counts' = [counts EXCEPT ![histid[t]] = @ + 1]
    /\ phase' = IF counts'[histid[t]] > policy.value THEN "remove" ELSE "run"
    /\ UNCHANGED <<kept, measured>>

\* HistoryPurgeSize.run: nothing is measured any more once the limit is
\* reached.
SizeVisit(t) ==
    /\ policy.name = "size"
    /\ measured' = IF measured < policy.value THEN measured + size[t]
                                              ELSE measured
    /\ phase' = IF measured' >= policy.value THEN "remove" ELSE "run"
    /\ UNCHANGED <<kept, counts>>

Visit(t) ==
    /\ phase = "run"
    /\ position <= Len(listing)
    /\ listing[position] = t
    /\ OlderVisit(t) \/ LastVisit(t) \/ EachVisit(t) \/ SizeVisit(t)
    /\ position' = IF phase' = "remove" THEN position ELSE position + 1
    /\ UNCHANGED <<policy, clockVars, place, taskVars, listing, limit>>

\* remove: rmtree has removed the workspace.
RemoveWorkspace ==
    /\ phase = "remove"
    /\ place' = [place EXCEPT ![listing[position]] = "removed"]
    /\ phase' = "run"
    /\ position' = position + 1
    /\ UNCHANGED <<policy, clockVars, taskVars, listing, limit, kept, counts,
                   measured>>

PurgeEnds ==
    /\ phase = "run"
    /\ position > Len(listing)
    /\ phase' = "report"
    /\ UNCHANGED <<policy, clockVars, place, taskVars, loopVars>>

Report ==
    /\ phase = "report"
    /\ phase' = "idle"
    /\ listing' = <<>>
    /\ position' = 1
    /\ kept' = 0
    /\ counts' = [h \in Histids |-> 0]
    /\ UNCHANGED <<policy, clockVars, place, taskVars, limit, measured>>

-----------------------------------------------------------------------------

\* The histid of a task is read by the policy "each" alone, its size by the
\* policy "size": under another one it is any.
HistidsRead ==
    IF policy.name = "each" THEN Histids ELSE {CHOOSE h \in Histids : TRUE}

SizesRead ==
    IF policy.name = "size" THEN Sizes ELSE {CHOOSE s \in Sizes : TRUE}

Next ==
    \/ \E t \in Tasks, h \in HistidsRead, s \in SizesRead : Archive(t, h, s)
    \/ Tick \/ Restart
    \/ PurgeStart \/ \E t \in Tasks : DumpMalformed(t)
    \/ DumpSort \/ \E t \in Tasks : Visit(t)
    \/ RemoveWorkspace \/ PurgeEnds \/ Report

Spec == Init /\ [][Next]_vars

-----------------------------------------------------------------------------
(* Properties.                                                             *)

Listed == Range(listing)

\* The listed tasks that are, or are about to be, removed.
Gone == {t \in Listed : place[t] = "removed"}
        \cup (IF phase = "remove" THEN {listing[position]} ELSE {})

Left == Listed \ Gone

Smaller(a, b) == IF a < b THEN a ELSE b

TotalSize(S) == MapThenSumSet(LAMBDA t : size[t], S)

\* No task of S is removed while one that was submitted earlier is left, but
\* for those that have the same date: submitted to one life of the daemon.
OldestFirst(S) ==
    \A r \in S \cap Gone, k \in S \cap Left :
        /\ date[r] <= date[k]
        /\ since[k] < since[r] => date[k] = date[r]

OfHistid(h) == {t \in Listed : histid[t] = h}

(***************************************************************************)
(* A purge never removes more than the code of its policy says             *)
(* (history.py:149-290), so that it may be interrupted at any point: with  *)
(* "last" and "each" there are n tasks left, or all there were; with       *)
(* "size" what is left, together with one that was removed, reaches the    *)
(* limit. The documentation says "exceeds" (purge.adoc:30-31): tasks whose *)
(* size is the limit, no less and no more, lose one.  With "older" it says *)
(* "submission time" (purge.adoc:20-21), see OlderSparesRecent.            *)
(***************************************************************************)
PurgeNeverOverdoes ==
    phase \in {"run", "remove", "report"} =>
        CASE policy.name = "older" -> \A t \in Gone : date[t] < limit
          [] policy.name = "last" ->
                Cardinality(Left) >= Smaller(policy.value, Cardinality(Listed))
          [] policy.name = "each" ->
                \A h \in Histids :
                    Cardinality(Left \cap OfHistid(h)) >=
                        Smaller(policy.value, Cardinality(OfHistid(h)))
          [] policy.name = "size" ->
                Gone # {} => \E t \in Gone :
                    TotalSize(Left) + size[t] >= policy.value

(***************************************************************************)
(* A purge that is not interrupted removes all that the code of its policy *)
(* says: what "older" leaves was submitted since the limit, and the other  *)
(* policies remove tasks in the order they were submitted in, over all the *)
(* lives of the daemon (history.py:149-290, 383-384).  Not so among the    *)
(* tasks of one life, that all have one date (tasks/__init__.py:286): of   *)
(* them "last" and "each" leave any n, not "the last n tasks"              *)
(* (purge.adoc:26-27, 36-37), and "size" not the last ones either.         *)
(***************************************************************************)
PurgeKeepsItsPromise ==
    phase = "report" =>
        CASE policy.name = "older" ->
                \A t \in Left : date[t] >= limit /\ since[t] >= limit
          [] policy.name = "last" ->
                /\ Cardinality(Left) <= policy.value
                /\ OldestFirst(Listed)
          [] policy.name = "each" ->
                \A h \in Histids :
                    /\ Cardinality(Left \cap OfHistid(h)) <= policy.value
                    /\ OldestFirst(OfHistid(h))
          [] policy.name = "size" ->
                /\ Left # {} => TotalSize(Left) < policy.value
                /\ OldestFirst(Listed)

\* The tasks a purge removes are those the code of its policy says.
PurgeIsExact == PurgeNeverOverdoes /\ PurgeKeepsItsPromise

(***************************************************************************)
(* "removes all tasks workspaces whose submission time is older than the   *)
(* duration" (purge.adoc:20-21): a task younger than that is not removed.  *)
(* The code breaks it: the date is the one of the start of the daemon.     *)
(***************************************************************************)
OlderSparesRecent ==
    phase \in {"run", "remove", "report"} /\ policy.name = "older" =>
        \A t \in Gone : since[t] < limit
=============================================================================
