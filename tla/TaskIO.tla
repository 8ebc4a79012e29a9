------------------------------- MODULE TaskIO -------------------------------
(***************************************************************************)
(* The input and output of a running task: classes TaskIO and TaskJournal  *)
(* of src/fatbuildr/tasks/__init__.py and the console clients that follow  *)
(* a task (src/fatbuildr/console/client.py).                               *)
(*                                                                         *)
(* The worker writes its logs in one pipe and lets its commands write      *)
(* their output in another.  The dispatch thread reads both, broadcasts    *)
(* what it reads to the connected clients and then writes it in the        *)
(* journal; a client that connects is first sent the journal.              *)
(*                                                                         *)
(* Bytes are abstracted to fragments.  A log record is one ConsoleMessage, *)
(* in three fragments: a part of its header, the rest of the header and    *)
(* maybe some of the body, the rest of the body; a read of the pipe may    *)
(* end after each.  A piece of command output is one fragment: in the      *)
(* non-interactive mode, the one modelled here, the dispatch thread makes  *)
(* a whole ConsoleMessage of what it reads.  What clients send is dropped  *)
(* in that mode.                                                           *)
(*                                                                         *)
(* The journal is not replayed in fragments: it is read in messages, and   *)
(* each message is encoded again.  Where it ends inside of a record, or    *)
(* output was written inside of one, a client is sent something else than  *)
(* what the journal holds, or the replay fails (see Replays).              *)
(***************************************************************************)
EXTENDS Integers, Sequences, FiniteSets, SequencesExt

CONSTANTS Clients,    \* console clients
          Script,     \* what the task writes: a sequence of "log" and "output"
          PipeSize,   \* fragments a pipe holds
          ReadSize,   \* fragments one read of a pipe returns at most
          SocketSize, \* fragments the socket of a client holds
          Interrupts  \* users may interrupt a client before the task ends

ASSUME ScriptAssumption == Script \in Seq({"log", "output"})
ASSUME SizesAssumption ==
    /\ PipeSize \in Nat /\ PipeSize > 2
    /\ {ReadSize, SocketSize} \subseteq Nat \ {0}
ASSUME InterruptsAssumption == Interrupts \in BOOLEAN

VARIABLES
    worker,     \* where the worker thread is
    step,       \* the next piece of Script it writes
    logPipe,    \* the pipe log_w, log_r
    outPipe,    \* the pipe output_w, output_r
    stop,       \* attribute stop_dispatch
    dispatch,   \* where the dispatch thread is
    events,     \* what epoll.poll returned and is not handled yet
    data,       \* what is being sent
    targets,    \* the connections it is still to be sent to
    sent,       \* the fragments of data the first of them already has
    live,       \* data is new: it goes to the journal after the broadcast
    journal,    \* the task journal
    conn,       \* per client, its connection as the dispatch thread sees it
    hung,       \* clients that have closed their end
    order,      \* attribute connections, in the order of the dictionary
    socket,     \* per client, fragments sent and not received
    got,        \* per client, fragments received
    whole       \* history: clients accepted when the journal was whole

workerVars == <<worker, step, stop>>
pipeVars == <<logPipe, outPipe>>
sendVars == <<data, targets, sent, live>>
clientVars == <<conn, hung, order, socket, got, whole>>

vars == <<workerVars, pipeVars, dispatch, events, sendVars, journal,
          clientVars>>

\* The last log record, after the pieces of the script, says the task ended.
EndMessage == Len(Script) + 1

IsLog(m) == IF m = EndMessage THEN TRUE ELSE Script[m] = "log"

\* Fragments 1 to 3 make a log record, fragment 0 is output.
Fragments == (1..EndMessage) \X (0..3)

LogRecord(m) == << <<m, 1>>, <<m, 2>>, <<m, 3>> >>

\* What a replay may send that is no fragment: a record cut in its body, as a
\* shorter message, and what is read out of step with the messages.  Failing
\* is not sent: it is the header that struct.unpack refuses.
Short(m) == <<m, 4>>
Garbled == <<0, 0>>
Failing == <<0, 1>>
Sendable == Fragments \cup {Short(m) : m \in 1..EndMessage} \cup {Garbled}

TypeOK ==
    /\ worker \in {"running", "join", "closed"}
    /\ step \in 1..(EndMessage + 1)
    /\ logPipe \in Seq(Fragments)
    /\ outPipe \in Seq(Fragments)
    /\ stop \in BOOLEAN
    /\ dispatch \in {"poll", "handle", "send", "stopped", "dead"}
    /\ events \in Seq({"socket", "log", "output"} \cup Clients)
    /\ data \in Seq(Sendable \cup {Failing})
    /\ journal \in Seq(Fragments)
    /\ targets \in Seq(Clients)
    /\ sent \in 0..Len(data)
    /\ live \in BOOLEAN
    /\ conn \in [Clients -> {"new", "backlog", "open", "closed"}]
    /\ hung \subseteq Clients
    /\ order \in Seq(Clients)
    /\ socket \in [Clients -> Seq(Sendable)]
    /\ got \in [Clients -> Seq(Sendable)]
    /\ whole \subseteq Clients

\* prerun has opened the channels and started the dispatch thread.
Init ==
    /\ worker = "running"
    /\ step = 1
    /\ logPipe = <<>>
    /\ outPipe = <<>>
    /\ stop = FALSE
    /\ dispatch = "poll"
    /\ events = <<>>
    /\ data = <<>>
    /\ targets = <<>>
    /\ sent = 0
    /\ live = FALSE
    /\ journal = <<>>
    /\ conn = [c \in Clients |-> "new"]
    /\ hung = {}
    /\ order = <<>>
    /\ socket = [c \in Clients |-> <<>>]
    /\ got = [c \in Clients |-> <<>>]
    /\ whole = {}

-----------------------------------------------------------------------------
(* The worker thread.  A write blocks while the pipe is full.              *)

WriteLog ==
    /\ worker = "running"
    /\ step <= EndMessage
    /\ IsLog(step)
    /\ Len(logPipe) + 3 <= PipeSize
    /\ logPipe' = logPipe \o LogRecord(step)
    /\ step' = step + 1
    /\ UNCHANGED <<worker, outPipe, stop, dispatch, events, sendVars, journal,
                   clientVars>>

WriteOutput ==
    /\ worker = "running"
    /\ step <= EndMessage
    /\ ~IsLog(step)
    /\ Len(outPipe) < PipeSize
    /\ outPipe' = Append(outPipe, <<step, 0>>)
    /\ step' = step + 1
    /\ UNCHANGED <<worker, logPipe, stop, dispatch, events, sendVars, journal,
                   clientVars>>

\* postrun: the end of the task has been logged; the stop flag is set.
Undispatch ==
    /\ worker = "running"
    /\ step > EndMessage
    /\ worker' = "join"
    /\ stop' = TRUE
    /\ UNCHANGED <<step, pipeVars, dispatch, events, sendVars, journal,
                   clientVars>>

\* The dispatch thread is joined, then all channels are closed.
Close ==
    /\ worker = "join"
    /\ dispatch \in {"stopped", "dead"}
    /\ worker' = "closed"
    /\ UNCHANGED <<step, stop, pipeVars, dispatch, events, sendVars, journal,
                   clientVars>>

-----------------------------------------------------------------------------
(* The dispatch thread.                                                    *)

Ready ==
    (IF logPipe # <<>> THEN {"log"} ELSE {})
    \cup (IF outPipe # <<>> THEN {"output"} ELSE {})
    \cup (IF \E c \in Clients : conn[c] = "backlog" THEN {"socket"} ELSE {})
    \cup {c \in hung : conn[c] = "open"}

\* epoll returns what is ready, in an order nothing fixes.
Poll ==
    /\ dispatch = "poll"
    /\ Ready # {}
    /\ dispatch' = "handle"
    /\ events' \in SetToSeqs(Ready)
    /\ UNCHANGED <<workerVars, pipeVars, sendVars, journal, clientVars>>

\* Mutant: the stop flag is not looked at.
PollNothing_Continues == dispatch = "poll" /\ Ready = {} /\ UNCHANGED vars

\* Mutant: the stop flag ends the dispatch, whatever there is to read.
PollNothing_AtOnce ==
    /\ dispatch = "poll"
    /\ stop
    /\ dispatch' = "stopped"
    /\ UNCHANGED <<workerVars, pipeVars, events, sendVars, journal, clientVars>>

\* The second epoll waits has passed without an event.
PollNothing ==
    /\ dispatch = "poll"
    /\ Ready = {}
    /\ stop
    /\ dispatch' = "stopped"
    /\ UNCHANGED <<workerVars, pipeVars, events, sendVars, journal, clientVars>>

\* Send fragments to the connections of to, then go on.
Send(fragments, to, new) ==
    /\ dispatch' = "send"
    /\ data' = fragments
    /\ targets' = to
    /\ sent' = 0
    /\ live' = new

HandleEvent(e) ==
    /\ dispatch = "handle"
    /\ events # <<>>
    /\ Head(events) = e
    /\ events' = Tail(events)

\* Where a log record is broken off: nothing follows, or something else does.
BrokenOff(s) ==
    {i \in DOMAIN s :
        /\ s[i][2] \in {1, 2}
        /\ i < Len(s) => s[i + 1] # <<s[i][1], s[i][2] + 1>>}

Whole(s) == BrokenOff(s) = {}

\* What is made of the first record that is broken off, at i, and of all that
\* follows it.  When nothing does, a header cut short cannot be unpacked, and
\* what there is of the body makes a message of its own size.  Otherwise what
\* follows is taken for the rest of the record and the reading goes on out of
\* step; it may end in a header cut short.
Misread(s, i) ==
    IF i < Len(s) THEN {<<Garbled>>, <<Garbled, Failing>>}
    ELSE IF s[i][2] = 1 THEN {<<Failing>>}
    ELSE {<<Short(s[i][1])>>}

\* TaskJournal.replay: what journal s is sent as.  The record that is broken
\* off at i began s[i][2] - 1 fragments before.
Replays(s) ==
    IF Whole(s) THEN {s}
    ELSE LET i == Min(BrokenOff(s)) IN
         {SubSeq(s, 1, i - s[i][2]) \o t : t \in Misread(s, i)}

Accept(c) ==
    /\ HandleEvent("socket")
    /\ conn[c] = "backlog"
    /\ conn' = [conn EXCEPT ![c] = "open"]
    /\ order' = Append(order, c)
    /\ whole' = IF Whole(journal) THEN whole \cup {c} ELSE whole
    /\ UNCHANGED <<workerVars, pipeVars, journal, hung, socket, got>>

\* Mutant: what is left of the last message is not replayed.
HandleConnection_WholeMessages(c) ==
    /\ Accept(c)
    /\ LET n == IF journal # <<>> /\ Len(journal) \in BrokenOff(journal)
                THEN Len(journal) - journal[Len(journal)][2]
                ELSE Len(journal) IN
          \E r \in Replays(SubSeq(journal, 1, n)) : Send(r, <<c>>, FALSE)

\* A new client is sent the journal from its beginning.
HandleConnection(c) ==
    /\ Accept(c)
    /\ \E r \in Replays(journal) : Send(r, <<c>>, FALSE)

HandleHangUp(c) ==
    /\ HandleEvent(c)
    /\ conn' = [conn EXCEPT ![c] = "closed"]
    /\ order' = RemoveFirst(order, c)
    /\ UNCHANGED <<workerVars, pipeVars, dispatch, sendVars, journal, hung,
                   socket, got, whole>>

ReadOf(pipe) == SubSeq(pipe, 1, Min({ReadSize, Len(pipe)}))
RestOf(pipe) == SubSeq(pipe, Min({ReadSize, Len(pipe)}) + 1, Len(pipe))

HandleLog ==
    /\ HandleEvent("log")
    /\ Send(ReadOf(logPipe), order, TRUE)
    /\ logPipe' = RestOf(logPipe)
    /\ UNCHANGED <<workerVars, outPipe, journal, clientVars>>

HandleOutput ==
    /\ HandleEvent("output")
    /\ Send(ReadOf(outPipe), order, TRUE)
    /\ outPipe' = RestOf(outPipe)
    /\ UNCHANGED <<workerVars, logPipe, journal, clientVars>>

HandleDone ==
    /\ dispatch = "handle"
    /\ events = <<>>
    /\ dispatch' = "poll"
    /\ UNCHANGED <<workerVars, pipeVars, events, sendVars, journal, clientVars>>

\* struct.unpack raises struct.error in a replay.  It is no RuntimeError:
\* nothing catches it and the dispatch thread is over.
ReplayFails ==
    /\ dispatch = "send"
    /\ sent < Len(data)
    /\ data[sent + 1] = Failing
    /\ dispatch' = "dead"
    /\ UNCHANGED <<workerVars, pipeVars, events, sendVars, journal, clientVars>>

\* There is a connection to send to, and something to send.
Sending ==
    /\ dispatch = "send"
    /\ targets # <<>>
    /\ sent < Len(data)
    /\ data[sent + 1] # Failing

\* sendall blocks while the socket is full.
SendFragment ==
    /\ Sending
    /\ LET c == Head(targets) IN
          /\ c \notin hung
          /\ Len(socket[c]) < SocketSize
          /\ socket' = [socket EXCEPT ![c] = Append(@, data[sent + 1])]
    /\ sent' = sent + 1
    /\ UNCHANGED <<workerVars, pipeVars, dispatch, events, data, targets, live,
                   journal, conn, hung, order, got, whole>>

\* sendall raises BrokenPipeError, an OSError that nothing catches: the
\* dispatch thread is over.
SendBroken ==
    /\ Sending
    /\ Head(targets) \in hung
    /\ dispatch' = "dead"
    /\ UNCHANGED <<workerVars, pipeVars, events, sendVars, journal, clientVars>>

\* Mutant: the next connection is sent the rest of the data only.
SendNext_GoesOn ==
    /\ dispatch = "send"
    /\ targets # <<>>
    /\ sent = Len(data)
    /\ targets' = Tail(targets)
    /\ UNCHANGED <<workerVars, pipeVars, dispatch, events, data, sent, live,
                   journal, clientVars>>

SendNext ==
    /\ dispatch = "send"
    /\ targets # <<>>
    /\ sent = Len(data)
    /\ targets' = Tail(targets)
    /\ sent' = 0
    /\ UNCHANGED <<workerVars, pipeVars, dispatch, events, data, live, journal,
                   clientVars>>

\* After the broadcast new data is written in the journal.
SendDone ==
    /\ dispatch = "send"
    /\ targets = <<>>
    /\ dispatch' = "handle"
    /\ journal' = IF live THEN journal \o data ELSE journal
    /\ data' = <<>>
    /\ UNCHANGED <<workerVars, pipeVars, events, targets, sent, live,
                   clientVars>>

-----------------------------------------------------------------------------
(* The clients.                                                            *)

\* The console socket exists until the task closes its channels.
Connect(c) ==
    /\ conn[c] = "new"
    /\ worker # "closed"
    /\ conn' = [conn EXCEPT ![c] = "backlog"]
    /\ UNCHANGED <<workerVars, pipeVars, dispatch, events, sendVars, journal,
                   hung, order, socket, got, whole>>

Receive(c) ==
    /\ c \notin hung
    /\ socket[c] # <<>>
    /\ got' = [got EXCEPT ![c] = Append(@, Head(socket[c]))]
    /\ socket' = [socket EXCEPT ![c] = Tail(@)]
    /\ UNCHANGED <<workerVars, pipeVars, dispatch, events, sendVars, journal,
                   conn, hung, order, whole>>

\* A client reads something else than the messages that were written.
OutOfStep(s) ==
    \E i \in DOMAIN s : s[i] \notin Fragments \/ i \in BrokenOff(s) \ {Len(s)}

\* A client leaves when it has received the record of the end of the task, or
\* at any time when it reads out of step or its user interrupts it.
HangUp(c) ==
    /\ c \notin hung
    /\ conn[c] \in {"backlog", "open"}
    /\ \/ Interrupts
       \/ OutOfStep(got[c])
       \/ Contains(got[c], <<EndMessage, 3>>)
    /\ hung' = hung \cup {c}
    /\ UNCHANGED <<workerVars, pipeVars, dispatch, events, sendVars, journal,
                   conn, order, socket, got, whole>>

-----------------------------------------------------------------------------

WorkerStep == WriteLog \/ WriteOutput \/ Undispatch \/ Close

DispatchStep ==
    \/ Poll \/ PollNothing
    \/ \E c \in Clients : HandleConnection(c) \/ HandleHangUp(c)
    \/ HandleLog \/ HandleOutput \/ HandleDone
    \/ SendFragment \/ SendBroken \/ ReplayFails \/ SendNext \/ SendDone

\* The task is over and no one is left to receive anything, or its worker is
\* blocked by a full pipe that a dead dispatch thread does not read.
Rest == (worker = "closed" \/ dispatch = "dead") /\ UNCHANGED vars

Next ==
    \/ WorkerStep
    \/ DispatchStep
    \/ \E c \in Clients : Connect(c) \/ Receive(c) \/ HangUp(c)
    \/ Rest

Spec == Init /\ [][Next]_vars

(***************************************************************************)
(* The worker, its commands and the dispatch thread go on while they can,  *)
(* and a connected client goes on receiving.  Nobody has to connect or to  *)
(* hang up.                                                                *)
(***************************************************************************)
FairSpec ==
    /\ Spec
    /\ WF_vars(WorkerStep)
    /\ WF_vars(DispatchStep)
    /\ \A c \in Clients : WF_vars(Receive(c))

-----------------------------------------------------------------------------
(* Properties.                                                             *)

\* What a client has received or is about to receive.
Seen(c) == got[c] \o socket[c]

\* x is sent instead of gap, that begins with a record that is broken off: the
\* parts of a record cut in its body, as a message of their own, or whatever
\* else, as something that cannot be told.
SentInstead(gap, x) ==
    /\ ~Whole(gap)
    /\ gap[1][2] = 1
    /\ x # Garbled => /\ x = Short(gap[1][1])
                      /\ gap = SubSeq(LogRecord(gap[1][1]), 1, 2)

\* s has all of t, in its order and with nothing else, but for what began at
\* the first broken record and was there when the client was accepted.
Follows(s, t) ==
    \E j \in 0..Len(t), k \in 0..Len(t), x \in Sendable \ Fragments :
        /\ j < k
        /\ Whole(SubSeq(t, 1, j))
        /\ SentInstead(SubSeq(t, j + 1, k), x)
        /\ s = SubSeq(t, 1, j) \o <<x>> \o SubSeq(t, k + 1, Len(t))

\* s is what client c is to have when the journal is t.
Mirrors(c, s, t) == IF c \in whole THEN s = t ELSE Follows(s, t)

(***************************************************************************)
(* "Send tasks output from its beginning to new incoming connection"       *)
(* (tasks/__init__.py:177-178): a client sees the journal with no gap and  *)
(* nothing twice, whenever it connects.  At the end of every event what it *)
(* received or is about to receive is the journal, when no record of the   *)
(* journal was broken off as it connected.  When one was, the client has   *)
(* the journal up to that record and all that was added after it connected *)
(* (for a record whose body was cut, its rest with no header), and in      *)
(* between a shorter message or something out of step.                     *)
(***************************************************************************)
ClientsMirrorJournal ==
    dispatch \in {"poll", "handle", "stopped"} =>
        \A c \in Clients : conn[c] = "open" => Mirrors(c, Seen(c), journal)

\* What the worker and its commands have written.
Written == {f \in Fragments : f[1] < step /\ (IsLog(f[1]) <=> f[2] # 0)}

\* Two fragments of one pipe, of which f was written first.
IsBefore(f, g) == f[1] < g[1] \/ (f[1] = g[1] /\ f[2] < g[2])
SamePipe(f, g) == f[2] = 0 <=> g[2] = 0

\* The fragments of each pipe are in the order they were written in.
InOrder(s) ==
    \A j, k \in DOMAIN s :
        j < k /\ SamePipe(s[j], s[k]) => IsBefore(s[j], s[k])

JournalHasAll == Range(journal) = Written /\ InOrder(journal)

(***************************************************************************)
(* A dispatch thread that stops leaves nothing behind: the journal then    *)
(* has all that was written in each pipe, once and in order. The stop flag *)
(* alone does not end the dispatch: a poll must find nothing to read       *)
(* (tasks/__init__.py:167-170).                                            *)
(***************************************************************************)
StopLosesNothing == dispatch = "stopped" => JournalHasAll

(***************************************************************************)
(* "binary file to save task output including task logs and sub-commands   *)
(* outputs" (tasks/__init__.py:42-43): when the channels are closed the    *)
(* journal has all that was written.  The code breaks it: a client that    *)
(* leaves may end the dispatch thread (SendBroken), or one that connects   *)
(* (ReplayFails).                                                          *)
(***************************************************************************)
JournalIsComplete == worker = "closed" => JournalHasAll

(***************************************************************************)
(* The stop of the dispatch and the close of the channels end, with full   *)
(* pipes, full sockets and clients that connect late or leave on the way   *)
(* (tasks/__init__.py:143-148, 328-331).  When the dispatch thread is dead *)
(* the task only ends if the pipes hold the rest of its output: the        *)
(* property leaves that case out.                                          *)
(***************************************************************************)
TaskCloses == <>(worker = "closed" \/ dispatch = "dead")
=============================================================================
