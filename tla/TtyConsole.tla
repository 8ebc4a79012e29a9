----------------------------- MODULE TtyConsole -----------------------------
(***************************************************************************)
(* A command of an interactive task in a terminal, and the client it is    *)
(* shown to: tty_runcmd (src/fatbuildr/console/server.py),                 *)
(* tty_client_console (console/client.py) and, between them, the pipes of  *)
(* TaskIO in interactive mode (tasks/__init__.py).                         *)
(*                                                                         *)
(* The worker writes console messages in two pipes, log records in one and *)
(* all that concerns the terminal in the other; the dispatch thread reads  *)
(* the pipes in any order and sends what it reads to the client.  A        *)
(* message is here two fragments, and a read may end between them.         *)
(* TaskIO models several clients, the journal and the end of the dispatch. *)
(*                                                                         *)
(* Of the input of the user only the size of the window is modelled.       *)
(***************************************************************************)
EXTENDS Integers, Sequences, SequencesExt

CONSTANTS MaxChunks,   \* bound on what the command writes, in reads of it
          TtyReadSize, \* fragments one read of a pipe returns at most
          MaxResizes   \* bound on changes of size of the window of the user

ASSUME TtyBoundsAssumption ==
    /\ {MaxChunks, MaxResizes} \subseteq Nat
    /\ TtyReadSize \in Nat \ {0}

VARIABLES
    server,    \* where the worker is
    child,     \* the command
    written,   \* history: number of chunks it wrote
    pty,       \* chunks nobody has read from the terminal of the command
    ptySize,   \* size of that terminal, 0 at first
    logs,      \* the pipe of log records
    outs,      \* the pipe of the rest
    cut,       \* the pipe whose last read ended inside a message
    mixed,     \* history: another pipe was read then
    stream,    \* what the client has still to receive
    input,     \* sizes sent to the worker and not handled
    window,    \* size of the window of the user
    signals,   \* bytes in the signal pipe of the client
    missed,    \* history: the last signals came together and were ignored
    client,    \* where the client is
    terminal,  \* mode of the terminal of the user
    guard,     \* restore_term is registered with atexit
    shown      \* chunks on the screen, with the mode of the terminal

serverVars == <<server, child, written, pty, ptySize>>
pipesVars == <<logs, outs, cut, mixed>>
sizeVars == <<input, window, signals, missed>>
screenVars == <<client, terminal, guard, shown>>
ttyVars == <<serverVars, pipesVars, stream, sizeVars, screenVars>>

Kinds == {"log", "end", "enable", "disable", "bytes"}

\* A part of a message; chunk is 0 for all but the output of the command.
Pieces == [kind : Kinds, chunk : 0..MaxChunks, part : {1, 2}]

Message(kind, chunk) ==
    [i \in 1..2 |-> [kind |-> kind, chunk |-> chunk, part |-> i]]

TtyTypeOK ==
    /\ server \in {"start", "enable", "loop", "hung", "end", "over"}
    /\ child \in {"none", "runs", "gone"}
    /\ written \in 0..MaxChunks
    /\ Range(pty) \subseteq 1..written
    /\ ptySize \in 0..(MaxResizes + 1)
    /\ Range(logs \o outs \o stream) \subseteq Pieces
    /\ cut \in {"none", "logs", "outs"}
    /\ mixed \in BOOLEAN
    /\ window \in 1..(MaxResizes + 1)
    /\ Range(input) \subseteq 1..window
    /\ signals \in 0..MaxResizes
    /\ missed \in BOOLEAN
    /\ client \in {"watching", "lost", "left", "killed"}
    /\ terminal \in {"user", "raw"}
    /\ guard \in BOOLEAN
    /\ Range(shown) \subseteq [chunk : 1..written, mode : {"user", "raw"}]

TtyInit ==
    /\ server = "start"
    /\ child = "none"
    /\ written = 0
    /\ pty = <<>>
    /\ ptySize = 0
    /\ logs = <<>> /\ outs = <<>>
    /\ cut = "none"
    /\ mixed = FALSE
    /\ stream = <<>>
    /\ input = <<>>
    /\ window = 1
    /\ signals = 0
    /\ missed = FALSE
    /\ client = "watching"
    /\ terminal = "user"
    /\ guard = FALSE
    /\ shown = <<>>

-----------------------------------------------------------------------------
(* The worker and the command.                                             *)

LogStart ==
    /\ server = "start"
    /\ logs' = logs \o Message("log", 0)
    /\ server' = "enable"
    /\ UNCHANGED <<child, written, pty, ptySize, outs, cut, mixed, stream,
                   sizeVars, screenVars>>

\* Log records of the worker are muted until RawDisable.
RawEnable ==
    /\ server = "enable"
    /\ outs' = outs \o Message("enable", 0)
    /\ child' = "runs"
    /\ server' = "loop"
    /\ UNCHANGED <<written, pty, ptySize, logs, cut, mixed, stream, sizeVars,
                   screenVars>>

ChildWrites ==
    /\ child = "runs"
    /\ written < MaxChunks
    /\ written' = written + 1
    /\ pty' = Append(pty, written + 1)
    /\ UNCHANGED <<server, child, ptySize, pipesVars, stream, sizeVars,
                   screenVars>>

ChildExits ==
    /\ child = "runs"
    /\ child' = "gone"
    /\ UNCHANGED <<server, written, pty, ptySize, pipesVars, stream, sizeVars,
                   screenVars>>

\* Mutant: the output goes in the pipe of the log records.
CopyOutput_InLogs ==
    /\ server = "loop"
    /\ child = "runs"
    /\ pty # <<>>
    /\ logs' = logs \o Message("bytes", Head(pty))
    /\ pty' = Tail(pty)
    /\ UNCHANGED <<server, child, written, ptySize, outs, cut, mixed, stream,
                   sizeVars, screenVars>>

\* epoll reports data in the terminal and no hang up.
CopyOutput ==
    /\ server = "loop"
    /\ child = "runs"
    /\ pty # <<>>
    /\ outs' = outs \o Message("bytes", Head(pty))
    /\ pty' = Tail(pty)
    /\ UNCHANGED <<server, child, written, ptySize, logs, cut, mixed, stream,
                   sizeVars, screenVars>>

ResizePty ==
    /\ server = "loop"
    /\ input # <<>>
    /\ ptySize' = Head(input)
    /\ input' = Tail(input)
    /\ UNCHANGED <<server, child, written, pty, pipesVars, stream, window,
                   signals, missed, screenVars>>

\* Once the command is gone epoll reports the hang up, with the data there is:
\* the hang up is looked at first.
HangUpDetected ==
    /\ server = "loop"
    /\ child = "gone"
    /\ server' = "hung"
    /\ UNCHANGED <<child, written, pty, ptySize, pipesVars, stream, sizeVars,
                   screenVars>>

RawDisable ==
    /\ server = "hung"
    /\ outs' = outs \o Message("disable", 0)
    /\ server' = "end"
    /\ UNCHANGED <<child, written, pty, ptySize, logs, cut, mixed, stream,
                   sizeVars, screenVars>>

\* The tasks manager logs how the task ended.
LogEnd ==
    /\ server = "end"
    /\ logs' = logs \o Message("end", 0)
    /\ server' = "over"
    /\ UNCHANGED <<child, written, pty, ptySize, outs, cut, mixed, stream,
                   sizeVars, screenVars>>

-----------------------------------------------------------------------------
(* The dispatch thread.                                                    *)

Dispatched(name, pipe, n) ==
    /\ pipe # <<>>
    /\ stream' = stream \o SubSeq(pipe, 1, n)
    /\ mixed' = (mixed \/ cut \notin {"none", name})
    /\ cut' = IF pipe[n].part = 1 THEN name
              ELSE IF cut = name THEN "none" ELSE cut
    /\ UNCHANGED <<serverVars, sizeVars, screenVars>>

ReadLength(pipe) == Min({TtyReadSize, Len(pipe)})

DispatchLogs ==
    /\ Dispatched("logs", logs, ReadLength(logs))
    /\ logs' = SubSeq(logs, ReadLength(logs) + 1, Len(logs))
    /\ UNCHANGED outs

DispatchOuts ==
    /\ Dispatched("outs", outs, ReadLength(outs))
    /\ outs' = SubSeq(outs, ReadLength(outs) + 1, Len(outs))
    /\ UNCHANGED logs

-----------------------------------------------------------------------------
(* The client.                                                             *)

\* The process exits: with a return, an exception or an interrupt, what was
\* registered with atexit runs.
ClientLeaves ==
    /\ client' = "left"
    /\ terminal' = IF guard THEN "user" ELSE terminal
    /\ guard' = FALSE

\* ConsoleMessage.read: the length of a message is in its first fragment.
NextIsWhole == Len(stream) > 1 /\ Head(stream).part = 1
               /\ stream[2] = [Head(stream) EXCEPT !.part = 2]

ClientReceives(kind) ==
    /\ client = "watching"
    /\ NextIsWhole
    /\ Head(stream).kind = kind
    /\ stream' = SubSeq(stream, 3, Len(stream))

\* Mutant: nothing is registered with atexit.
ReceiveRawEnable_Unguarded ==
    /\ ClientReceives("enable")
    /\ terminal' = "raw"
    /\ input' = Append(input, window)
    /\ UNCHANGED <<serverVars, pipesVars, window, signals, missed, client,
                   guard, shown>>

ReceiveRawEnable ==
    /\ ClientReceives("enable")
    /\ terminal' = "raw"
    /\ guard' = TRUE
    /\ input' = Append(input, window)
    /\ UNCHANGED <<serverVars, pipesVars, window, signals, missed, client,
                   shown>>

ReceiveRawDisable ==
    /\ ClientReceives("disable")
    /\ terminal' = "user"
    /\ guard' = FALSE
    /\ UNCHANGED <<serverVars, pipesVars, sizeVars, client, shown>>

ReceiveBytes ==
    /\ ClientReceives("bytes")
    /\ shown' = Append(shown, [chunk |-> Head(stream).chunk, mode |-> terminal])
    /\ UNCHANGED <<serverVars, pipesVars, sizeVars, client, terminal, guard>>

ReceiveLog ==
    /\ ClientReceives("log")
    /\ UNCHANGED <<serverVars, pipesVars, sizeVars, screenVars>>

ReceiveEnd ==
    /\ ClientReceives("end")
    /\ ClientLeaves
    /\ UNCHANGED <<serverVars, pipesVars, sizeVars, shown>>

\* A message that another one has cut in two: what the client makes of it and
\* of all that follows is anything.
ReceiveGarbage ==
    /\ client = "watching"
    /\ Len(stream) > 1
    /\ ~NextIsWhole
    /\ client' = "lost"
    /\ UNCHANGED <<serverVars, pipesVars, stream, sizeVars, terminal, guard,
                   shown>>

\* A record without a colon, bytes that are no text: an exception that nothing
\* catches.
ClientRaises ==
    /\ client = "lost"
    /\ ClientLeaves
    /\ UNCHANGED <<serverVars, pipesVars, stream, sizeVars, shown>>

\* The server has closed the connection: the hang up is looked at before the
\* data.  unset_raw, in raw mode or not.
ClientHangsUp ==
    /\ client = "watching"
    /\ server = "over"
    /\ logs = <<>> /\ outs = <<>>
    /\ client' = "left"
    /\ terminal' = "user"
    /\ guard' = FALSE
    /\ UNCHANGED <<serverVars, pipesVars, stream, sizeVars, shown>>

\* KeyboardInterrupt: in raw mode the key is sent to the command.
Interrupted ==
    /\ client = "watching"
    /\ terminal = "user"
    /\ ClientLeaves
    /\ UNCHANGED <<serverVars, pipesVars, stream, sizeVars, shown>>

\* By a signal Python does not handle: nothing of atexit runs.
ClientKilled ==
    /\ client \in {"watching", "lost"}
    /\ client' = "killed"
    /\ UNCHANGED <<serverVars, pipesVars, stream, sizeVars, terminal, guard,
                   shown>>

\* The user changes the size of the window.
Resize ==
    /\ client = "watching"
    /\ window <= MaxResizes
    /\ window' = window + 1
    /\ signals' = signals + 1
    /\ UNCHANGED <<serverVars, pipesVars, stream, input, missed, screenVars>>

\* The bytes of the signal pipe are read at once; two of them are not the
\* number of a signal the client knows.
HandleSignals ==
    /\ client = "watching"
    /\ signals > 0
    /\ input' = IF signals = 1 THEN Append(input, window) ELSE input
    /\ missed' = (signals > 1)
    /\ signals' = 0
    /\ UNCHANGED <<serverVars, pipesVars, stream, window, screenVars>>

TtyNext ==
    \/ LogStart \/ RawEnable \/ CopyOutput \/ ResizePty \/ HangUpDetected
    \/ RawDisable \/ LogEnd
    \/ ChildWrites \/ ChildExits
    \/ DispatchLogs \/ DispatchOuts
    \/ ReceiveRawEnable \/ ReceiveRawDisable \/ ReceiveBytes \/ ReceiveLog
    \/ ReceiveEnd \/ ReceiveGarbage \/ ClientRaises \/ ClientHangsUp
    \/ Interrupted \/ ClientKilled
    \/ Resize \/ HandleSignals

TtySpec == TtyInit /\ [][TtyNext]_ttyVars

-----------------------------------------------------------------------------
(* Properties.                                                             *)

(***************************************************************************)
(* The terminal of the user is as it was when a client has left, unless it *)
(* was killed: also when the record of the end of the task comes before    *)
(* the message that ends the raw mode, for they come by two pipes, and     *)
(* when the client fails on what it cannot read (console/client.py:82-106, *)
(* 184-216).                                                               *)
(***************************************************************************)
TerminalIsRestored == client = "left" => terminal = "user"

(***************************************************************************)
(* What a client shows of the command is what the command wrote, in order  *)
(* and with no gap, and always in raw mode; and a client only loses the    *)
(* thread of messages when a read of the dispatch thread ended inside a    *)
(* message and the next one was of the other pipe                          *)
(* (tasks/__init__.py:185-206, console/server.py:143-151).                 *)
(***************************************************************************)
ScreenIsFaithful ==
    /\ \A i \in DOMAIN shown : shown[i] = [chunk |-> i, mode |-> "raw"]
    /\ client = "lost" => mixed

(***************************************************************************)
(* As soon as nothing is on its way the terminal of the command has the    *)
(* size of the window of the user, unless two changes of it came together  *)
(* and none since (console/client.py:148-161, 174-183).                    *)
(***************************************************************************)
SizeIsFollowed ==
    server = "loop" /\ client = "watching" /\ terminal = "raw"
    /\ signals = 0 /\ input = <<>> /\ ~missed => ptySize = window

\* The two terminals agree: during the command, and when it is over.
TerminalsAgree == TerminalIsRestored /\ SizeIsFollowed

(***************************************************************************)
(* "The function then copies subprocess output (stdout, stderr) to the     *)
(* given task output" (console/server.py:53-54): nothing of it is left     *)
(* when the function has ended.  The code breaks it: the last output of a  *)
(* command that exits is thrown away with its terminal.                    *)
(***************************************************************************)
OutputIsCopied == server = "end" => pty = <<>>
=============================================================================
