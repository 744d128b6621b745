--------------------------- MODULE ForegroundPipe ---------------------------
(***************************************************************************)
(* pmb/helpers/run_core.py: foreground_pipe(), which runs a command, reads *)
(* what it writes through a pipe and kills it when it is silent for too    *)
(* long, with pipe_read() and kill_command().                              *)
(*                                                                         *)
(* The command's process and a child it may leave behind (a daemon like    *)
(* the sccache or gpg server) write to the same pipe and run concurrently. *)
(* The k-th chunk that is written is represented by the number k.  Time is *)
(* counted in ticks while pmbootstrap waits in select(): select() returns  *)
(* as soon as the pipe is readable, before the next tick.                  *)
(***************************************************************************)
EXTENDS Naturals, Sequences

CONSTANTS
    Timeout,    \* context.command_timeout.length, in ticks
    Capacity,   \* chunks the pipe can hold
    MaxChunks   \* bound: chunks the command and its child write

ASSUME ConstantsAssumption ==
    Timeout \in Nat \ {0} /\ Capacity \in Nat \ {0} /\ MaxChunks \in Nat

VARIABLES
    limited,    \* context.command_timeout is not None (never changes)
    killSilent, \* output_timeout (never changes)
    process,    \* the command
    code,       \* its exit code
    daemon,     \* the child
    stdout,     \* who has the write end of the pipe open
    pipe,       \* chunks in the pipe
    written,    \* number of chunks written so far
    last,       \* the last of them that the command wrote itself
    buffer,     \* output_buffer
    waited,     \* perf_counter() - wait_start
    quiet,      \* ticks since a chunk was read (only for the properties)
    ppids,      \* what ps showed to kill_command(): children of the command
    pc

arguments == <<limited, killSilent>>
processes == <<process, code, daemon, stdout, written, last>>
vars == <<arguments, processes, pipe, buffer, waited, quiet, ppids, pc>>

Sigkill == 9

TypeOK ==
    /\ limited \in BOOLEAN /\ killSilent \in BOOLEAN
    /\ process \in {"running", "exited"}
    /\ code \in {0, 1, Sigkill}
    /\ daemon \in {"none", "running", "exited"}
    /\ stdout \subseteq {"process", "daemon"}
    /\ pipe \in Seq(1..MaxChunks) /\ Len(pipe) <= Capacity
    /\ written \in 0..MaxChunks
    /\ last \in 0..written
    /\ buffer \in Seq(1..MaxChunks)
    /\ waited \in 0..Timeout
    /\ quiet \in 0..Timeout
    /\ ppids \subseteq {"daemon"}
    /\ pc \in {"poll", "select", "read", "ps", "kill", "kill_children", "rest", "returned"}

Init ==
    /\ limited \in BOOLEAN /\ killSilent \in BOOLEAN
    /\ process = "running" /\ code = 0 /\ daemon = "none"
    /\ stdout = {"process"}
    /\ pipe = <<>> /\ written = 0 /\ last = 0
    /\ buffer = <<>>
    /\ waited = 0 /\ quiet = 0
    /\ ppids = {}
    /\ pc = "poll"

-----------------------------------------------------------------------------
(* The command and its child.                                              *)

Write(who) ==
    /\ who \in stdout
    /\ written < MaxChunks /\ Len(pipe) < Capacity
    /\ written' = written + 1
    /\ pipe' = Append(pipe, written')
    /\ last' = IF who = "process" THEN written' ELSE last
    /\ UNCHANGED <<arguments, process, code, daemon, stdout, buffer, waited, quiet, ppids, pc>>

Fork ==
    /\ process = "running" /\ daemon = "none"
    /\ daemon' = "running"
    /\ stdout' = IF "process" \in stdout THEN stdout \cup {"daemon"} ELSE stdout
    /\ UNCHANGED <<arguments, process, code, written, last, pipe, buffer, waited, quiet, ppids, pc>>

CloseStdout ==
    /\ process = "running" /\ "process" \in stdout
    /\ stdout' = stdout \ {"process"}
    /\ UNCHANGED <<arguments, process, code, daemon, written, last,
                   pipe, buffer, waited, quiet, ppids, pc>>

Exit ==
    /\ process = "running"
    /\ process' = "exited"
    /\ code' \in {0, 1}
    /\ stdout' = stdout \ {"process"}
    /\ UNCHANGED <<arguments, daemon, written, last, pipe, buffer, waited, quiet, ppids, pc>>

DaemonExits ==
    /\ daemon = "running"
    /\ daemon' = "exited"
    /\ stdout' = stdout \ {"daemon"}
    /\ UNCHANGED <<arguments, process, code, written, last, pipe, buffer, waited, quiet, ppids, pc>>

-----------------------------------------------------------------------------
(* foreground_pipe()                                                       *)

(* Mutant: wait_start is only set once. *)
PollKeepsWaiting ==
    /\ pc = "poll"
    /\ pc' = IF process = "running" THEN "select" ELSE "rest"
    /\ UNCHANGED <<arguments, processes, pipe, buffer, waited, quiet, ppids>>

(* process.poll(), wait_start *)
Poll ==
    /\ pc = "poll"
    /\ pc' = IF process = "running" THEN "select" ELSE "rest"
    /\ waited' = 0
    /\ UNCHANGED <<arguments, processes, pipe, buffer, quiet, ppids>>

(* There is something to read, or nobody is left to write (end of file). *)
Readable == pipe # <<>> \/ stdout = {}

TimedOut == limited /\ killSilent /\ waited >= Timeout

(* Mutant: commands that are not killed are waited for without a timeout. *)
SelectBlocks ==
    /\ pc = "select"
    /\ Readable \/ (limited /\ killSilent /\ waited = Timeout)
    /\ pc' = IF TimedOut THEN "ps" ELSE "read"
    /\ UNCHANGED <<arguments, processes, pipe, buffer, waited, quiet, ppids>>

Select ==
    /\ pc = "select"
    /\ Readable \/ (limited /\ waited = Timeout)
    /\ pc' = IF TimedOut THEN "ps" ELSE "read"
    /\ UNCHANGED <<arguments, processes, pipe, buffer, waited, quiet, ppids>>

(* Mutant: the timeout is not passed to select(). *)
TickUnlimited ==
    /\ pc = "select" /\ ~Readable
    /\ limited
    /\ waited' = waited + 1
    /\ quiet' = IF quiet < Timeout THEN quiet + 1 ELSE quiet
    /\ UNCHANGED <<arguments, processes, pipe, buffer, ppids, pc>>

(* Time passes in select(). *)
Tick ==
    /\ pc = "select" /\ ~Readable
    /\ limited /\ waited < Timeout
    /\ waited' = waited + 1
    /\ quiet' = IF quiet < Timeout THEN quiet + 1 ELSE quiet
    /\ UNCHANGED <<arguments, processes, pipe, buffer, ppids, pc>>

(* pipe_read(), in the loop ("read") and after it ("rest") *)
ReadChunk ==
    /\ pc \in {"read", "rest"} /\ pipe # <<>>
    /\ buffer' = Append(buffer, Head(pipe))
    /\ pipe' = Tail(pipe)
    /\ quiet' = 0
    /\ UNCHANGED <<arguments, processes, waited, ppids, pc>>

(* Mutant: what is left in the pipe when the process has quit is not read. *)
NothingToReadQuits ==
    /\ pc = "rest" \/ (pc = "read" /\ pipe = <<>>)
    /\ pc' = IF pc = "read" THEN "poll" ELSE "returned"
    /\ UNCHANGED <<arguments, processes, pipe, buffer, waited, quiet, ppids>>

NothingToRead ==
    /\ pc \in {"read", "rest"} /\ pipe = <<>>
    /\ pc' = IF pc = "read" THEN "poll" ELSE "returned"
    /\ UNCHANGED <<arguments, processes, pipe, buffer, waited, quiet, ppids>>

(* kill_command(): ps shows a child only as long as its parent lives. *)
Ps ==
    /\ pc = "ps"
    /\ ppids' = IF process = "running" /\ daemon = "running" THEN {"daemon"} ELSE {}
    /\ pc' = "kill"
    /\ UNCHANGED <<arguments, processes, pipe, buffer, waited, quiet>>

(* kill_process_tree(): "kill -9", no matter if the process is still there *)
Kill ==
    /\ pc = "kill"
    /\ process' = "exited"
    /\ code' = IF process = "running" THEN Sigkill ELSE code
    /\ stdout' = stdout \ {"process"}
    /\ pc' = "kill_children"
    /\ UNCHANGED <<arguments, daemon, written, last, pipe, buffer, waited, quiet, ppids>>

KillChildren ==
    /\ pc = "kill_children"
    /\ daemon' = IF "daemon" \in ppids THEN "exited" ELSE daemon
    /\ stdout' = IF "daemon" \in ppids THEN stdout \ {"daemon"} ELSE stdout
    /\ pc' = "poll"
    /\ UNCHANGED <<arguments, process, code, written, last, pipe, buffer, waited, quiet, ppids>>

-----------------------------------------------------------------------------

Command == Write("process") \/ Write("daemon") \/ Fork \/ CloseStdout \/ Exit \/ DaemonExits

Pmbootstrap ==
    Poll \/ Select \/ ReadChunk \/ NothingToRead \/ Ps \/ Kill \/ KillChildren

Next == Command \/ Pmbootstrap \/ Tick

(* pmbootstrap gets to run and time passes; the command may do nothing,    *)
(* for ever.                                                               *)
Spec == Init /\ [][Next]_vars /\ WF_vars(Pmbootstrap) /\ WF_vars(Tick)

-----------------------------------------------------------------------------

(* What is returned is all the command wrote before it ended, in order and *)
(* nothing twice, however its end, its output and a daemon that writes on  *)
(* interleave with poll(), select() and readline().                        *)
OutputComplete ==
    /\ \A k \in DOMAIN buffer : buffer[k] = k
    /\ pc = "returned" => Len(buffer) >= last

(* "kill it after being silent for too long": only the commands that have  *)
(* a timeout are killed, and only if pmbootstrap read nothing from them    *)
(* during the whole of it, however long they have been running.            *)
KilledOnlyWhenSilent ==
    pc \in {"ps", "kill", "kill_children"} => limited /\ killSilent /\ quiet = Timeout

(* The end of a command is noticed although a daemon keeps the pipe open   *)
(* and silent - with a timeout: select() is not told that a process ends.  *)
EndIsNoticed == (limited /\ process = "exited") ~> pc = "returned"

(* run_core.py line 238: "kill the process when it doesn't print any       *)
(* output after a certain time".                                           *)
SilentIsKilled == limited /\ killSilent => <>(process = "exited")
=============================================================================
