----------------------------- MODULE Processes -----------------------------
(***************************************************************************)
(* What the commands do to the terminal, the program and other processes:  *)
(* exec, suspend, signal, key and write, readline, redraw_method.          *)
(*                                                                         *)
(* The thread of tkremap is in its loop or has steps of a command to do,   *)
(* each of them a system call that may block, or be interrupted by         *)
(* SIGWINCH.  The pty holds little in either direction.  A child of exec   *)
(* shares terminal and pty; when its exec fails it returns from the call   *)
(* and is a second tkremap.  One end of input is modelled: the loop finds  *)
(* the terminal gone.  How keys are recognised and dispatched is in        *)
(* EventLoop and KeyDispatch; here a key calls any command.                *)
(*                                                                         *)
(* Left out: what is on the screen (and that a copy of tkremap may show it *)
(* elsewhere), return values and groups of commands, readline's own mode.  *)
(* A copy of tkremap whose input is a file reads no keys from it.          *)
(***************************************************************************)
EXTENDS Integers, Sequences, FiniteSets

CONSTANTS
  Main, Children,   \* tkremap, and the processes that can be forked
  Null,
  Configurations,   \* [commands, children]: what keys call, and a limit of processes
  Chunk,            \* the length of what one call writes
  Attempts,         \* how often write_full() calls write(), 5
  MaxTyped,         \* bound: bytes typed ahead
  MaxAsked,         \* bound: requests for the cursor that the terminal has not answered
  MaxInput,         \* bounds: what the pty holds for the program,
  MaxOutput,        \*   and of its output
  MaxSize           \* bound: changes of the terminal's size

Processes == {Main} \cup Children

WellFormed(cmd) ==
  \/ cmd.op \in {"suspend", "write"}
  \/ cmd.op = "signal" /\ cmd.signal \in {"STOP", "CONT"}
  \/ cmd.op = "exec" /\ cmd.background \in BOOLEAN
                     /\ cmd.in \in {"inherited", "file"} /\ cmd.out \in {"inherited", "pty"}
  \/ cmd.op = "readline" /\ cmd.confirm \in BOOLEAN /\ cmd.refresh \in BOOLEAN
  \/ cmd.op = "redraw_method" /\ cmd.method \in {"resize", "srmcup", "keys"}

ASSUME CommandsAssumption ==
  \A c \in Configurations: c.children \subseteq Children /\ \A cmd \in c.commands: WellFormed(cmd)
ASSUME ProcessesAssumption == Main \notin Children
ASSUME NullAssumption == Null \notin Children \cup {"input", "restore", "other"}
ASSUME BoundsAssumption ==
  /\ {Chunk, Attempts, MaxAsked, MaxInput, MaxOutput} \subseteq Nat \ {0}
  /\ {MaxTyped, MaxSize} \subseteq Nat

VARIABLES
  config,       \* its commands, and the processes that the user may have
  \* the terminal, its user and the shell
  mode,         \* "input" (set_input_mode()), "restore" (tios_restore), "other"
  stdin,        \* bytes sent and not read
  asked,        \* how often the cursor was asked for and not yet told
  hup,          \* the terminal is gone
  size,         \* its size
  foreground,   \* whether it belongs to tkremap's process group
  jobcontrol,   \* whether a shell notices that tkremap stops
  \* the program and its pty
  program,      \* "reads", "writes" (blocked while output is full), "dead"
  halted,       \* it has been stopped
  input, output,
  ptysize,      \* [size, narrow]
  nonblock,     \* O_NONBLOCK of the master, which exec's children share
  \* the processes
  proc,
  winch,        \* those that have to handle SIGWINCH
  method,       \* context.redraw_method
  exit,         \* tkremap has ended
  \* history
  meddled,      \* what others changed and tkremap has not set since
  typed         \* what was typed while the cursor was asked for, until all is read

terminal == <<config, mode, stdin, asked, hup, size, foreground, jobcontrol>>
pty      == <<program, halted, input, output, ptysize, nonblock>>
vars     == <<terminal, pty, proc, winch, method, exit, meddled, typed>>

\* A process: tkremap, on its way to exec, another program, a zombie or none.
Process(is, from) ==
  [is |-> is, todo |-> <<>>, cmd |-> Null, stdin |-> from, pty |-> TRUE,
   stopped |-> FALSE, child |-> Null, old |-> Null, left |-> Chunk, tries |-> Attempts,
   moved |-> FALSE]
Absent == Process("none", "closed")
Copy(from) == Process("tkremap", from)
FullSize(s) == [size |-> s, narrow |-> FALSE]

\* tmux_fix() forks: when there is no tmux, its child runs into the loop as well.
Init ==
  /\ config \in Configurations
  /\ mode = "input"
  /\ stdin = <<>>
  /\ asked = 0
  /\ hup = FALSE
  /\ size = 0
  /\ foreground = TRUE
  /\ jobcontrol \in BOOLEAN
  /\ jobcontrol \/ \E cmd \in config.commands: cmd.op = "suspend"
  /\ program = "reads"
  /\ halted = FALSE
  /\ input = 0
  /\ output = 0
  /\ ptysize = FullSize(0)
  /\ nonblock = FALSE
  /\ \/ proc = [p \in Processes |-> IF p = Main THEN Copy("terminal") ELSE Absent]
     \/ \E c \in config.children: proc = [p \in Processes |-> CASE p = Main -> Copy("terminal")
                                                        [] p = c -> Copy("closed")
                                                        [] OTHER -> Absent]
  /\ winch = {}
  /\ method = "resize"
  /\ exit = FALSE
  /\ meddled = {}
  /\ typed = {}

Tkremap(p) == proc[p].is = "tkremap"
Polls(p) == Tkremap(p) /\ ~proc[p].stopped /\ proc[p].todo = <<>>
Does(p, step) ==
  Tkremap(p) /\ ~proc[p].stopped /\ proc[p].todo # <<>> /\ Head(proc[p].todo) = step
Done(p) ==
  [proc[p] EXCEPT !.todo = Tail(@), !.cmd = IF Len(proc[p].todo) = 1 THEN Null ELSE @]
Proceeds(p) == proc' = [proc EXCEPT ![p] = Done(p)]
HasTerminal(p) == proc[p].stdin = "terminal"

-----------------------------------------------------------------------------
(* The commands: their system calls in order. *)

\* Mutant: the mode is not set again after a stop.
SuspendKeepsMode == <<"stop_program", "stop_self", "continue_program", "redraw">>
Suspend == <<"stop_program", "stop_self", "continue_program", "set_mode", "redraw">>

\* Mutant: only the row is read.
GetRow == <<"ask", "read_3", "read_row", "reset_mode">>
GetCursor == <<"ask", "read_3", "read_row", "read_column", "reset_mode">>
Readline(cmd) ==
  <<"restore_mode">> \o GetCursor
    \o (IF cmd.confirm THEN <<"set_mode", "confirm">> ELSE <<"readline">>)
    \o <<"set_mode">> \o (IF cmd.refresh THEN <<"redraw">> ELSE <<>>)

Steps(cmd) ==
  CASE cmd.op = "suspend" -> Suspend
    [] cmd.op = "readline" -> Readline(cmd)
    [] cmd.op = "exec" -> <<"fork">>
    [] OTHER -> << cmd.op >>

\* redraw_redraw()
RedrawSteps ==
  CASE method = "srmcup" -> <<>>
    [] method = "resize" -> <<"get_size", "narrow", "widen">>
    [] method = "keys" -> <<"write">>

-----------------------------------------------------------------------------
(* The loop.  The program's output goes first. *)

\* What read(2) returns is shown.
ShowOutput(p) ==
  /\ Polls(p) /\ output > 0
  /\ output' \in 0..output - 1
  /\ UNCHANGED <<terminal, program, halted, input, ptysize, nonblock, proc, winch, method, exit, meddled, typed>>

ReadKey(p) ==
  /\ Polls(p) /\ output = 0
  /\ HasTerminal(p) /\ foreground /\ stdin # <<>>
  /\ stdin' = Tail(stdin)
  /\ \/ UNCHANGED proc
     \/ \E cmd \in config.commands: proc' = [proc EXCEPT ![p].todo = Steps(cmd), ![p].cmd = cmd]
  /\ UNCHANGED <<config, mode, asked, hup, size, foreground, jobcontrol, pty, winch, method, exit, meddled, typed>>

\* The pty is closed and the program waited for.
SeeHangup(p) ==
  /\ Polls(p) /\ output = 0
  /\ HasTerminal(p) /\ stdin = <<>> /\ hup
  /\ proc' = [proc EXCEPT ![p].todo = <<"wait_program">>, ![p].pty = FALSE]
  /\ UNCHANGED <<terminal, pty, winch, method, exit, meddled, typed>>

\* Only tkremap is the program's parent: no copy of it ever gets to know.
SeeDeath ==
  /\ Polls(Main) /\ output = 0 /\ stdin = <<>> /\ ~hup
  /\ program = "dead"
  /\ exit' = TRUE
  /\ UNCHANGED <<terminal, pty, proc, winch, method, meddled, typed>>

\* cleanup(), by atexit().  What a copy leaves half done is nobody's business.
Ends(p) ==
  /\ proc' = [proc EXCEPT ![p] = Process("zombie", "closed")]
  /\ mode' = IF HasTerminal(p) THEN "restore" ELSE mode
  /\ meddled' = meddled \cup (IF HasTerminal(p) THEN {"mode"} ELSE {})
       \cup (IF halted THEN {"stop"} ELSE {}) \cup (IF ptysize.narrow THEN {"size"} ELSE {})
       \cup (IF proc[p].old # Null THEN {"answer"} ELSE {})
       \cup (IF proc[p].child # Null THEN {"orphan"} ELSE {})

WaitProgram(p) ==
  /\ Does(p, "wait_program")
  /\ IF p = Main
     THEN program = "dead" /\ exit' = TRUE /\ UNCHANGED <<mode, proc, meddled>>
     ELSE Ends(p) /\ UNCHANGED exit
  /\ UNCHANGED <<config, stdin, asked, hup, size, foreground, jobcontrol, pty, winch, method, typed>>

-----------------------------------------------------------------------------
(* The terminal's mode, stops and signals. *)

\* tcsetattr() from the background stops the process.
SetMode(p) ==
  /\ Does(p, "set_mode")
  /\ IF foreground
     THEN mode' = "input" /\ meddled' = meddled \ {"mode"} /\ Proceeds(p)
     ELSE proc' = [proc EXCEPT ![p].stopped = TRUE] /\ UNCHANGED <<mode, meddled>>
  /\ UNCHANGED <<config, stdin, asked, hup, size, foreground, jobcontrol, pty, winch, method, exit, typed>>

RestoreMode(p) ==
  /\ Does(p, "restore_mode")
  /\ mode' = "restore"
  /\ Proceeds(p)
  /\ UNCHANGED <<config, stdin, asked, hup, size, foreground, jobcontrol, pty, winch, method, exit, meddled, typed>>

\* A signal from tkremap to the program, if it is there.
Halt(stop) == halted' = (stop /\ program # "dead")

StopProgram(p) ==
  /\ Does(p, "stop_program")
  /\ Halt(TRUE)
  /\ Proceeds(p)
  /\ UNCHANGED <<terminal, program, input, output, ptysize, nonblock, winch, method, exit, meddled, typed>>

ContinueProgram(p) ==
  /\ Does(p, "continue_program")
  /\ Halt(FALSE)
  /\ meddled' = meddled \ {"stop"}
  /\ Proceeds(p)
  /\ UNCHANGED <<terminal, program, input, output, ptysize, nonblock, winch, method, exit, typed>>

SignalProgram(p) ==
  /\ Does(p, "signal")
  /\ Halt(proc[p].cmd.signal = "STOP")
  /\ meddled' = IF proc[p].cmd.signal = "STOP" THEN meddled \cup {"stop"} ELSE meddled \ {"stop"}
  /\ Proceeds(p)
  /\ UNCHANGED <<terminal, program, input, output, ptysize, nonblock, winch, method, exit, typed>>

\* raise(SIGTSTP): ignored without job control.  The shell takes the terminal
\* when its own child has stopped.
StopSelf(p) ==
  /\ Does(p, "stop_self")
  /\ proc' = [proc EXCEPT ![p] = [Done(p) EXCEPT !.stopped = jobcontrol]]
  /\ IF jobcontrol /\ p = Main
     THEN foreground' = FALSE /\ mode' = "other"
     ELSE UNCHANGED <<foreground, mode>>
  /\ UNCHANGED <<config, stdin, asked, hup, size, jobcontrol, pty, winch, method, exit, meddled, typed>>

\* fg or bg
ShellContinues(fg) ==
  /\ proc[Main].stopped
  /\ proc' = [proc EXCEPT ![Main].stopped = FALSE]
  /\ foreground' = fg
  /\ UNCHANGED <<config, mode, stdin, asked, hup, size, jobcontrol, pty, winch, method, exit, meddled, typed>>

RedrawMethod(p) ==
  /\ Does(p, "redraw_method")
  /\ method' = proc[p].cmd.method
  /\ Proceeds(p)
  /\ UNCHANGED <<terminal, pty, winch, exit, meddled, typed>>

-----------------------------------------------------------------------------
(* readline: the cursor, and the line.  A terminal that is gone reads empty. *)

Answer == <<"esc", "[", "1", "semi", "1", "R">>

AnswerLeft == \E i \in DOMAIN stdin: stdin[i] \in {"esc", "[", "1"}

\* There is something to read, or will be.
Expected == stdin # <<>> \/ asked > 0

AskCursor(p) ==
  /\ Does(p, "ask")
  /\ IF hup
     THEN /\ proc' = [proc EXCEPT ![p].todo = SubSeq(@, Len(GetCursor) + 1, Len(@))]
          /\ UNCHANGED <<mode, asked, typed, meddled>>
     ELSE /\ asked < MaxAsked
          /\ proc' = [proc EXCEPT ![p] = [Done(p) EXCEPT !.old = mode]]
          /\ mode' = "input"
          /\ asked' = asked + 1
          /\ typed' = {b \in typed: Expected}
          /\ meddled' = {m \in meddled: m = "answer" => Expected}
  /\ UNCHANGED <<config, stdin, hup, size, foreground, jobcontrol, pty, winch, method, exit>>

TerminalAnswers ==
  /\ asked > 0 /\ ~hup
  /\ stdin' = stdin \o Answer
  /\ asked' = asked - 1
  /\ UNCHANGED <<config, mode, hup, size, foreground, jobcontrol, pty, proc, winch, method, exit, meddled, typed>>

Least(m, n) == IF m < n THEN m ELSE n

\* read(2) takes what is there.
Read3(p) ==
  /\ Does(p, "read_3")
  /\ stdin # <<>> \/ hup
  /\ stdin' = SubSeq(stdin, Least(3, Len(stdin)) + 1, Len(stdin))
  /\ Proceeds(p)
  /\ UNCHANGED <<config, mode, asked, hup, size, foreground, jobcontrol, pty, winch, method, exit, meddled, typed>>

\* Mutant: the end of the input does not end the loop.
ReadToByte(p, step, last) ==
  /\ Does(p, step)
  /\ stdin # <<>>
  /\ stdin' = Tail(stdin)
  /\ IF Head(stdin) = last THEN Proceeds(p) ELSE UNCHANGED proc
  /\ UNCHANGED <<config, mode, asked, hup, size, foreground, jobcontrol, pty, winch, method, exit, meddled, typed>>

ReadTo(p, step, last) ==
  /\ Does(p, step)
  /\ stdin # <<>> \/ hup
  /\ stdin' = SubSeq(stdin, 2, Len(stdin))
  /\ IF stdin = <<>> \/ stdin[1] = last THEN Proceeds(p) ELSE UNCHANGED proc
  /\ UNCHANGED <<config, mode, asked, hup, size, foreground, jobcontrol, pty, winch, method, exit, meddled, typed>>

ResetMode(p) ==
  /\ Does(p, "reset_mode")
  /\ mode' = proc[p].old
  /\ typed' = {b \in typed: Expected}
  /\ proc' = [proc EXCEPT ![p] = [Done(p) EXCEPT !.old = Null]]
  /\ UNCHANGED <<config, stdin, asked, hup, size, foreground, jobcontrol, pty, winch, method, exit, meddled>>

\* Bytes until y, n or the end; any byte may be one of them.
Confirm(p) ==
  /\ Does(p, "confirm")
  /\ stdin # <<>> \/ hup
  /\ stdin' = SubSeq(stdin, 2, Len(stdin))
  /\ \/ Proceeds(p)
     \/ stdin # <<>> /\ UNCHANGED proc
  /\ UNCHANGED <<config, mode, asked, hup, size, foreground, jobcontrol, pty, winch, method, exit, meddled, typed>>

\* readline(): external.  A line that is not empty is written to the program.
ReadLine(p) ==
  /\ Does(p, "readline")
  /\ stdin # <<>> \/ hup
  /\ stdin' = SubSeq(stdin, 2, Len(stdin))
  /\ \/ Proceeds(p)
     \/ stdin # <<>> /\ UNCHANGED proc
     \/ stdin # <<>> /\ proc' = [proc EXCEPT ![p].todo = Append(Tail(@), "write")]
  /\ UNCHANGED <<config, mode, asked, hup, size, foreground, jobcontrol, pty, winch, method, exit, meddled, typed>>

-----------------------------------------------------------------------------
(* The size of the terminal and the pty. *)

Refreshing == \E p \in Processes: \E step \in {"narrow", "widen"}: Does(p, step)

Redraw(p) ==
  /\ Does(p, "redraw")
  /\ proc' = [proc EXCEPT ![p].todo = RedrawSteps \o Tail(@)]
  /\ UNCHANGED <<terminal, pty, winch, method, exit, meddled, typed>>

GetSize(p) ==
  /\ Does(p, "get_size")
  /\ proc' = [proc EXCEPT ![p] = [Done(p) EXCEPT !.old = ptysize]]
  /\ UNCHANGED <<terminal, pty, winch, method, exit, meddled, typed>>

Narrow(p) ==
  /\ Does(p, "narrow")
  /\ ptysize' = [proc[p].old EXCEPT !.narrow = TRUE]
  /\ Proceeds(p)
  /\ UNCHANGED <<terminal, program, halted, input, output, nonblock, winch, method, exit, meddled, typed>>

\* Mutant: the column is not given back.
WidenNothing(p) ==
  /\ Does(p, "widen")
  /\ proc' = [proc EXCEPT ![p] = [Done(p) EXCEPT !.old = Null]]
  /\ UNCHANGED <<terminal, pty, winch, method, exit, meddled, typed>>

Widen(p) ==
  /\ Does(p, "widen")
  /\ ptysize' = proc[p].old
  /\ proc' = [proc EXCEPT ![p] = [Done(p) EXCEPT !.old = Null]]
  /\ UNCHANGED <<terminal, program, halted, input, output, nonblock, winch, method, exit, meddled, typed>>

\* The kernel tells the processes in the foreground, nobody those that are not.
Resize ==
  /\ size < MaxSize /\ ~hup
  /\ size' = size + 1
  /\ winch' = IF foreground THEN {p \in Processes: Tkremap(p)} ELSE winch
  /\ meddled' = IF foreground THEN meddled ELSE meddled \cup {"size"}
  /\ UNCHANGED <<config, mode, stdin, asked, hup, foreground, jobcontrol, pty, proc, method, exit, typed>>

\* update_pty_size() runs between any two steps, and ends a write() that has
\* written something.
Winch(p) ==
  /\ p \in winch /\ ~proc[p].stopped
  /\ winch' = winch \ {p}
  /\ IF HasTerminal(p) /\ ~hup
     THEN /\ ptysize' = FullSize(size)
          /\ meddled' = IF Refreshing THEN meddled \cup {"size"} ELSE meddled \ {"size"}
     ELSE UNCHANGED <<ptysize, meddled>>
  /\ IF proc[p].moved
     THEN proc' = [proc EXCEPT ![p].tries = @ - 1, ![p].moved = FALSE]
     ELSE UNCHANGED proc
  /\ UNCHANGED <<terminal, program, halted, input, output, nonblock, method, exit, typed>>

-----------------------------------------------------------------------------
(* write_full() to the program. *)

Written(p) == [Done(p) EXCEPT !.left = Chunk, !.tries = Attempts, !.moved = FALSE]

Write(p) ==
  /\ Does(p, "write")
  /\ proc[p].tries > 0 /\ program # "dead" /\ input < MaxInput
  /\ input' = input + 1
  /\ proc' = [proc EXCEPT ![p] = IF proc[p].left = 1 THEN Written(p)
                                 ELSE [proc[p] EXCEPT !.left = @ - 1, !.moved = TRUE]]
  /\ UNCHANGED <<terminal, program, halted, output, ptysize, nonblock, winch, method, exit, meddled, typed>>

\* With O_NONBLOCK: fewer bytes than asked for, or EAGAIN.
WriteAgain(p) ==
  /\ Does(p, "write")
  /\ proc[p].tries > 0 /\ program # "dead" /\ input = MaxInput /\ nonblock
  /\ proc' = [proc EXCEPT ![p].tries = @ - 1, ![p].moved = FALSE]
  /\ UNCHANGED <<terminal, pty, winch, method, exit, meddled, typed>>

\* EIO, or the attempts are over: the rest is dropped.
GiveUp(p) ==
  /\ Does(p, "write")
  /\ proc[p].tries = 0 \/ program = "dead"
  /\ proc' = [proc EXCEPT ![p] = Written(p)]
  /\ UNCHANGED <<terminal, pty, winch, method, exit, meddled, typed>>

-----------------------------------------------------------------------------
(* exec. *)

\* fork() in the parent, which waits for a child in the foreground.
Fork(p) ==
  /\ Does(p, "fork")
  /\ \E c \in config.children:
       /\ proc[c].is = "none"
       /\ proc' = [proc EXCEPT
            ![c] = [Process("forked", proc[p].stdin) EXCEPT !.cmd = proc[p].cmd, !.pty = proc[p].pty],
            ![p] = IF proc[p].cmd.background THEN Done(p)
                   ELSE [proc[p] EXCEPT !.todo = <<"wait">> \o Tail(@), !.child = c]]
  /\ UNCHANGED <<terminal, pty, winch, method, exit, meddled, typed>>

\* No more processes: the command fails.  A child in the background is a zombie
\* for as long as tkremap runs, nobody waits for it.
ForkFails(p) ==
  /\ Does(p, "fork")
  /\ \A c \in config.children: proc[c].is # "none"
  /\ Proceeds(p)
  /\ UNCHANGED <<terminal, pty, winch, method, exit, meddled, typed>>

\* waitpid() in the foreground
Wait(p) ==
  /\ Does(p, "wait")
  /\ proc[proc[p].child].is = "zombie"
  /\ proc' = [proc EXCEPT ![proc[p].child] = Absent, ![p] = [Done(p) EXCEPT !.child = Null]]
  /\ UNCHANGED <<terminal, pty, winch, method, exit, meddled, typed>>

\* Mutant: a child in the background keeps the terminal.
SharedInput(c) == IF proc[c].cmd.in = "file" THEN "file" ELSE proc[c].stdin
\* The input of a child, which inherits it unless it is in the background.  Only a
\* file that can be opened counts: neither - nor ! are files.
Input(c) ==
  IF proc[c].cmd.in = "file" THEN "file"
  ELSE IF proc[c].cmd.background THEN "closed" ELSE proc[c].stdin

\* The redirections, and execvp(): the child is another program, or returns 0
\* from the call of the command into the loop.
Exec(c) ==
  /\ proc[c].is = "forked"
  /\ \E is \in {"other", "tkremap"}:
       proc' = [proc EXCEPT ![c].is = is, ![c].stdin = Input(c),
                            ![c].cmd = IF is = "other" THEN @ ELSE Null]
  /\ UNCHANGED <<terminal, pty, winch, method, exit, meddled, typed>>

Other(c) == proc[c].is = "other"
WritesToPty(c) == Other(c) /\ proc[c].cmd.out = "pty"

OtherReads(c) ==
  /\ Other(c) /\ HasTerminal(c) /\ foreground /\ stdin # <<>>
  /\ stdin' = Tail(stdin)
  /\ UNCHANGED <<config, mode, asked, hup, size, foreground, jobcontrol, pty, proc, winch, method, exit, meddled, typed>>

\* A child that has the terminal, be it only as output, can set its mode.
OtherSetsMode(c) ==
  /\ Other(c) /\ foreground
  /\ HasTerminal(c) \/ proc[c].cmd.out = "inherited"
  /\ mode' = "other"
  /\ meddled' = meddled \cup {"mode"}
  /\ UNCHANGED <<config, stdin, asked, hup, size, foreground, jobcontrol, pty, proc, winch, method, exit, typed>>

OtherSetsNonblock(c) ==
  /\ WritesToPty(c)
  /\ nonblock' = TRUE
  /\ UNCHANGED <<terminal, program, halted, input, output, ptysize, proc, winch, method, exit, meddled, typed>>

OtherStartsWriting(c) ==
  /\ WritesToPty(c) /\ proc[c].todo = <<>>
  /\ proc' = [proc EXCEPT ![c].todo = <<"write">>]
  /\ UNCHANGED <<terminal, pty, winch, method, exit, meddled, typed>>

OtherWrites(c) ==
  /\ WritesToPty(c) /\ proc[c].todo # <<>>
  /\ input < MaxInput \/ program = "dead"
  /\ input' = IF program = "dead" THEN input ELSE input + 1
  /\ proc' = [proc EXCEPT ![c].todo = <<>>]
  /\ UNCHANGED <<terminal, program, halted, output, ptysize, nonblock, winch, method, exit, meddled, typed>>

OtherExits(c) ==
  /\ Other(c) /\ proc[c].todo = <<>>
  /\ proc' = [proc EXCEPT ![c] = Process("zombie", "closed")]
  /\ UNCHANGED <<terminal, pty, winch, method, exit, meddled, typed>>

\* A copy of tkremap is ended by a signal and cleans up like tkremap.
CopyExits(c) ==
  /\ Tkremap(c) /\ ~proc[c].stopped
  /\ Ends(c)
  /\ UNCHANGED <<config, stdin, asked, hup, size, foreground, jobcontrol, pty, winch, method, exit, typed>>

-----------------------------------------------------------------------------
(* The program and the user. *)

Goes == program # "dead" /\ ~halted

ProgramReads ==
  /\ Goes /\ program = "reads" /\ input > 0
  /\ input' = input - 1
  /\ UNCHANGED <<terminal, program, halted, output, ptysize, nonblock, proc, winch, method, exit, meddled, typed>>

ProgramStartsWriting ==
  /\ Goes /\ program = "reads"
  /\ program' = "writes"
  /\ UNCHANGED <<terminal, halted, input, output, ptysize, nonblock, proc, winch, method, exit, meddled, typed>>

ProgramWrites ==
  /\ Goes /\ program = "writes" /\ output < MaxOutput
  /\ output' = output + 1
  /\ program' = "reads"
  /\ UNCHANGED <<terminal, halted, input, ptysize, nonblock, proc, winch, method, exit, meddled, typed>>

Dies ==
  /\ program' = "dead"
  /\ halted' = FALSE
  /\ input' = 0
  /\ UNCHANGED <<terminal, output, ptysize, nonblock, proc, winch, method, exit, meddled, typed>>

ProgramDies == program # "dead" /\ Dies

\* When nobody has the master any more, the program gets SIGHUP and SIGCONT.
Holds(p) == proc[p].is \in {"tkremap", "forked", "other"} /\ proc[p].pty
ProgramHungUp == program # "dead" /\ (\A p \in Processes: ~Holds(p)) /\ Dies

AsksCursor == \E p \in Processes: \E i \in 2..Len(GetCursor) - 1: Does(p, GetCursor[i])

\* Only get_cursor() cares which byte it is.
Type(b) ==
  /\ foreground /\ ~hup /\ Len(stdin) < MaxTyped
  /\ IF AsksCursor THEN b \in {"semi", "R"} ELSE b = "any" /\ stdin = <<>>
  /\ stdin' = Append(stdin, b)
  /\ typed' = IF AsksCursor THEN typed \cup {b} ELSE typed
  /\ UNCHANGED <<config, mode, asked, hup, size, foreground, jobcontrol, pty, proc, winch, method, exit, meddled>>

\* tkremap survives the end of its terminal.
HangUp ==
  /\ foreground /\ ~hup
  /\ hup' = TRUE
  /\ UNCHANGED <<config, mode, stdin, asked, size, foreground, jobcontrol, pty, proc, winch, method, exit, meddled, typed>>

-----------------------------------------------------------------------------
Loop(p) == ShowOutput(p) \/ ReadKey(p) \/ SeeHangup(p) \/ (p = Main /\ SeeDeath)
Call(p) ==
  \/ WaitProgram(p) \/ SetMode(p) \/ RestoreMode(p) \/ StopProgram(p) \/ ContinueProgram(p)
  \/ SignalProgram(p) \/ StopSelf(p) \/ RedrawMethod(p)
  \/ AskCursor(p) \/ Read3(p) \/ ReadTo(p, "read_row", "semi") \/ ReadTo(p, "read_column", "R")
  \/ ResetMode(p) \/ Confirm(p) \/ ReadLine(p)
  \/ Redraw(p) \/ GetSize(p) \/ Narrow(p) \/ Widen(p)
  \/ Write(p) \/ WriteAgain(p) \/ GiveUp(p)
  \/ Fork(p) \/ ForkFails(p) \/ Wait(p)
Thread(p) == Loop(p) \/ Call(p) \/ Winch(p)

Child(c) ==
  \/ Exec(c) \/ OtherReads(c) \/ OtherSetsMode(c) \/ OtherSetsNonblock(c)
  \/ OtherStartsWriting(c) \/ OtherWrites(c) \/ OtherExits(c) \/ CopyExits(c)

Environment ==
  \/ ProgramReads \/ ProgramStartsWriting \/ ProgramWrites \/ ProgramDies \/ ProgramHungUp
  \/ \E b \in {"semi", "R", "any"}: Type(b)
  \/ TerminalAnswers \/ Resize \/ HangUp
  \/ \E fg \in BOOLEAN: ShellContinues(fg)

Next ==
  ~exit /\ ((\E p \in Processes: Thread(p)) \/ (\E c \in Children: Child(c)) \/ Environment)

\* Every process runs when it can, the program reads again and again, the
\* children of exec come to an end, and the terminal answers.  Nothing is assumed
\* of the user and the shell.
Fairness ==
  /\ \A p \in Processes: WF_vars(~exit /\ Thread(p))
  /\ \A c \in Children: /\ WF_vars(~exit /\ (Exec(c) \/ OtherWrites(c)))
                        /\ SF_vars(~exit /\ OtherExits(c))
  /\ SF_vars(~exit /\ ProgramReads)
  /\ WF_vars(~exit /\ (ProgramWrites \/ ProgramHungUp))
  /\ WF_vars(~exit /\ TerminalAnswers)
Spec == Init /\ [][Next]_vars /\ Fairness

-----------------------------------------------------------------------------
\* Who can take what is typed: another program that has the terminal, or tkremap
\* unless it waits for a child.
ReadsTerminal(p) ==
  /\ HasTerminal(p) /\ ~proc[p].stopped
  /\ Other(p) \/ (Tkremap(p) /\ ~Does(p, "wait"))

\* However many children are started and however many of their execs fail, what
\* the user types has one reader: cmd_exec_call() waits for a child that keeps
\* the terminal and closes it in one that does not.  Only when a copy of tkremap
\* is ended while it waits, its child keeps reading.
OneReaderOfTheTerminal ==
  Cardinality({p \in Processes: ReadsTerminal(p)}) <= 1 \/ "orphan" \in meddled

\* Whenever the loop waits for a key the terminal is in input mode, unless a child
\* has changed the mode, or a copy of tkremap has reset it, since it was last set;
\* and the program goes on, unless the command signal has stopped it.  This is so
\* after a suspend with and without a shell, fg and bg, and after every readline.
\* A copy that has lost its parent in the middle of a command knows no bounds.
LoopFindsAllAsItWas ==
  Polls(Main) /\ "orphan" \notin meddled =>
    /\ mode = "input" \/ "mode" \in meddled
    /\ halted => "stop" \in meddled

\* Whenever the loop waits for a key, the pty is as large as the terminal, unless
\* SIGWINCH is still to come, or the size was changed while tkremap was suspended,
\* or in the middle of a refresh_window(), or two copies of tkremap run at once.
PtyIsAsLargeAsTheTerminal ==
  Polls(Main) /\ Main \notin winch /\ ~hup =>
    ptysize = FullSize(size) \/ {"size", "orphan"} \cap meddled # {}

\* The terminal's answer to get_cursor() is taken for something the user has typed
\* only if the user has typed both ; and R while it was waited for, or the copy of
\* tkremap that waited has ended, or two of them read the same terminal.
AnswerIsNoInput ==
  AnswerLeft \/ asked > 0 =>
    \/ AsksCursor \/ hup \/ {"semi", "R"} \subseteq typed
    \/ {"answer", "orphan"} \cap meddled # {}

\* What can keep tkremap from its loop for ever.
Jammed == program = "writes" /\ output = MaxOutput
Blocked ==
  \/ ~foreground
  \/ (Does(Main, "write") \/ Does(Main, "wait")) /\ (Jammed \/ halted)
  \/ Does(Main, "wait") /\ Tkremap(proc[Main].child)
  \/ (Does(Main, "confirm") \/ Does(Main, "readline")) /\ ~hup
  \/ Does(Main, "wait_program") /\ \E p \in Children: Holds(p)

\* Every command returns to the loop, and tkremap ends when its terminal is gone,
\* unless it is left in the background; or the program has been stopped, or both directions
\* of its pty are full while tkremap writes to it or waits for a child that does;
\* or it waits for a copy of itself, whose exec has failed; or the user does not
\* answer; or the program is never hung up because a child still has its pty.
CommandsReturn == []<>(Polls(Main) \/ exit) \/ <>[]Blocked
=============================================================================
