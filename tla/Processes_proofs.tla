-------------------------- MODULE Processes_proofs --------------------------
(***************************************************************************)
(* Proofs about Processes: who has the terminal, in which mode a command   *)
(* leaves it, how large the pty is and who gets the terminal's answers,    *)
(* for any commands, any number of processes and any size of the pty.      *)
(*                                                                         *)
(* The argument: of all processes that have the terminal only one does     *)
(* anything, the tip of a chain whose other members wait for their child.  *)
(* So a command that has changed the mode, the pty's size or asked for the *)
(* cursor is the only one under way, and has the step that undoes it ahead.*)
(***************************************************************************)
EXTENDS Processes, SequenceTheorems, FiniteSetTheorems, TLAPS

-----------------------------------------------------------------------------
(* What a process has to do next, and what can come after a step. *)

\* A process is in its loop or has a step to do.
Step(r) == IF r.is = "tkremap" /\ r.todo # <<>> THEN Head(r.todo) ELSE "loop"
At(p) == Step(proc[p])

\* The steps that a command can end with.  A line that was read is written last.
Closing ==
  {"write", "redraw", "widen", "set_mode", "fork", "wait", "signal", "redraw_method", "wait_program"}

After(step) ==
  CASE step = "stop_program" -> {"stop_self"}
    [] step = "stop_self" -> {"continue_program"}
    [] step = "continue_program" -> {"set_mode"}
    [] step = "restore_mode" -> {"ask"}
    [] step = "ask" -> {"read_3"}
    [] step = "read_3" -> {"read_row"}
    [] step = "read_row" -> {"read_column"}
    [] step = "read_column" -> {"reset_mode"}
    [] step = "reset_mode" -> {"readline", "set_mode"}
    [] step = "readline" -> {"set_mode"}
    [] step = "confirm" -> {"set_mode"}
    [] step = "set_mode" -> {"confirm", "redraw", "write"}
    [] step = "get_size" -> {"narrow"}
    [] step = "narrow" -> {"widen"}
    [] OTHER -> {"write"}

AllSteps == Closing \cup
  {"stop_program", "stop_self", "continue_program", "restore_mode", "ask", "read_3", "read_row",
   "read_column", "reset_mode", "readline", "confirm", "get_size", "narrow"}

Orderly(todo) ==
  \A i \in 1..Len(todo):
    IF i = Len(todo) THEN todo[i] \in Closing ELSE todo[i + 1] \in After(todo[i])

-----------------------------------------------------------------------------
(* Types *)

Modes == {"input", "restore", "other"}
Sizes == [size: Nat, narrow: BOOLEAN]
Bytes == {"esc", "[", "1", "semi", "R", "any"}
Commands == UNION {c.commands: c \in Configurations}

ProcessType ==
  [is: {"tkremap", "forked", "other", "zombie", "none"},
   todo: Seq(AllSteps), cmd: Commands \cup {Null}, stdin: {"terminal", "file", "closed"},
   pty: BOOLEAN, stopped: BOOLEAN, child: Children \cup {Null},
   old: Modes \cup Sizes \cup {Null}, left: 1..Chunk, tries: 0..Attempts, moved: BOOLEAN]

\* One process by itself.  Only tkremap, or a copy of it that has the terminal, is
\* in the middle of a command.  It stops itself in suspend, and when it sets the
\* mode in the background; get_cursor() and refresh_window() have saved a mode and a
\* size; while it waits it has a child; and a write that has written something has
\* an attempt left.
Sound(r) ==
  /\ r \in ProcessType
  /\ Orderly(r.todo)
  /\ r.is \notin {"tkremap", "other"} => r.todo = <<>>
  /\ Step(r) # "loop" => r.stdin = "terminal"
  /\ Step(r) = "redraw_method" => r.cmd \in Commands /\ r.cmd.op = "redraw_method"
  /\ r.stopped => Step(r) \in {"continue_program", "set_mode"}
  /\ Step(r) \in {"read_3", "read_row", "read_column", "reset_mode"} => r.old \in Modes
  /\ Step(r) \in {"narrow", "widen"} => r.old \in Sizes
  /\ r.child # Null <=> Step(r) = "wait"
  /\ r.moved => r.tries > 0

VarsOK ==
  /\ config \in Configurations
  /\ mode \in Modes
  /\ stdin \in Seq(Bytes)
  /\ asked \in Nat
  /\ hup \in BOOLEAN
  /\ size \in Nat
  /\ foreground \in BOOLEAN
  /\ jobcontrol \in BOOLEAN
  /\ program \in {"reads", "writes", "dead"}
  /\ halted \in BOOLEAN
  /\ input \in Nat
  /\ output \in Nat
  /\ ptysize \in Sizes
  /\ nonblock \in BOOLEAN
  /\ winch \subseteq Processes
  /\ method \in {"resize", "srmcup", "keys"}
  /\ exit \in BOOLEAN
  /\ meddled \subseteq {"mode", "stop", "size", "answer", "orphan"}
  /\ typed \subseteq {"semi", "R"}

-----------------------------------------------------------------------------
(* The inductive invariant. *)

\* tkremap itself has the terminal.
MainInv == proc[Main].is = "tkremap" /\ proc[Main].stdin = "terminal"

ProcInv == proc \in [Processes -> ProcessType] /\ \A p \in Processes: Sound(proc[p])

\* A child in the foreground is there until it is waited for, and has one parent.
ChildInv ==
  \A p \in Processes: proc[p].child # Null =>
    /\ proc[proc[p].child].is # "none"
    /\ \A q \in Processes: proc[p].child = proc[q].child => p = q

\* It has the terminal, or gets it when it calls execvp().
Holder(p) ==
  \/ proc[p].is \in {"other", "tkremap"} /\ HasTerminal(p)
  \/ proc[p].is = "forked" /\ Input(p) = "terminal"

\* The end of a chain of processes that share the terminal: it waits for nobody, or
\* for a child that has got another input, or has ended.
Tip(p) ==
  IF proc[p].child = Null THEN Holder(p) ELSE HasTerminal(p) /\ ~Holder(proc[p].child)

TipInv ==
  "orphan" \in meddled \/ \A p, q \in Processes: Tip(p) /\ Tip(q) => p = q

\* Where a command waits for the terminal's answer, where it may have changed the
\* mode and is going to set it, where it has stopped the program and is going to
\* continue it, and where it has saved the size of the pty.
Answering == {"read_3", "read_row", "read_column"}
Setting == Answering \cup {"continue_program", "set_mode", "ask", "reset_mode", "readline"}
Halting == {"stop_self", "continue_program"}
Sizing == {"narrow", "widen"}

ModeInv ==
  mode = "input" \/ "mode" \in meddled \/ \E p \in Processes: At(p) \in Setting

HaltInv ==
  ~halted \/ "stop" \in meddled \/ \E p \in Processes: At(p) \in Halting

\* refresh_window() gives the pty a column less, for a moment.
SizeInv ==
  \/ hup \/ "orphan" \in meddled \/ Main \in winch \/ "size" \in meddled
  \/ /\ \A p \in Processes: At(p) \in Sizing => proc[p].old = FullSize(size)
     /\ (\A p \in Processes: At(p) # "widen") => ptysize = FullSize(size)

NarrowInv ==
  \/ "orphan" \in meddled \/ "size" \in meddled
  \/ \A p \in Processes: At(p) = "widen" => ptysize.narrow

\* A byte that has been typed; one that could be taken for a part of an answer has
\* been typed while an answer was waited for.
Plain(b) == b = "any" \/ (b \in {"semi", "R"} /\ b \in typed)
AllPlain == \A i \in 1..Len(stdin): Plain(stdin[i])

\* The last byte of an answer is at e; its first bytes may have been read.
AnswerEndsAt(e) ==
  \A i \in 1..Len(stdin):
    IF i \in e - 5..e THEN stdin[i] = Answer[i - e + 6] ELSE Plain(stdin[i])

Asking(p) == At(p) \in Answering

\* The answer to the one that waits is still to come, or what is left of it is as
\* much as the steps that it still has to do read.
Expects(p) ==
  \/ /\ asked = 1 /\ AllPlain
     /\ At(p) = "read_column" => "semi" \in typed
  \/ /\ asked = 0
     /\ \E e \in 1..Len(stdin):
          /\ AnswerEndsAt(e)
          /\ At(p) = "read_3" => e >= 6
          /\ At(p) = "read_row" => e >= 3
          /\ At(p) = "read_column" => e <= 2 \/ "semi" \in typed

AnswerInv ==
  \/ hup \/ {"answer", "orphan"} \cap meddled # {} \/ {"semi", "R"} \subseteq typed
  \/ /\ \A p \in Processes: Asking(p) => Expects(p)
     /\ (\A p \in Processes: ~Asking(p)) => asked = 0 /\ AllPlain

Inv ==
  /\ VarsOK /\ MainInv /\ ProcInv /\ ChildInv
  /\ TipInv /\ ModeInv /\ HaltInv /\ SizeInv /\ NarrowInv /\ AnswerInv

-----------------------------------------------------------------------------
(* The steps of commands. *)

\* What comes after each step.
LEMMA AfterEach ==
  /\ After("stop_program") = {"stop_self"}
  /\ After("stop_self") = {"continue_program"}
  /\ After("continue_program") = {"set_mode"}
  /\ After("restore_mode") = {"ask"}
  /\ After("ask") = {"read_3"}
  /\ After("read_3") = {"read_row"}
  /\ After("read_row") = {"read_column"}
  /\ After("read_column") = {"reset_mode"}
  /\ After("reset_mode") = {"readline", "set_mode"}
  /\ After("readline") = {"set_mode"}
  /\ After("confirm") = {"set_mode"}
  /\ After("set_mode") = {"confirm", "redraw", "write"}
  /\ After("get_size") = {"narrow"}
  /\ After("narrow") = {"widen"}
  /\ \A step \in Closing \ {"set_mode"}: After(step) = {"write"}
BY DEF After, Closing

\* What is left of a command after a step.
LEMMA OrderlyTail ==
  ASSUME NEW t \in Seq(AllSteps), Orderly(t), t # <<>>
  PROVE  /\ Tail(t) \in Seq(AllSteps)
         /\ Orderly(Tail(t))
         /\ Tail(t) = <<>> => Head(t) \in Closing
         /\ Tail(t) # <<>> => Head(Tail(t)) \in After(Head(t))
<1> DEFINE u == Tail(t)
<1>1. /\ u \in Seq(AllSteps)
      /\ Len(u) = Len(t) - 1
      /\ Head(t) = t[1]
      /\ \A i \in 1..Len(t) - 1: u[i] = t[i + 1]
      /\ Len(t) \in Nat \ {0}
  BY HeadTailProperties, EmptySeq
<1> HIDE DEF u
<1>2. Orderly(u)
  BY <1>1 DEF Orderly
<1>3. u = <<>> => Head(t) \in Closing
  BY <1>1, EmptySeq DEF Orderly
<1>4. u # <<>> => Head(u) \in After(Head(t))
  <2> SUFFICES ASSUME u # <<>> PROVE Head(u) \in After(Head(t))
    OBVIOUS
  <2>1. Len(u) # 0 /\ Head(u) = u[1]
    BY <1>1, EmptySeq, HeadTailProperties
  <2> QED BY <1>1, <2>1 DEF Orderly
<1> QED BY <1>1, <1>2, <1>3, <1>4 DEF u

\* The steps that the actions name.
LEMMA StepsListed ==
  /\ {"stop_program", "stop_self", "continue_program", "restore_mode", "ask", "read_3", "read_row",
      "read_column", "reset_mode", "readline", "confirm", "get_size", "narrow"} \subseteq AllSteps
  /\ {"write", "redraw", "widen", "set_mode", "fork", "wait", "signal", "redraw_method",
      "wait_program"} \subseteq AllSteps
BY DEF AllSteps, Closing

\* The parts of commands are sequences of steps.
LEMMA StepSequences ==
  /\ <<"stop_program", "stop_self", "continue_program", "set_mode", "redraw">> \in Seq(AllSteps)
  /\ <<"ask", "read_3", "read_row", "read_column", "reset_mode">> \in Seq(AllSteps)
  /\ <<"set_mode", "confirm">> \in Seq(AllSteps)
  /\ <<"get_size", "narrow", "widen">> \in Seq(AllSteps)
  /\ <<"restore_mode">> \in Seq(AllSteps)
  /\ <<"set_mode">> \in Seq(AllSteps)
  /\ <<"redraw">> \in Seq(AllSteps)
  /\ <<"readline">> \in Seq(AllSteps)
  /\ <<"fork">> \in Seq(AllSteps)
  /\ <<"write">> \in Seq(AllSteps)
  /\ <<"signal">> \in Seq(AllSteps)
  /\ <<"redraw_method">> \in Seq(AllSteps)
  /\ <<"wait">> \in Seq(AllSteps)
  /\ <<"wait_program">> \in Seq(AllSteps)
  /\ <<>> \in Seq(AllSteps)
BY StepsListed

\* Every command, from its first step on.
LEMMA StepsOrderly ==
  ASSUME NEW cmd, WellFormed(cmd)
  PROVE  /\ Steps(cmd) \in Seq(AllSteps)
         /\ Orderly(Steps(cmd))
         /\ Steps(cmd) # <<>>
         /\ Head(Steps(cmd)) \in
              {"stop_program", "restore_mode", "fork", "write", "signal", "redraw_method"}
         /\ Head(Steps(cmd)) = "redraw_method" => cmd.op = "redraw_method"
<1> DEFINE s == Steps(cmd)
<1>1. CASE cmd.op = "suspend"
  <2>1. s = <<"stop_program", "stop_self", "continue_program", "set_mode", "redraw">>
    BY <1>1 DEF Steps, Suspend
  <2>2. <<"stop_program", "stop_self", "continue_program", "set_mode", "redraw">> \in Seq(AllSteps)
    BY StepSequences
  <2> HIDE DEF s
  <2>3. /\ Len(s) = 5 /\ s[1] = "stop_program" /\ s[2] = "stop_self"
        /\ s[3] = "continue_program" /\ s[4] = "set_mode" /\ s[5] = "redraw"
    BY <2>1
  <2>4. Orderly(s)
    BY <2>3, AfterEach DEF Orderly, Closing
  <2>5. s \in Seq(AllSteps)
    BY ONLY <2>1, <2>2
  <2>6. s # <<>> /\ Head(s) = "stop_program"
    BY <2>3
  <2> QED BY <2>4, <2>5, <2>6 DEF s
<1>2. CASE cmd.op = "readline"
  <2> DEFINE reads == IF cmd.confirm THEN <<"set_mode", "confirm">> ELSE <<"readline">>
             redraws == IF cmd.refresh THEN <<"redraw">> ELSE <<>>
  <2>1. s = <<"restore_mode">> \o <<"ask", "read_3", "read_row", "read_column", "reset_mode">>
              \o reads \o <<"set_mode">> \o redraws
    BY <1>2 DEF Steps, Readline, GetCursor
  <2>2. /\ <<"restore_mode">> \in Seq(AllSteps) /\ reads \in Seq(AllSteps)
        /\ <<"set_mode">> \in Seq(AllSteps) /\ redraws \in Seq(AllSteps)
        /\ <<"ask", "read_3", "read_row", "read_column", "reset_mode">> \in Seq(AllSteps)
    BY StepSequences
  <2> HIDE DEF s, reads, redraws
  <2>3. s \in Seq(AllSteps)
    BY ONLY <2>1, <2>2, ConcatProperties
  <2>4. cmd.confirm \in BOOLEAN /\ cmd.refresh \in BOOLEAN
    BY <1>2 DEF WellFormed
  <2>5. /\ s[1] = "restore_mode" /\ s[2] = "ask" /\ s[3] = "read_3" /\ s[4] = "read_row"
        /\ s[5] = "read_column" /\ s[6] = "reset_mode" /\ Len(s) > 6
    BY <2>1, <2>4 DEF reads, redraws
  <2>6. Orderly(s)
    <3>1. CASE cmd.confirm /\ cmd.refresh
      <4>1. Len(s) = 10 /\ s[7] = "set_mode" /\ s[8] = "confirm" /\ s[9] = "set_mode" /\ s[10] = "redraw"
        BY <2>1, <3>1 DEF reads, redraws
      <4> QED BY <2>5, <4>1, AfterEach DEF Orderly, Closing
    <3>2. CASE cmd.confirm /\ ~cmd.refresh
      <4>1. Len(s) = 9 /\ s[7] = "set_mode" /\ s[8] = "confirm" /\ s[9] = "set_mode"
        BY <2>1, <3>2 DEF reads, redraws
      <4> QED BY <2>5, <4>1, AfterEach DEF Orderly, Closing
    <3>3. CASE ~cmd.confirm /\ cmd.refresh
      <4>1. Len(s) = 9 /\ s[7] = "readline" /\ s[8] = "set_mode" /\ s[9] = "redraw"
        BY <2>1, <3>3 DEF reads, redraws
      <4> QED BY <2>5, <4>1, AfterEach DEF Orderly, Closing
    <3>4. CASE ~cmd.confirm /\ ~cmd.refresh
      <4>1. Len(s) = 8 /\ s[7] = "readline" /\ s[8] = "set_mode"
        BY <2>1, <3>4 DEF reads, redraws
      <4> QED BY <2>5, <4>1, AfterEach DEF Orderly, Closing
    <3> QED BY <2>4, <3>1, <3>2, <3>3, <3>4
  <2>7. s # <<>> /\ Head(s) = s[1]
    BY <2>3, <2>5, EmptySeq, HeadTailProperties
  <2> QED BY <2>3, <2>5, <2>6, <2>7 DEF s
<1>3. CASE cmd.op \in {"exec", "write", "signal", "redraw_method"}
  <2> DEFINE step == IF cmd.op = "exec" THEN "fork" ELSE cmd.op
  <2>1. s = <<step>> /\ step \in Closing
    BY <1>3 DEF Steps, Closing
  <2>2. step \in {"fork", "write", "signal", "redraw_method"} /\ (step = "redraw_method" => cmd.op = step)
    BY <1>3
  <2> HIDE DEF s, step
  <2>3. <<step>> \in Seq(AllSteps) /\ Len(<<step>>) = 1 /\ <<step>>[1] = step
    BY <2>2, StepSequences
  <2>5. s \in Seq(AllSteps) /\ Len(s) = 1 /\ s[1] = step
    BY ONLY <2>1, <2>3
  <2>6. s # <<>> /\ Head(s) = step
    BY <2>5, EmptySeq, HeadTailProperties
  <2>4. Orderly(s)
    BY <2>1, <2>5 DEF Orderly
  <2> QED BY <2>2, <2>4, <2>5, <2>6 DEF s
<1> QED BY <1>1, <1>2, <1>3 DEF WellFormed

\* redraw_redraw() instead of its call.
LEMMA RedrawOrderly ==
  ASSUME NEW t \in Seq(AllSteps), Orderly(t), t # <<>> => Head(t) = "write",
         method \in {"resize", "srmcup", "keys"}
  PROVE  /\ RedrawSteps \o t \in Seq(AllSteps)
         /\ Orderly(RedrawSteps \o t)
         /\ RedrawSteps \o t # <<>> => Head(RedrawSteps \o t) \in {"get_size", "write"}
<1> DEFINE r == RedrawSteps
           s == r \o t
<1>1. CASE method = "srmcup"
  BY <1>1 DEF RedrawSteps
<1>2. CASE method # "srmcup"
  <2>1. r \in {<<"write">>, <<"get_size", "narrow", "widen">>}
    BY <1>2 DEF RedrawSteps
  <2> HIDE DEF r
  <2>2. r \in Seq(AllSteps)
    BY ONLY <2>1, StepSequences
  <2>3. s \in Seq(AllSteps) /\ Len(s) = Len(r) + Len(t) /\ Len(r) \in Nat /\ Len(t) \in Nat
        /\ \A i \in 1..Len(s): s[i] = IF i <= Len(r) THEN r[i] ELSE t[i - Len(r)]
    BY <2>2, ConcatProperties
  <2>4. t # <<>> => t[1] = "write" /\ Len(t) # 0
    BY HeadTailProperties, EmptySeq
  <2>5. t = <<>> => Len(t) = 0
    OBVIOUS
  <2> HIDE DEF s
  <2>6. CASE r = <<"write">>
    <3>1. Len(r) = 1 /\ r[1] = "write"
      BY <2>6
    <3>2. Len(s) = 1 + Len(t) /\ s[1] = "write" /\ \A i \in 2..Len(s): s[i] = t[i - 1]
      BY <2>3, <3>1
    <3>3. ASSUME NEW i \in 1..Len(s)
          PROVE  IF i = Len(s) THEN s[i] \in Closing ELSE s[i + 1] \in After(s[i])
      <4>1. CASE i = 1
        BY <2>3, <2>4, <2>5, <3>2, <4>1, AfterEach DEF Closing
      <4>2. CASE i > 1
        <5>1. i - 1 \in 1..Len(t) /\ s[i] = t[i - 1] /\ (i - 1 = Len(t) <=> i = Len(s))
          BY <2>3, <3>2, <4>2
        <5>2. i # Len(s) => s[i + 1] = t[(i - 1) + 1]
          BY <2>3, <3>2, <4>2
        <5> QED BY <5>1, <5>2, AfterEach DEF Orderly, Closing
      <4> QED BY <2>3, <4>1, <4>2
    <3>4. Orderly(s) /\ s # <<>> /\ Head(s) = "write"
      BY <2>3, <3>2, <3>3, HeadTailProperties, EmptySeq, AfterEach DEF Orderly, Closing
    <3> QED BY <2>3, <3>4 DEF s, r
  <2>7. CASE r = <<"get_size", "narrow", "widen">>
    <3>1. Len(r) = 3 /\ r[1] = "get_size" /\ r[2] = "narrow" /\ r[3] = "widen"
      BY <2>7
    <3>2. Len(s) = 3 + Len(t) /\ s[1] = "get_size" /\ s[2] = "narrow" /\ s[3] = "widen"
          /\ \A i \in 4..Len(s): s[i] = t[i - 3]
      BY <2>3, <3>1
    <3>3. ASSUME NEW i \in 1..Len(s)
          PROVE  IF i = Len(s) THEN s[i] \in Closing ELSE s[i + 1] \in After(s[i])
      <4>1. CASE i = 1
        BY <2>3, <3>2, <4>1, AfterEach
      <4>4. CASE i = 2
        BY <2>3, <3>2, <4>4, AfterEach
      <4>2. CASE i = 3
        BY <2>3, <2>4, <2>5, <3>2, <4>2, AfterEach DEF Closing
      <4>3. CASE i > 3
        <5>1. i - 3 \in 1..Len(t) /\ s[i] = t[i - 3] /\ (i - 3 = Len(t) <=> i = Len(s))
          BY <2>3, <3>2, <4>3
        <5>2. i # Len(s) => s[i + 1] = t[(i - 3) + 1]
          BY <2>3, <3>2, <4>3
        <5> QED BY <5>1, <5>2, AfterEach DEF Orderly, Closing
      <4> QED BY <2>3, <4>1, <4>2, <4>3, <4>4
    <3>4. Orderly(s) /\ s # <<>> /\ Head(s) = "get_size"
      BY <2>3, <3>2, <3>3, HeadTailProperties, EmptySeq, AfterEach DEF Orderly, Closing
    <3> QED BY <2>3, <3>4 DEF s, r
  <2> QED BY <2>1, <2>6, <2>7
<1> QED BY <1>1, <1>2

\* The call of waitpid() instead of the one of fork().
LEMMA WaitOrderly ==
  ASSUME NEW t \in Seq(AllSteps), Orderly(t), t # <<>>, Head(t) = "fork"
  PROVE  /\ <<"wait">> \o Tail(t) \in Seq(AllSteps)
         /\ Orderly(<<"wait">> \o Tail(t))
         /\ <<"wait">> \o Tail(t) # <<>>
         /\ Head(<<"wait">> \o Tail(t)) = "wait"
<1> DEFINE u == Tail(t)
           s == <<"wait">> \o u
<1>1. /\ u \in Seq(AllSteps) /\ Orderly(u)
      /\ u # <<>> => Head(u) \in After("fork")
  BY OrderlyTail
<1> HIDE DEF u
<1>2. <<"wait">> \in Seq(AllSteps) /\ Len(<<"wait">>) = 1 /\ <<"wait">>[1] = "wait"
  BY StepSequences
<1>3. /\ s \in Seq(AllSteps) /\ Len(s) = 1 + Len(u) /\ Len(u) \in Nat
      /\ s[1] = "wait" /\ \A i \in 2..Len(s): s[i] = u[i - 1]
  BY <1>1, <1>2, ConcatProperties, LenProperties
<1>4. u # <<>> => u[1] = "write" /\ Len(u) # 0
  BY <1>1, AfterEach, HeadTailProperties, EmptySeq DEF Closing
<1>5. u = <<>> => Len(u) = 0
  OBVIOUS
<1> HIDE DEF s
<1>6. ASSUME NEW i \in 1..Len(s)
      PROVE  IF i = Len(s) THEN s[i] \in Closing ELSE s[i + 1] \in After(s[i])
  <2>1. CASE i = 1
    BY <1>3, <1>4, <1>5, <2>1, AfterEach DEF Closing
  <2>2. CASE i > 1
    <3>1. i - 1 \in 1..Len(u) /\ s[i] = u[i - 1] /\ (i - 1 = Len(u) <=> i = Len(s))
      BY <1>3, <2>2
    <3>2. i # Len(s) => s[i + 1] = u[(i - 1) + 1]
      BY <1>3, <2>2
    <3> QED BY <1>1, <3>1, <3>2 DEF Orderly
  <2> QED BY <1>3, <2>1, <2>2
<1>7. Orderly(s) /\ s # <<>> /\ Head(s) = s[1]
  BY <1>3, <1>6, HeadTailProperties, EmptySeq DEF Orderly
<1> QED BY <1>3, <1>7 DEF s, u

\* The line that was read is written when everything else is done.
LEMMA AppendOrderly ==
  ASSUME NEW S, "write" \in S, NEW t \in Seq(S), Orderly(t), t # <<>>
  PROVE  /\ Append(t, "write") \in Seq(S)
         /\ Orderly(Append(t, "write"))
         /\ Append(t, "write") # <<>>
         /\ Head(Append(t, "write")) = Head(t)
<1> DEFINE s == Append(t, "write")
<1>1. Len(t) \in Nat \ {0} /\ Head(t) = t[1]
  BY EmptySeq, HeadTailProperties
<1>2. s \in Seq(S) /\ Len(s) = Len(t) + 1 /\ s[Len(t) + 1] = "write"
      /\ \A i \in 1..Len(t): s[i] = t[i]
  BY <1>1, AppendProperties
<1> HIDE DEF s
<1>3. \A step \in Closing: "write" \in After(step)
  BY AfterEach
<1>4. ASSUME NEW i \in 1..Len(s)
      PROVE  IF i = Len(s) THEN s[i] \in Closing ELSE s[i + 1] \in After(s[i])
  <2>1. CASE i < Len(t)
    <3>1. i + 1 \in 1..Len(t) /\ i \in 1..Len(t)
      BY <1>1, <1>2, <2>1
    <3> QED BY <1>1, <1>2, <2>1, <3>1, AfterEach DEF Orderly, Closing
  <2>2. CASE i = Len(t)
    BY <1>1, <1>2, <1>3, <2>2, AfterEach DEF Orderly, Closing
  <2>3. CASE i = Len(s)
    BY <1>1, <1>2, <2>3 DEF Closing
  <2> QED BY <1>1, <1>2, <2>1, <2>2, <2>3
<1>5. Orderly(s)
  BY <1>4, AfterEach DEF Orderly, Closing
<1>6. s # <<>> /\ Head(s) = s[1]
  BY <1>1, <1>2, EmptySeq, HeadTailProperties
<1> QED BY <1>1, <1>2, <1>5, <1>6 DEF s

\* Without a terminal there is no answer to wait for: get_cursor() fails at once.
LEMMA SkipCursor ==
  ASSUME NEW S, NEW t \in Seq(S), Orderly(t), t # <<>>, Head(t) = "ask"
  PROVE  LET u == SubSeq(t, Len(GetCursor) + 1, Len(t))
         IN  /\ u \in Seq(S)
             /\ Orderly(u)
             /\ u # <<>>
             /\ Head(u) \in {"readline", "set_mode"}
<1>1. Len(GetCursor) = 5
  BY DEF GetCursor
<1>2. t[1] = "ask" /\ Len(t) \in Nat \ {0}
  BY EmptySeq, HeadTailProperties
<1>3. 1 # Len(t) /\ t[2] = "read_3"
  BY <1>2, AfterEach DEF Orderly, Closing
<1>4. 2 # Len(t) /\ t[3] = "read_row" /\ 2 \in 1..Len(t)
  BY <1>2, <1>3, AfterEach DEF Orderly, Closing
<1>5. 3 # Len(t) /\ t[4] = "read_column" /\ 3 \in 1..Len(t)
  BY <1>2, <1>4, AfterEach DEF Orderly, Closing
<1>6. 4 # Len(t) /\ t[5] = "reset_mode" /\ 4 \in 1..Len(t)
  BY <1>2, <1>5, AfterEach DEF Orderly, Closing
<1>7. 5 # Len(t) /\ t[6] \in {"readline", "set_mode"} /\ 5 \in 1..Len(t)
  BY <1>2, <1>6, AfterEach DEF Orderly, Closing
<1> DEFINE u == SubSeq(t, 6, Len(t))
<1>8. \A i \in 6..Len(t): t[i] \in S
  BY ElementOfSeq, <1>2
<1>9. /\ u \in Seq(S)
      /\ Len(u) = Len(t) - 5
      /\ \A i \in 1..Len(t) - 5: u[i] = t[i + 5]
  <2>3. PICK n \in Nat: n = Len(t)
    BY <1>2
  <2>4. 6 \in Int /\ n \in Int /\ 6 <= n
    BY <1>7, <2>3
  <2>1. 6 \in Int /\ Len(t) \in Int /\ 6 <= Len(t)
    BY <2>3, <2>4
  <2>2. /\ u \in Seq(S)
        /\ Len(u) = IF 6 <= Len(t) THEN Len(t) - 6 + 1 ELSE 0
        /\ \A i \in 1..Len(t) - 6 + 1: u[i] = t[6 + i - 1]
    BY <2>1, <1>8, SubSeqProperties
  <2> HIDE DEF u
  <2> QED BY <2>1, <2>2
<1> HIDE DEF u
<1>10. Orderly(u)
  BY <1>2, <1>9, AfterEach DEF Orderly, Closing
<1>11. u # <<>> /\ Head(u) = u[1]
  BY <1>2, <1>7, <1>9, EmptySeq, HeadTailProperties
<1> QED BY <1>1, <1>2, <1>7, <1>9, <1>10, <1>11 DEF u

-----------------------------------------------------------------------------
(* What a step does to its process. *)

\* What a process does after a step.
Ahead(step) == After(step) \cup (IF step \in Closing THEN {"loop"} ELSE {})

\* Steps that nothing but one other step comes before, or none.
LEMMA Before ==
  ASSUME NEW step, NEW next \in Ahead(step)
  PROVE  /\ next = "read_3" => step = "ask"
         /\ next = "read_row" => step = "read_3"
         /\ next = "read_column" => step = "read_row"
         /\ next = "reset_mode" => step = "read_column"
         /\ next = "narrow" => step = "get_size"
         /\ next = "widen" => step = "narrow"
         /\ next \notin {"wait", "redraw_method"}
BY DEF Ahead, After

\* A process that has done a step is sound if the step has left its record so.
LEMMA SoundAfter ==
  ASSUME ProcInv, NEW p \in Processes, NEW step, Does(p, step), NEW r \in ProcessType,
         r.is = "tkremap", r.stdin = "terminal", r.todo = Tail(proc[p].todo), r.child = Null,
         r.stopped => step = "stop_self",
         r.moved => r.tries > 0,
         step \in {"ask", "read_3", "read_row", "read_column"} => r.old \in Modes,
         step \in {"get_size", "narrow"} => r.old \in Sizes
  PROVE  Sound(r) /\ Step(r) \in Ahead(step)
<1> DEFINE t == proc[p].todo
<1>1. t \in Seq(AllSteps) /\ Orderly(t) /\ t # <<>> /\ Head(t) = step
  BY DEF ProcInv, Sound, ProcessType, Does, Tkremap
<1>2. /\ Tail(t) \in Seq(AllSteps)
      /\ Orderly(Tail(t))
      /\ Tail(t) = <<>> => step \in Closing
      /\ Tail(t) # <<>> => Head(Tail(t)) \in After(step)
  BY <1>1, OrderlyTail
<1> HIDE DEF t
<1>3. Step(r) = IF Tail(t) # <<>> THEN Head(Tail(t)) ELSE "loop"
  BY DEF Step, t
<1>4. Step(r) \in Ahead(step)
  BY <1>2, <1>3 DEF Ahead
<1>5. r.stopped => Step(r) = "continue_program"
  <2> SUFFICES ASSUME r.stopped PROVE Step(r) = "continue_program"
    OBVIOUS
  <2>1. step = "stop_self" /\ step \notin Closing
    BY DEF Closing
  <2> QED BY <1>4, <2>1, AfterEach DEF Ahead
<1>6. Orderly(r.todo)
  BY <1>2 DEF t
<1>7. Step(r) \notin {"wait", "redraw_method"}
  BY <1>4, Before
<1>8. Step(r) \in {"read_3", "read_row", "read_column", "reset_mode"} => r.old \in Modes
  BY <1>4, Before
<1>9. Step(r) \in {"narrow", "widen"} => r.old \in Sizes
  BY <1>4, Before
<1> QED BY <1>4, <1>5, <1>6, <1>7, <1>8, <1>9 DEF Sound

\* A process between two steps of a command.
LEMMA DoesFields ==
  ASSUME ProcInv, NEW p \in Processes, NEW step, Does(p, step)
  PROVE  /\ proc[p] \in ProcessType
         /\ At(p) = step
         /\ proc[p].is = "tkremap" /\ proc[p].stdin = "terminal" /\ proc[p].stopped = FALSE
         /\ proc[p].todo # <<>>
         /\ step # "wait" => proc[p].child = Null
         /\ step # "loop" => HasTerminal(p)
         /\ Tail(proc[p].todo) \in Seq(AllSteps)
         /\ proc[p].moved => proc[p].tries > 0
         /\ step \in {"read_3", "read_row", "read_column", "reset_mode"} => proc[p].old \in Modes
         /\ step \in {"narrow", "widen"} => proc[p].old \in Sizes
<1>1. proc[p] \in ProcessType /\ Sound(proc[p])
  BY DEF ProcInv
<1>2. At(p) = step /\ proc[p].is = "tkremap" /\ proc[p].todo # <<>> /\ proc[p].stopped = FALSE
  BY <1>1 DEF Does, At, Step, Tkremap, ProcessType
<1>3. step # "loop"
  <2>1. Orderly(proc[p].todo) /\ proc[p].todo \in Seq(AllSteps)
    BY <1>1 DEF Sound, ProcessType
  <2>2. Head(proc[p].todo) \in AllSteps
    BY <1>2, <2>1, HeadTailProperties
  <2> QED BY <1>2, <2>2 DEF Does, AllSteps, Closing
<1>4. Tail(proc[p].todo) \in Seq(AllSteps)
  BY <1>1, <1>2, HeadTailProperties DEF ProcessType
<1> QED BY <1>1, <1>2, <1>3, <1>4 DEF Sound, At, HasTerminal

-----------------------------------------------------------------------------
(* What the actions do to the processes. *)

\* A copy of tkremap, or tkremap itself, has got on; what it has saved is o.
Acts(p, next, o) ==
  /\ \A q \in Processes \ {p}: proc'[q] = proc[q]
  /\ proc[p].is = "tkremap" /\ proc'[p].is = "tkremap"
  /\ proc[p].stdin = "terminal" /\ proc'[p].stdin = "terminal"
  /\ proc[p].child = Null /\ proc'[p].child = Null
  /\ At(p)' \in next
  /\ proc'[p].old = o

\* Nobody has got on.
Rests ==
  \A p \in Processes:
    /\ At(p)' = At(p)
    /\ proc'[p].is = proc[p].is /\ proc'[p].stdin = proc[p].stdin
    /\ proc'[p].child = proc[p].child /\ proc'[p].old = proc[p].old
    /\ proc[p].is = "forked" => proc'[p].cmd = proc[p].cmd

\* A step that gives one process a sound record leaves the others as they were.
LEMMA Replaced ==
  ASSUME ProcInv, NEW p \in Processes, NEW r, Sound(r), proc' = [proc EXCEPT ![p] = r]
  PROVE  ProcInv' /\ proc'[p] = r /\ \A q \in Processes \ {p}: proc'[q] = proc[q]
<1>1. r \in ProcessType
  BY DEF Sound
<1>2. proc' \in [Processes -> ProcessType]
  BY <1>1 DEF ProcInv
<1>3. proc'[p] = r /\ \A q \in Processes \ {p}: proc'[q] = proc[q]
  BY DEF ProcInv
<1>4. \A q \in Processes: Sound(proc'[q])
  BY <1>3 DEF ProcInv
<1> QED BY <1>2, <1>3, <1>4 DEF ProcInv

\* A step of a command is over, and the next one begins.
LEMMA DoneEffect ==
  ASSUME ProcInv, NEW p \in Processes, NEW step, Does(p, step), step # "wait",
         NEW o \in Modes \cup Sizes \cup {Null}, NEW b \in BOOLEAN, b => step = "stop_self",
         step \in {"ask", "read_3", "read_row", "read_column"} => o \in Modes,
         step \in {"get_size", "narrow"} => o \in Sizes,
         proc' = [proc EXCEPT ![p] = [Done(p) EXCEPT !.old = o, !.stopped = b]]
  PROVE  ProcInv' /\ Acts(p, Ahead(step), o)
<1> DEFINE r == [Done(p) EXCEPT !.old = o, !.stopped = b]
<1>1. r \in ProcessType
  BY DoesFields DEF Done, ProcessType
<1>2. /\ r.is = "tkremap" /\ r.stdin = "terminal" /\ r.todo = Tail(proc[p].todo)
      /\ r.child = Null /\ r.stopped = b /\ r.old = o
      /\ r.moved => r.tries > 0
  BY DoesFields DEF Done, ProcessType
<1>3. proc' = [proc EXCEPT ![p] = r]
  OBVIOUS
<1> HIDE DEF r
<1>4. Sound(r) /\ Step(r) \in Ahead(step)
  BY <1>1, <1>2, SoundAfter
<1>5. ProcInv' /\ proc'[p] = r /\ \A q \in Processes \ {p}: proc'[q] = proc[q]
  BY <1>3, <1>4, Replaced
<1> QED BY <1>2, <1>4, <1>5, DoesFields DEF Acts, At

\* A process that goes on to its next step keeps what it has saved, and the step is one
\* that can follow (the steps that save something have lemmas of their own).
LEMMA ProceedsEffect ==
  ASSUME ProcInv, NEW p \in Processes, NEW step, Does(p, step), Proceeds(p),
         step \notin {"ask", "get_size", "wait"}
  PROVE  ProcInv' /\ Acts(p, Ahead(step), proc[p].old)
<1>1. /\ proc[p] \in ProcessType
      /\ proc[p].old \in Modes \cup Sizes \cup {Null}
      /\ proc[p].stopped = FALSE
      /\ step \in {"read_3", "read_row", "read_column"} => proc[p].old \in Modes
      /\ step = "narrow" => proc[p].old \in Sizes
  BY DoesFields DEF ProcessType
<1>2. Done(p) = [Done(p) EXCEPT !.old = proc[p].old, !.stopped = FALSE]
  BY <1>1 DEF Done, ProcessType
<1> QED BY <1>1, <1>2, DoneEffect DEF Proceeds

\* What a process has saved changes with the step.
LEMMA SavesEffect ==
  ASSUME ProcInv, NEW p \in Processes, NEW step, Does(p, step), step # "wait",
         NEW o \in Modes \cup Sizes \cup {Null},
         step \in {"ask", "read_3", "read_row", "read_column"} => o \in Modes,
         step \in {"get_size", "narrow"} => o \in Sizes,
         proc' = [proc EXCEPT ![p] = [Done(p) EXCEPT !.old = o]]
  PROVE  ProcInv' /\ Acts(p, Ahead(step), o)
<1>1. proc[p] \in ProcessType /\ proc[p].stopped = FALSE
  BY DoesFields
<1>2. [Done(p) EXCEPT !.old = o] = [Done(p) EXCEPT !.old = o, !.stopped = FALSE]
  BY <1>1 DEF Done, ProcessType
<1> QED BY <1>2, DoneEffect

\* write_full() is over.
LEMMA WrittenEffect ==
  ASSUME ProcInv, NEW p \in Processes, Does(p, "write"), proc' = [proc EXCEPT ![p] = Written(p)]
  PROVE  ProcInv' /\ Acts(p, {"write", "loop"}, proc[p].old)
<1> DEFINE r == Written(p)
<1>7. /\ proc[p] \in ProcessType /\ Tail(proc[p].todo) \in Seq(AllSteps)
      /\ proc[p].is = "tkremap" /\ proc[p].stdin = "terminal" /\ proc[p].stopped = FALSE
      /\ proc[p].child = Null
  <2>1. PICK step: step = "write"
    OBVIOUS
  <2>2. Does(p, step) /\ step # "wait"
    BY <2>1
  <2> QED BY <2>2, DoesFields
<1>8. Chunk \in 1..Chunk /\ Attempts \in 0..Attempts
  BY BoundsAssumption
<1>9. Done(p) \in ProcessType /\ Done(p).is = "tkremap" /\ Done(p).stdin = "terminal"
      /\ Done(p).todo = Tail(proc[p].todo) /\ Done(p).child = Null /\ Done(p).stopped = FALSE
      /\ Done(p).old = proc[p].old
  BY <1>7 DEF Done, ProcessType
<1>1. r \in ProcessType
  BY <1>8, <1>9 DEF Written, ProcessType
<1>2. /\ r.is = "tkremap" /\ r.stdin = "terminal" /\ r.todo = Tail(proc[p].todo)
      /\ r.child = Null /\ r.stopped = FALSE /\ r.old = proc[p].old /\ r.moved = FALSE
  BY <1>9 DEF Written, ProcessType
<1> HIDE DEF r
<1>3. Sound(r) /\ Step(r) \in Ahead("write")
  BY <1>1, <1>2, SoundAfter
<1>4. ProcInv' /\ proc'[p] = r /\ \A q \in Processes \ {p}: proc'[q] = proc[q]
  BY <1>3, Replaced DEF r
<1>5. Ahead("write") = {"write", "loop"}
  BY AfterEach DEF Ahead, Closing
<1> QED BY <1>2, <1>3, <1>4, <1>5, DoesFields DEF Acts, At

\* The steps ahead of a process that is not stopped are replaced by others.
LEMMA TodoEffect ==
  ASSUME ProcInv, NEW p \in Processes, Tkremap(p), HasTerminal(p), ~proc[p].stopped,
         proc[p].child = Null,
         NEW t \in Seq(AllSteps), Orderly(t), NEW cmd \in Commands \cup {Null}, NEW b \in BOOLEAN,
         t # <<>> =>
           /\ Head(t) \notin {"read_3", "read_row", "read_column", "reset_mode", "narrow", "widen",
                              "wait"}
           /\ Head(t) = "redraw_method" => cmd \in Commands /\ cmd.op = "redraw_method",
         proc' = [proc EXCEPT ![p] = [@ EXCEPT !.todo = t, !.cmd = cmd, !.pty = b]]
  PROVE  ProcInv' /\ Acts(p, {IF t = <<>> THEN "loop" ELSE Head(t)}, proc[p].old)
<1> DEFINE r == [proc[p] EXCEPT !.todo = t, !.cmd = cmd, !.pty = b]
<1>1. proc[p] \in ProcessType /\ Sound(proc[p])
  BY DEF ProcInv
<1>2. r \in ProcessType
  BY <1>1 DEF ProcessType
<1>3. /\ r.is = "tkremap" /\ r.stdin = "terminal" /\ r.todo = t /\ r.cmd = cmd
      /\ r.child = Null /\ r.stopped = FALSE /\ r.old = proc[p].old
      /\ r.moved => r.tries > 0
  BY <1>1 DEF ProcessType, Sound, Tkremap, HasTerminal
<1>4. proc' = [proc EXCEPT ![p] = r]
  OBVIOUS
<1> HIDE DEF r
<1>5. Step(r) = IF t = <<>> THEN "loop" ELSE Head(t)
  BY <1>3 DEF Step
<1>6. Sound(r)
  BY <1>2, <1>3, <1>5 DEF Sound
<1>7. ProcInv' /\ proc'[p] = r /\ \A q \in Processes \ {p}: proc'[q] = proc[q]
  BY <1>4, <1>6, Replaced
<1> QED BY <1>3, <1>5, <1>7 DEF Acts, At, Tkremap, HasTerminal

\* What changes of a process has nothing to do with its steps.
LEMMA RestsEffect ==
  ASSUME ProcInv, NEW p \in Processes, NEW r, Sound(r), Step(r) = At(p), r.is = proc[p].is,
         r.stdin = proc[p].stdin, r.child = proc[p].child, r.old = proc[p].old,
         proc[p].is = "forked" => r.cmd = proc[p].cmd,
         proc' = [proc EXCEPT ![p] = r]
  PROVE  ProcInv' /\ Rests
<1>1. ProcInv' /\ proc'[p] = r /\ \A q \in Processes \ {p}: proc'[q] = proc[q]
  BY Replaced
<1> QED BY <1>1 DEF Rests, At

\* A step that changes no process leaves them sound, and where they are.
LEMMA UnchangedEffect ==
  ASSUME ProcInv, UNCHANGED proc
  PROVE  ProcInv' /\ Rests
BY DEF ProcInv, Rests, At

\* A process that is no more is sound.
LEMMA SoundProcess ==
  ASSUME NEW is \in {"tkremap", "forked", "zombie", "none"},
         NEW from \in {"terminal", "file", "closed"}
  PROVE  /\ Sound(Process(is, from))
         /\ Process(is, from).is = is
         /\ Process(is, from).stdin = from
         /\ Process(is, from).todo = <<>>
         /\ Process(is, from).child = Null
         /\ Process(is, from).old = Null
         /\ Step(Process(is, from)) = "loop"
<1>1. Process(is, from) \in ProcessType
  <2>1. Chunk \in 1..Chunk /\ Attempts \in 0..Attempts
    BY BoundsAssumption
  <2>2. <<>> \in Seq(AllSteps)
    BY EmptySeq
  <2> QED BY <2>1, <2>2 DEF Process, ProcessType
<1>2. Orderly(<<>>)
  BY EmptySeq DEF Orderly
<1>3. /\ Process(is, from).is = is
      /\ Process(is, from).stdin = from
      /\ Process(is, from).todo = <<>>
      /\ Process(is, from).child = Null
      /\ Process(is, from).old = Null
      /\ Process(is, from).stopped = FALSE
      /\ Process(is, from).moved = FALSE
  BY DEF Process
<1>4. Step(Process(is, from)) = "loop"
  BY <1>3 DEF Step
<1> QED BY <1>1, <1>2, <1>3, <1>4 DEF Sound

\* A process ends.
LEMMA GoneEffect ==
  ASSUME ProcInv, NEW p \in Processes, proc' = [proc EXCEPT ![p] = Process("zombie", "closed")]
  PROVE  /\ ProcInv'
         /\ proc'[p] = Process("zombie", "closed")
         /\ \A q \in Processes \ {p}: proc'[q] = proc[q]
BY Replaced, SoundProcess

\* A child is another program, or a copy of tkremap.
LEMMA ExecEffect ==
  ASSUME ProcInv, NEW c \in Processes, Exec(c)
  PROVE  /\ ProcInv'
         /\ \A q \in Processes \ {c}: proc'[q] = proc[q]
         /\ proc[c].is = "forked" /\ proc'[c].is \in {"other", "tkremap"}
         /\ proc'[c].stdin = Input(c)
         /\ proc[c].child = Null /\ proc'[c].child = Null
         /\ At(c) = "loop" /\ At(c)' = "loop"
<1>1. PICK is \in {"other", "tkremap"}:
        proc' = [proc EXCEPT ![c].is = is, ![c].stdin = Input(c),
                             ![c].cmd = IF is = "other" THEN @ ELSE Null]
  BY DEF Exec
<1> DEFINE r == [proc[c] EXCEPT !.is = is, !.stdin = Input(c),
                                !.cmd = IF is = "other" THEN @ ELSE Null]
<1>2. Sound(proc[c]) /\ proc[c] \in ProcessType /\ proc[c].is = "forked"
  BY DEF ProcInv, Exec
<1>3. Input(c) \in {"terminal", "file", "closed"}
  BY <1>2 DEF Input, ProcessType
<1>4. proc[c].todo = <<>> /\ Orderly(<<>>)
  BY <1>2 DEF Sound
<1>5. Step(proc[c]) = "loop" /\ proc[c].stopped = FALSE /\ proc[c].child = Null
  BY <1>2 DEF Sound, Step, ProcessType
<1>6. r \in ProcessType
  BY <1>2, <1>3 DEF ProcessType
<1>7. /\ r.is = is /\ r.stdin = Input(c) /\ r.todo = <<>> /\ r.child = Null /\ r.stopped = FALSE
      /\ r.moved = proc[c].moved /\ r.tries = proc[c].tries
  BY <1>2, <1>4, <1>5 DEF ProcessType
<1>8. proc' = [proc EXCEPT ![c] = r]
  BY <1>1, <1>2 DEF ProcInv
<1> HIDE DEF r
<1>9. Step(r) = "loop"
  BY <1>7 DEF Step
<1>10. Sound(r)
  BY <1>2, <1>4, <1>6, <1>7, <1>9 DEF Sound
<1>11. ProcInv' /\ proc'[c] = r /\ \A q \in Processes \ {c}: proc'[q] = proc[q]
  BY <1>8, <1>10, Replaced
<1> QED BY <1>2, <1>5, <1>7, <1>9, <1>11 DEF At

\* fork() in a process and its child.
LEMMA ForkEffect ==
  ASSUME ProcInv, VarsOK, NEW p \in Processes, Fork(p)
  PROVE  /\ ProcInv'
         /\ \E c \in Children:
              /\ c # p /\ proc[c].is = "none"
              /\ \A q \in Processes \ {p, c}: proc'[q] = proc[q]
              /\ proc'[c].is = "forked" /\ proc'[c].stdin = proc[p].stdin
              /\ proc'[c].cmd = proc[p].cmd /\ proc'[c].child = Null
              /\ At(c)' = "loop"
              /\ proc[p].is = "tkremap" /\ proc'[p].is = "tkremap"
              /\ proc[p].stdin = "terminal" /\ proc'[p].stdin = "terminal"
              /\ proc[p].child = Null /\ At(p) = "fork" /\ ~proc[p].stopped
              /\ proc'[p].old = proc[p].old
              /\ \/ /\ proc[p].cmd.background
                    /\ proc'[p].child = Null
                    /\ At(p)' \in {"write", "loop"}
                 \/ /\ ~proc[p].cmd.background
                    /\ proc'[p].child = c
                    /\ At(p)' = "wait"
<1>1. Does(p, "fork")
  BY DEF Fork
<1>2. PICK c \in config.children:
        /\ proc[c].is = "none"
        /\ proc' = [proc EXCEPT
             ![c] = [Process("forked", proc[p].stdin) EXCEPT !.cmd = proc[p].cmd, !.pty = proc[p].pty],
             ![p] = IF proc[p].cmd.background THEN Done(p)
                    ELSE [proc[p] EXCEPT !.todo = <<"wait">> \o Tail(@), !.child = c]]
  BY DEF Fork
<1>3. c \in Children /\ c \in Processes
  BY CommandsAssumption DEF VarsOK, Processes
<1>4. /\ proc[p] \in ProcessType /\ At(p) = "fork" /\ Sound(proc[p])
      /\ proc[p].is = "tkremap" /\ proc[p].stdin = "terminal" /\ proc[p].stopped = FALSE
      /\ proc[p].child = Null /\ proc[p].todo # <<>>
      /\ Tail(proc[p].todo) \in Seq(AllSteps)
  <2>1. PICK step: step = "fork"
    OBVIOUS
  <2>2. Does(p, step) /\ step # "wait"
    BY <1>1, <2>1
  <2> QED BY <2>1, <2>2, DoesFields DEF ProcInv
<1>5. c # p
  BY <1>2, <1>4
<1> DEFINE child == [Process("forked", proc[p].stdin) EXCEPT !.cmd = proc[p].cmd, !.pty = proc[p].pty]
           r == IF proc[p].cmd.background THEN Done(p)
                ELSE [proc[p] EXCEPT !.todo = <<"wait">> \o Tail(@), !.child = c]
<1>6. proc'[p] = r /\ proc'[c] = child /\ \A q \in Processes \ {p, c}: proc'[q] = proc[q]
  <2>1. proc' = [proc EXCEPT ![c] = child,
                             ![p] = r]
    BY <1>2
  <2> HIDE DEF child, r
  <2>2. DOMAIN proc = Processes
    BY DEF ProcInv
  <2>3. proc'[c] = child /\ \A q \in Processes \ {p, c}: proc'[q] = proc[q]
    BY <1>3, <1>5, <2>1, <2>2
  <2>4. proc'[p] = r
    BY <1>3, <1>5, <2>1, <2>2
  <2> QED BY <2>3, <2>4
<1>7. /\ Sound(child) /\ child.is = "forked" /\ child.stdin = proc[p].stdin
      /\ child.cmd = proc[p].cmd /\ child.child = Null /\ Step(child) = "loop"
  <2> DEFINE f == Process("forked", proc[p].stdin)
  <2>1. /\ Sound(f) /\ f.is = "forked" /\ f.stdin = proc[p].stdin /\ f.todo = <<>>
        /\ f.child = Null /\ Step(f) = "loop"
    BY <1>4, SoundProcess
  <2>2. f \in ProcessType /\ child = [f EXCEPT !.cmd = proc[p].cmd, !.pty = proc[p].pty]
    BY <2>1 DEF Sound
  <2> HIDE DEF f, child
  <2>3. child \in ProcessType
    BY <1>4, <2>2 DEF ProcessType
  <2>4. /\ child.is = "forked" /\ child.stdin = proc[p].stdin /\ child.todo = <<>>
        /\ child.child = Null /\ child.cmd = proc[p].cmd /\ child.stopped = f.stopped
        /\ child.moved = f.moved /\ child.tries = f.tries
    BY <2>1, <2>2 DEF ProcessType
  <2>5. Step(child) = "loop"
    BY <2>4 DEF Step
  <2> QED BY <2>1, <2>3, <2>4, <2>5 DEF Sound
<1> HIDE DEF child
<1>8. CASE proc[p].cmd.background
  <2>1. r = Done(p)
    BY <1>8
  <2>2. /\ r \in ProcessType /\ r.is = "tkremap" /\ r.stdin = "terminal"
        /\ r.todo = Tail(proc[p].todo) /\ r.child = Null /\ r.stopped = FALSE
        /\ r.old = proc[p].old /\ r.moved = proc[p].moved /\ r.tries = proc[p].tries
    BY <1>4, <2>1 DEF Done, ProcessType
  <2> HIDE DEF r
  <2>3. r.moved => r.tries > 0
    BY <1>4, <2>2 DEF Sound
  <2>4. Sound(r) /\ Step(r) \in Ahead("fork")
    BY <1>1, <2>2, <2>3, SoundAfter
  <2>5. Step(r) \in {"write", "loop"}
    BY <2>4, AfterEach DEF Ahead, Closing
  <2>7. \A q \in Processes: Sound(proc'[q])
    BY <1>6, <1>7, <2>4 DEF ProcInv
  <2>8. ProcInv'
    BY <1>2, <1>6, <2>7 DEF ProcInv, Sound
  <2> QED BY <1>2, <1>3, <1>4, <1>5, <1>6, <1>7, <1>8, <2>2, <2>5, <2>8 DEF At
<1>9. CASE ~proc[p].cmd.background
  <2>1. r = [proc[p] EXCEPT !.todo = <<"wait">> \o Tail(@), !.child = c]
    BY <1>9
  <2> DEFINE t == <<"wait">> \o Tail(proc[p].todo)
  <2>2. t \in Seq(AllSteps) /\ Orderly(t) /\ t # <<>> /\ Head(t) = "wait"
    BY <1>4, WaitOrderly DEF Sound, At, Step
  <2>3. /\ r \in ProcessType /\ r.is = "tkremap" /\ r.stdin = "terminal"
        /\ r.todo = t /\ r.child = c /\ r.stopped = FALSE
        /\ r.old = proc[p].old /\ r.moved = proc[p].moved /\ r.tries = proc[p].tries
    BY <1>3, <1>4, <2>1, <2>2 DEF ProcessType
  <2> HIDE DEF r, t
  <2>4. Step(r) = "wait"
    BY <2>2, <2>3 DEF Step
  <2>5. c # Null
    BY <1>3, NullAssumption
  <2>6. Sound(r)
    BY <1>4, <2>2, <2>3, <2>4, <2>5 DEF Sound
  <2>7. \A q \in Processes: Sound(proc'[q])
    BY <1>6, <1>7, <2>6 DEF ProcInv
  <2>8. ProcInv'
    BY <1>2, <1>6, <2>7 DEF ProcInv, Sound
  <2> QED BY <1>2, <1>3, <1>4, <1>5, <1>6, <1>7, <1>9, <2>3, <2>4, <2>8 DEF At
<1> QED BY <1>8, <1>9

\* waitpid() returns.
LEMMA WaitEffect ==
  ASSUME ProcInv, NEW p \in Processes, Wait(p)
  PROVE  /\ ProcInv'
         /\ proc[p].child \in Children /\ proc[p].child # Null
         /\ proc[proc[p].child].is = "zombie" /\ proc'[proc[p].child].is = "none"
         /\ proc'[proc[p].child].child = Null
         /\ At(proc[p].child) = "loop" /\ Step(proc'[proc[p].child]) = "loop"
         /\ \A q \in Processes \ {p, proc[p].child}: proc'[q] = proc[q]
         /\ proc[p].is = "tkremap" /\ proc'[p].is = "tkremap"
         /\ proc[p].stdin = "terminal" /\ proc'[p].stdin = "terminal"
         /\ proc'[p].child = Null
         /\ At(p) = "wait" /\ At(p)' \in {"write", "loop"}
<1> DEFINE c == proc[p].child
<1>1. Does(p, "wait") /\ proc[c].is = "zombie"
      /\ proc' = [proc EXCEPT ![c] = Absent, ![p] = [Done(p) EXCEPT !.child = Null]]
  BY DEF Wait
<1>2. /\ proc[p] \in ProcessType /\ At(p) = "wait" /\ Sound(proc[p])
      /\ proc[p].is = "tkremap" /\ proc[p].stdin = "terminal" /\ proc[p].stopped = FALSE
      /\ proc[p].todo # <<>>
      /\ Tail(proc[p].todo) \in Seq(AllSteps)
      /\ proc[p].moved => proc[p].tries > 0
  <2>1. PICK step: step = "wait"
    OBVIOUS
  <2>2. Does(p, step)
    BY <1>1, <2>1
  <2> QED BY <2>1, <2>2, DoesFields DEF ProcInv
<1>3. c \in Children /\ c # Null /\ c \in Processes /\ c # p
  BY <1>1, <1>2 DEF Sound, At, ProcessType, Processes
<1> HIDE DEF c
<1> DEFINE r == [Done(p) EXCEPT !.child = Null]
<1>4. /\ r \in ProcessType /\ r.is = "tkremap" /\ r.stdin = "terminal" /\ r.stopped = FALSE
      /\ r.todo = Tail(proc[p].todo) /\ r.child = Null
      /\ r.moved => r.tries > 0
  BY <1>2 DEF Done, ProcessType
<1>5. proc' = [proc EXCEPT ![c] = Absent, ![p] = r]
  BY <1>1
<1> HIDE DEF r
<1>6. Sound(r) /\ Step(r) \in Ahead("wait")
  BY <1>1, <1>4, SoundAfter
<1>7. Step(r) \in {"write", "loop"}
  BY <1>6, AfterEach DEF Ahead, Closing
<1>8. /\ Sound(Absent) /\ Absent.is = "none" /\ Absent.child = Null /\ Step(Absent) = "loop"
  BY SoundProcess DEF Absent
<1>9. proc'[p] = r /\ proc'[c] = Absent /\ \A q \in Processes \ {p, c}: proc'[q] = proc[q]
  BY <1>3, <1>5 DEF ProcInv
<1>10. \A q \in Processes: Sound(proc'[q])
  BY <1>6, <1>8, <1>9 DEF ProcInv
<1>11. ProcInv'
  BY <1>5, <1>10 DEF ProcInv, Sound
<1>12. At(c) = "loop"
  BY <1>1 DEF At, Step, c
<1>13. Step(proc'[c]) = "loop" /\ Step(proc'[p]) \in {"write", "loop"}
  BY <1>7, <1>8, <1>9
<1>14. /\ proc'[c].is = "none" /\ proc'[c].child = Null
       /\ proc'[p].is = "tkremap" /\ proc'[p].stdin = "terminal" /\ proc'[p].child = Null
  BY <1>4, <1>8, <1>9
<1> QED BY <1>1, <1>2, <1>3, <1>9, <1>11, <1>12, <1>13, <1>14 DEF c, At

\* A key calls a command, or none.
LEMMA ReadKeyEffect ==
  ASSUME VarsOK, ProcInv, NEW p \in Processes, ReadKey(p)
  PROVE  /\ ProcInv'
         /\ At(p) = "loop" /\ Holder(p) /\ proc[p].child = Null
         /\ \/ Rests
            \/ Acts(p, {"stop_program", "restore_mode", "fork", "write", "signal", "redraw_method"},
                    proc[p].old)
<1>1. Tkremap(p) /\ HasTerminal(p) /\ ~proc[p].stopped /\ At(p) = "loop"
  BY DEF ReadKey, Polls, At, Step
<1>2. proc[p] \in ProcessType /\ proc[p].child = Null
  BY <1>1 DEF ProcInv, Sound, At
<1>3. CASE UNCHANGED proc
  BY <1>1, <1>2, <1>3, UnchangedEffect DEF Holder, Tkremap
<1>4. CASE \E cmd \in config.commands:
             proc' = [proc EXCEPT ![p].todo = Steps(cmd), ![p].cmd = cmd]
  <2>1. PICK cmd \in config.commands:
          proc' = [proc EXCEPT ![p].todo = Steps(cmd), ![p].cmd = cmd]
    BY <1>4
  <2>2. WellFormed(cmd) /\ cmd \in Commands
    BY CommandsAssumption DEF VarsOK, Commands
  <2> DEFINE t == Steps(cmd)
  <2>3. /\ t \in Seq(AllSteps) /\ Orderly(t) /\ t # <<>>
        /\ Head(t) \in {"stop_program", "restore_mode", "fork", "write", "signal", "redraw_method"}
        /\ Head(t) = "redraw_method" => cmd.op = "redraw_method"
    BY <2>2, StepsOrderly
  <2> HIDE DEF t
  <2>4. proc' = [proc EXCEPT ![p] = [@ EXCEPT !.todo = t, !.cmd = cmd, !.pty = proc[p].pty]]
    BY <1>2, <2>1 DEF ProcInv, ProcessType, t
  <2>5. proc[p].pty \in BOOLEAN
    BY <1>2 DEF ProcessType
  <2>6. ProcInv' /\ Acts(p, {Head(t)}, proc[p].old)
    BY <1>1, <1>2, <2>2, <2>3, <2>4, <2>5, TodoEffect
  <2> QED BY <1>1, <1>2, <2>3, <2>6 DEF Acts, Holder, Tkremap
<1> QED BY <1>3, <1>4 DEF ReadKey

\* On a hang-up the loop goes on to wait for the program.
LEMMA SeeHangupEffect ==
  ASSUME ProcInv, NEW p \in Processes, SeeHangup(p)
  PROVE  ProcInv' /\ At(p) = "loop" /\ Acts(p, {"wait_program"}, proc[p].old)
<1>1. Tkremap(p) /\ HasTerminal(p) /\ ~proc[p].stopped /\ At(p) = "loop"
  BY DEF SeeHangup, Polls, At, Step
<1>2. proc[p] \in ProcessType /\ proc[p].child = Null
  BY <1>1 DEF ProcInv, Sound, At
<1> DEFINE t == <<"wait_program">>
<1>3. t \in Seq(AllSteps) /\ t # <<>> /\ Head(t) = "wait_program" /\ Len(t) = 1 /\ t[1] = "wait_program"
  BY StepSequences
<1>4. proc' = [proc EXCEPT ![p] = [@ EXCEPT !.todo = t, !.cmd = proc[p].cmd, !.pty = FALSE]]
  BY <1>2 DEF ProcInv, ProcessType, SeeHangup
<1> HIDE DEF t
<1>5. Orderly(t)
  BY <1>3 DEF Orderly, Closing
<1>6. proc[p].cmd \in Commands \cup {Null}
  BY <1>2 DEF ProcessType
<1>7. ProcInv' /\ Acts(p, {IF t = <<>> THEN "loop" ELSE Head(t)}, proc[p].old)
  BY <1>1, <1>2, <1>3, <1>4, <1>5, <1>6, TodoEffect
<1> QED BY <1>1, <1>3, <1>7

\* redraw goes on to the steps of its method, or to nothing.
LEMMA RedrawEffect ==
  ASSUME VarsOK, ProcInv, NEW p \in Processes, Redraw(p)
  PROVE  ProcInv' /\ At(p) = "redraw" /\ Acts(p, {"get_size", "write", "loop"}, proc[p].old)
<1>1. PICK step: step = "redraw"
  OBVIOUS
<1>2. Does(p, step) /\ step # "wait"
  BY <1>1 DEF Redraw
<1>3. /\ proc[p] \in ProcessType /\ At(p) = step
      /\ Tkremap(p) /\ HasTerminal(p) /\ ~proc[p].stopped /\ proc[p].child = Null
      /\ proc[p].todo # <<>> /\ Head(proc[p].todo) = step
      /\ proc[p].todo \in Seq(AllSteps) /\ Orderly(proc[p].todo)
  BY <1>2, DoesFields DEF Does, Tkremap, HasTerminal, ProcInv, Sound, ProcessType
<1> DEFINE u == Tail(proc[p].todo)
           t == RedrawSteps \o u
<1>4. u \in Seq(AllSteps) /\ Orderly(u) /\ (u # <<>> => Head(u) \in After(step))
  BY <1>3, OrderlyTail
<1>5. u # <<>> => Head(u) = "write"
  BY <1>1, <1>4, AfterEach DEF Closing
<1> HIDE DEF u
<1>6. t \in Seq(AllSteps) /\ Orderly(t) /\ (t # <<>> => Head(t) \in {"get_size", "write"})
  BY <1>4, <1>5, RedrawOrderly DEF VarsOK
<1>7. proc' = [proc EXCEPT ![p].todo = RedrawSteps \o Tail(@)]
  BY DEF Redraw
<1> HIDE DEF t
<1>8. proc' = [proc EXCEPT ![p] = [@ EXCEPT !.todo = t, !.cmd = proc[p].cmd, !.pty = proc[p].pty]]
  BY <1>3, <1>7 DEF ProcInv, ProcessType, t, u
<1>9. proc[p].cmd \in Commands \cup {Null} /\ proc[p].pty \in BOOLEAN
  BY <1>3 DEF ProcessType
<1>10. ProcInv' /\ Acts(p, {IF t = <<>> THEN "loop" ELSE Head(t)}, proc[p].old)
  BY <1>3, <1>6, <1>8, <1>9, TodoEffect
<1> QED BY <1>1, <1>3, <1>6, <1>10 DEF Acts

\* get_cursor() saves the mode and waits for the answer, unless the terminal is gone.
LEMMA AskCursorEffect ==
  ASSUME VarsOK, ProcInv, NEW p \in Processes, AskCursor(p)
  PROVE  /\ ProcInv' /\ At(p) = "ask"
         /\ IF hup THEN Acts(p, {"readline", "set_mode"}, proc[p].old) ELSE Acts(p, {"read_3"}, mode)
<1>1. PICK step: step = "ask"
  OBVIOUS
<1>2. Does(p, step) /\ step # "wait"
  BY <1>1 DEF AskCursor
<1>3. /\ proc[p] \in ProcessType /\ At(p) = step
      /\ Tkremap(p) /\ HasTerminal(p) /\ ~proc[p].stopped /\ proc[p].child = Null
      /\ proc[p].todo # <<>> /\ Head(proc[p].todo) = step
      /\ proc[p].todo \in Seq(AllSteps) /\ Orderly(proc[p].todo)
  BY <1>2, DoesFields DEF Does, Tkremap, HasTerminal, ProcInv, Sound, ProcessType
<1>4. CASE hup
  <2> DEFINE t == SubSeq(proc[p].todo, Len(GetCursor) + 1, Len(proc[p].todo))
  <2>1. t \in Seq(AllSteps) /\ Orderly(t) /\ t # <<>> /\ Head(t) \in {"readline", "set_mode"}
    BY <1>1, <1>3, SkipCursor
  <2>2. proc' = [proc EXCEPT ![p].todo = SubSeq(@, Len(GetCursor) + 1, Len(@))]
    BY <1>4 DEF AskCursor
  <2> HIDE DEF t
  <2>3. proc' = [proc EXCEPT ![p] = [@ EXCEPT !.todo = t, !.cmd = proc[p].cmd, !.pty = proc[p].pty]]
    BY <1>3, <2>2 DEF ProcInv, ProcessType, t
  <2>4. proc[p].cmd \in Commands \cup {Null} /\ proc[p].pty \in BOOLEAN
    BY <1>3 DEF ProcessType
  <2>5. ProcInv' /\ Acts(p, {IF t = <<>> THEN "loop" ELSE Head(t)}, proc[p].old)
    BY <1>3, <2>1, <2>3, <2>4, TodoEffect
  <2> QED BY <1>1, <1>3, <1>4, <2>1, <2>5 DEF Acts
<1>5. CASE ~hup
  <2>1. proc' = [proc EXCEPT ![p] = [Done(p) EXCEPT !.old = mode]] /\ mode \in Modes
    BY <1>5 DEF AskCursor, VarsOK
  <2>2. step \notin {"get_size", "narrow"}
    BY <1>1
  <2>3. ProcInv' /\ Acts(p, Ahead(step), mode)
    BY <1>2, <2>1, <2>2, SavesEffect
  <2>4. Ahead(step) = {"read_3"}
    BY <1>1, AfterEach DEF Ahead, Closing
  <2> QED BY <1>1, <1>3, <1>5, <2>3, <2>4
<1> QED BY <1>4, <1>5

\* readline() waits for its line, or returns and the mode is set.
LEMMA ReadLineEffect ==
  ASSUME ProcInv, NEW p \in Processes, ReadLine(p)
  PROVE  ProcInv' /\ At(p) = "readline" /\ (Rests \/ Acts(p, {"set_mode"}, proc[p].old))
<1>1. PICK step: step = "readline"
  OBVIOUS
<1>2. Does(p, step) /\ step # "wait"
  BY <1>1 DEF ReadLine
<1>3. /\ proc[p] \in ProcessType /\ At(p) = step
      /\ Tkremap(p) /\ HasTerminal(p) /\ ~proc[p].stopped /\ proc[p].child = Null
      /\ proc[p].todo # <<>> /\ Head(proc[p].todo) = step
      /\ proc[p].todo \in Seq(AllSteps) /\ Orderly(proc[p].todo)
  BY <1>2, DoesFields DEF Does, Tkremap, HasTerminal, ProcInv, Sound, ProcessType
<1>4. CASE Proceeds(p)
  <2>1. ProcInv' /\ Acts(p, Ahead(step), proc[p].old)
    BY <1>1, <1>2, <1>4, ProceedsEffect
  <2>2. Ahead(step) = {"set_mode"}
    BY <1>1, AfterEach DEF Ahead, Closing
  <2> QED BY <1>1, <1>3, <2>1, <2>2
<1>5. CASE UNCHANGED proc
  BY <1>1, <1>3, <1>5, UnchangedEffect
<1>6. CASE proc' = [proc EXCEPT ![p].todo = Append(Tail(@), "write")]
  <2> DEFINE u == Tail(proc[p].todo)
             t == Append(u, "write")
  <2>1. u \in Seq(AllSteps) /\ Orderly(u) /\ (u = <<>> => step \in Closing)
        /\ (u # <<>> => Head(u) \in After(step))
    BY <1>3, OrderlyTail
  <2>2. u # <<>> /\ Head(u) = "set_mode"
    BY <1>1, <2>1, AfterEach DEF Closing
  <2> HIDE DEF u
  <2>3. t \in Seq(AllSteps) /\ Orderly(t) /\ t # <<>> /\ Head(t) = "set_mode"
    BY <2>1, <2>2, AppendOrderly, StepsListed
  <2> HIDE DEF t
  <2>4. proc' = [proc EXCEPT ![p] = [@ EXCEPT !.todo = t, !.cmd = proc[p].cmd, !.pty = proc[p].pty]]
    BY <1>3, <1>6 DEF ProcInv, ProcessType, t, u
  <2>5. proc[p].cmd \in Commands \cup {Null} /\ proc[p].pty \in BOOLEAN
    BY <1>3 DEF ProcessType
  <2>6. ProcInv' /\ Acts(p, {IF t = <<>> THEN "loop" ELSE Head(t)}, proc[p].old)
    BY <1>3, <2>3, <2>4, <2>5, TodoEffect
  <2> QED BY <1>1, <1>3, <2>3, <2>6
<1> QED BY <1>4, <1>5, <1>6 DEF ReadLine

\* What a process does after each step.
LEMMA AheadOfEach ==
  /\ Ahead("stop_program") = {"stop_self"}
  /\ Ahead("stop_self") = {"continue_program"}
  /\ Ahead("continue_program") = {"set_mode"}
  /\ Ahead("restore_mode") = {"ask"}
  /\ Ahead("ask") = {"read_3"}
  /\ Ahead("read_3") = {"read_row"}
  /\ Ahead("read_row") = {"read_column"}
  /\ Ahead("read_column") = {"reset_mode"}
  /\ Ahead("reset_mode") = {"readline", "set_mode"}
  /\ Ahead("readline") = {"set_mode"}
  /\ Ahead("confirm") = {"set_mode"}
  /\ Ahead("set_mode") = {"confirm", "redraw", "write", "loop"}
  /\ Ahead("get_size") = {"narrow"}
  /\ Ahead("narrow") = {"widen"}
  /\ \A step \in Closing \ {"set_mode"}: Ahead(step) = {"write", "loop"}
BY AfterEach DEF Ahead, Closing

\* readline() gives the terminal back its mode.
LEMMA RestoreModeEffect ==
  ASSUME ProcInv, NEW p \in Processes, RestoreMode(p)
  PROVE  ProcInv' /\ At(p) = "restore_mode" /\ Acts(p, {"ask"}, proc[p].old)
<1>1. PICK step: step = "restore_mode"
  OBVIOUS
<1>2. Does(p, step) /\ Proceeds(p)
  BY <1>1 DEF RestoreMode
<1>3. At(p) = step
  BY <1>2, DoesFields
<1>4. ProcInv' /\ Acts(p, Ahead(step), proc[p].old)
  BY <1>1, <1>2, ProceedsEffect
<1>5. Ahead(step) = {"ask"}
  BY <1>1, AheadOfEach DEF Closing
<1> QED BY <1>1, <1>3, <1>4, <1>5

\* suspend stops the program first.
LEMMA StopProgramEffect ==
  ASSUME ProcInv, NEW p \in Processes, StopProgram(p)
  PROVE  ProcInv' /\ At(p) = "stop_program" /\ Acts(p, {"stop_self"}, proc[p].old)
<1>1. PICK step: step = "stop_program"
  OBVIOUS
<1>2. Does(p, step) /\ Proceeds(p)
  BY <1>1 DEF StopProgram
<1>3. At(p) = step
  BY <1>2, DoesFields
<1>4. ProcInv' /\ Acts(p, Ahead(step), proc[p].old)
  BY <1>1, <1>2, ProceedsEffect
<1>5. Ahead(step) = {"stop_self"}
  BY <1>1, AheadOfEach DEF Closing
<1> QED BY <1>1, <1>3, <1>4, <1>5

\* suspend continues the program.
LEMMA ContinueProgramEffect ==
  ASSUME ProcInv, NEW p \in Processes, ContinueProgram(p)
  PROVE  ProcInv' /\ At(p) = "continue_program" /\ Acts(p, {"set_mode"}, proc[p].old)
<1>1. PICK step: step = "continue_program"
  OBVIOUS
<1>2. Does(p, step) /\ Proceeds(p)
  BY <1>1 DEF ContinueProgram
<1>3. At(p) = step
  BY <1>2, DoesFields
<1>4. ProcInv' /\ Acts(p, Ahead(step), proc[p].old)
  BY <1>1, <1>2, ProceedsEffect
<1>5. Ahead(step) = {"set_mode"}
  BY <1>1, AheadOfEach DEF Closing
<1> QED BY <1>1, <1>3, <1>4, <1>5

\* signal is over.
LEMMA SignalProgramEffect ==
  ASSUME ProcInv, NEW p \in Processes, SignalProgram(p)
  PROVE  ProcInv' /\ At(p) = "signal" /\ Acts(p, {"write", "loop"}, proc[p].old)
<1>1. PICK step: step = "signal"
  OBVIOUS
<1>2. Does(p, step) /\ Proceeds(p)
  BY <1>1 DEF SignalProgram
<1>3. At(p) = step
  BY <1>2, DoesFields
<1>4. ProcInv' /\ Acts(p, Ahead(step), proc[p].old)
  BY <1>1, <1>2, ProceedsEffect
<1>5. Ahead(step) = {"write", "loop"}
  BY <1>1, AheadOfEach DEF Closing
<1> QED BY <1>1, <1>3, <1>4, <1>5

\* redraw_method is over.
LEMMA RedrawMethodEffect ==
  ASSUME ProcInv, NEW p \in Processes, RedrawMethod(p)
  PROVE  ProcInv' /\ At(p) = "redraw_method" /\ Acts(p, {"write", "loop"}, proc[p].old)
<1>1. PICK step: step = "redraw_method"
  OBVIOUS
<1>2. Does(p, step) /\ Proceeds(p)
  BY <1>1 DEF RedrawMethod
<1>3. At(p) = step
  BY <1>2, DoesFields
<1>4. ProcInv' /\ Acts(p, Ahead(step), proc[p].old)
  BY <1>1, <1>2, ProceedsEffect
<1>5. Ahead(step) = {"write", "loop"}
  BY <1>1, AheadOfEach DEF Closing
<1> QED BY <1>1, <1>3, <1>4, <1>5

\* exec has failed.
LEMMA ForkFailsEffect ==
  ASSUME ProcInv, NEW p \in Processes, ForkFails(p)
  PROVE  ProcInv' /\ At(p) = "fork" /\ Acts(p, {"write", "loop"}, proc[p].old)
<1>1. PICK step: step = "fork"
  OBVIOUS
<1>2. Does(p, step) /\ Proceeds(p)
  BY <1>1 DEF ForkFails
<1>3. At(p) = step
  BY <1>2, DoesFields
<1>4. ProcInv' /\ Acts(p, Ahead(step), proc[p].old)
  BY <1>1, <1>2, ProceedsEffect
<1>5. Ahead(step) = {"write", "loop"}
  BY <1>1, AheadOfEach DEF Closing
<1> QED BY <1>1, <1>3, <1>4, <1>5

\* get_cursor() has read the first bytes of an answer.
LEMMA Read3Effect ==
  ASSUME ProcInv, NEW p \in Processes, Read3(p)
  PROVE  ProcInv' /\ At(p) = "read_3" /\ Acts(p, {"read_row"}, proc[p].old)
<1>1. PICK step: step = "read_3"
  OBVIOUS
<1>2. Does(p, step) /\ Proceeds(p)
  BY <1>1 DEF Read3
<1>3. At(p) = step
  BY <1>2, DoesFields
<1>4. ProcInv' /\ Acts(p, Ahead(step), proc[p].old)
  BY <1>1, <1>2, ProceedsEffect
<1>5. Ahead(step) = {"read_row"}
  BY <1>1, AheadOfEach DEF Closing
<1> QED BY <1>1, <1>3, <1>4, <1>5

\* refresh_window() has taken a column.
LEMMA NarrowEffect ==
  ASSUME ProcInv, NEW p \in Processes, Narrow(p)
  PROVE  ProcInv' /\ At(p) = "narrow" /\ Acts(p, {"widen"}, proc[p].old)
<1>1. PICK step: step = "narrow"
  OBVIOUS
<1>2. Does(p, step) /\ Proceeds(p)
  BY <1>1 DEF Narrow
<1>3. At(p) = step
  BY <1>2, DoesFields
<1>4. ProcInv' /\ Acts(p, Ahead(step), proc[p].old)
  BY <1>1, <1>2, ProceedsEffect
<1>5. Ahead(step) = {"widen"}
  BY <1>1, AheadOfEach DEF Closing
<1> QED BY <1>1, <1>3, <1>4, <1>5

\* get_cursor() has read a byte of the row.
LEMMA ReadRowEffect ==
  ASSUME ProcInv, NEW p \in Processes, ReadTo(p, "read_row", "semi")
  PROVE  /\ ProcInv' /\ At(p) = "read_row"
         /\ IF stdin = <<>> \/ stdin[1] = "semi" THEN Acts(p, {"read_column"}, proc[p].old) ELSE Rests
<1>1. PICK step: step = "read_row"
  OBVIOUS
<1>2. Does(p, step) /\ IF stdin = <<>> \/ stdin[1] = "semi" THEN Proceeds(p) ELSE UNCHANGED proc
  BY <1>1 DEF ReadTo
<1>3. At(p) = step
  BY <1>2, DoesFields
<1>4. Proceeds(p) => ProcInv' /\ Acts(p, Ahead(step), proc[p].old)
  BY <1>1, <1>2, ProceedsEffect
<1>5. UNCHANGED proc => ProcInv' /\ Rests
  BY UnchangedEffect
<1>6. Ahead(step) = {"read_column"}
  BY <1>1, AheadOfEach DEF Closing
<1> QED BY <1>1, <1>2, <1>3, <1>4, <1>5, <1>6

\* get_cursor() has read a byte of the column.
LEMMA ReadColumnEffect ==
  ASSUME ProcInv, NEW p \in Processes, ReadTo(p, "read_column", "R")
  PROVE  /\ ProcInv' /\ At(p) = "read_column"
         /\ IF stdin = <<>> \/ stdin[1] = "R" THEN Acts(p, {"reset_mode"}, proc[p].old) ELSE Rests
<1>1. PICK step: step = "read_column"
  OBVIOUS
<1>2. Does(p, step) /\ IF stdin = <<>> \/ stdin[1] = "R" THEN Proceeds(p) ELSE UNCHANGED proc
  BY <1>1 DEF ReadTo
<1>3. At(p) = step
  BY <1>2, DoesFields
<1>4. Proceeds(p) => ProcInv' /\ Acts(p, Ahead(step), proc[p].old)
  BY <1>1, <1>2, ProceedsEffect
<1>5. UNCHANGED proc => ProcInv' /\ Rests
  BY UnchangedEffect
<1>6. Ahead(step) = {"reset_mode"}
  BY <1>1, AheadOfEach DEF Closing
<1> QED BY <1>1, <1>2, <1>3, <1>4, <1>5, <1>6

\* confirm has read a byte.
LEMMA ConfirmEffect ==
  ASSUME ProcInv, NEW p \in Processes, Confirm(p)
  PROVE  /\ ProcInv' /\ At(p) = "confirm"
         /\ \/ Proceeds(p) /\ Acts(p, {"set_mode"}, proc[p].old)
            \/ UNCHANGED proc /\ Rests
<1>1. PICK step: step = "confirm"
  OBVIOUS
<1>2. Does(p, step) /\ (Proceeds(p) \/ UNCHANGED proc)
  BY <1>1 DEF Confirm
<1>3. At(p) = step
  BY <1>2, DoesFields
<1>4. Proceeds(p) => ProcInv' /\ Acts(p, Ahead(step), proc[p].old)
  BY <1>1, <1>2, ProceedsEffect
<1>5. UNCHANGED proc => ProcInv' /\ Rests
  BY UnchangedEffect
<1>6. Ahead(step) = {"set_mode"}
  BY <1>1, AheadOfEach DEF Closing
<1> QED BY <1>1, <1>2, <1>3, <1>4, <1>5, <1>6

\* tcsetattr() sets the mode or stops the process.
LEMMA SetModeEffect ==
  ASSUME ProcInv, NEW p \in Processes, SetMode(p)
  PROVE  /\ ProcInv' /\ At(p) = "set_mode"
         /\ IF foreground THEN Acts(p, {"confirm", "redraw", "write", "loop"}, proc[p].old) ELSE Rests
<1>1. PICK step: step = "set_mode"
  OBVIOUS
<1>2. Does(p, step) /\ IF foreground THEN Proceeds(p) ELSE proc' = [proc EXCEPT ![p].stopped = TRUE]
  BY <1>1 DEF SetMode
<1>3. At(p) = step /\ proc[p].is = "tkremap" /\ Sound(proc[p]) /\ proc[p] \in ProcessType
  BY <1>2, DoesFields DEF ProcInv
<1>4. CASE foreground
  <2>1. ProcInv' /\ Acts(p, Ahead(step), proc[p].old)
    BY <1>1, <1>2, <1>4, ProceedsEffect
  <2>2. Ahead(step) = {"confirm", "redraw", "write", "loop"}
    BY <1>1, AheadOfEach
  <2> QED BY <1>1, <1>3, <1>4, <2>1, <2>2
<1>5. CASE ~foreground
  <2> DEFINE r == [proc[p] EXCEPT !.stopped = TRUE]
  <2>1. proc' = [proc EXCEPT ![p] = r]
    BY <1>2, <1>5
  <2>2. /\ r \in ProcessType /\ r.is = proc[p].is /\ r.todo = proc[p].todo /\ r.cmd = proc[p].cmd
        /\ r.stdin = proc[p].stdin /\ r.child = proc[p].child /\ r.old = proc[p].old
        /\ r.moved = proc[p].moved /\ r.tries = proc[p].tries
    BY <1>3 DEF ProcessType
  <2> HIDE DEF r
  <2>3. Step(r) = At(p)
    BY <2>2 DEF Step, At
  <2>4. At(p) = "set_mode"
    BY <1>1, <1>3
  <2>5. Sound(r)
    BY <1>3, <2>2, <2>3, <2>4 DEF Sound, At
  <2> QED BY <1>3, <1>5, <2>1, <2>2, <2>3, <2>4, <2>5, RestsEffect
<1> QED BY <1>4, <1>5

\* raise(SIGTSTP) stops the process, or does not.
LEMMA StopSelfEffect ==
  ASSUME VarsOK, ProcInv, NEW p \in Processes, StopSelf(p)
  PROVE  ProcInv' /\ At(p) = "stop_self" /\ Acts(p, {"continue_program"}, proc[p].old)
<1>1. PICK step: step = "stop_self"
  OBVIOUS
<1>2. Does(p, step) /\ jobcontrol \in BOOLEAN
      /\ proc' = [proc EXCEPT ![p] = [Done(p) EXCEPT !.stopped = jobcontrol]]
  BY <1>1 DEF StopSelf, VarsOK
<1>3. At(p) = step /\ proc[p] \in ProcessType /\ proc[p].old \in Modes \cup Sizes \cup {Null}
  BY <1>2, DoesFields DEF ProcessType
<1>4. [Done(p) EXCEPT !.stopped = jobcontrol] = [Done(p) EXCEPT !.old = proc[p].old, !.stopped = jobcontrol]
  BY <1>3 DEF Done, ProcessType
<1>5. step \notin {"ask", "read_3", "read_row", "read_column", "get_size", "narrow", "wait"}
  BY <1>1
<1>6. proc' = [proc EXCEPT ![p] = [Done(p) EXCEPT !.old = proc[p].old, !.stopped = jobcontrol]]
  BY <1>2, <1>4
<1>7. ProcInv' /\ Acts(p, Ahead(step), proc[p].old)
  BY <1>1, <1>2, <1>3, <1>5, <1>6, DoneEffect
<1>8. Ahead(step) = {"continue_program"}
  BY <1>1, AheadOfEach
<1> QED BY <1>1, <1>3, <1>7, <1>8

\* get_cursor() is over.
LEMMA ResetModeEffect ==
  ASSUME ProcInv, NEW p \in Processes, ResetMode(p)
  PROVE  ProcInv' /\ At(p) = "reset_mode" /\ Acts(p, {"readline", "set_mode"}, Null)
<1>1. PICK step: step = "reset_mode"
  OBVIOUS
<1>2. Does(p, step) /\ proc' = [proc EXCEPT ![p] = [Done(p) EXCEPT !.old = Null]]
  BY <1>1 DEF ResetMode
<1>3. At(p) = step
  BY <1>2, DoesFields
<1>4. step \notin {"ask", "read_3", "read_row", "read_column", "get_size", "narrow", "wait"}
  BY <1>1
<1>5. ProcInv' /\ Acts(p, Ahead(step), Null)
  BY <1>2, <1>4, SavesEffect
<1> QED BY <1>1, <1>3, <1>5, AheadOfEach

\* refresh_window() has given the column back.
LEMMA WidenEffect ==
  ASSUME ProcInv, NEW p \in Processes, Widen(p)
  PROVE  ProcInv' /\ At(p) = "widen" /\ Acts(p, {"write", "loop"}, Null)
<1>1. PICK step: step = "widen"
  OBVIOUS
<1>2. Does(p, step) /\ proc' = [proc EXCEPT ![p] = [Done(p) EXCEPT !.old = Null]]
  BY <1>1 DEF Widen
<1>3. At(p) = step
  BY <1>2, DoesFields
<1>4. step \notin {"ask", "read_3", "read_row", "read_column", "get_size", "narrow", "wait"}
  BY <1>1
<1>5. ProcInv' /\ Acts(p, Ahead(step), Null)
  BY <1>2, <1>4, SavesEffect
<1>6. Ahead(step) = {"write", "loop"}
  BY <1>1, AheadOfEach DEF Closing
<1> QED BY <1>1, <1>3, <1>5, <1>6

\* refresh_window() knows the size.
LEMMA GetSizeEffect ==
  ASSUME VarsOK, ProcInv, NEW p \in Processes, GetSize(p)
  PROVE  ProcInv' /\ At(p) = "get_size" /\ Acts(p, {"narrow"}, ptysize)
<1>1. PICK step: step = "get_size"
  OBVIOUS
<1>2. Does(p, step) /\ proc' = [proc EXCEPT ![p] = [Done(p) EXCEPT !.old = ptysize]]
      /\ ptysize \in Sizes
  BY <1>1 DEF GetSize, VarsOK
<1>3. At(p) = step
  BY <1>2, DoesFields
<1>4. step \notin {"ask", "read_3", "read_row", "read_column", "wait"} /\ ptysize \in Modes \cup Sizes \cup {Null}
  BY <1>1, <1>2
<1>5. ProcInv' /\ Acts(p, Ahead(step), ptysize)
  BY <1>2, <1>4, SavesEffect
<1> QED BY <1>1, <1>3, <1>5, AheadOfEach

\* update_pty_size() ends a write().
LEMMA WinchEffect ==
  ASSUME ProcInv, NEW p \in Processes, Winch(p)
  PROVE  ProcInv' /\ Rests
<1>1. Sound(proc[p]) /\ proc[p] \in ProcessType
  BY DEF ProcInv
<1>2. CASE proc[p].moved
  <2> DEFINE r == [proc[p] EXCEPT !.tries = proc[p].tries - 1, !.moved = FALSE]
  <2>1. proc' = [proc EXCEPT ![p] = r]
    BY <1>2 DEF Winch
  <2>2. proc[p].tries \in 0..Attempts /\ proc[p].tries > 0 /\ Attempts \in Nat
    BY <1>1, <1>2, BoundsAssumption DEF Sound, ProcessType
  <2>3. proc[p].tries - 1 \in 0..Attempts
    BY <2>2
  <2>4. /\ r \in ProcessType /\ r.is = proc[p].is /\ r.todo = proc[p].todo /\ r.cmd = proc[p].cmd
        /\ r.stdin = proc[p].stdin /\ r.child = proc[p].child /\ r.old = proc[p].old
        /\ r.stopped = proc[p].stopped /\ r.moved = FALSE
    BY <1>1, <2>3 DEF ProcessType
  <2> HIDE DEF r
  <2>5. Step(r) = At(p) /\ Sound(r)
    BY <1>1, <2>4 DEF Step, At, Sound
  <2> QED BY <2>1, <2>4, <2>5, RestsEffect
<1>3. CASE ~proc[p].moved
  BY <1>3, UnchangedEffect DEF Winch
<1> QED BY <1>2, <1>3

\* write() has written something, and write_full() goes on or returns.
LEMMA WriteEffect ==
  ASSUME ProcInv, NEW p \in Processes, Write(p)
  PROVE  ProcInv' /\ At(p) = "write" /\ (Rests \/ Acts(p, {"write", "loop"}, proc[p].old))
<1>1. Does(p, "write") /\ proc[p].tries > 0
  BY DEF Write
<1>2. PICK step: step = "write"
  OBVIOUS
<1>3. Sound(proc[p]) /\ proc[p] \in ProcessType /\ At(p) = "write"
  <2>1. Does(p, step)
    BY <1>1, <1>2
  <2> QED BY <1>2, <2>1, DoesFields DEF ProcInv
<1>4. CASE proc[p].left = 1
  <2>1. proc' = [proc EXCEPT ![p] = Written(p)]
    BY <1>4 DEF Write
  <2> QED BY <1>1, <1>3, <2>1, WrittenEffect
<1>5. CASE proc[p].left # 1
  <2> DEFINE r == [proc[p] EXCEPT !.left = proc[p].left - 1, !.moved = TRUE]
  <2>1. proc' = [proc EXCEPT ![p] = r]
    BY <1>5 DEF Write
  <2>2. proc[p].left \in 1..Chunk /\ Chunk \in Nat
    BY <1>3, BoundsAssumption DEF ProcessType
  <2>3. proc[p].left - 1 \in 1..Chunk
    BY <1>5, <2>2
  <2>4. /\ r \in ProcessType /\ r.is = proc[p].is /\ r.todo = proc[p].todo /\ r.cmd = proc[p].cmd
        /\ r.stdin = proc[p].stdin /\ r.child = proc[p].child /\ r.old = proc[p].old
        /\ r.stopped = proc[p].stopped /\ r.tries = proc[p].tries
    BY <1>3, <2>3 DEF ProcessType
  <2> HIDE DEF r
  <2>5. Step(r) = At(p)
    BY <2>4 DEF Step, At
  <2>6. Sound(r)
    BY <1>1, <1>3, <2>4, <2>5 DEF At, Sound
  <2> QED BY <1>3, <2>1, <2>4, <2>5, <2>6, RestsEffect
<1> QED BY <1>4, <1>5

\* write() has failed for now.
LEMMA WriteAgainEffect ==
  ASSUME ProcInv, NEW p \in Processes, WriteAgain(p)
  PROVE  ProcInv' /\ Rests
<1>1. Sound(proc[p]) /\ proc[p] \in ProcessType
  BY DEF ProcInv
<1> DEFINE r == [proc[p] EXCEPT !.tries = proc[p].tries - 1, !.moved = FALSE]
<1>2. proc' = [proc EXCEPT ![p] = r]
  BY DEF WriteAgain
<1>3. proc[p].tries \in 0..Attempts /\ proc[p].tries > 0 /\ Attempts \in Nat
  BY <1>1, BoundsAssumption DEF ProcessType, WriteAgain
<1>4. proc[p].tries - 1 \in 0..Attempts
  BY <1>3
<1>5. /\ r \in ProcessType /\ r.is = proc[p].is /\ r.todo = proc[p].todo /\ r.cmd = proc[p].cmd
      /\ r.stdin = proc[p].stdin /\ r.child = proc[p].child /\ r.old = proc[p].old
      /\ r.stopped = proc[p].stopped /\ r.moved = FALSE
  BY <1>1, <1>4 DEF ProcessType
<1> HIDE DEF r
<1>6. Step(r) = At(p) /\ Sound(r)
  BY <1>1, <1>5 DEF Step, At, Sound
<1> QED BY <1>2, <1>5, <1>6, RestsEffect

\* write_full() drops the rest.
LEMMA GiveUpEffect ==
  ASSUME ProcInv, NEW p \in Processes, GiveUp(p)
  PROVE  ProcInv' /\ At(p) = "write" /\ Acts(p, {"write", "loop"}, proc[p].old)
<1>1. PICK step: step = "write"
  OBVIOUS
<1>2. Does(p, step)
  BY <1>1 DEF GiveUp
<1>3. At(p) = "write"
  BY <1>1, <1>2, DoesFields
<1> QED BY <1>3, WrittenEffect DEF GiveUp

\* The shell continues tkremap in the middle of a suspend or where it sets the mode.
LEMMA ShellContinuesEffect ==
  ASSUME ProcInv, MainInv, NEW fg, ShellContinues(fg)
  PROVE  ProcInv' /\ Rests /\ At(Main) \in {"continue_program", "set_mode"}
<1>1. Main \in Processes
  BY DEF Processes
<1>2. Sound(proc[Main]) /\ proc[Main] \in ProcessType
  BY <1>1 DEF ProcInv
<1> DEFINE r == [proc[Main] EXCEPT !.stopped = FALSE]
<1>3. proc' = [proc EXCEPT ![Main] = r]
  BY DEF ShellContinues
<1>4. /\ r \in ProcessType /\ r.is = proc[Main].is /\ r.todo = proc[Main].todo /\ r.cmd = proc[Main].cmd
      /\ r.stdin = proc[Main].stdin /\ r.child = proc[Main].child /\ r.old = proc[Main].old
      /\ r.stopped = FALSE /\ r.moved = proc[Main].moved /\ r.tries = proc[Main].tries
  BY <1>2 DEF ProcessType
<1> HIDE DEF r
<1>5. Step(r) = At(Main) /\ Sound(r)
  BY <1>2, <1>4 DEF Step, At, Sound
<1>6. At(Main) \in {"continue_program", "set_mode"}
  BY <1>2 DEF ShellContinues, Sound, At
<1> QED BY <1>1, <1>3, <1>4, <1>5, <1>6, RestsEffect

\* A child with something to write, or nothing any more.
LEMMA OtherWritesEffect ==
  ASSUME ProcInv, NEW c \in Processes, OtherStartsWriting(c) \/ OtherWrites(c)
  PROVE  ProcInv' /\ Rests
<1>1. Sound(proc[c]) /\ proc[c] \in ProcessType /\ proc[c].is = "other"
  BY DEF ProcInv, OtherStartsWriting, OtherWrites, WritesToPty, Other
<1>2. PICK t \in Seq(AllSteps): Orderly(t) /\ proc' = [proc EXCEPT ![c].todo = t]
  <2>1. CASE OtherStartsWriting(c)
    <3> DEFINE t == <<"write">>
    <3>1. t \in Seq(AllSteps) /\ Len(t) = 1 /\ t[1] = "write"
      BY StepSequences
    <3>2. proc' = [proc EXCEPT ![c].todo = t]
      BY <2>1 DEF OtherStartsWriting
    <3> HIDE DEF t
    <3>3. Orderly(t)
      BY <3>1 DEF Orderly, Closing
    <3> QED BY <3>1, <3>2, <3>3
  <2>2. CASE OtherWrites(c)
    <3>1. <<>> \in Seq(AllSteps) /\ Orderly(<<>>)
      BY EmptySeq DEF Orderly
    <3> QED BY <2>2, <3>1 DEF OtherWrites
  <2> QED BY <2>1, <2>2
<1> DEFINE r == [proc[c] EXCEPT !.todo = t]
<1>3. proc' = [proc EXCEPT ![c] = r]
  BY <1>2
<1>4. /\ r \in ProcessType /\ r.is = "other" /\ r.todo = t /\ r.cmd = proc[c].cmd
      /\ r.stdin = proc[c].stdin /\ r.child = proc[c].child /\ r.old = proc[c].old
      /\ r.stopped = proc[c].stopped /\ r.moved = proc[c].moved /\ r.tries = proc[c].tries
  BY <1>1, <1>2 DEF ProcessType
<1> HIDE DEF r
<1>5. Step(r) = "loop" /\ At(c) = "loop"
  BY <1>1, <1>4 DEF Step, At
<1>6. Sound(r)
  BY <1>1, <1>2, <1>4, <1>5 DEF Sound, At
<1> QED BY <1>1, <1>3, <1>4, <1>5, <1>6, RestsEffect

-----------------------------------------------------------------------------
(* Types of the other variables. *)

\* What is left of a sequence when its first bytes have been read.
LEMMA Dropped ==
  ASSUME NEW S, NEW s \in Seq(S), NEW n \in Nat
  PROVE  LET u == SubSeq(s, n + 1, Len(s))
         IN  /\ u \in Seq(S)
             /\ Len(u) = IF n <= Len(s) THEN Len(s) - n ELSE 0
             /\ \A i \in 1..Len(u): u[i] = s[i + n]
<1> DEFINE u == SubSeq(s, n + 1, Len(s))
<1>1. PICK l \in Nat: l = Len(s)
  BY LenProperties
<1>2. \A i \in n + 1..Len(s): s[i] \in S
  BY <1>1, ElementOfSeq
<1>3. n + 1 \in Int /\ Len(s) \in Int
  BY <1>1
<1>4. /\ u \in Seq(S)
      /\ Len(u) = IF n + 1 <= Len(s) THEN Len(s) - (n + 1) + 1 ELSE 0
      /\ \A i \in 1..Len(s) - (n + 1) + 1: u[i] = s[n + 1 + i - 1]
  BY <1>2, <1>3, SubSeqProperties
<1> HIDE DEF u
<1>7. (n + 1 <= l => l - (n + 1) + 1 = l - n) /\ (n <= l /\ ~(n + 1 <= l) => l - n = 0)
      /\ (n + 1 <= l => n <= l)
  BY <1>1
<1>5. Len(u) = IF n <= Len(s) THEN Len(s) - n ELSE 0
  BY <1>1, <1>4, <1>7
<1>6. ASSUME NEW i \in 1..Len(u) PROVE u[i] = s[i + n]
  <2>1. i \in 1..Len(s) - (n + 1) + 1
    BY <1>1, <1>5
  <2>2. u[i] = s[n + 1 + i - 1]
    BY <1>4, <2>1
  <2>3. n + 1 + i - 1 = i + n
    OBVIOUS
  <2> QED BY <2>2, <2>3
<1> QED BY <1>4, <1>5, <1>6 DEF u

\* A process does one call, or handles a signal.
LEMMA ThreadTypes ==
  ASSUME VarsOK, ProcInv, NEW p \in Processes, Thread(p)
  PROVE  VarsOK'
<1>1. ASSUME ShowOutput(p) PROVE VarsOK'
  BY <1>1 DEF VarsOK, ShowOutput, terminal, pty
<1>2. ASSUME ReadKey(p) PROVE VarsOK'
  <2>1. Tail(stdin) \in Seq(Bytes)
    BY <1>2, HeadTailProperties DEF VarsOK, ReadKey
  <2> QED BY <1>2, <2>1 DEF VarsOK, ReadKey, pty
<1>3. ASSUME SeeHangup(p) PROVE VarsOK'
  BY <1>3 DEF VarsOK, SeeHangup, terminal, pty
<1>4. ASSUME SeeDeath PROVE VarsOK'
  BY <1>4 DEF VarsOK, SeeDeath, terminal, pty
<1>5. ASSUME WaitProgram(p) PROVE VarsOK'
  <2>1. /\ UNCHANGED <<config, stdin, asked, hup, size, foreground, jobcontrol, pty, winch, method, typed>>
        /\ mode' \in {mode, "restore"} /\ exit' \in {exit, TRUE}
    BY <1>5 DEF WaitProgram, Ends
  <2>2. meddled' \subseteq meddled \cup {"mode", "stop", "size", "answer", "orphan"}
    BY <1>5 DEF WaitProgram, Ends
  <2>3. mode' \in Modes /\ meddled' \subseteq {"mode", "stop", "size", "answer", "orphan"}
    BY <2>1, <2>2 DEF VarsOK, Modes
  <2>4. exit' \in BOOLEAN
    BY <2>1 DEF VarsOK
  <2> QED BY <2>1, <2>3, <2>4 DEF VarsOK, pty
<1>6. ASSUME SetMode(p) PROVE VarsOK'
  BY <1>6 DEF VarsOK, SetMode, Modes, pty
<1>7. ASSUME RestoreMode(p) PROVE VarsOK'
  BY <1>7 DEF VarsOK, RestoreMode, Modes, pty
<1>8. ASSUME StopProgram(p) PROVE VarsOK'
  BY <1>8 DEF VarsOK, StopProgram, Halt, terminal
<1>9. ASSUME ContinueProgram(p) PROVE VarsOK'
  BY <1>9 DEF VarsOK, ContinueProgram, Halt, terminal
<1>10. ASSUME SignalProgram(p) PROVE VarsOK'
  BY <1>10 DEF VarsOK, SignalProgram, Halt, terminal
<1>11. ASSUME StopSelf(p) PROVE VarsOK'
  BY <1>11 DEF VarsOK, StopSelf, Modes, pty
<1>12. ASSUME RedrawMethod(p) PROVE VarsOK'
  <2>1. PICK step: step = "redraw_method"
    OBVIOUS
  <2>2. Does(p, step)
    BY <1>12, <2>1 DEF RedrawMethod
  <2>3. Sound(proc[p]) /\ Step(proc[p]) = "redraw_method"
    BY <2>1, <2>2, DoesFields DEF ProcInv, At
  <2>4. WellFormed(proc[p].cmd) /\ proc[p].cmd.op = "redraw_method"
    BY <2>3, CommandsAssumption DEF Sound, Commands
  <2>5. proc[p].cmd.method \in {"resize", "srmcup", "keys"}
    BY <2>4 DEF WellFormed
  <2> QED BY <1>12, <2>5 DEF VarsOK, RedrawMethod, terminal, pty
<1>13. ASSUME AskCursor(p) PROVE VarsOK'
  BY <1>13 DEF VarsOK, AskCursor, Modes, pty
<1>14. ASSUME Read3(p) PROVE VarsOK'
  <2>1. Least(3, Len(stdin)) \in Nat
    BY LenProperties DEF Least, VarsOK
  <2>2. stdin' \in Seq(Bytes)
    BY <1>14, <2>1, Dropped DEF VarsOK, Read3
  <2> QED BY <1>14, <2>2 DEF VarsOK, Read3, pty
<1>15. ASSUME SubSeq(stdin, 2, Len(stdin)) \notin Seq(Bytes) PROVE FALSE
  <2>1. SubSeq(stdin, 1 + 1, Len(stdin)) \in Seq(Bytes)
    BY Dropped DEF VarsOK
  <2> QED BY <1>15, <2>1
<1>16. ASSUME ReadTo(p, "read_row", "semi") \/ ReadTo(p, "read_column", "R") PROVE VarsOK'
  BY <1>15, <1>16 DEF VarsOK, ReadTo, pty
<1>17. ASSUME ResetMode(p) PROVE VarsOK'
  <2>1. PICK step: step = "reset_mode"
    OBVIOUS
  <2>2. Does(p, step)
    BY <1>17, <2>1 DEF ResetMode
  <2>3. proc[p].old \in Modes
    BY <2>1, <2>2, DoesFields
  <2> QED BY <1>17, <2>3 DEF VarsOK, ResetMode, pty
<1>18. ASSUME Confirm(p) \/ ReadLine(p) PROVE VarsOK'
  BY <1>15, <1>18 DEF VarsOK, Confirm, ReadLine, pty
<1>19. ASSUME Redraw(p) \/ GetSize(p) PROVE VarsOK'
  BY <1>19 DEF VarsOK, Redraw, GetSize, terminal, pty
<1>20. ASSUME Narrow(p) PROVE VarsOK'
  <2>1. PICK step: step = "narrow"
    OBVIOUS
  <2>2. Does(p, step)
    BY <1>20, <2>1 DEF Narrow
  <2>3. proc[p].old \in Sizes
    BY <2>1, <2>2, DoesFields
  <2> QED BY <1>20, <2>3 DEF VarsOK, Narrow, Sizes, terminal
<1>21. ASSUME Widen(p) PROVE VarsOK'
  <2>1. PICK step: step = "widen"
    OBVIOUS
  <2>2. Does(p, step)
    BY <1>21, <2>1 DEF Widen
  <2>3. proc[p].old \in Sizes
    BY <2>1, <2>2, DoesFields
  <2> QED BY <1>21, <2>3 DEF VarsOK, Widen, terminal
<1>22. ASSUME Write(p) PROVE VarsOK'
  BY <1>22 DEF VarsOK, Write, terminal
<1>23. ASSUME WriteAgain(p) \/ GiveUp(p) PROVE VarsOK'
  BY <1>23 DEF VarsOK, WriteAgain, GiveUp, terminal, pty
<1>24. ASSUME Fork(p) \/ ForkFails(p) \/ Wait(p) PROVE VarsOK'
  <2>1. UNCHANGED <<terminal, pty, winch, method, exit, meddled, typed>>
    BY <1>24 DEF Fork, ForkFails, Wait
  <2> QED BY <2>1 DEF VarsOK, terminal, pty
<1>25. ASSUME Winch(p) PROVE VarsOK'
  <2>1. /\ UNCHANGED <<terminal, program, halted, input, output, nonblock, method, exit, typed>>
        /\ winch' \subseteq winch
        /\ ptysize' \in {ptysize, FullSize(size)}
    BY <1>25 DEF Winch
  <2>2. meddled' \subseteq meddled \cup {"size"}
    BY <1>25 DEF Winch
  <2>3. FullSize(size) \in Sizes
    BY DEF VarsOK, FullSize, Sizes
  <2> QED BY <2>1, <2>2, <2>3 DEF VarsOK, terminal
<1> QED BY <1>1, <1>2, <1>3, <1>4, <1>5, <1>6, <1>7, <1>8, <1>9, <1>10, <1>11, <1>12, <1>13,
          <1>14, <1>16, <1>17, <1>18, <1>19, <1>20, <1>21, <1>22, <1>23, <1>24, <1>25
       DEF Thread, Loop, Call

\* A child does something.
LEMMA ChildTypes ==
  ASSUME VarsOK, NEW c \in Children, Child(c)
  PROVE  VarsOK'
<1>1. ASSUME Exec(c) \/ OtherStartsWriting(c) \/ OtherExits(c) PROVE VarsOK'
  BY <1>1 DEF VarsOK, Exec, OtherStartsWriting, OtherExits, terminal, pty
<1>2. ASSUME OtherReads(c) PROVE VarsOK'
  <2>1. Tail(stdin) \in Seq(Bytes)
    BY <1>2, HeadTailProperties DEF VarsOK, OtherReads
  <2> QED BY <1>2, <2>1 DEF VarsOK, OtherReads, pty
<1>3. ASSUME OtherSetsMode(c) PROVE VarsOK'
  BY <1>3 DEF VarsOK, OtherSetsMode, Modes, pty
<1>4. ASSUME OtherSetsNonblock(c) \/ OtherWrites(c) PROVE VarsOK'
  <2>1. /\ UNCHANGED <<terminal, program, halted, output, ptysize, winch, method, exit, meddled, typed>>
        /\ input' \in {input, input + 1} /\ nonblock' \in {nonblock, TRUE}
    BY <1>4 DEF OtherSetsNonblock, OtherWrites
  <2>2. input' \in Nat
    BY <2>1 DEF VarsOK
  <2>3. nonblock' \in BOOLEAN
    BY <2>1 DEF VarsOK
  <2> QED BY <2>1, <2>2, <2>3 DEF VarsOK, terminal
<1>5. ASSUME CopyExits(c) PROVE VarsOK'
  BY <1>5 DEF VarsOK, CopyExits, Ends, Modes, pty
<1> QED BY <1>1, <1>2, <1>3, <1>4, <1>5 DEF Child

\* The program, the terminal, its user or the shell does something.
LEMMA EnvironmentTypes ==
  ASSUME VarsOK, Environment
  PROVE  VarsOK'
<1>1. ASSUME ProgramReads \/ ProgramStartsWriting \/ ProgramWrites PROVE VarsOK'
  <2>1. /\ UNCHANGED <<terminal, halted, ptysize, nonblock, proc, winch, method, exit, meddled, typed>>
        /\ program' \in {program, "writes", "reads"}
        /\ output' \in {output, output + 1}
        /\ input' = input \/ (input > 0 /\ input' = input - 1)
    BY <1>1 DEF ProgramReads, ProgramStartsWriting, ProgramWrites
  <2>2. input' \in Nat
    BY <2>1 DEF VarsOK
  <2> QED BY <2>1, <2>2 DEF VarsOK, terminal
<1>2. ASSUME Dies PROVE VarsOK'
  BY <1>2 DEF VarsOK, Dies, terminal
<1>3. ASSUME NEW b \in {"semi", "R", "any"}, Type(b) PROVE VarsOK'
  <2>1. stdin' \in Seq(Bytes)
    BY <1>3, AppendProperties DEF VarsOK, Type, Bytes
  <2>2. typed' \subseteq {"semi", "R"}
    BY <1>3 DEF VarsOK, Type
  <2> QED BY <1>3, <2>1, <2>2 DEF VarsOK, Type, pty
<1>4. ASSUME TerminalAnswers PROVE VarsOK'
  <2>1. Answer \in Seq(Bytes)
    BY DEF Answer, Bytes
  <2>2. stdin' \in Seq(Bytes)
    BY <1>4, <2>1, ConcatProperties DEF VarsOK, TerminalAnswers
  <2> QED BY <1>4, <2>2 DEF VarsOK, TerminalAnswers, pty
<1>5. ASSUME Resize PROVE VarsOK'
  BY <1>5 DEF VarsOK, Resize, pty
<1>6. ASSUME HangUp PROVE VarsOK'
  BY <1>6 DEF VarsOK, HangUp, pty
<1>7. ASSUME NEW fg \in BOOLEAN, ShellContinues(fg) PROVE VarsOK'
  BY <1>7 DEF VarsOK, ShellContinues, pty
<1> QED BY <1>1, <1>2, <1>3, <1>4, <1>5, <1>6, <1>7 DEF Environment, ProgramDies, ProgramHungUp

-----------------------------------------------------------------------------
(* Who has the terminal. *)

\* A step that changes neither who has or gets the terminal nor who waits for whom.
Kept ==
  \A p \in Processes:
    /\ proc'[p].child = proc[p].child
    /\ Holder(p)' <=> Holder(p)
    /\ proc[p].child # Null => proc'[p].stdin = proc[p].stdin
    /\ proc'[p].is = "none" <=> proc[p].is = "none"

\* Nobody forgets that a process has lost its parent.
OrphanStays == "orphan" \in meddled => "orphan" \in meddled'

\* While every process keeps its input, its parent and its part, the chain stays a chain.
LEMMA KeptRoles ==
  ASSUME ProcInv, ChildInv, TipInv, Kept, OrphanStays
  PROVE  ChildInv' /\ TipInv'
<1>1. \A p \in Processes: proc[p].child # Null => proc[p].child \in Processes
  BY DEF ProcInv, ProcessType, Processes
<1>2. ChildInv'
  BY <1>1 DEF ChildInv, Kept
<1>3. ASSUME NEW p \in Processes PROVE Tip(p)' <=> Tip(p)
  <2>1. CASE proc[p].child = Null
    BY <2>1 DEF Kept, Tip
  <2>2. CASE proc[p].child # Null
    <3>1. PICK c \in Processes: c = proc[p].child
      BY <1>1, <2>2
    <3>2. proc'[p].child = c /\ c # Null /\ proc'[p].stdin = proc[p].stdin
      BY <2>2, <3>1 DEF Kept
    <3>3. Holder(c)' <=> Holder(c)
      BY DEF Kept
    <3>4. Holder(proc[p].child)' <=> Holder(c)'
      BY <3>2 DEF Holder, HasTerminal, Input
    <3> QED BY <3>1, <3>2, <3>3, <3>4 DEF Tip, HasTerminal
  <2> QED BY <2>1, <2>2
<1>4. TipInv'
  BY <1>3 DEF TipInv, OrphanStays
<1> QED BY <1>2, <1>4

\* A process in the middle of a command, or one that has got on, keeps what it has.
LEMMA RestsKept ==
  ASSUME ProcInv, Rests
  PROVE  Kept
BY DEF Rests, Kept, Holder, HasTerminal, Input

\* A step of a command keeps all that.
LEMMA ActsKept ==
  ASSUME ProcInv, NEW p \in Processes, NEW next, NEW o, Acts(p, next, o)
  PROVE  Kept
<1> SUFFICES ASSUME NEW q \in Processes
             PROVE  /\ proc'[q].child = proc[q].child
                    /\ Holder(q)' <=> Holder(q)
                    /\ proc[q].child # Null => proc'[q].stdin = proc[q].stdin
                    /\ proc'[q].is = "none" <=> proc[q].is = "none"
  BY DEF Kept
<1>1. CASE q = p
  BY <1>1 DEF Acts, Holder, HasTerminal
<1>2. CASE q # p
  BY <1>2 DEF Acts, Holder, HasTerminal, Input
<1> QED BY <1>1, <1>2

\* execvp() changes nothing: its child has been counted since fork().
LEMMA ExecRoles ==
  ASSUME ProcInv, ChildInv, TipInv, NEW c \in Processes, Exec(c)
  PROVE  Kept
<1> SUFFICES ASSUME NEW q \in Processes
             PROVE  /\ proc'[q].child = proc[q].child
                    /\ Holder(q)' <=> Holder(q)
                    /\ proc[q].child # Null => proc'[q].stdin = proc[q].stdin
                    /\ proc'[q].is = "none" <=> proc[q].is = "none"
  BY DEF Kept
<1>1. CASE q = c
  BY <1>1, ExecEffect DEF Holder, HasTerminal
<1>2. CASE q # c
  BY <1>2, ExecEffect DEF Holder, HasTerminal, Input
<1> QED BY <1>1, <1>2

\* When the tip ends its parent is the tip.
LEMMA GoneRoles ==
  ASSUME ProcInv, ChildInv, TipInv, NEW c \in Processes, OrphanStays,
         proc' = [proc EXCEPT ![c] = Process("zombie", "closed")],
         proc[c].child # Null => "orphan" \in meddled'
  PROVE  ChildInv' /\ TipInv'
<1>1. /\ proc'[c].is = "zombie" /\ proc'[c].child = Null
      /\ \A q \in Processes \ {c}: proc'[q] = proc[q]
  BY GoneEffect, SoundProcess
<1>2. \A p \in Processes: proc[p].child # Null => proc[p].child \in Processes
  BY DEF ProcInv, ProcessType, Processes
<1>3. \A p \in Processes: proc'[p].child # Null => p # c /\ proc'[p].child = proc[p].child
  BY <1>1
<1>4. \A p \in Processes: proc[p].is # "none" => proc'[p].is # "none"
  BY <1>1
<1>5. ChildInv'
  BY <1>2, <1>3, <1>4 DEF ChildInv
<1>6. TipInv'
  <2> SUFFICES ASSUME "orphan" \notin meddled', NEW p \in Processes, NEW q \in Processes,
                      Tip(p)', Tip(q)'
               PROVE  p = q
    BY DEF TipInv
  <2>1. "orphan" \notin meddled /\ proc[c].child = Null
    BY DEF OrphanStays
  <2>2. ~Holder(c)'
    BY <1>1 DEF Holder
  <2>3. \A r \in Processes: r # c => (Holder(r)' <=> Holder(r))
    BY <1>1 DEF Holder, HasTerminal, Input
  <2>4. ASSUME NEW r \in Processes, Tip(r)'
        PROVE  r # c /\ (Tip(r) \/ (proc[r].child = c /\ c # Null /\ Tip(c)))
    <3>1. r # c
      BY <1>1, <2>2, <2>4 DEF Tip
    <3>2. proc'[r] = proc[r]
      BY <1>1, <3>1
    <3>3. CASE proc[r].child = Null
      BY <2>3, <2>4, <3>1, <3>2, <3>3 DEF Tip
    <3>4. CASE proc[r].child # Null /\ proc[r].child # c
      <4>1. PICK d \in Processes: d = proc[r].child
        BY <1>2, <3>4
      <4>2. d # c /\ d # Null /\ d = proc'[r].child
        BY <3>2, <3>4, <4>1
      <4>3. HasTerminal(r) /\ ~Holder(proc[r].child)'
        BY <2>4, <3>2, <4>2 DEF Tip, HasTerminal
      <4>4. Holder(proc[r].child)' <=> Holder(d)'
        BY <4>2 DEF Holder, HasTerminal, Input
      <4>5. ~Holder(d)
        BY <2>3, <4>2, <4>3, <4>4
      <4> QED BY <3>1, <3>4, <4>1, <4>3, <4>5 DEF Tip
    <3>5. CASE proc[r].child # Null /\ proc[r].child = c
      <4>1. HasTerminal(r)
        BY <2>4, <3>2, <3>5 DEF Tip, HasTerminal
      <4> QED BY <2>1, <3>1, <3>5, <4>1 DEF Tip
    <3> QED BY <3>3, <3>4, <3>5
  <2>5. \A r, s \in Processes: Tip(r) /\ Tip(s) => r = s
    BY <2>1 DEF TipInv
  <2>6. \A r, s \in Processes: proc[r].child = c /\ proc[s].child = c /\ c # Null => r = s
    BY DEF ChildInv
  <2> QED BY <2>4, <2>5, <2>6
<1> QED BY <1>5, <1>6

\* A process that starts a child in the foreground stops being the tip if the child
\* has got its terminal.
LEMMA ForkRoles ==
  ASSUME VarsOK, MainInv, ProcInv, ChildInv, TipInv, NEW p \in Processes, Fork(p), OrphanStays
  PROVE  MainInv' /\ ChildInv' /\ TipInv'
<1>1. PICK c \in Children:
              /\ c # p /\ proc[c].is = "none"
              /\ \A q \in Processes \ {p, c}: proc'[q] = proc[q]
              /\ proc'[c].is = "forked" /\ proc'[c].stdin = proc[p].stdin
              /\ proc'[c].cmd = proc[p].cmd /\ proc'[c].child = Null
              /\ proc[p].is = "tkremap" /\ proc'[p].is = "tkremap"
              /\ proc[p].stdin = "terminal" /\ proc'[p].stdin = "terminal"
              /\ proc[p].child = Null
              /\ \/ proc[p].cmd.background /\ proc'[p].child = Null
                 \/ ~proc[p].cmd.background /\ proc'[p].child = c
  BY ForkEffect
<1>2. c \in Processes /\ c # Null /\ c # Main
  BY ProcessesAssumption, NullAssumption DEF Processes
<1>3. proc[c].child = Null
  BY <1>1, <1>2 DEF ProcInv, Sound, Step
<1>4. \A r \in Processes: proc[r].child # Null => proc[r].child \in Processes /\ proc[r].child # c
  BY <1>1 DEF ProcInv, ProcessType, Processes, ChildInv
<1>5. MainInv'
  BY <1>1, <1>2 DEF MainInv, Processes
<1>6. ChildInv'
  <2>1. \A r \in Processes: r # p => proc'[r].child = proc[r].child
    BY <1>1, <1>3
  <2>2. \A r \in Processes: proc[r].is # "none" => proc'[r].is # "none"
    BY <1>1
  <2>3. proc'[p].child # Null => proc'[p].child = c /\ proc'[c].is # "none"
    BY <1>1
  <2> QED BY <1>4, <2>1, <2>2, <2>3 DEF ChildInv
<1>7. TipInv'
  <2> SUFFICES ASSUME "orphan" \notin meddled', NEW r \in Processes, NEW s \in Processes,
                      Tip(r)', Tip(s)'
               PROVE  r = s
    BY DEF TipInv
  <2>1. Tip(p) /\ \A q \in Processes: Tip(q) => q = p
    BY <1>1 DEF TipInv, OrphanStays, Tip, Holder, HasTerminal
  <2>2. ASSUME NEW q \in Processes, q # p, q # c PROVE ~Tip(q)'
    <3>1. ~Tip(q) /\ proc'[q] = proc[q]
      BY <1>1, <2>1, <2>2
    <3>2. CASE proc[q].child = Null
      BY <3>1, <3>2 DEF Tip, Holder, HasTerminal, Input
    <3>3. CASE proc[q].child # Null
      <4>1. PICK d \in Processes: d = proc[q].child /\ d # c /\ d # Null
        BY <1>4, <3>3
      <4>2. Holder(d) => Holder(d)'
        BY <1>1, <4>1 DEF Holder, HasTerminal, Input
      <4>3. Holder(proc[q].child)' <=> Holder(d)'
        BY <3>1, <4>1 DEF Holder, HasTerminal, Input
      <4> QED BY <3>1, <3>3, <4>1, <4>2, <4>3 DEF Tip, HasTerminal
    <3> QED BY <3>2, <3>3
  <2>3. ~(Tip(p)' /\ Tip(c)')
    <3>1. CASE proc[p].cmd.background
      <4>1. ~Holder(c)'
        BY <1>1, <3>1 DEF Holder, Input
      <4> QED BY <1>1, <4>1 DEF Tip
    <3>2. CASE ~proc[p].cmd.background
      <4>1. proc'[p].child = c
        BY <1>1, <3>2
      <4>2. Holder(proc[p].child)' <=> Holder(c)'
        BY <4>1 DEF Holder, HasTerminal, Input
      <4> QED BY <1>1, <1>2, <4>1, <4>2 DEF Tip
    <3> QED BY <3>1, <3>2
  <2> QED BY <2>2, <2>3
<1> QED BY <1>5, <1>6, <1>7

\* A child that has ended has left the terminal to its parent.
LEMMA WaitRoles ==
  ASSUME MainInv, ProcInv, ChildInv, TipInv, NEW p \in Processes, Wait(p), OrphanStays
  PROVE  MainInv' /\ ChildInv' /\ TipInv'
<1>1. PICK c \in Children: c = proc[p].child
  BY WaitEffect
<1>2. /\ c # Null /\ proc[c].is = "zombie" /\ proc'[c].is = "none" /\ proc'[c].child = Null
      /\ \A q \in Processes \ {p, c}: proc'[q] = proc[q]
      /\ proc[p].is = "tkremap" /\ proc'[p].is = "tkremap"
      /\ proc[p].stdin = "terminal" /\ proc'[p].stdin = "terminal"
      /\ proc'[p].child = Null
  BY <1>1, WaitEffect
<1>3. c \in Processes /\ c # p /\ c # Main
  BY <1>1, <1>2, ProcessesAssumption DEF Processes
<1>4. \A r \in Processes: proc[r].child # Null => proc[r].child \in Processes
  BY DEF ProcInv, ProcessType, Processes
<1>5. \A r \in Processes: r # p => proc[r].child # c
  BY <1>1, <1>2 DEF ChildInv
<1>6. MainInv'
  BY <1>2, <1>3 DEF MainInv, Processes
<1>7. ChildInv'
  <2>1. \A r \in Processes: proc'[r].child # Null => r # p /\ r # c /\ proc'[r].child = proc[r].child
    BY <1>2
  <2>2. \A r \in Processes: r # c /\ proc[r].is # "none" => proc'[r].is # "none"
    BY <1>2
  <2> QED BY <1>4, <1>5, <2>1, <2>2 DEF ChildInv
<1>8. TipInv'
  <2> SUFFICES ASSUME "orphan" \notin meddled', NEW r \in Processes, NEW s \in Processes,
                      Tip(r)', Tip(s)'
               PROVE  r = s
    BY DEF TipInv
  <2>1. Tip(p)
    BY <1>1, <1>2 DEF Tip, Holder, HasTerminal
  <2>2. \A q \in Processes: Tip(q) => q = p
    BY <2>1 DEF TipInv, OrphanStays
  <2>3. ~Tip(c)'
    BY <1>2 DEF Tip, Holder
  <2>4. ASSUME NEW q \in Processes, q # p, q # c PROVE ~Tip(q)'
    <3>1. ~Tip(q) /\ proc'[q] = proc[q]
      BY <1>2, <2>2, <2>4
    <3>2. CASE proc[q].child = Null
      BY <3>1, <3>2 DEF Tip, Holder, HasTerminal, Input
    <3>3. CASE proc[q].child # Null
      <4>1. PICK d \in Processes: d = proc[q].child /\ d # c /\ d # Null
        BY <1>4, <1>5, <2>4, <3>3
      <4>2. Holder(d) => Holder(d)'
        BY <1>2, <4>1 DEF Holder, HasTerminal, Input
      <4>3. Holder(proc[q].child)' <=> Holder(d)'
        BY <3>1, <4>1 DEF Holder, HasTerminal, Input
      <4> QED BY <3>1, <3>3, <4>1, <4>2, <4>3 DEF Tip, HasTerminal
    <3> QED BY <3>2, <3>3
  <2> QED BY <2>3, <2>4
<1> QED BY <1>6, <1>7, <1>8

\* So does a step of something else,
LEMMA RestsRoles ==
  ASSUME MainInv, ProcInv, ChildInv, TipInv, OrphanStays, Rests
  PROVE  MainInv' /\ ChildInv' /\ TipInv'
<1>1. MainInv'
  BY DEF Rests, MainInv, Processes
<1> QED BY <1>1, RestsKept, KeptRoles

\* and a step of a command by the process that does it.
LEMMA ActsRoles ==
  ASSUME MainInv, ProcInv, ChildInv, TipInv, OrphanStays,
         NEW p \in Processes, NEW next, NEW o, Acts(p, next, o)
  PROVE  MainInv' /\ ChildInv' /\ TipInv'
<1>1. MainInv'
  <2>1. Main \in Processes
    BY DEF Processes
  <2> QED BY <2>1 DEF Acts, MainInv
<1> QED BY <1>1, ActsKept, KeptRoles

\* A child that has outlived its parent with the terminal stays recorded.
LEMMA OrphanIsNotForgotten ==
  ASSUME Next
  PROVE  OrphanStays
<1>1. ASSUME NEW p \in Processes, Loop(p) PROVE OrphanStays
  BY <1>1 DEF OrphanStays, Loop, ShowOutput, ReadKey, SeeHangup, SeeDeath
<1>2. ASSUME NEW p \in Processes, Call(p) PROVE OrphanStays
  <2>1. CASE WaitProgram(p)
    BY <2>1 DEF OrphanStays, WaitProgram, Ends
  <2>2. CASE SetMode(p) \/ ContinueProgram(p) \/ SignalProgram(p) \/ AskCursor(p)
    BY <2>2 DEF OrphanStays, SetMode, ContinueProgram, SignalProgram, AskCursor
  <2>3. CASE UNCHANGED meddled
    BY <2>3 DEF OrphanStays
  <2> QED BY <1>2, <2>1, <2>2, <2>3 DEF Call, RestoreMode, StopProgram, StopSelf, RedrawMethod, Read3,
             ReadTo, ResetMode, Confirm, ReadLine, Redraw, GetSize, Narrow, Widen, Write, WriteAgain,
             GiveUp, Fork, ForkFails, Wait
<1>3. ASSUME NEW p \in Processes, Winch(p) PROVE OrphanStays
  BY <1>3 DEF OrphanStays, Winch
<1>4. ASSUME NEW c \in Children, Child(c) PROVE OrphanStays
  BY <1>4 DEF OrphanStays, Child, Exec, OtherReads, OtherSetsMode, OtherSetsNonblock,
              OtherStartsWriting, OtherWrites, OtherExits, CopyExits, Ends
<1>5. ASSUME Environment PROVE OrphanStays
  BY <1>5 DEF OrphanStays, Environment, ProgramReads, ProgramStartsWriting, ProgramWrites, ProgramDies,
              ProgramHungUp, Dies, Type, TerminalAnswers, Resize, HangUp, ShellContinues
<1> QED BY <1>1, <1>2, <1>3, <1>4, <1>5 DEF Next, Thread

\* What the invariants say of every single process, of their children and the terminal.
Roles == MainInv /\ ProcInv /\ ChildInv /\ TipInv

\* A copy that ends hands the terminal back to its parent; a child it leaves is recorded.
LEMMA EndsRoles ==
  ASSUME Roles, OrphanStays, NEW c \in Children, Ends(c)
  PROVE  Roles'
<1>1. c \in Processes /\ c # Main
  BY ProcessesAssumption DEF Processes
<1>2. proc' = [proc EXCEPT ![c] = Process("zombie", "closed")]
  BY DEF Ends
<1>3. ProcInv' /\ \A q \in Processes \ {c}: proc'[q] = proc[q]
  BY <1>1, <1>2, GoneEffect DEF Roles
<1>4. MainInv'
  BY <1>1, <1>3 DEF Roles, MainInv, Processes
<1>5. proc[c].child # Null => "orphan" \in meddled'
  BY DEF Ends
<1> QED BY <1>1, <1>2, <1>3, <1>4, <1>5, GoneRoles DEF Roles

\* No step of tkremap or of a copy of it makes a second tip.
LEMMA ThreadRoles ==
  ASSUME VarsOK, Roles, OrphanStays, NEW p \in Processes, Thread(p)
  PROVE  Roles'
<1> USE DEF Roles
<1>1. ASSUME ShowOutput(p) \/ SeeDeath PROVE Roles'
  BY <1>1, UnchangedEffect, RestsRoles DEF ShowOutput, SeeDeath
<1>2. ASSUME ReadKey(p) PROVE Roles'
  BY <1>2, ReadKeyEffect, RestsRoles, ActsRoles
<1>3. ASSUME SeeHangup(p) PROVE Roles'
  BY <1>3, SeeHangupEffect, ActsRoles
<1>4. ASSUME WaitProgram(p) PROVE Roles'
  <2>1. CASE p = Main
    BY <1>4, <2>1, UnchangedEffect, RestsRoles DEF WaitProgram
  <2>2. CASE p # Main
    BY <1>4, <2>2, EndsRoles DEF WaitProgram, Processes
  <2> QED BY <2>1, <2>2
<1>5. ASSUME SetMode(p) PROVE Roles'
  BY <1>5, SetModeEffect, RestsRoles, ActsRoles
<1>6. ASSUME RestoreMode(p) PROVE Roles'
  BY <1>6, RestoreModeEffect, ActsRoles
<1>7. ASSUME StopProgram(p) PROVE Roles'
  BY <1>7, StopProgramEffect, ActsRoles
<1>8. ASSUME ContinueProgram(p) PROVE Roles'
  BY <1>8, ContinueProgramEffect, ActsRoles
<1>9. ASSUME SignalProgram(p) PROVE Roles'
  BY <1>9, SignalProgramEffect, ActsRoles
<1>10. ASSUME StopSelf(p) PROVE Roles'
  BY <1>10, StopSelfEffect, ActsRoles
<1>11. ASSUME RedrawMethod(p) PROVE Roles'
  BY <1>11, RedrawMethodEffect, ActsRoles
<1>12. ASSUME AskCursor(p) PROVE Roles'
  BY <1>12, AskCursorEffect, ActsRoles
<1>13. ASSUME Read3(p) PROVE Roles'
  BY <1>13, Read3Effect, ActsRoles
<1>14. ASSUME ReadTo(p, "read_row", "semi") PROVE Roles'
  BY <1>14, ReadRowEffect, RestsRoles, ActsRoles
<1>15. ASSUME ReadTo(p, "read_column", "R") PROVE Roles'
  BY <1>15, ReadColumnEffect, RestsRoles, ActsRoles
<1>16. ASSUME ResetMode(p) PROVE Roles'
  BY <1>16, ResetModeEffect, ActsRoles
<1>17. ASSUME Confirm(p) PROVE Roles'
  BY <1>17, ConfirmEffect, RestsRoles, ActsRoles
<1>18. ASSUME ReadLine(p) PROVE Roles'
  BY <1>18, ReadLineEffect, RestsRoles, ActsRoles
<1>19. ASSUME Redraw(p) PROVE Roles'
  BY <1>19, RedrawEffect, ActsRoles
<1>20. ASSUME GetSize(p) PROVE Roles'
  BY <1>20, GetSizeEffect, ActsRoles
<1>21. ASSUME Narrow(p) PROVE Roles'
  BY <1>21, NarrowEffect, ActsRoles
<1>22. ASSUME Widen(p) PROVE Roles'
  BY <1>22, WidenEffect, ActsRoles
<1>23. ASSUME Write(p) PROVE Roles'
  BY <1>23, WriteEffect, RestsRoles, ActsRoles
<1>24. ASSUME WriteAgain(p) PROVE Roles'
  BY <1>24, WriteAgainEffect, RestsRoles
<1>25. ASSUME GiveUp(p) PROVE Roles'
  BY <1>25, GiveUpEffect, ActsRoles
<1>26. ASSUME Fork(p) PROVE Roles'
  BY <1>26, ForkEffect, ForkRoles
<1>27. ASSUME ForkFails(p) PROVE Roles'
  BY <1>27, ForkFailsEffect, ActsRoles
<1>28. ASSUME Wait(p) PROVE Roles'
  BY <1>28, WaitEffect, WaitRoles
<1>29. ASSUME Winch(p) PROVE Roles'
  BY <1>29, WinchEffect, RestsRoles
<1> QED BY <1>1, <1>2, <1>3, <1>4, <1>5, <1>6, <1>7, <1>8, <1>9, <1>10, <1>11, <1>12, <1>13,
          <1>14, <1>15, <1>16, <1>17, <1>18, <1>19, <1>20, <1>21, <1>22, <1>23, <1>24, <1>25, <1>26,
          <1>27, <1>28, <1>29
       DEF Thread, Loop, Call

\* Nor does a step of a child that runs something else,
LEMMA ChildRoles ==
  ASSUME Roles, OrphanStays, NEW c \in Children, Child(c)
  PROVE  Roles'
<1> USE DEF Roles
<1>1. c \in Processes /\ c # Main
  BY ProcessesAssumption DEF Processes
<1>2. ASSUME Exec(c) PROVE Roles'
  <2>1. ProcInv' /\ \A q \in Processes \ {c}: proc'[q] = proc[q]
    BY <1>1, <1>2, ExecEffect
  <2>2. MainInv'
    BY <1>1, <2>1 DEF MainInv, Processes
  <2> QED BY <1>1, <1>2, <2>1, <2>2, ExecRoles, KeptRoles
<1>3. ASSUME UNCHANGED proc PROVE Roles'
  BY <1>3, UnchangedEffect, RestsRoles
<1>4. ASSUME OtherStartsWriting(c) \/ OtherWrites(c) PROVE Roles'
  BY <1>1, <1>4, OtherWritesEffect, RestsRoles
<1>5. ASSUME OtherExits(c) PROVE Roles'
  <2>1. proc' = [proc EXCEPT ![c] = Process("zombie", "closed")]
    BY <1>5 DEF OtherExits
  <2>2. ProcInv' /\ \A q \in Processes \ {c}: proc'[q] = proc[q]
    BY <1>1, <2>1, GoneEffect
  <2>3. MainInv'
    BY <1>1, <2>2 DEF MainInv, Processes
  <2>4. proc[c].child = Null
    BY <1>1, <1>5 DEF OtherExits, Other, ProcInv, Sound, Step
  <2> QED BY <1>1, <2>1, <2>2, <2>3, <2>4, GoneRoles
<1>6. ASSUME CopyExits(c) PROVE Roles'
  BY <1>6, EndsRoles DEF CopyExits
<1> QED BY <1>2, <1>3, <1>4, <1>5, <1>6 DEF Child, OtherReads, OtherSetsMode, OtherSetsNonblock

\* nor anything around them.
LEMMA EnvironmentRoles ==
  ASSUME Roles, OrphanStays, Environment
  PROVE  Roles'
<1> USE DEF Roles
<1>1. ASSUME UNCHANGED proc PROVE Roles'
  BY <1>1, UnchangedEffect, RestsRoles
<1>2. ASSUME NEW fg \in BOOLEAN, ShellContinues(fg) PROVE Roles'
  BY <1>2, ShellContinuesEffect, RestsRoles
<1> QED BY <1>1, <1>2 DEF Environment, ProgramReads, ProgramStartsWriting, ProgramWrites, ProgramDies,
          ProgramHungUp, Dies, Type, TerminalAnswers, Resize, HangUp

-----------------------------------------------------------------------------
(* The mode, the program, the size and the answer: what steps leave alone. *)

\* Nobody gets to one of these steps or past it.
Untouched(steps) ==
  \A q \in Processes:
    At(q) \in steps \/ At(q)' \in steps => At(q)' = At(q) /\ proc'[q].old = proc[q].old

Remains(what) == what \in meddled => what \in meddled'

\* A step of something else starts and ends no command.
LEMMA RestsUntouched ==
  ASSUME NEW steps, Rests
  PROVE  Untouched(steps)
BY DEF Rests, Untouched

\* A step of a process outside of `steps' that stays outside brings nobody into them or
\* out of them.
LEMMA ActsUntouched ==
  ASSUME NEW p \in Processes, NEW next, NEW o, Acts(p, next, o),
         NEW steps, At(p) \notin steps, next \cap steps = {}
  PROVE  Untouched(steps)
<1> SUFFICES ASSUME NEW q \in Processes, At(q) \in steps \/ At(q)' \in steps
             PROVE  At(q)' = At(q) /\ proc'[q].old = proc[q].old
  BY DEF Untouched
<1>1. q # p
  BY DEF Acts
<1>2. proc'[q] = proc[q]
  BY <1>1 DEF Acts
<1> QED BY <1>2 DEF At

\* The mode is the same and whoever was going to set it still is.
LEMMA ModeKept ==
  ASSUME ModeInv, mode' = mode, Remains("mode"),
         \A q \in Processes: At(q) \in Setting => At(q)' \in Setting
  PROVE  ModeInv'
BY DEF ModeInv, Remains

\* What keeps the halting of the program accounted for,
LEMMA HaltKept ==
  ASSUME HaltInv, halted' = halted, Remains("stop"),
         \A q \in Processes: At(q) \in Halting => At(q)' \in Halting
  PROVE  HaltInv'
BY DEF HaltInv, Remains

\* what keeps the size of the pty right,
LEMMA SizeKept ==
  ASSUME SizeInv, NarrowInv, ptysize' = ptysize, size' = size, hup => hup',
         Remains("size"), OrphanStays, Main \in winch => Main \in winch', Untouched(Sizing)
  PROVE  SizeInv' /\ NarrowInv'
<1>1. NarrowInv'
  BY DEF NarrowInv, Remains, OrphanStays, Untouched, Sizing
<1>2. SizeInv'
  <2> SUFFICES ASSUME ~hup', "orphan" \notin meddled', Main \notin winch', "size" \notin meddled'
               PROVE  /\ \A p \in Processes: At(p)' \in Sizing => proc'[p].old = FullSize(size')
                      /\ (\A p \in Processes: At(p)' # "widen") => ptysize' = FullSize(size')
    BY DEF SizeInv, FullSize
  <2>1. /\ \A p \in Processes: At(p) \in Sizing => proc[p].old = FullSize(size)
        /\ (\A p \in Processes: At(p) # "widen") => ptysize = FullSize(size)
    BY DEF SizeInv, Remains, OrphanStays
  <2>2. \A p \in Processes: At(p)' \in Sizing => proc'[p].old = FullSize(size')
    BY <2>1 DEF Untouched
  <2>3. ASSUME \A p \in Processes: At(p)' # "widen" PROVE ptysize' = FullSize(size')
    BY <2>1, <2>3 DEF Untouched, Sizing
  <2> QED BY <2>2, <2>3
<1> QED BY <1>1, <1>2

\* and what keeps the terminal's answer expected.
LEMMA AnswerKept ==
  ASSUME AnswerInv, stdin' = stdin, asked' = asked, typed' = typed, hup => hup',
         Remains("answer"), OrphanStays, Untouched(Answering)
  PROVE  AnswerInv'
<1> SUFFICES ASSUME ~hup', {"answer", "orphan"} \cap meddled' = {}, ~({"semi", "R"} \subseteq typed)
             PROVE  /\ \A p \in Processes: Asking(p)' => Expects(p)'
                    /\ (\A p \in Processes: ~Asking(p)') => asked' = 0 /\ AllPlain'
  BY DEF AnswerInv
<1>1. /\ \A p \in Processes: Asking(p) => Expects(p)
      /\ (\A p \in Processes: ~Asking(p)) => asked = 0 /\ AllPlain
  BY DEF AnswerInv, Remains, OrphanStays
<1>2. AllPlain' <=> AllPlain
  BY DEF AllPlain, Plain
<1>3. \A e: AnswerEndsAt(e)' <=> AnswerEndsAt(e)
  BY DEF AnswerEndsAt, Plain
<1>4. \A p \in Processes: (Asking(p) <=> Asking(p)') /\ (Asking(p) => At(p)' = At(p))
  BY DEF Untouched, Asking
<1>5. ASSUME NEW p \in Processes, Asking(p)' PROVE Expects(p)'
  <2>1. Expects(p) /\ At(p)' = At(p)
    BY <1>1, <1>4, <1>5
  <2> QED BY <1>2, <1>3, <2>1 DEF Expects
<1>6. ASSUME \A p \in Processes: ~Asking(p)' PROVE asked' = 0 /\ AllPlain'
  BY <1>1, <1>2, <1>4, <1>6
<1> QED BY <1>5, <1>6

Minds == ModeInv /\ HaltInv /\ SizeInv /\ NarrowInv /\ AnswerInv
Busy == Setting \cup Halting \cup Sizing

\* A step that touches no command and none of the shared state changes none of it.
LEMMA MindsKept ==
  ASSUME Minds, OrphanStays, Untouched(Busy),
         UNCHANGED <<mode, stdin, asked, hup, size, halted, ptysize, winch, meddled, typed>>
  PROVE  Minds'
<1>1. Untouched(Setting) /\ Untouched(Halting) /\ Untouched(Sizing) /\ Untouched(Answering)
  BY DEF Untouched, Busy, Setting
<1>2. Remains("mode") /\ Remains("stop") /\ Remains("size") /\ Remains("answer")
  BY DEF Remains
<1>3. \A q \in Processes: (At(q) \in Setting => At(q)' \in Setting)
                          /\ (At(q) \in Halting => At(q)' \in Halting)
  BY <1>1 DEF Untouched
<1> QED BY <1>1, <1>2, <1>3, ModeKept, HaltKept, SizeKept, AnswerKept DEF Minds

\* Steps between two commands, or that only move the program's input and output.
LEMMA IdleMinds ==
  ASSUME Minds, OrphanStays, NEW p \in Processes, NEW next, NEW o, Acts(p, next, o),
         At(p) \notin Busy, next \cap Busy = {},
         UNCHANGED <<mode, stdin, asked, hup, size, halted, ptysize, winch, meddled, typed>>
  PROVE  Minds'
BY ActsUntouched, MindsKept

\* In particular a step outside of the processes.
LEMMA RestMinds ==
  ASSUME Minds, OrphanStays, Rests,
         UNCHANGED <<mode, stdin, asked, hup, size, halted, ptysize, winch, meddled, typed>>
  PROVE  Minds'
BY RestsUntouched, MindsKept

\* Of the processes that have the terminal one does something.
LEMMA DoersAreTips ==
  ASSUME ProcInv, NEW p \in Processes, At(p) \notin {"loop", "wait"}
  PROVE  Tip(p)
<1>1. Sound(proc[p]) /\ proc[p].is = "tkremap"
  BY DEF ProcInv, At, Step
<1>2. proc[p].stdin = "terminal" /\ proc[p].child = Null
  BY <1>1 DEF Sound, At
<1> QED BY <1>1, <1>2 DEF Tip, Holder, HasTerminal

\* Who reads the terminal is the tip of the chain.
LEMMA ReadersAreTips ==
  ASSUME ProcInv, NEW p \in Processes, ReadsTerminal(p)
  PROVE  Tip(p)
<1>1. Sound(proc[p]) /\ HasTerminal(p) /\ ~proc[p].stopped
  BY DEF ProcInv, ReadsTerminal
<1>2. proc[p].child = Null
  <2>1. CASE Other(p)
    BY <1>1, <2>1 DEF Other, Sound, Step
  <2>2. CASE Tkremap(p) /\ ~Does(p, "wait")
    BY <1>1, <2>2 DEF Does, Sound, Step, Tkremap
  <2> QED BY <2>1, <2>2 DEF ReadsTerminal
<1> QED BY <1>1, <1>2 DEF Tip, Holder, ReadsTerminal, Other, Tkremap

\* While one process has the terminal and does something, no other asks for the
\* cursor or refreshes the window.
LEMMA OthersAreIdle ==
  ASSUME ProcInv, TipInv, "orphan" \notin meddled,
         NEW p \in Processes, Tip(p), NEW q \in Processes, q # p
  PROVE  At(q) \in {"loop", "wait"}
BY DoersAreTips DEF TipInv

-----------------------------------------------------------------------------
(* The steps that none of them is about. *)

\* Steps that change nothing which a command has to undo.
LEMMA IdleSteps ==
  Busy \cap {"loop", "stop_program", "restore_mode", "confirm", "get_size", "redraw", "redraw_method",
             "signal", "write", "fork", "wait", "wait_program"} = {}
BY DEF Busy, Setting, Answering, Halting, Sizing

\* Such steps of tkremap keep all that is recorded of mode, size, halting and answer.
LEMMA IdleThreadMinds ==
  ASSUME VarsOK, Roles, Minds, OrphanStays, NEW p \in Processes,
         \/ ShowOutput(p) \/ SeeHangup(p) \/ SeeDeath \/ RedrawMethod(p) \/ Redraw(p)
         \/ Write(p) \/ WriteAgain(p) \/ GiveUp(p) \/ Fork(p) \/ ForkFails(p) \/ Wait(p)
  PROVE  Minds'
<1> USE DEF Roles
<1>1. UNCHANGED <<mode, stdin, asked, hup, size, halted, ptysize, winch, meddled, typed>>
  BY DEF ShowOutput, SeeHangup, SeeDeath, RedrawMethod, Redraw, Write, WriteAgain, GiveUp, Fork,
         ForkFails, Wait, terminal, pty
<1>2. CASE ShowOutput(p) \/ SeeDeath
  BY <1>1, <1>2, UnchangedEffect, RestMinds DEF ShowOutput, SeeDeath
<1>3. CASE SeeHangup(p)
  BY <1>1, <1>3, SeeHangupEffect, IdleMinds, IdleSteps
<1>4. CASE RedrawMethod(p)
  BY <1>1, <1>4, RedrawMethodEffect, IdleMinds, IdleSteps
<1>5. CASE Redraw(p)
  BY <1>1, <1>5, RedrawEffect, IdleMinds, IdleSteps
<1>6. CASE Write(p)
  BY <1>1, <1>6, WriteEffect, RestMinds, IdleMinds, IdleSteps
<1>7. CASE WriteAgain(p)
  BY <1>1, <1>7, WriteAgainEffect, RestMinds
<1>8. CASE GiveUp(p)
  BY <1>1, <1>8, GiveUpEffect, IdleMinds, IdleSteps
<1>9. CASE Fork(p)
  <2>1. PICK c \in Children:
          /\ proc[c].is = "none"
          /\ \A q \in Processes \ {p, c}: proc'[q] = proc[q]
          /\ At(c)' = "loop"
          /\ At(p) = "fork" /\ At(p)' \in {"write", "loop", "wait"}
    BY <1>9, ForkEffect
  <2>2. At(c) = "loop"
    BY <2>1 DEF At, Step
  <2>3. ASSUME NEW q \in Processes, At(q) \in Busy \/ At(q)' \in Busy
        PROVE  At(q)' = At(q) /\ proc'[q].old = proc[q].old
    <3>1. q # p /\ q # c
      BY <2>1, <2>2, <2>3, IdleSteps
    <3>2. proc'[q] = proc[q]
      BY <2>1, <3>1
    <3> QED BY <3>2 DEF At
  <2>4. Untouched(Busy)
    BY <2>3 DEF Untouched
  <2> QED BY <1>1, <2>4, MindsKept
<1>10. CASE ForkFails(p)
  BY <1>1, <1>10, ForkFailsEffect, IdleMinds, IdleSteps
<1>11. CASE Wait(p)
  <2>1. PICK c \in Children: c = proc[p].child
    BY <1>11, WaitEffect
  <2>2. /\ Step(proc[c]) = "loop" /\ Step(proc'[c]) = "loop"
        /\ \A q \in Processes \ {p, c}: proc'[q] = proc[q]
        /\ At(p) = "wait" /\ At(p)' \in {"write", "loop"}
    BY <1>11, <2>1, WaitEffect DEF At
  <2>3. ASSUME NEW q \in Processes, At(q) \in Busy \/ At(q)' \in Busy
        PROVE  At(q)' = At(q) /\ proc'[q].old = proc[q].old
    <3>1. q # p /\ q # c
      BY <2>2, <2>3, IdleSteps DEF At
    <3>2. proc'[q] = proc[q]
      BY <2>2, <3>1
    <3> QED BY <3>2 DEF At
  <2>4. Untouched(Busy)
    BY <2>3 DEF Untouched
  <2> QED BY <1>1, <2>4, MindsKept
<1> QED BY <1>2, <1>3, <1>4, <1>5, <1>6, <1>7, <1>8, <1>9, <1>10, <1>11

\* So do those of a child that runs something else,
LEMMA IdleChildMinds ==
  ASSUME Roles, Minds, OrphanStays, NEW c \in Children,
         Exec(c) \/ OtherSetsNonblock(c) \/ OtherStartsWriting(c) \/ OtherWrites(c) \/ OtherExits(c)
  PROVE  Minds'
<1> USE DEF Roles
<1>1. UNCHANGED <<mode, stdin, asked, hup, size, halted, ptysize, winch, meddled, typed>>
  BY DEF Exec, OtherSetsNonblock, OtherStartsWriting, OtherWrites, OtherExits, terminal, pty
<1>2. c \in Processes
  BY DEF Processes
<1>3. CASE OtherSetsNonblock(c)
  BY <1>1, <1>3, UnchangedEffect, RestMinds DEF OtherSetsNonblock
<1>4. CASE OtherStartsWriting(c) \/ OtherWrites(c)
  BY <1>1, <1>2, <1>4, OtherWritesEffect, RestMinds
<1>5. CASE Exec(c) \/ OtherExits(c)
  <2>1. /\ At(c) = "loop" /\ At(c)' = "loop"
        /\ \A q \in Processes \ {c}: proc'[q] = proc[q]
    <3>1. CASE Exec(c)
      BY <1>2, <3>1, ExecEffect
    <3>2. CASE OtherExits(c)
      <4>1. /\ proc'[c] = Process("zombie", "closed")
            /\ \A q \in Processes \ {c}: proc'[q] = proc[q]
        BY <1>2, <3>2, GoneEffect DEF OtherExits
      <4> QED BY <3>2, <4>1, SoundProcess DEF At, Step, OtherExits, Other
    <3> QED BY <1>5, <3>1, <3>2
  <2>2. ASSUME NEW q \in Processes, At(q) \in Busy \/ At(q)' \in Busy
        PROVE  At(q)' = At(q) /\ proc'[q].old = proc[q].old
    <3>1. q # c
      BY <2>1, <2>2, IdleSteps
    <3>2. proc'[q] = proc[q]
      BY <2>1, <3>1
    <3> QED BY <3>2 DEF At
  <2>3. Untouched(Busy)
    BY <2>2 DEF Untouched
  <2> QED BY <1>1, <2>3, MindsKept
<1> QED BY <1>3, <1>4, <1>5

\* of the program, and of the shell that continues tkremap.
LEMMA IdleEnvironmentMinds ==
  ASSUME Roles, Minds, OrphanStays,
         ProgramReads \/ ProgramStartsWriting \/ ProgramWrites \/ \E fg \in BOOLEAN: ShellContinues(fg)
  PROVE  Minds'
<1> USE DEF Roles
<1>1. UNCHANGED <<mode, stdin, asked, hup, size, halted, ptysize, winch, meddled, typed>>
  BY DEF ProgramReads, ProgramStartsWriting, ProgramWrites, ShellContinues, terminal, pty
<1>2. CASE UNCHANGED proc
  BY <1>1, <1>2, UnchangedEffect, RestMinds
<1>3. CASE \E fg \in BOOLEAN: ShellContinues(fg)
  BY <1>1, <1>3, ShellContinuesEffect, RestMinds
<1> QED BY <1>2, <1>3 DEF ProgramReads, ProgramStartsWriting, ProgramWrites

-----------------------------------------------------------------------------
(* The steps that set the mode, and stop and continue the program. *)

\* Setting the mode makes it right, or stops the process that sets it.
LEMMA SetModeMinds ==
  ASSUME Roles, Minds, OrphanStays, NEW p \in Processes, SetMode(p)
  PROVE  Minds'
<1> USE DEF Roles
<1>1. UNCHANGED <<stdin, asked, hup, size, halted, ptysize, winch, typed>>
  BY DEF SetMode, pty
<1>2. CASE foreground
  <2>1. mode' = "input" /\ meddled' = meddled \ {"mode"}
    BY <1>2 DEF SetMode
  <2>2. Remains("stop") /\ Remains("size") /\ Remains("answer")
    BY <2>1 DEF Remains
  <2>3. ModeInv'
    BY <2>1 DEF ModeInv
  <2>4. At(p) = "set_mode" /\ Acts(p, {"confirm", "redraw", "write", "loop"}, proc[p].old)
    BY <1>2, SetModeEffect
  <2>5. Untouched(Halting) /\ Untouched(Sizing) /\ Untouched(Answering)
    <3>1. /\ At(p) \notin Halting /\ At(p) \notin Sizing /\ At(p) \notin Answering
          /\ {"confirm", "redraw", "write", "loop"} \cap Halting = {}
          /\ {"confirm", "redraw", "write", "loop"} \cap Sizing = {}
          /\ {"confirm", "redraw", "write", "loop"} \cap Answering = {}
      BY <2>4 DEF Halting, Sizing, Answering
    <3> QED BY <2>4, <3>1, ActsUntouched
  <2>6. \A q \in Processes: At(q) \in Halting => At(q)' \in Halting
    BY <2>5 DEF Untouched
  <2> QED BY <1>1, <2>2, <2>3, <2>5, <2>6, HaltKept, SizeKept, AnswerKept DEF Minds
<1>3. CASE ~foreground
  <2>1. UNCHANGED <<mode, meddled>>
    BY <1>3 DEF SetMode
  <2> QED BY <1>1, <1>3, <2>1, SetModeEffect, RestMinds
<1> QED BY <1>2, <1>3

\* Whoever has got on is still among these steps.
LEMMA ActsStay ==
  ASSUME NEW p \in Processes, NEW next, NEW o, Acts(p, next, o),
         NEW steps, At(p) \in steps => next \subseteq steps
  PROVE  \A q \in Processes: At(q) \in steps => At(q)' \in steps
<1> SUFFICES ASSUME NEW q \in Processes, At(q) \in steps PROVE At(q)' \in steps
  OBVIOUS
<1>1. CASE q = p
  BY <1>1 DEF Acts
<1>2. CASE q # p
  <2>1. proc'[q] = proc[q]
    BY <1>2 DEF Acts
  <2> QED BY <2>1 DEF At
<1> QED BY <1>1, <1>2

\* restore_terminal() is followed by the step that sets the mode again.
LEMMA RestoreModeMinds ==
  ASSUME Roles, Minds, OrphanStays, NEW p \in Processes, RestoreMode(p)
  PROVE  Minds'
<1> USE DEF Roles
<1>1. UNCHANGED <<stdin, asked, hup, size, halted, ptysize, winch, meddled, typed>>
  BY DEF RestoreMode, pty
<1>2. At(p) = "restore_mode" /\ Acts(p, {"ask"}, proc[p].old)
  BY RestoreModeEffect
<1>3. ModeInv'
  <2>1. At(p)' \in Setting
    BY <1>2 DEF Acts, Setting
  <2> QED BY <2>1 DEF ModeInv
<1>4. Untouched(Halting) /\ Untouched(Sizing) /\ Untouched(Answering)
  <2>1. /\ At(p) \notin Halting /\ At(p) \notin Sizing /\ At(p) \notin Answering
        /\ {"ask"} \cap Halting = {} /\ {"ask"} \cap Sizing = {} /\ {"ask"} \cap Answering = {}
    BY <1>2 DEF Halting, Sizing, Answering
  <2> QED BY <1>2, <2>1, ActsUntouched
<1>5. \A q \in Processes: At(q) \in Halting => At(q)' \in Halting
  BY <1>4 DEF Untouched
<1>6. Remains("stop") /\ Remains("size") /\ Remains("answer")
  BY <1>1 DEF Remains
<1> QED BY <1>1, <1>3, <1>4, <1>5, <1>6, HaltKept, SizeKept, AnswerKept DEF Minds

\* suspend halts the program: the step that continues it is ahead.
LEMMA StopProgramMinds ==
  ASSUME Roles, Minds, OrphanStays, NEW p \in Processes, StopProgram(p)
  PROVE  Minds'
<1> USE DEF Roles
<1>1. UNCHANGED <<mode, stdin, asked, hup, size, ptysize, winch, meddled, typed>>
  BY DEF StopProgram, terminal
<1>2. At(p) = "stop_program" /\ Acts(p, {"stop_self"}, proc[p].old)
  BY StopProgramEffect
<1>3. HaltInv'
  <2>1. At(p)' \in Halting
    BY <1>2 DEF Acts, Halting
  <2> QED BY <2>1 DEF HaltInv
<1>4. Untouched(Setting) /\ Untouched(Sizing) /\ Untouched(Answering)
  <2>1. /\ At(p) \notin Setting /\ At(p) \notin Sizing /\ At(p) \notin Answering
        /\ {"stop_self"} \cap Setting = {} /\ {"stop_self"} \cap Sizing = {}
        /\ {"stop_self"} \cap Answering = {}
    BY <1>2 DEF Setting, Sizing, Answering
  <2> QED BY <1>2, <2>1, ActsUntouched
<1>5. \A q \in Processes: At(q) \in Setting => At(q)' \in Setting
  BY <1>4 DEF Untouched
<1>6. Remains("mode") /\ Remains("size") /\ Remains("answer")
  BY <1>1 DEF Remains
<1> QED BY <1>1, <1>3, <1>4, <1>5, <1>6, ModeKept, SizeKept, AnswerKept DEF Minds

\* The program continues when suspend does.
LEMMA ContinueProgramMinds ==
  ASSUME Roles, Minds, OrphanStays, NEW p \in Processes, ContinueProgram(p)
  PROVE  Minds'
<1> USE DEF Roles
<1>1. UNCHANGED <<mode, stdin, asked, hup, size, ptysize, winch, typed>>
      /\ halted' = FALSE /\ meddled' = meddled \ {"stop"}
  BY DEF ContinueProgram, Halt, terminal
<1>2. At(p) = "continue_program" /\ Acts(p, {"set_mode"}, proc[p].old)
  BY ContinueProgramEffect
<1>3. HaltInv'
  BY <1>1 DEF HaltInv
<1>4. Untouched(Sizing) /\ Untouched(Answering)
  <2>1. /\ At(p) \notin Sizing /\ At(p) \notin Answering
        /\ {"set_mode"} \cap Sizing = {} /\ {"set_mode"} \cap Answering = {}
    BY <1>2 DEF Sizing, Answering
  <2> QED BY <1>2, <2>1, ActsUntouched
<1>5. \A q \in Processes: At(q) \in Setting => At(q)' \in Setting
  <2>1. {"set_mode"} \subseteq Setting
    BY DEF Setting
  <2> QED BY <1>2, <2>1, ActsStay
<1>6. Remains("mode") /\ Remains("size") /\ Remains("answer")
  BY <1>1 DEF Remains
<1> QED BY <1>1, <1>3, <1>4, <1>5, <1>6, ModeKept, SizeKept, AnswerKept DEF Minds

\* signal may stop the program, and is then recorded.
LEMMA SignalProgramMinds ==
  ASSUME Roles, Minds, OrphanStays, NEW p \in Processes, SignalProgram(p)
  PROVE  Minds'
<1> USE DEF Roles
<1>1. UNCHANGED <<mode, stdin, asked, hup, size, ptysize, winch, typed>>
  BY DEF SignalProgram, terminal
<1>2. At(p) = "signal" /\ Acts(p, {"write", "loop"}, proc[p].old)
  BY SignalProgramEffect
<1>3. HaltInv'
  BY DEF HaltInv, SignalProgram, Halt
<1>4. Untouched(Setting) /\ Untouched(Sizing) /\ Untouched(Answering)
  <2>1. /\ At(p) \notin Setting /\ At(p) \notin Sizing /\ At(p) \notin Answering
        /\ {"write", "loop"} \cap Setting = {} /\ {"write", "loop"} \cap Sizing = {}
        /\ {"write", "loop"} \cap Answering = {}
    BY <1>2 DEF Setting, Sizing, Answering
  <2> QED BY <1>2, <2>1, ActsUntouched
<1>5. \A q \in Processes: At(q) \in Setting => At(q)' \in Setting
  BY <1>4 DEF Untouched
<1>6. Remains("mode") /\ Remains("size") /\ Remains("answer")
  BY DEF Remains, SignalProgram
<1> QED BY <1>1, <1>3, <1>4, <1>5, <1>6, ModeKept, SizeKept, AnswerKept DEF Minds

\* suspend stops itself with the program halted and the mode restored, both to be undone.
LEMMA StopSelfMinds ==
  ASSUME VarsOK, Roles, Minds, OrphanStays, NEW p \in Processes, StopSelf(p)
  PROVE  Minds'
<1> USE DEF Roles
<1>1. UNCHANGED <<stdin, asked, hup, size, halted, ptysize, winch, meddled, typed>>
  BY DEF StopSelf, pty
<1>2. At(p) = "stop_self" /\ Acts(p, {"continue_program"}, proc[p].old)
  BY StopSelfEffect
<1>3. ModeInv'
  <2>1. At(p)' \in Setting
    BY <1>2 DEF Acts, Setting
  <2> QED BY <2>1 DEF ModeInv
<1>4. Untouched(Sizing) /\ Untouched(Answering)
  <2>1. /\ At(p) \notin Sizing /\ At(p) \notin Answering
        /\ {"continue_program"} \cap Sizing = {} /\ {"continue_program"} \cap Answering = {}
    BY <1>2 DEF Sizing, Answering
  <2> QED BY <1>2, <2>1, ActsUntouched
<1>5. \A q \in Processes: At(q) \in Halting => At(q)' \in Halting
  <2>1. {"continue_program"} \subseteq Halting
    BY DEF Halting
  <2> QED BY <1>2, <2>1, ActsStay
<1>6. Remains("stop") /\ Remains("size") /\ Remains("answer")
  BY <1>1 DEF Remains
<1> QED BY <1>1, <1>3, <1>4, <1>5, <1>6, HaltKept, SizeKept, AnswerKept DEF Minds

\* A child that has the terminal sets its mode.
LEMMA OtherSetsModeMinds ==
  ASSUME Roles, Minds, OrphanStays, NEW c \in Children, OtherSetsMode(c)
  PROVE  Minds'
<1> USE DEF Roles
<1>1. UNCHANGED <<stdin, asked, hup, size, halted, ptysize, winch, typed>>
      /\ UNCHANGED proc /\ meddled' = meddled \cup {"mode"}
  BY DEF OtherSetsMode, pty
<1>2. ModeInv'
  BY <1>1 DEF ModeInv
<1>3. Untouched(Halting) /\ Untouched(Sizing) /\ Untouched(Answering)
  BY <1>1, UnchangedEffect, RestsUntouched
<1>4. \A q \in Processes: At(q) \in Halting => At(q)' \in Halting
  BY <1>3 DEF Untouched
<1>5. Remains("stop") /\ Remains("size") /\ Remains("answer")
  BY <1>1 DEF Remains
<1> QED BY <1>1, <1>2, <1>3, <1>4, <1>5, HaltKept, SizeKept, AnswerKept DEF Minds

\* The program ends.
LEMMA DiesMinds ==
  ASSUME Roles, Minds, OrphanStays, Dies
  PROVE  Minds'
<1> USE DEF Roles
<1>1. UNCHANGED <<mode, stdin, asked, hup, size, ptysize, winch, meddled, typed>>
      /\ UNCHANGED proc /\ halted' = FALSE
  BY DEF Dies, terminal
<1>2. HaltInv'
  BY <1>1 DEF HaltInv
<1>3. Untouched(Setting) /\ Untouched(Sizing) /\ Untouched(Answering)
  BY <1>1, UnchangedEffect, RestsUntouched
<1>4. \A q \in Processes: At(q) \in Setting => At(q)' \in Setting
  BY <1>3 DEF Untouched
<1>5. Remains("mode") /\ Remains("size") /\ Remains("answer")
  BY <1>1 DEF Remains
<1> QED BY <1>1, <1>2, <1>3, <1>4, <1>5, ModeKept, SizeKept, AnswerKept DEF Minds

\* What a process that ends in the middle of a command leaves behind is known.
LEMMA EndsMinds ==
  ASSUME VarsOK, Roles, Minds, OrphanStays, NEW c \in Children, Ends(c),
         UNCHANGED <<stdin, asked, hup, size, halted, ptysize, winch, typed>>
  PROVE  Minds'
<1> USE DEF Roles
<1>1. c \in Processes
  BY DEF Processes
<1>2. Sound(proc[c])
  BY <1>1 DEF ProcInv
<1>3. /\ mode' = IF HasTerminal(c) THEN "restore" ELSE mode
      /\ HasTerminal(c) => "mode" \in meddled'
      /\ halted => "stop" \in meddled'
      /\ ptysize.narrow => "size" \in meddled'
      /\ proc[c].old # Null => "answer" \in meddled'
      /\ meddled \subseteq meddled'
  BY DEF Ends
<1>4. Remains("mode") /\ Remains("stop") /\ Remains("size") /\ Remains("answer")
  BY <1>3 DEF Remains
<1>5. At(c)' = "loop" /\ \A q \in Processes \ {c}: proc'[q] = proc[q]
  <2>1. /\ proc'[c] = Process("zombie", "closed")
        /\ \A q \in Processes \ {c}: proc'[q] = proc[q]
    BY <1>1, GoneEffect DEF Ends
  <2> QED BY <2>1, SoundProcess DEF At
<1>6. \A q \in Processes: q # c => At(q)' = At(q) /\ proc'[q].old = proc[q].old
  BY <1>5 DEF At
<1>7. ModeInv'
  <2>1. CASE HasTerminal(c)
    BY <1>3, <2>1 DEF ModeInv
  <2>2. CASE ~HasTerminal(c)
    <3>1. At(c) = "loop"
      BY <1>2, <2>2 DEF Sound, At, HasTerminal
    <3>2. At(c) \notin Setting
      BY <3>1, IdleSteps DEF Busy
    <3> QED BY <1>3, <1>4, <1>6, <2>2, <3>2, ModeKept DEF Minds
  <2> QED BY <2>1, <2>2
<1>8. HaltInv'
  BY <1>3 DEF HaltInv
<1>9. SizeInv' /\ NarrowInv'
  <2>1. CASE At(c) \in Sizing /\ ptysize.narrow
    BY <1>3, <2>1 DEF SizeInv, NarrowInv
  <2>2. CASE At(c) \notin Sizing
    <3>1. "loop" \notin Sizing
      BY DEF Sizing
    <3>2. Untouched(Sizing)
      BY <1>5, <1>6, <2>2, <3>1 DEF Untouched
    <3> QED BY <1>4, <3>2, SizeKept DEF Minds
  <2>3. CASE At(c) \in Sizing /\ ~ptysize.narrow
    <3>1. CASE "orphan" \in meddled' \/ "size" \in meddled'
      BY <3>1 DEF SizeInv, NarrowInv
    <3>2. CASE "orphan" \notin meddled' /\ "size" \notin meddled'
      <4>1. "orphan" \notin meddled /\ "size" \notin meddled
        BY <1>3, <3>2
      <4>2. At(c) # "widen" /\ At(c)' # "widen"
        BY <1>1, <1>5, <2>3, <4>1 DEF Minds, NarrowInv
      <4>3. NarrowInv'
        BY <1>6, <4>1, <4>2 DEF Minds, NarrowInv
      <4>4. (\A q \in Processes: At(q)' # "widen") => \A q \in Processes: At(q) # "widen"
        BY <1>6, <4>2
      <4>5. ASSUME NEW q \in Processes, At(q)' \in Sizing
            PROVE  At(q) \in Sizing /\ proc'[q].old = proc[q].old
        BY <1>5, <1>6, <4>5 DEF Sizing
      <4>6. CASE hup \/ Main \in winch
        BY <4>3, <4>6 DEF SizeInv
      <4>7. CASE ~hup /\ Main \notin winch
        <5>1. /\ \A q \in Processes: At(q) \in Sizing => proc[q].old = FullSize(size)
              /\ (\A q \in Processes: At(q) # "widen") => ptysize = FullSize(size)
          BY <4>1, <4>7 DEF Minds, SizeInv
        <5>2. FullSize(size)' = FullSize(size)
          BY DEF FullSize
        <5> QED BY <4>3, <4>4, <4>5, <5>1, <5>2 DEF SizeInv
      <4> QED BY <4>6, <4>7
    <3> QED BY <3>1, <3>2
  <2> QED BY <2>1, <2>2, <2>3
<1>10. AnswerInv'
  <2>1. CASE At(c) \in Answering
    <3>1. proc[c].old \in Modes
      BY <1>2, <2>1 DEF Sound, At, Answering
    <3>2. proc[c].old # Null
      BY <3>1, NullAssumption DEF Modes
    <3> QED BY <1>3, <3>2 DEF AnswerInv
  <2>2. CASE At(c) \notin Answering
    <3>1. "loop" \notin Answering
      BY DEF Answering
    <3>2. Untouched(Answering)
      BY <1>5, <1>6, <2>2, <3>1 DEF Untouched
    <3> QED BY <1>4, <3>2, AnswerKept DEF Minds
  <2> QED BY <2>1, <2>2
<1> QED BY <1>7, <1>8, <1>9, <1>10 DEF Minds

\* tkremap itself exits; a copy of it cleans up and what it leaves undone is recorded.
LEMMA WaitProgramMinds ==
  ASSUME VarsOK, Roles, Minds, OrphanStays, NEW p \in Processes, WaitProgram(p)
  PROVE  Minds'
<1>1. UNCHANGED <<stdin, asked, hup, size, halted, ptysize, winch, typed>>
  BY DEF WaitProgram, pty
<1>2. CASE p = Main
  BY <1>1, <1>2, UnchangedEffect, RestMinds DEF WaitProgram, Roles
<1>3. CASE p # Main
  BY <1>1, <1>3, EndsMinds DEF WaitProgram, Processes
<1> QED BY <1>2, <1>3

-----------------------------------------------------------------------------
(* The steps that change the size. *)

\* What has been saved is the size of the terminal, as nobody else refreshes.
LEMMA GetSizeMinds ==
  ASSUME VarsOK, Roles, Minds, OrphanStays, NEW p \in Processes, GetSize(p)
  PROVE  Minds'
<1> USE DEF Roles
<1>1. UNCHANGED <<mode, stdin, asked, hup, size, halted, ptysize, winch, meddled, typed>>
  BY DEF GetSize, terminal, pty
<1>2. At(p) = "get_size" /\ Acts(p, {"narrow"}, ptysize)
  BY GetSizeEffect
<1>3. At(p)' = "narrow" /\ proc'[p].old = ptysize
      /\ \A q \in Processes: q # p => At(q)' = At(q) /\ proc'[q].old = proc[q].old
  <2>1. \A q \in Processes: q # p => proc'[q] = proc[q]
    BY <1>2 DEF Acts
  <2> QED BY <1>2, <2>1 DEF Acts, At
<1>4. Untouched(Setting) /\ Untouched(Halting) /\ Untouched(Answering)
  <2>1. /\ At(p) \notin Setting /\ At(p) \notin Halting /\ At(p) \notin Answering
        /\ {"narrow"} \cap Setting = {} /\ {"narrow"} \cap Halting = {}
        /\ {"narrow"} \cap Answering = {}
    BY <1>2 DEF Setting, Halting, Answering
  <2> QED BY <1>2, <2>1, ActsUntouched
<1>5. NarrowInv'
  BY <1>1, <1>3 DEF Minds, NarrowInv
<1>6. SizeInv'
  <2> SUFFICES ASSUME ~hup, "orphan" \notin meddled, Main \notin winch, "size" \notin meddled
               PROVE  /\ \A q \in Processes: At(q)' \in Sizing => proc'[q].old = FullSize(size)
                      /\ ptysize = FullSize(size)
    BY <1>1 DEF SizeInv, FullSize
  <2>1. /\ \A q \in Processes: At(q) \in Sizing => proc[q].old = FullSize(size)
        /\ (\A q \in Processes: At(q) # "widen") => ptysize = FullSize(size)
    BY DEF Minds, SizeInv
  <2>2. Tip(p)
    BY <1>2, DoersAreTips
  <2>3. \A q \in Processes: At(q) # "widen"
    BY <1>2, <2>2, OthersAreIdle
  <2>4. ptysize = FullSize(size)
    BY <2>1, <2>3
  <2> QED BY <1>3, <2>1, <2>4
<1>7. \A q \in Processes: (At(q) \in Setting => At(q)' \in Setting)
                          /\ (At(q) \in Halting => At(q)' \in Halting)
  BY <1>4 DEF Untouched
<1>8. Remains("mode") /\ Remains("stop") /\ Remains("answer")
  BY <1>1 DEF Remains
<1> QED BY <1>1, <1>4, <1>5, <1>6, <1>7, <1>8, ModeKept, HaltKept, AnswerKept DEF Minds

\* refresh_window() makes the pty smaller with the size to be restored ahead.
LEMMA NarrowMinds ==
  ASSUME VarsOK, Roles, Minds, OrphanStays, NEW p \in Processes, Narrow(p)
  PROVE  Minds'
<1> USE DEF Roles
<1>1. UNCHANGED <<mode, stdin, asked, hup, size, halted, winch, meddled, typed>>
  BY DEF Narrow, terminal
<1>2. At(p) = "narrow" /\ Acts(p, {"widen"}, proc[p].old)
  BY NarrowEffect
<1>3. At(p)' = "widen" /\ proc'[p].old = proc[p].old
      /\ \A q \in Processes: q # p => At(q)' = At(q) /\ proc'[q].old = proc[q].old
  <2>1. \A q \in Processes: q # p => proc'[q] = proc[q]
    BY <1>2 DEF Acts
  <2> QED BY <1>2, <2>1 DEF Acts, At
<1>4. Untouched(Setting) /\ Untouched(Halting) /\ Untouched(Answering)
  <2>1. /\ At(p) \notin Setting /\ At(p) \notin Halting /\ At(p) \notin Answering
        /\ {"widen"} \cap Setting = {} /\ {"widen"} \cap Halting = {}
        /\ {"widen"} \cap Answering = {}
    BY <1>2 DEF Setting, Halting, Answering
  <2> QED BY <1>2, <2>1, ActsUntouched
<1>5. NarrowInv'
  <2>1. proc[p].old \in Sizes
    BY <1>2 DEF ProcInv, Sound, At
  <2>2. ptysize'.narrow
    BY <2>1 DEF Narrow, Sizes
  <2> QED BY <2>2 DEF NarrowInv
<1>6. SizeInv'
  <2> SUFFICES ASSUME ~hup, "orphan" \notin meddled, Main \notin winch, "size" \notin meddled
               PROVE  \A q \in Processes: At(q)' \in Sizing => proc'[q].old = FullSize(size)
    BY <1>1, <1>3 DEF SizeInv, FullSize
  <2>1. \A q \in Processes: At(q) \in Sizing => proc[q].old = FullSize(size)
    BY DEF Minds, SizeInv
  <2> QED BY <1>2, <1>3, <2>1 DEF Sizing
<1>7. \A q \in Processes: (At(q) \in Setting => At(q)' \in Setting)
                          /\ (At(q) \in Halting => At(q)' \in Halting)
  BY <1>4 DEF Untouched
<1>8. Remains("mode") /\ Remains("stop") /\ Remains("answer")
  BY <1>1 DEF Remains
<1> QED BY <1>1, <1>4, <1>5, <1>6, <1>7, <1>8, ModeKept, HaltKept, AnswerKept DEF Minds

\* It gives the pty the size it has saved, which is the terminal's unless a signal says so.
LEMMA WidenMinds ==
  ASSUME VarsOK, Roles, Minds, OrphanStays, NEW p \in Processes, Widen(p)
  PROVE  Minds'
<1> USE DEF Roles
<1>1. UNCHANGED <<mode, stdin, asked, hup, size, halted, winch, meddled, typed>>
      /\ ptysize' = proc[p].old
  BY DEF Widen, terminal
<1>2. At(p) = "widen" /\ Acts(p, {"write", "loop"}, Null)
  BY WidenEffect
<1>3. At(p)' \notin Sizing
      /\ \A q \in Processes: q # p => At(q)' = At(q) /\ proc'[q].old = proc[q].old
  <2>1. \A q \in Processes: q # p => proc'[q] = proc[q]
    BY <1>2 DEF Acts
  <2> QED BY <1>2, <2>1 DEF Acts, At, Sizing
<1>4. Untouched(Setting) /\ Untouched(Halting) /\ Untouched(Answering)
  <2>1. /\ At(p) \notin Setting /\ At(p) \notin Halting /\ At(p) \notin Answering
        /\ {"write", "loop"} \cap Setting = {} /\ {"write", "loop"} \cap Halting = {}
        /\ {"write", "loop"} \cap Answering = {}
    BY <1>2 DEF Setting, Halting, Answering
  <2> QED BY <1>2, <2>1, ActsUntouched
<1>5. ASSUME "orphan" \in meddled PROVE SizeInv' /\ NarrowInv'
  BY <1>1, <1>5 DEF NarrowInv, SizeInv
<1>6. ASSUME "orphan" \notin meddled PROVE SizeInv' /\ NarrowInv'
  <2>1. \A q \in Processes: At(q)' \notin Sizing
    <3>1. Tip(p)
      BY <1>2, DoersAreTips
    <3>2. \A q \in Processes: q # p => At(q) \in {"loop", "wait"}
      BY <1>6, <3>1, OthersAreIdle
    <3> QED BY <1>3, <3>2 DEF Sizing
  <2>2. NarrowInv'
    BY <2>1 DEF NarrowInv, Sizing
  <2>3. SizeInv'
    <3> SUFFICES ASSUME ~hup, "orphan" \notin meddled, Main \notin winch, "size" \notin meddled
                 PROVE  ptysize' = FullSize(size)
      BY <1>1, <2>1 DEF SizeInv, FullSize
    <3>1. proc[p].old = FullSize(size)
      BY <1>2 DEF Minds, SizeInv, Sizing
    <3> QED BY <1>1, <3>1
  <2> QED BY <2>2, <2>3
<1>7. \A q \in Processes: (At(q) \in Setting => At(q)' \in Setting)
                          /\ (At(q) \in Halting => At(q)' \in Halting)
  BY <1>4 DEF Untouched
<1>8. Remains("mode") /\ Remains("stop") /\ Remains("answer")
  BY <1>1 DEF Remains
<1> QED BY <1>1, <1>4, <1>5, <1>6, <1>7, <1>8, ModeKept, HaltKept, AnswerKept DEF Minds

\* SIGWINCH comes for tkremap with every change of the size, if it has the terminal.
LEMMA ResizeMinds ==
  ASSUME Roles, Minds, OrphanStays, Resize
  PROVE  Minds'
<1> USE DEF Roles
<1>1. UNCHANGED <<mode, stdin, asked, hup, halted, ptysize, typed>> /\ UNCHANGED proc
      /\ meddled \subseteq meddled'
  BY DEF Resize, pty
<1>2. Main \in winch' \/ "size" \in meddled'
  BY DEF Resize, MainInv, Processes, Tkremap
<1>3. Untouched(Setting) /\ Untouched(Halting) /\ Untouched(Answering) /\ Untouched(Sizing)
  BY <1>1, UnchangedEffect, RestsUntouched
<1>4. \A q \in Processes: (At(q) \in Setting => At(q)' \in Setting)
                          /\ (At(q) \in Halting => At(q)' \in Halting)
  BY <1>3 DEF Untouched
<1>5. SizeInv'
  BY <1>2 DEF SizeInv
<1>6. NarrowInv'
  BY <1>1, <1>3 DEF Minds, NarrowInv, Untouched, Sizing
<1>7. Remains("mode") /\ Remains("stop") /\ Remains("answer")
  BY <1>1 DEF Remains
<1> QED BY <1>1, <1>3, <1>4, <1>5, <1>6, <1>7, ModeKept, HaltKept, AnswerKept DEF Minds

\* A process that is in the middle of a refresh_window() is not stopped.
LEMMA RefreshingIsSeen ==
  ASSUME ProcInv, ~Refreshing, NEW p \in Processes
  PROVE  At(p) \notin Sizing
<1> SUFFICES ASSUME At(p) \in Sizing PROVE FALSE
  OBVIOUS
<1>1. Sound(proc[p])
  BY DEF ProcInv
<1>2. ~proc[p].stopped /\ Tkremap(p) /\ proc[p].todo # <<>> /\ Head(proc[p].todo) = At(p)
  BY <1>1 DEF Sound, At, Step, Sizing, Tkremap
<1>3. Does(p, At(p))
  BY <1>2 DEF Does
<1> QED BY <1>3 DEF Refreshing, Sizing

\* The handler gives the pty the terminal's size, and is recorded in a refresh_window().
LEMMA WinchMinds ==
  ASSUME VarsOK, Roles, Minds, OrphanStays, NEW p \in Processes, Winch(p)
  PROVE  Minds'
<1> USE DEF Roles
<1>1. UNCHANGED <<mode, stdin, asked, hup, size, halted, typed>>
  BY DEF Winch, terminal
<1>2. Rests
  BY WinchEffect
<1>3. Untouched(Setting) /\ Untouched(Halting) /\ Untouched(Answering) /\ Untouched(Sizing)
  BY <1>2, RestsUntouched
<1>4. \A q \in Processes: (At(q) \in Setting => At(q)' \in Setting)
                          /\ (At(q) \in Halting => At(q)' \in Halting)
  BY <1>3 DEF Untouched
<1>5. Remains("mode") /\ Remains("stop") /\ Remains("answer")
  BY DEF Remains, Winch
<1>6. SizeInv' /\ NarrowInv'
  <2>1. CASE HasTerminal(p) /\ ~hup
    <3>1. CASE Refreshing
      <4>1. "size" \in meddled'
        BY <2>1, <3>1 DEF Winch
      <4> QED BY <4>1 DEF SizeInv, NarrowInv
    <3>2. CASE ~Refreshing
      <4>1. \A q \in Processes: At(q)' \notin Sizing
        BY <1>2, <3>2, RefreshingIsSeen DEF Rests
      <4>2. ptysize' = FullSize(size)'
        BY <1>1, <2>1 DEF Winch, FullSize
      <4> QED BY <4>1, <4>2 DEF SizeInv, NarrowInv, Sizing
    <3> QED BY <3>1, <3>2
  <2>2. CASE ~(HasTerminal(p) /\ ~hup)
    <3>1. ptysize' = ptysize /\ meddled' = meddled /\ winch' = winch \ {p}
      BY <2>2 DEF Winch
    <3>2. CASE hup
      <4>1. SizeInv'
        BY <1>1, <3>2 DEF SizeInv
      <4>2. NarrowInv'
        BY <1>3, <3>1 DEF Minds, NarrowInv, Untouched, Sizing
      <4> QED BY <4>1, <4>2
    <3>3. CASE ~HasTerminal(p)
      <4>1. p # Main
        BY <3>3 DEF MainInv, HasTerminal
      <4>2. Remains("size") /\ (Main \in winch => Main \in winch')
        BY <3>1, <4>1 DEF Remains
      <4> QED BY <1>1, <1>3, <3>1, <4>2, SizeKept DEF Minds
    <3> QED BY <2>2, <3>2, <3>3
  <2> QED BY <2>1, <2>2
<1> QED BY <1>1, <1>3, <1>4, <1>5, <1>6, ModeKept, HaltKept, AnswerKept DEF Minds

\* The terminal is gone.
LEMMA HangUpMinds ==
  ASSUME Roles, Minds, OrphanStays, HangUp
  PROVE  Minds'
<1> USE DEF Roles
<1>1. UNCHANGED <<mode, stdin, asked, size, halted, ptysize, winch, meddled, typed>>
      /\ UNCHANGED proc /\ hup' = TRUE
  BY DEF HangUp, pty
<1>2. Untouched(Setting) /\ Untouched(Halting) /\ Untouched(Sizing)
  BY <1>1, UnchangedEffect, RestsUntouched
<1>3. \A q \in Processes: (At(q) \in Setting => At(q)' \in Setting)
                          /\ (At(q) \in Halting => At(q)' \in Halting)
  BY <1>2 DEF Untouched
<1>4. Remains("mode") /\ Remains("stop") /\ Remains("size")
  BY <1>1 DEF Remains
<1>5. AnswerInv'
  BY <1>1 DEF AnswerInv
<1> QED BY <1>1, <1>2, <1>3, <1>4, <1>5, ModeKept, HaltKept, SizeKept DEF Minds

-----------------------------------------------------------------------------
(* The steps that read the terminal. *)

\* n bytes have been read.
Taken(n) ==
  /\ n \in Nat
  /\ Len(stdin) \in Nat /\ Len(stdin') \in Nat
  /\ n <= Len(stdin) => Len(stdin') = Len(stdin) - n
  /\ \A i \in 1..Len(stdin'): i + n \in 1..Len(stdin) /\ stdin'[i] = stdin[i + n]

\* Reading n bytes leaves the others,
LEMMA SubSeqTaken ==
  ASSUME VarsOK, NEW n \in Nat, stdin' = SubSeq(stdin, n + 1, Len(stdin))
  PROVE  Taken(n)
<1>1. PICK l \in Nat: l = Len(stdin)
  BY LenProperties DEF VarsOK
<1>2. /\ stdin' \in Seq(Bytes)
      /\ Len(stdin') = IF n <= Len(stdin) THEN Len(stdin) - n ELSE 0
      /\ \A i \in 1..Len(stdin'): stdin'[i] = stdin[i + n]
  BY Dropped DEF VarsOK
<1>3. PICK m \in Nat: m = Len(stdin')
  BY <1>2, LenProperties
<1>4. m = IF n <= l THEN l - n ELSE 0
  BY <1>1, <1>2, <1>3
<1>5. \A i \in 1..m: i + n \in 1..l
  BY <1>4
<1> QED BY <1>1, <1>2, <1>3, <1>4, <1>5 DEF Taken

\* and reading one byte all but the first.
LEMMA TailTaken ==
  ASSUME VarsOK, stdin # <<>>, stdin' = Tail(stdin)
  PROVE  Taken(1)
<1>1. Len(stdin) \in Nat \ {0} /\ Len(stdin') = Len(stdin) - 1
      /\ \A i \in 1..Len(stdin'): stdin'[i] = stdin[i + 1]
  BY EmptySeq, HeadTailProperties DEF VarsOK
<1> QED BY <1>1 DEF Taken

\* What is left of the user's bytes are the user's.
LEMMA PlainTaken ==
  ASSUME AllPlain, NEW n, Taken(n), typed' = typed
  PROVE  AllPlain'
BY DEF AllPlain, Taken, Plain

\* Who reads for another reason than the answer is the only one to read.
LEMMA NobodyAsks ==
  ASSUME ProcInv, TipInv, "orphan" \notin meddled, NEW p \in Processes, Tip(p), ~Asking(p)
  PROVE  \A q \in Processes: ~Asking(q)
BY OthersAreIdle DEF Asking, Answering

\* With nobody asking there is no answer to take: the bytes read are the user's.
LEMMA AnswerReadAway ==
  ASSUME ProcInv, TipInv, AnswerInv, NEW p \in Processes, Tip(p), ~Asking(p),
         NEW n, Taken(n), Untouched(Answering), UNCHANGED <<asked, hup, meddled, typed>>
  PROVE  AnswerInv'
<1> SUFFICES ASSUME ~hup, {"answer", "orphan"} \cap meddled = {}, ~({"semi", "R"} \subseteq typed)
             PROVE  /\ \A q \in Processes: ~Asking(q)'
                    /\ asked' = 0 /\ AllPlain'
  BY DEF AnswerInv
<1>1. \A q \in Processes: ~Asking(q)
  BY NobodyAsks
<1>2. asked = 0 /\ AllPlain
  BY <1>1 DEF AnswerInv
<1>3. \A q \in Processes: ~Asking(q)'
  BY <1>1 DEF Untouched, Asking
<1> QED BY <1>2, <1>3, PlainTaken

\* The loop reads a key only when no answer is under way.
LEMMA ReadKeyMinds ==
  ASSUME VarsOK, Roles, Minds, OrphanStays, NEW p \in Processes, ReadKey(p)
  PROVE  Minds'
<1> USE DEF Roles
<1>1. UNCHANGED <<mode, asked, hup, size, halted, ptysize, winch, meddled, typed>>
      /\ stdin # <<>> /\ stdin' = Tail(stdin)
  BY DEF ReadKey, pty
<1> DEFINE next == {"stop_program", "restore_mode", "fork", "write", "signal", "redraw_method"}
<1>2. At(p) = "loop" /\ Holder(p) /\ proc[p].child = Null /\ (Rests \/ Acts(p, next, proc[p].old))
  BY ReadKeyEffect
<1>3. Untouched(Setting) /\ Untouched(Halting) /\ Untouched(Answering) /\ Untouched(Sizing)
  <2>1. /\ At(p) \notin Setting /\ At(p) \notin Halting /\ At(p) \notin Answering /\ At(p) \notin Sizing
        /\ next \cap Setting = {} /\ next \cap Halting = {}
        /\ next \cap Answering = {} /\ next \cap Sizing = {}
    BY <1>2 DEF Setting, Halting, Answering, Sizing
  <2> HIDE DEF next
  <2> QED BY <1>2, <2>1, ActsUntouched, RestsUntouched
<1>4. \A q \in Processes: (At(q) \in Setting => At(q)' \in Setting)
                          /\ (At(q) \in Halting => At(q)' \in Halting)
  BY <1>3 DEF Untouched
<1>5. Remains("mode") /\ Remains("stop") /\ Remains("size")
  BY <1>1 DEF Remains
<1>6. AnswerInv'
  <2>1. Tip(p) /\ ~Asking(p)
    BY <1>2 DEF Tip, Asking, Answering
  <2> QED BY <1>1, <1>3, <2>1, TailTaken, AnswerReadAway DEF Minds
<1> QED BY <1>1, <1>3, <1>4, <1>5, <1>6, ModeKept, HaltKept, SizeKept DEF Minds

\* Nor does a child in the foreground read one.
LEMMA OtherReadsMinds ==
  ASSUME VarsOK, Roles, Minds, OrphanStays, NEW c \in Children, OtherReads(c)
  PROVE  Minds'
<1> USE DEF Roles
<1>1. UNCHANGED <<mode, asked, hup, size, halted, ptysize, winch, meddled, typed>>
      /\ stdin # <<>> /\ stdin' = Tail(stdin) /\ UNCHANGED proc
  BY DEF OtherReads, pty
<1>2. c \in Processes
  BY DEF Processes
<1>3. Untouched(Setting) /\ Untouched(Halting) /\ Untouched(Answering) /\ Untouched(Sizing)
  BY <1>1, UnchangedEffect, RestsUntouched
<1>4. \A q \in Processes: (At(q) \in Setting => At(q)' \in Setting)
                          /\ (At(q) \in Halting => At(q)' \in Halting)
  BY <1>3 DEF Untouched
<1>5. Remains("mode") /\ Remains("stop") /\ Remains("size")
  BY <1>1 DEF Remains
<1>6. AnswerInv'
  <2>1. Sound(proc[c]) /\ Other(c) /\ HasTerminal(c)
    BY <1>2 DEF ProcInv, OtherReads
  <2>2. Tip(c) /\ ~Asking(c)
    BY <2>1 DEF Sound, Step, Other, Tip, Holder, Asking, Answering, At
  <2> QED BY <1>1, <1>2, <1>3, <2>2, TailTaken, AnswerReadAway DEF Minds
<1> QED BY <1>1, <1>3, <1>4, <1>5, <1>6, ModeKept, HaltKept, SizeKept DEF Minds

\* The answers to confirm, and lines.
LEMMA AskUserMinds ==
  ASSUME VarsOK, Roles, Minds, OrphanStays, NEW p \in Processes, Confirm(p) \/ ReadLine(p)
  PROVE  Minds'
<1> USE DEF Roles
<1>1. UNCHANGED <<mode, asked, hup, size, halted, ptysize, winch, meddled, typed>>
      /\ stdin' = SubSeq(stdin, 1 + 1, Len(stdin))
  BY DEF Confirm, ReadLine, pty
<1>2. At(p) \in {"confirm", "readline"} /\ (Rests \/ Acts(p, {"set_mode"}, proc[p].old))
  BY ConfirmEffect, ReadLineEffect
<1>3. Untouched(Halting) /\ Untouched(Answering) /\ Untouched(Sizing)
  <2>1. /\ At(p) \notin Halting /\ At(p) \notin Answering /\ At(p) \notin Sizing
        /\ {"set_mode"} \cap Halting = {} /\ {"set_mode"} \cap Answering = {}
        /\ {"set_mode"} \cap Sizing = {}
    BY <1>2 DEF Halting, Answering, Sizing
  <2> QED BY <1>2, <2>1, ActsUntouched, RestsUntouched
<1>4. \A q \in Processes: At(q) \in Setting => At(q)' \in Setting
  <2>1. {"set_mode"} \subseteq Setting
    BY DEF Setting
  <2>2. CASE Rests
    BY <2>2 DEF Rests
  <2> QED BY <1>2, <2>1, <2>2, ActsStay
<1>5. \A q \in Processes: At(q) \in Halting => At(q)' \in Halting
  BY <1>3 DEF Untouched
<1>6. Remains("mode") /\ Remains("stop") /\ Remains("size")
  BY <1>1 DEF Remains
<1>7. AnswerInv'
  <2>1. Tip(p) /\ ~Asking(p)
    BY <1>2, DoersAreTips DEF Asking, Answering
  <2>2. Taken(1)
    BY <1>1, SubSeqTaken
  <2> QED BY <1>1, <1>3, <2>1, <2>2, AnswerReadAway DEF Minds
<1> QED BY <1>1, <1>3, <1>4, <1>5, <1>6, <1>7, ModeKept, HaltKept, SizeKept DEF Minds

-----------------------------------------------------------------------------
(* get_cursor() *)

\* get_cursor() asks, and is then the one that reads.
LEMMA AskCursorMinds ==
  ASSUME VarsOK, Roles, Minds, OrphanStays, NEW p \in Processes, AskCursor(p)
  PROVE  Minds'
<1> USE DEF Roles
<1>1. UNCHANGED <<stdin, hup, size, halted, ptysize, winch>>
  BY DEF AskCursor, pty
<1>2. At(p) = "ask"
      /\ IF hup THEN Acts(p, {"readline", "set_mode"}, proc[p].old) ELSE Acts(p, {"read_3"}, mode)
  BY AskCursorEffect
<1>3. Untouched(Halting) /\ Untouched(Sizing)
  <2>1. /\ At(p) \notin Halting /\ At(p) \notin Sizing
        /\ {"readline", "set_mode", "read_3"} \cap Halting = {}
        /\ {"readline", "set_mode", "read_3"} \cap Sizing = {}
    BY <1>2 DEF Halting, Sizing
  <2>2. /\ {"readline", "set_mode"} \cap Halting = {} /\ {"read_3"} \cap Halting = {}
        /\ {"readline", "set_mode"} \cap Sizing = {} /\ {"read_3"} \cap Sizing = {}
    BY <2>1
  <2> QED BY <1>2, <2>1, <2>2, ActsUntouched
<1>4. \A q \in Processes: At(q) \in Halting => At(q)' \in Halting
  BY <1>3 DEF Untouched
<1>5. Remains("mode") /\ Remains("stop") /\ Remains("size")
  BY DEF AskCursor, Remains
<1>6. At(p)' \in Setting
  BY <1>2 DEF Acts, Setting, Answering
<1>7. ModeInv'
  BY <1>6 DEF ModeInv
<1>8. AnswerInv'
  <2>1. CASE hup
    BY <1>1, <2>1 DEF AnswerInv
  <2>2. CASE ~hup
    <3>1. /\ asked' = asked + 1
          /\ typed' = {b \in typed: Expected}
          /\ meddled' = {m \in meddled: m = "answer" => Expected}
      BY <2>2 DEF AskCursor
    <3>2. SUFFICES ASSUME {"answer", "orphan"} \cap meddled' = {}, ~({"semi", "R"} \subseteq typed')
                   PROVE  /\ \A q \in Processes: Asking(q)' => Expects(q)'
                          /\ ~\A q \in Processes: ~Asking(q)'
      BY DEF AnswerInv
    <3>3. "orphan" \notin meddled
      BY <3>2 DEF OrphanStays
    <3>4. Tip(p) /\ ~Asking(p)
      BY <1>2, DoersAreTips DEF Asking, Answering
    <3>5. \A q \in Processes: ~Asking(q)
      BY <3>3, <3>4, NobodyAsks
    <3>6. At(p)' = "read_3" /\ \A q \in Processes: q # p => At(q)' = At(q)
      <4>1. \A q \in Processes: q # p => proc'[q] = proc[q]
        BY <1>2, <2>2 DEF Acts
      <4> QED BY <1>2, <2>2, <4>1 DEF Acts, At
    <3>7. asked' = 1 /\ AllPlain'
      <4>1. CASE ~Expected
        <5>1. stdin = <<>> /\ asked = 0
          BY <4>1 DEF Expected, VarsOK
        <5> QED BY <1>1, <3>1, <5>1 DEF AllPlain
      <4>2. CASE Expected
        <5>1. typed' = typed /\ meddled' = meddled
          BY <3>1, <4>2
        <5>2. asked = 0 /\ AllPlain
          BY <2>2, <3>2, <3>5, <5>1 DEF Minds, AnswerInv
        <5> QED BY <1>1, <3>1, <5>1, <5>2 DEF AllPlain, Plain
      <4> QED BY <4>1, <4>2
    <3>8. Asking(p)' /\ \A q \in Processes: Asking(q)' => q = p
      BY <3>5, <3>6 DEF Asking, Answering
    <3>9. Expects(p)'
      BY <3>6, <3>7 DEF Expects
    <3> QED BY <3>8, <3>9
  <2> QED BY <2>1, <2>2
<1> QED BY <1>1, <1>3, <1>4, <1>5, <1>7, <1>8, HaltKept, SizeKept DEF Minds

\* get_cursor() sets the mode it has saved after it has read the answer to its end.
LEMMA ResetModeMinds ==
  ASSUME VarsOK, Roles, Minds, OrphanStays, NEW p \in Processes, ResetMode(p)
  PROVE  Minds'
<1> USE DEF Roles
<1>1. UNCHANGED <<stdin, asked, hup, size, halted, ptysize, winch, meddled>>
      /\ typed' = {b \in typed: Expected}
  BY DEF ResetMode, pty
<1>2. At(p) = "reset_mode" /\ Acts(p, {"readline", "set_mode"}, Null)
  BY ResetModeEffect
<1>3. Untouched(Halting) /\ Untouched(Answering) /\ Untouched(Sizing)
  <2>1. /\ At(p) \notin Halting /\ At(p) \notin Answering /\ At(p) \notin Sizing
        /\ {"readline", "set_mode"} \cap Halting = {} /\ {"readline", "set_mode"} \cap Answering = {}
        /\ {"readline", "set_mode"} \cap Sizing = {}
    BY <1>2 DEF Halting, Answering, Sizing
  <2> QED BY <1>2, <2>1, ActsUntouched
<1>4. ModeInv'
  <2>1. At(p)' \in Setting
    BY <1>2 DEF Acts, Setting
  <2> QED BY <2>1 DEF ModeInv
<1>5. \A q \in Processes: At(q) \in Halting => At(q)' \in Halting
  BY <1>3 DEF Untouched
<1>6. Remains("stop") /\ Remains("size") /\ Remains("answer")
  BY <1>1 DEF Remains
<1>7. AnswerInv'
  <2>1. CASE Expected
    <3>1. typed' = typed
      BY <1>1, <2>1
    <3> QED BY <1>1, <1>3, <1>6, <3>1, AnswerKept DEF Minds
  <2>2. CASE ~Expected
    <3> SUFFICES ASSUME "orphan" \notin meddled
                 PROVE  (\A q \in Processes: ~Asking(q)') /\ asked' = 0 /\ AllPlain'
      BY <1>1 DEF AnswerInv
    <3>1. Tip(p) /\ ~Asking(p)
      BY <1>2, DoersAreTips DEF Asking, Answering
    <3>2. \A q \in Processes: ~Asking(q)
      BY <3>1, NobodyAsks
    <3>3. \A q \in Processes: ~Asking(q)'
      BY <1>3, <3>2 DEF Untouched, Asking
    <3>4. stdin = <<>> /\ asked = 0
      BY <2>2 DEF Expected, VarsOK
    <3> QED BY <1>1, <3>3, <3>4 DEF AllPlain
  <2> QED BY <2>1, <2>2
<1> QED BY <1>1, <1>3, <1>4, <1>5, <1>6, <1>7, HaltKept, SizeKept DEF Minds

\* A process that waits for the answer is not stopped.
LEMMA AskingIsSeen ==
  ASSUME ProcInv
  PROVE  AsksCursor <=> \E p \in Processes: Asking(p)
<1>1. /\ Len(GetCursor) = 5 /\ GetCursor[2] = "read_3" /\ GetCursor[3] = "read_row"
      /\ GetCursor[4] = "read_column"
  BY DEF GetCursor
<1>2. ASSUME NEW p \in Processes, NEW step \in Answering
      PROVE  Does(p, step) <=> At(p) = step
  <2>1. Sound(proc[p])
    BY DEF ProcInv
  <2>2. Does(p, step) => At(p) = step
    BY DoesFields
  <2>3. ASSUME At(p) = step PROVE Does(p, step)
    <3>1. step # "loop" /\ step \notin {"continue_program", "set_mode"}
      BY DEF Answering
    <3> QED BY <2>1, <2>3, <3>1 DEF Sound, At, Step, Does, Tkremap
  <2> QED BY <2>2, <2>3
<1>3. AsksCursor <=> \E p \in Processes: \E step \in Answering: Does(p, step)
  <2>1. 2..Len(GetCursor) - 1 = {2, 3, 4}
    BY <1>1
  <2>2. \A p \in Processes: (\E i \in {2, 3, 4}: Does(p, GetCursor[i]))
                              <=> (Does(p, GetCursor[2]) \/ Does(p, GetCursor[3]) \/ Does(p, GetCursor[4]))
    OBVIOUS
  <2>3. \A p \in Processes: (\E step \in Answering: Does(p, step))
                              <=> (Does(p, "read_3") \/ Does(p, "read_row") \/ Does(p, "read_column"))
    BY DEF Answering
  <2> QED BY <1>1, <2>1, <2>2, <2>3 DEF AsksCursor
<1> QED BY <1>2, <1>3 DEF Asking

\* What the user types while an answer is awaited is recorded, before or after its bytes.
LEMMA TypeMinds ==
  ASSUME VarsOK, Roles, Minds, OrphanStays, NEW b \in {"semi", "R", "any"}, Type(b)
  PROVE  Minds'
<1> USE DEF Roles
<1>1. UNCHANGED <<mode, asked, hup, size, halted, ptysize, winch, meddled>> /\ UNCHANGED proc
      /\ typed \subseteq typed'
  BY DEF Type, pty
<1>2. Untouched(Setting) /\ Untouched(Halting) /\ Untouched(Sizing)
  BY <1>1, UnchangedEffect, RestsUntouched
<1>3. \A q \in Processes: (At(q) \in Setting => At(q)' \in Setting)
                          /\ (At(q) \in Halting => At(q)' \in Halting)
  BY <1>2 DEF Untouched
<1>4. Remains("mode") /\ Remains("stop") /\ Remains("size")
  BY <1>1 DEF Remains
<1>5. \A q \in Processes: At(q)' = At(q)
  BY <1>1 DEF At
<1>6. PICK l \in Nat: l = Len(stdin)
  BY LenProperties DEF VarsOK
<1>7. Len(stdin') = l + 1 /\ stdin'[l + 1] = b /\ \A i \in 1..l: stdin'[i] = stdin[i]
  BY <1>6, AppendProperties DEF VarsOK, Type, Bytes
<1>8. AsksCursor \/ b = "any"
  BY DEF Type
<1>9. Plain(b)'
  BY <1>8 DEF Type, Plain
<1>10. \A x: Plain(x) => Plain(x)'
  BY <1>1 DEF Plain
<1>11. AllPlain => AllPlain'
  <2> SUFFICES ASSUME AllPlain, NEW i \in 1..Len(stdin') PROVE Plain(stdin[i])'
    BY DEF AllPlain
  <2>1. CASE i \in 1..l
    BY <1>6, <1>7, <1>10, <2>1 DEF AllPlain, Plain
  <2>2. CASE i = l + 1
    BY <1>7, <1>9, <2>2 DEF Plain
  <2> QED BY <1>6, <1>7, <2>1, <2>2
<1>12. ASSUME NEW e \in 1..l, AnswerEndsAt(e) PROVE AnswerEndsAt(e)'
  <2> SUFFICES ASSUME NEW i \in 1..Len(stdin')
               PROVE  IF i \in e - 5..e THEN stdin'[i] = Answer[i - e + 6] ELSE Plain(stdin[i])'
    BY DEF AnswerEndsAt
  <2>1. CASE i \in 1..l
    BY <1>6, <1>7, <1>10, <1>12, <2>1 DEF AnswerEndsAt, Plain
  <2>2. CASE i = l + 1
    <3>1. i \notin e - 5..e
      BY <1>6, <2>2
    <3> QED BY <1>7, <1>9, <2>2, <3>1 DEF Plain
  <2> QED BY <1>6, <1>7, <2>1, <2>2
<1>13. AnswerInv'
  <2> SUFFICES ASSUME ~hup, {"answer", "orphan"} \cap meddled = {}, ~({"semi", "R"} \subseteq typed)
               PROVE  /\ \A q \in Processes: Asking(q)' => Expects(q)'
                      /\ (\A q \in Processes: ~Asking(q)') => asked' = 0 /\ AllPlain'
    BY <1>1 DEF AnswerInv
  <2>1. /\ \A q \in Processes: Asking(q) => Expects(q)
        /\ (\A q \in Processes: ~Asking(q)) => asked = 0 /\ AllPlain
    BY DEF Minds, AnswerInv
  <2>2. ASSUME NEW q \in Processes, Asking(q)' PROVE Expects(q)'
    <3>1. Expects(q)
      BY <1>5, <2>1, <2>2 DEF Asking
    <3>2. CASE asked = 1
      BY <1>1, <1>5, <1>11, <3>1, <3>2 DEF Expects
    <3>3. CASE asked = 0
      <4>1. PICK e \in 1..l:
              /\ AnswerEndsAt(e)
              /\ At(q) = "read_3" => e >= 6
              /\ At(q) = "read_row" => e >= 3
              /\ At(q) = "read_column" => e <= 2 \/ "semi" \in typed
        BY <1>6, <3>1, <3>3 DEF Expects
      <4>2. e \in 1..Len(stdin')
        BY <1>6, <1>7
      <4> QED BY <1>1, <1>5, <1>12, <3>3, <4>1, <4>2 DEF Expects
    <3> QED BY <3>1, <3>2, <3>3 DEF Expects
  <2>3. ASSUME \A q \in Processes: ~Asking(q)' PROVE asked' = 0 /\ AllPlain'
    <3>1. \A q \in Processes: ~Asking(q)
      BY <1>5, <2>3 DEF Asking
    <3> QED BY <1>1, <1>11, <2>1, <3>1
  <2> QED BY <2>2, <2>3
<1> QED BY <1>1, <1>2, <1>3, <1>4, <1>13, ModeKept, HaltKept, SizeKept DEF Minds

\* The terminal answers while the one that has asked is reading.
LEMMA TerminalAnswersMinds ==
  ASSUME VarsOK, Roles, Minds, OrphanStays, TerminalAnswers
  PROVE  Minds'
<1> USE DEF Roles
<1>1. UNCHANGED <<mode, hup, size, halted, ptysize, winch, meddled, typed>> /\ UNCHANGED proc
      /\ asked > 0 /\ asked' = asked - 1
  BY DEF TerminalAnswers, pty
<1>2. Untouched(Setting) /\ Untouched(Halting) /\ Untouched(Sizing)
  BY <1>1, UnchangedEffect, RestsUntouched
<1>3. \A q \in Processes: (At(q) \in Setting => At(q)' \in Setting)
                          /\ (At(q) \in Halting => At(q)' \in Halting)
  BY <1>2 DEF Untouched
<1>4. Remains("mode") /\ Remains("stop") /\ Remains("size")
  BY <1>1 DEF Remains
<1>5. \A q \in Processes: At(q)' = At(q)
  BY <1>1 DEF At
<1>6. PICK l \in Nat: l = Len(stdin)
  BY LenProperties DEF VarsOK
<1>7. Answer \in Seq(Bytes) /\ Len(Answer) = 6
  BY DEF Answer, Bytes
<1>8. Len(stdin') = l + 6
      /\ \A i \in 1..l + 6: stdin'[i] = IF i <= l THEN stdin[i] ELSE Answer[i - l]
  <2>1. /\ Len(stdin \o Answer) = Len(stdin) + Len(Answer)
        /\ \A i \in 1..Len(stdin) + Len(Answer):
             (stdin \o Answer)[i] = IF i <= Len(stdin) THEN stdin[i] ELSE Answer[i - Len(stdin)]
    BY <1>7, ConcatProperties DEF VarsOK
  <2>2. stdin' = stdin \o Answer
    BY DEF TerminalAnswers
  <2> QED BY <1>6, <1>7, <2>1, <2>2
<1>9. ASSUME AllPlain PROVE AnswerEndsAt(l + 6)'
  <2> SUFFICES ASSUME NEW i \in 1..l + 6
               PROVE  IF i \in l + 6 - 5..l + 6 THEN stdin'[i] = Answer[i - (l + 6) + 6]
                      ELSE Plain(stdin[i])'
    BY <1>8 DEF AnswerEndsAt
  <2>1. CASE i <= l
    <3>1. i \notin l + 6 - 5..l + 6 /\ i \in 1..l
      BY <2>1
    <3>2. stdin'[i] = stdin[i]
      BY <1>8, <2>1
    <3> QED BY <1>1, <1>6, <1>9, <3>1, <3>2 DEF AllPlain, Plain
  <2>2. CASE i > l
    <3>1. i \in l + 6 - 5..l + 6 /\ i - (l + 6) + 6 = i - l /\ ~(i <= l)
      BY <2>2
    <3> QED BY <1>8, <3>1
  <2> QED BY <2>1, <2>2
<1>10. AnswerInv'
  <2> SUFFICES ASSUME ~hup, {"answer", "orphan"} \cap meddled = {}, ~({"semi", "R"} \subseteq typed)
               PROVE  /\ \A q \in Processes: Asking(q)' => Expects(q)'
                      /\ ~\A q \in Processes: ~Asking(q)'
    BY <1>1 DEF AnswerInv
  <2>1. /\ \A q \in Processes: Asking(q) => Expects(q)
        /\ ~\A q \in Processes: ~Asking(q)
    BY <1>1 DEF Minds, AnswerInv
  <2>2. ASSUME NEW q \in Processes, Asking(q)' PROVE Expects(q)'
    <3>1. asked' = 0 /\ AllPlain /\ (At(q) = "read_column" => "semi" \in typed)
      BY <1>1, <1>5, <2>1, <2>2 DEF Asking, Expects
    <3>2. l + 6 \in 1..Len(stdin') /\ l + 6 >= 6 /\ l + 6 >= 3
      BY <1>8
    <3>3. AnswerEndsAt(l + 6)'
      BY <1>9, <3>1
    <3> QED BY <1>1, <1>5, <3>1, <3>2, <3>3 DEF Expects
  <2> QED BY <1>5, <2>1, <2>2 DEF Asking
<1> QED BY <1>1, <1>2, <1>3, <1>4, <1>10, ModeKept, HaltKept, SizeKept DEF Minds

\* What get_cursor() reads: the others wait, and the answer is nearer.
LEMMA Reading ==
  ASSUME ProcInv, TipInv, AnswerInv, NEW p \in Processes, Asking(p),
         ~hup, {"answer", "orphan"} \cap meddled = {}, ~({"semi", "R"} \subseteq typed)
  PROVE  Expects(p) /\ \A q \in Processes: q # p => At(q) \in {"loop", "wait"}
<1>1. Expects(p)
  BY DEF AnswerInv
<1>2. Tip(p)
  BY DoersAreTips DEF Asking, Answering
<1> QED BY <1>1, <1>2, OthersAreIdle

\* The end of the answer when n bytes before it have been read.
LEMMA AnswerTaken ==
  ASSUME NEW e \in 1..Len(stdin), AnswerEndsAt(e), NEW n, Taken(n), n < e, typed' = typed
  PROVE  e - n \in 1..Len(stdin') /\ AnswerEndsAt(e - n)'
<1>1. PICK l \in Nat, m \in Nat: l = Len(stdin) /\ m = Len(stdin')
  BY DEF Taken
<1>2. n \in Nat /\ e \in 1..l /\ m = l - n
  BY <1>1 DEF Taken
<1>3. e - n \in 1..m
  BY <1>2
<1>4. ASSUME NEW i \in 1..m
      PROVE  IF i \in e - n - 5..e - n THEN stdin'[i] = Answer[i - (e - n) + 6] ELSE Plain(stdin[i])'
  <2>1. PICK j \in 1..Len(stdin): j = i + n
    BY <1>1, <1>4 DEF Taken
  <2>2. stdin'[i] = stdin[j]
    BY <1>1, <1>4, <2>1 DEF Taken
  <2>3. IF j \in e - 5..e THEN stdin[j] = Answer[j - e + 6] ELSE Plain(stdin[j])
    BY DEF AnswerEndsAt
  <2>4. (i \in e - n - 5..e - n <=> j \in e - 5..e) /\ i - (e - n) + 6 = j - e + 6
    BY <1>1, <1>2, <2>1
  <2> QED BY <2>2, <2>3, <2>4 DEF Plain
<1> QED BY <1>1, <1>3, <1>4 DEF AnswerEndsAt

\* get_cursor() takes the first three bytes: all from before the row, or the user's.
LEMMA Read3Minds ==
  ASSUME VarsOK, Roles, Minds, OrphanStays, NEW p \in Processes, Read3(p)
  PROVE  Minds'
<1> USE DEF Roles
<1>1. UNCHANGED <<mode, asked, hup, size, halted, ptysize, winch, meddled, typed>>
  BY DEF Read3, pty
<1>2. At(p) = "read_3" /\ Acts(p, {"read_row"}, proc[p].old)
  BY Read3Effect
<1>3. Untouched(Halting) /\ Untouched(Sizing)
  <2>1. /\ At(p) \notin Halting /\ At(p) \notin Sizing
        /\ {"read_row"} \cap Halting = {} /\ {"read_row"} \cap Sizing = {}
    BY <1>2 DEF Halting, Sizing
  <2> QED BY <1>2, <2>1, ActsUntouched
<1>4. \A q \in Processes: At(q) \in Halting => At(q)' \in Halting
  BY <1>3 DEF Untouched
<1>5. Remains("mode") /\ Remains("stop") /\ Remains("size")
  BY <1>1 DEF Remains
<1>6. ModeInv'
  <2>1. At(p)' \in Setting
    BY <1>2 DEF Acts, Setting, Answering
  <2> QED BY <2>1 DEF ModeInv
<1>7. AnswerInv'
  <2> SUFFICES ASSUME ~hup, {"answer", "orphan"} \cap meddled = {}, ~({"semi", "R"} \subseteq typed)
               PROVE  /\ \A q \in Processes: Asking(q)' => Expects(q)'
                      /\ ~\A q \in Processes: ~Asking(q)'
    BY <1>1 DEF AnswerInv
  <2>1. Expects(p) /\ \A q \in Processes: q # p => At(q) \in {"loop", "wait"}
    BY <1>2, Reading DEF Minds, Asking, Answering
  <2>2. At(p)' = "read_row" /\ \A q \in Processes: q # p => At(q)' = At(q)
    <3>1. \A q \in Processes: q # p => proc'[q] = proc[q]
      BY <1>2 DEF Acts
    <3> QED BY <1>2, <3>1 DEF Acts, At
  <2>3. \A q \in Processes: Asking(q)' <=> q = p
    BY <2>1, <2>2 DEF Asking, Answering
  <2>4. PICK l \in Nat: l = Len(stdin)
    BY LenProperties DEF VarsOK
  <2>5. Least(3, Len(stdin)) \in Nat /\ Least(3, Len(stdin)) <= 3
    BY <2>4 DEF Least
  <2>6. Taken(Least(3, Len(stdin)))
    BY <2>5, SubSeqTaken DEF Read3
  <2>7. Expects(p)'
    <3>1. CASE asked = 1
      <4>1. AllPlain'
        BY <1>1, <2>1, <2>6, <3>1, PlainTaken DEF Expects
      <4> QED BY <1>1, <2>2, <3>1, <4>1 DEF Expects
    <3>2. CASE asked = 0
      <4>1. PICK e \in 1..Len(stdin): AnswerEndsAt(e) /\ e >= 6
        BY <1>2, <2>1, <3>2 DEF Expects
      <4>2. Least(3, Len(stdin)) = 3
        BY <2>4, <4>1 DEF Least
      <4>3. e - 3 \in 1..Len(stdin') /\ AnswerEndsAt(e - 3)'
        BY <1>1, <2>4, <2>6, <4>1, <4>2, AnswerTaken
      <4>4. e - 3 >= 3
        BY <2>4, <4>1
      <4> QED BY <1>1, <2>2, <3>2, <4>3, <4>4 DEF Expects
    <3> QED BY <2>1, <3>1, <3>2 DEF Expects
  <2> QED BY <2>3, <2>7
<1> QED BY <1>1, <1>3, <1>4, <1>5, <1>6, <1>7, HaltKept, SizeKept DEF Minds

\* The bytes of an answer in front of its end.
LEMMA FirstOfAnswer ==
  ASSUME VarsOK, stdin # <<>>, NEW e \in 1..Len(stdin), AnswerEndsAt(e)
  PROVE  IF e <= 6 THEN stdin[1] = Answer[7 - e] ELSE Plain(stdin[1])
<1>1. PICK l \in Nat \ {0}: l = Len(stdin)
  BY EmptySeq DEF VarsOK
<1>2. PICK j \in 1..Len(stdin): j = 1
  BY <1>1
<1>3. IF j \in e - 5..e THEN stdin[j] = Answer[j - e + 6] ELSE Plain(stdin[j])
  BY DEF AnswerEndsAt
<1>4. (j \in e - 5..e <=> e <= 6) /\ j - e + 6 = 7 - e
  BY <1>1, <1>2
<1> QED BY <1>2, <1>3, <1>4

\* The six bytes of an answer, a digit for each number.
LEMMA AnswerBytes ==
  /\ Answer[1] = "esc" /\ Answer[2] = "[" /\ Answer[3] = "1"
  /\ Answer[4] = "semi" /\ Answer[5] = "1" /\ Answer[6] = "R"
BY DEF Answer

\* It reads up to the semicolon, which is the answer's unless the user has typed one,
LEMMA ReadRowMinds ==
  ASSUME VarsOK, Roles, Minds, OrphanStays, NEW p \in Processes, ReadTo(p, "read_row", "semi")
  PROVE  Minds'
<1> USE DEF Roles
<1>1. UNCHANGED <<mode, asked, hup, size, halted, ptysize, winch, meddled, typed>>
      /\ stdin' = SubSeq(stdin, 1 + 1, Len(stdin)) /\ (stdin # <<>> \/ hup)
  BY DEF ReadTo, pty
<1>2. At(p) = "read_row"
      /\ IF stdin = <<>> \/ stdin[1] = "semi" THEN Acts(p, {"read_column"}, proc[p].old) ELSE Rests
  BY ReadRowEffect
<1>3. Untouched(Halting) /\ Untouched(Sizing)
  <2>1. /\ At(p) \notin Halting /\ At(p) \notin Sizing
        /\ {"read_column"} \cap Halting = {} /\ {"read_column"} \cap Sizing = {}
    BY <1>2 DEF Halting, Sizing
  <2> QED BY <1>2, <2>1, ActsUntouched, RestsUntouched
<1>4. \A q \in Processes: At(q) \in Halting => At(q)' \in Halting
  BY <1>3 DEF Untouched
<1>5. Remains("mode") /\ Remains("stop") /\ Remains("size")
  BY <1>1 DEF Remains
<1>6. /\ At(p)' \in {"read_row", "read_column"}
      /\ \A q \in Processes: q # p => At(q)' = At(q)
      /\ stdin # <<>> => (stdin[1] = "semi" <=> At(p)' = "read_column")
  <2>1. CASE stdin = <<>> \/ stdin[1] = "semi"
    <3>1. Acts(p, {"read_column"}, proc[p].old)
      BY <1>2, <2>1
    <3>2. \A q \in Processes: q # p => proc'[q] = proc[q]
      BY <3>1 DEF Acts
    <3> QED BY <2>1, <3>1, <3>2 DEF Acts, At
  <2>2. CASE stdin # <<>> /\ stdin[1] # "semi"
    BY <1>2, <2>2 DEF Rests
  <2> QED BY <2>1, <2>2
<1>7. ModeInv'
  <2>1. At(p)' \in Setting
    BY <1>6 DEF Setting, Answering
  <2> QED BY <2>1 DEF ModeInv
<1>8. AnswerInv'
  <2> SUFFICES ASSUME ~hup, {"answer", "orphan"} \cap meddled = {}, ~({"semi", "R"} \subseteq typed)
               PROVE  /\ \A q \in Processes: Asking(q)' => Expects(q)'
                      /\ ~\A q \in Processes: ~Asking(q)'
    BY <1>1 DEF AnswerInv
  <2>1. Expects(p) /\ \A q \in Processes: q # p => At(q) \in {"loop", "wait"}
    BY <1>2, Reading DEF Minds, Asking, Answering
  <2>2. \A q \in Processes: Asking(q)' <=> q = p
    BY <1>6, <2>1 DEF Asking, Answering
  <2>3. PICK l \in Nat \ {0}: l = Len(stdin)
    BY <1>1, EmptySeq DEF VarsOK
  <2>4. Taken(1)
    BY <1>1, SubSeqTaken
  <2>5. Expects(p)'
    <3>1. CASE asked = 1
      <4>1. AllPlain /\ AllPlain'
        BY <1>1, <2>1, <2>4, <3>1, PlainTaken DEF Expects
      <4>2. At(p)' = "read_column" => "semi" \in typed
        <5>1. Plain(stdin[1])
          BY <2>3, <4>1 DEF AllPlain
        <5> QED BY <1>1, <1>6, <5>1 DEF Plain
      <4> QED BY <1>1, <3>1, <4>1, <4>2 DEF Expects
    <3>2. CASE asked = 0
      <4>1. PICK e \in 1..l: AnswerEndsAt(e) /\ e >= 3
        BY <1>2, <2>1, <2>3, <3>2 DEF Expects
      <4>2. e - 1 \in 1..Len(stdin') /\ AnswerEndsAt(e - 1)'
        BY <1>1, <2>3, <2>4, <4>1, AnswerTaken
      <4>3. At(p)' = "read_row" => e - 1 >= 3
        <5>1. CASE e = 3
          <6>1. e <= 6 /\ 7 - e = 4
            BY <5>1
          <6>2. stdin[1] = "semi"
            BY <1>1, <2>3, <4>1, <6>1, FirstOfAnswer, AnswerBytes
          <6> QED BY <1>1, <1>6, <6>2
        <5>2. CASE e # 3
          BY <4>1, <5>2
        <5> QED BY <5>1, <5>2
      <4>4. At(p)' = "read_column" => e - 1 <= 2 \/ "semi" \in typed
        <5> SUFFICES ASSUME At(p)' = "read_column", e # 3 PROVE "semi" \in typed
          BY <4>1
        <5>1. stdin[1] = "semi"
          BY <1>1, <1>6
        <5>2. e \in {4, 5, 6} \/ e > 6
          BY <4>1
        <5>3. e \notin {4, 5, 6}
          <6>1. e <= 6 => stdin[1] = Answer[7 - e]
            BY <1>1, <2>3, <4>1, FirstOfAnswer
          <6>2. e = 4 => e <= 6 /\ 7 - e = 3
            OBVIOUS
          <6>3. e = 5 => e <= 6 /\ 7 - e = 2
            OBVIOUS
          <6>4. e = 6 => e <= 6 /\ 7 - e = 1
            OBVIOUS
          <6> QED BY <5>1, <6>1, <6>2, <6>3, <6>4, AnswerBytes
        <5>4. Plain(stdin[1])
          <6>1. ~(e <= 6)
            BY <5>2, <5>3
          <6> QED BY <1>1, <2>3, <4>1, <6>1, FirstOfAnswer
        <5> QED BY <5>1, <5>4 DEF Plain
      <4>5. At(p)' # "read_3"
        BY <1>6
      <4> QED BY <1>1, <3>2, <4>2, <4>3, <4>4, <4>5 DEF Expects
    <3> QED BY <2>1, <3>1, <3>2 DEF Expects
  <2> QED BY <2>2, <2>5
<1> QED BY <1>1, <1>3, <1>4, <1>5, <1>7, <1>8, HaltKept, SizeKept DEF Minds

\* and then up to the R, with which the answer ends.
LEMMA ReadColumnMinds ==
  ASSUME VarsOK, Roles, Minds, OrphanStays, NEW p \in Processes, ReadTo(p, "read_column", "R")
  PROVE  Minds'
<1> USE DEF Roles
<1>1. UNCHANGED <<mode, asked, hup, size, halted, ptysize, winch, meddled, typed>>
      /\ stdin' = SubSeq(stdin, 1 + 1, Len(stdin)) /\ (stdin # <<>> \/ hup)
  BY DEF ReadTo, pty
<1>2. At(p) = "read_column"
      /\ IF stdin = <<>> \/ stdin[1] = "R" THEN Acts(p, {"reset_mode"}, proc[p].old) ELSE Rests
  BY ReadColumnEffect
<1>3. Untouched(Halting) /\ Untouched(Sizing)
  <2>1. /\ At(p) \notin Halting /\ At(p) \notin Sizing
        /\ {"reset_mode"} \cap Halting = {} /\ {"reset_mode"} \cap Sizing = {}
    BY <1>2 DEF Halting, Sizing
  <2> QED BY <1>2, <2>1, ActsUntouched, RestsUntouched
<1>4. \A q \in Processes: At(q) \in Halting => At(q)' \in Halting
  BY <1>3 DEF Untouched
<1>5. Remains("mode") /\ Remains("stop") /\ Remains("size")
  BY <1>1 DEF Remains
<1>6. /\ At(p)' \in {"read_column", "reset_mode"}
      /\ \A q \in Processes: q # p => At(q)' = At(q)
      /\ stdin # <<>> => (stdin[1] = "R" <=> At(p)' = "reset_mode")
  <2>1. CASE stdin = <<>> \/ stdin[1] = "R"
    <3>1. Acts(p, {"reset_mode"}, proc[p].old)
      BY <1>2, <2>1
    <3>2. \A q \in Processes: q # p => proc'[q] = proc[q]
      BY <3>1 DEF Acts
    <3> QED BY <2>1, <3>1, <3>2 DEF Acts, At
  <2>2. CASE stdin # <<>> /\ stdin[1] # "R"
    BY <1>2, <2>2 DEF Rests
  <2> QED BY <2>1, <2>2
<1>7. ModeInv'
  <2>1. At(p)' \in Setting
    BY <1>6 DEF Setting, Answering
  <2> QED BY <2>1 DEF ModeInv
<1>8. AnswerInv'
  <2> SUFFICES ASSUME ~hup, {"answer", "orphan"} \cap meddled = {}, ~({"semi", "R"} \subseteq typed)
               PROVE  /\ \A q \in Processes: Asking(q)' => Expects(q)'
                      /\ (\A q \in Processes: ~Asking(q)') => asked' = 0 /\ AllPlain'
    BY <1>1 DEF AnswerInv
  <2>1. Expects(p) /\ \A q \in Processes: q # p => At(q) \in {"loop", "wait"}
    BY <1>2, Reading DEF Minds, Asking, Answering
  <2>2. \A q \in Processes: Asking(q)' <=> (q = p /\ At(p)' = "read_column")
    BY <1>6, <2>1 DEF Asking, Answering
  <2>3. PICK l \in Nat \ {0}: l = Len(stdin)
    BY <1>1, EmptySeq DEF VarsOK
  <2>4. Taken(1)
    BY <1>1, SubSeqTaken
  <2>5. CASE asked = 1
    <3>1. AllPlain /\ AllPlain' /\ "semi" \in typed
      BY <1>1, <1>2, <2>1, <2>4, <2>5, PlainTaken DEF Expects
    <3>2. At(p)' = "read_column"
      <4>1. Plain(stdin[1])
        BY <2>3, <3>1 DEF AllPlain
      <4>2. stdin[1] # "R"
        BY <3>1, <4>1 DEF Plain
      <4> QED BY <1>1, <1>6, <4>2
    <3>3. Expects(p)'
      BY <1>1, <2>5, <3>1 DEF Expects
    <3> QED BY <2>2, <3>2, <3>3
  <2>6. CASE asked = 0
    <3>1. PICK e \in 1..l: AnswerEndsAt(e) /\ (e <= 2 \/ "semi" \in typed)
      BY <1>2, <2>1, <2>3, <2>6 DEF Expects
    <3>2. IF e <= 6 THEN stdin[1] = Answer[7 - e] ELSE Plain(stdin[1])
      BY <1>1, <2>3, <3>1, FirstOfAnswer
    <3>3. CASE e = 1
      <4>1. e <= 6 /\ 7 - e = 6
        BY <3>3
      <4>2. stdin[1] = "R" /\ At(p)' = "reset_mode"
        BY <1>1, <1>6, <3>2, <4>1, AnswerBytes
      <4>3. AllPlain'
        <5> SUFFICES ASSUME NEW i \in 1..Len(stdin') PROVE Plain(stdin[i])'
          BY DEF AllPlain
        <5>1. PICK j \in 1..Len(stdin): j = i + 1
          BY <2>4 DEF Taken
        <5>2. stdin'[i] = stdin[j]
          BY <2>4, <5>1 DEF Taken
        <5>3. i \in Nat \ {0}
          BY <2>4 DEF Taken
        <5>4. j \notin e - 5..e
          BY <3>3, <5>1, <5>3
        <5>5. Plain(stdin[j])
          BY <3>1, <5>4 DEF AnswerEndsAt
        <5> QED BY <1>1, <5>2, <5>5 DEF Plain
      <4> QED BY <1>1, <2>2, <2>6, <4>2, <4>3
    <3>4. CASE e # 1
      <4>1. stdin[1] # "R"
        <5>1. CASE e <= 6
          <6>1. e \in {2, 3, 4, 5, 6}
            BY <3>1, <3>4, <5>1
          <6>2. 7 - e \in {1, 2, 3, 4, 5}
            BY <6>1
          <6> QED BY <3>2, <5>1, <6>2, AnswerBytes
        <5>2. CASE ~(e <= 6)
          <6>1. Plain(stdin[1]) /\ "semi" \in typed
            BY <3>1, <3>2, <5>2
          <6> QED BY <6>1 DEF Plain
        <5> QED BY <5>1, <5>2
      <4>2. At(p)' = "read_column"
        BY <1>1, <1>6, <4>1
      <4>3. e - 1 \in 1..Len(stdin') /\ AnswerEndsAt(e - 1)'
        BY <1>1, <2>3, <2>4, <3>1, <3>4, AnswerTaken
      <4>4. e - 1 <= 2 \/ "semi" \in typed
        BY <3>1
      <4>5. Expects(p)'
        BY <1>1, <2>6, <4>2, <4>3, <4>4 DEF Expects
      <4> QED BY <2>2, <4>2, <4>5
    <3> QED BY <3>3, <3>4
  <2> QED BY <1>2, <2>1, <2>5, <2>6 DEF Expects
<1> QED BY <1>1, <1>3, <1>4, <1>5, <1>7, <1>8, HaltKept, SizeKept DEF Minds

-----------------------------------------------------------------------------
(* The invariant holds. *)

\* So no step of tkremap or of a copy of it leaves anything to be undone by nobody,
LEMMA ThreadMinds ==
  ASSUME VarsOK, Roles, Minds, OrphanStays, NEW p \in Processes, Thread(p)
  PROVE  Minds'
<1>1. ASSUME \/ ShowOutput(p) \/ SeeHangup(p) \/ SeeDeath \/ RedrawMethod(p) \/ Redraw(p)
             \/ Write(p) \/ WriteAgain(p) \/ GiveUp(p) \/ Fork(p) \/ ForkFails(p) \/ Wait(p)
      PROVE  Minds'
  BY <1>1, IdleThreadMinds
<1>2. ASSUME WaitProgram(p) \/ SetMode(p) \/ RestoreMode(p) \/ StopProgram(p) \/ ContinueProgram(p)
             \/ SignalProgram(p) \/ StopSelf(p)
      PROVE  Minds'
  BY <1>2, WaitProgramMinds, SetModeMinds, RestoreModeMinds, StopProgramMinds, ContinueProgramMinds,
     SignalProgramMinds, StopSelfMinds
<1>3. ASSUME GetSize(p) \/ Narrow(p) \/ Widen(p) \/ Winch(p) PROVE Minds'
  BY <1>3, GetSizeMinds, NarrowMinds, WidenMinds, WinchMinds
<1>4. ASSUME \/ ReadKey(p) \/ Confirm(p) \/ ReadLine(p) \/ AskCursor(p) \/ Read3(p)
             \/ ReadTo(p, "read_row", "semi") \/ ReadTo(p, "read_column", "R") \/ ResetMode(p)
      PROVE  Minds'
  BY <1>4, ReadKeyMinds, AskUserMinds, AskCursorMinds, Read3Minds, ReadRowMinds, ReadColumnMinds,
     ResetModeMinds
<1> QED BY <1>1, <1>2, <1>3, <1>4 DEF Thread, Loop, Call

\* nor does a step of a child,
LEMMA ChildMinds ==
  ASSUME VarsOK, Roles, Minds, OrphanStays, NEW c \in Children, Child(c)
  PROVE  Minds'
<1>1. ASSUME CopyExits(c) PROVE Minds'
  <2>1. UNCHANGED <<stdin, asked, hup, size, halted, ptysize, winch, typed>>
    BY <1>1 DEF CopyExits, pty
  <2> QED BY <1>1, <2>1, EndsMinds DEF CopyExits
<1> QED BY <1>1, IdleChildMinds, OtherReadsMinds, OtherSetsModeMinds DEF Child

\* nor anything around them.
LEMMA EnvironmentMinds ==
  ASSUME VarsOK, Roles, Minds, OrphanStays, Environment
  PROVE  Minds'
BY IdleEnvironmentMinds, DiesMinds, TypeMinds, TerminalAnswersMinds, ResizeMinds, HangUpMinds
   DEF Environment, ProgramDies, ProgramHungUp

\* The invariant is inductive,
LEMMA NextInv ==
  ASSUME Inv, Next
  PROVE  Inv'
<1>1. VarsOK /\ Roles /\ Minds /\ OrphanStays /\ ProcInv
  BY OrphanIsNotForgotten DEF Inv, Roles, Minds
<1>2. ASSUME NEW p \in Processes, Thread(p) PROVE VarsOK' /\ Roles' /\ Minds'
  BY <1>1, <1>2, ThreadTypes, ThreadRoles, ThreadMinds
<1>3. ASSUME NEW c \in Children, Child(c) PROVE VarsOK' /\ Roles' /\ Minds'
  BY <1>1, <1>3, ChildTypes, ChildRoles, ChildMinds
<1>4. ASSUME Environment PROVE VarsOK' /\ Roles' /\ Minds'
  BY <1>1, <1>4, EnvironmentTypes, EnvironmentRoles, EnvironmentMinds
<1>5. VarsOK' /\ Roles' /\ Minds'
  BY <1>2, <1>3, <1>4 DEF Next
<1> QED BY <1>5 DEF Inv, Roles, Minds

\* also when nothing happens,
LEMMA StutterInv ==
  ASSUME Inv, UNCHANGED vars
  PROVE  Inv'
<1> USE DEF vars, terminal, pty
<1>1. VarsOK'
  BY DEF Inv, VarsOK
<1>2. Roles /\ OrphanStays /\ Minds /\ Rests /\ ProcInv'
  BY UnchangedEffect DEF Inv, Roles, OrphanStays, Minds
<1>3. Roles'
  BY <1>2, RestsRoles DEF Roles
<1>4. Minds'
  BY <1>2, RestMinds
<1> QED BY <1>1, <1>3, <1>4 DEF Inv, Roles, Minds

\* and holds when tkremap starts.
LEMMA InitInv ==
  ASSUME Init
  PROVE  Inv
<1>1. PICK C \in SUBSET Children:
        proc = [p \in Processes |-> CASE p = Main -> Copy("terminal")
                                      [] p \in C -> Copy("closed")
                                      [] OTHER -> Absent]
  <2>1. CASE proc = [p \in Processes |-> IF p = Main THEN Copy("terminal") ELSE Absent]
    <3>1. proc = [p \in Processes |-> CASE p = Main -> Copy("terminal")
                                        [] p \in {} -> Copy("closed")
                                        [] OTHER -> Absent]
      BY <2>1
    <3> QED BY <3>1
  <2>2. CASE \E c \in config.children: proc = [p \in Processes |-> CASE p = Main -> Copy("terminal")
                                                        [] p = c -> Copy("closed")
                                                        [] OTHER -> Absent]
    <3>1. PICK c \in config.children: proc = [p \in Processes |-> CASE p = Main -> Copy("terminal")
                                                        [] p = c -> Copy("closed")
                                                        [] OTHER -> Absent]
      BY <2>2
    <3>2. {c} \in SUBSET Children
      BY CommandsAssumption DEF Init
    <3>3. proc = [p \in Processes |-> CASE p = Main -> Copy("terminal")
                                        [] p \in {c} -> Copy("closed")
                                        [] OTHER -> Absent]
      BY <3>1
    <3> QED BY <3>2, <3>3
  <2> QED BY <2>1, <2>2 DEF Init
<1>2. \A p \in Processes: proc[p] \in {Copy("terminal"), Copy("closed"), Absent}
                          /\ (p # Main => proc[p].stdin = "closed")
  BY <1>1, SoundProcess DEF Copy, Absent
<1>3. proc[Main] = Copy("terminal") /\ Main \in Processes
  BY <1>1, ProcessesAssumption DEF Processes
<1>4. /\ \A r \in {Copy("terminal"), Copy("closed"), Absent}:
           Sound(r) /\ Step(r) = "loop" /\ r.child = Null /\ r.is \in {"tkremap", "none"}
      /\ Copy("terminal").is = "tkremap" /\ Copy("terminal").stdin = "terminal"
  BY SoundProcess DEF Copy, Absent
<1>5. \A p \in Processes: Sound(proc[p]) /\ At(p) = "loop" /\ proc[p].child = Null
                          /\ proc[p].is \in {"tkremap", "none"}
  BY <1>2, <1>4 DEF At
<1>6. VarsOK
  <2>1. <<>> \in Seq(Bytes)
    BY EmptySeq
  <2>2. ptysize \in Sizes
    BY DEF Init, FullSize, Sizes
  <2> QED BY <2>1, <2>2 DEF Init, VarsOK, Modes
<1>7. MainInv
  BY <1>3, <1>4 DEF MainInv
<1>8. ProcInv
  <2>1. DOMAIN proc = Processes /\ proc = [p \in Processes |-> proc[p]]
    BY <1>1
  <2>2. \A p \in Processes: proc[p] \in ProcessType
    BY <1>5 DEF Sound
  <2> QED BY <1>5, <2>1, <2>2 DEF ProcInv
<1>9. ChildInv
  BY <1>5 DEF ChildInv
<1>10. TipInv
  <2>1. \A p \in Processes: Tip(p) => p = Main
    BY <1>2, <1>5 DEF Tip, Holder, HasTerminal
  <2> QED BY <2>1 DEF TipInv
<1>11. ModeInv /\ HaltInv
  BY DEF Init, ModeInv, HaltInv
<1>12. SizeInv /\ NarrowInv
  <2>1. ptysize = FullSize(size)
    BY DEF Init
  <2>2. \A p \in Processes: At(p) \notin Sizing
    BY <1>5 DEF Sizing
  <2> QED BY <2>1, <2>2 DEF SizeInv, NarrowInv, Sizing
<1>13. AnswerInv
  <2>1. \A p \in Processes: ~Asking(p)
    BY <1>5 DEF Asking, Answering
  <2>2. AllPlain /\ asked = 0
    BY EmptySeq DEF Init, AllPlain
  <2> QED BY <2>1, <2>2 DEF AnswerInv
<1> QED BY <1>6, <1>7, <1>8, <1>9, <1>10, <1>11, <1>12, <1>13 DEF Inv

\* Every reachable state of tkremap, its copies and children, the terminal and the
\* pty satisfies the inductive invariant; its first parts are the types.
THEOREM InvHolds == Spec => []Inv
<1>1. Init => Inv
  BY InitInv
<1>2. Inv /\ [Next]_vars => Inv'
  BY NextInv, StutterInv
<1> QED BY <1>1, <1>2, PTL DEF Spec

\* However many children are started and however many of their execs fail, what is
\* typed has one reader at most, until a copy of tkremap is ended while it waits.
THEOREM OneReader == Spec => []OneReaderOfTheTerminal
<1>1. ASSUME Inv PROVE OneReaderOfTheTerminal
  <2> DEFINE readers == {p \in Processes: ReadsTerminal(p)}
  <2> SUFFICES ASSUME "orphan" \notin meddled PROVE Cardinality(readers) <= 1
    BY DEF OneReaderOfTheTerminal
  <2>1. \A p, q \in readers: p = q
    BY <1>1, ReadersAreTips DEF Inv, TipInv
  <2>2. CASE readers = {}
    <3>1. Cardinality(readers) = 0
      BY <2>2, FS_EmptySet
    <3> QED BY <3>1
  <2>3. CASE readers # {}
    <3>1. PICK p \in readers: TRUE
      BY <2>3
    <3>2. readers = {p}
      BY <2>1, <3>1
    <3>3. Cardinality({p}) = 1
      BY FS_Singleton
    <3> HIDE DEF readers
    <3> QED BY <3>2, <3>3
  <2> QED BY <2>2, <2>3
<1> QED BY <1>1, InvHolds, PTL

\* The loop of tkremap reads the terminal, and no other process is in a command.
LEMMA LoopIsAlone ==
  ASSUME Inv, Polls(Main), "orphan" \notin meddled
  PROVE  \A p \in Processes: At(p) \in {"loop", "wait"}
<1>1. Main \in Processes /\ At(Main) = "loop"
  BY DEF Polls, At, Step, Processes
<1>2. ReadsTerminal(Main)
  BY DEF Inv, MainInv, Polls, ReadsTerminal, HasTerminal, Tkremap, Does
<1>3. Tip(Main)
  BY <1>1, <1>2, ReadersAreTips DEF Inv
<1> QED BY <1>1, <1>3, OthersAreIdle DEF Inv

\* Whatever command has run, the loop finds the terminal in its mode and the program
\* going on, unless another program or the user's own command has seen to it.
THEOREM LoopFindsAll == Spec => []LoopFindsAllAsItWas
<1>1. ASSUME Inv PROVE LoopFindsAllAsItWas
  <2> SUFFICES ASSUME Polls(Main), "orphan" \notin meddled
               PROVE  (mode = "input" \/ "mode" \in meddled) /\ (halted => "stop" \in meddled)
    BY DEF LoopFindsAllAsItWas
  <2>1. \A p \in Processes: At(p) \in {"loop", "wait"}
    BY <1>1, LoopIsAlone
  <2>2. \A p \in Processes: At(p) \notin Setting /\ At(p) \notin Halting
    BY <2>1 DEF Setting, Answering, Halting
  <2> QED BY <1>1, <2>2 DEF Inv, ModeInv, HaltInv
<1> QED BY <1>1, InvHolds, PTL

\* The pty is as large as the terminal whenever the loop waits, whatever commands,
\* refreshes and SIGWINCH have come in between, but for the cases that it names.
THEOREM PtySize == Spec => []PtyIsAsLargeAsTheTerminal
<1>1. ASSUME Inv PROVE PtyIsAsLargeAsTheTerminal
  <2> SUFFICES ASSUME Polls(Main), Main \notin winch, ~hup, {"size", "orphan"} \cap meddled = {}
               PROVE  ptysize = FullSize(size)
    BY DEF PtyIsAsLargeAsTheTerminal
  <2>1. \A p \in Processes: At(p) # "widen"
    BY <1>1, LoopIsAlone
  <2> QED BY <1>1, <2>1 DEF Inv, SizeInv
<1> QED BY <1>1, InvHolds, PTL

\* The terminal's answer to get_cursor() goes to the one that waits for it, unless
\* the user has typed both ; and R meanwhile, or it has ended.
THEOREM AnswerIsTaken == Spec => []AnswerIsNoInput
<1>1. ASSUME Inv PROVE AnswerIsNoInput
  <2> SUFFICES ASSUME AnswerLeft \/ asked > 0, ~AsksCursor, ~hup, ~({"semi", "R"} \subseteq typed),
                      {"answer", "orphan"} \cap meddled = {}
               PROVE  FALSE
    BY DEF AnswerIsNoInput
  <2>1. \A p \in Processes: ~Asking(p)
    BY <1>1, AskingIsSeen DEF Inv
  <2>2. asked = 0 /\ AllPlain
    BY <1>1, <2>1 DEF Inv, AnswerInv
  <2>3. PICK i \in DOMAIN stdin: stdin[i] \in {"esc", "[", "1"}
    BY <2>2 DEF AnswerLeft
  <2>4. i \in 1..Len(stdin)
    BY <1>1, LenProperties DEF Inv, VarsOK
  <2>5. Plain(stdin[i])
    BY <2>2, <2>4 DEF AllPlain
  <2> QED BY <2>3, <2>5 DEF Plain
<1> QED BY <1>1, InvHolds, PTL
=============================================================================
