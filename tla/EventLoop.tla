----------------------------- MODULE EventLoop -----------------------------
(***************************************************************************)
(* main()'s loop: tkremap between the terminal and the program's pty.      *)
(*                                                                         *)
(* The loop polls both, copies what the program writes, and reads the      *)
(* terminal byte by byte into the input buffer and into termkey until that *)
(* recognises a key.  A lone Escape is told from the start of a longer     *)
(* sequence by waiting ESCDELAY_MS for another byte.  poll()'s answer is a *)
(* snapshot: what it says may have changed when the loop acts on it.       *)
(*                                                                         *)
(* handle_key() is one step here (KeyDispatch is its inside), and no       *)
(* command reads the terminal behind the loop's back.  termkey is external *)
(* and given by what it makes of the bytes it holds.  Values that the code *)
(* leaves behind and never reads again (revents, c, key) are cleared.      *)
(***************************************************************************)
EXTENDS Integers, Sequences

CONSTANTS
  Keys,               \* the keys the user can press, by the name handle_key() sees
  Bytes,              \* what a terminal can send
  Codes,              \* the bytes it sends for each key
  Decode(_),          \* how many of its bytes termkey takes for a key, 0: it waits
  Name(_),            \* the key it makes of these bytes
  Esc,                \* the byte 033
  Escape, Del, Backspace,   \* the keys main() names
  Nul,                \* the initial content of the input buffer
  InputBufferSize,    \* the range of the input_len bit-field, 2^5
  MaxPending,         \* bound: no typing with so many bytes unread,
  MaxSequence,        \*   nor with so many read without a key
  MaxOutput           \* bound: chunks the pty holds for the loop

ASSUME SizeAssumption == InputBufferSize \in Nat \ {0}
ASSUME OutputAssumption == MaxOutput \in Nat \ {0}
ASSUME EscapeAssumption == Esc \in Bytes
ASSUME CodesAssumption ==
  /\ Codes \in [Keys -> Seq(Bytes)]
  /\ \A k \in Keys: Len(Codes[k]) \in 1..InputBufferSize - 1
  /\ Codes[Escape] = <<Esc>>

\* termkey recognises what the terminal sends, at the last byte of each key.  The
\* loop takes an Escape that nothing follows for the key of that name, so no other
\* key's bytes may end in one (Alt-Escape is left out).
Remap(k) == IF k = Del THEN Backspace ELSE k
ASSUME DecodeAssumption ==
  /\ Decode(<<Esc>>) = 0
  /\ \A k \in Keys \ {Escape}:
       /\ Codes[k][Len(Codes[k])] # Esc
       /\ \A n \in 1..Len(Codes[k]) - 1: Decode(SubSeq(Codes[k], 1, n)) = 0
       /\ Decode(Codes[k]) = Len(Codes[k])
       /\ Remap(Name(Codes[k])) = k

VARIABLES
  \* the terminal and its user
  prompt,       \* the bytes of a key come together, none follows a lone Escape
  stdin,        \* "open", "hup": closed, "eof": for ever readable and empty
  pending,      \* bytes sent and not read
  \* the program
  program,      \* "running" or "dead": a zombie until the loop waits for it
  others,       \* whether further processes hold the program's side of the pty
  output,       \* chunks written to the pty and not read
  \* the loop
  pc,           \* where it is
  exit,         \* "no", or what ended it: the "program"'s death, a "signal"
  revents,      \* what poll() returned
  c,            \* the byte read last
  input,        \* input_buffer up to input_len
  termkey,      \* the bytes termkey holds
  key,          \* the key for handle_key()
  \* history
  since,        \* the bytes read since the last key was handled
  keys          \* the keys pressed and not handled, if prompt

terminal == <<stdin, pending>>
pty      == <<program, others, output>>
parser   == <<c, input, termkey, key>>
history  == <<since, keys>>
vars     == <<prompt, terminal, pty, pc, exit, revents, parser, history>>

Nothing == [stdin |-> {}, program |-> {}]

Stops == {"poll", "check", "read", "escape", "push", "handle", "wait"}

Runs == exit = "no"

Init ==
  /\ prompt \in BOOLEAN
  /\ stdin = "open"
  /\ pending = <<>>
  /\ program = "running"
  /\ others = FALSE
  /\ output = 0
  /\ pc = "poll"
  /\ exit = "no"
  /\ revents = Nothing
  /\ c = Nul
  /\ input = <<>>
  /\ termkey = <<>>
  /\ key = <<>>
  /\ since = <<>>
  /\ keys = <<>>

-----------------------------------------------------------------------------
\* The terminal and its user.

MayType ==
  /\ stdin = "open"
  /\ Len(pending) < MaxPending
  /\ Len(since) < MaxSequence
  /\ Len(termkey) < MaxSequence

\* A prompt terminal sends a key at once, and its user lets a lone Escape be one.
Press(k) ==
  /\ prompt
  /\ MayType
  /\ keys # <<>> => keys[Len(keys)] # Escape
  /\ pending' = pending \o Codes[k]
  /\ keys' = Append(keys, k)
  /\ UNCHANGED <<prompt, stdin, pty, pc, exit, revents, parser, since>>

\* Any other sends any byte at any time.
TypeByte(b) ==
  /\ ~prompt
  /\ MayType
  /\ pending' = Append(pending, b)
  /\ UNCHANGED <<prompt, stdin, pty, pc, exit, revents, parser, history>>

EndOfInput ==
  /\ stdin = "open"
  /\ stdin' \in {"hup", "eof"}
  /\ UNCHANGED <<prompt, pending, pty, pc, exit, revents, parser, history>>

\* SIGINT or SIGTERM: sighandler() exits, wherever the loop is.
Signal ==
  /\ exit' = "signal"
  /\ UNCHANGED <<prompt, terminal, pty, pc, revents, parser, history>>

-----------------------------------------------------------------------------
\* The program, while the loop holds the other side of the pty.

PtyHeld == program = "running" \/ others

ProgramWrites ==
  /\ pc # "wait"
  /\ PtyHeld
  /\ output < MaxOutput
  /\ output' = output + 1
  /\ UNCHANGED <<prompt, terminal, program, others, pc, exit, revents, parser, history>>

ProgramDies ==
  /\ program = "running"
  /\ program' = "dead"
  /\ UNCHANGED <<prompt, terminal, others, output, pc, exit, revents, parser, history>>

OthersChange ==
  /\ PtyHeld
  /\ others' = ~others
  /\ UNCHANGED <<prompt, terminal, program, output, pc, exit, revents, parser, history>>

-----------------------------------------------------------------------------
\* poll(), and what the loop does about its answer, in this order.

StdinReady   == (IF pending # <<>> \/ stdin = "eof" THEN {"IN"} ELSE {})
                  \cup (IF stdin = "hup" THEN {"HUP"} ELSE {})
ProgramReady == (IF output > 0 THEN {"IN"} ELSE {})
                  \cup (IF PtyHeld THEN {} ELSE {"HUP"})

PollReturns ==
  /\ pc = "poll"
  /\ StdinReady # {} \/ ProgramReady # {}
  /\ revents' = [stdin |-> StdinReady, program |-> ProgramReady]
  /\ pc' = "check"
  /\ UNCHANGED <<prompt, terminal, pty, exit, parser, history>>

\* A signal with a handler that returns (SIGWINCH) ends a poll() that waits.
PollInterrupted ==
  /\ pc = "poll"
  /\ StdinReady = {} /\ ProgramReady = {}
  /\ revents' = Nothing
  /\ pc' = "check"
  /\ UNCHANGED <<prompt, terminal, pty, exit, parser, history>>

\* Mutant: a hang-up of the pty is taken for output.
HangupIsOutput ==
  /\ pc = "check"
  /\ revents.program # {}
  /\ output' = 0
  /\ pc' = "poll"
  /\ revents' = Nothing
  /\ UNCHANGED <<prompt, terminal, program, others, exit, parser, history>>

ShowOutput ==
  /\ pc = "check"
  /\ "IN" \in revents.program
  /\ output' \in 0..output - 1
  /\ pc' = "poll"
  /\ revents' = Nothing
  /\ UNCHANGED <<prompt, terminal, program, others, exit, parser, history>>

InputReady ==
  /\ pc = "check"
  /\ "IN" \notin revents.program
  /\ "IN" \in revents.stdin
  /\ pc' = "read"
  /\ revents' = Nothing
  /\ UNCHANGED <<prompt, terminal, pty, exit, parser, history>>

\* The terminal is gone: the pty is closed and the program waited for.
StdinClosed ==
  /\ pc = "check"
  /\ "IN" \notin revents.program
  /\ "IN" \notin revents.stdin
  /\ "HUP" \in revents.stdin
  /\ pc' = "wait"
  /\ revents' = Nothing
  /\ UNCHANGED <<prompt, terminal, pty, exit, parser, history>>

ProgramWaitedFor ==
  /\ pc = "wait"
  /\ program = "dead"
  /\ exit' = "program"
  /\ UNCHANGED <<prompt, terminal, pty, pc, revents, parser, history>>

\* Mutant: the program is waited for before its output is read.
CheckProgramFirst ==
  /\ pc = "check"
  /\ revents.stdin = {}
  /\ exit' = IF program = "dead" THEN "program" ELSE exit
  /\ pc' = "poll"
  /\ revents' = Nothing
  /\ UNCHANGED <<prompt, terminal, pty, parser, history>>

\* waitpid(WNOHANG): the loop ends with the program, or goes on.
CheckProgram ==
  /\ pc = "check"
  /\ "IN" \notin revents.program
  /\ revents.stdin = {}
  /\ exit' = IF program = "dead" THEN "program" ELSE exit
  /\ pc' = "poll"
  /\ revents' = Nothing
  /\ UNCHANGED <<prompt, terminal, pty, parser, history>>

-----------------------------------------------------------------------------
\* One byte of input.

\* Mutant: input_len is as wide as an int.
InputNeverWraps ==
  /\ pc = "read"
  /\ pending # <<>>
  /\ c' = Head(pending)
  /\ pending' = Tail(pending)
  /\ input' = Append(input, Head(pending))
  /\ since' = Append(since, Head(pending))
  /\ pc' = IF Head(pending) = Esc THEN "escape" ELSE "push"
  /\ UNCHANGED <<prompt, stdin, pty, exit, revents, termkey, key, keys>>

\* Mutant: only what goes to termkey is stored.
EscapeUnstored ==
  /\ pc = "read"
  /\ pending # <<>>
  /\ c' = Head(pending)
  /\ pending' = Tail(pending)
  /\ input' = IF Head(pending) = Esc THEN input
             ELSE IF Len(input) + 1 < InputBufferSize THEN Append(input, Head(pending)) ELSE <<>>
  /\ since' = Append(since, Head(pending))
  /\ pc' = IF Head(pending) = Esc THEN "escape" ELSE "push"
  /\ UNCHANGED <<prompt, stdin, pty, exit, revents, termkey, key, keys>>

ReadByte ==
  /\ pc = "read"
  /\ pending # <<>>
  /\ c' = Head(pending)
  /\ pending' = Tail(pending)
  /\ input' = IF Len(input) + 1 < InputBufferSize THEN Append(input, Head(pending)) ELSE <<>>
  /\ since' = Append(since, Head(pending))
  /\ pc' = IF Head(pending) = Esc THEN "escape" ELSE "push"
  /\ UNCHANGED <<prompt, stdin, pty, exit, revents, termkey, key, keys>>

ReadNothing ==
  /\ pc = "read"
  /\ pending = <<>>
  /\ stdin # "open"
  /\ pc' = "poll"
  /\ UNCHANGED <<prompt, terminal, pty, exit, revents, parser, history>>

\* Another byte is there within ESCDELAY_MS: part of a sequence.
EscapeFollowed ==
  /\ pc = "escape"
  /\ "IN" \in StdinReady
  /\ pc' = "push"
  /\ UNCHANGED <<prompt, terminal, pty, exit, revents, parser, history>>

\* Mutant: termkey gets the byte of a lone Escape too.
EscapePushed ==
  /\ pc = "escape"
  /\ "IN" \notin StdinReady
  /\ key' = Escape
  /\ termkey' = Append(termkey, c)
  /\ c' = Nul
  /\ pc' = "handle"
  /\ UNCHANGED <<prompt, terminal, pty, exit, revents, input, history>>

\* Mutant: an Escape always starts a sequence.
NoEscapeDelay ==
  /\ pc = "escape"
  /\ "IN" \notin StdinReady
  /\ pc' = "push"
  /\ UNCHANGED <<prompt, terminal, pty, exit, revents, parser, history>>

\* The delay is over, interrupted, or the terminal gone: a key.  termkey never sees it.
EscapeAlone ==
  /\ pc = "escape"
  /\ "IN" \notin StdinReady
  /\ key' = Escape
  /\ c' = Nul
  /\ pc' = "handle"
  /\ UNCHANGED <<prompt, terminal, pty, exit, revents, input, termkey, history>>

PushByte ==
  /\ pc = "push"
  /\ LET bytes == Append(termkey, c)
         n     == Decode(bytes)
     IN IF n \in 1..Len(bytes)
        THEN /\ key' = Remap(Name(SubSeq(bytes, 1, n)))
             /\ termkey' = SubSeq(bytes, n + 1, Len(bytes))
             /\ pc' = "handle"
        ELSE /\ termkey' = bytes
             /\ pc' = "poll"
             /\ UNCHANGED key
  /\ c' = Nul
  /\ UNCHANGED <<prompt, terminal, pty, exit, revents, input, history>>

\* Mutant: the loop goes on after an Escape without resetting input_len.
EscapeKeepsInput ==
  /\ pc = "handle"
  /\ input' = IF key = Escape THEN input ELSE <<>>
  /\ key' = <<>>
  /\ since' = <<>>
  /\ keys' = IF keys = <<>> THEN <<>> ELSE Tail(keys)
  /\ pc' = "poll"
  /\ UNCHANGED <<prompt, terminal, pty, exit, revents, c, termkey>>

HandleKey ==
  /\ pc = "handle"
  /\ input' = <<>>
  /\ key' = <<>>
  /\ since' = <<>>
  /\ keys' = IF keys = <<>> THEN <<>> ELSE Tail(keys)
  /\ pc' = "poll"
  /\ UNCHANGED <<prompt, terminal, pty, exit, revents, c, termkey>>

-----------------------------------------------------------------------------
\* What the one thread does by itself.
Loop ==
  \/ PollReturns \/ ShowOutput \/ InputReady \/ StdinClosed \/ ProgramWaitedFor
  \/ CheckProgram \/ ReadByte \/ ReadNothing \/ EscapeFollowed \/ EscapeAlone
  \/ PushByte \/ HandleKey

Environment ==
  \/ \E k \in Keys: Press(k)
  \/ \E b \in Bytes: TypeByte(b)
  \/ EndOfInput \/ Signal
  \/ ProgramWrites \/ ProgramDies \/ OthersChange \/ PollInterrupted

\* exit() ends everything.
Step == Runs /\ Loop
Next == Step \/ (Runs /\ Environment)

\* The thread runs whenever it can: handle_key() returns, and so does the write
\* to the screen.  Nothing is assumed of the user and the program.
Spec == Init /\ [][Next]_vars /\ WF_vars(Step)

-----------------------------------------------------------------------------
\* Type correctness: every variable holds what its declaration in main() or
\* context_t can.
TypeOK ==
  /\ prompt \in BOOLEAN
  /\ stdin \in {"open", "hup", "eof"}
  /\ pending \in Seq(Bytes)
  /\ program \in {"running", "dead"}
  /\ others \in BOOLEAN
  /\ output \in 0..MaxOutput
  /\ pc \in Stops
  /\ revents \in [stdin: SUBSET {"IN", "HUP"}, program: SUBSET {"IN", "HUP"}]
  /\ exit \in {"no", "program", "signal"}
  /\ c \in Bytes \cup {Nul}
  /\ input \in Seq(Bytes) /\ Len(input) < InputBufferSize
  /\ termkey \in Seq(Bytes \cup {Nul})
  /\ since \in Seq(Bytes)
  /\ keys \in Seq(Keys)

\* The abstract pipe: a key is delivered when handle_key() is called.
Handling == pc = "handle"
PipeQueue == IF Handling THEN pending ELSE since \o pending
PipeDelivered == IF Handling THEN {[key |-> key, raw |-> input]} ELSE {}
PipeKeys == IF Handling /\ keys # <<>> THEN Tail(keys) ELSE keys
Pipe == INSTANCE KeyPipe WITH
  queue <- PipeQueue, delivered <- PipeDelivered, keys <- PipeKeys

\* The input buffer holds exactly the bytes read since the last key, in order;
\* once they are more than it can hold, those since the index last wrapped.
\* This is what pass writes for a key.
InputIsSinceLastKey == input = Pipe!Kept(since)

\* Whatever the terminal sends, and whenever: no byte is lost, doubled or
\* reordered on its way to the input of a key.
PipesBytes == Pipe!ByteSpec

\* With a prompt terminal each key is handled as itself, with its own bytes as
\* input, in the order of the keyboard: the loop implements KeyPipe.
PipesKeys == Pipe!KeySpec

\* The loop ends with the program only when everything that was written to its
\* pty has been copied to the screen, unless a signal has interrupted poll().
ExitShowsAllOutput ==
  [][exit' = "program" /\ pc = "check" /\ revents # Nothing => output = 0]_vars

\* With a prompt terminal, keys are handled as long as any are left, unless the
\* program writes without end (its output goes first) or the input has ended in
\* a way that reads as more input (a last Escape is then taken for a sequence).
KeysKeepMoving ==
  <>[](prompt /\ output = 0 /\ stdin # "eof")
    => []<>(keys = <<>> \/ Handling \/ pc = "wait" \/ ~Runs)

\* When the program has died and nobody else holds its pty, tkremap exits once
\* the user is silent, also when the terminal is gone.
DeathIsNoticed ==
  <>[](program = "dead" /\ ~others /\ pending = <<>> /\ stdin # "eof")
    => <>~Runs
=============================================================================
