------------------------------- MODULE Config -------------------------------
(***************************************************************************)
(* Reading a configuration: read_conf_stream(), command_parse() and the    *)
(* parse functions that read the input themselves, those of bind, unbound  *)
(* and '{', on top of the lexer.                                           *)
(*                                                                         *)
(* The functions call each other and share one lexer with room for one     *)
(* unread token; each is the frame of a stack, pc says where the topmost   *)
(* one is, and each step takes at most one token.  What a command does     *)
(* when it is called is the subject of other modules: here it is recorded. *)
(***************************************************************************)
EXTENDS Lexer, Commands

CONSTANTS
  Files,          \* the configurations; the field lines has what is in them
  CallResults(_), \* what the call of a command may return
  MaxArgs,        \* COMMAND_MAX_ARGS, 1024
  MaxKeys,        \* CMD_BIND_MAX_KEYS, 256
  MaxCommands     \* CMD_GROUP_MAX_COMMANDS, 1024

VARIABLES
  file,       \* the configuration
  lx,         \* the lexer
  stack,      \* the functions that wait for another one, and their locals
  pc,
  ret,        \* what the last parse function returned
  modes,      \* the modes that exist
  ran,        \* history: the commands that were called,
  heard,      \*   their words,
  dropped     \*   and why there may be words that belong to none of them

vars == <<file, lx, stack, pc, ret, modes, ran, heard, dropped>>
history == <<ran, heard, dropped>>

Ends == {"ok", "failed", "stopped", "crashed"}
UnboundTypes == {"any", "char", "sym", "function", "mouse"}

Init ==
  /\ file \in Files
  /\ lx = calloced
  /\ stack = <<>>
  /\ pc = "open"
  /\ ret = Null
  /\ modes = {"global", "default"}
  /\ ran = <<>> /\ heard = <<>> /\ dropped = {}

\* The top of the stack, and the stack without it and with another one.
Frame == Head(stack)
Push(frame) == stack' = <<frame>> \o stack
Pop == stack' = Tail(stack)
Become(frame) == stack' = <<frame>> \o Tail(stack)

\* The call of a parse function ends.  syntax: command_parse() found no command.
Returned(command, words) == [command |-> command, words |-> words, syntax |-> FALSE]
Failure == Returned(Null, <<>>)
Return(r) == pc' = "returned" /\ ret' = r
Returns(fn) == pc = "returned" /\ stack # <<>> /\ Frame.fn = fn
Failed == ret.command = Null

\* The next token as the lexer that has read it: at most one, and none when pc
\* is elsewhere or the token is not one of these.
Read(place, tokens) ==
  IF pc = place THEN {t \in {lex_lex(lx)}: t.fault = NoFault /\ t.ret \in tokens} ELSE {}

Dropped(why) == dropped' = dropped \cup {why}

\* lex_unlex(): the next function reads the token again.  A lone '&' or '|' has left
\* the type and the text of the token before it, and that one is read again.
PutBack(t) ==
  /\ lx' = lex_unlex(t)
  /\ IF t.ret = UnexpectedSymbol THEN Dropped("symbol") ELSE UNCHANGED dropped

---------------------------------------------------------------------------
(* read_conf_stream() *)

ConfOpen ==
  /\ pc = "open"
  /\ lx' = lex_init(file.lines)
  /\ pc' = "statement"
  /\ UNCHANGED <<file, stack, ret, modes, history>>

ConfNewLine ==
  \E t \in Read("statement", {NewLine}):
    /\ lx' = t
    /\ UNCHANGED <<file, stack, pc, ret, modes, history>>

ConfStatement ==
  \E t \in Read("statement", Tokens \ {NewLine, EOF}):
    /\ PutBack(t)
    /\ pc' = "command"
    /\ UNCHANGED <<file, stack, ret, modes, ran, heard>>

ConfEnd ==
  \E t \in Read("statement", {EOF}):
    /\ lx' = t
    /\ pc' = "ok"
    /\ UNCHANGED <<file, stack, ret, modes, history>>

ConfFailed ==
  /\ pc = "returned" /\ stack = <<>> /\ Failed
  /\ pc' = "failed"
  /\ UNCHANGED <<file, lx, stack, ret, modes, history>>

\* The command is called and freed.  The argument of redraw_method is a number,
\* or one byte into a block: only with -r is it not handed to free().
FreesNoBlock(command) == command[1] = "redraw_method" /\ command[2] # <<"resize">>
ConfCall ==
  /\ pc = "returned" /\ stack = <<>> /\ ~Failed
  /\ \E result \in CallResults(ret.command):
       pc' = CASE FreesNoBlock(ret.command) -> "crashed"
               [] ~FreesNoBlock(ret.command) /\ result -> "terminator"
               [] OTHER -> "stopped"
  /\ ran' = Append(ran, ret.command)
  /\ heard' = heard \o ret.words
  /\ UNCHANGED <<file, lx, stack, ret, modes, dropped>>

ConfTerminator ==
  \E t \in Read("terminator", {Semicolon, NewLine, EOF}):
    /\ lx' = t
    /\ pc' = "statement"
    /\ UNCHANGED <<file, stack, ret, modes, history>>

ConfNoTerminator ==
  \E t \in Read("terminator", Tokens \ {Semicolon, NewLine, EOF}):
    /\ lx' = t
    /\ pc' = "failed"
    /\ UNCHANGED <<file, stack, ret, modes, history>>

---------------------------------------------------------------------------
(* command_parse() *)

CommandExpected ==
  \E t \in Read("command", Tokens \ {Word, BlockBegin}):
    /\ lx' = t
    /\ Return([Failure EXCEPT !.syntax = TRUE])
    /\ UNCHANGED <<file, stack, modes, history>>

CommandUnknown ==
  \E t \in Read("command", {Word, BlockBegin}):
    /\ lx' = t
    /\ get_command(t.token) = Null
    /\ Return(Failure)
    /\ UNCHANGED <<file, stack, modes, history>>

\* The commands that need no words, and all others.  A '{' that is quoted is a word,
\* and begins a group as well.
Locals(cmd, words) ==
  CASE cmd.name = "{" -> [fn |-> "group", items |-> <<>>, words |-> words]
    [] cmd.name = "bind" -> [fn |-> "bind", keys |-> <<>>, words |-> words]
    [] cmd.name = "unbound" -> [fn |-> "unbound", types |-> {}, words |-> words]
    [] OTHER -> [fn |-> "simple", cmd |-> cmd, argv |-> <<>>, words |-> words]
CommandFound ==
  \E t \in Read("command", {Word, BlockBegin}):
    /\ lx' = t
    /\ get_command(t.token) # Null
    /\ LET words == IF t.ret = Word THEN <<t.token>> ELSE <<>>
           frame == Locals(get_command(t.token), words)
       IN Push(frame) /\ pc' = frame.fn
    /\ UNCHANGED <<file, ret, modes, history>>

CommandWord ==
  \E t \in Read("simple", {Word}):
    /\ lx' = t
    /\ IF Len(Frame.argv) = MaxArgs
       THEN Return(Failure) /\ Pop
       ELSE /\ Become([Frame EXCEPT !.argv = Append(@, t.token), !.words = Append(@, t.token)])
            /\ UNCHANGED <<pc, ret>>
    /\ UNCHANGED <<file, modes, history>>

Terminators == {EOF, Or, And, NewLine, BlockEnd, Semicolon}
\* Neither a word nor a terminator: the loop goes on.
CommandIgnores ==
  \E t \in Read("simple", Tokens \ (Terminators \cup {Word})):
    /\ lx' = t
    /\ Dropped("token")
    /\ UNCHANGED <<file, stack, pc, ret, modes, ran, heard>>

\* mode makes the mode it names when it is parsed.
CommandBuilt ==
  \E t \in Read("simple", Terminators):
    /\ lx' = lex_unlex(t)
    /\ \E command \in {Build[Frame.cmd, Frame.argv]}:
         /\ Return(Returned(command, Frame.words)) /\ Pop
         /\ modes' = IF command # Null /\ command[1] = "mode" /\ command[2] # "-p"
                     THEN modes \cup {command[2]} ELSE modes
         /\ IF command # Null /\ Surplus(Frame.cmd, Len(Frame.argv))
            THEN Dropped("surplus") ELSE UNCHANGED dropped
    /\ UNCHANGED <<file, ran, heard>>

---------------------------------------------------------------------------
(* bind and unbound *)

\* All words that can be keys are keys, also if a command was meant.
IsKey(t) == t.ret = Word /\ parse_key[t.token] # NoKey
BindKey ==
  \E t \in Read("bind", {Word}):
    /\ lx' = t
    /\ Len(Frame.keys) < MaxKeys /\ IsKey(t)
    /\ Become([Frame EXCEPT !.keys = Append(@, parse_key[t.token]),
                            !.words = Append(@, t.token)])
    /\ UNCHANGED <<file, pc, ret, modes, history>>

BindTooManyKeys ==
  \E t \in Read("bind", {Word}):
    /\ lx' = t
    /\ Len(Frame.keys) = MaxKeys
    /\ Return(Failure) /\ Pop
    /\ UNCHANGED <<file, modes, history>>

\* Mutant: the word that is no key is not put back.
BindCommandTaken ==
  \E t \in Read("bind", Tokens):
    /\ lx' = t
    /\ ~IsKey(t) /\ (t.ret = Word => Len(Frame.keys) < MaxKeys)
    /\ IF Frame.keys = <<>>
       THEN Return(Failure) /\ Pop
       ELSE pc' = "command" /\ UNCHANGED <<stack, ret>>
    /\ UNCHANGED <<file, modes, history>>
BindCommand ==
  \E t \in Read("bind", Tokens):
    /\ PutBack(t)
    /\ ~IsKey(t) /\ (t.ret = Word => Len(Frame.keys) < MaxKeys)
    /\ IF Frame.keys = <<>>
       THEN Return(Failure) /\ Pop
       ELSE pc' = "command" /\ UNCHANGED <<stack, ret>>
    /\ UNCHANGED <<file, modes, ran, heard>>

UnboundType ==
  \E t \in Read("unbound", {Word}):
    /\ lx' = t
    /\ t.token \in UnboundTypes
    /\ Become([Frame EXCEPT !.types = @ \cup {t.token}, !.words = Append(@, t.token)])
    /\ UNCHANGED <<file, pc, ret, modes, history>>

UnboundCommand ==
  \E t \in Read("unbound", Tokens):
    /\ PutBack(t)
    /\ t.ret = Word => t.token \notin UnboundTypes
    /\ pc' = "command"
    /\ UNCHANGED <<file, stack, ret, modes, ran, heard>>

\* Without types the flags are those of any.
BindReturn ==
  /\ Returns("bind") \/ Returns("unbound")
  /\ LET argument ==
           CASE Frame.fn = "bind" -> Frame.keys
             [] Frame.fn = "unbound" /\ Frame.types = {} -> {"any"}
             [] OTHER -> Frame.types
     IN ret' = IF Failed THEN Failure
               ELSE Returned(<<Frame.fn, <<argument, ret.command>> >>, Frame.words \o ret.words)
  /\ Pop
  /\ UNCHANGED <<file, lx, pc, modes, history>>

---------------------------------------------------------------------------
(* The group: commands and separators in turn, as the call of it expects. *)

GroupNewLine ==
  \E t \in Read("group", {NewLine}):
    /\ lx' = t
    /\ UNCHANGED <<file, stack, pc, ret, modes, history>>

GroupCommand ==
  \E t \in Read("group", Tokens \ {NewLine}):
    /\ PutBack(t)
    /\ pc' = "command"
    /\ UNCHANGED <<file, stack, ret, modes, ran, heard>>

\* commands[size++] = ...: nothing keeps size below the size of the array.
HasRoom == Len(Frame.items) < MaxCommands
Separators == {NewLine, Semicolon, And, Or}

\* Only a command at an even place, counted from zero, will be called.
GroupReturn ==
  /\ Returns("group") /\ ~Failed /\ HasRoom
  /\ Become([Frame EXCEPT !.items = Append(@, ret.command),
                          !.words = IF Len(Frame.items) % 2 = 0 THEN @ \o ret.words ELSE @])
  /\ pc' = "separator"
  /\ UNCHANGED <<file, lx, ret, modes, history>>

\* One command without a separator is that command.
GroupDone ==
  /\ Return(CASE Frame.items = <<>> -> Failure
              [] Len(Frame.items) = 1 -> Returned(Frame.items[1], Frame.words)
              [] OTHER -> Returned(<<"{", Frame.items>>, Frame.words))
  /\ Pop

\* The token that was read last is read again: a '}' ends the group, whatever
\* command was not parsed because of it.
GroupReturnFailed ==
  /\ Returns("group") /\ Failed /\ HasRoom
  /\ lx' = lex_lex(lex_unlex(lx))
  /\ IF lx.type = BlockEnd THEN GroupDone ELSE Return(Failure) /\ Pop
  /\ IF lx.type = BlockEnd /\ ~ret.syntax THEN Dropped("command") ELSE UNCHANGED dropped
  /\ UNCHANGED <<file, modes, ran, heard>>

GroupSeparator ==
  \E t \in Read("separator", Separators):
    /\ lx' = t
    /\ HasRoom
    /\ Become([Frame EXCEPT !.items = Append(@, <<IF t.ret = NewLine THEN ";" ELSE t.ret>>)])
    /\ pc' = "group"
    /\ UNCHANGED <<file, ret, modes, history>>

GroupEnd ==
  \E t \in Read("separator", {BlockEnd}):
    /\ lx' = t
    /\ GroupDone
    /\ UNCHANGED <<file, modes, history>>

\* Mutant: the loop looks for a separator until there is one.
GroupNoSeparatorYet ==
  \E t \in Read("separator", Tokens \ (Separators \cup {BlockEnd})):
    /\ lx' = t
    /\ UNCHANGED <<file, stack, pc, ret, modes, history>>
\* Any other token is taken for no separator, the end of the input too.
GroupNoSeparator ==
  \E t \in Read("separator", Tokens \ (Separators \cup {BlockEnd})):
    /\ lx' = t
    /\ pc' = "group"
    /\ IF t.ret = EOF THEN UNCHANGED dropped ELSE Dropped("separator")
    /\ UNCHANGED <<file, stack, ret, modes, ran, heard>>

GroupOverflow ==
  /\ \/ Returns("group")
     \/ Read("separator", Separators) # {}
  /\ ~HasRoom
  /\ pc' = "crashed"
  /\ UNCHANGED <<file, lx, stack, ret, modes, history>>

---------------------------------------------------------------------------

Reading == {"statement", "terminator", "command", "simple", "bind", "unbound", "group",
            "separator"}
Crash ==
  /\ pc \in Reading
  /\ lx' = lex_lex(lx)
  /\ lx'.fault # NoFault
  /\ pc' = "crashed"
  /\ UNCHANGED <<file, stack, ret, modes, history>>

Step ==
  \/ ConfOpen \/ ConfNewLine \/ ConfStatement \/ ConfEnd \/ ConfFailed \/ ConfCall
  \/ ConfTerminator \/ ConfNoTerminator
  \/ CommandExpected \/ CommandUnknown \/ CommandFound \/ CommandWord \/ CommandIgnores
  \/ CommandBuilt
  \/ BindKey \/ BindTooManyKeys \/ BindCommand \/ UnboundType \/ UnboundCommand \/ BindReturn
  \/ GroupNewLine \/ GroupCommand \/ GroupReturn \/ GroupReturnFailed \/ GroupSeparator
  \/ GroupEnd \/ GroupNoSeparator \/ GroupOverflow
  \/ Crash

Finished == pc \in Ends /\ UNCHANGED vars

Next == Step \/ Finished

Spec == Init /\ [][Next]_vars /\ WF_vars(Step)

---------------------------------------------------------------------------

\* A configuration that is read without complaint has been executed to the last
\* word: whatever command_parse() and the parse functions read ahead and put
\* back, no word is taken by a function that has no use for it - but for the
\* places where the code does so (dropped).
NoWordIsLost == pc = "ok" /\ dropped = {} => heard = lx.words

\* t is what lex_lex() makes of l when it reads on: it keeps the words, and says of
\* what it adds to them whether that was a word; all else is no word.
ReadsOn(l, t) ==
  /\ t \in lexer_t /\ ~t.unlexed
  /\ t.words = l.words \o CASE t.ret = Word -> <<t.token>>
                            [] t.ret \in {MissingQuote, UnexpectedSymbol} -> <<t.ret>>
                            [] OTHER -> <<>>
  /\ t.ret # UnexpectedSymbol => t.type = t.ret
  /\ t.ret = EOF => t.error # NoError

\* The part of the lexer in NoWordIsLost: where the parser reads on, each word that
\* is passed over is the token that lex_lex() returns, and the end is remembered.
LexerCountsWords ==
  /\ pc = "open" => LET l == lex_init(file.lines)
                    IN l \in lexer_t /\ ~l.unlexed /\ l.words = <<>>
  /\ pc \in Reading /\ ~lx.unlexed /\ lx.error = NoError =>
       LET t == lex_lex(lx) IN t.fault = NoFault => ReadsOn(lx, t)
=============================================================================
