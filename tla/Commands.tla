------------------------------ MODULE Commands ------------------------------
(***************************************************************************)
(* From the words of a command to what it is to do: the table of commands, *)
(* their options and arguments, and their parse functions, except those of *)
(* bind, unbound and '{', which read the words themselves (Config).        *)
(*                                                                         *)
(* A parsed command is <<name, argument>>.                                 *)
(***************************************************************************)
EXTENDS KeyNames, FiniteSetsExt, Integers

CONSTANTS
  Null,       \* what a function returns that failed
  Nothing     \* the argument of a command that has none

Entry(name, args, opts) == [name |-> name, args |-> args, opts |-> opts]
NoArgs == <<>>

\* In the order in which get_command() looks at it.  An argument with a '+' is
\* one or more, and one with a '*' any number; in the options a ':' follows
\* those that have an argument.
commands == <<
  Entry("{", <<"+COMMAND", "}">>, ""),
  Entry("bind", <<"+KEYs", "COMMAND">>, ""),
  Entry("exec", <<"COMMAND", "*ARGS">>, "sbO:E:I:x"),
  Entry("ignore", NoArgs, ""),
  Entry("key", <<"+KEY">>, "r:"),
  Entry("load", <<"FILE">>, ""),
  Entry("mask", NoArgs, ""),
  Entry("mode", <<"MODE|-p">>, ""),
  Entry("pass", NoArgs, ""),
  Entry("readline", NoArgs, "p:i:x:y:nCk:RA:P:!?"),
  Entry("redraw_method", <<"*KEYS">>, "krs"),
  Entry("rehandle", NoArgs, ""),
  Entry("repeat", <<"on|off">>, ""),
  Entry("signal", <<"SIGNAME|NUM">>, ""),
  Entry("suspend (^Z)", NoArgs, ""),
  Entry("unbind", <<"+KEYs">>, ""),
  Entry("unbound", <<"*TYPE", "COMMAND">>, ""),
  Entry("write", <<"+STRING">>, "r:") >>

\* The first command that the name is a prefix of, if the next one is not such
\* a command as well.
get_command(name) ==
  LET fits == {i \in DOMAIN commands: strprefix(commands[i].name, name)}
      i == Min(fits)
  IN IF fits = {} \/ i + 1 \in fits THEN Null ELSE commands[i]

---------------------------------------------------------------------------
(* Options. *)

\* Letter k of argument i, and what is behind it; argument first is the first
\* that is no option.
parse_options(args, optstr) ==
  LET parse[i \in Nat, k \in Nat] ==
        LET arg == args[i]
            opt == Char(arg, k)
            oc == CHOOSE n \in 1..Len(optstr): Char(optstr, n) = opt
            First(n) == [opts |-> <<>>, first |-> n]
            Option(value, rest) ==
              IF rest = Null THEN Null
              ELSE [rest EXCEPT !.opts = <<[opt |-> opt, arg |-> value]>> \o @]
        IN CASE i > Len(args) -> First(i)
             [] k = 2 /\ (Left(arg, 1) # "-" \/ arg = "-") -> First(i)
             [] k = 2 /\ arg = "--" -> First(i + 1)
             [] k = 2 /\ strprefix(arg, "--") -> Null
             [] k > Len(arg) -> parse[i + 1, 2]
             [] opt \notin Chars(optstr) -> Null
             [] Char(optstr, oc + 1) # ":" -> Option("", parse[i, k + 1])
             [] k < Len(arg) -> Option(Drop(arg, k), parse[i + 1, 2])
             [] i < Len(args) -> Option(args[i + 1], parse[i + 2, 2])
             [] OTHER -> Null
  IN parse[1, 2]

\* All arguments are arguments when the command has no options.
get_options(args, optstr) ==
  IF optstr = "" THEN [opts |-> <<>>, first |-> 1] ELSE parse_options(args, optstr)

check_args(argc, wanted) ==
  \A i \in DOMAIN wanted: Left(wanted[i], 1) # "*" => argc >= i

\* Arguments that the command does not look at, and that nobody complains about.
Surplus(cmd, argc) ==
  argc > Len(cmd.args) /\ \A i \in DOMAIN cmd.args: Left(cmd.args[i], 1) \notin {"+", "*"}

HasOption(opts, o) == \E i \in DOMAIN opts: opts[i].opt = o
LastOf(opts, os, default) ==
  LET i == SelectLastInSeq(opts, LAMBDA x: x.opt \in os)
  IN IF i = 0 THEN default ELSE opts[i]
Argument(opts, o, default) == LastOf(opts, {o}, [arg |-> default]).arg

---------------------------------------------------------------------------
(* Parse functions. *)

Concatenated(strings) == FoldLeft(LAMBDA s, t: s \o t, "", strings)

\* -r, which is kept in 16 bits.
Repeat(opts) == atoi(Argument(opts, "r", "1"))
RepeatIsValid(opts) ==
  \A i \in DOMAIN opts: opts[i].opt = "r" => atoi(opts[i].arg) > 0

ParseWrite(args, opts) ==
  IF ~RepeatIsValid(opts) THEN Null
  ELSE <<"write", <<Concatenated(args), Repeat(opts) % 2^16>> >>

Codes(args) == [i \in DOMAIN args |-> key_parse_get_code[args[i]]]
AllHaveCodes(args) == \A i \in DOMAIN args: key_parse_get_code[args[i]] # NoKey
ParseKeyCommand(args, opts) ==
  IF ~RepeatIsValid(opts) \/ ~AllHaveCodes(args) THEN Null
  ELSE <<"key", <<FlattenSeq(Codes(args)), Repeat(opts) % 2^16>> >>

ParseUnbind(args) ==
  IF \E i \in DOMAIN args: parse_key[args[i]] = NoKey THEN Null
  ELSE <<"unbind", [i \in DOMAIN args |-> parse_key[args[i]]]>>

\* Only the beginnings of "on" and "off" are looked at.
ParseRepeat(args) ==
  CASE Left(args[1], 2) = "on" -> <<"repeat", "on">>
    [] Left(args[1], 2) = "of" -> <<"repeat", "off">>
    [] OTHER -> Null

signals == [INT |-> 2, HUP |-> 1, TERM |-> 15, KILL |-> 9, TSTP |-> 20, STOP |-> 19,
            CONT |-> 18, USR1 |-> 10, USR2 |-> 12, ALRM |-> 14, WINCH |-> 28]
ParseSignal(args) ==
  LET upper == Upper[args[1]]
      name == IF strprefix(upper, "SIG") THEN Drop(upper, 3) ELSE upper
  IN CASE atoi(args[1]) > 0 -> <<"signal", atoi(args[1])>>
       [] atoi(args[1]) = 0 /\ name \in DOMAIN signals -> <<"signal", signals[name]>>
       [] OTHER -> Null

\* A redirection, "" for none: a file, or what PARSE_FILE makes of '-' and '!'.
ParseExec(args, opts) ==
  IF HasOption(opts, "s") /\ Len(args) > 1 THEN Null
  ELSE <<"exec", [background |-> HasOption(opts, "b"),
                  ignore_exitstatus |-> HasOption(opts, "x"),
                  use_shell |-> HasOption(opts, "s"),
                  out |-> Argument(opts, "O", ""),
                  err |-> Argument(opts, "E", ""),
                  in |-> Argument(opts, "I", ""),
                  args |-> args]>>

\* Option -k has an argument, and no effect.
Coordinate(opts, o, default) ==
  LET arg == Argument(opts, o, "") IN IF HasOption(opts, o) THEN atoi(arg) ELSE default
ParseReadline(opts) ==
  <<"readline", [action |-> LastOf(opts, {"!", "?"}, [opt |-> "write"]).opt,
                 newline |-> HasOption(opts, "n"),
                 no_refresh |-> HasOption(opts, "R"),
                 no_clear |-> HasOption(opts, "C"),
                 x |-> Coordinate(opts, "x", 1),
                 y |-> Coordinate(opts, "y", -2),
                 prompt |-> Argument(opts, "p", ""), init |-> Argument(opts, "i", ""),
                 append |-> Argument(opts, "A", ""), prepend |-> Argument(opts, "P", "")]>>

\* Exactly one option.
ParseRedrawMethod(args, opts) ==
  CASE Len(opts) # 1 -> Null
    [] Len(opts) = 1 /\ opts[1].opt = "r" -> <<"redraw_method", <<"resize">> >>
    [] Len(opts) = 1 /\ opts[1].opt = "s" -> <<"redraw_method", <<"srmcup">> >>
    [] OTHER -> IF args = <<>> \/ ~AllHaveCodes(args) THEN Null
                ELSE <<"redraw_method", <<"keys", FlattenSeq(Codes(args))>> >>

Parse(name, args, opts) ==
  CASE name = "write" -> ParseWrite(args, opts)
    [] name = "key" -> ParseKeyCommand(args, opts)
    [] name = "unbind" -> ParseUnbind(args)
    [] name = "repeat" -> ParseRepeat(args)
    [] name = "signal" -> ParseSignal(args)
    [] name = "exec" -> ParseExec(args, opts)
    [] name = "readline" -> ParseReadline(opts)
    [] name = "redraw_method" -> ParseRedrawMethod(args, opts)
    [] name \in {"mode", "load"} -> <<name, args[1]>>
    [] OTHER -> <<name, Nothing>>

\* What command_parse() does with the words it has collected.
Build[cmd \in Range(commands), argv \in Seq(STRING)] ==
  LET options == get_options(argv, cmd.opts)
      args == Drop(argv, options.first - 1)
  IN CASE options = Null -> Null
       [] cmd.args = NoArgs /\ args # <<>> -> Null
       [] ~check_args(Len(args), cmd.args) -> Null
       [] OTHER -> Parse(cmd.name, args, options.opts)
=============================================================================
