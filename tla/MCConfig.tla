------------------------------ MODULE MCConfig ------------------------------
(***************************************************************************)
(* Configurations of one or two statements for Config.  A good statement   *)
(* comes with the command that it says; the others are what a user may get *)
(* wrong, and what the lexer is known to stumble over.                     *)
(***************************************************************************)
EXTENDS Config

MCSymNames == {"Up", "Down", "Left", "Right", "Begin", "Insert", "Delete", "PageUp",
  "PageDown", "Home", "End", "Enter", "Tab", "Backspace", "Escape", "DEL"}

\* xterm's key capabilities, as far as the program knows their names, and some
\* that it has to tell from them.
Csi(bytes) == <<27, 91>> \o bytes
Ss3(byte) == <<27, 79, byte>>
MCTerminfo == <<
  <<"backspace", <<127>> >>, <<"btab", Csi(<<90>>)>>, <<"dc", Csi(<<51, 126>>)>>,
  <<"down", Ss3(66)>>, <<"f1", Ss3(80)>>, <<"home", Ss3(72)>>, <<"ic", Csi(<<50, 126>>)>>,
  <<"left", Ss3(68)>>, <<"npage", Csi(<<54, 126>>)>>, <<"ppage", Csi(<<53, 126>>)>>,
  <<"right", Ss3(67)>>, <<"up", Ss3(65)>>, <<"end", Ss3(70)>>,
  <<"sdc", Csi(<<51, 59, 50, 126>>)>> >>

MCCallResults(command) ==
  CASE command[1] = "load" -> {FALSE}    \* of a file that is there: KeyDispatch
    [] command[1] \in {"exec", "signal", "readline"} -> BOOLEAN
    [] OTHER -> {TRUE}

---------------------------------------------------------------------------
(* What a terminal sends for a key, as xterm documents it: the number of a *)
(* function key, or the final byte of a cursor key, and a second parameter *)
(* that is one more than the sum of the modifiers' weights.                *)

Decimal(n) == IF n < 10 THEN <<48 + n>> ELSE <<48 + (n \div 10), 48 + (n % 10)>>
Weight == [Shift |-> 1, Alt |-> 2, Ctrl |-> 4]
Parameter(mods) ==
  IF mods = {} THEN <<>> ELSE <<59>> \o Decimal(1 + FoldSet(LAMBDA m, n: Weight[m] + n, 0, mods))
Tilde(number, mods) == Csi(Decimal(number) \o Parameter(mods) \o <<126>>)
Final(byte, mods) == IF mods = {} THEN Ss3(byte) ELSE Csi(<<49>> \o Parameter(mods) \o <<byte>>)

Numbers == [F5 |-> 15, F6 |-> 17, F7 |-> 18, F8 |-> 19, F9 |-> 20, F10 |-> 21, F11 |-> 23,
            F12 |-> 24, Insert |-> 2, Delete |-> 3, PageUp |-> 5, PageDown |-> 6]
Finals == [F1 |-> 80, F2 |-> 81, F3 |-> 82, F4 |-> 83, Up |-> 65, Down |-> 66,
           Right |-> 67, Left |-> 68, End |-> 70, Home |-> 72]
Letters == {"a", "g", "Z"}

XtermCode(name, mods) ==
  LET letter == CASE "Ctrl" \in mods -> <<Ord(ToUpper(name)) - 64>>
                  [] "Shift" \in mods -> <<Ord(ToUpper(name))>>
                  [] OTHER -> <<Ord(name)>>
  IN CASE name \in DOMAIN Numbers -> Tilde(Numbers[name], mods)
       [] name \in DOMAIN Finals -> Final(Finals[name], mods)
       [] OTHER -> IF "Alt" \in mods THEN <<27>> \o letter ELSE letter

---------------------------------------------------------------------------
(* Statements. *)

Say(lines, command) == [lines |-> lines, says |-> <<command>>]

Prefix(mods) ==
  (IF "Ctrl" \in mods THEN "Ctrl-" ELSE "") \o (IF "Alt" \in mods THEN "Alt-" ELSE "")
  \o (IF "Shift" \in mods THEN "Shift-" ELSE "")
KeyStatements ==
  {Say(<<"key " \o Prefix(mods) \o name>>, <<"key", <<XtermCode(name, mods), 1>> >>):
     name \in DOMAIN Numbers \cup DOMAIN Finals \cup Letters,
     mods \in SUBSET {"Ctrl", "Alt", "Shift"}}

Write(text, repeat) == <<"write", <<text, repeat>> >>
Plain(name) == <<name, Nothing>>
Uni(ch) == Key("unicode", Ord(ch), "", {})
Ctrl(ch) == Key("unicode", Ord(ch), "", {"Ctrl"})
ExecArgs == [background |-> FALSE, ignore_exitstatus |-> FALSE, use_shell |-> FALSE,
             out |-> "", err |-> "", in |-> "", args |-> <<>>]
ReadlineArgs == [action |-> "write", newline |-> FALSE, no_refresh |-> FALSE,
                 no_clear |-> FALSE, x |-> 1, y |-> -2, prompt |-> "", init |-> "",
                 append |-> "", prepend |-> ""]

Short == {
  Say(<<"wr a">>, Write("a", 1)),
  Say(<<"mask">>, Plain("mask")),
  Say(<<"wr 'a;b}' \"c#\"">>, Write("a;b}c#", 1)) }

Joined == Say(<<"w a\\", "b">>, Write("ab", 1))
Simple == Short \cup {Joined} \cup {
  Say(<<"write -r 3 a b">>, Write("ab", 3)),
  Say(<<"w -r2 \"\\65\\\"\" '\\''">>, Write("A\"'", 2)),
  Say(<<"write \"\\x41\" \"\\0101\\n\"">>, Write("AA\n", 1)),
  Say(<<"write -- -a">>, Write("-a", 1)),
  Say(<<"w a # comment", " ">>, Write("a", 1)),
  Say(<<"w a # a comment takes its newline along", "b">>, Write("ab", 1)),
  Say(<<"# comment", "", "  w \\\\">>, Write("\\\\", 1)),
  Say(<<"mo vi">>, <<"mode", "vi">>),
  Say(<<"mode -p">>, <<"mode", "-p">>),
  Say(<<"rep on">>, <<"repeat", "on">>),
  Say(<<"su">>, Plain("suspend (^Z)")),
  Say(<<"si sigTerm">>, <<"signal", 15>>),
  Say(<<"si 12">>, <<"signal", 12>>),
  Say(<<"ke -r 2 ^g Enter">>, <<"key", <<<<7, 13>>, 2>> >>),
  Say(<<"unbi x C-z">>, <<"unbind", <<Uni("x"), Ctrl("z")>> >>),
  Say(<<"load f">>, <<"load", "f">>),
  Say(<<"exec -bO - ls -l">>,
      <<"exec", [ExecArgs EXCEPT !.background = TRUE, !.out = "-", !.args = <<"ls", "-l">>]>>),
  Say(<<"exec -xs 'a b'">>,
      <<"exec", [ExecArgs EXCEPT !.ignore_exitstatus = TRUE, !.use_shell = TRUE,
                                 !.args = <<"a b">>]>>),
  Say(<<"rea -n -p '> ' -?">>,
      <<"readline", [ReadlineArgs EXCEPT !.newline = TRUE, !.prompt = "> ", !.action = "?"]>>),
  Say(<<"redraw -r">>, <<"redraw_method", <<"resize">> >>) }

\* A statement behind the words of another one.
Behind(text, s, command(_)) ==
  Say(<<text \o " " \o Head(s.lines)>> \o Tail(s.lines), command(Head(s.says)))
Bound(s) ==
  {Behind("bi ^Z x", s, LAMBDA c: <<"bind", <<<<Ctrl("z"), Uni("x")>>, c>> >>),
   Behind("unbo char sym", s, LAMBDA c: <<"unbound", <<{"char", "sym"}, c>> >>),
   Behind("unbound", s, LAMBDA c: <<"unbound", <<{"any"}, c>> >>)}

Glue(lines, text, more) ==    \* text and more behind the last of the lines
  Front(lines) \o <<Last(lines) \o text \o Head(more)>> \o Tail(more)
Group(s, sep, t) ==
  Say(Glue(Glue(<<"">>, "{", s.lines), sep, Glue(t.lines, "}", <<"">>)),
      <<"{", <<Head(s.says), <<IF sep = "" THEN ";" ELSE sep>>, Head(t.says)>> >>)
Lines(s, t) ==    \* the separator is the end of the line
  Say(<<"{">> \o s.lines \o <<"">> \o t.lines \o <<" }">>,
      <<"{", <<Head(s.says), <<";">>, Head(t.says), <<";">> >> >>)
Groups == {Group(s, sep, t): s, t \in Short, sep \in {"&&", "||", ";"}}
            \cup {Lines(s, t): s, t \in Short}
One == {Say(Glue(<<"{ ">>, "", Glue(s.lines, " }", <<"">>)), Head(s.says)): s \in Short}

Some == Group(CHOOSE s \in Short: s.lines = <<"mask">>, "||",
              CHOOSE s \in Short: s.lines = <<"wr a">>)
Nested == {Group(s, "&&", Some): s \in Short} \cup {Group(Some, ";", s): s \in Short}
Deep == UNION {Bound(s): s \in Short \cup One \cup {Some}}
Good == Simple \cup Groups \cup One \cup Nested \cup Deep \cup UNION {Bound(s): s \in Deep}

\* What is wrong with them, if anything, is not for the reader to guess.
Wrong == [lines: {
  <<"foo">>, <<"re">>, <<"mask a">>, <<"mode">>, <<"wr -q a">>, <<"wr -r">>, <<"wr --long">>,
  <<"wr -r 0 a">>, <<"wr a b c d e">>, <<"mode a b">>, <<"key nokey">>, <<"rep x">>,
  <<"sig NONE">>, <<"exec -s a b">>, <<"redraw">>, <<"redraw -s">>, <<"redraw -k ^l">>,
  <<"bind">>, <<"bind x">>, <<"bind x w a">>, <<"bind a b c d mask">>, <<"unbound">>,
  <<"bind nokey mask">>, <<"mask && mask">>, <<"mask }">>, <<";">>, <<"}">>, <<"mask\r">>,
  <<"wr 'a">>, <<"wr a \"b">>, <<"'">>, <<"wr a &b">>, <<"wr a |">>, <<"& mask">>,
  <<"wr a {">>, <<"#c">>, <<"\\">>, <<"{ }">>, <<"{ mask">>, <<"{ mask; foo }">>,
  <<"{ wr a; mode }">>, <<"{ wr a; bind x }">>, <<"{ { mask } mask }">>, <<"{ & mask }">>,
  <<"{ bind x { mask } mask; wr a }">>, <<"{ mask; mask; mask; mask }">>,
  <<"{ mask; wr a; mask; }">>, <<"{ mask ;; }">>, <<"{{mask;mask}&mask}">>,
  <<"unbound & mask">>, <<"{ & mask } }">>, <<"'{' mask }">>
  }, says: {<<>>}]

---------------------------------------------------------------------------

\* Statements one below the other, or one behind the other; with or without
\* the newline at the end.
Terminated(lines, end) ==
  [i \in DOMAIN lines |-> lines[i] \o (IF i = Len(lines) THEN end ELSE "\n")]
File(clean, says, lines, end) ==
  [clean |-> clean, says |-> says, lines |-> Terminated(lines, end)]
Files1(clean, statements) ==
  {File(clean, s.says, s.lines, end): s \in statements, end \in {"", "\n"}}
Files2(clean, first, second) ==
  {File(clean, s.says \o t.says, s.lines \o t.lines, end):
      s \in first, t \in second, end \in {"", "\n"}}
  \cup {File(clean, s.says \o t.says, Glue(s.lines, "; ", t.lines), "\n"):
      s \in first, t \in second}

MCFiles ==
  Files1(TRUE, Good \cup KeyStatements) \cup Files2(TRUE, Simple, Short)
  \cup Files2(TRUE, Short \cup {Joined}, Simple) \cup Files2(TRUE, Groups, Short)
  \cup Files2(TRUE, Short, Deep)
  \cup Files1(FALSE, Wrong) \cup Files2(FALSE, Wrong, Short) \cup Files2(FALSE, Short, Wrong)

---------------------------------------------------------------------------

\* The lexer, the parser and the parse functions of all commands together turn
\* each well-formed text into the commands that it says, in their order, with
\* their arguments, and the key command has the codes that xterm documents.
ReadsAsWritten ==
  file.clean /\ ~lx.past /\ lx.fault = NoFault =>
    /\ pc \notin {"failed", "crashed"}
    /\ IsPrefix(ran, file.says)
    /\ pc = "ok" => ran = file.says

\* The lexer stays in its line and in its buffer.  It leaves the line only at the
\* end of the input, when that is a comment without a newline or a line that is
\* continued in one that is not there, and it writes behind the end of its
\* buffer only when a line was continued, after which bufsz is wrong.
EndsAbruptly ==
  LET last == Last(file.lines)
  IN Continued(last) \/ (Char(last, Len(last)) # "\n" /\ "#" \in Chars(last))
BufferIsRespected ==
  /\ lx.past => EndsAbruptly
  /\ lx.fault = "uninitialised" => lx.past
  /\ lx.fault = "overflow" => lx.joined

\* Reading ends, for every text: no loop of the parser waits for a token that
\* the lexer never returns.
ReadingEnds == <>(pc \in Ends)
=============================================================================
