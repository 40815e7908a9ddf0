------------------------------- MODULE Lexer -------------------------------
(***************************************************************************)
(* lexer.c: from the lines of a configuration to tokens.                   *)
(*                                                                         *)
(* A lexer_t is a record, and each function of the lexer maps one to the   *)
(* one it leaves behind.  The buffer is a string with the byte 0 in it     *)
(* (a form feed here, which no input has): getline() writes a line over    *)
(* the beginning of the previous one, and what the longer one had behind   *)
(* its end is still there.                                                 *)
(***************************************************************************)
EXTENDS CStrings, FiniteSetsExt

CONSTANTS
  GetlineSize   \* the buffer that getline() allocates first

NUL == "\f"
EOF == "EOF"

\* What lex_lex() returns.
Word == "WORD"
Semicolon == ";"
And == "&&"
Or == "||"
BlockBegin == "{"
BlockEnd == "}"
NewLine == "\n"
MissingQuote == "MISSING_QUOTE"
UnexpectedSymbol == "UNEXPECTED_SYMBOL"
NoToken == ""    \* token_type before the first token, if that is a lone '&' or '|'
Tokens == {EOF, Word, Semicolon, And, Or, BlockBegin, BlockEnd, NewLine,
           MissingQuote, UnexpectedSymbol, NoToken}
NoError == ""    \* error_num is 0
NoFault == ""

\* past, joined, fault and words are not in the code: whether a character behind
\* the line was read, whether a line was continued, what went wrong, and the
\* words returned, with a mark for each piece of text that is no token; ret, ch
\* and val are what functions return, and a local variable.
lexer_t ==
  [in: Seq(STRING), unlexed: BOOLEAN, token: STRING, type: STRING, ret: STRING, val: Nat,
   buf: STRING, end: Nat, c: Nat, ch: STRING, bufsz: Nat, alloc: Nat, error: STRING,
   past: BOOLEAN, joined: BOOLEAN, fault: STRING, words: Seq(STRING)]

issyntax == Chars("'\";{}#|&") \cup {NUL}
isspace == {" ", "\t", "\n", "\r"}

At(l) == Char(l.buf, l.c)
Token(l, text) == [l EXCEPT !.token = @ \o text]    \* token_append()

---------------------------------------------------------------------------
(* Reading lines. *)

\* getline(&lex.buf, &lex.bufsz, lex.in).  bufsz is what the lexer believes
\* the size of the buffer to be, and alloc what it is.
Getline(l) ==
  LET line == Head(l.in)
      need == Len(line) + 1
      size == IF l.bufsz = 0 THEN Max({GetlineSize, need}) ELSE Max({2 * l.bufsz, need})
      fits == need <= l.bufsz
  IN [l EXCEPT !.in = Tail(@),
               !.buf = line \o NUL \o Drop(@, need),
               !.end = need,
               !.bufsz = IF fits THEN @ ELSE size,
               !.alloc = IF fits THEN @ ELSE size,
               !.fault = IF fits /\ need > l.alloc THEN "overflow" ELSE @]

\* A line goes on in the next one when an odd number of backslashes is before
\* its newline, and there is more than that in it.
Continued(line) ==
  LET n == Len(line)
      Backslashes == {i \in 0..n - 1: \A j \in n - i..n - 1: Char(line, j) = "\\"}
  IN n > 1 /\ Char(line, n) = "\n" /\ Max(Backslashes) % 2 = 1

Join[l \in lexer_t] ==
  LET n == l.end - 3    \* without backslash and newline
      text == Left(l.buf, n) \o Head(l.in)
  IN CASE ~Continued(Left(l.buf, l.end - 1)) -> l
       [] l.in = <<>> -> [l EXCEPT !.buf = Left(@, n) \o NUL \o NUL \o Drop(@, n + 2),
                                   !.end = n + 1]
       [] OTHER -> Join[[l EXCEPT !.in = Tail(@),
                                  !.buf = text \o NUL,
                                  !.end = Len(text) + 1,
                                  !.bufsz = @ + Len(Head(l.in)),
                                  !.alloc = Len(text) + 1,
                                  !.joined = TRUE]]

\* The character it returns is left in ch.
feed_buf(l) ==
  IF l.in = <<>> THEN [l EXCEPT !.error = EOF, !.ch = EOF]
  ELSE LET f == Join[Getline(l)] IN [f EXCEPT !.c = 1, !.ch = Left(f.buf, 1)]

\* Past the end of the line the buffer holds what was in it before, and past
\* that, what malloc() found there: nothing can be said of it.
lex_peekc(l) ==
  LET p == [l EXCEPT !.past = @ \/ l.c > l.end]
  IN CASE l.c > Len(l.buf) -> [p EXCEPT !.fault = "uninitialised", !.ch = EOF]
       [] At(l) = NUL -> feed_buf(p)
       [] OTHER -> [p EXCEPT !.ch = At(l)]

lex_getc(l) == [lex_peekc(l) EXCEPT !.c = @ + 1]

lex_unget(l) == [l EXCEPT !.c = @ - 1]

---------------------------------------------------------------------------
(* Tokens. *)

\* The digits of a numeric escape.  val is not reset between the escapes of a
\* token, and is appended as a char.
DigitsOf(base) == CASE base = 8 -> OctalDigits [] base = 10 -> Digits [] base = 16 -> HexDigits
Numeric[l \in lexer_t, base \in {8, 10, 16}] ==
  IF l.ch \in DigitsOf(base)
  THEN Numeric[lex_getc([l EXCEPT !.val = (@ * base + DigitOf(l.ch)) % 256]), base]
  ELSE Token(l, Chr(l.val))

Escaped(ch) ==
  CASE ch = "t" -> "\t" [] ch = "n" -> "\n" [] ch = "r" -> "\r"
    [] ch \in {"a", "b", "v", "f", "e"} -> "?"    \* other control characters
    [] OTHER -> ch

Unterminated(l) == [l EXCEPT !.error = MissingQuote, !.type = MissingQuote]

\* From HAVE_CHAR, with the character in ch.
InDoubleQuotes[l \in lexer_t] ==
  LET Escape(e) ==
        CASE e.ch \in Digits \ {"0"} -> InDoubleQuotes[Numeric[e, 10]]
          [] e.ch \in {"0", "x"} ->
               InDoubleQuotes[Numeric[lex_getc(e), IF e.ch = "x" THEN 16 ELSE 8]]
          [] e.ch = EOF -> Unterminated(e)
          [] OTHER -> InDoubleQuotes[lex_getc(Token(e, Escaped(e.ch)))]
  IN CASE l.ch = "\\" -> Escape(lex_getc(l))
       [] l.ch = "\"" -> [l EXCEPT !.type = Word]
       [] l.ch = EOF -> Unterminated(l)
       [] OTHER -> InDoubleQuotes[lex_getc(Token(l, l.ch))]
read_double_quote(l) == InDoubleQuotes[lex_getc([l EXCEPT !.token = "", !.val = 0])]

InSingleQuotes[l \in lexer_t] ==
  LET e == IF l.ch = "\\" THEN lex_getc(l) ELSE l
  IN CASE l.ch = "'" -> [l EXCEPT !.type = Word]
       [] e.ch = EOF -> Unterminated(e)
       [] OTHER -> InSingleQuotes[lex_getc(Token(e, e.ch))]
read_single_quote(l) == InSingleQuotes[lex_getc([l EXCEPT !.token = ""])]

\* A backslash keeps the next character in the word, and stays in it as well.
InWord[l \in lexer_t] ==
  LET Escape(e) ==
        IF e.ch = EOF THEN InWord[lex_getc(Token(e, l.ch))]
        ELSE LET n == lex_getc(e) IN InWord[lex_getc(Token(n, l.ch \o n.ch))]
  IN CASE l.ch = EOF -> l
       [] l.ch = "\\" -> Escape(lex_peekc(l))
       [] l.ch \in isspace \cup issyntax -> lex_unget(l)
       [] OTHER -> InWord[lex_getc(Token(l, l.ch))]
\* Mutant: it does not say that it was a word.
UntypedWord(l) == InWord[lex_getc([l EXCEPT !.token = ""])]
read_word(l) == [InWord[lex_getc([l EXCEPT !.token = ""])] EXCEPT !.type = Word]

SkipComment[l \in lexer_t] == IF l.ch \in {"\n", EOF} THEN l ELSE SkipComment[lex_getc(l)]

\* The loop of lex_lex(), with the character in ch.  It leaves its answer in type,
\* except for a lone '&' or '|': then type is what it was before.
Scan[l \in lexer_t] ==
  LET Give(t, type) == [t EXCEPT !.type = type, !.ret = type]
      Read(t) == [t EXCEPT !.ret = t.type,
                           !.words = Append(@, IF t.type = Word THEN t.token ELSE t.type)]
      Pair(n) == IF n.ch = l.ch THEN Give(n, l.ch \o l.ch)
                 ELSE [n EXCEPT !.ret = UnexpectedSymbol,
                                !.words = Append(@, UnexpectedSymbol)]
  IN CASE l.ch \in {BlockBegin, BlockEnd} -> Give([l EXCEPT !.token = l.ch], l.ch)
       [] l.ch \in {"&", "|"} -> Pair(lex_getc(l))
       [] l.ch = "\"" -> Read(read_double_quote(l))
       [] l.ch = "'" -> Read(read_single_quote(l))
       [] l.ch \in {Semicolon, NewLine} -> Give(l, l.ch)
       [] l.ch = "#" -> Scan[lex_getc(SkipComment[lex_getc(l)])]
       [] l.ch \in {" ", "\t"} -> Scan[lex_getc(l)]
       [] l.ch = EOF -> Give([l EXCEPT !.error = EOF], EOF)
       [] OTHER -> Read(read_word(lex_unget(l)))

\* Mutant: the end of the input is not remembered.
LexOn(l) == IF l.unlexed THEN [l EXCEPT !.unlexed = FALSE, !.ret = l.type] ELSE Scan[lex_getc(l)]
lex_lex(l) ==
  CASE l.unlexed -> [l EXCEPT !.unlexed = FALSE, !.ret = l.type]
    [] ~l.unlexed /\ l.error # NoError -> [l EXCEPT !.type = EOF, !.ret = EOF]
    [] OTHER -> Scan[lex_getc(l)]

lex_unlex(l) == [l EXCEPT !.unlexed = TRUE]

\* calloc(), and the first line.
calloced ==
  [in |-> <<>>, unlexed |-> FALSE, token |-> "", type |-> NoToken, ret |-> "", val |-> 0,
   buf |-> "", end |-> 0, c |-> 1, ch |-> "", bufsz |-> 0, alloc |-> 0, error |-> NoError,
   past |-> FALSE, joined |-> FALSE, fault |-> NoFault, words |-> <<>>]
lex_init(lines) == feed_buf([calloced EXCEPT !.in = lines])
=============================================================================
