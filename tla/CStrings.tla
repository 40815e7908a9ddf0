------------------------------ MODULE CStrings ------------------------------
(***************************************************************************)
(* Strings and the C functions on them that the reader of configurations   *)
(* uses.  A string of TLA+ is a sequence of characters, of which all that  *)
(* matters here are the ASCII ones.                                        *)
(***************************************************************************)
EXTENDS Naturals, Sequences

\* The printable characters in the order of their codes, 32 to 126.  A module
\* cannot write the one with code 96, a quotation mark: another stands for it.
Ascii ==
  " !\"#$%&'()*+,-./0123456789:;<=>?@ABCDEFGHIJKLMNOPQRSTUVWXYZ[\\]^_'abcdefghijklmnopqrstuvwxyz{|}~"

\* Behind the end there are no characters.
Char(s, i) == IF i > Len(s) THEN "" ELSE SubSeq(s, i, i)
Left(s, n) == IF n > Len(s) THEN s ELSE SubSeq(s, 1, n)
Drop(s, n) == SubSeq(s, n + 1, Len(s))
Chars(s) == {Char(s, i): i \in 1..Len(s)}

Printable == Chars(Ascii)
Digits == Chars("0123456789")
OctalDigits == Chars("01234567")
HexDigits == Chars("0123456789abcdefABCDEF")
LowerCase == Chars("abcdefghijklmnopqrstuvwxyz")
UpperCase == Chars("ABCDEFGHIJKLMNOPQRSTUVWXYZ")

\* The code of a character, and the character of a code.  Characters that the
\* properties need not tell apart are all a question mark.
Ord(ch) == 31 + CHOOSE i \in 1..Len(Ascii): Char(Ascii, i) = ch
Chr(n) ==
  CASE n = 9 -> "\t" [] n = 10 -> "\n" [] n = 13 -> "\r"
    [] n \in 32..126 -> Char(Ascii, n - 31)
    [] OTHER -> "?"

\* The value of a digit of any base up to 16.
Value(ch) == (CHOOSE i \in 1..22: Char("0123456789abcdefABCDEF", i) = ch) - 1
DigitOf(ch) == IF ch \in UpperCase THEN Value(ch) - 6 ELSE Value(ch)

ToUpper(ch) == IF ch \in LowerCase THEN Chr(Ord(ch) - 32) ELSE ch
Upper[s \in STRING] == IF s = "" THEN "" ELSE ToUpper(Char(s, 1)) \o Upper[Drop(s, 1)]

\* strprefix() does not let an empty prefix match.
strprefix(string, prefix) ==
  prefix # "" /\ Len(prefix) <= Len(string) /\ Left(string, Len(prefix)) = prefix

\* strcmp() > 0
Greater(s, t) ==
  \E n \in 0..Len(s) - 1:
    /\ strprefix(t, Left(s, n)) \/ n = 0
    /\ Len(t) = n \/ Ord(Char(s, n + 1)) > Ord(Char(t, n + 1))

\* atoi(), for arguments without a sign or leading blanks.
atoi(s) ==
  LET n == CHOOSE i \in 0..Len(s): /\ Chars(Left(s, i)) \subseteq Digits
                                   /\ i < Len(s) => Char(s, i + 1) \notin Digits
      value[i \in 0..n] == IF i = 0 THEN 0 ELSE 10 * value[i - 1] + Value(Char(s, i))
  IN value[n]
=============================================================================
