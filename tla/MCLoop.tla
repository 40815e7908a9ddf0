------------------------------- MODULE MCLoop -------------------------------
(***************************************************************************)
(* EventLoop with a small terminal.  termkey knows plain characters, Alt   *)
(* with a character, ESC [ parameters final and ESC O final, and waits     *)
(* while a sequence may still be one of these.  ESC O that goes on with    *)
(* something else is Alt-O, and the rest stays with termkey.               *)
(***************************************************************************)
EXTENDS EventLoop

TerminalBytes == {"esc", "[", "O", "1", "del"}

Letter(b) == b \in {"[", "O"}   \* what can end a sequence

RECURSIVE TermkeyDecode(_)
TermkeyDecode(s) ==
  IF s = <<>> THEN 0
  ELSE IF s[1] # "esc" THEN 1
  ELSE IF Len(s) = 1 THEN 0
  ELSE CASE s[2] = "[" -> LET ends == {i \in 3..Len(s): Letter(s[i])}
                          IN IF ends = {} THEN 0 ELSE CHOOSE i \in ends: \A j \in ends: i <= j
         [] s[2] = "O" -> IF Len(s) = 2 THEN 0 ELSE IF Letter(s[3]) THEN 3 ELSE 2
         [] s[2] = "esc" -> LET n == TermkeyDecode(Tail(s)) IN IF n = 0 THEN 0 ELSE n + 1
         [] OTHER -> 2

\* A key is named by its bytes, but for the one main() renames.
KeyName(s) == s

EscapeKey    == <<"esc">>
DelKey       == <<"del">>
BackspaceKey == <<"BS">>

\* 1, Alt-1, a cursor key, Escape and Backspace.
PressedKeys == {<<"1">>, <<"esc", "1">>, <<"esc", "[", "O">>, EscapeKey, BackspaceKey}

KeyCodes == [k \in PressedKeys |-> IF k = BackspaceKey THEN <<"del">> ELSE k]
=============================================================================
