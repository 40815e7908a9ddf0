------------------------------ MODULE KeyNames ------------------------------
(***************************************************************************)
(* termkeystuff.c: what a key is called in a configuration, and the bytes  *)
(* that the key command sends for it.                                      *)
(*                                                                         *)
(* libtermkey reads the names (Strpkey, external) and terminfo has the     *)
(* codes of the special keys (Terminfo, external).                         *)
(***************************************************************************)
EXTENDS CStrings, SequencesExt, FiniteSetsExt

CONSTANTS
  NoKey,      \* what is returned for no key, and for no code
  SymNames,   \* the names libtermkey has for special keys
  Terminfo    \* the names and values of the key capabilities of the terminal

---------------------------------------------------------------------------
(* Names. *)

Mods == {"Alt", "Ctrl", "Shift"}
Key(type, code, sym, mods) == [type |-> type, code |-> code, sym |-> sym, mods |-> mods]
TermKeyKey ==
  [type: {"unicode", "function", "keysym"}, code: Nat, sym: SymNames \cup {""},
   mods: SUBSET Mods]

\* The prefixes of the modifiers, and whether ^X is Control with X.
Format(alt, ctrl, shift, caret) ==
  [prefix |-> [Alt |-> alt, Ctrl |-> ctrl, Shift |-> shift], caret |-> caret]
fmts == <<
  Format("M-", "C-", "S-", FALSE),
  Format("A-", "C-", "S-", FALSE),
  Format("Alt-", "Ctrl-", "Shift-", FALSE),
  Format("Meta-", "Ctrl-", "Shift-", FALSE),
  Format("meta-", "ctrl-", "shift-", FALSE),
  Format("M-", "C-", "S-", TRUE) >>

\* termkey_strpkey() with the format fmts[f], when it uses all of def.
Prefixed[str \in STRING, f \in DOMAIN fmts, mods \in SUBSET Mods] ==
  LET prefixes == {m \in Mods: strprefix(str, fmts[f].prefix[m])}
      mod == CHOOSE m \in prefixes: TRUE
  IN CASE prefixes # {} ->
            Prefixed[Drop(str, Len(fmts[f].prefix[mod])), f, mods \cup {mod}]
       [] prefixes = {} /\ str \in SymNames -> Key("keysym", 0, str, mods)
       [] prefixes = {} /\ Len(str) = 1 -> Key("unicode", Ord(str), "", mods)
       [] prefixes = {} /\ strprefix(str, "F") /\ Chars(Drop(str, 1)) \subseteq Digits ->
            Key("function", atoi(Drop(str, 1)), "", mods)
       [] OTHER -> NoKey
Caret[code \in 64..95] ==
  Key("unicode", IF code \in 65..90 THEN code + 32 ELSE code, "", {"Ctrl"})
Strpkey[def \in STRING, f \in DOMAIN fmts] ==
  IF fmts[f].caret /\ Len(def) = 2 /\ Left(def, 1) = "^" /\ Ord(Drop(def, 1)) \in 64..95
  THEN Caret[Ord(Drop(def, 1))]
  ELSE Prefixed[def, f, {}]

\* The letter is upper case with Shift, and lower case with Control.
IsLower(code) == code \in 97..122
IsUpper(code) == code \in 65..90
HasCase(key) == key.type # "keysym"
Shifted[key \in TermKeyKey] ==
  IF "Shift" \in key.mods /\ HasCase(key) /\ IsLower(key.code)
  THEN [key EXCEPT !.code = @ - 32] ELSE key
Controlled[key \in TermKeyKey] ==
  IF "Ctrl" \in key.mods /\ HasCase(key) /\ IsUpper(key.code)
  THEN [key EXCEPT !.code = @ + 32] ELSE key

\* The first format that fits; ^k is tried as ^K at last.
parse_key[def \in STRING] ==
  LET caretUpper == IF strprefix(def, "^") THEN Upper[def] ELSE def
      Fits(d, f) == Strpkey[d, f] # NoKey
      fits == {f \in DOMAIN fmts: Fits(def, f)}
      last == Len(fmts)
  IN CASE fits # {} -> Controlled[Shifted[Strpkey[def, Min(fits)]]]
       [] fits = {} /\ Fits(caretUpper, last) -> Controlled[Shifted[Strpkey[caretUpper, last]]]
       [] OTHER -> NoKey

---------------------------------------------------------------------------
(* Codes. *)

funcs == <<
  <<"backspace", "Backspace">>, <<"begin", "Begin">>, <<"beg", "Begin">>,
  <<"dc", "Delete">>, <<"down", "Down">>, <<"end", "End">>, <<"enter", "Enter">>,
  <<"home", "Home">>, <<"ic", "Insert">>, <<"left", "Left">>, <<"next", "PageDown">>,
  <<"npage", "PageDown">>, <<"ppage", "PageUp">>, <<"previous", "PageUp">>,
  <<"print", "Print">>, <<"right", "Right">>, <<"up", "Up">> >>

\* The binary search between start and end, which count from zero.
funcname2keysym(name) ==
  LET search[start \in Nat, end \in Nat] ==
        LET i == (start + end) \div 2
            func == funcs[i + 1]
        IN CASE name = func[1] -> func[2]
             [] name # func[1] /\ end = start + 1 -> "none"
             [] OTHER -> IF Greater(name, func[1]) THEN search[i, end] ELSE search[start, i]
  IN search[0, Len(funcs)]

\* normal_lookup.  The names of terminfo begin with key_; the table of the
\* shifted keys is filled as well, but nothing reads it.
load_terminfo ==
  LET known == SelectSeq(Terminfo, LAMBDA cap: funcname2keysym(cap[1]) # "none")
  IN [i \in 1..Len(known) |-> <<funcname2keysym(known[i][1]), known[i][2]>>]
     \o << <<"Enter", <<13>> >>, <<"DEL", <<127>> >>, <<"Escape", <<27>> >> >>

\* The last entry of the table for the key.
get_sequence_for_sym(sym) ==
  LET i == SelectLastInSeq(load_terminfo, LAMBDA entry: entry[1] = sym)
  IN IF i = 0 THEN NoKey ELSE load_terminfo[i][2]

get_byte_for_mod(mods) ==
  49 + (IF "Shift" \in mods THEN 1 ELSE 0) + (IF "Alt" \in mods THEN 2 ELSE 0)
     + (IF "Ctrl" \in mods THEN 4 ELSE 0)

\* A char: the difference wraps around.
UnicodeCode(key) ==
  LET c == IF "Ctrl" \in key.mods THEN (key.code + 256 - 96) % 256 ELSE key.code
  IN IF "Alt" \in key.mods THEN <<27, c>> ELSE <<c>>

\* The keys that have a code with modifiers, with the byte they differ in.
SymByte == [Insert |-> 50, Delete |-> 51, PageUp |-> 53, PageDown |-> 54, Up |-> 65,
            Down |-> 66, Right |-> 67, Left |-> 68, End |-> 70, Home |-> 72]
SymCode(key) ==
  LET c == SymByte[key.sym]
      mod == get_byte_for_mod(key.mods)
  IN CASE key.mods = {} -> get_sequence_for_sym(key.sym)
       [] key.mods # {} /\ key.sym \notin DOMAIN SymByte -> NoKey
       [] OTHER -> IF c <= 54 THEN <<27, 91, c, 59, mod, 126>> ELSE <<27, 91, 49, 59, mod, c>>

\* F1 to F12.  The code rejects no number below 1, for which it has no code.
X1(n) == IF n <= 8 THEN 49 ELSE 50
\* Mutant: the digits are those of consecutive numbers.
ConsecutiveX2(n) == <<53, 54, 55, 56, 57, 48, 49, 50>>[n - 4]
X2(n) == <<53, 55, 56, 57, 48, 49, 51, 52>>[n - 4]
FunctionCode(key) ==
  LET n == key.code
      mod == get_byte_for_mod(key.mods)
  IN CASE n > 12 -> NoKey
       [] n <= 4 /\ key.mods = {} -> <<27, 79, 79 + n>>
       [] n <= 4 /\ key.mods # {} -> <<27, 91, X1(n), 59, mod, 79 + n>>
       [] key.mods = {} -> <<27, 91, X1(n), X2(n), 126>>
       [] OTHER -> <<27, 91, X1(n), X2(n), 59, mod, 126>>

get_key_code[key \in TermKeyKey] ==
  CASE key.type = "unicode" -> UnicodeCode(key)
    [] key.type = "keysym" -> SymCode(key)
    [] key.type = "function" -> FunctionCode(key)

key_parse_get_code[def \in STRING] ==
  IF parse_key[def] = NoKey THEN NoKey ELSE get_key_code[parse_key[def]]
=============================================================================
