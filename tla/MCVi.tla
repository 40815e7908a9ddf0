-------------------------------- MODULE MCVi --------------------------------
(***************************************************************************)
(* KeyDispatch under the configuration most users have: `tkremap -v', the  *)
(* builtin configuration of main() followed by confs/vi.conf.  One key     *)
(* stands for each kind of key vi.conf treats alike.                       *)
(***************************************************************************)
EXTENDS KeyDispatch

ViModes == {"global", "default", "vi"}

\* esc and j are bound, ^Z is bound in the global mode only, q is a character and
\* F1 a function key nobody binds, 1 and 0 are digits (0 is bound: Home).
ViKeys == {"esc", "j", "^Z", "q", "F1", "0", "1"}

ViKeyInfo ==
  [k \in ViKeys |->
     [type     |-> CASE k = "F1" -> "function"
                     [] k = "esc" -> "keysym"
                     [] OTHER -> "unicode",
      modified |-> k = "^Z",
      digit    |-> CASE k = "0" -> 0 [] k = "1" -> 1 [] OTHER -> -1]]

Mode(m)      == [op |-> "mode", mode |-> m]
Bind(ks, c)  == [op |-> "bind", keys |-> ks, call |-> c]
Unbound(ts, c) == [op |-> "unbound", types |-> ts, call |-> c]
Or(c, d)     == [op |-> "group", calls |-> <<c, d>>, seps |-> <<"||">>]
Sends        == [op |-> "other", results |-> {TRUE}]
AnyType      == {"unicode", "keysym", "function"}

ViProgram ==
  [mode_global  |-> Mode("global"),
   mode_default |-> Mode("default"),
   mode_vi      |-> Mode("vi"),
   suspend      |-> Sends,
   bind_Z       |-> Bind(<<"^Z">>, "suspend"),
   key_Escape   |-> Sends,
   key_Down     |-> Sends,
   key_Home     |-> Sends,
   bind_esc_vi  |-> Bind(<<"esc">>, "mode_vi"),
   bind_esc_default |-> Bind(<<"esc">>, "mode_default"),
   bind_esc_esc |-> Bind(<<"esc", "esc">>, "key_Escape"),
   bind_j       |-> Bind(<<"j">>, "key_Down"),
   bind_0       |-> Bind(<<"0">>, "key_Home"),
   repeat_on    |-> [op |-> "repeat", on |-> TRUE],
   rehandle     |-> [op |-> "rehandle"],
   pass         |-> [op |-> "pass"],
   ignore       |-> [op |-> "ignore"],
   rehandle_or_pass   |-> Or("rehandle", "pass"),
   rehandle_or_ignore |-> Or("rehandle", "ignore"),
   unbound_default    |-> Unbound(AnyType, "rehandle_or_pass"),
   unbound_vi_any     |-> Unbound(AnyType, "rehandle_or_pass"),
   unbound_vi_char    |-> Unbound({"unicode"}, "rehandle_or_ignore")]

ViCalls == DOMAIN ViProgram

Builtin == [opt |-> "conf", files |-> << <<"mode_global", "bind_Z">> >>]
ViConf  == [opt |-> "conf", files |-> <<
              <<"mode_global", "mode_default",
                "bind_esc_vi", "bind_esc_esc", "unbound_default",
                "mode_vi", "repeat_on",
                "bind_esc_default", "bind_esc_esc", "unbound_vi_any", "unbound_vi_char",
                "bind_j", "bind_0">> >>]
ViOptions == <<Builtin, ViConf, [opt |-> "mode", mode |-> "vi"]>>

\* What NestingCorrect and FlatLoadsReturn suppose of a configuration is so of this one.
ASSUME ViRehandlesOnce == RehandlesOnce({"rehandle", "rehandle_or_pass", "rehandle_or_ignore"})
ASSUME ViIsFlat == Flat(ViCalls)

-----------------------------------------------------------------------------
\* What vi.conf says a key does, given the context it was pressed in.  Each reading is
\* the sequence of effects the key is to have.
Once(kind) == <<[kind |-> kind, call |-> NoCall]>>
Runs(c, n) == [i \in 1 .. n |-> [kind |-> "run", call |-> c]]

\* Without a chain: the mode, then the global mode (whose bindings never take a count),
\* then a count, then the unbound command.
UnboundReading(m, k) ==
  IF m = "vi" /\ KeyType(k) = "unicode" THEN Once("ignore") ELSE Once("raw")

FreshReading(m, k, n) ==
  IF repeat_enabled[m] /\ n > 0 /\ k = "0" THEN Once("count")
  ELSE IF HasBinding(Root(m), k)
  THEN Runs(bindings[Child(Root(m), k)], IF repeat_enabled[m] /\ n > 0 THEN n ELSE 1)
  ELSE IF HasBinding(Root(Global), k) THEN Runs(bindings[Child(Root(Global), k)], 1)
  ELSE IF repeat_enabled[m] /\ k = "1" THEN Once("count")
  ELSE UnboundReading(m, k)

\* In a chain: the chain's binding if the key continues it; if not, the key is read
\* again as if there were no chain.  The count belongs to the key that opened it.
ChainReading(m, n, k) ==
  IF HasBinding(n, k) THEN Runs(bindings[Child(n, k)], 1) ELSE FreshReading(m, k, 0)

Reading(p) == IF p.chain # NoNode
              THEN ChainReading(p.mode, p.chain, p.key)
              ELSE FreshReading(p.mode, p.key, p.repeat)

\* A key that breaks a chain is the only one whose handling depends on the rehandles of
\* the keys before it.
BreaksChain(p) == p.chain # NoNode /\ ~HasBinding(p.chain, p.key)

\* Every key that does not break a chain does exactly what vi.conf says, whatever
\* earlier keys left in the rehandle counter, the count and the mode stack, although
\* the group `rehandle || pass' handles an unbound key up to REHANDLE_DEPTH_MAX times.
KeysDoAsConfigured == Handled /\ ~BreaksChain(pressed) => effects = Reading(pressed)

\* A key that breaks a chain is never lost and never acts twice: what it does is one
\* of the two readings, as a fresh key or as an unbound one.
ChainBreakersActOnce ==
  Handled /\ BreaksChain(pressed) =>
    effects \in {Reading(pressed), UnboundReading(pressed.mode, pressed.key)}

\* A count never outlives the mode or the chain it was typed for: between two keys it
\* is only there when the current mode repeats and no chain is open.
CountIsConfined ==
  ctl = AtPoll /\ repeat > 0 => repeat_enabled[current_mode] /\ current_binding = NoNode

\* Every key that is read is handled to the end, and the program polls again.
EveryKeyIsHandled == (input # NoKey) ~> (ctl = AtPoll)

-----------------------------------------------------------------------------
\* cmd_core.c:116 says that rehandle rehandles the current key: a key that breaks a
\* chain is then handled as if the chain had not been there.
BrokenChainIsRehandled == Handled /\ BreaksChain(pressed) => effects = Reading(pressed)
=============================================================================
