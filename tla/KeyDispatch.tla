---------------------------- MODULE KeyDispatch ----------------------------
(***************************************************************************)
(* The key dispatcher of tkremap: handle_key() and everything it can call. *)
(*                                                                         *)
(* tkremap is one thread; what makes the dispatcher hard is re-entrance.   *)
(* handle_key() executes a command, a command may be a group, a rehandle   *)
(* (which calls handle_key() again) or an evaluated line of configuration, *)
(* and all of them read and write the same context_t, some of it after the *)
(* nested call has returned.  The module therefore keeps the C call stack: *)
(* `ctl' is the control point (a call in progress, or a value being        *)
(* returned) and `stack' the frames of the functions that have work left   *)
(* when their callee returns.  One action is the code between two calls.   *)
(*                                                                         *)
(* unbind takes nodes out of the trees while the context and the frames    *)
(* point to them.  Such a pointer is given a name in a tree of its own     *)
(* (Cuts), so that binding the same keys again does not bring it back; a   *)
(* pointer that is in no tree leads to freed memory, and the program goes  *)
(* no further when it follows it (Fault).  What happens to the commands    *)
(* themselves when nothing is bound to them any more is in Ownership.      *)
(***************************************************************************)
EXTENDS Integers, Sequences, FiniteSets

CONSTANTS
  Modes,              \* the keymode_t objects
  Global, Default,    \* the two modes that always exist
  Cuts,               \* bound: the trees that unbind may have cut off while in use
  Keys,               \* the keys the user can press
  KeyInfo,            \* the fields of TermKeyKey that handle_key() looks at
  Calls,              \* the command_call_t objects of the configuration
  Program,            \* what each of them is: a command and its argument
  Options,            \* what main() applies before the loop, in this order
  RehandleDepthMax,   \* REHANDLE_DEPTH_MAX
  ModestackSize,      \* MODESTACK_SIZE, the range of the stack_index bit-field
  RepeatRange,        \* the range of the repeat bit-field, 2^8 in the code
  EffectCap,          \* bound on the history of one key
  NoKey, NoCall, NoNode   \* NULL, for each of the three kinds of pointer

KeyTypes == {"unicode", "function", "keysym", "mouse"}

\* Commands that never touch the dispatcher's state are one operation, "other":
\* only whether they can succeed and fail is kept (key, write: always TRUE).
Operations == {"mask", "pass", "ignore", "mode", "previous", "repeat",
               "rehandle", "group", "bind", "unbind", "unbound", "load",
               "evaluate", "other"}

Separators == {";", "&&", "||"}

\* What an argument may be, by command (cmd->arg after a successful parse).
WellFormed(c) ==
  /\ c.op \in Operations
  /\ c.op = "mode"     => c.mode \in Modes
  /\ c.op = "repeat"   => c.on \in BOOLEAN
  /\ c.op = "other"    => c.results \in SUBSET BOOLEAN \ {{}}
  /\ c.op = "group"    => /\ c.calls \in Seq(Calls)
                          /\ c.seps \in Seq(Separators)
                          /\ Len(c.calls) > 0
                          /\ Len(c.seps) = Len(c.calls) - 1
  /\ c.op = "bind"     => /\ c.keys \in Seq(Keys)
                          /\ Len(c.keys) > 0
                          /\ c.call \in Calls
  /\ c.op = "unbind"   => c.keys \in Seq(Keys) /\ Len(c.keys) > 0
  /\ c.op = "unbound"  => c.types \subseteq KeyTypes /\ c.call \in Calls
  /\ c.op = "load"     => c.files \in Seq(Seq(Calls))
  /\ c.op = "evaluate" => c.lines \subseteq Seq(Calls)

ASSUME ModesAssumption ==
  /\ Global \in Modes /\ Default \in Modes /\ Global # Default
  /\ Cuts \cap Modes = {}
ASSUME NullAssumption ==
  /\ NoKey \notin Keys
  /\ NoCall \notin Calls
  /\ NoNode \notin (Modes \cup Cuts) \X Seq(Keys)
ASSUME KeysAssumption ==
  \A k \in Keys : /\ KeyInfo[k].type \in KeyTypes
                  /\ KeyInfo[k].modified \in BOOLEAN
                  /\ KeyInfo[k].digit \in -1 .. 9
ASSUME ProgramAssumption == \A c \in Calls : WellFormed(Program[c])
ASSUME OptionsAssumption ==
  /\ Options \in Seq([opt : {"conf"}, files : Seq(Seq(Calls))] \cup [opt : {"mode"}, mode : Modes])
ASSUME RangesAssumption ==
  /\ RehandleDepthMax \in Nat
  /\ ModestackSize \in Nat \ {0}
  /\ RepeatRange \in Nat \ {0}
  /\ EffectCap \in Nat \ {0}

VARIABLES
  \* context_t
  mask,             \* the next key is passed as it is
  repeat,           \* the count typed so far
  rehandeled,       \* counts the rehandles (sic)
  stack_index, modestack,
  current_mode,
  current_binding,  \* the chain that is open, or NoNode
  \* the keymode_t objects
  bindings,         \* the binding trees: node -> its command, or NoCall
  unbound,          \* mode -> key type -> command, or NoCall
  repeat_enabled,
  \* the rest of the process
  input,            \* the key whose bytes are in input_buffer
  optind,           \* the option main() handles next
  lexer,            \* _current_lex is not NULL
  ctl, stack,       \* the control point and the frames below it
  \* history of the key being handled, read by properties only
  pressed,          \* the context when the key was read
  effects           \* what the key has done since

context == <<mask, repeat, rehandeled, stack_index, modestack, current_mode, current_binding>>
keymodes == <<bindings, unbound, repeat_enabled>>
history == <<pressed, effects>>
vars == <<context, keymodes, input, optind, lexer, ctl, stack, history>>

-----------------------------------------------------------------------------
\* Binding trees.  A node is named by its mode and the keys that lead to it, and
\* `bindings' is defined on the nodes that are allocated.  Of what unbind has cut off, the
\* first component tells when.

Nodes == (Modes \cup Cuts) \X Seq(Keys)
Root(m) == <<m, <<>>>>
Child(n, k) == <<n[1], Append(n[2], k)>>
HasBinding(n, k) == Child(n, k) \in DOMAIN bindings
HasChildren(n) == \E k \in Keys : HasBinding(n, k)

\* Mutant: only the last node of a chain.
LastNode(m, ks) == {<<m, ks>>}

\* The nodes on the way from the root of m along ks (root included).
Path(m, ks) == {<<m, SubSeq(ks, 1, i)>> : i \in 0 .. Len(ks)}

\* Ctrl/Alt with a character counts as a keysym.
KeyType(k) == IF KeyInfo[k].type = "unicode" /\ KeyInfo[k].modified
              THEN "keysym"
              ELSE KeyInfo[k].type
IsDigit(k, low) == KeyInfo[k].type = "unicode" /\ KeyInfo[k].digit >= low

-----------------------------------------------------------------------------
\* Control points and frames.

Call(c, k) == [at |-> "call", call |-> c, key |-> k]
Handle(k)  == [at |-> "handle", key |-> k]
Return(ok) == [at |-> "return", ok |-> ok]
AtOptions  == [at |-> "options"]
AtPoll     == [at |-> "poll"]
Exited     == [at |-> "exited"]
Crashed    == [at |-> "crashed"]
Fault      == [at |-> "fault"]

Returning == ctl.at = "return"
Calling(op) == ctl.at = "call" /\ Program[ctl.call].op = op
Arg == Program[ctl.call]

Top == stack[Len(stack)]
Below == SubSeq(stack, 1, Len(stack) - 1)
TopIs(f) == Len(stack) > 0 /\ Top.fn = f
Push(frame) == stack' = Append(stack, frame)
Pop == stack' = Below
Replace(frame) == stack' = Append(Below, frame)

Emit(kind, c) ==
  effects' = IF Len(effects) < EffectCap
             THEN Append(effects, [kind |-> kind, call |-> c])
             ELSE effects

\* write_full(program_fd, input_buffer, input_len): nothing before the first key.
WriteRaw == IF input = NoKey THEN UNCHANGED effects ELSE Emit("raw", NoCall)

-----------------------------------------------------------------------------
\* main() up to the event loop.

Init ==
  /\ mask = FALSE /\ repeat = 0 /\ rehandeled = 0
  /\ stack_index = 0
  /\ modestack = [i \in 0 .. ModestackSize - 1 |-> Default]
  /\ current_mode = Default
  /\ current_binding = NoNode
  /\ bindings = [n \in {Root(m) : m \in Modes} |-> NoCall]
  /\ unbound = [m \in Modes |-> [t \in KeyTypes |-> NoCall]]
  /\ repeat_enabled = [m \in Modes |-> FALSE]
  /\ input = NoKey
  /\ optind = 1
  /\ lexer = FALSE
  /\ ctl = AtOptions /\ stack = <<>>
  /\ pressed = [key |-> NoKey, mode |-> Default, chain |-> NoNode, mask |-> FALSE, repeat |-> 0]
  /\ effects = <<>>

\* load_conf() and read_conf_string(): the files, or the one string, that can be read
\* are tried in this order until one of them succeeds.
LoadFrame(files) == [fn |-> "load", files |-> files]

ReadOption ==
  /\ ctl = AtOptions
  /\ optind <= Len(Options)
  /\ LET o == Options[optind] IN
       \/ /\ o.opt = "conf"
          /\ Push(LoadFrame(o.files))
          /\ ctl' = Return(FALSE)
          /\ UNCHANGED <<optind, current_mode>>
       \/ /\ o.opt = "mode"
          /\ current_mode' = o.mode
          /\ optind' = optind + 1
          /\ UNCHANGED <<ctl, stack>>
  /\ UNCHANGED <<mask, repeat, rehandeled, stack_index, modestack, current_binding,
                 keymodes, input, lexer, history>>

OptionReturn ==
  /\ Returning /\ stack = <<>> /\ input = NoKey
  /\ IF ctl.ok THEN ctl' = AtOptions /\ optind' = optind + 1
               ELSE ctl' = Exited /\ UNCHANGED optind
  /\ UNCHANGED <<context, keymodes, input, lexer, stack, history>>

StartProgram ==
  /\ ctl = AtOptions
  /\ optind > Len(Options)
  /\ ctl' = AtPoll
  /\ UNCHANGED <<context, keymodes, input, optind, lexer, stack, history>>

-----------------------------------------------------------------------------
\* The event loop, as far as the dispatcher sees it: one key, handled to the end.

ReadKey ==
  /\ ctl = AtPoll
  /\ \E k \in Keys :
       /\ input' = k
       /\ ctl' = Handle(k)
       /\ pressed' = [key |-> k, mode |-> current_mode, chain |-> current_binding,
                      mask |-> mask, repeat |-> repeat]
  /\ effects' = <<>>
  /\ UNCHANGED <<context, keymodes, optind, lexer, stack>>

\* Mutant: the input buffer is not emptied.
KeyReturnKept ==
  /\ Returning /\ stack = <<>> /\ input # NoKey
  /\ ctl' = AtPoll
  /\ UNCHANGED <<context, keymodes, input, optind, lexer, stack, history>>

KeyReturn ==
  /\ Returning /\ stack = <<>> /\ input # NoKey
  /\ input' = NoKey
  /\ ctl' = AtPoll
  /\ UNCHANGED <<context, keymodes, optind, lexer, stack, history>>

-----------------------------------------------------------------------------
\* handle_key()

\* Mutant: a chain stays open after its last key.
AlwaysOpened(n) == n

\* binding_execute() up to the first execution of the command.  The count is read
\* here; the chain is opened or closed only after the command has returned.
Opened(n) == IF HasChildren(n) THEN n ELSE NoNode

BindingExecute(n, km, k) ==
  IF bindings[n] = NoCall
  THEN /\ current_binding' = Opened(n)
       /\ ctl' = Return(TRUE)
       /\ UNCHANGED <<stack, effects>>
  ELSE LET counted == repeat_enabled[km] /\ repeat > 0 IN
       /\ Push([fn |-> "binding", node |-> n, call |-> bindings[n], key |-> k,
                counted |-> counted, left |-> IF counted THEN repeat - 1 ELSE 0])
       /\ ctl' = Call(bindings[n], k)
       /\ Emit("run", bindings[n])
       /\ UNCHANGED current_binding

\* Executes the unbound command of mode m for the type of k; handle_key() returns 1
\* whatever it returns.
ExecuteUnbound(m, k) ==
  /\ Push([fn |-> "unbound"])
  /\ ctl' = Call(unbound[m][KeyType(k)], k)

\* Mutant: the masked key also closes the chain.
HandleMaskedClosing ==
  /\ ctl.at = "handle"
  /\ mask
  /\ mask' = FALSE
  /\ current_binding' = NoNode
  /\ WriteRaw
  /\ ctl' = Return(TRUE)
  /\ UNCHANGED <<repeat, rehandeled, stack_index, modestack, current_mode,
                 keymodes, input, optind, lexer, stack, pressed>>

HandleMasked ==
  /\ ctl.at = "handle"
  /\ mask
  /\ mask' = FALSE
  /\ WriteRaw
  /\ ctl' = Return(TRUE)
  /\ UNCHANGED <<repeat, rehandeled, stack_index, modestack, current_mode, current_binding,
                 keymodes, input, optind, lexer, stack, pressed>>

InChain == ctl.at = "handle" /\ ~mask /\ current_binding # NoNode

\* The node of the open chain has been freed.
HandleFreed ==
  /\ InChain /\ current_binding \notin DOMAIN bindings
  /\ ctl' = Fault
  /\ UNCHANGED <<context, keymodes, input, optind, lexer, stack, history>>

HandleChain ==
  /\ InChain /\ current_binding \in DOMAIN bindings
  /\ HasBinding(current_binding, ctl.key)
  /\ BindingExecute(Child(current_binding, ctl.key), current_mode, ctl.key)
  /\ UNCHANGED <<mask, repeat, rehandeled, stack_index, modestack, current_mode,
                 keymodes, input, optind, lexer, pressed>>

HandleChainBroken ==
  /\ InChain /\ current_binding \in DOMAIN bindings
  /\ ~HasBinding(current_binding, ctl.key)
  /\ current_binding' = NoNode
  /\ IF unbound[current_mode][KeyType(ctl.key)] # NoCall
     THEN ExecuteUnbound(current_mode, ctl.key)
     ELSE ctl' = Return(TRUE) /\ UNCHANGED stack
  /\ UNCHANGED <<mask, repeat, rehandeled, stack_index, modestack, current_mode,
                 keymodes, input, optind, lexer, history>>

\* Mutant: 0 is a digit although no count has been started.
IsZero(k) == repeat_enabled[current_mode] /\ IsDigit(k, 0) /\ KeyInfo[k].digit = 0

\* No mask, no chain, and not a 0 that continues a count.
IsZeroOfCount(k) ==
  repeat_enabled[current_mode] /\ repeat > 0 /\ IsDigit(k, 0) /\ KeyInfo[k].digit = 0

LookingUp ==
  /\ ctl.at = "handle"
  /\ ~mask /\ current_binding = NoNode
  /\ ~IsZeroOfCount(ctl.key)

\* The mode that is looked up: never the global one, which is only the fallback.
LookupMode == IF current_mode = Global THEN Default ELSE current_mode

\* Mutant: a count that has no width.
ShiftUnbounded(digit) == repeat * 10 + digit

Shift(digit) == (repeat * 10 + digit) % RepeatRange

HandleZero ==
  /\ ctl.at = "handle"
  /\ ~mask /\ current_binding = NoNode
  /\ IsZeroOfCount(ctl.key)
  /\ repeat' = Shift(0)
  /\ ctl' = Return(TRUE)
  /\ Emit("count", NoCall)
  /\ UNCHANGED <<mask, rehandeled, stack_index, modestack, current_mode, current_binding,
                 keymodes, input, optind, lexer, stack, pressed>>

HandleBound ==
  /\ LookingUp
  /\ \E km \in {LookupMode, Global} :
       /\ HasBinding(Root(km), ctl.key)
       /\ km = Global => ~HasBinding(Root(LookupMode), ctl.key)
       /\ BindingExecute(Child(Root(km), ctl.key), km, ctl.key)
  /\ current_mode' = LookupMode
  /\ UNCHANGED <<mask, repeat, rehandeled, stack_index, modestack,
                 keymodes, input, optind, lexer, pressed>>

NotBound(k) == ~HasBinding(Root(LookupMode), k) /\ ~HasBinding(Root(Global), k)

HandleDigit ==
  /\ LookingUp /\ NotBound(ctl.key)
  /\ repeat_enabled[LookupMode] /\ IsDigit(ctl.key, 1)
  /\ repeat' = Shift(KeyInfo[ctl.key].digit)
  /\ current_mode' = LookupMode
  /\ ctl' = Return(TRUE)
  /\ Emit("count", NoCall)
  /\ UNCHANGED <<mask, rehandeled, stack_index, modestack, current_binding,
                 keymodes, input, optind, lexer, stack, pressed>>

HandleUnbound ==
  /\ LookingUp /\ NotBound(ctl.key)
  /\ ~(repeat_enabled[LookupMode] /\ IsDigit(ctl.key, 1))
  /\ repeat' = IF repeat_enabled[LookupMode] THEN 0 ELSE repeat
  /\ current_mode' = LookupMode
  /\ IF unbound[LookupMode][KeyType(ctl.key)] # NoCall
     THEN ExecuteUnbound(LookupMode, ctl.key) /\ UNCHANGED effects
     ELSE ctl' = Return(TRUE) /\ WriteRaw /\ UNCHANGED stack
  /\ UNCHANGED <<mask, rehandeled, stack_index, modestack, current_binding,
                 keymodes, input, optind, lexer, pressed>>

\* Mutant: the loop over the count never ends.
Uncounted(frame) == frame

Countdown(frame) == [frame EXCEPT !.left = @ - 1]

\* The command of a binding has returned: again for the count, or the rest of
\* binding_execute(), which reads the node.
BindingReturn ==
  /\ Returning /\ TopIs("binding")
  /\ IF Top.left > 0
     THEN /\ Replace(Countdown(Top))
          /\ ctl' = Call(Top.call, Top.key)
          /\ Emit("run", Top.call)
          /\ UNCHANGED <<repeat, current_binding>>
     ELSE /\ Top.node \in DOMAIN bindings
          /\ Pop
          /\ repeat' = IF Top.counted THEN 0 ELSE repeat
          /\ current_binding' = Opened(Top.node)
          /\ ctl' = Return(TRUE)
          /\ UNCHANGED effects
  /\ UNCHANGED <<mask, rehandeled, stack_index, modestack, current_mode,
                 keymodes, input, optind, lexer, pressed>>

\* The command has unbound the keys that led to it.
BindingReturnFreed ==
  /\ Returning /\ TopIs("binding")
  /\ Top.left = 0 /\ Top.node \notin DOMAIN bindings
  /\ ctl' = Fault
  /\ UNCHANGED <<context, keymodes, input, optind, lexer, stack, history>>

UnboundReturn ==
  /\ Returning /\ TopIs("unbound")
  /\ Pop
  /\ ctl' = Return(TRUE)
  /\ UNCHANGED <<context, keymodes, input, optind, lexer, history>>

-----------------------------------------------------------------------------
\* The commands (command_call_execute()).

CallMask ==
  /\ Calling("mask")
  /\ mask' = TRUE
  /\ ctl' = Return(TRUE)
  /\ UNCHANGED <<repeat, rehandeled, stack_index, modestack, current_mode, current_binding,
                 keymodes, input, optind, lexer, stack, history>>

CallPass ==
  /\ Calling("pass")
  /\ WriteRaw
  /\ ctl' = Return(TRUE)
  /\ UNCHANGED <<context, keymodes, input, optind, lexer, stack, pressed>>

CallIgnore ==
  /\ Calling("ignore")
  /\ Emit("ignore", NoCall)
  /\ ctl' = Return(TRUE)
  /\ UNCHANGED <<context, keymodes, input, optind, lexer, stack, pressed>>

\* Mutant: an index that does not wrap.
AfterUnbounded(i) == i + 1

\* stack_index is a bit-field: it wraps in both directions.
After(i)  == (i + 1) % ModestackSize
Before(i) == (i + ModestackSize - 1) % ModestackSize

CallMode ==
  /\ Calling("mode")
  /\ stack_index' = After(stack_index)
  /\ current_mode' = Arg.mode
  /\ modestack' = [modestack EXCEPT ![After(stack_index)] = Arg.mode]
  /\ ctl' = Return(TRUE)
  /\ UNCHANGED <<mask, repeat, rehandeled, current_binding,
                 keymodes, input, optind, lexer, stack, history>>

CallPreviousMode ==
  /\ Calling("previous")
  /\ stack_index' = Before(stack_index)
  /\ current_mode' = modestack[Before(stack_index)]
  /\ ctl' = Return(TRUE)
  /\ UNCHANGED <<mask, repeat, rehandeled, modestack, current_binding,
                 keymodes, input, optind, lexer, stack, history>>

CallRepeat ==
  /\ Calling("repeat")
  /\ repeat_enabled' = [repeat_enabled EXCEPT ![current_mode] = Arg.on]
  /\ ctl' = Return(TRUE)
  /\ UNCHANGED <<context, bindings, unbound, input, optind, lexer, stack, history>>

\* Mutant: no limit.
AlwaysRehandle == TRUE

MayRehandle == rehandeled < RehandleDepthMax

\* A rehandle returns what the nested handle_key() returns, so it leaves no frame.
\* In configuration the key is NULL and nothing happens.
CallRehandle ==
  /\ Calling("rehandle")
  /\ IF ctl.key = NoKey
     THEN ctl' = Return(TRUE) /\ UNCHANGED rehandeled
     ELSE IF MayRehandle
     THEN ctl' = Handle(ctl.key) /\ rehandeled' = rehandeled + 1
     ELSE ctl' = Return(FALSE) /\ rehandeled' = 0
  /\ UNCHANGED <<mask, repeat, stack_index, modestack, current_mode, current_binding,
                 keymodes, input, optind, lexer, stack, history>>

CallOther ==
  /\ Calling("other")
  /\ \E ok \in Arg.results : ctl' = Return(ok)
  /\ UNCHANGED <<context, keymodes, input, optind, lexer, stack, history>>

\* bind: the nodes that are missing are allocated, the last one gets the command.
CallBind ==
  /\ Calling("bind")
  /\ LET path == Path(current_mode, Arg.keys)
         last == <<current_mode, Arg.keys>> IN
     bindings' = [n \in DOMAIN bindings \cup path |->
                    IF n = last THEN Arg.call
                    ELSE IF n \in DOMAIN bindings THEN bindings[n]
                    ELSE NoCall]
  /\ ctl' = Return(TRUE)
  /\ UNCHANGED <<context, unbound, repeat_enabled, input, optind, lexer, stack, history>>

\* unbind: the size of its arguments is what malloc() found there.  Behind the last key
\* there is no key that anything is bound to, or there may be one.
SeenKeys(ks) == {SubSeq(ks, 1, size) : size \in 1 .. Len(ks)} \cup {Append(ks, k) : k \in Keys}

\* It deletes the last node, and each one above it whose only binding that was, but never
\* the first.
OneBinding(n) == \A k, l \in Keys : HasBinding(n, k) /\ HasBinding(n, l) => k = l
Deleted(m, ks) ==
  {<<m, SubSeq(ks, 1, i)>> : i \in
     {j \in 2 .. Len(ks) : \A h \in j .. Len(ks) - 1 : OneBinding(<<m, SubSeq(ks, 1, h)>>)}}

\* The subtrees of S: what nothing leads to when S has been deleted.
Subtrees(S) ==
  {n \in DOMAIN bindings :
     \E s \in S : n[1] = s[1] /\ Len(s[2]) <= Len(n[2]) /\ SubSeq(n[2], 1, Len(s[2])) = s[2]}

\* The pointers to nodes, besides those in the trees.
UsedNodes ==
  ({current_binding} \cup {stack[i].node : i \in {j \in DOMAIN stack : stack[j].fn = "binding"}})
    \ {NoNode}
UnusedCuts == Cuts \ {n[1] : n \in UsedNodes}

\* A pointer to what has gone from the trees.
Moved(n, gone, cut) == IF n \in gone THEN <<cut, n[2]>> ELSE n
Repointed(frame, gone, cut) ==
  IF frame.fn = "binding" THEN [frame EXCEPT !.node = Moved(@, gone, cut)] ELSE frame

\* What is deleted is freed, and the rest of its subtrees is found only by the pointers to
\* it.  The command of the last node is not always cleared, see Ownership.
UnbindSeen(seen, cut) ==
  LET last == <<current_mode, seen>>
      freed == Deleted(current_mode, seen)
      gone == Subtrees(freed)
      kept == {n \in DOMAIN bindings \ gone : n[1] \notin UnusedCuts}
      lost == {Moved(n, gone, cut) : n \in gone \ freed}
  IN /\ \E command \in {NoCall, bindings[last]} :
          bindings' = [n \in kept \cup lost |->
                         IF n \in lost THEN bindings[<<current_mode, n[2]>>]
                         ELSE IF n = last THEN command ELSE bindings[n]]
     /\ current_binding' = Moved(current_binding, gone, cut)
     /\ stack' = [i \in DOMAIN stack |-> Repointed(stack[i], gone, cut)]

CallUnbind ==
  /\ Calling("unbind")
  /\ \/ \E seen \in SeenKeys(Arg.keys) :
          /\ <<current_mode, seen>> \in DOMAIN bindings
          /\ UnusedCuts # {}
          /\ UnbindSeen(seen, CHOOSE cut \in UnusedCuts : TRUE)
          /\ ctl' = Return(TRUE)
     \/ /\ ctl' = Return(TRUE)   \* no binding for the keys that are seen
        /\ UNCHANGED <<bindings, current_binding, stack>>
     \/ /\ ctl' = Fault          \* no keys are seen: binding_stack[-1]
        /\ UNCHANGED <<bindings, current_binding, stack>>
  /\ UNCHANGED <<mask, repeat, rehandeled, stack_index, modestack, current_mode,
                 unbound, repeat_enabled, input, optind, lexer, history>>

\* unbound: `pass' is stored as an empty field.
CallUnbound ==
  /\ Calling("unbound")
  /\ unbound' = [unbound EXCEPT ![current_mode] =
                   [t \in KeyTypes |->
                      IF t \notin Arg.types THEN @[t]
                      ELSE IF Program[Arg.call].op = "pass" THEN NoCall
                      ELSE Arg.call]]
  /\ ctl' = Return(TRUE)
  /\ UNCHANGED <<context, bindings, repeat_enabled, input, optind, lexer, stack, history>>

\* Mutant: || runs the next command in any case.
SkipsAfterAnd(sep, ok) == sep = "&&" /\ ~ok

\* Groups: after a command, the separators that do not let the next one run skip it.
Skips(sep, ok) == \/ sep = "&&" /\ ~ok
                  \/ sep = "||" /\ ok
NextInGroup(g, i, ok) == {j \in i + 1 .. Len(g.calls) : ~Skips(g.seps[j - 1], ok)}

CallGroup ==
  /\ Calling("group")
  /\ Push([fn |-> "group", call |-> ctl.call, key |-> ctl.key, pos |-> 1])
  /\ ctl' = Call(Arg.calls[1], ctl.key)
  /\ UNCHANGED <<context, keymodes, input, optind, lexer, history>>

GroupReturn ==
  /\ Returning /\ TopIs("group")
  /\ LET g == Program[Top.call]
         rest == NextInGroup(g, Top.pos, ctl.ok) IN
     \/ /\ rest = {}
        /\ Pop
        /\ ctl' = Return(TRUE)
     \/ \E j \in rest :
        /\ \A i \in rest : j <= i
        /\ Replace([Top EXCEPT !.pos = j])
        /\ ctl' = Call(g.calls[j], Top.key)
  /\ UNCHANGED <<context, keymodes, input, optind, lexer, history>>

CallLoad ==
  /\ Calling("load")
  /\ Push(LoadFrame(Arg.files))
  /\ ctl' = Return(FALSE)
  /\ UNCHANGED <<context, keymodes, input, optind, lexer, history>>

\* Mutant: the mode that was pushed last is restored, not the current one.
ConfFrameOfStack(lines) == [fn |-> "conf", todo |-> lines, restore |-> modestack[stack_index]]

\* read_conf_stream() begins: the mode is saved, the lines are still to be run.
ConfFrame(lines) == [fn |-> "conf", todo |-> lines, restore |-> current_mode]

\* Mutant: the next file is read without a lexer of its own.
LoadNextUnlexed ==
  /\ Returning /\ TopIs("load")
  /\ ~ctl.ok /\ Top.files # <<>>
  /\ stack' = Append(Append(Below, LoadFrame(Tail(Top.files))), ConfFrame(Head(Top.files)))
  /\ ctl' = Return(TRUE)
  /\ UNCHANGED <<context, keymodes, input, optind, lexer, history>>

\* Mutant: the search starts over after a file that fails.
LoadNextAgain ==
  /\ Returning /\ TopIs("load")
  /\ ~ctl.ok /\ Top.files # <<>>
  /\ stack' = Append(stack, ConfFrame(Head(Top.files)))
  /\ lexer' = TRUE
  /\ ctl' = Return(TRUE)
  /\ UNCHANGED <<context, keymodes, input, optind, history>>

LoadNext ==
  /\ Returning /\ TopIs("load")
  /\ ~ctl.ok /\ Top.files # <<>>
  /\ stack' = Append(Append(Below, LoadFrame(Tail(Top.files))), ConfFrame(Head(Top.files)))
  /\ lexer' = TRUE
  /\ ctl' = Return(TRUE)
  /\ UNCHANGED <<context, keymodes, input, optind, history>>

LoadReturn ==
  /\ Returning /\ TopIs("load")
  /\ ctl.ok \/ Top.files = <<>>
  /\ Pop
  /\ UNCHANGED <<context, keymodes, input, optind, lexer, ctl, history>>

\* readline -!: the user types a line, or nothing; a line that fails is asked for
\* again, by a recursive call whose result is dropped (`again').
Again == TopIs("evaluate") /\ Top.again

CallEvaluate ==
  /\ Calling("evaluate")
  /\ LET callers == IF Again THEN Below ELSE stack IN
     \/ /\ stack' = callers
        /\ ctl' = Return(Again)
        /\ UNCHANGED lexer
     \/ \E line \in Arg.lines :
        /\ LET asking == [fn |-> "evaluate", call |-> ctl.call, key |-> ctl.key,
                           again |-> Again] IN
           stack' = Append(Append(callers, asking), ConfFrame(line))
        /\ lexer' = TRUE
        /\ ctl' = Return(TRUE)
  /\ UNCHANGED <<context, keymodes, input, optind, history>>

EvaluateReturn ==
  /\ Returning /\ TopIs("evaluate")
  /\ IF ctl.ok
     THEN Pop /\ ctl' = Return(TRUE)
     ELSE Replace([Top EXCEPT !.again = TRUE]) /\ ctl' = Call(Top.call, Top.key)
  /\ UNCHANGED <<context, keymodes, input, optind, lexer, history>>

\* Mutant: the commands are given the key.
ConfCallWithKey(c) == Call(c, input)

ConfCall(c) == Call(c, NoKey)

\* read_conf_stream(): the commands run with key = NULL, up to the first that fails,
\* and the mode (alone) is restored.
ConfNext ==
  /\ Returning /\ TopIs("conf") /\ lexer
  /\ ctl.ok /\ Top.todo # <<>>
  /\ Replace([Top EXCEPT !.todo = Tail(@)])
  /\ ctl' = ConfCall(Head(Top.todo))
  /\ UNCHANGED <<context, keymodes, input, optind, lexer, history>>

\* Mutant: a command that fails makes it return at once.
ConfReturnEarly ==
  /\ Returning /\ TopIs("conf") /\ lexer
  /\ ~ctl.ok \/ Top.todo = <<>>
  /\ Pop
  /\ lexer' = ~ctl.ok
  /\ current_mode' = IF ctl.ok THEN Top.restore ELSE current_mode
  /\ UNCHANGED <<mask, repeat, rehandeled, stack_index, modestack, current_binding,
                 keymodes, input, optind, ctl, history>>

ConfReturn ==
  /\ Returning /\ TopIs("conf") /\ lexer
  /\ ~ctl.ok \/ Top.todo = <<>>
  /\ Pop
  /\ lexer' = FALSE
  /\ current_mode' = Top.restore
  /\ UNCHANGED <<mask, repeat, rehandeled, stack_index, modestack, current_binding,
                 keymodes, input, optind, ctl, history>>

\* A command that has itself read a configuration has freed the one lexer there is, and
\* lex_lex() or lex_destroy() follows a NULL pointer.
ConfCrash ==
  /\ Returning /\ TopIs("conf") /\ ~lexer
  /\ ctl' = Crashed
  /\ UNCHANGED <<context, keymodes, input, optind, lexer, stack, history>>

-----------------------------------------------------------------------------
Startup == ReadOption \/ OptionReturn \/ StartProgram

HandleKey == \/ HandleMasked \/ HandleFreed \/ HandleChain \/ HandleChainBroken
             \/ HandleZero \/ HandleBound \/ HandleDigit \/ HandleUnbound
             \/ BindingReturn \/ BindingReturnFreed \/ UnboundReturn

Command == \/ CallMask \/ CallPass \/ CallIgnore \/ CallMode \/ CallPreviousMode
           \/ CallRepeat \/ CallRehandle \/ CallOther \/ CallBind \/ CallUnbind
           \/ CallUnbound \/ CallGroup \/ GroupReturn \/ CallLoad \/ LoadNext \/ LoadReturn
           \/ CallEvaluate \/ EvaluateReturn \/ ConfNext \/ ConfReturn \/ ConfCrash

\* Everything but the user: the thread runs on until it polls again.
Run == Startup \/ HandleKey \/ Command \/ KeyReturn

Next == ReadKey \/ Run

Spec == Init /\ [][Next]_vars /\ WF_vars(Run)

-----------------------------------------------------------------------------
\* Types.

Controls ==
  {AtOptions, AtPoll, Exited, Crashed, Fault}
    \cup [at : {"handle"}, key : Keys]
    \cup [at : {"call"}, call : Calls, key : Keys \cup {NoKey}]
    \cup [at : {"return"}, ok : BOOLEAN]

Groups == {c \in Calls : Program[c].op = "group"}

Frames ==
  [fn : {"unbound"}]
    \cup [fn : {"binding"}, node : Nodes, call : Calls, key : Keys,
          counted : BOOLEAN, left : 0 .. RepeatRange - 1]
    \cup [fn : {"group"}, call : Groups, key : Keys \cup {NoKey}, pos : Nat \ {0}]
    \cup [fn : {"load"}, files : Seq(Seq(Calls))]
    \cup [fn : {"conf"}, todo : Seq(Calls), restore : Modes]
    \cup [fn : {"evaluate"}, call : Calls, key : Keys \cup {NoKey}, again : BOOLEAN]

\* Every field of context_t keeps to its bit-field, and pointers point to objects
\* of their kind, or to nodes that have been freed.
TypeOK ==
  /\ mask \in BOOLEAN
  /\ repeat \in 0 .. RepeatRange - 1
  /\ rehandeled \in 0 .. RehandleDepthMax
  /\ stack_index \in 0 .. ModestackSize - 1
  /\ modestack \in [0 .. ModestackSize - 1 -> Modes]
  /\ current_mode \in Modes
  /\ current_binding \in Nodes \cup {NoNode}
  /\ DOMAIN bindings \subseteq Nodes
  /\ \A n \in DOMAIN bindings : bindings[n] \in Calls \cup {NoCall}
  /\ unbound \in [Modes -> [KeyTypes -> Calls \cup {NoCall}]]
  /\ repeat_enabled \in [Modes -> BOOLEAN]
  /\ input \in Keys \cup {NoKey}
  /\ optind \in Nat \ {0}
  /\ lexer \in BOOLEAN
  /\ ctl \in Controls
  /\ stack \in Seq(Frames)

-----------------------------------------------------------------------------
\* Safety properties of every configuration.

\* Every binding can be reached by typing: bind allocates all the nodes of a chain, and
\* unbind leaves none in a mode's tree whose parent it has deleted.
TreeIsClosed ==
  /\ \A m \in Modes : Root(m) \in DOMAIN bindings
  /\ \A n \in DOMAIN bindings :
       n[1] \in Modes /\ n[2] # <<>> => \E p \in DOMAIN bindings, k \in Keys : n = Child(p, k)

\* When the program polls, a chain that is open can be continued, although the commands of
\* the key have opened and closed other chains, changed the modes, and unbound keys of the
\* chains that were open, or of the very chain their own key belongs to.  (It is so if
\* commands of unbound keys never unbind: NeverUnbinds.)
ChainIsOpen ==
  ctl = AtPoll /\ current_binding # NoNode =>
    current_binding \in DOMAIN bindings /\ HasChildren(current_binding)

\* Commands of a configuration, at startup or from readline -! in the middle of a key,
\* never make handle_key() run: not even a rehandle, in a group, in a retried line.
ConfHandlesNoKey ==
  ctl.at = "handle" => \A i \in DOMAIN stack : stack[i].fn # "conf"

\* The bytes that pass writes are those of the key that is handled: however deep the
\* rehandles, a command is given the key in input_buffer (or NULL, in configuration),
\* and the buffer is empty when the program polls.
KeyIsInput ==
  /\ ctl.at = "handle" => ctl.key = input /\ input # NoKey
  /\ ctl.at = "call" => ctl.key \in {input, NoKey}
  /\ ctl.at \in {"options", "poll", "exited"} => input = NoKey /\ stack = <<>>

\* A key has been handled and the program polls again.
Handled == ctl = AtPoll /\ pressed.key # NoKey

\* The key after mask is passed once and only once, and nothing else happens to it: an
\* open chain, the count and the mode are as they were before it.
MaskedKeyIsTransparent ==
  Handled /\ pressed.mask =>
    /\ effects = <<[kind |-> "raw", call |-> NoCall]>>
    /\ ~mask
    /\ current_binding = pressed.chain
    /\ current_mode = pressed.mode
    /\ repeat = pressed.repeat

\* The lexer is there for every command of a configuration, and freed between keys.
LexerIsFreed ==
  /\ ctl.at = "call" /\ TopIs("conf") => lexer
  /\ ctl.at \in {"options", "poll", "exited"} => ~lexer

\* README.md:66: "load FILE: Load configuration file" is a command as any other, also in
\* a configuration file: loading never ends the program.
NestedLoadReturns == ctl # Crashed

\* Nested calls of handle_key() keep to the depth REHANDLE_DEPTH_MAX announces.
NestingIsBounded ==
  Cardinality({i \in DOMAIN stack : stack[i].fn \in {"binding", "unbound"}})
    <= RehandleDepthMax + 1

\* A key bound to load or readline -! leaves the mode it was looked up in, whatever the
\* files and the lines do: they may switch modes, push and pop them, fail half-way, and
\* the next file is read or the line asked for again.
ConfKeepsMode ==
  Returning /\ Len(stack) = 1 /\ Top.fn = "binding"
    /\ Program[Top.call].op \in {"load", "evaluate"} =>
      current_mode = IF pressed.chain = NoNode /\ pressed.mode = Global
                     THEN Default ELSE pressed.mode

-----------------------------------------------------------------------------
\* Conditions on a configuration under which more can be said.

\* The commands S, and those in their groups, neither load nor ask for lines, and every
\* configuration consists of such: no configuration is read while another one is.
Flat(S) ==
  /\ \A c \in S : Program[c].op \notin {"load", "evaluate"}
  /\ \A c \in S : Program[c].op = "group" => Program[c].calls \in Seq(S)
  /\ \A c \in Calls : Program[c].op = "load" => Program[c].files \in Seq(Seq(S))
  /\ \A c \in Calls : Program[c].op = "evaluate" => Program[c].lines \subseteq Seq(S)
  /\ \A i \in DOMAIN Options : Options[i].opt = "conf" => Options[i].files \in Seq(Seq(S))

\* The commands S, and all that they call without a key's binding being executed, never
\* unbind, and the commands of unbound keys are of S.
NeverUnbinds(S) ==
  /\ \A c \in S : Program[c].op # "unbind"
  /\ \A c \in S : Program[c].op = "group" => Program[c].calls \in Seq(S)
  /\ \A c \in S : Program[c].op = "load" => Program[c].files \in Seq(Seq(S))
  /\ \A c \in S : Program[c].op = "evaluate" => Program[c].lines \subseteq Seq(S)
  /\ \A c \in Calls : Program[c].op = "unbound" => Program[c].call \in S

\* No key is bound to a command of R.
Unbindable(R) == \A c \in Calls : Program[c].op = "bind" => Program[c].call \notin R

NeverRepeats == \A c \in Calls : Program[c].op = "repeat" => ~Program[c].on

\* R are the commands that rehandle: rehandle, and the groups with one of them.  No group
\* has two, and counts have no effect on them, because they are the commands of unbound
\* keys only, or because no mode counts.
RehandlesOnce(R) ==
  /\ R \subseteq Calls
  /\ \A c \in R : Program[c].op \in {"rehandle", "group"}
  /\ \A c \in Calls : Program[c].op = "rehandle" => c \in R
  /\ \A c \in Groups : \A i \in DOMAIN Program[c].calls :
       Program[c].calls[i] \in R =>
         /\ c \in R
         /\ \A j \in DOMAIN Program[c].calls : Program[c].calls[j] \in R => i = j
  /\ Unbindable(R) \/ NeverRepeats
=============================================================================
