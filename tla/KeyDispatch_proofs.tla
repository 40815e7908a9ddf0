------------------------- MODULE KeyDispatch_proofs -------------------------
(***************************************************************************)
(* Theorems about KeyDispatch, for every configuration, every set of keys  *)
(* and modes, and every width of the bit-fields.                           *)
(***************************************************************************)
EXTENDS KeyDispatch, SequenceTheorems, TLAPS

-----------------------------------------------------------------------------
\* Control points and frames are what their constructors make them.

\* The control points that the actions build are control points.
LEMMA ControlsMade ==
  /\ AtOptions \in Controls /\ AtPoll \in Controls
  /\ Exited \in Controls /\ Crashed \in Controls /\ Fault \in Controls
  /\ \A ok \in BOOLEAN : Return(ok) \in Controls
  /\ \A k \in Keys : Handle(k) \in Controls
  /\ \A c \in Calls, k \in Keys \cup {NoKey} : Call(c, k) \in Controls
BY DEF Controls, AtOptions, AtPoll, Exited, Crashed, Fault, Return, Handle, Call

\* What the key, the call and the result of a control point are.
LEMMA ControlsRead ==
  ASSUME NEW c \in Controls
  PROVE  /\ c.at = "handle" => c.key \in Keys /\ c = Handle(c.key)
         /\ c.at = "call"   => c.call \in Calls /\ c.key \in Keys \cup {NoKey}
         /\ c.at = "return" => c.ok \in BOOLEAN
BY DEF Controls, AtOptions, AtPoll, Exited, Crashed, Fault, Handle

\* The frames that the actions push are frames.
LEMMA FramesMade ==
  /\ [fn |-> "unbound"] \in Frames
  /\ \A n \in Nodes, c \in Calls, k \in Keys, b \in BOOLEAN, l \in 0 .. RepeatRange - 1 :
       [fn |-> "binding", node |-> n, call |-> c, key |-> k, counted |-> b, left |-> l] \in Frames
  /\ \A c \in Groups, k \in Keys \cup {NoKey}, p \in Nat \ {0} :
       [fn |-> "group", call |-> c, key |-> k, pos |-> p] \in Frames
  /\ \A files \in Seq(Seq(Calls)) : LoadFrame(files) \in Frames
  /\ \A todo \in Seq(Calls), m \in Modes :
       [fn |-> "conf", todo |-> todo, restore |-> m] \in Frames
  /\ \A c \in Calls, k \in Keys \cup {NoKey}, b \in BOOLEAN :
       [fn |-> "evaluate", call |-> c, key |-> k, again |-> b] \in Frames
BY DEF Frames, LoadFrame

\* What the fields of a frame are, by the function it belongs to.
LEMMA FramesRead ==
  ASSUME NEW f \in Frames
  PROVE  /\ f.fn = "binding" =>
              /\ f.node \in Nodes /\ f.call \in Calls /\ f.key \in Keys
              /\ f.counted \in BOOLEAN /\ f.left \in 0 .. RepeatRange - 1
              /\ f = [fn |-> "binding", node |-> f.node, call |-> f.call, key |-> f.key,
                      counted |-> f.counted, left |-> f.left]
         /\ f.fn = "group" =>
              /\ f.call \in Groups /\ f.key \in Keys \cup {NoKey} /\ f.pos \in Nat \ {0}
              /\ f = [fn |-> "group", call |-> f.call, key |-> f.key, pos |-> f.pos]
         /\ f.fn = "load" =>
              /\ f.files \in Seq(Seq(Calls))
              /\ f = [fn |-> "load", files |-> f.files]
         /\ f.fn = "conf" =>
              /\ f.todo \in Seq(Calls) /\ f.restore \in Modes
              /\ f = [fn |-> "conf", todo |-> f.todo, restore |-> f.restore]
         /\ f.fn = "evaluate" =>
              /\ f.call \in Calls /\ f.key \in Keys \cup {NoKey} /\ f.again \in BOOLEAN
              /\ f = [fn |-> "evaluate", call |-> f.call, key |-> f.key, again |-> f.again]
BY DEF Frames

\* The frames that remain after a push, a pop or a change of the top are frames.
LEMMA StackTypes ==
  ASSUME stack \in Seq(Frames)
  PROVE  /\ \A f \in Frames : Append(stack, f) \in Seq(Frames)
         /\ stack # <<>> => Len(stack) > 0
         /\ Len(stack) > 0 => /\ Top \in Frames
                              /\ Below \in Seq(Frames)
                              /\ \A f \in Frames : Append(Below, f) \in Seq(Frames)
BY DEF Top, Below

-----------------------------------------------------------------------------
(***************************************************************************)
(* Type correctness.                                                       *)
(***************************************************************************)

\* context_init() and the zeroed globals have their types.
LEMMA TypeInit == Init => TypeOK
<1> SUFFICES ASSUME Init PROVE TypeOK
  OBVIOUS
<1>1. mask \in BOOLEAN /\ lexer \in BOOLEAN
  BY Zenon DEF Init
<1>2. /\ repeat \in 0 .. RepeatRange - 1
      /\ rehandeled \in 0 .. RehandleDepthMax
      /\ stack_index \in 0 .. ModestackSize - 1
      /\ optind \in Nat \ {0}
  BY RangesAssumption DEF Init
<1>3. modestack \in [0 .. ModestackSize - 1 -> Modes]
  BY ModesAssumption DEF Init
<1>4. /\ current_mode \in Modes
      /\ current_binding \in Nodes \cup {NoNode}
      /\ input \in Keys \cup {NoKey}
  BY ModesAssumption DEF Init
<1>5. DOMAIN bindings \subseteq Nodes /\ \A n \in DOMAIN bindings : bindings[n] = NoCall
  <2>1. <<>> \in Seq(Keys)
    OBVIOUS
  <2>2. \A m \in Modes : Root(m) \in Nodes
    BY <2>1 DEF Nodes, Root
  <2> QED
    BY <2>2 DEF Init
<1>6. unbound \in [Modes -> [KeyTypes -> Calls \cup {NoCall}]]
  BY DEF Init
<1>7. repeat_enabled \in [Modes -> BOOLEAN]
  BY DEF Init
<1>8. ctl \in Controls /\ stack \in Seq(Frames)
  BY ControlsMade DEF Init
<1> QED
  BY <1>1, <1>2, <1>3, <1>4, <1>5, <1>6, <1>7, <1>8 DEF TypeOK

\* Executing a binding keeps the types of what it changes.
LEMMA BindingExecuteTypes ==
  ASSUME TypeOK, NEW n \in DOMAIN bindings, NEW km \in Modes, NEW k \in Keys,
         BindingExecute(n, km, k)
  PROVE  /\ current_binding' \in Nodes \cup {NoNode}
         /\ ctl' \in Controls
         /\ stack' \in Seq(Frames)
<1>1. CASE bindings[n] = NoCall
  BY <1>1, ControlsMade DEF BindingExecute, Opened, TypeOK
<1>2. CASE bindings[n] # NoCall
  <2>1. bindings[n] \in Calls /\ n \in Nodes
    BY <1>2 DEF TypeOK
  <2> DEFINE counted == repeat_enabled[km] /\ repeat > 0
             f == [fn |-> "binding", node |-> n, call |-> bindings[n], key |-> k,
                   counted |-> counted, left |-> IF counted THEN repeat - 1 ELSE 0]
  <2>2. f \in Frames
    <3>1. counted \in BOOLEAN
      OBVIOUS
    <3>2. (IF counted THEN repeat - 1 ELSE 0) \in 0 .. RepeatRange - 1
      BY RangesAssumption DEF TypeOK
    <3> QED
      BY <2>1, <3>1, <3>2, FramesMade
  <2>3. stack' = Append(stack, f) /\ ctl' = Call(bindings[n], k) /\ current_binding' = current_binding
    BY <1>2 DEF BindingExecute, Push
  <2> QED
    BY <2>1, <2>2, <2>3, ControlsMade, StackTypes DEF TypeOK
<1> QED
  BY <1>1, <1>2

\* So does executing an unbound command that exists.
LEMMA ExecuteUnboundTypes ==
  ASSUME TypeOK, NEW m \in Modes, NEW k \in Keys,
         unbound[m][KeyType(k)] # NoCall, ExecuteUnbound(m, k)
  PROVE  ctl' \in Controls /\ stack' \in Seq(Frames)
<1>1. KeyType(k) \in KeyTypes
  BY KeysAssumption DEF KeyType, KeyTypes
<1>2. unbound[m][KeyType(k)] \in Calls
  BY <1>1 DEF TypeOK
<1> QED
  BY <1>2, ControlsMade, FramesMade, StackTypes DEF ExecuteUnbound, Push, TypeOK

\* A digit keeps the count in its bit-field.
LEMMA ShiftType ==
  ASSUME repeat \in 0 .. RepeatRange - 1, NEW d \in 0 .. 9
  PROVE  Shift(d) \in 0 .. RepeatRange - 1
BY RangesAssumption DEF Shift

\* The mode stack's index wraps in both directions.
LEMMA IndexTypes ==
  ASSUME stack_index \in 0 .. ModestackSize - 1
  PROVE  /\ After(stack_index) \in 0 .. ModestackSize - 1
         /\ Before(stack_index) \in 0 .. ModestackSize - 1
BY RangesAssumption DEF After, Before

\* The command of a call in progress is well-formed.
LEMMA CallWellFormed ==
  ASSUME TypeOK, NEW op, Calling(op)
  PROVE  /\ ctl.call \in Calls
         /\ ctl.key \in Keys \cup {NoKey}
         /\ WellFormed(Program[ctl.call])
         /\ Program[ctl.call].op = op
BY ControlsRead, ProgramAssumption DEF Calling, TypeOK

\* t is the frames s, but for the nodes they point to.
SameFrames(s, t) ==
  /\ Len(t) = Len(s)
  /\ \A i \in 1 .. Len(s) :
       /\ t[i].fn = s[i].fn
       /\ s[i].fn # "binding" => t[i] = s[i]
       /\ s[i].fn = "binding" => /\ t[i].call = s[i].call /\ t[i].key = s[i].key
                                 /\ t[i].left = s[i].left

\* Every sequence has its own frames.
LEMMA SameSelf == \A s : SameFrames(s, s)
BY DEF SameFrames

\* Pointers to nodes become pointers to nodes when what they point to is cut off.
LEMMA MovedNode ==
  ASSUME NEW n \in Nodes, NEW gone, NEW cut \in Cuts
  PROVE  Moved(n, gone, cut) \in Nodes
BY DEF Moved, Nodes

\* So do the frames.
LEMMA RepointedFrame ==
  ASSUME NEW f \in Frames, NEW gone, NEW cut \in Cuts
  PROVE  LET g == Repointed(f, gone, cut)
         IN /\ g \in Frames /\ g.fn = f.fn
            /\ f.fn # "binding" => g = f
            /\ f.fn = "binding" => g.call = f.call /\ g.key = f.key /\ g.left = f.left
<1>1. CASE f.fn # "binding"
  BY <1>1 DEF Repointed
<1>2. CASE f.fn = "binding"
  <2> DEFINE g == [fn |-> "binding", node |-> Moved(f.node, gone, cut), call |-> f.call,
                   key |-> f.key, counted |-> f.counted, left |-> f.left]
  <2>1. f \in [fn : {"binding"}, node : Nodes, call : Calls, key : Keys,
               counted : BOOLEAN, left : 0 .. RepeatRange - 1]
    BY <1>2 DEF Frames
  <2>2. Repointed(f, gone, cut) = g
    BY <1>2, <2>1 DEF Repointed
  <2>3. g \in Frames
    BY <2>1, MovedNode, FramesMade
  <2> QED
    BY <1>2, <2>2, <2>3
<1> QED
  BY <1>1, <1>2

\* unbind leaves a tree of nodes, and the pointers to nodes it has moved.
LEMMA UnbindSeenTypes ==
  ASSUME TypeOK, NEW seen, NEW cut \in Cuts,
         <<current_mode, seen>> \in DOMAIN bindings, UnbindSeen(seen, cut)
  PROVE  /\ DOMAIN bindings' \subseteq Nodes
         /\ \A n \in DOMAIN bindings' :
              bindings'[n] = NoCall \/ \E p \in DOMAIN bindings : bindings'[n] = bindings[p]
         /\ current_binding' \in Nodes \cup {NoNode}
         /\ current_binding = NoNode => current_binding' = NoNode
         /\ stack' \in Seq(Frames) /\ SameFrames(stack, stack')
<1> DEFINE last == <<current_mode, seen>>
           freed == Deleted(current_mode, seen)
           gone == Subtrees(freed)
           kept == {n \in DOMAIN bindings \ gone : n[1] \notin UnusedCuts}
           lost == {Moved(n, gone, cut) : n \in gone \ freed}
<1>1. PICK command \in {NoCall, bindings[last]} :
        bindings' = [n \in kept \cup lost |->
                       IF n \in lost THEN bindings[<<current_mode, n[2]>>]
                       ELSE IF n = last THEN command ELSE bindings[n]]
  BY DEF UnbindSeen
<1>2. gone \subseteq DOMAIN bindings /\ gone \subseteq Nodes
  BY DEF Subtrees, TypeOK
<1>3. \A n \in gone : n[1] = current_mode
  BY DEF Subtrees, Deleted
<1>4. \A n \in lost : \E p \in gone : n = <<cut, p[2]>> /\ <<current_mode, n[2]>> = p
  <2>1. ASSUME NEW n \in lost PROVE \E p \in gone : n = <<cut, p[2]>> /\ <<current_mode, n[2]>> = p
    <3>1. PICK p \in gone : n = <<cut, p[2]>>
      BY DEF Moved
    <3>2. p = <<p[1], p[2]>>
      BY <1>2 DEF Nodes
    <3> QED
      BY <1>3, <3>1, <3>2
  <2> QED
    BY <2>1
<1>5. DOMAIN bindings' \subseteq Nodes
  <2>1. lost \subseteq Nodes
    BY <1>2, <1>4 DEF Nodes
  <2>2. DOMAIN bindings' = kept \cup lost /\ kept \subseteq Nodes
    BY <1>1 DEF TypeOK
  <2> QED
    BY <2>1, <2>2
<1>6. ASSUME NEW n \in DOMAIN bindings'
      PROVE  bindings'[n] = NoCall \/ \E p \in DOMAIN bindings : bindings'[n] = bindings[p]
  <2> HIDE DEF kept, lost, gone, freed
  <2>1. n \in kept \cup lost
    BY <1>1
  <2>2. CASE n \in lost
    <3>1. bindings'[n] = bindings[<<current_mode, n[2]>>]
      BY <1>1, <2>2
    <3> QED
      BY <1>2, <1>4, <2>2, <3>1
  <2>3. CASE n \in kept /\ n \notin lost
    <3>1. n \in DOMAIN bindings
      BY <2>3 DEF kept
    <3>2. bindings'[n] = IF n = last THEN command ELSE bindings[n]
      BY <1>1, <2>3
    <3> QED
      BY <3>1, <3>2
  <2> QED
    BY <2>1, <2>2, <2>3
<1>7. current_binding' = Moved(current_binding, gone, cut)
  BY DEF UnbindSeen
<1>8. NoNode \notin gone
  BY <1>2, NullAssumption DEF Nodes
<1>9. /\ current_binding' \in Nodes \cup {NoNode}
      /\ current_binding = NoNode => current_binding' = NoNode
  <2>1. CASE current_binding = NoNode
    BY <1>7, <1>8, <2>1 DEF Moved
  <2>2. CASE current_binding # NoNode
    BY <1>7, <2>2, MovedNode DEF TypeOK
  <2> QED
    BY <2>1, <2>2
<1>10. stack' = [i \in DOMAIN stack |-> Repointed(stack[i], gone, cut)]
  BY DEF UnbindSeen
<1> HIDE DEF gone
<1>11. stack \in Seq(Frames) /\ DOMAIN stack = 1 .. Len(stack) /\ Len(stack) \in Nat
  BY DEF TypeOK
<1>12. \A i \in 1 .. Len(stack) : stack[i] \in Frames /\ stack'[i] = Repointed(stack[i], gone, cut)
  BY <1>10, <1>11
<1>13. \A i \in 1 .. Len(stack) : stack'[i] \in Frames
  BY <1>12, RepointedFrame
<1>14. stack' \in Seq(Frames) /\ Len(stack') = Len(stack)
  <2>1. stack' \in [1 .. Len(stack) -> Frames]
    BY <1>10, <1>11, <1>12, <1>13
  <2> QED
    BY <1>11, <2>1
<1>15. SameFrames(stack, stack')
  BY <1>12, <1>14, RepointedFrame DEF SameFrames
<1> QED
  BY <1>5, <1>6, <1>9, <1>14, <1>15

\* unbind, in each of its outcomes.
LEMMA UnbindTypes ==
  ASSUME TypeOK, CallUnbind
  PROVE  /\ DOMAIN bindings' \subseteq Nodes
         /\ \A n \in DOMAIN bindings' :
              bindings'[n] = NoCall \/ \E p \in DOMAIN bindings : bindings'[n] = bindings[p]
         /\ current_binding' \in Nodes \cup {NoNode}
         /\ current_binding = NoNode => current_binding' = NoNode
         /\ stack' \in Seq(Frames) /\ SameFrames(stack, stack')
         /\ ctl' = Return(TRUE) \/ ctl' = Fault
<1>1. CASE \E seen \in SeenKeys(Arg.keys) :
             /\ <<current_mode, seen>> \in DOMAIN bindings
             /\ UnusedCuts # {}
             /\ UnbindSeen(seen, CHOOSE cut \in UnusedCuts : TRUE)
             /\ ctl' = Return(TRUE)
  <2>1. (CHOOSE cut \in UnusedCuts : TRUE) \in Cuts
    BY <1>1 DEF UnusedCuts
  <2> DEFINE cut == CHOOSE cut \in UnusedCuts : TRUE
  <2>2. PICK seen : /\ <<current_mode, seen>> \in DOMAIN bindings
                    /\ UnbindSeen(seen, cut) /\ ctl' = Return(TRUE)
    BY <1>1
  <2> HIDE DEF cut
  <2> QED
    BY <2>1, <2>2, UnbindSeenTypes DEF cut
<1>2. CASE /\ UNCHANGED <<bindings, current_binding, stack>>
           /\ ctl' = Return(TRUE) \/ ctl' = Fault
  BY <1>2, SameSelf DEF TypeOK
<1> QED
  BY <1>1, <1>2 DEF CallUnbind

\* One case for each action: every handler, command and return keeps the types.
LEMMA TypeStep == TypeOK /\ [Next]_vars => TypeOK'
<1> SUFFICES ASSUME TypeOK, [Next]_vars PROVE TypeOK'
  OBVIOUS
<1>1. CASE ReadOption
  <2>1. Options[optind] \in [opt : {"conf"}, files : Seq(Seq(Calls))] \cup [opt : {"mode"}, mode : Modes]
    BY <1>1, OptionsAssumption DEF ReadOption, TypeOK
  <2>2. CASE Options[optind].opt = "conf"
    <3>1. LoadFrame(Options[optind].files) \in Frames
      BY <2>1, <2>2, FramesMade
    <3>2. stack' = Append(stack, LoadFrame(Options[optind].files)) /\ ctl' = Return(FALSE)
            /\ UNCHANGED <<optind, current_mode>>
      BY <1>1, <2>2 DEF ReadOption, Push
    <3> QED
      BY <1>1, <3>1, <3>2, ControlsMade, StackTypes DEF ReadOption, TypeOK, keymodes, history
  <2>3. CASE Options[optind].opt = "mode"
    <3>1. Options[optind].mode \in Modes
      BY <2>1, <2>3
    <3>2. current_mode' = Options[optind].mode /\ optind' = optind + 1 /\ UNCHANGED <<ctl, stack>>
      BY <1>1, <2>3 DEF ReadOption
    <3> QED
      BY <1>1, <3>1, <3>2 DEF ReadOption, TypeOK, keymodes, history
  <2> QED
    BY <2>1, <2>2, <2>3
<1>2. CASE OptionReturn
  BY <1>2, ControlsMade DEF OptionReturn, TypeOK, context, keymodes, history
<1>3. CASE StartProgram
  BY <1>3, ControlsMade DEF StartProgram, TypeOK, context, keymodes, history
<1>4. CASE ReadKey
  BY <1>4, ControlsMade DEF ReadKey, TypeOK, context, keymodes
<1>5. CASE KeyReturn
  BY <1>5, ControlsMade DEF KeyReturn, TypeOK, context, keymodes, history
<1>6. CASE HandleMasked
  BY <1>6, ControlsMade DEF HandleMasked, TypeOK, keymodes
<1>7. CASE HandleChain
  BY <1>7, ControlsRead, BindingExecuteTypes DEF HandleChain, InChain, HasBinding, TypeOK, keymodes
<1>8. CASE HandleChainBroken
  BY <1>8, ControlsRead, ControlsMade, ExecuteUnboundTypes
  DEF HandleChainBroken, InChain, TypeOK, keymodes, history
<1>9. CASE HandleZero
  <2>1. Shift(0) \in 0 .. RepeatRange - 1
    BY ShiftType DEF TypeOK
  <2> QED
    BY <1>9, <2>1, ControlsMade DEF HandleZero, TypeOK, keymodes
<1>10. CASE HandleBound
  BY <1>10, ControlsRead, ModesAssumption, BindingExecuteTypes DEF HandleBound, LookingUp, LookupMode, HasBinding, TypeOK, keymodes
<1>11. CASE HandleDigit
  <2>1. Shift(KeyInfo[ctl.key].digit) \in 0 .. RepeatRange - 1
    <3>1. ctl.key \in Keys
      BY <1>11, ControlsRead DEF HandleDigit, LookingUp, TypeOK
    <3>2. KeyInfo[ctl.key].digit \in 0 .. 9
      BY <1>11, <3>1, KeysAssumption DEF HandleDigit, IsDigit
    <3> QED
      BY <3>2, ShiftType DEF TypeOK
  <2>2. LookupMode \in Modes
    BY ModesAssumption DEF LookupMode, TypeOK
  <2> QED
    BY <1>11, <2>1, <2>2, ControlsMade DEF HandleDigit, TypeOK, keymodes
<1>12. CASE HandleUnbound
  <2>1. LookupMode \in Modes /\ ctl.key \in Keys
    BY <1>12, ModesAssumption, ControlsRead DEF HandleUnbound, LookingUp, LookupMode, TypeOK
  <2>2. repeat' \in 0 .. RepeatRange - 1
    BY <1>12, RangesAssumption DEF HandleUnbound, TypeOK
  <2>3. ctl' \in Controls /\ stack' \in Seq(Frames)
    <3>1. CASE unbound[LookupMode][KeyType(ctl.key)] # NoCall
      BY <1>12, <2>1, <3>1, ExecuteUnboundTypes DEF HandleUnbound
    <3>2. CASE unbound[LookupMode][KeyType(ctl.key)] = NoCall
      BY <1>12, <3>2, ControlsMade DEF HandleUnbound, TypeOK
    <3> QED
      BY <3>1, <3>2
  <2> QED
    BY <1>12, <2>1, <2>2, <2>3 DEF HandleUnbound, TypeOK, keymodes
<1>13. CASE BindingReturn
  <2>1. /\ Top \in Frames /\ Top.fn = "binding"
        /\ Below \in Seq(Frames)
        /\ \A f \in Frames : Append(Below, f) \in Seq(Frames)
    BY <1>13, StackTypes DEF BindingReturn, TopIs, TypeOK
  <2>2. CASE Top.left > 0
    <3>1. Countdown(Top) = [fn |-> "binding", node |-> Top.node, call |-> Top.call,
                            key |-> Top.key, counted |-> Top.counted, left |-> Top.left - 1]
      BY <2>1, FramesRead DEF Countdown
    <3>2. Top.left - 1 \in 0 .. RepeatRange - 1
      BY <2>1, <2>2, FramesRead, RangesAssumption
    <3>3. Countdown(Top) \in Frames
      BY <2>1, <3>1, <3>2, FramesRead, FramesMade
    <3>4. ctl' \in Controls
      BY <1>13, <2>1, <2>2, FramesRead, ControlsMade DEF BindingReturn
    <3> QED
      BY <1>13, <2>1, <2>2, <3>3, <3>4 DEF BindingReturn, Replace, TypeOK, keymodes
  <2>3. CASE ~(Top.left > 0)
    <3>1. repeat' \in 0 .. RepeatRange - 1
      <4>1. repeat' = 0 \/ repeat' = repeat
        BY <1>13, <2>3, Zenon DEF BindingReturn
      <4> QED
        BY <4>1, RangesAssumption DEF TypeOK
    <3>2. current_binding' \in Nodes \cup {NoNode}
      BY <1>13, <2>1, <2>3, FramesRead DEF BindingReturn, Opened
    <3> QED
      BY <1>13, <2>1, <2>3, <3>1, <3>2, ControlsMade DEF BindingReturn, Pop, TypeOK, keymodes
  <2> QED
    BY <2>2, <2>3
<1>14. CASE UnboundReturn
  BY <1>14, ControlsMade, StackTypes DEF UnboundReturn, TopIs, Pop, TypeOK, context, keymodes, history
<1>15. CASE CallMask
  BY <1>15, ControlsMade DEF CallMask, TypeOK, keymodes, history
<1>16. CASE CallPass
  BY <1>16, ControlsMade DEF CallPass, TypeOK, context, keymodes
<1>17. CASE CallIgnore
  BY <1>17, ControlsMade DEF CallIgnore, TypeOK, context, keymodes
<1>18. CASE CallMode
  <2>1. Arg.mode \in Modes
    BY <1>18, CallWellFormed DEF CallMode, Arg, WellFormed
  <2>2. modestack' \in [0 .. ModestackSize - 1 -> Modes]
    BY <1>18, <2>1 DEF CallMode, TypeOK
  <2> QED
    BY <1>18, <2>1, <2>2, IndexTypes, ControlsMade DEF CallMode, TypeOK, keymodes, history
<1>19. CASE CallPreviousMode
  BY <1>19, IndexTypes, ControlsMade DEF CallPreviousMode, TypeOK, keymodes, history
<1>20. CASE CallRepeat
  BY <1>20, CallWellFormed, ControlsMade DEF CallRepeat, Arg, WellFormed, TypeOK, context, history
<1>21. CASE CallRehandle
  <2>1. ctl' \in Controls
    BY <1>21, CallWellFormed, ControlsMade DEF CallRehandle
  <2>2. rehandeled' \in 0 .. RehandleDepthMax
    <3>1. \/ rehandeled' = rehandeled
          \/ rehandeled < RehandleDepthMax /\ rehandeled' = rehandeled + 1
          \/ rehandeled' = 0
      BY <1>21, Zenon DEF CallRehandle, MayRehandle
    <3> QED
      BY <3>1, RangesAssumption DEF TypeOK
  <2> QED
    BY <1>21, <2>1, <2>2 DEF CallRehandle, TypeOK, keymodes, history
<1>22. CASE CallOther
  BY <1>22, CallWellFormed, ControlsMade DEF CallOther, Arg, WellFormed, TypeOK, context, keymodes, history
<1>23. CASE CallBind
  <2>1. /\ Arg.keys \in Seq(Keys)
        /\ Arg.call \in Calls
    BY <1>23, CallWellFormed DEF CallBind, Arg, WellFormed
  <2>2. Path(current_mode, Arg.keys) \subseteq Nodes
    <3>1. \A i \in 0 .. Len(Arg.keys) : SubSeq(Arg.keys, 1, i) \in Seq(Keys)
      BY <2>1
    <3> QED
      <4>1. \A i \in 0 .. Len(Arg.keys) : <<current_mode, SubSeq(Arg.keys, 1, i)>> \in Nodes
        BY <3>1 DEF Nodes, TypeOK
      <4> QED
        BY <4>1 DEF Path
  <2>3. DOMAIN bindings' \subseteq Nodes
    BY <1>23, <2>2 DEF CallBind, TypeOK
  <2>4. \A n \in DOMAIN bindings' : bindings'[n] \in Calls \cup {NoCall}
    BY <1>23, <2>1 DEF CallBind, TypeOK
  <2> QED
    BY <1>23, <2>3, <2>4, ControlsMade DEF CallBind, TypeOK, context, history
<1>24. CASE CallUnbound
  BY <1>24, CallWellFormed, ControlsMade DEF CallUnbound, Arg, WellFormed, TypeOK, context, history
<1>25. CASE CallGroup
  <2>1. ctl.call \in Groups /\ ctl.key \in Keys \cup {NoKey} /\ Arg.calls[1] \in Calls
    BY <1>25, CallWellFormed DEF CallGroup, Arg, Groups, WellFormed
  <2>2. [fn |-> "group", call |-> ctl.call, key |-> ctl.key, pos |-> 1] \in Frames
    <3>1. 1 \in Nat \ {0}
      OBVIOUS
    <3> QED
      BY <2>1, <3>1, FramesMade
  <2>3. stack' \in Seq(Frames)
    BY <1>25, <2>2, StackTypes DEF CallGroup, Push, TypeOK
  <2>4. ctl' \in Controls
    BY <1>25, <2>1, ControlsMade DEF CallGroup
  <2> QED
    BY <1>25, <2>3, <2>4 DEF CallGroup, TypeOK, context, keymodes, history
<1>26. CASE GroupReturn
  <2>1. /\ Top \in Frames /\ Top.fn = "group"
        /\ Below \in Seq(Frames)
        /\ \A f \in Frames : Append(Below, f) \in Seq(Frames)
    BY <1>26, StackTypes DEF GroupReturn, TopIs, TypeOK
  <2>2. CASE NextInGroup(Program[Top.call], Top.pos, ctl.ok) = {}
    BY <1>26, <2>1, <2>2, ControlsMade DEF GroupReturn, Pop, TypeOK, context, keymodes, history
  <2>3. CASE NextInGroup(Program[Top.call], Top.pos, ctl.ok) # {}
    <3>1. PICK j \in NextInGroup(Program[Top.call], Top.pos, ctl.ok) :
            /\ stack' = Append(Below, [Top EXCEPT !.pos = j])
            /\ ctl' = Call(Program[Top.call].calls[j], Top.key)
      BY <1>26, <2>3 DEF GroupReturn, Replace
    <3>2. j \in Nat \ {0} /\ j <= Len(Program[Top.call].calls)
      BY <2>1, <3>1, FramesRead DEF NextInGroup
    <3>3. Program[Top.call].calls[j] \in Calls /\ Top.key \in Keys \cup {NoKey}
      <4>1. Top.call \in Groups /\ Top.key \in Keys \cup {NoKey}
        BY <2>1, FramesRead
      <4>2. Program[Top.call].calls \in Seq(Calls)
        BY <4>1, ProgramAssumption DEF Groups, WellFormed
      <4> QED
        BY <3>2, <4>1, <4>2
    <3>4. [Top EXCEPT !.pos = j] \in Frames
      BY <2>1, <3>2 DEF Frames
    <3>5. stack' \in Seq(Frames) /\ ctl' \in Controls
      BY <2>1, <3>1, <3>3, <3>4, ControlsMade
    <3> QED
      BY <1>26, <3>5 DEF GroupReturn, TypeOK, context, keymodes, history
  <2> QED
    BY <2>2, <2>3
<1>27. CASE CallLoad
  BY <1>27, CallWellFormed, FramesMade, ControlsMade, StackTypes DEF CallLoad, Push, Arg, WellFormed, TypeOK, context, keymodes, history
<1>28. CASE LoadNext
  <2>1. Top.files \in Seq(Seq(Calls)) /\ Below \in Seq(Frames)
    BY <1>28, FramesRead, StackTypes DEF LoadNext, TopIs, TypeOK
  <2>2. Head(Top.files) \in Seq(Calls) /\ Tail(Top.files) \in Seq(Seq(Calls))
    BY <1>28, <2>1 DEF LoadNext
  <2>3. LoadFrame(Tail(Top.files)) \in Frames /\ ConfFrame(Head(Top.files)) \in Frames
    BY <2>2, FramesMade DEF ConfFrame, TypeOK
  <2>4. Append(Below, LoadFrame(Tail(Top.files))) \in Seq(Frames)
    BY <2>1, <2>3
  <2>5. stack' \in Seq(Frames)
    BY <1>28, <2>3, <2>4 DEF LoadNext
  <2> QED
    BY <1>28, <2>5, ControlsMade DEF LoadNext, TypeOK, context, keymodes, history
<1>29. CASE LoadReturn
  BY <1>29, StackTypes DEF LoadReturn, TopIs, Pop, TypeOK, context, keymodes, history
<1>30. CASE CallEvaluate
  <2> DEFINE callers == IF Again THEN Below ELSE stack
             asking == [fn |-> "evaluate", call |-> ctl.call, key |-> ctl.key,
                        again |-> Again]
  <2>1. callers \in Seq(Frames) /\ Again \in BOOLEAN
    BY StackTypes DEF Again, TopIs, TypeOK
  <2>2. ctl.call \in Calls /\ ctl.key \in Keys \cup {NoKey} /\ Arg.lines \subseteq Seq(Calls)
    BY <1>30, CallWellFormed DEF CallEvaluate, Arg, WellFormed
  <2>3. stack' \in Seq(Frames) /\ ctl' \in Controls
    <3>1. CASE stack' = callers /\ ctl' = Return(Again)
      BY <2>1, <3>1, ControlsMade
    <3>2. ASSUME NEW line \in Arg.lines,
                 stack' = Append(Append(callers, asking), ConfFrame(line)),
                 ctl' = Return(TRUE)
          PROVE  stack' \in Seq(Frames) /\ ctl' \in Controls
      <4>1. asking \in Frames
        BY <2>1, <2>2, FramesMade
      <4>2. ConfFrame(line) \in Frames
        BY <2>2, FramesMade DEF ConfFrame, TypeOK
      <4>3. ctl' \in Controls
        BY <3>2, ControlsMade
      <4> HIDE DEF callers, asking
      <4>4. Append(callers, asking) \in Seq(Frames)
        BY <2>1, <4>1
      <4>5. stack' \in Seq(Frames)
        BY <3>2, <4>2, <4>4
      <4> QED
        BY <4>3, <4>5
    <3> QED
      BY <1>30, <3>1, <3>2 DEF CallEvaluate
  <2> QED
    BY <1>30, <2>3 DEF CallEvaluate, TypeOK, context, keymodes, history
<1>31. CASE EvaluateReturn
  <2>1. /\ Top \in Frames /\ Top.fn = "evaluate"
        /\ Below \in Seq(Frames)
        /\ \A f \in Frames : Append(Below, f) \in Seq(Frames)
    BY <1>31, StackTypes DEF EvaluateReturn, TopIs, TypeOK
  <2>2. [Top EXCEPT !.again = TRUE] \in Frames
    BY <2>1 DEF Frames
  <2>3. stack' \in Seq(Frames)
    BY <1>31, <2>1, <2>2 DEF EvaluateReturn, Pop, Replace
  <2>4. ctl' \in Controls
    BY <1>31, <2>1, FramesRead, ControlsMade DEF EvaluateReturn
  <2> QED
    BY <1>31, <2>3, <2>4 DEF EvaluateReturn, TypeOK, context, keymodes, history
<1>32. CASE ConfNext
  <2>1. /\ Top \in Frames /\ Top.fn = "conf"
        /\ \A f \in Frames : Append(Below, f) \in Seq(Frames)
    BY <1>32, StackTypes DEF ConfNext, TopIs, TypeOK
  <2>2. Head(Top.todo) \in Calls /\ Tail(Top.todo) \in Seq(Calls)
    BY <1>32, <2>1, FramesRead DEF ConfNext
  <2>3. [Top EXCEPT !.todo = Tail(@)] \in Frames
    BY <2>1, <2>2 DEF Frames
  <2>4. stack' \in Seq(Frames)
    BY <1>32, <2>1, <2>3 DEF ConfNext, Replace
  <2>5. ctl' \in Controls
    BY <1>32, <2>2, ControlsMade DEF ConfNext, ConfCall
  <2> QED
    BY <1>32, <2>4, <2>5 DEF ConfNext, TypeOK, context, keymodes, history
<1>33. CASE ConfReturn
  BY <1>33, FramesRead, StackTypes DEF ConfReturn, TopIs, Pop, TypeOK, keymodes, history
<1>34. CASE ConfCrash
  BY <1>34, ControlsMade DEF ConfCrash, TypeOK, context, keymodes, history
<1>35. CASE UNCHANGED vars
  BY <1>35 DEF vars, TypeOK, context, keymodes, history
<1>36. CASE HandleFreed \/ BindingReturnFreed
  BY <1>36, ControlsMade DEF HandleFreed, BindingReturnFreed, TypeOK, context, keymodes, history
<1>37. CASE CallUnbind
  <2>1. \A n \in DOMAIN bindings' : bindings'[n] \in Calls \cup {NoCall}
    BY <1>37, UnbindTypes DEF TypeOK
  <2>2. ctl' \in Controls
    BY <1>37, UnbindTypes, ControlsMade
  <2> QED
    BY <1>37, <2>1, <2>2, UnbindTypes DEF CallUnbind, TypeOK, history
<1> QED
  BY <1>1, <1>2, <1>3, <1>4, <1>5, <1>6, <1>7, <1>8, <1>9, <1>10, <1>11, <1>12, <1>13, <1>14, <1>15, <1>16, <1>17, <1>18, <1>19, <1>20, <1>21, <1>22, <1>23, <1>24, <1>25, <1>26, <1>27, <1>28, <1>29, <1>30, <1>31, <1>32, <1>33, <1>34, <1>35, <1>36, <1>37 DEF Next, Run, Startup, HandleKey, Command

\* The context keeps to its bit-fields and every pointer the dispatcher stores, in the
\* context, in the modes and in the frames, points to an object of its kind.
THEOREM TypeCorrect == Spec => []TypeOK
<1> QED
  BY TypeInit, TypeStep, PTL DEF Spec

-----------------------------------------------------------------------------
(***************************************************************************)
(* What the stack holds after a push, a pop, or a change of its top.       *)
(***************************************************************************)

\* A prefix of a sequence.
LEMMA PrefixOf ==
  ASSUME NEW S, NEW s \in Seq(S), NEW n \in 0 .. Len(s)
  PROVE  /\ SubSeq(s, 1, n) \in Seq(S)
         /\ Len(SubSeq(s, 1, n)) = n
         /\ \A i \in 1 .. n : SubSeq(s, 1, n)[i] = s[i]
<1>1. SubSeq(s, 1, n) \in Seq(S)
  OBVIOUS
<1>2. Len(SubSeq(s, 1, n)) = n
  OBVIOUS
<1>3. \A i \in 1 .. n : SubSeq(s, 1, n)[i] = s[i]
  OBVIOUS
<1> QED
  BY <1>1, <1>2, <1>3

\* A push adds one frame, on top.
LEMMA Pushed ==
  ASSUME NEW s \in Seq(Frames), NEW f
  PROVE  /\ Len(Append(s, f)) = Len(s) + 1 /\ Len(s) \in Nat
         /\ \A i \in 1 .. Len(s) : Append(s, f)[i] = s[i]
         /\ Append(s, f)[Len(s) + 1] = f
<1>1. Len(Append(s, f)) = Len(s) + 1 /\ Len(s) \in Nat
  OBVIOUS
<1>2. \A i \in 1 .. Len(s) : Append(s, f)[i] = s[i]
  OBVIOUS
<1>3. Append(s, f)[Len(s) + 1] = f
  OBVIOUS
<1> QED
  BY <1>1, <1>2, <1>3

\* The stack without its top.
LEMMA PoppedFrames ==
  ASSUME stack \in Seq(Frames), Len(stack) > 0
  PROVE  /\ Below \in Seq(Frames)
         /\ Len(Below) = Len(stack) - 1
         /\ \A i \in 1 .. Len(Below) : Below[i] = stack[i]
         /\ Top = stack[Len(stack)]
<1>1. Len(stack) - 1 \in 0 .. Len(stack)
  OBVIOUS
<1> QED
  BY <1>1, PrefixOf DEF Below, Top

-----------------------------------------------------------------------------
(***************************************************************************)
(* The key a command is given.  Commands of a configuration are given NULL *)
(* and all others the key that is handled; so the keys in the frames say   *)
(* how far up a configuration's NULL reaches.                              *)
(***************************************************************************)

KeyOf(f) == IF f.fn \in {"binding", "group", "evaluate"} THEN f.key ELSE NoKey

\* k may be the key of a call on top of the frames s while the key `in' is handled.
Fits(s, k, in) ==
  /\ k \in {in, NoKey}
  /\ \A i \in 1 .. Len(s) : s[i].fn = "conf" => k = NoKey

Keyed(s, in) ==
  \A j \in 1 .. Len(s) :
    /\ KeyOf(s[j]) \in {in, NoKey}
    /\ \A i \in 1 .. j - 1 : s[i].fn = "conf" => KeyOf(s[j]) = NoKey

KeyInv ==
  /\ Keyed(stack, input)
  /\ ctl.at = "handle" => ctl.key = input /\ input # NoKey /\ Fits(stack, input, input)
  /\ ctl.at = "call" => Fits(stack, ctl.key, input)
  /\ ctl.at \in {"options", "poll", "exited"} => input = NoKey /\ stack = <<>>

\* A frame whose key fits the frames below it keeps them keyed.
LEMMA KeyedAppend ==
  ASSUME NEW s \in Seq(Frames), NEW in, NEW f, Keyed(s, in), Fits(s, KeyOf(f), in)
  PROVE  Keyed(Append(s, f), in)
<1>1. Len(s) \in Nat /\ Len(Append(s, f)) = Len(s) + 1
  OBVIOUS
<1>2. \A i \in 1 .. Len(s) : Append(s, f)[i] = s[i]
  OBVIOUS
<1>3. Append(s, f)[Len(s) + 1] = f
  OBVIOUS
<1> DEFINE t == Append(s, f)
<1> HIDE DEF t
<1>4. ASSUME NEW j \in 1 .. Len(t)
      PROVE  /\ KeyOf(t[j]) \in {in, NoKey}
             /\ \A i \in 1 .. j - 1 : t[i].fn = "conf" => KeyOf(t[j]) = NoKey
  <2>1. CASE j \in 1 .. Len(s)
    <3>1. t[j] = s[j] /\ \A i \in 1 .. j - 1 : i \in 1 .. Len(s) /\ t[i] = s[i]
      BY <1>1, <1>2, <2>1 DEF t
    <3> QED
      BY <2>1, <3>1 DEF Keyed
  <2>2. CASE j = Len(s) + 1
    <3>1. t[j] = f /\ \A i \in 1 .. j - 1 : i \in 1 .. Len(s) /\ t[i] = s[i]
      BY <1>1, <1>2, <1>3, <2>2 DEF t
    <3> QED
      BY <3>1 DEF Fits
  <2> QED
    BY <1>1, <2>1, <2>2 DEF t
<1> QED
  BY <1>4 DEF Keyed, t

\* The frames below the top are keyed, and the top's key fits them.
LEMMA KeyedBelow ==
  ASSUME stack \in Seq(Frames), Len(stack) > 0, NEW in, Keyed(stack, in)
  PROVE  Keyed(Below, in) /\ Fits(Below, KeyOf(Top), in)
<1>1. /\ Len(stack) \in 1 .. Len(stack) /\ Len(Below) = Len(stack) - 1
      /\ \A i \in 1 .. Len(Below) : i \in 1 .. Len(stack) /\ Below[i] = stack[i]
      /\ Top = stack[Len(stack)]
  BY PoppedFrames
<1>2. Fits(Below, KeyOf(Top), in)
  BY <1>1 DEF Fits, Keyed
<1>3. ASSUME NEW j \in 1 .. Len(Below)
      PROVE  /\ KeyOf(Below[j]) \in {in, NoKey}
             /\ \A i \in 1 .. j - 1 : Below[i].fn = "conf" => KeyOf(Below[j]) = NoKey
  <2>1. \A i \in 1 .. j - 1 : i \in 1 .. Len(Below)
    BY <1>1
  <2> QED
    BY <1>1, <2>1 DEF Keyed
<1> QED
  BY <1>2, <1>3 DEF Keyed

\* A key that fits some frames fits them with another on top, unless a configuration
\* starts there.
LEMMA FitsAppend ==
  ASSUME NEW s \in Seq(Frames), NEW k, NEW in, NEW f, Fits(s, k, in), f.fn # "conf"
  PROVE  Fits(Append(s, f), k, in)
<1>1. Len(s) \in Nat /\ Len(Append(s, f)) = Len(s) + 1
  OBVIOUS
<1>2. \A i \in 1 .. Len(s) : Append(s, f)[i] = s[i]
  OBVIOUS
<1>3. Append(s, f)[Len(s) + 1] = f
  OBVIOUS
<1>4. ASSUME NEW i \in 1 .. Len(Append(s, f)), Append(s, f)[i].fn = "conf" PROVE k = NoKey
  <2>1. CASE i \in 1 .. Len(s)
    BY <1>2, <1>4, <2>1 DEF Fits
  <2>2. CASE i = Len(s) + 1
    BY <1>3, <1>4, <2>2
  <2> QED
    BY <1>1, <2>1, <2>2
<1> QED
  BY <1>4 DEF Fits

\* NULL fits everywhere.
LEMMA NoKeyFits == \A s, in : Fits(s, NoKey, in)
BY DEF Fits

\* A step that returns, or crashes.
LEMMA KeyReturned ==
  ASSUME Keyed(stack', input'), NEW ok, ctl' = Return(ok) \/ ctl' = Crashed \/ ctl' = Fault
  PROVE  KeyInv'
BY DEF KeyInv, Return, Crashed, Fault

\* The keys in the frames are not the nodes'.
LEMMA KeyedSame ==
  ASSUME NEW s, NEW t, SameFrames(s, t), NEW in, Keyed(s, in)
  PROVE  Keyed(t, in)
<1>1. Len(t) = Len(s) /\ \A i \in 1 .. Len(s) : t[i].fn = s[i].fn /\ KeyOf(t[i]) = KeyOf(s[i])
  BY DEF SameFrames, KeyOf
<1>2. ASSUME NEW j \in 1 .. Len(t)
      PROVE  /\ KeyOf(t[j]) \in {in, NoKey}
             /\ \A i \in 1 .. j - 1 : t[i].fn = "conf" => KeyOf(t[j]) = NoKey
  <2>1. ASSUME NEW i \in 1 .. j - 1, t[i].fn = "conf" PROVE KeyOf(t[j]) = NoKey
    <3>1. CASE i \in 1 .. Len(s)
      BY <1>1, <2>1, <3>1 DEF Keyed
    <3>2. CASE i \notin 1 .. Len(s)
      <4>1. FALSE
        BY <1>1, <3>2
      <4> QED
        BY <4>1
    <3> QED
      BY <3>1, <3>2
  <2> QED
    BY <1>1, <2>1 DEF Keyed
<1> QED
  BY <1>2 DEF Keyed

\* A step that calls a command with a key that fits.
LEMMA KeyCalled ==
  ASSUME Keyed(stack', input'), NEW c, NEW k, ctl' = Call(c, k), Fits(stack', k, input')
  PROVE  KeyInv'
BY DEF KeyInv, Call

\* A step that handles the key, for the first time or again.
LEMMA KeyHandled ==
  ASSUME Keyed(stack', input'), ctl' = Handle(input'), input' # NoKey,
         Fits(stack', input', input')
  PROVE  KeyInv'
BY DEF KeyInv, Handle

\* binding_execute() gives the command the key that is handled.
LEMMA BindingExecuteKey ==
  ASSUME TypeOK, KeyInv, ctl.at = "handle", NEW n, NEW km,
         BindingExecute(n, km, ctl.key), input' = input
  PROVE  KeyInv'
<1>1. ctl.key = input /\ Fits(stack, input, input) /\ Keyed(stack, input)
  BY DEF KeyInv
<1>2. CASE bindings[n] = NoCall
  BY <1>1, <1>2, KeyReturned DEF BindingExecute
<1>3. CASE bindings[n] # NoCall
  <2> DEFINE f == [fn |-> "binding", node |-> n, call |-> bindings[n], key |-> ctl.key,
                   counted |-> repeat_enabled[km] /\ repeat > 0,
                   left |-> IF repeat_enabled[km] /\ repeat > 0 THEN repeat - 1 ELSE 0]
  <2>1. stack' = Append(stack, f) /\ ctl' = Call(bindings[n], ctl.key)
    BY <1>3 DEF BindingExecute, Push
  <2>2. f.fn = "binding" /\ f.key = ctl.key
    OBVIOUS
  <2> HIDE DEF f
  <2>3. KeyOf(f) = input
    BY <1>1, <2>2 DEF KeyOf
  <2>4. Keyed(stack', input') /\ Fits(stack', ctl.key, input')
    BY <1>1, <2>1, <2>2, <2>3, KeyedAppend, FitsAppend DEF TypeOK
  <2> QED
    BY <2>1, <2>4, KeyCalled
<1> QED
  BY <1>2, <1>3

\* The unbound command is given the key that is handled.
LEMMA ExecuteUnboundKey ==
  ASSUME TypeOK, KeyInv, ctl.at = "handle", NEW m,
         ExecuteUnbound(m, ctl.key), input' = input
  PROVE  KeyInv'
<1>1. ctl.key = input /\ Fits(stack, input, input) /\ Keyed(stack, input)
  BY DEF KeyInv
<1> DEFINE f == [fn |-> "unbound"]
<1>2. stack' = Append(stack, f) /\ ctl' = Call(unbound[m][KeyType(ctl.key)], ctl.key)
  BY DEF ExecuteUnbound, Push
<1>3. f.fn = "unbound" /\ KeyOf(f) = NoKey
  BY DEF KeyOf
<1> HIDE DEF f
<1>4. Keyed(stack', input') /\ Fits(stack', ctl.key, input')
  BY <1>1, <1>2, <1>3, NoKeyFits, KeyedAppend, FitsAppend DEF TypeOK
<1> QED
  BY <1>2, <1>4, KeyCalled

\* One case for each action that calls, pushes or pops, and one for those that only return.
LEMMA KeyStep == TypeOK /\ KeyInv /\ [Next]_vars => KeyInv'
<1> SUFFICES ASSUME TypeOK, KeyInv, [Next]_vars PROVE KeyInv'
  OBVIOUS
<1>1. Keyed(stack, input) /\ stack \in Seq(Frames)
  BY DEF KeyInv, TypeOK
<1>2. CASE ReadOption
  <2>1. CASE ctl' = Return(FALSE) /\ stack' = Append(stack, LoadFrame(Options[optind].files))
    <3>1. KeyOf(LoadFrame(Options[optind].files)) = NoKey
      BY DEF KeyOf, LoadFrame
    <3> QED
      BY <1>1, <1>2, <2>1, <3>1, NoKeyFits, KeyedAppend, KeyReturned DEF ReadOption
  <2>2. CASE UNCHANGED <<ctl, stack>>
    BY <1>2, <2>2 DEF ReadOption, KeyInv
  <2> QED
    BY <1>2, <2>1, <2>2 DEF ReadOption, Push
<1>3. CASE OptionReturn \/ StartProgram
  BY <1>3 DEF OptionReturn, StartProgram, KeyInv, AtOptions, AtPoll, Exited
<1>4. CASE ReadKey
  <2>1. PICK k \in Keys : input' = k /\ ctl' = Handle(k)
    BY <1>4 DEF ReadKey
  <2>2. stack' = <<>>
    BY <1>4 DEF ReadKey, KeyInv, AtPoll
  <2>3. Keyed(stack', input') /\ Fits(stack', input', input')
    BY <2>2 DEF Keyed, Fits
  <2> QED
    BY <2>1, <2>3, NullAssumption, KeyHandled
<1>5. CASE KeyReturn
  <2>1. stack' = <<>> /\ input' = NoKey /\ ctl' = AtPoll
    BY <1>5 DEF KeyReturn
  <2> QED
    BY <2>1 DEF KeyInv, Keyed, AtPoll
<1>6. CASE HandleChain
  BY <1>6, BindingExecuteKey DEF HandleChain, InChain
<1>7. CASE HandleBound
  BY <1>7, BindingExecuteKey DEF HandleBound, LookingUp
<1>8. CASE HandleChainBroken
  <2>1. CASE unbound[current_mode][KeyType(ctl.key)] # NoCall
    BY <1>8, <2>1, ExecuteUnboundKey DEF HandleChainBroken, InChain
  <2>2. CASE unbound[current_mode][KeyType(ctl.key)] = NoCall
    BY <1>1, <1>8, <2>2, KeyReturned DEF HandleChainBroken
  <2> QED
    BY <2>1, <2>2
<1>9. CASE HandleUnbound
  <2>1. CASE unbound[LookupMode][KeyType(ctl.key)] # NoCall
    BY <1>9, <2>1, ExecuteUnboundKey DEF HandleUnbound, LookingUp
  <2>2. CASE unbound[LookupMode][KeyType(ctl.key)] = NoCall
    BY <1>1, <1>9, <2>2, KeyReturned DEF HandleUnbound
  <2> QED
    BY <2>1, <2>2
<1>10. CASE BindingReturn
  <2>1. /\ Len(stack) > 0 /\ Top.fn = "binding" /\ Top \in Frames /\ Below \in Seq(Frames)
        /\ Keyed(Below, input) /\ Fits(Below, Top.key, input)
    BY <1>1, <1>10, StackTypes, KeyedBelow DEF BindingReturn, TopIs, KeyOf
  <2>2. CASE Top.left > 0
    <3>1. /\ stack' = Append(Below, Countdown(Top)) /\ input' = input
          /\ ctl' = Call(Top.call, Top.key)
      BY <1>10, <2>2 DEF BindingReturn, Replace
    <3>2. Countdown(Top).fn = "binding" /\ Countdown(Top).key = Top.key
      BY <2>1, FramesRead DEF Countdown
    <3>3. Keyed(stack', input') /\ Fits(stack', Top.key, input')
      BY <2>1, <3>1, <3>2, KeyedAppend, FitsAppend DEF KeyOf
    <3> QED
      BY <3>1, <3>3, KeyCalled
  <2>3. CASE ~(Top.left > 0)
    BY <1>10, <2>1, <2>3, KeyReturned DEF BindingReturn, Pop
  <2> QED
    BY <2>2, <2>3
<1>11. CASE UnboundReturn
  BY <1>1, <1>11, KeyedBelow, KeyReturned DEF UnboundReturn, TopIs, Pop
<1>12. CASE LoadReturn \/ ConfReturn
  <2>1. ctl' = ctl /\ ctl.at = "return" /\ Keyed(stack', input')
    BY <1>1, <1>12, KeyedBelow DEF LoadReturn, ConfReturn, Returning, TopIs, Pop
  <2> QED
    BY <2>1 DEF KeyInv
<1>13. CASE CallRehandle
  <2>1. Fits(stack, ctl.key, input) /\ stack' = stack /\ input' = input
    BY <1>13 DEF CallRehandle, Calling, KeyInv
  <2>2. CASE ctl' = Return(TRUE) \/ ctl' = Return(FALSE)
    BY <1>1, <2>1, <2>2, KeyReturned
  <2>3. CASE ctl.key # NoKey /\ ctl' = Handle(ctl.key)
    BY <1>1, <2>1, <2>3, KeyHandled DEF Fits
  <2> QED
    BY <1>13, <2>2, <2>3 DEF CallRehandle
<1>14. CASE CallGroup
  <2> DEFINE f == [fn |-> "group", call |-> ctl.call, key |-> ctl.key, pos |-> 1]
  <2>1. Fits(stack, ctl.key, input) /\ input' = input /\ stack' = Append(stack, f)
        /\ ctl' = Call(Arg.calls[1], ctl.key)
    BY <1>14 DEF CallGroup, Calling, Push, KeyInv
  <2>2. f.fn = "group" /\ KeyOf(f) = ctl.key
    BY DEF KeyOf
  <2> HIDE DEF f
  <2>3. Keyed(stack', input') /\ Fits(stack', ctl.key, input')
    BY <1>1, <2>1, <2>2, KeyedAppend, FitsAppend
  <2> QED
    BY <2>1, <2>3, KeyCalled
<1>15. CASE GroupReturn
  <2>1. /\ Len(stack) > 0 /\ Top.fn = "group" /\ Top \in Frames /\ Below \in Seq(Frames)
        /\ Keyed(Below, input) /\ Fits(Below, Top.key, input)
    BY <1>1, <1>15, StackTypes, KeyedBelow DEF GroupReturn, TopIs, KeyOf
  <2>2. CASE stack' = Below /\ ctl' = Return(TRUE)
    BY <1>15, <2>1, <2>2, KeyReturned DEF GroupReturn
  <2>3. ASSUME NEW j, stack' = Append(Below, [Top EXCEPT !.pos = j]),
               ctl' = Call(Program[Top.call].calls[j], Top.key)
        PROVE  KeyInv'
    <3>1. [Top EXCEPT !.pos = j].fn = "group" /\ [Top EXCEPT !.pos = j].key = Top.key
      BY <2>1, FramesRead
    <3>2. Keyed(stack', input') /\ Fits(stack', Top.key, input')
      BY <1>15, <2>1, <2>3, <3>1, KeyedAppend, FitsAppend DEF GroupReturn, KeyOf
    <3> QED
      BY <2>3, <3>2, KeyCalled
  <2> QED
    BY <1>15, <2>2, <2>3 DEF GroupReturn, Pop, Replace
<1>16. CASE CallLoad
  <2>1. KeyOf(LoadFrame(Arg.files)) = NoKey
    BY DEF KeyOf, LoadFrame
  <2> QED
    BY <1>1, <1>16, <2>1, NoKeyFits, KeyedAppend, KeyReturned DEF CallLoad, Push
<1>17. CASE LoadNext
  <2> DEFINE rest == LoadFrame(Tail(Top.files))
             begun == ConfFrame(Head(Top.files))
  <2>1. Below \in Seq(Frames) /\ Keyed(Below, input) /\ rest \in Frames
    <3>1. Top.files \in Seq(Seq(Calls))
      BY <1>17, FramesRead, StackTypes DEF LoadNext, TopIs, TypeOK
    <3>2. Tail(Top.files) \in Seq(Seq(Calls))
      BY <1>17, <3>1 DEF LoadNext
    <3> QED
      BY <1>1, <1>17, <3>2, StackTypes, KeyedBelow, FramesMade DEF LoadNext, TopIs
  <2>2. KeyOf(rest) = NoKey /\ KeyOf(begun) = NoKey
    BY DEF KeyOf, LoadFrame, ConfFrame
  <2>3. stack' = Append(Append(Below, rest), begun) /\ ctl' = Return(TRUE) /\ input' = input
    BY <1>17 DEF LoadNext
  <2> HIDE DEF rest, begun
  <2>4. Append(Below, rest) \in Seq(Frames) /\ Keyed(Append(Below, rest), input)
    BY <2>1, <2>2, NoKeyFits, KeyedAppend
  <2>5. Keyed(stack', input')
    BY <2>2, <2>3, <2>4, NoKeyFits, KeyedAppend
  <2> QED
    BY <2>3, <2>5, KeyReturned
<1>18. CASE CallEvaluate
  <2> DEFINE callers == IF Again THEN Below ELSE stack
             asking == [fn |-> "evaluate", call |-> ctl.call, key |-> ctl.key,
                        again |-> Again]
  <2>1. callers \in Seq(Frames) /\ Keyed(callers, input) /\ Again \in BOOLEAN
    BY <1>1, StackTypes, KeyedBelow DEF Again, TopIs
  <2>2. Fits(stack, ctl.key, input)
    BY <1>18 DEF CallEvaluate, Calling, KeyInv
  <2>3. Fits(callers, ctl.key, input)
    <3>1. CASE Again
      <4>1. \A i \in 1 .. Len(Below) : i \in 1 .. Len(stack) /\ Below[i] = stack[i]
        BY <1>1, <3>1, PoppedFrames DEF Again, TopIs
      <4> QED
        BY <2>2, <3>1, <4>1 DEF Fits
    <3> QED
      BY <2>2, <3>1
  <2>4. asking \in Frames /\ KeyOf(asking) = ctl.key
    <3>1. asking \in Frames
      BY <1>18, <2>1, CallWellFormed, FramesMade DEF CallEvaluate
    <3> QED
      BY <3>1 DEF KeyOf
  <2>5. input' = input /\ \/ stack' = callers /\ ctl' = Return(Again)
                          \/ \E line : /\ stack' = Append(Append(callers, asking), ConfFrame(line))
                                       /\ ctl' = Return(TRUE)
    BY <1>18 DEF CallEvaluate
  <2> HIDE DEF callers, asking
  <2>6. Append(callers, asking) \in Seq(Frames) /\ Keyed(Append(callers, asking), input)
    BY <2>1, <2>3, <2>4, KeyedAppend
  <2>7. \A line : Keyed(Append(Append(callers, asking), ConfFrame(line)), input)
    <3>1. \A line : KeyOf(ConfFrame(line)) = NoKey
      BY DEF KeyOf, ConfFrame
    <3> QED
      BY <2>6, <3>1, NoKeyFits, KeyedAppend
  <2> QED
    BY <2>1, <2>5, <2>7, KeyReturned
<1>19. CASE EvaluateReturn
  <2>1. /\ Len(stack) > 0 /\ Top.fn = "evaluate" /\ Top \in Frames /\ Below \in Seq(Frames)
        /\ Keyed(Below, input) /\ Fits(Below, Top.key, input)
    BY <1>1, <1>19, StackTypes, KeyedBelow DEF EvaluateReturn, TopIs, KeyOf
  <2>2. CASE stack' = Below /\ ctl' = Return(TRUE)
    BY <1>19, <2>1, <2>2, KeyReturned DEF EvaluateReturn
  <2>3. CASE stack' = Append(Below, [Top EXCEPT !.again = TRUE]) /\ ctl' = Call(Top.call, Top.key)
    <3>1. [Top EXCEPT !.again = TRUE].fn = "evaluate" /\ [Top EXCEPT !.again = TRUE].key = Top.key
      BY <2>1, FramesRead
    <3>2. Keyed(stack', input') /\ Fits(stack', Top.key, input')
      BY <1>19, <2>1, <2>3, <3>1, KeyedAppend, FitsAppend DEF EvaluateReturn, KeyOf
    <3> QED
      BY <2>3, <3>2, KeyCalled
  <2> QED
    BY <1>19, <2>2, <2>3 DEF EvaluateReturn, Pop, Replace
<1>20. CASE ConfNext
  <2>1. /\ Top.fn = "conf" /\ Top \in Frames /\ Below \in Seq(Frames) /\ Keyed(Below, input)
    BY <1>1, <1>20, StackTypes, KeyedBelow DEF ConfNext, TopIs
  <2>2. [Top EXCEPT !.todo = Tail(@)].fn = "conf"
    BY <2>1, FramesRead
  <2>3. KeyOf([Top EXCEPT !.todo = Tail(@)]) = NoKey
    BY <2>2 DEF KeyOf
  <2>4. Keyed(stack', input') /\ ctl' = Call(Head(Top.todo), NoKey)
    BY <1>20, <2>1, <2>3, NoKeyFits, KeyedAppend DEF ConfNext, ConfCall, Replace
  <2> QED
    BY <2>4, NoKeyFits, KeyCalled
<1>21. CASE HandleMasked \/ HandleZero \/ HandleDigit
  BY <1>1, <1>21, KeyReturned DEF HandleMasked, HandleZero, HandleDigit
<1>22. CASE CallMask \/ CallPass \/ CallIgnore \/ CallMode \/ CallPreviousMode \/ CallRepeat
            \/ CallOther \/ CallBind \/ CallUnbound \/ ConfCrash
  BY <1>1, <1>22, KeyReturned DEF CallMask, CallPass, CallIgnore, CallMode, CallPreviousMode,
     CallRepeat, CallOther, CallBind, CallUnbound, ConfCrash
<1>23. CASE HandleFreed \/ BindingReturnFreed
  BY <1>1, <1>23, KeyReturned DEF HandleFreed, BindingReturnFreed
<1>24. CASE CallUnbind
  <2>1. SameFrames(stack, stack') /\ (ctl' = Return(TRUE) \/ ctl' = Fault) /\ input' = input
    BY <1>24, UnbindTypes DEF CallUnbind
  <2> QED
    BY <1>1, <2>1, KeyedSame, KeyReturned
<1>25. CASE UNCHANGED vars
  BY <1>25 DEF vars, KeyInv
<1> QED
  BY <1>24, <1>25, <1>2, <1>3, <1>4, <1>5, <1>6, <1>7, <1>8, <1>9, <1>10, <1>11, <1>12, <1>13, <1>14, <1>15,
     <1>16, <1>17, <1>18, <1>19, <1>20, <1>21, <1>22, <1>23
  DEF Next, Run, Startup, HandleKey, Command

\* At first there is no key, no call and no frame.
LEMMA KeyInit == Init => KeyInv
BY DEF Init, KeyInv, Keyed, AtOptions

\* However deep the rehandles, the groups and the lines that are asked for again, a
\* command is given the key whose bytes `pass' would write, or NULL.
THEOREM KeyCorrect == Spec => []KeyIsInput
<1>1. KeyInv => KeyIsInput
  BY DEF KeyInv, KeyIsInput, Fits
<1> QED
  BY TypeInit, TypeStep, KeyInit, KeyStep, <1>1, PTL DEF Spec

\* No configuration, nor anything it calls, ever makes handle_key() run.
THEOREM ConfCorrect == Spec => []ConfHandlesNoKey
<1>1. TypeOK /\ KeyInv => ConfHandlesNoKey
  BY DEF TypeOK, KeyInv, ConfHandlesNoKey, Fits
<1> QED
  BY TypeInit, TypeStep, KeyInit, KeyStep, <1>1, PTL DEF Spec

-----------------------------------------------------------------------------
(***************************************************************************)
(* An open chain can be continued.  In the middle of a key it may not be   *)
(* so: a command may unbind what follows in a chain that a rehandle has    *)
(* opened before it.  But binding_execute() decides anew which chain is    *)
(* open when the command of its binding has returned.  So if a chain       *)
(* cannot be continued, there is a binding that is being executed; and     *)
(* what runs in none calls commands of S only, which never unbind, or is   *)
(* the configuration, before the first key has opened a chain.             *)
(***************************************************************************)

Stuck ==
  /\ current_binding # NoNode
  /\ ~(current_binding \in DOMAIN bindings /\ HasChildren(current_binding))

InBinding(s) == \E i \in 1 .. Len(s) : s[i].fn = "binding"

\* What f has still to call is of S.
Harmless(f, S) ==
  /\ f.fn \in {"group", "evaluate"} => f.call \in S
  /\ f.fn = "load" => f.files \in Seq(Seq(S))
  /\ f.fn = "conf" => f.todo \in Seq(S)

HarmlessStack(s, S) ==
  \A i \in 1 .. Len(s) : Harmless(s[i], S) \/ \E j \in 1 .. i : s[j].fn = "binding"

OpenInv(S) ==
  /\ \A m \in Modes, t \in KeyTypes : unbound[m][t] \in S \cup {NoCall}
  /\ Stuck => InBinding(stack)
  /\ input = NoKey => ~InBinding(stack) /\ (ctl.at = "poll" \/ current_binding = NoNode)
  /\ input # NoKey => /\ HarmlessStack(stack, S)
                      /\ ctl.at = "call" /\ ~InBinding(stack) => ctl.call \in S

\* A binding is being executed after a push if it was before, or is the frame pushed.
LEMMA InBindingAppend ==
  ASSUME NEW s \in Seq(Frames), NEW f
  PROVE  InBinding(Append(s, f)) <=> InBinding(s) \/ f.fn = "binding"
<1> DEFINE t == Append(s, f)
<1>1. /\ Len(t) = Len(s) + 1 /\ Len(s) \in Nat
      /\ \A i \in 1 .. Len(s) : t[i] = s[i]
      /\ t[Len(s) + 1] = f
  BY Pushed
<1> HIDE DEF t
<1>2. ASSUME InBinding(t) PROVE InBinding(s) \/ f.fn = "binding"
  <2>1. PICK i \in 1 .. Len(t) : t[i].fn = "binding"
    BY <1>2 DEF InBinding
  <2>2. i \in 1 .. Len(s) \/ i = Len(s) + 1
    BY <1>1
  <2> QED
    BY <1>1, <2>1, <2>2 DEF InBinding
<1>3. ASSUME InBinding(s) PROVE InBinding(t)
  <2>1. PICK i \in 1 .. Len(s) : s[i].fn = "binding"
    BY <1>3 DEF InBinding
  <2>2. i \in 1 .. Len(t) /\ t[i].fn = "binding"
    BY <1>1, <2>1
  <2> QED
    BY <2>2 DEF InBinding
<1>4. ASSUME f.fn = "binding" PROVE InBinding(t)
  <2>1. Len(s) + 1 \in 1 .. Len(t)
    BY <1>1
  <2> QED
    BY <1>1, <1>4, <2>1 DEF InBinding
<1> QED
  BY <1>2, <1>3, <1>4 DEF t

\* What a binding executes, and what calls commands of S only, may go on top.
LEMMA HarmlessAppend ==
  ASSUME NEW S, NEW s \in Seq(Frames), NEW f, HarmlessStack(s, S),
         Harmless(f, S) \/ f.fn = "binding" \/ InBinding(s)
  PROVE  HarmlessStack(Append(s, f), S)
<1> DEFINE t == Append(s, f)
<1>1. /\ Len(t) = Len(s) + 1 /\ Len(s) \in Nat
      /\ \A i \in 1 .. Len(s) : t[i] = s[i]
      /\ t[Len(s) + 1] = f
  BY Pushed
<1> HIDE DEF t
<1>2. ASSUME NEW i \in 1 .. Len(t)
      PROVE  Harmless(t[i], S) \/ \E j \in 1 .. i : t[j].fn = "binding"
  <2>1. CASE i \in 1 .. Len(s)
    <3>1. \A j \in 1 .. i : j \in 1 .. Len(s) /\ t[j] = s[j]
      BY <1>1, <2>1
    <3>2. t[i] = s[i]
      BY <1>1, <2>1
    <3> QED
      BY <2>1, <3>1, <3>2 DEF HarmlessStack
  <2>2. CASE i = Len(s) + 1
    <3>1. t[i] = f /\ i \in 1 .. i
      BY <1>1, <2>2
    <3>2. ASSUME InBinding(s) PROVE \E j \in 1 .. i : t[j].fn = "binding"
      <4>1. PICK j \in 1 .. Len(s) : s[j].fn = "binding"
        BY <3>2 DEF InBinding
      <4>2. j \in 1 .. i /\ t[j] = s[j]
        BY <1>1, <2>2, <4>1
      <4> QED
        BY <4>1, <4>2
    <3> QED
      BY <3>1, <3>2
  <2> QED
    BY <1>1, <2>1, <2>2
<1> QED
  BY <1>2 DEF HarmlessStack, t

\* The same of what is below the top; and the top calls commands of S only, unless a
\* binding is being executed.
LEMMA HarmlessBelow ==
  ASSUME NEW S, stack \in Seq(Frames), Len(stack) > 0
  PROVE  /\ InBinding(stack) <=> InBinding(Below) \/ Top.fn = "binding"
         /\ HarmlessStack(stack, S) =>
              /\ HarmlessStack(Below, S)
              /\ Harmless(Top, S) \/ Top.fn = "binding" \/ InBinding(Below)
<1>1. /\ Len(Below) = Len(stack) - 1 /\ Len(stack) \in Nat \ {0}
      /\ \A i \in 1 .. Len(Below) : i \in 1 .. Len(stack) /\ Below[i] = stack[i]
      /\ Top = stack[Len(stack)] /\ Len(stack) \in 1 .. Len(stack)
  BY PoppedFrames
<1>2. ASSUME InBinding(stack) PROVE InBinding(Below) \/ Top.fn = "binding"
  <2>1. PICK i \in 1 .. Len(stack) : stack[i].fn = "binding"
    BY <1>2 DEF InBinding
  <2>2. i \in 1 .. Len(Below) \/ i = Len(stack)
    BY <1>1
  <2> QED
    BY <1>1, <2>1, <2>2 DEF InBinding
<1>3. ASSUME InBinding(Below) PROVE InBinding(stack)
  BY <1>1, <1>3 DEF InBinding
<1>4. ASSUME Top.fn = "binding" PROVE InBinding(stack)
  BY <1>1, <1>4 DEF InBinding
<1>5. ASSUME HarmlessStack(stack, S)
      PROVE  /\ HarmlessStack(Below, S)
             /\ Harmless(Top, S) \/ Top.fn = "binding" \/ InBinding(Below)
  <2>1. ASSUME NEW i \in 1 .. Len(Below)
        PROVE  Harmless(Below[i], S) \/ \E j \in 1 .. i : Below[j].fn = "binding"
    <3>1. \A j \in 1 .. i : j \in 1 .. Len(Below)
      BY <1>1
    <3> QED
      BY <1>1, <1>5, <3>1 DEF HarmlessStack
  <2>2. Harmless(Top, S) \/ InBinding(stack)
    BY <1>1, <1>5 DEF HarmlessStack, InBinding
  <2> QED
    BY <1>2, <2>1, <2>2 DEF HarmlessStack
<1> QED
  BY <1>2, <1>3, <1>4, <1>5

\* Frames that are the same but for the nodes are as harmless.
LEMMA HarmlessSame ==
  ASSUME NEW S, NEW s, NEW t, SameFrames(s, t)
  PROVE  /\ InBinding(t) <=> InBinding(s)
         /\ HarmlessStack(s, S) => HarmlessStack(t, S)
<1>1. Len(t) = Len(s) /\ \A i \in 1 .. Len(s) : /\ t[i].fn = s[i].fn
                                                /\ s[i].fn # "binding" => t[i] = s[i]
  BY DEF SameFrames
<1>2. InBinding(t) <=> InBinding(s)
  BY <1>1 DEF InBinding
<1>3. ASSUME HarmlessStack(s, S), NEW i \in 1 .. Len(t)
      PROVE  Harmless(t[i], S) \/ \E j \in 1 .. i : t[j].fn = "binding"
  <2>1. CASE Harmless(s[i], S)
    BY <1>1, <2>1 DEF Harmless
  <2>2. ASSUME NEW j \in 1 .. i, s[j].fn = "binding"
        PROVE  Harmless(t[i], S) \/ \E k \in 1 .. i : t[k].fn = "binding"
    <3>1. CASE j \in 1 .. Len(s)
      BY <1>1, <2>2, <3>1
    <3>2. CASE j \notin 1 .. Len(s)
      <4>1. FALSE
        BY <1>1, <3>2
      <4> QED
        BY <4>1
    <3> QED
      BY <3>1, <3>2
  <2> QED
    BY <1>1, <1>3, <2>1, <2>2 DEF HarmlessStack
<1> QED
  BY <1>2, <1>3 DEF HarmlessStack

\* A step that leaves the chain, the trees and the bindings being executed as they are.
LEMMA OpenKept ==
  ASSUME NEW S, OpenInv(S), ctl.at # "poll",
         unbound' = unbound, input' = input, current_binding' = current_binding,
         DOMAIN bindings \subseteq DOMAIN bindings',
         InBinding(stack') <=> InBinding(stack),
         input # NoKey => HarmlessStack(stack', S),
         input # NoKey /\ ~InBinding(stack') /\ ctl'.at = "call" => ctl'.call \in S
  PROVE  OpenInv(S)'
<1>1. Stuck' => Stuck
  BY DEF Stuck, HasChildren, HasBinding
<1> QED
  BY <1>1 DEF OpenInv

\* A push that is harmless, or in a binding.
LEMMA OpenPushed ==
  ASSUME NEW S, OpenInv(S), ctl.at # "poll",
         unbound' = unbound, input' = input, current_binding' = current_binding,
         bindings' = bindings,
         NEW s \in Seq(Frames), InBinding(s) <=> InBinding(stack),
         HarmlessStack(stack, S) => HarmlessStack(s, S),
         NEW f, stack' = Append(s, f), f.fn # "binding",
         input # NoKey => InBinding(s) \/ Harmless(f, S),
         input # NoKey /\ ~InBinding(s) /\ ctl'.at = "call" => ctl'.call \in S
  PROVE  OpenInv(S)'
<1>1. InBinding(stack') <=> InBinding(stack)
  BY InBindingAppend
<1>2. input # NoKey => HarmlessStack(stack', S)
  BY HarmlessAppend DEF OpenInv
<1> QED
  BY <1>1, <1>2, OpenKept

\* A step of handle_key() that closes the chain or leaves it as it is, and executes the
\* unbound command or nothing.
LEMMA OpenUnbound ==
  ASSUME NEW S, TypeOK, KeyInv, OpenInv(S), ctl.at = "handle",
         unbound' = unbound, input' = input, bindings' = bindings,
         current_binding' \in {current_binding, NoNode}, NEW m \in Modes,
         \/ unbound[m][KeyType(ctl.key)] # NoCall /\ ExecuteUnbound(m, ctl.key)
         \/ stack' = stack /\ ctl'.at # "call"
  PROVE  OpenInv(S)'
<1>1. stack \in Seq(Frames) /\ input # NoKey /\ ctl.key \in Keys
  BY ControlsRead DEF TypeOK, KeyInv
<1>2. Stuck' => Stuck
  BY DEF Stuck, HasChildren, HasBinding
<1>3. CASE stack' = stack /\ ctl'.at # "call"
  BY <1>1, <1>2, <1>3 DEF OpenInv
<1>4. CASE unbound[m][KeyType(ctl.key)] # NoCall /\ ExecuteUnbound(m, ctl.key)
  <2>1. KeyType(ctl.key) \in KeyTypes
    BY <1>1, KeysAssumption DEF KeyType, KeyTypes
  <2>2. unbound[m][KeyType(ctl.key)] \in S
    BY <1>4, <2>1 DEF OpenInv
  <2> DEFINE f == [fn |-> "unbound"]
  <2>3. stack' = Append(stack, f) /\ ctl' = Call(unbound[m][KeyType(ctl.key)], ctl.key)
    BY <1>4 DEF ExecuteUnbound, Push
  <2>4. Harmless(f, S) /\ f.fn # "binding"
    BY DEF Harmless
  <2> HIDE DEF f
  <2>5. InBinding(stack') <=> InBinding(stack)
    BY <1>1, <2>3, <2>4, InBindingAppend
  <2>6. HarmlessStack(stack', S)
    BY <1>1, <2>3, <2>4, HarmlessAppend DEF OpenInv
  <2>7. ctl'.call \in S
    BY <2>2, <2>3 DEF Call
  <2> QED
    BY <1>1, <1>2, <2>5, <2>6, <2>7 DEF OpenInv
<1> QED
  BY <1>3, <1>4

\* A chain that is opened can be continued.
LEMMA OpenedIsOpen ==
  ASSUME NEW n \in DOMAIN bindings, current_binding' = Opened(n), bindings' = bindings
  PROVE  ~Stuck'
BY DEF Stuck, Opened, HasChildren, HasBinding

\* A step that executes a binding, or has executed one that has no command.
LEMMA OpenExecuted ==
  ASSUME NEW S, TypeOK, KeyInv, OpenInv(S), ctl.at = "handle", NEW n \in DOMAIN bindings,
         NEW km, BindingExecute(n, km, ctl.key),
         unbound' = unbound, input' = input, bindings' = bindings
  PROVE  OpenInv(S)'
<1>1. stack \in Seq(Frames) /\ input # NoKey
  BY DEF TypeOK, KeyInv
<1>2. CASE bindings[n] = NoCall
  <2>1. current_binding' = Opened(n) /\ stack' = stack /\ ctl'.at # "call"
    BY <1>2 DEF BindingExecute, Return
  <2> QED
    BY <1>1, <2>1, OpenedIsOpen DEF OpenInv
<1>3. CASE bindings[n] # NoCall
  <2> DEFINE f == [fn |-> "binding", node |-> n, call |-> bindings[n], key |-> ctl.key,
                   counted |-> repeat_enabled[km] /\ repeat > 0,
                   left |-> IF repeat_enabled[km] /\ repeat > 0 THEN repeat - 1 ELSE 0]
  <2>1. stack' = Append(stack, f)
    BY <1>3 DEF BindingExecute, Push
  <2>2. f.fn = "binding"
    OBVIOUS
  <2> HIDE DEF f
  <2>3. InBinding(stack') /\ HarmlessStack(stack', S)
    BY <1>1, <2>1, <2>2, InBindingAppend, HarmlessAppend DEF OpenInv
  <2> QED
    BY <1>1, <2>3 DEF OpenInv
<1> QED
  BY <1>2, <1>3

\* One case for each action that changes the stack, the chain or the trees.
LEMMA OpenStep ==
  ASSUME NEW S, NeverUnbinds(S), TypeOK, KeyInv, OpenInv(S), [Next]_vars
  PROVE  OpenInv(S)'
<1>1. stack \in Seq(Frames)
  BY DEF TypeOK
<1>2. ASSUME NEW fn, TopIs(fn), fn # "binding"
      PROVE  /\ Len(stack) > 0 /\ Top \in Frames /\ Below \in Seq(Frames) /\ Top.fn = fn
             /\ InBinding(stack) <=> InBinding(Below)
             /\ HarmlessStack(stack, S) => HarmlessStack(Below, S)
             /\ input # NoKey => InBinding(Below) \/ Harmless(Top, S)
  BY <1>1, <1>2, StackTypes, HarmlessBelow DEF TopIs, OpenInv
<1>3. ASSUME NEW op, Calling(op)
      PROVE  /\ ctl.at = "call" /\ ctl.call \in Calls /\ Program[ctl.call].op = op
             /\ WellFormed(Program[ctl.call])
             /\ input # NoKey => InBinding(stack) \/ ctl.call \in S
  BY <1>3, CallWellFormed DEF Calling, OpenInv
<1>4. CASE HandleChain \/ HandleBound
  <2>1. PICK n \in DOMAIN bindings : \E km : BindingExecute(n, km, ctl.key)
    BY <1>4 DEF HandleChain, HandleBound, HasBinding
  <2> QED
    BY <1>4, <2>1, OpenExecuted DEF HandleChain, InChain, HandleBound, LookingUp, keymodes
<1>5. CASE HandleChainBroken
  <2>1. current_mode \in Modes
    BY DEF TypeOK
  <2>2. \/ /\ unbound[current_mode][KeyType(ctl.key)] # NoCall
           /\ ExecuteUnbound(current_mode, ctl.key)
        \/ stack' = stack /\ ctl'.at # "call"
    BY <1>5 DEF HandleChainBroken, Return
  <2> QED
    BY <1>5, <2>1, <2>2, OpenUnbound DEF HandleChainBroken, InChain, keymodes
<1>6. CASE HandleUnbound
  <2>1. LookupMode \in Modes
    BY ModesAssumption DEF LookupMode, TypeOK
  <2>2. \/ /\ unbound[LookupMode][KeyType(ctl.key)] # NoCall
           /\ ExecuteUnbound(LookupMode, ctl.key)
        \/ stack' = stack /\ ctl'.at # "call"
    BY <1>6 DEF HandleUnbound, Return
  <2> QED
    BY <1>6, <2>1, <2>2, OpenUnbound DEF HandleUnbound, LookingUp, keymodes
<1>7. CASE BindingReturn
  <2>1. /\ Len(stack) > 0 /\ Top.fn = "binding" /\ Top \in Frames
        /\ Below \in Seq(Frames) /\ ctl.at = "return"
        /\ input' = input /\ unbound' = unbound /\ bindings' = bindings
    BY <1>1, <1>7, StackTypes DEF BindingReturn, Returning, TopIs, keymodes
  <2>2. InBinding(stack) /\ input # NoKey /\ HarmlessStack(Below, S)
    BY <1>1, <2>1, HarmlessBelow DEF OpenInv
  <2>3. CASE Top.left > 0
    <3>1. stack' = Append(Below, Countdown(Top)) /\ current_binding' = current_binding
      BY <1>7, <2>3 DEF BindingReturn, Replace
    <3>2. Countdown(Top).fn = "binding"
      BY <2>1, FramesRead DEF Countdown
    <3>3. InBinding(stack') /\ HarmlessStack(stack', S)
      BY <2>1, <2>2, <3>1, <3>2, InBindingAppend, HarmlessAppend
    <3> QED
      BY <2>1, <2>2, <3>3 DEF OpenInv
  <2>4. CASE ~(Top.left > 0)
    <3>1. /\ stack' = Below /\ Top.node \in DOMAIN bindings
          /\ current_binding' = Opened(Top.node) /\ ctl'.at # "call"
      BY <1>7, <2>4 DEF BindingReturn, Pop, Return
    <3> QED
      BY <2>1, <2>2, <3>1, OpenedIsOpen DEF OpenInv
  <2> QED
    BY <2>3, <2>4
<1>8. CASE UnboundReturn \/ LoadReturn \/ ConfReturn
  <2>1. \E fn \in {"unbound", "load", "conf"} : TopIs(fn)
    BY <1>8 DEF UnboundReturn, LoadReturn, ConfReturn
  <2>2. stack' = Below /\ ctl.at = "return" /\ ctl'.at = "return"
    BY <1>8 DEF UnboundReturn, LoadReturn, ConfReturn, Returning, Pop, Return
  <2> QED
    BY <1>2, <1>8, <2>1, <2>2, OpenKept
    DEF UnboundReturn, LoadReturn, ConfReturn, context, keymodes, OpenInv
<1>9. CASE CallBind
  <2>1. DOMAIN bindings \subseteq DOMAIN bindings'
    BY <1>9 DEF CallBind
  <2> QED
    BY <1>3, <1>9, <2>1, OpenKept DEF CallBind, context, Return, OpenInv
<1>10. CASE CallUnbind
  <2>1. /\ SameFrames(stack, stack') /\ ctl'.at # "call"
        /\ current_binding = NoNode => current_binding' = NoNode
    BY <1>10, UnbindTypes DEF Return, Fault
  <2>2. ctl.at = "call" /\ input' = input /\ unbound' = unbound
    BY <1>10 DEF CallUnbind, Calling
  <2>3. /\ InBinding(stack') <=> InBinding(stack)
        /\ HarmlessStack(stack, S) => HarmlessStack(stack', S)
    BY <2>1, HarmlessSame
  <2>4. input # NoKey => InBinding(stack)
    BY <1>3, <1>10 DEF CallUnbind, NeverUnbinds
  <2>5. ASSUME Stuck' PROVE InBinding(stack')
    <3>1. current_binding # NoNode
      BY <2>1, <2>5 DEF Stuck
    <3> QED
      BY <2>2, <2>3, <2>4, <3>1 DEF OpenInv
  <2> QED
    BY <2>1, <2>2, <2>3, <2>5 DEF OpenInv
<1>11. CASE CallUnbound
  <2>1. ctl.call \in Calls /\ Program[ctl.call].op = "unbound" /\ Program[ctl.call].call \in S
    BY <1>3, <1>11 DEF CallUnbound, NeverUnbinds
  <2>2. ASSUME NEW m \in Modes, NEW t \in KeyTypes PROVE unbound'[m][t] \in S \cup {NoCall}
    BY <1>11, <2>1, <2>2 DEF CallUnbound, Arg, TypeOK, OpenInv
  <2>3. /\ UNCHANGED <<stack, input, current_binding, bindings>>
        /\ ctl.at = "call" /\ ctl'.at = "return"
    BY <1>11 DEF CallUnbound, Calling, Return, context
  <2>4. Stuck' => Stuck
    BY <2>3 DEF Stuck, HasChildren, HasBinding
  <2> QED
    BY <2>2, <2>3, <2>4 DEF OpenInv
<1>12. CASE CallGroup
  <2> DEFINE f == [fn |-> "group", call |-> ctl.call, key |-> ctl.key, pos |-> 1]
  <2>1. stack' = Append(stack, f) /\ ctl' = Call(Program[ctl.call].calls[1], ctl.key)
    BY <1>12 DEF CallGroup, Push, Arg
  <2>2. f.fn = "group" /\ f.call = ctl.call
    OBVIOUS
  <2> HIDE DEF f
  <2>3. input # NoKey => InBinding(stack) \/ (Harmless(f, S) /\ Program[ctl.call].calls[1] \in S)
    <3>1. ASSUME ctl.call \in S PROVE Program[ctl.call].calls[1] \in S
      <4>1. Program[ctl.call].calls \in Seq(S)
        BY <1>3, <1>12, <3>1 DEF CallGroup, NeverUnbinds
      <4>2. Len(Program[ctl.call].calls) > 0
        BY <1>3, <1>12 DEF CallGroup, WellFormed
      <4> QED
        BY <4>1, <4>2
    <3> QED
      BY <1>3, <1>12, <2>2, <3>1 DEF CallGroup, Harmless
  <2> QED
    BY <1>1, <1>3, <1>12, <2>1, <2>2, <2>3, OpenPushed DEF CallGroup, Call, context, keymodes
<1>13. CASE GroupReturn
  <2>1. /\ Len(stack) > 0 /\ Top \in Frames /\ Below \in Seq(Frames) /\ Top.fn = "group"
        /\ InBinding(stack) <=> InBinding(Below)
        /\ HarmlessStack(stack, S) => HarmlessStack(Below, S)
        /\ input # NoKey => InBinding(Below) \/ Harmless(Top, S)
        /\ ctl.at = "return"
    BY <1>2, <1>13 DEF GroupReturn, Returning
  <2>2. CASE stack' = Below /\ ctl' = Return(TRUE)
    BY <1>13, <2>1, <2>2, OpenKept DEF GroupReturn, Return, context, keymodes, OpenInv
  <2>3. ASSUME NEW j \in NextInGroup(Program[Top.call], Top.pos, ctl.ok),
               stack' = Append(Below, [Top EXCEPT !.pos = j]),
               ctl' = Call(Program[Top.call].calls[j], Top.key)
        PROVE  OpenInv(S)'
    <3> DEFINE f == [Top EXCEPT !.pos = j]
    <3>1. f.fn = "group" /\ f.call = Top.call
      BY <2>1, FramesRead
    <3>2. j \in 1 .. Len(Program[Top.call].calls)
      BY <2>1, <2>3, FramesRead DEF NextInGroup
    <3> HIDE DEF f
    <3>3. ASSUME Harmless(Top, S) PROVE Harmless(f, S) /\ Program[Top.call].calls[j] \in S
      <4>1. Top.call \in S /\ Program[Top.call].op = "group"
        BY <2>1, <3>3, FramesRead DEF Harmless, Groups
      <4>2. Program[Top.call].calls \in Seq(S)
        BY <4>1 DEF NeverUnbinds
      <4> QED
        BY <3>1, <3>2, <4>1, <4>2 DEF Harmless
    <3>4. ctl'.at = "call" /\ ctl'.call = Program[Top.call].calls[j]
      BY <2>3 DEF Call
    <3>5. stack' = Append(Below, f)
      BY <2>3 DEF f
    <3> QED
      BY <1>13, <2>1, <3>1, <3>3, <3>4, <3>5, OpenPushed DEF GroupReturn, context, keymodes
  <2> QED
    BY <1>13, <2>2, <2>3 DEF GroupReturn, Pop, Replace
<1>14. CASE ReadOption
  <2>1. input = NoKey /\ stack = <<>> /\ ctl.at = "options" /\ current_binding = NoNode
    BY <1>14 DEF ReadOption, KeyInv, OpenInv, AtOptions
  <2>2. \/ stack' = stack
        \/ stack' = Append(stack, LoadFrame(Options[optind].files))
    BY <1>14 DEF ReadOption, Push
  <2>3. InBinding(stack') <=> InBinding(stack)
    <3> DEFINE f == LoadFrame(Options[optind].files)
    <3>1. f.fn # "binding" /\ (stack' = stack \/ stack' = Append(stack, f))
      BY <2>2 DEF LoadFrame
    <3> HIDE DEF f
    <3>2. CASE stack' = stack
      BY <3>2
    <3>3. CASE stack' = Append(stack, f)
      BY <1>1, <3>1, <3>3, InBindingAppend
    <3> QED
      BY <3>1, <3>2, <3>3
  <2> QED
    BY <1>14, <2>1, <2>3, OpenKept DEF ReadOption, keymodes
<1>15. CASE CallLoad
  <2> DEFINE f == LoadFrame(Program[ctl.call].files)
  <2>1. stack' = Append(stack, f) /\ ctl'.at # "call"
    BY <1>15 DEF CallLoad, Push, Arg, Return
  <2>2. f.fn = "load" /\ f.files = Program[ctl.call].files
    BY DEF LoadFrame
  <2> HIDE DEF f
  <2>3. input # NoKey => InBinding(stack) \/ Harmless(f, S)
    BY <1>3, <1>15, <2>2 DEF CallLoad, NeverUnbinds, Harmless
  <2> QED
    BY <1>1, <1>3, <1>15, <2>1, <2>2, <2>3, OpenPushed DEF CallLoad, context, keymodes
<1>16. CASE LoadNext
  <2>1. /\ Len(stack) > 0 /\ Top \in Frames /\ Below \in Seq(Frames) /\ Top.fn = "load"
        /\ InBinding(stack) <=> InBinding(Below)
        /\ HarmlessStack(stack, S) => HarmlessStack(Below, S)
        /\ input # NoKey => InBinding(Below) \/ Harmless(Top, S)
        /\ ctl.at = "return"
    BY <1>2, <1>16 DEF LoadNext, Returning
  <2> DEFINE f == LoadFrame(Tail(Top.files))
             g == ConfFrame(Head(Top.files))
             s == Append(Below, f)
  <2>2. stack' = Append(s, g) /\ ctl'.at # "call"
    BY <1>16 DEF LoadNext, Return
  <2>3. f.fn = "load" /\ f.files = Tail(Top.files) /\ g.fn = "conf" /\ g.todo = Head(Top.files)
    BY DEF LoadFrame, ConfFrame
  <2>4. f \in Frames
    <3>1. Top.files \in Seq(Seq(Calls)) /\ Top.files # <<>>
      BY <1>16, <2>1, FramesRead DEF LoadNext
    <3>2. Tail(Top.files) \in Seq(Seq(Calls))
      BY <3>1
    <3> QED
      BY <3>2, FramesMade
  <2>5. ASSUME Harmless(Top, S) PROVE Harmless(f, S) /\ Harmless(g, S)
    <3>1. Top.files \in Seq(Seq(S)) /\ Top.files # <<>>
      BY <1>16, <2>1, <2>5 DEF LoadNext, Harmless
    <3>2. Tail(Top.files) \in Seq(Seq(S)) /\ Head(Top.files) \in Seq(S)
      BY <3>1
    <3> QED
      BY <2>3, <3>2 DEF Harmless
  <2> HIDE DEF f, g
  <2>6. s \in Seq(Frames) /\ (InBinding(s) <=> InBinding(stack))
    BY <2>1, <2>3, <2>4, InBindingAppend
  <2>7. input # NoKey => HarmlessStack(s, S) /\ (InBinding(s) \/ Harmless(g, S))
    BY <2>1, <2>3, <2>5, <2>6, HarmlessAppend DEF OpenInv
  <2> HIDE DEF s
  <2>8. InBinding(stack') <=> InBinding(stack)
    BY <2>2, <2>3, <2>6, InBindingAppend
  <2>9. input # NoKey => HarmlessStack(stack', S)
    BY <2>2, <2>6, <2>7, HarmlessAppend
  <2> QED
    BY <1>16, <2>1, <2>2, <2>8, <2>9, OpenKept DEF LoadNext, context, keymodes
<1>17. CASE CallEvaluate
  <2> DEFINE callers == IF Again THEN Below ELSE stack
             f == [fn |-> "evaluate", call |-> ctl.call, key |-> ctl.key, again |-> Again]
             s == Append(callers, f)
  <2>1. /\ callers \in Seq(Frames) /\ (InBinding(callers) <=> InBinding(stack))
        /\ HarmlessStack(stack, S) => HarmlessStack(callers, S)
    BY <1>1, <1>2 DEF Again
  <2>2. f \in Frames
    <3>1. Again \in BOOLEAN
      BY <1>1, StackTypes, FramesRead DEF Again, TopIs
    <3> QED
      BY <1>17, <3>1, CallWellFormed, FramesMade DEF CallEvaluate
  <2>3. f.fn = "evaluate" /\ f.call = ctl.call
    OBVIOUS
  <2>4. ctl'.at # "call" /\ \/ stack' = callers
                            \/ \E line \in Program[ctl.call].lines : stack' = Append(s, ConfFrame(line))
    BY <1>17 DEF CallEvaluate, Return, Arg
  <2> HIDE DEF callers, f
  <2>5. input # NoKey => InBinding(callers) \/ Harmless(f, S)
    BY <1>3, <1>17, <2>1, <2>3 DEF CallEvaluate, Harmless
  <2>6. s \in Seq(Frames) /\ (InBinding(s) <=> InBinding(stack))
    BY <2>1, <2>2, <2>3, InBindingAppend
  <2>7. input # NoKey => HarmlessStack(callers, S) /\ HarmlessStack(s, S)
    BY <2>1, <2>5, HarmlessAppend DEF OpenInv
  <2> HIDE DEF s
  <2>8. CASE stack' = callers
    BY <1>3, <1>17, <2>1, <2>4, <2>7, <2>8, OpenKept DEF CallEvaluate, context, keymodes
  <2>9. ASSUME NEW line \in Program[ctl.call].lines, stack' = Append(s, ConfFrame(line))
        PROVE  OpenInv(S)'
    <3>1. ConfFrame(line).fn = "conf" /\ ConfFrame(line).todo = line
      BY DEF ConfFrame
    <3>2. input # NoKey => InBinding(s) \/ Harmless(ConfFrame(line), S)
      <4>1. ctl.call \in S => line \in Seq(S)
        BY <1>3, <1>17 DEF CallEvaluate, NeverUnbinds
      <4> QED
        BY <1>3, <1>17, <2>6, <3>1, <4>1 DEF CallEvaluate, Harmless
    <3>3. InBinding(stack') <=> InBinding(stack)
      BY <2>6, <2>9, <3>1, InBindingAppend
    <3>4. input # NoKey => HarmlessStack(stack', S)
      BY <2>6, <2>7, <2>9, <3>2, HarmlessAppend
    <3> QED
      BY <1>3, <1>17, <2>4, <3>3, <3>4, OpenKept DEF CallEvaluate, context, keymodes
  <2> QED
    BY <2>4, <2>8, <2>9
<1>18. CASE EvaluateReturn
  <2>1. /\ Len(stack) > 0 /\ Top \in Frames /\ Below \in Seq(Frames) /\ Top.fn = "evaluate"
        /\ InBinding(stack) <=> InBinding(Below)
        /\ HarmlessStack(stack, S) => HarmlessStack(Below, S)
        /\ input # NoKey => InBinding(Below) \/ Harmless(Top, S)
        /\ ctl.at = "return"
    BY <1>2, <1>18 DEF EvaluateReturn, Returning
  <2>2. CASE stack' = Below /\ ctl' = Return(TRUE)
    BY <1>18, <2>1, <2>2, OpenKept DEF EvaluateReturn, Return, context, keymodes, OpenInv
  <2>3. CASE stack' = Append(Below, [Top EXCEPT !.again = TRUE]) /\ ctl' = Call(Top.call, Top.key)
    <3> DEFINE f == [Top EXCEPT !.again = TRUE]
    <3>1. f.fn = "evaluate" /\ f.call = Top.call
      BY <2>1, FramesRead
    <3>2. ctl'.at = "call" /\ ctl'.call = Top.call /\ stack' = Append(Below, f)
      BY <2>3 DEF Call
    <3> HIDE DEF f
    <3>3. Harmless(Top, S) => Harmless(f, S) /\ Top.call \in S
      BY <2>1, <3>1 DEF Harmless
    <3> QED
      BY <1>18, <2>1, <3>1, <3>2, <3>3, OpenPushed DEF EvaluateReturn, context, keymodes
  <2> QED
    BY <1>18, <2>2, <2>3 DEF EvaluateReturn, Pop, Replace
<1>19. CASE ConfNext
  <2>1. /\ Len(stack) > 0 /\ Top \in Frames /\ Below \in Seq(Frames) /\ Top.fn = "conf"
        /\ InBinding(stack) <=> InBinding(Below)
        /\ HarmlessStack(stack, S) => HarmlessStack(Below, S)
        /\ input # NoKey => InBinding(Below) \/ Harmless(Top, S)
        /\ ctl.at = "return" /\ Top.todo # <<>>
    BY <1>2, <1>19 DEF ConfNext, Returning
  <2> DEFINE f == [Top EXCEPT !.todo = Tail(@)]
  <2>2. stack' = Append(Below, f) /\ ctl'.at = "call" /\ ctl'.call = Head(Top.todo)
    BY <1>19 DEF ConfNext, Replace, ConfCall, Call
  <2>3. f.fn = "conf" /\ f.todo = Tail(Top.todo)
    BY <2>1, FramesRead
  <2> HIDE DEF f
  <2>4. ASSUME Harmless(Top, S) PROVE Harmless(f, S) /\ Head(Top.todo) \in S
    <3>1. Top.todo \in Seq(S)
      BY <2>1, <2>4 DEF Harmless
    <3>2. Tail(Top.todo) \in Seq(S) /\ Head(Top.todo) \in S
      BY <2>1, <3>1
    <3> QED
      BY <2>3, <3>2 DEF Harmless
  <2> QED
    BY <1>19, <2>1, <2>2, <2>3, <2>4, OpenPushed DEF ConfNext, context, keymodes
<1>20. CASE ReadKey
  <2>1. PICK k \in Keys : input' = k /\ ctl' = Handle(k)
    BY <1>20 DEF ReadKey
  <2>2. /\ UNCHANGED <<stack, current_binding, bindings, unbound>> /\ stack = <<>>
        /\ input' # NoKey /\ ctl'.at # "call"
    BY <1>20, <2>1, NullAssumption DEF ReadKey, KeyInv, AtPoll, Handle, context, keymodes
  <2>3. HarmlessStack(stack', S) /\ (Stuck' => Stuck)
    BY <2>2 DEF HarmlessStack, Stuck, HasChildren, HasBinding
  <2> QED
    BY <2>2, <2>3 DEF OpenInv
<1>21. CASE KeyReturn
  <2>1. /\ UNCHANGED <<stack, current_binding, bindings, unbound>> /\ stack = <<>>
        /\ input' = NoKey /\ ctl'.at = "poll"
    BY <1>21 DEF KeyReturn, AtPoll, context, keymodes
  <2>2. ~InBinding(stack') /\ (Stuck' => Stuck)
    BY <2>1 DEF InBinding, Stuck, HasChildren, HasBinding
  <2> QED
    BY <2>1, <2>2 DEF OpenInv
<1>22. CASE /\ UNCHANGED <<stack, current_binding, bindings, unbound, input>>
            /\ ctl.at # "poll" /\ ctl'.at # "call"
  BY <1>22, OpenKept DEF OpenInv
<1>23. CASE \/ OptionReturn \/ StartProgram \/ HandleMasked \/ HandleFreed \/ HandleZero
            \/ HandleDigit \/ BindingReturnFreed \/ ConfCrash
  BY <1>22, <1>23 DEF OptionReturn, StartProgram, HandleMasked, HandleFreed, InChain, HandleZero,
     HandleDigit, LookingUp, BindingReturnFreed, ConfCrash, Returning, Return, AtOptions, AtPoll,
     Exited, Crashed, Fault, context, keymodes
<1>24. CASE \/ CallMask \/ CallPass \/ CallIgnore \/ CallMode \/ CallPreviousMode
            \/ CallRepeat \/ CallRehandle \/ CallOther
  BY <1>22, <1>24 DEF CallMask, CallPass, CallIgnore, CallMode, CallPreviousMode, CallRepeat,
     CallRehandle, CallOther, Calling, Return, Handle, context, keymodes
<1>25. CASE UNCHANGED vars
  BY <1>25 DEF vars, context, keymodes, OpenInv, Stuck, HasChildren, HasBinding
<1> QED
  BY <1>4, <1>5, <1>6, <1>7, <1>8, <1>9, <1>10, <1>11, <1>12, <1>13, <1>14, <1>15, <1>16, <1>17,
     <1>18, <1>19, <1>20, <1>21, <1>23, <1>24, <1>25
  DEF Next, Run, Startup, HandleKey, Command

\* If the commands of unbound keys, and what they call, never unbind: whatever all other
\* commands bind, unbind, load and rehandle before binding_execute() stores the node it
\* was called for, the chain that is open when the program polls can be continued.
THEOREM ChainCorrect ==
  ASSUME NEW S, NeverUnbinds(S)
  PROVE  Spec => []ChainIsOpen
<1>1. Init => OpenInv(S)
  BY DEF Init, OpenInv, Stuck, InBinding
<1>2. KeyInv /\ OpenInv(S) => ChainIsOpen
  BY DEF KeyInv, OpenInv, Stuck, InBinding, ChainIsOpen, AtPoll
<1>3. TypeOK /\ KeyInv /\ OpenInv(S) /\ [Next]_vars => OpenInv(S)'
  BY OpenStep
<1> QED
  BY TypeInit, TypeStep, KeyInit, KeyStep, <1>1, <1>2, <1>3, PTL DEF Spec

-----------------------------------------------------------------------------
(***************************************************************************)
(* Every binding can be reached.                                           *)
(***************************************************************************)

\* A prefix of a sequence is the next shorter one and one element more.
LEMMA PrefixStep ==
  ASSUME NEW S, NEW s \in Seq(S), NEW i \in 1 .. Len(s)
  PROVE  SubSeq(s, 1, i) = Append(SubSeq(s, 1, i - 1), s[i])
<1>1. i - 1 \in 0 .. Len(s) /\ i \in 0 .. Len(s)
  OBVIOUS
<1> DEFINE p == SubSeq(s, 1, i - 1)
           q == SubSeq(s, 1, i)
<1>2. p \in Seq(S) /\ Len(p) = i - 1 /\ \A j \in 1 .. i - 1 : p[j] = s[j]
  BY <1>1, PrefixOf
<1>3. q \in Seq(S) /\ Len(q) = i /\ \A j \in 1 .. i : q[j] = s[j]
  BY <1>1, PrefixOf
<1>4. s[i] \in S
  OBVIOUS
<1> HIDE DEF p, q
<1>5. /\ Append(p, s[i]) \in Seq(S) /\ Len(Append(p, s[i])) = i
      /\ \A j \in 1 .. i - 1 : Append(p, s[i])[j] = p[j]
      /\ Append(p, s[i])[i] = s[i]
  BY <1>1, <1>2, <1>4, AppendProperties
<1>6. \A j \in 1 .. i : q[j] = Append(p, s[i])[j]
  BY <1>2, <1>3, <1>5
<1>7. q = Append(p, s[i])
  BY <1>3, <1>5, <1>6, SeqEqual
<1> QED
  BY <1>7 DEF p, q

\* The nodes that bind allocates: the root, and each other one with its parent.
LEMMA PathClosed ==
  ASSUME NEW m \in Modes, NEW ks \in Seq(Keys), NEW n \in Path(m, ks), n[2] # <<>>
  PROVE  \E p \in Path(m, ks), k \in Keys : n = Child(p, k)
<1>1. PICK i \in 0 .. Len(ks) : n = <<m, SubSeq(ks, 1, i)>>
  BY DEF Path
<1>2. i \in 1 .. Len(ks)
  <2>1. CASE i = 0
    <3>1. SubSeq(ks, 1, 0) = <<>>
      BY SubSeqEmpty
    <3> QED
      BY <1>1, <2>1, <3>1
  <2> QED
    BY <2>1
<1> DEFINE p == <<m, SubSeq(ks, 1, i - 1)>>
<1>3. p \in Path(m, ks)
  <2>1. i - 1 \in 0 .. Len(ks)
    BY <1>2
  <2> QED
    BY <2>1, Zenon DEF Path
<1>4. n = Child(p, ks[i])
  BY <1>1, <1>2, PrefixStep DEF Child
<1>5. ks[i] \in Keys
  BY <1>2
<1> QED
  BY <1>3, <1>4, <1>5

\* What unbind has not cut off still hangs on what it hung on.
LEMMA UnbindClosed ==
  ASSUME TypeOK, TreeIsClosed, NEW seen, NEW cut \in Cuts,
         <<current_mode, seen>> \in DOMAIN bindings, UnbindSeen(seen, cut)
  PROVE  TreeIsClosed'
<1> DEFINE freed == Deleted(current_mode, seen)
           gone == Subtrees(freed)
           kept == {n \in DOMAIN bindings \ gone : n[1] \notin UnusedCuts}
           lost == {Moved(n, gone, cut) : n \in gone \ freed}
<1>1. DOMAIN bindings' = kept \cup lost
  BY DEF UnbindSeen
<1>2. UnusedCuts \cap Modes = {} /\ cut \notin Modes
  BY ModesAssumption DEF UnusedCuts
<1>3. \A n \in lost : n[1] \notin Modes
  BY <1>2 DEF Moved
<1>4. seen \in Seq(Keys)
  BY DEF TypeOK, Nodes
<1>5. ASSUME NEW s \in freed PROVE s[2] \in Seq(Keys) /\ Len(s[2]) \in Nat \ {0}
  <2>1. PICK i \in 2 .. Len(seen) : s = <<current_mode, SubSeq(seen, 1, i)>>
    BY DEF Deleted
  <2> QED
    BY <1>4, <2>1, PrefixOf
<1>6. \A m \in Modes : Root(m) \in kept
  <2>1. ASSUME NEW m \in Modes PROVE Root(m) \notin gone
    BY <1>5 DEF Subtrees, Root
  <2> QED
    BY <1>2, <2>1 DEF TreeIsClosed, Root
<1>7. ASSUME NEW n \in kept, n[1] \in Modes, n[2] # <<>>
      PROVE  \E p \in kept, k \in Keys : n = Child(p, k)
  <2>1. PICK p \in DOMAIN bindings, k \in Keys : n = Child(p, k)
    BY <1>7 DEF TreeIsClosed
  <2>2. p[2] \in Seq(Keys) /\ n[1] = p[1] /\ n[2] = Append(p[2], k)
    BY <2>1 DEF TypeOK, Nodes, Child
  <2>3. ASSUME NEW s \in freed, p[1] = s[1], Len(s[2]) <= Len(p[2]),
               SubSeq(p[2], 1, Len(s[2])) = s[2]
        PROVE  n \in gone
    <3>1. Len(n[2]) = Len(p[2]) + 1 /\ n[2] \in Seq(Keys)
      BY <2>2
    <3>2. SubSeq(n[2], 1, Len(s[2])) = SubSeq(p[2], 1, Len(s[2]))
      BY <1>5, <2>2, <2>3
    <3> QED
      BY <1>5, <2>2, <2>3, <3>1, <3>2 DEF Subtrees
  <2>4. p \notin gone
    BY <2>3 DEF Subtrees
  <2>5. p \in kept
    BY <1>2, <1>7, <2>2, <2>4
  <2> QED
    BY <2>1, <2>5
<1> HIDE DEF kept, lost
<1>8. \A m \in Modes : Root(m) \in DOMAIN bindings'
  BY <1>1, <1>6
<1>9. ASSUME NEW n \in DOMAIN bindings', n[1] \in Modes, n[2] # <<>>
      PROVE  \E p \in DOMAIN bindings', k \in Keys : n = Child(p, k)
  BY <1>1, <1>3, <1>7, <1>9
<1> QED
  BY <1>8, <1>9 DEF TreeIsClosed

\* bind and unbind are the only commands that change the tree.
LEMMA TreeStep == TypeOK /\ TreeIsClosed /\ [Next]_vars => TreeIsClosed'
<1> SUFFICES ASSUME TypeOK, TreeIsClosed, [Next]_vars PROVE TreeIsClosed'
  OBVIOUS
<1>1. CASE bindings' = bindings
  BY <1>1 DEF TreeIsClosed
<1>2. CASE CallBind
  <2>1. Arg.keys \in Seq(Keys) /\ current_mode \in Modes
    BY <1>2, CallWellFormed DEF CallBind, Arg, WellFormed, TypeOK
  <2>2. DOMAIN bindings' = DOMAIN bindings \cup Path(current_mode, Arg.keys)
    BY <1>2 DEF CallBind
  <2>3. ASSUME NEW n \in DOMAIN bindings', n[1] \in Modes, n[2] # <<>>
        PROVE  \E p \in DOMAIN bindings', k \in Keys : n = Child(p, k)
    BY <2>1, <2>2, <2>3, PathClosed DEF TreeIsClosed
  <2> QED
    BY <2>2, <2>3 DEF TreeIsClosed
<1>3. CASE CallUnbind
  <2>1. CASE \E seen \in SeenKeys(Arg.keys) :
               /\ <<current_mode, seen>> \in DOMAIN bindings
               /\ UnusedCuts # {}
               /\ UnbindSeen(seen, CHOOSE cut \in UnusedCuts : TRUE)
    <3> DEFINE cut == CHOOSE cut \in UnusedCuts : TRUE
    <3>1. PICK seen : <<current_mode, seen>> \in DOMAIN bindings /\ UnbindSeen(seen, cut)
      BY <2>1
    <3>2. cut \in Cuts
      BY <2>1 DEF UnusedCuts
    <3> HIDE DEF cut
    <3> QED
      BY <3>1, <3>2, UnbindClosed
  <2> QED
    BY <1>1, <1>3, <2>1 DEF CallUnbind
<1> QED
  BY <1>1, <1>2, <1>3
  DEF Next, Run, Startup, HandleKey, Command, vars, keymodes, ReadOption, OptionReturn,
      StartProgram, ReadKey, KeyReturn, HandleMasked, HandleFreed, HandleChain,
      HandleChainBroken, HandleZero, HandleBound, HandleDigit, HandleUnbound, BindingReturn,
      BindingReturnFreed, UnboundReturn, CallMask, CallPass,
      CallIgnore, CallMode, CallPreviousMode, CallRepeat, CallRehandle, CallOther, CallUnbound,
      CallGroup, GroupReturn, CallLoad, LoadNext, LoadReturn, CallEvaluate, EvaluateReturn,
      ConfNext, ConfReturn, ConfCrash

\* Every node of a binding tree is reached by typing, so no binding is lost behind a
\* chain that was bound before or after it.
THEOREM TreeCorrect == Spec => []TreeIsClosed
<1>1. Init => TreeIsClosed
  BY DEF Init, TreeIsClosed, Root
<1> QED
  BY TypeInit, TypeStep, TreeStep, <1>1, PTL DEF Spec

-----------------------------------------------------------------------------
(***************************************************************************)
(* The one lexer.  It exists only while a configuration is being read, so  *)
(* it is freed between keys; and while its configuration's commands run it *)
(* is still there.                                                         *)
(***************************************************************************)

InConf(s) == \E i \in 1 .. Len(s) : s[i].fn = "conf"

LexerInv ==
  /\ lexer => InConf(stack)
  /\ ctl.at = "call" /\ TopIs("conf") => lexer

\* A configuration is being read after a push if it was before, or is the frame pushed.
LEMMA InConfAppend ==
  ASSUME NEW s \in Seq(Frames), NEW f
  PROVE  InConf(Append(s, f)) <=> InConf(s) \/ f.fn = "conf"
<1> DEFINE t == Append(s, f)
<1>1. /\ Len(t) = Len(s) + 1 /\ Len(s) \in Nat
      /\ \A i \in 1 .. Len(s) : t[i] = s[i]
      /\ t[Len(s) + 1] = f
  BY Pushed
<1> HIDE DEF t
<1>2. ASSUME InConf(t) PROVE InConf(s) \/ f.fn = "conf"
  <2>1. PICK i \in 1 .. Len(t) : t[i].fn = "conf"
    BY <1>2 DEF InConf
  <2>2. i \in 1 .. Len(s) \/ i = Len(s) + 1
    BY <1>1
  <2> QED
    BY <1>1, <2>1, <2>2 DEF InConf
<1>3. ASSUME InConf(s) PROVE InConf(t)
  <2>1. PICK i \in 1 .. Len(s) : s[i].fn = "conf"
    BY <1>3 DEF InConf
  <2>2. i \in 1 .. Len(t) /\ t[i].fn = "conf"
    BY <1>1, <2>1
  <2> QED
    BY <2>2 DEF InConf
<1>4. ASSUME f.fn = "conf" PROVE InConf(t)
  <2>1. Len(s) + 1 \in 1 .. Len(t)
    BY <1>1
  <2> QED
    BY <1>1, <1>4, <2>1 DEF InConf
<1> QED
  BY <1>2, <1>3, <1>4 DEF t

\* A configuration is being read if it is the top's, or one's below.
LEMMA InConfBelow ==
  ASSUME stack \in Seq(Frames), Len(stack) > 0
  PROVE  InConf(stack) <=> InConf(Below) \/ Top.fn = "conf"
<1>1. /\ Len(Below) = Len(stack) - 1 /\ Len(stack) \in Nat
      /\ \A i \in 1 .. Len(Below) : Below[i] = stack[i]
      /\ Top = stack[Len(stack)]
  BY PoppedFrames
<1>2. ASSUME InConf(stack) PROVE InConf(Below) \/ Top.fn = "conf"
  <2>1. PICK i \in 1 .. Len(stack) : stack[i].fn = "conf"
    BY <1>2 DEF InConf
  <2>2. i \in 1 .. Len(Below) \/ i = Len(stack)
    BY <1>1
  <2> QED
    BY <1>1, <2>1, <2>2 DEF InConf
<1>3. ASSUME InConf(Below) PROVE InConf(stack)
  <2>1. PICK i \in 1 .. Len(Below) : Below[i].fn = "conf"
    BY <1>3 DEF InConf
  <2>2. i \in 1 .. Len(stack) /\ stack[i].fn = "conf"
    BY <1>1, <2>1
  <2> QED
    BY <2>2 DEF InConf
<1>4. ASSUME Top.fn = "conf" PROVE InConf(stack)
  <2>1. Len(stack) \in 1 .. Len(stack)
    BY <1>1
  <2> QED
    BY <1>1, <1>4, <2>1 DEF InConf
<1> QED
  BY <1>2, <1>3, <1>4

\* The function that called is the top, after a push.
LEMMA TopPushed ==
  ASSUME NEW s \in Seq(Frames), NEW f, stack' = Append(s, f)
  PROVE  \A fn : TopIs(fn)' <=> f.fn = fn
<1>1. Len(stack') = Len(s) + 1 /\ Len(s) \in Nat /\ stack'[Len(s) + 1] = f
  BY Pushed
<1> QED
  BY <1>1 DEF TopIs, Top

\* A command's call is pushed by something that is no configuration: a push or a change
\* of the top that leaves the lexer alone.
LEMMA LexerPushed ==
  ASSUME LexerInv, lexer' = lexer, NEW s \in Seq(Frames), NEW f, stack' = Append(s, f),
         InConf(stack) => InConf(s), f.fn # "conf"
  PROVE  LexerInv'
<1>1. InConf(stack') <=> InConf(s) \/ f.fn = "conf"
  BY InConfAppend
<1>2. ~TopIs("conf")'
  BY TopPushed
<1> QED
  BY <1>1, <1>2 DEF LexerInv

\* A step that calls nothing, and ends no configuration.
LEMMA LexerKept ==
  ASSUME LexerInv, lexer' = lexer, InConf(stack) => InConf(stack'), ctl'.at # "call"
  PROVE  LexerInv'
BY DEF LexerInv

\* A configuration takes the lexer when it begins and gives it back when it ends; every
\* other step that pops, pops another function's frame.
LEMMA LexerStep == TypeOK /\ LexerInv /\ [Next]_vars => LexerInv'
<1> SUFFICES ASSUME TypeOK, LexerInv, [Next]_vars PROVE LexerInv'
  OBVIOUS
<1>1. stack \in Seq(Frames) /\ (InConf(stack) => InConf(stack))
  BY DEF TypeOK
<1>2. ASSUME NEW fn \in {"binding", "unbound", "group", "load", "evaluate"}, TopIs(fn)
      PROVE  Below \in Seq(Frames) /\ Top.fn # "conf" /\ (InConf(stack) => InConf(Below))
  BY <1>1, <1>2, StackTypes, InConfBelow DEF TopIs
<1>3. ASSUME NEW n, NEW km, NEW k, BindingExecute(n, km, k), lexer' = lexer
      PROVE  LexerInv'
  <2>1. CASE bindings[n] = NoCall
    <3>1. stack' = stack /\ ctl'.at # "call"
      BY <1>3, <2>1 DEF BindingExecute, Return
    <3> QED
      BY <1>3, <3>1, LexerKept
  <2>2. CASE bindings[n] # NoCall
    <3> DEFINE f == [fn |-> "binding", node |-> n, call |-> bindings[n], key |-> k,
                     counted |-> repeat_enabled[km] /\ repeat > 0,
                     left |-> IF repeat_enabled[km] /\ repeat > 0 THEN repeat - 1 ELSE 0]
    <3>1. stack' = Append(stack, f)
      BY <1>3, <2>2 DEF BindingExecute, Push
    <3>2. f.fn # "conf"
      OBVIOUS
    <3> HIDE DEF f
    <3> QED
      BY <1>1, <1>3, <3>1, <3>2, LexerPushed
  <2> QED
    BY <2>1, <2>2
<1>4. ASSUME NEW m, NEW k, ExecuteUnbound(m, k), lexer' = lexer
      PROVE  LexerInv'
  <2>1. stack' = Append(stack, [fn |-> "unbound"])
    BY <1>4 DEF ExecuteUnbound, Push
  <2> QED
    BY <1>1, <1>4, <2>1, LexerPushed
<1>5. CASE HandleChain \/ HandleBound
  BY <1>3, <1>5 DEF HandleChain, HandleBound
<1>6. CASE HandleChainBroken
  <2>1. CASE unbound[current_mode][KeyType(ctl.key)] # NoCall
    BY <1>4, <1>6, <2>1 DEF HandleChainBroken
  <2>2. CASE unbound[current_mode][KeyType(ctl.key)] = NoCall
    BY <1>1, <1>6, <2>2, LexerKept DEF HandleChainBroken, Return
  <2> QED
    BY <2>1, <2>2
<1>7. CASE HandleUnbound
  <2>1. CASE unbound[LookupMode][KeyType(ctl.key)] # NoCall
    BY <1>4, <1>7, <2>1 DEF HandleUnbound
  <2>2. CASE unbound[LookupMode][KeyType(ctl.key)] = NoCall
    BY <1>1, <1>7, <2>2, LexerKept DEF HandleUnbound, Return
  <2> QED
    BY <2>1, <2>2
<1>8. CASE BindingReturn
  <2>1. Below \in Seq(Frames) /\ Top.fn = "binding" /\ Top \in Frames
          /\ (InConf(stack) => InConf(Below)) /\ lexer' = lexer
    BY <1>1, <1>2, <1>8, StackTypes DEF BindingReturn, TopIs
  <2>2. CASE Top.left > 0
    <3>1. stack' = Append(Below, Countdown(Top))
      BY <1>8, <2>2 DEF BindingReturn, Replace
    <3>2. Countdown(Top).fn # "conf"
      BY <2>1, FramesRead DEF Countdown
    <3> QED
      BY <2>1, <3>1, <3>2, LexerPushed
  <2>3. CASE ~(Top.left > 0)
    BY <1>8, <2>1, <2>3, LexerKept DEF BindingReturn, Pop, Return
  <2> QED
    BY <2>2, <2>3
<1>9. CASE UnboundReturn
  BY <1>2, <1>9, LexerKept DEF UnboundReturn, Pop, Return
<1>10. CASE LoadReturn
  BY <1>2, <1>10, LexerKept DEF LoadReturn, Returning, Pop
<1>11. CASE CallGroup
  <2> DEFINE f == [fn |-> "group", call |-> ctl.call, key |-> ctl.key, pos |-> 1]
  <2>1. stack' = Append(stack, f) /\ lexer' = lexer /\ f.fn # "conf"
    BY <1>11 DEF CallGroup, Push
  <2> HIDE DEF f
  <2> QED
    BY <1>1, <2>1, LexerPushed
<1>12. CASE GroupReturn
  <2>1. Below \in Seq(Frames) /\ Top.fn = "group" /\ Top \in Frames
          /\ (InConf(stack) => InConf(Below)) /\ lexer' = lexer
    BY <1>1, <1>2, <1>12, StackTypes DEF GroupReturn, TopIs
  <2>2. CASE stack' = Below /\ ctl' = Return(TRUE)
    BY <2>1, <2>2, LexerKept DEF Return
  <2>3. ASSUME NEW j, stack' = Append(Below, [Top EXCEPT !.pos = j])
        PROVE  LexerInv'
    <3>1. [Top EXCEPT !.pos = j].fn # "conf"
      BY <2>1, FramesRead
    <3> QED
      BY <2>1, <2>3, <3>1, LexerPushed
  <2> QED
    BY <1>12, <2>2, <2>3 DEF GroupReturn, Pop, Replace
<1>13. CASE EvaluateReturn
  <2>1. Below \in Seq(Frames) /\ Top.fn = "evaluate" /\ Top \in Frames
          /\ (InConf(stack) => InConf(Below)) /\ lexer' = lexer
    BY <1>1, <1>2, <1>13, StackTypes DEF EvaluateReturn, TopIs
  <2>2. CASE stack' = Below /\ ctl' = Return(TRUE)
    BY <2>1, <2>2, LexerKept DEF Return
  <2>3. CASE stack' = Append(Below, [Top EXCEPT !.again = TRUE])
    <3>1. [Top EXCEPT !.again = TRUE].fn # "conf"
      BY <2>1, FramesRead
    <3> QED
      BY <2>1, <2>3, <3>1, LexerPushed
  <2> QED
    BY <1>13, <2>2, <2>3 DEF EvaluateReturn, Pop, Replace
<1>14. CASE ReadOption \/ CallLoad
  <2>1. ASSUME NEW files, stack' = Append(stack, LoadFrame(files)), ctl' = Return(FALSE),
               lexer' = lexer
        PROVE  LexerInv'
    <3>1. LoadFrame(files).fn # "conf"
      BY DEF LoadFrame
    <3> QED
      BY <1>1, <2>1, <3>1, LexerPushed
  <2>2. CASE UNCHANGED <<ctl, stack, lexer>>
    BY <2>2 DEF LexerInv, TopIs, Top
  <2> QED
    BY <1>14, <2>1, <2>2 DEF ReadOption, CallLoad, Push
<1>15. CASE LoadNext
  <2> DEFINE s == Append(Below, LoadFrame(Tail(Top.files)))
             f == ConfFrame(Head(Top.files))
  <2>1. Top.files \in Seq(Seq(Calls)) /\ Below \in Seq(Frames)
    BY <1>1, <1>15, FramesRead, StackTypes DEF LoadNext, TopIs
  <2>2. s \in Seq(Frames)
    <3>1. Tail(Top.files) \in Seq(Seq(Calls))
      BY <1>15, <2>1 DEF LoadNext
    <3>2. LoadFrame(Tail(Top.files)) \in Frames
      BY <3>1, FramesMade
    <3> QED
      BY <2>1, <3>2
  <2>3. stack' = Append(s, f) /\ lexer' = TRUE /\ ctl'.at # "call" /\ f.fn = "conf"
    BY <1>15 DEF LoadNext, ConfFrame, Return
  <2> HIDE DEF s, f
  <2>4. InConf(stack')
    BY <2>2, <2>3, InConfAppend
  <2> QED
    BY <2>3, <2>4 DEF LexerInv
<1>16. CASE CallEvaluate
  <2> DEFINE callers == IF Again THEN Below ELSE stack
             asking == [fn |-> "evaluate", call |-> ctl.call, key |-> ctl.key,
                        again |-> Again]
  <2>1. callers \in Seq(Frames) /\ (InConf(stack) => InConf(callers)) /\ Again \in BOOLEAN
    BY <1>1, <1>2 DEF Again, TopIs
  <2>2. Append(callers, asking) \in Seq(Frames)
    <3>1. asking \in Frames
      BY <1>16, <2>1, CallWellFormed, FramesMade DEF CallEvaluate
    <3> HIDE DEF callers, asking
    <3> QED
      BY <2>1, <3>1
  <2>3. \/ stack' = callers /\ ctl' = Return(Again) /\ lexer' = lexer
        \/ \E line : /\ stack' = Append(Append(callers, asking), ConfFrame(line))
                     /\ lexer' = TRUE
                     /\ ctl' = Return(TRUE)
    BY <1>16 DEF CallEvaluate
  <2> HIDE DEF callers, asking
  <2>4. CASE stack' = callers /\ ctl' = Return(Again) /\ lexer' = lexer
    BY <2>1, <2>4, LexerKept DEF Return
  <2>5. ASSUME NEW line, stack' = Append(Append(callers, asking), ConfFrame(line)),
               lexer' = TRUE, ctl' = Return(TRUE)
        PROVE  LexerInv'
    <3>1. ConfFrame(line).fn = "conf"
      BY DEF ConfFrame
    <3>2. InConf(stack')
      BY <2>2, <2>5, <3>1, InConfAppend
    <3> QED
      BY <2>5, <3>2 DEF LexerInv, Return
  <2> QED
    BY <2>3, <2>4, <2>5
<1>17. CASE ConfNext
  <2>1. /\ Top.fn = "conf" /\ Top \in Frames /\ Below \in Seq(Frames)
        /\ stack' = Append(Below, [Top EXCEPT !.todo = Tail(@)]) /\ lexer' = lexer /\ lexer
    BY <1>1, <1>17, StackTypes DEF ConfNext, TopIs, Replace
  <2>2. [Top EXCEPT !.todo = Tail(@)].fn = "conf"
    BY <2>1, FramesRead
  <2>3. InConf(stack')
    BY <2>1, <2>2, InConfAppend
  <2> QED
    BY <2>1, <2>3 DEF LexerInv
<1>18. CASE ConfReturn
  BY <1>18 DEF ConfReturn, LexerInv, Returning
<1>19. CASE /\ lexer' = lexer /\ stack' = stack /\ ctl'.at # "call"
  BY <1>19, LexerKept
<1>20. CASE UNCHANGED vars
  BY <1>20 DEF vars, LexerInv, TopIs, Top
<1>21. CASE OptionReturn \/ StartProgram \/ ReadKey \/ KeyReturn \/ ConfCrash
            \/ HandleMasked \/ HandleFreed \/ HandleZero \/ HandleDigit \/ BindingReturnFreed
  BY <1>19, <1>21 DEF OptionReturn, StartProgram, ReadKey, KeyReturn, ConfCrash,
     HandleMasked, HandleFreed, HandleZero, HandleDigit, BindingReturnFreed,
     AtOptions, AtPoll, Exited, Crashed, Fault, Handle, Return
<1>22. CASE CallMask \/ CallPass \/ CallIgnore \/ CallMode \/ CallPreviousMode \/ CallRepeat
            \/ CallOther \/ CallBind \/ CallUnbound \/ CallRehandle
  BY <1>19, <1>22 DEF CallMask, CallPass, CallIgnore, CallMode, CallPreviousMode,
     CallRepeat, CallOther, CallBind, CallUnbound, CallRehandle, Return, Handle
<1>23. CASE CallUnbind
  <2>1. SameFrames(stack, stack') /\ (ctl' = Return(TRUE) \/ ctl' = Fault)
    BY <1>23, UnbindTypes
  <2>2. ctl'.at # "call" /\ lexer' = lexer
    BY <1>23, <2>1 DEF CallUnbind, Return, Fault
  <2>3. InConf(stack) => InConf(stack')
    BY <2>1 DEF InConf, SameFrames
  <2> QED
    BY <2>2, <2>3, LexerKept
<1> QED
  BY <1>23, <1>5, <1>6, <1>7, <1>8, <1>9, <1>10, <1>11, <1>12, <1>13, <1>14, <1>15, <1>16, <1>17, <1>18,
     <1>20, <1>21, <1>22
  DEF Next, Run, Startup, HandleKey, Command

\* Whatever configurations load each other and whatever lines are typed at readline -!,
\* no command of a configuration runs without the lexer that reads the next one, and
\* tkremap never polls, or exits, with a lexer that is not freed.
THEOREM LexerCorrect == Spec => []LexerIsFreed
<1>1. Init => LexerInv
  BY DEF Init, LexerInv, AtOptions
<1>2. KeyInv /\ LexerInv => LexerIsFreed
  BY DEF KeyInv, LexerInv, LexerIsFreed, InConf
<1> QED
  BY TypeInit, TypeStep, KeyInit, KeyStep, LexerStep, <1>1, <1>2, PTL DEF Spec

-----------------------------------------------------------------------------
(***************************************************************************)
(* The key after mask.  It is handled in one step, at the bottom of the    *)
(* stack, so between ReadKey and the next poll there are three states: it  *)
(* is to be handled, it has been passed, and the loop polls again.         *)
(***************************************************************************)

\* What the masked key leaves as it found it.
AsPressed ==
  /\ current_binding = pressed.chain
  /\ current_mode = pressed.mode
  /\ repeat = pressed.repeat

PassedOnce == effects = <<[kind |-> "raw", call |-> NoCall]>>

MaskInv ==
  pressed.mask =>
    /\ stack = <<>> /\ AsPressed
    /\ \/ ctl.at = "handle" /\ input # NoKey /\ mask /\ effects = <<>>
       \/ ctl.at = "return" /\ input # NoKey /\ ~mask /\ PassedOnce
       \/ ctl.at = "poll" /\ ~mask /\ PassedOnce

\* Which action follows is decided by the control point, and with an empty stack a
\* return is the whole key's or the whole option's.
LEMMA Follows ==
  ASSUME Next
  PROVE  /\ ctl.at = "handle" => \/ HandleMasked \/ HandleFreed \/ HandleChain
                                \/ HandleChainBroken \/ HandleZero \/ HandleBound
                                \/ HandleDigit \/ HandleUnbound
         /\ ctl.at = "return" /\ stack = <<>> => KeyReturn \/ OptionReturn
         /\ ctl.at = "poll" => ReadKey
<1>1. ReadKey \/ Startup \/ HandleKey \/ Command \/ KeyReturn
  BY DEF Next, Run
<1>2. ReadKey => ctl.at = "poll"
  BY DEF ReadKey, AtPoll
<1>3. Startup => ctl.at = "options" \/ (OptionReturn /\ ctl.at = "return")
  <2>1. ReadOption => ctl = AtOptions
    BY Zenon DEF ReadOption
  <2>2. StartProgram => ctl = AtOptions
    BY Zenon DEF StartProgram
  <2>3. OptionReturn => ctl.at = "return"
    BY Zenon DEF OptionReturn, Returning
  <2> QED
    BY <2>1, <2>2, <2>3 DEF Startup, AtOptions
<1>4. KeyReturn => ctl.at = "return"
  BY DEF KeyReturn, Returning
<1>5. ASSUME HandleKey
      PROVE  \/ /\ ctl.at = "handle"
                /\ \/ HandleMasked \/ HandleFreed \/ HandleChain \/ HandleChainBroken
                   \/ HandleZero \/ HandleBound \/ HandleDigit \/ HandleUnbound
             \/ ctl.at = "return" /\ Len(stack) > 0
  <2>1. CASE BindingReturn \/ BindingReturnFreed \/ UnboundReturn
    BY <2>1 DEF BindingReturn, BindingReturnFreed, UnboundReturn, Returning, TopIs
  <2>2. CASE HandleMasked \/ HandleFreed \/ HandleChain \/ HandleChainBroken \/ HandleZero
    BY <2>2 DEF HandleMasked, HandleFreed, HandleChain, HandleChainBroken, InChain, HandleZero
  <2>3. CASE HandleBound \/ HandleDigit \/ HandleUnbound
    BY <2>3 DEF HandleBound, HandleDigit, HandleUnbound, LookingUp
  <2> QED
    BY <1>5, <2>1, <2>2, <2>3 DEF HandleKey
<1>6. ASSUME Command
      PROVE  ctl.at = "call" \/ (ctl.at = "return" /\ Len(stack) > 0)
  <2>1. CASE \/ GroupReturn \/ LoadNext \/ LoadReturn \/ EvaluateReturn
             \/ ConfNext \/ ConfReturn \/ ConfCrash
    BY <2>1 DEF GroupReturn, LoadNext, LoadReturn, EvaluateReturn, ConfNext, ConfReturn,
       ConfCrash, Returning, TopIs
  <2>2. CASE \/ CallMask \/ CallPass \/ CallIgnore \/ CallMode \/ CallPreviousMode
             \/ CallRepeat \/ CallRehandle \/ CallOther
    BY <2>2 DEF CallMask, CallPass, CallIgnore, CallMode, CallPreviousMode, CallRepeat,
       CallRehandle, CallOther, Calling
  <2>3. CASE CallBind \/ CallUnbind \/ CallUnbound \/ CallGroup \/ CallLoad \/ CallEvaluate
    BY <2>3 DEF CallBind, CallUnbind, CallUnbound, CallGroup, CallLoad, CallEvaluate, Calling
  <2> QED
    BY <1>6, <2>1, <2>2, <2>3 DEF Command
<1>7. stack = <<>> => Len(stack) = 0
  OBVIOUS
<1> QED
  BY <1>1, <1>2, <1>3, <1>4, <1>5, <1>6, <1>7

\* Only three actions can follow each other while the key after mask is handled.
LEMMA MaskStep == KeyInv /\ MaskInv /\ [Next]_vars => MaskInv'
<1> SUFFICES ASSUME KeyInv, MaskInv, [Next]_vars PROVE MaskInv'
  OBVIOUS
<1>1. CASE ReadKey
  <2>1. PICK k \in Keys : ctl' = Handle(k) /\ input' = k
          /\ pressed' = [key |-> k, mode |-> current_mode, chain |-> current_binding,
                         mask |-> mask, repeat |-> repeat]
    BY <1>1 DEF ReadKey
  <2>2. ctl'.at = "handle" /\ input' # NoKey /\ effects' = <<>>
    BY <1>1, <2>1, NullAssumption DEF ReadKey, Handle
  <2>3. mask' = mask /\ (pressed.mask)' = mask /\ AsPressed'
    BY <1>1, <2>1 DEF ReadKey, context, AsPressed
  <2>4. stack' = <<>>
    BY <1>1 DEF ReadKey, KeyInv, AtPoll
  <2> QED
    BY <2>2, <2>3, <2>4 DEF MaskInv
<1>2. CASE pressed' = pressed /\ ~pressed.mask
  BY <1>2 DEF MaskInv
<1>3. CASE UNCHANGED vars
  BY <1>3 DEF vars, context, history, MaskInv, AsPressed, PassedOnce
<1>4. CASE pressed.mask /\ ctl.at = "handle" /\ Next
  <2>1. HandleMasked
    <3>1. mask /\ ctl.at = "handle"
      BY <1>4 DEF MaskInv
    <3> QED
      BY <1>4, <3>1, Follows
      DEF HandleFreed, HandleChain, HandleChainBroken, InChain, HandleZero, HandleBound,
          HandleDigit, HandleUnbound, LookingUp
  <2>2. PassedOnce'
    <3>1. effects' = IF Len(effects) < EffectCap
                     THEN Append(effects, [kind |-> "raw", call |-> NoCall])
                     ELSE effects
      BY <1>4, <2>1 DEF HandleMasked, WriteRaw, Emit, MaskInv
    <3>2. effects = <<>> /\ Len(effects) < EffectCap
      BY <1>4, RangesAssumption DEF MaskInv
    <3>3. \A e : Append(<<>>, e) = <<e>>
      OBVIOUS
    <3> QED
      BY <3>1, <3>2, <3>3 DEF PassedOnce
  <2>3. stack' = <<>> /\ AsPressed' /\ pressed' = pressed
    BY <1>4, <2>1 DEF HandleMasked, MaskInv, AsPressed
  <2>4. ctl'.at = "return" /\ input' # NoKey /\ ~mask'
    BY <1>4, <2>1 DEF HandleMasked, MaskInv, Return
  <2> QED
    BY <2>2, <2>3, <2>4 DEF MaskInv
<1>5. CASE pressed.mask /\ ctl.at = "return" /\ Next
  <2>1. KeyReturn
    <3>1. stack = <<>> /\ input # NoKey
      BY <1>5 DEF MaskInv
    <3> QED
      BY <1>5, <3>1, Follows DEF OptionReturn
  <2>2. stack' = <<>> /\ AsPressed' /\ pressed' = pressed /\ PassedOnce' /\ ~mask'
    BY <1>5, <2>1 DEF KeyReturn, MaskInv, AsPressed, PassedOnce, context, history
  <2>3. ctl'.at = "poll"
    BY <2>1 DEF KeyReturn, AtPoll
  <2> QED
    BY <2>2, <2>3 DEF MaskInv
<1>6. CASE pressed.mask /\ ctl.at = "poll" /\ Next
  <2>1. ReadKey
    BY <1>6, Follows
  <2> QED
    BY <1>1, <2>1
<1>7. ReadKey \/ pressed' = pressed
  BY DEF Next, Run, Startup, HandleKey, Command, vars, history, ReadOption, OptionReturn,
      StartProgram, KeyReturn, HandleMasked, HandleFreed, HandleChain, HandleChainBroken,
      HandleZero, HandleBound, HandleDigit, HandleUnbound, BindingReturn, BindingReturnFreed,
      UnboundReturn, CallMask, CallPass, CallIgnore, CallMode, CallPreviousMode, CallRepeat,
      CallRehandle, CallOther, CallBind, CallUnbind, CallUnbound, CallGroup, GroupReturn, CallLoad, LoadNext, LoadReturn, CallEvaluate,
      EvaluateReturn, ConfNext, ConfReturn, ConfCrash
<1> QED
  BY <1>1, <1>2, <1>3, <1>4, <1>5, <1>6, <1>7 DEF MaskInv

\* In every configuration the key after mask goes to the program once, and the chain, the
\* count and the mode are afterwards what they were when it was pressed.
THEOREM MaskCorrect == Spec => []MaskedKeyIsTransparent
<1>1. Init => MaskInv
  BY DEF Init, MaskInv
<1>2. MaskInv => MaskedKeyIsTransparent
  BY DEF MaskInv, MaskedKeyIsTransparent, Handled, AtPoll, AsPressed, PassedOnce
<1> QED
  BY TypeInit, TypeStep, KeyInit, KeyStep, MaskStep, <1>1, <1>2, PTL DEF Spec

-----------------------------------------------------------------------------
(***************************************************************************)
(* Configurations that read no other one.  There is one lexer, so what     *)
(* makes tkremap crash is a configuration read while another is: if the    *)
(* commands of configurations never load and never ask for a line, nor do  *)
(* the groups among them, nothing else is needed.  S is the commands that  *)
(* a configuration can call, directly or in a group.                       *)
(***************************************************************************)

\* A frame on top of the frames s: only a group of S runs inside a configuration.
FlatFrame(s, f, S) ==
  /\ f.fn = "load" => f.files \in Seq(Seq(S))
  /\ f.fn = "conf" => f.todo \in Seq(S)
  /\ InConf(s) => f.fn = "group" /\ f.call \in S

FlatStack(s, S) == \A i \in 1 .. Len(s) : FlatFrame(SubSeq(s, 1, i - 1), s[i], S)

FlatInv(S) ==
  /\ FlatStack(stack, S)
  /\ ctl.at = "call" /\ InConf(stack) => ctl.call \in S
  /\ InConf(stack) => lexer
  /\ ctl.at # "crashed"

\* A prefix of what remains is a prefix of the whole.
LEMMA PrefixOfPrefix ==
  ASSUME NEW T, NEW s \in Seq(T), NEW n \in 0 .. Len(s), NEW i \in 0 .. n
  PROVE  SubSeq(SubSeq(s, 1, n), 1, i) = SubSeq(s, 1, i)
<1> DEFINE p == SubSeq(s, 1, n)
<1>1. p \in Seq(T) /\ Len(p) = n /\ \A j \in 1 .. n : p[j] = s[j]
  BY PrefixOf
<1> HIDE DEF p
<1>2. i \in 0 .. Len(p) /\ i \in 0 .. Len(s)
  BY <1>1
<1> DEFINE q == SubSeq(p, 1, i)
           r == SubSeq(s, 1, i)
<1>3. q \in Seq(T) /\ Len(q) = i /\ \A j \in 1 .. i : q[j] = p[j]
  BY <1>1, <1>2, PrefixOf
<1>4. r \in Seq(T) /\ Len(r) = i /\ \A j \in 1 .. i : r[j] = s[j]
  BY <1>2, PrefixOf
<1> HIDE DEF q, r
<1>5. \A j \in 1 .. i : q[j] = r[j]
  BY <1>1, <1>3, <1>4
<1>6. q = r
  BY <1>3, <1>4, <1>5, SeqEqual
<1> QED
  BY <1>6 DEF p, q, r

\* A prefix of a sequence is one of the longer sequence, and the longest is the whole.
LEMMA PrefixOfAppend ==
  ASSUME NEW T, NEW s \in Seq(T), NEW f \in T
  PROVE  \A i \in 0 .. Len(s) : SubSeq(Append(s, f), 1, i) = SubSeq(s, 1, i)
<1> DEFINE t == Append(s, f)
<1>1. t \in Seq(T) /\ Len(t) = Len(s) + 1 /\ \A j \in 1 .. Len(s) : t[j] = s[j]
  BY AppendProperties
<1> HIDE DEF t
<1>2. ASSUME NEW i \in 0 .. Len(s) PROVE SubSeq(t, 1, i) = SubSeq(s, 1, i)
  <2> DEFINE q == SubSeq(t, 1, i)
             r == SubSeq(s, 1, i)
  <2>1. i \in 0 .. Len(t)
    BY <1>1
  <2>2. q \in Seq(T) /\ Len(q) = i /\ \A j \in 1 .. i : q[j] = t[j]
    BY <1>1, <2>1, PrefixOf
  <2>3. r \in Seq(T) /\ Len(r) = i /\ \A j \in 1 .. i : r[j] = s[j]
    BY PrefixOf
  <2> HIDE DEF q, r
  <2>4. \A j \in 1 .. i : q[j] = r[j]
    BY <1>1, <2>2, <2>3
  <2>5. q = r
    BY <2>2, <2>3, <2>4, SeqEqual
  <2> QED
    BY <2>5 DEF q, r
<1> QED
  BY <1>2 DEF t

\* A sequence is its longest prefix.
LEMMA PrefixWhole ==
  ASSUME NEW T, NEW s \in Seq(T)
  PROVE  SubSeq(s, 1, Len(s)) = s
<1> DEFINE p == SubSeq(s, 1, Len(s))
<1>1. p \in Seq(T) /\ Len(p) = Len(s) /\ \A j \in 1 .. Len(s) : p[j] = s[j]
  BY PrefixOf
<1> HIDE DEF p
<1>2. p = s
  BY <1>1, SeqEqual
<1> QED
  BY <1>2 DEF p

\* A flat frame keeps a stack flat.
LEMMA FlatAppend ==
  ASSUME NEW S, NEW s \in Seq(Frames), NEW f \in Frames, FlatStack(s, S), FlatFrame(s, f, S)
  PROVE  FlatStack(Append(s, f), S)
<1> DEFINE t == Append(s, f)
<1>1. /\ Len(t) = Len(s) + 1 /\ Len(s) \in Nat
      /\ \A i \in 1 .. Len(s) : t[i] = s[i]
      /\ t[Len(s) + 1] = f
  BY Pushed
<1>2. \A i \in 0 .. Len(s) : SubSeq(t, 1, i) = SubSeq(s, 1, i)
  BY PrefixOfAppend
<1>3. SubSeq(s, 1, Len(s)) = s
  BY PrefixWhole
<1> HIDE DEF t
<1>4. ASSUME NEW i \in 1 .. Len(t) PROVE FlatFrame(SubSeq(t, 1, i - 1), t[i], S)
  <2>1. i - 1 \in 0 .. Len(s)
    BY <1>1
  <2>2. SubSeq(t, 1, i - 1) = SubSeq(s, 1, i - 1)
    BY <1>2, <2>1
  <2>3. CASE i \in 1 .. Len(s)
    <3>1. t[i] = s[i]
      BY <1>1, <2>3
    <3>2. FlatFrame(SubSeq(s, 1, i - 1), s[i], S)
      BY <2>3 DEF FlatStack
    <3> QED
      BY <2>2, <3>1, <3>2
  <2>4. CASE i = Len(s) + 1
    <3>1. i - 1 = Len(s) /\ t[i] = f
      BY <1>1, <2>4
    <3> QED
      BY <1>3, <2>2, <3>1
  <2> QED
    BY <1>1, <2>3, <2>4
<1> QED
  BY <1>4 DEF FlatStack, t

\* What is left of a flat stack is flat, and its top is a flat frame.
LEMMA FlatBelow ==
  ASSUME NEW S, stack \in Seq(Frames), Len(stack) > 0, FlatStack(stack, S)
  PROVE  FlatStack(Below, S) /\ FlatFrame(Below, Top, S)
<1>1. /\ Len(Below) = Len(stack) - 1 /\ Len(stack) \in Nat
      /\ \A i \in 1 .. Len(Below) : Below[i] = stack[i]
      /\ Top = stack[Len(stack)]
  BY PoppedFrames
<1>2. ASSUME NEW i \in 1 .. Len(Below) PROVE FlatFrame(SubSeq(Below, 1, i - 1), Below[i], S)
  <2>1. i \in 1 .. Len(stack) /\ Len(stack) - 1 \in 0 .. Len(stack) /\ i - 1 \in 0 .. Len(stack) - 1
    BY <1>1
  <2>2. SubSeq(Below, 1, i - 1) = SubSeq(stack, 1, i - 1)
    BY <2>1, PrefixOfPrefix DEF Below
  <2>3. FlatFrame(SubSeq(stack, 1, i - 1), stack[i], S)
    BY <2>1 DEF FlatStack
  <2> QED
    BY <1>1, <2>2, <2>3
<1>3. FlatFrame(Below, Top, S)
  <2>1. Len(stack) \in 1 .. Len(stack)
    BY <1>1
  <2> QED
    BY <1>1, <2>1 DEF FlatStack, Below
<1> QED
  BY <1>2, <1>3 DEF FlatStack

\* A step that pushes no command of a configuration: it returns or handles a key, or it
\* calls one while no configuration is read.
LEMMA FlatKept ==
  ASSUME NEW S, FlatInv(S), FlatStack(stack', S), ctl'.at # "crashed",
         InConf(stack') => ctl'.at # "call" /\ InConf(stack) /\ lexer' = lexer
  PROVE  FlatInv(S)'
BY DEF FlatInv

\* Where frames are flat, those that differ in the nodes only are.
LEMMA FlatSame ==
  ASSUME NEW S, NEW s \in Seq(Frames), NEW t \in Seq(Frames), SameFrames(s, t), FlatStack(s, S)
  PROVE  FlatStack(t, S) /\ (InConf(t) <=> InConf(s))
<1>1. /\ Len(t) = Len(s) /\ Len(s) \in Nat
      /\ \A i \in 1 .. Len(s) : t[i].fn = s[i].fn
      /\ \A i \in 1 .. Len(s) : s[i].fn # "binding" => t[i] = s[i]
  BY DEF SameFrames
<1>2. InConf(t) <=> InConf(s)
  <2>1. ASSUME InConf(t) PROVE InConf(s)
    <3>1. PICK i \in 1 .. Len(t) : t[i].fn = "conf"
      BY <2>1 DEF InConf
    <3>2. i \in 1 .. Len(s) /\ s[i].fn = "conf"
      BY <1>1, <3>1
    <3> QED
      BY <3>2 DEF InConf
  <2>2. ASSUME InConf(s) PROVE InConf(t)
    <3>1. PICK i \in 1 .. Len(s) : s[i].fn = "conf"
      BY <2>2 DEF InConf
    <3>2. i \in 1 .. Len(t) /\ t[i].fn = "conf"
      BY <1>1, <3>1
    <3> QED
      BY <3>2 DEF InConf
  <2> QED
    BY <2>1, <2>2
<1>3. ASSUME NEW i \in 1 .. Len(t) PROVE FlatFrame(SubSeq(t, 1, i - 1), t[i], S)
  <2> DEFINE sub == SubSeq(s, 1, i - 1)
             tub == SubSeq(t, 1, i - 1)
  <2>1. i - 1 \in 0 .. Len(s) /\ i - 1 \in 0 .. Len(t)
    BY <1>1
  <2>2. /\ Len(sub) = i - 1 /\ \A j \in 1 .. i - 1 : sub[j] = s[j]
        /\ Len(tub) = i - 1 /\ \A j \in 1 .. i - 1 : tub[j] = t[j]
    <3>1. Len(sub) = i - 1 /\ \A j \in 1 .. i - 1 : sub[j] = s[j]
      BY <2>1, PrefixOf
    <3>2. Len(tub) = i - 1 /\ \A j \in 1 .. i - 1 : tub[j] = t[j]
      BY <2>1, PrefixOf
    <3> QED
      BY <3>1, <3>2
  <2>3. FlatFrame(sub, s[i], S)
    <3>1. i \in 1 .. Len(s)
      BY <1>1
    <3> QED
      BY <3>1 DEF FlatStack
  <2> HIDE DEF sub, tub
  <2>4. \A j \in 1 .. i - 1 : t[j].fn = s[j].fn
    BY <1>1
  <2>5. InConf(tub) <=> InConf(sub)
    BY <2>2, <2>4 DEF InConf
  <2>6. FlatFrame(tub, t[i], S)
    <3>1. t[i].fn = s[i].fn /\ (s[i].fn # "binding" => t[i] = s[i])
      BY <1>1
    <3> QED
      BY <2>3, <2>5, <3>1 DEF FlatFrame
  <2> QED
    BY <2>6 DEF tub
<1> QED
  BY <1>2, <1>3 DEF FlatStack

\* A flat frame goes on top while no configuration is read.
LEMMA FlatCalls ==
  ASSUME NEW S, FlatInv(S), NEW s \in Seq(Frames), FlatStack(s, S), ~InConf(s),
         NEW f \in Frames, f.fn \notin {"conf", "load"}, stack' = Append(s, f),
         ctl'.at # "crashed"
  PROVE  FlatInv(S)'
<1>1. FlatFrame(s, f, S)
  BY DEF FlatFrame
<1>2. FlatStack(stack', S)
  BY <1>1, FlatAppend
<1>3. ~InConf(stack')
  BY InConfAppend
<1> QED
  BY <1>2, <1>3, FlatKept

\* handle_key() never runs in a configuration, so what it calls is none's command.
LEMMA FlatHandles ==
  ASSUME NEW S, TypeOK, KeyInv, FlatInv(S), ctl.at = "handle",
         \/ stack' = stack /\ ctl'.at = "return"
         \/ /\ ctl'.at = "call"
            /\ \E f \in Frames : f.fn \notin {"conf", "load"} /\ stack' = Append(stack, f)
  PROVE  FlatInv(S)'
<1>1. ~InConf(stack)
  BY NullAssumption DEF KeyInv, Fits, InConf
<1>2. stack \in Seq(Frames) /\ FlatStack(stack, S)
  BY DEF TypeOK, FlatInv
<1>3. CASE stack' = stack /\ ctl'.at = "return"
  BY <1>1, <1>2, <1>3, FlatKept
<1>4. ASSUME ctl'.at = "call", NEW f \in Frames, f.fn \notin {"conf", "load"},
             stack' = Append(stack, f)
      PROVE  FlatInv(S)'
  BY <1>1, <1>2, <1>4, FlatCalls
<1> QED
  BY <1>3, <1>4

\* binding_execute() pushes a frame of its own kind, or returns.
LEMMA BindingFrame ==
  ASSUME TypeOK, NEW n \in DOMAIN bindings, NEW km \in Modes, NEW k \in Keys,
         BindingExecute(n, km, k)
  PROVE  \/ stack' = stack /\ ctl'.at = "return"
         \/ /\ ctl'.at = "call"
            /\ \E f \in Frames : f.fn \notin {"conf", "load"} /\ stack' = Append(stack, f)
<1>1. CASE bindings[n] = NoCall
  BY <1>1 DEF BindingExecute, Return
<1>2. CASE bindings[n] # NoCall
  <2>1. bindings[n] \in Calls /\ n \in Nodes
    BY <1>2 DEF TypeOK
  <2> DEFINE counted == repeat_enabled[km] /\ repeat > 0
             f == [fn |-> "binding", node |-> n, call |-> bindings[n], key |-> k,
                   counted |-> counted, left |-> IF counted THEN repeat - 1 ELSE 0]
  <2>2. f \in Frames
    <3>1. counted \in BOOLEAN
      OBVIOUS
    <3>2. (IF counted THEN repeat - 1 ELSE 0) \in 0 .. RepeatRange - 1
      BY RangesAssumption DEF TypeOK
    <3> QED
      BY <2>1, <3>1, <3>2, FramesMade
  <2>3. stack' = Append(stack, f) /\ ctl'.at = "call"
    BY <1>2 DEF BindingExecute, Push, Call
  <2>4. f.fn \notin {"conf", "load"}
    OBVIOUS
  <2> HIDE DEF f
  <2> QED
    BY <2>2, <2>3, <2>4
<1> QED
  BY <1>1, <1>2

\* So do the unbound commands.
LEMMA UnboundFrame ==
  ASSUME NEW m, NEW k, ExecuteUnbound(m, k)
  PROVE  /\ ctl'.at = "call"
         /\ \E f \in Frames : f.fn \notin {"conf", "load"} /\ stack' = Append(stack, f)
<1> DEFINE f == [fn |-> "unbound"]
<1>1. f \in Frames /\ f.fn \notin {"conf", "load"}
  BY FramesMade
<1>2. stack' = Append(stack, f) /\ ctl'.at = "call"
  BY DEF ExecuteUnbound, Push, Call
<1> HIDE DEF f
<1> QED
  BY <1>1, <1>2

\* Inside a configuration a flat stack grows by groups only, and each configuration has
\* the lexer to itself.
LEMMA FlatStep ==
  ASSUME NEW S, Flat(S), TypeOK, KeyInv, FlatInv(S), [Next]_vars
  PROVE  FlatInv(S)'
<1>1. stack \in Seq(Frames) /\ FlatStack(stack, S) /\ ctl.at # "crashed"
  BY DEF TypeOK, FlatInv
<1>2. ASSUME NEW fn, TopIs(fn)
      PROVE  /\ Top \in Frames /\ Below \in Seq(Frames) /\ Top.fn = fn
             /\ FlatStack(Below, S) /\ FlatFrame(Below, Top, S)
             /\ InConf(stack) <=> InConf(Below) \/ fn = "conf"
  BY <1>1, <1>2, StackTypes, InConfBelow, FlatBelow DEF TopIs
<1>3. ASSUME NEW fn, TopIs(fn), fn \notin {"conf", "group"}
      PROVE  ~InConf(stack) /\ ~InConf(Below)
  BY <1>2, <1>3 DEF FlatFrame
<1>4. CASE HandleChain \/ HandleBound
  <2>1. ctl.key \in Keys /\ current_mode \in Modes /\ LookupMode \in Modes /\ ctl.at = "handle"
    BY <1>4, ControlsRead, ModesAssumption
    DEF HandleChain, InChain, HandleBound, LookingUp, LookupMode, TypeOK
  <2>2. \E n \in DOMAIN bindings, km \in Modes : BindingExecute(n, km, ctl.key)
    BY <1>4, <2>1, ModesAssumption DEF HandleChain, HandleBound, HasBinding
  <2> QED
    BY <2>1, <2>2, BindingFrame, FlatHandles
<1>5. CASE HandleChainBroken
  <2>1. \/ ExecuteUnbound(current_mode, ctl.key)
        \/ ctl' = Return(TRUE) /\ stack' = stack
    BY <1>5 DEF HandleChainBroken
  <2> QED
    BY <1>5, <2>1, UnboundFrame, FlatHandles DEF HandleChainBroken, InChain, Return
<1>6. CASE HandleUnbound
  <2>1. \/ ExecuteUnbound(LookupMode, ctl.key)
        \/ ctl' = Return(TRUE) /\ stack' = stack
    BY <1>6 DEF HandleUnbound
  <2> QED
    BY <1>6, <2>1, UnboundFrame, FlatHandles DEF HandleUnbound, LookingUp, Return
<1>7. CASE HandleMasked \/ HandleZero \/ HandleDigit
  BY <1>7, FlatHandles DEF HandleMasked, HandleZero, HandleDigit, LookingUp, Return
<1>8. CASE BindingReturn
  <2>1. /\ Top \in Frames /\ Top.fn = "binding" /\ Below \in Seq(Frames)
        /\ FlatStack(Below, S) /\ ~InConf(Below)
    BY <1>2, <1>3, <1>8 DEF BindingReturn
  <2>2. CASE Top.left > 0
    <3>1. stack' = Append(Below, Countdown(Top)) /\ ctl'.at = "call"
      <4>1. stack' = Append(Below, Countdown(Top)) /\ ctl' = Call(Top.call, Top.key)
        BY <1>8, <2>2 DEF BindingReturn, Replace
      <4> QED
        BY <4>1 DEF Call
    <3>2. Countdown(Top) = [fn |-> "binding", node |-> Top.node, call |-> Top.call,
                            key |-> Top.key, counted |-> Top.counted, left |-> Top.left - 1]
      BY <2>1, FramesRead DEF Countdown
    <3>3. Top.left - 1 \in 0 .. RepeatRange - 1
      BY <2>1, <2>2, FramesRead, RangesAssumption
    <3>4. Countdown(Top) \in Frames /\ Countdown(Top).fn \notin {"conf", "load"}
      BY <2>1, <3>2, <3>3, FramesRead, FramesMade
    <3> QED
      BY <2>1, <3>1, <3>4, FlatCalls
  <2>3. CASE ~(Top.left > 0)
    BY <1>8, <2>1, <2>3, FlatKept DEF BindingReturn, Pop, Return
  <2> QED
    BY <2>2, <2>3
<1>9. CASE UnboundReturn
  BY <1>2, <1>3, <1>9, FlatKept DEF UnboundReturn, Pop, Return
<1>10. CASE LoadReturn
  BY <1>2, <1>3, <1>10, FlatKept DEF LoadReturn, Pop, Returning
<1>11. CASE CallGroup
  <2> DEFINE f == [fn |-> "group", call |-> ctl.call, key |-> ctl.key, pos |-> 1]
  <2>1. ctl.call \in Groups /\ ctl.key \in Keys \cup {NoKey} /\ WellFormed(Program[ctl.call])
          /\ Program[ctl.call].op = "group"
    BY <1>11, CallWellFormed DEF CallGroup, Groups
  <2>2. f \in Frames
    <3>1. 1 \in Nat \ {0}
      OBVIOUS
    <3> QED
      BY <2>1, <3>1, FramesMade
  <2>3. InConf(stack) => ctl.call \in S
    BY <1>11 DEF CallGroup, Calling, FlatInv
  <2>4. FlatFrame(stack, f, S)
    BY <2>3 DEF FlatFrame
  <2>5. f.fn # "conf" /\ stack' = Append(stack, f) /\ lexer' = lexer
          /\ ctl' = Call(Program[ctl.call].calls[1], ctl.key)
    BY <1>11 DEF CallGroup, Push, Arg
  <2> HIDE DEF f
  <2>6. FlatStack(stack', S) /\ (InConf(stack') <=> InConf(stack))
    BY <1>1, <2>2, <2>4, <2>5, FlatAppend, InConfAppend
  <2>7. InConf(stack) => Program[ctl.call].calls[1] \in S
    <3>1. Len(Program[ctl.call].calls) > 0
      BY <2>1 DEF WellFormed
    <3>2. ASSUME InConf(stack) PROVE Program[ctl.call].calls \in Seq(S)
      BY <2>1, <2>3, <3>2 DEF Flat
    <3> QED
      BY <3>1, <3>2
  <2> QED
    BY <2>5, <2>6, <2>7 DEF FlatInv, Call
<1>12. CASE GroupReturn
  <2>1. /\ Top \in Frames /\ Top.fn = "group" /\ Below \in Seq(Frames)
        /\ FlatStack(Below, S) /\ FlatFrame(Below, Top, S)
        /\ InConf(stack) <=> InConf(Below)
        /\ lexer' = lexer
    BY <1>2, <1>12 DEF GroupReturn
  <2>2. CASE stack' = Below /\ ctl' = Return(TRUE)
    BY <2>1, <2>2, FlatKept DEF Return
  <2>3. ASSUME NEW j \in NextInGroup(Program[Top.call], Top.pos, ctl.ok),
               stack' = Append(Below, [Top EXCEPT !.pos = j]),
               ctl' = Call(Program[Top.call].calls[j], Top.key)
        PROVE  FlatInv(S)'
    <3> DEFINE f == [Top EXCEPT !.pos = j]
    <3>1. j \in Nat \ {0} /\ j <= Len(Program[Top.call].calls)
      BY <2>1, <2>3, FramesRead DEF NextInGroup
    <3>2. f \in Frames /\ f.fn = "group" /\ f.call = Top.call
      BY <2>1, <3>1 DEF Frames
    <3>3. FlatFrame(Below, f, S)
      BY <2>1, <3>2 DEF FlatFrame
    <3>4. FlatStack(stack', S) /\ (InConf(stack') <=> InConf(Below))
      <4> HIDE DEF f
      <4> QED
        BY <2>1, <2>3, <3>2, <3>3, FlatAppend, InConfAppend DEF f
    <3>5. ASSUME InConf(Below) PROVE Program[Top.call].calls[j] \in S
      <4>1. Top.call \in S /\ Top.call \in Groups
        BY <2>1, <3>5, FramesRead DEF FlatFrame
      <4>2. Program[Top.call].calls \in Seq(S)
        BY <4>1 DEF Flat, Groups
      <4> QED
        BY <3>1, <4>2
    <3> QED
      BY <2>1, <2>3, <3>4, <3>5 DEF FlatInv, Call
  <2> QED
    BY <1>12, <2>2, <2>3 DEF GroupReturn, Pop, Replace
<1>13. ASSUME NEW op \in {"load", "evaluate"}, Calling(op)
       PROVE  ~InConf(stack) /\ ctl.call \in Calls /\ Program[ctl.call].op = op
  BY <1>13, CallWellFormed DEF Calling, FlatInv, Flat
<1>14. CASE ReadOption \/ CallLoad
  <2>1. ASSUME NEW files \in Seq(Seq(S)), stack' = Append(stack, LoadFrame(files)),
               LoadFrame(files) \in Frames, ctl' = Return(FALSE), ~InConf(stack)
        PROVE  FlatInv(S)'
    <3>1. LoadFrame(files).fn = "load" /\ FlatFrame(stack, LoadFrame(files), S)
      BY <2>1 DEF FlatFrame, LoadFrame
    <3>2. FlatStack(stack', S) /\ ~InConf(stack')
      BY <1>1, <2>1, <3>1, FlatAppend, InConfAppend
    <3> QED
      BY <2>1, <3>2, FlatKept DEF Return
  <2>2. CASE CallLoad
    <3>1. Program[ctl.call].files \in Seq(Seq(S)) /\ ~InConf(stack)
      BY <1>13, <2>2 DEF CallLoad, Flat
    <3>2. LoadFrame(Program[ctl.call].files) \in Frames
      BY <2>2, CallWellFormed, FramesMade DEF CallLoad, WellFormed
    <3> QED
      BY <2>1, <2>2, <3>1, <3>2 DEF CallLoad, Push, Arg
  <2>3. CASE ReadOption
    <3>1. ~InConf(stack)
      BY <2>3 DEF ReadOption, KeyInv, InConf, AtOptions
    <3>2. optind \in DOMAIN Options
              /\ Options[optind] \in [opt : {"conf"}, files : Seq(Seq(Calls))] \cup [opt : {"mode"}, mode : Modes]
      BY <2>3, OptionsAssumption DEF ReadOption, TypeOK
    <3>3. CASE UNCHANGED <<ctl, stack>>
      BY <1>1, <2>3, <3>1, <3>3, FlatKept
    <3>4. CASE Options[optind].opt = "conf" /\ ctl' = Return(FALSE)
               /\ stack' = Append(stack, LoadFrame(Options[optind].files))
      <4>1. Options[optind].files \in Seq(Seq(S))
        BY <3>2, <3>4 DEF Flat
      <4>2. LoadFrame(Options[optind].files) \in Frames
        BY <3>2, <3>4, FramesMade
      <4> QED
        BY <2>1, <3>1, <3>4, <4>1, <4>2
    <3> QED
      BY <2>3, <3>3, <3>4 DEF ReadOption, Push
  <2> QED
    BY <1>14, <2>2, <2>3
<1>15. ASSUME NEW s \in Seq(Frames), FlatStack(s, S), ~InConf(s), NEW todo \in Seq(S),
              ConfFrame(todo) \in Frames, stack' = Append(s, ConfFrame(todo)),
              lexer' = TRUE, ctl' = Return(TRUE)
       PROVE  FlatInv(S)'
  <2>1. FlatFrame(s, ConfFrame(todo), S)
    BY <1>15 DEF FlatFrame, ConfFrame
  <2>2. FlatStack(stack', S)
    BY <1>15, <2>1, FlatAppend
  <2> QED
    BY <1>15, <2>2 DEF FlatInv, Return
<1>16. CASE LoadNext
  <2>1. /\ Top \in Frames /\ Top.fn = "load" /\ Below \in Seq(Frames)
        /\ FlatStack(Below, S) /\ ~InConf(Below) /\ Top.files \in Seq(Seq(S))
    BY <1>2, <1>3, <1>16 DEF LoadNext, FlatFrame
  <2>2. Top.files \in Seq(Seq(Calls)) /\ Top.files # <<>>
    BY <1>16, <2>1, FramesRead DEF LoadNext
  <2>3. /\ Tail(Top.files) \in Seq(Seq(Calls)) /\ Tail(Top.files) \in Seq(Seq(S))
        /\ Head(Top.files) \in Seq(Calls) /\ Head(Top.files) \in Seq(S)
    BY <2>1, <2>2
  <2> DEFINE f == LoadFrame(Tail(Top.files))
  <2>4. f \in Frames /\ f.fn # "conf" /\ FlatFrame(Below, f, S)
    BY <2>1, <2>3, FramesMade DEF FlatFrame, LoadFrame
  <2>5. ConfFrame(Head(Top.files)) \in Frames
    BY <2>3, FramesMade DEF ConfFrame, TypeOK
  <2>6. stack' = Append(Append(Below, f), ConfFrame(Head(Top.files))) /\ lexer' = TRUE
          /\ ctl' = Return(TRUE)
    BY <1>16 DEF LoadNext
  <2> HIDE DEF f
  <2>7. Append(Below, f) \in Seq(Frames) /\ FlatStack(Append(Below, f), S)
          /\ ~InConf(Append(Below, f))
    BY <2>1, <2>4, FlatAppend, InConfAppend
  <2> QED
    BY <1>15, <2>3, <2>5, <2>6, <2>7
<1>17. CASE CallEvaluate
  <2> DEFINE callers == IF Again THEN Below ELSE stack
             asking == [fn |-> "evaluate", call |-> ctl.call, key |-> ctl.key,
                        again |-> Again]
  <2>1. ~InConf(stack) /\ ctl.call \in Calls /\ ctl.key \in Keys \cup {NoKey}
          /\ Program[ctl.call].lines \subseteq Seq(S) /\ Program[ctl.call].lines \subseteq Seq(Calls)
    BY <1>13, <1>17, CallWellFormed DEF CallEvaluate, Flat, WellFormed
  <2>2. callers \in Seq(Frames) /\ FlatStack(callers, S) /\ ~InConf(callers)
    BY <1>1, <1>2, <2>1 DEF Again
  <2>3. asking \in Frames
    <3>1. Again \in BOOLEAN
      BY <1>1, StackTypes, FramesRead DEF Again, TopIs
    <3> QED
      BY <2>1, <3>1, FramesMade
  <2>4. asking.fn = "evaluate"
    OBVIOUS
  <2>5. \/ stack' = callers /\ ctl' = Return(Again)
        \/ \E line \in Program[ctl.call].lines :
             /\ stack' = Append(Append(callers, asking), ConfFrame(line))
             /\ lexer' = TRUE
             /\ ctl' = Return(TRUE)
    BY <1>17 DEF CallEvaluate, Arg
  <2> HIDE DEF callers, asking
  <2>6. CASE stack' = callers /\ ctl' = Return(Again)
    BY <2>2, <2>6, FlatKept DEF Return
  <2>7. FlatFrame(callers, asking, S)
    BY <2>2, <2>4 DEF FlatFrame
  <2>8. Append(callers, asking) \in Seq(Frames) /\ FlatStack(Append(callers, asking), S)
          /\ ~InConf(Append(callers, asking))
    BY <2>2, <2>3, <2>4, <2>7, FlatAppend, InConfAppend
  <2>9. ASSUME NEW line \in Program[ctl.call].lines,
               stack' = Append(Append(callers, asking), ConfFrame(line)),
               lexer' = TRUE, ctl' = Return(TRUE)
        PROVE  FlatInv(S)'
    <3>1. ConfFrame(line) \in Frames /\ line \in Seq(S)
      BY <2>1, FramesMade DEF ConfFrame, TypeOK
    <3> QED
      BY <1>15, <2>8, <2>9, <3>1
  <2> QED
    BY <2>5, <2>6, <2>9
<1>18. CASE EvaluateReturn
  <2>1. /\ Top \in Frames /\ Top.fn = "evaluate" /\ Below \in Seq(Frames)
        /\ FlatStack(Below, S) /\ ~InConf(Below)
    BY <1>2, <1>3, <1>18 DEF EvaluateReturn
  <2>2. CASE stack' = Below /\ ctl' = Return(TRUE)
    BY <2>1, <2>2, FlatKept DEF Return
  <2>3. CASE stack' = Append(Below, [Top EXCEPT !.again = TRUE]) /\ ctl' = Call(Top.call, Top.key)
    <3>1. [Top EXCEPT !.again = TRUE] \in Frames /\ [Top EXCEPT !.again = TRUE].fn = "evaluate"
      BY <2>1 DEF Frames
    <3> QED
      BY <2>1, <2>3, <3>1, FlatCalls DEF Call
  <2> QED
    BY <1>18, <2>2, <2>3 DEF EvaluateReturn, Pop, Replace
<1>19. CASE ConfNext
  <2>1. /\ Top \in Frames /\ Top.fn = "conf" /\ Below \in Seq(Frames)
        /\ FlatStack(Below, S) /\ FlatFrame(Below, Top, S) /\ ~InConf(Below)
    BY <1>2, <1>19 DEF ConfNext, FlatFrame
  <2>2. /\ Top.todo \in Seq(S) /\ Top.todo # <<>> /\ lexer /\ lexer' = lexer
        /\ stack' = Append(Below, [Top EXCEPT !.todo = Tail(@)])
        /\ ctl' = Call(Head(Top.todo), NoKey)
    BY <1>19, <2>1 DEF ConfNext, ConfCall, Replace, FlatFrame
  <2>3. Head(Top.todo) \in S /\ Tail(Top.todo) \in Seq(S)
    BY <2>2
  <2>4. Top.todo \in Seq(Calls) /\ Tail(Top.todo) \in Seq(Calls)
    BY <2>1, <2>2, FramesRead
  <2> DEFINE f == [Top EXCEPT !.todo = Tail(@)]
  <2>5. f \in Frames /\ f.fn = "conf" /\ f.todo = Tail(Top.todo)
    BY <2>1, <2>4 DEF Frames
  <2>6. FlatFrame(Below, f, S)
    BY <2>1, <2>3, <2>5 DEF FlatFrame
  <2>7. FlatStack(stack', S)
    <3> HIDE DEF f
    <3> QED
      BY <2>1, <2>2, <2>5, <2>6, FlatAppend DEF f
  <2> QED
    BY <2>2, <2>3, <2>7 DEF FlatInv, Call
<1>20. CASE ConfReturn
  <2>1. FlatStack(Below, S) /\ ~InConf(Below)
    BY <1>2, <1>20 DEF ConfReturn, FlatFrame
  <2> QED
    BY <1>20, <2>1, FlatKept DEF ConfReturn, Pop, Returning
<1>21. ~ConfCrash
  BY <1>2 DEF ConfCrash, FlatInv
<1>22. CASE OptionReturn \/ StartProgram \/ ReadKey \/ KeyReturn
  <2>1. ~InConf(stack) /\ stack' = stack
    BY <1>22 DEF OptionReturn, StartProgram, ReadKey, KeyReturn, KeyInv, InConf, AtOptions, AtPoll
  <2>2. ctl'.at # "crashed"
    BY <1>22 DEF OptionReturn, StartProgram, ReadKey, KeyReturn, AtOptions, AtPoll, Exited, Handle
  <2> QED
    BY <1>1, <2>1, <2>2, FlatKept
<1>23. CASE \/ CallMask \/ CallPass \/ CallIgnore \/ CallMode \/ CallPreviousMode \/ CallRepeat
            \/ CallOther \/ CallBind \/ CallUnbound \/ CallRehandle
  <2>1. stack' = stack /\ lexer' = lexer /\ ctl'.at \in {"return", "handle"}
    BY <1>23 DEF CallMask, CallPass, CallIgnore, CallMode, CallPreviousMode,
       CallRepeat, CallOther, CallBind, CallUnbound, CallRehandle, Return, Handle
  <2> QED
    BY <1>1, <2>1, FlatKept
<1>24. CASE CallUnbind
  <2>1. /\ stack' \in Seq(Frames) /\ SameFrames(stack, stack')
        /\ ctl' = Return(TRUE) \/ ctl' = Fault
    BY <1>24, UnbindTypes
  <2>2. ctl'.at \in {"return", "fault"} /\ lexer' = lexer
    BY <1>24, <2>1 DEF CallUnbind, Return, Fault
  <2>3. FlatStack(stack', S) /\ (InConf(stack') <=> InConf(stack))
    BY <1>1, <2>1, FlatSame
  <2> QED
    BY <2>2, <2>3, FlatKept
<1>25. CASE HandleFreed \/ BindingReturnFreed
  <2>1. stack' = stack /\ lexer' = lexer /\ ctl'.at = "fault"
    BY <1>25 DEF HandleFreed, BindingReturnFreed, Fault
  <2> QED
    BY <1>1, <2>1, FlatKept
<1>26. CASE UNCHANGED vars
  BY <1>26 DEF vars, FlatInv
<1> QED
  BY <1>25, <1>26, <1>4, <1>5, <1>6, <1>7, <1>8, <1>9, <1>10, <1>11, <1>12, <1>14, <1>16, <1>17, <1>18, <1>19,
     <1>20, <1>21, <1>22, <1>23, <1>24
  DEF Next, Run, Startup, HandleKey, Command

\* README.md:66 makes load a command as any other.  Of configurations that do not read
\* others while they are read, that is true: however they fail, whatever is typed, and
\* whatever keys are pressed meanwhile, tkremap goes on.
THEOREM FlatLoadsReturn ==
  ASSUME NEW S, Flat(S)
  PROVE  Spec => []NestedLoadReturns
<1>1. Init => FlatInv(S)
  BY DEF Init, FlatInv, FlatStack, InConf, AtOptions
<1>2. FlatInv(S) => NestedLoadReturns
  BY DEF FlatInv, NestedLoadReturns, Crashed
<1>3. TypeOK /\ KeyInv /\ FlatInv(S) /\ [Next]_vars => FlatInv(S)'
  BY FlatStep
<1> QED
  BY TypeInit, TypeStep, KeyInit, KeyStep, <1>1, <1>2, <1>3, PTL DEF Spec
=============================================================================
