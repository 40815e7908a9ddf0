--------------------------- MODULE Nesting_proofs ---------------------------
(***************************************************************************)
(* Theorems about what KeyDispatch nests: handle_key() inside of the       *)
(* command of a key (rehandle), and configurations inside of it (load,     *)
(* readline -!).                                                           *)
(***************************************************************************)
EXTENDS KeyDispatch_proofs, FiniteSetTheorems

-----------------------------------------------------------------------------
(***************************************************************************)
(* The depth of handle_key().  The counter bounds the rehandles between    *)
(* two refusals, and a refusal sets it to zero; so what bounds the nesting *)
(* is that nothing rehandles the key again once it has been refused.  That *)
(* is so if no group has a second command that rehandles, and no count     *)
(* runs one again.                                                         *)
(***************************************************************************)

\* A group with a command ahead that will rehandle the key.
Waits(f, R) ==
  /\ f.fn = "group" /\ f.key # NoKey
  /\ \E j \in f.pos + 1 .. Len(Program[f.call].calls) : Program[f.call].calls[j] \in R

Waiting(s, R) == \E i \in 1 .. Len(s) : Waits(s[i], R)
OneWaits(s, R) ==
  \A i, j \in 1 .. Len(s) : Waits(s[i], R) /\ Waits(s[j], R) => i = j

\* A frame that will not call a command that rehandles a second time.
Calm(f, R) ==
  /\ f.fn = "binding" => f.left = 0 \/ f.call \notin R
  /\ f.fn = "evaluate" => f.call \notin R
AllCalm(s, R) == \A i \in 1 .. Len(s) : Calm(s[i], R)

\* The calls of handle_key() that execute something.
Handling(f) == f.fn \in {"binding", "unbound"}
Depth(s) == Cardinality({i \in 1 .. Len(s) : Handling(s[i])})

\* The key is handled, or about to be handled again.
Rehandles(R) == ctl.at = "call" /\ ctl.key # NoKey /\ ctl.call \in R
Active(R) == ctl.at = "handle" \/ Rehandles(R)

NestingInv(R) ==
  /\ Unbindable(R) => \A n \in DOMAIN bindings : bindings[n] \notin R
  /\ NeverRepeats => \A m \in Modes : ~repeat_enabled[m]
  /\ AllCalm(stack, R) /\ OneWaits(stack, R)
  /\ Active(R) => ~Waiting(stack, R)
  /\ Depth(stack) <= RehandleDepthMax + 1
  /\ ctl.at = "handle" => Depth(stack) <= rehandeled
  /\ Rehandles(R) \/ Waiting(stack, R) => Depth(stack) <= rehandeled + 1

\* A stack is its top on what is below.
LEMMA TopOnBelow ==
  ASSUME stack \in Seq(Frames), Len(stack) > 0
  PROVE  Append(Below, Top) = stack
<1>1. /\ Below \in Seq(Frames) /\ Len(Below) = Len(stack) - 1 /\ Len(stack) \in Nat
      /\ \A i \in 1 .. Len(Below) : Below[i] = stack[i]
      /\ Top = stack[Len(stack)] /\ Top \in Frames
  BY PoppedFrames, StackTypes
<1> DEFINE t == Append(Below, Top)
<1>2. t \in Seq(Frames)
  BY <1>1
<1>3. /\ Len(t) = Len(Below) + 1
      /\ \A i \in 1 .. Len(Below) : t[i] = Below[i]
      /\ t[Len(Below) + 1] = Top
  BY <1>1, Pushed
<1> HIDE DEF t
<1>4. Len(t) = Len(stack)
  BY <1>1, <1>3
<1>5. ASSUME NEW i \in 1 .. Len(t) PROVE t[i] = stack[i]
  <2>1. i \in 1 .. Len(Below) \/ i = Len(stack)
    BY <1>1, <1>4
  <2> QED
    BY <1>1, <1>3, <2>1
<1>6. t = stack
  BY <1>2, <1>4, <1>5, SeqEqual
<1> QED
  BY <1>6 DEF t

\* The depth is a number, and a push adds to it what it pushes.
LEMMA DepthAppend ==
  ASSUME NEW s \in Seq(Frames), NEW f \in Frames
  PROVE  /\ Depth(s) \in Nat
         /\ Depth(Append(s, f)) = IF Handling(f) THEN Depth(s) + 1 ELSE Depth(s)
<1> DEFINE t == Append(s, f)
           A == {i \in 1 .. Len(s) : Handling(s[i])}
           B == {i \in 1 .. Len(t) : Handling(t[i])}
<1>1. /\ Len(t) = Len(s) + 1 /\ Len(s) \in Nat
      /\ \A i \in 1 .. Len(s) : t[i] = s[i]
      /\ t[Len(s) + 1] = f
  BY Pushed
<1>2. IsFiniteSet(A) /\ Cardinality(A) \in Nat
  <2>1. IsFiniteSet(1 .. Len(s))
    BY <1>1, FS_Interval
  <2> QED
    BY <2>1, FS_Subset, FS_CardinalityType
<1> HIDE DEF t
<1>3. Len(s) + 1 \notin A
  BY <1>1
<1>4. CASE Handling(f)
  <2>1. B = A \cup {Len(s) + 1}
    BY <1>1, <1>4
  <2> HIDE DEF A, B
  <2>2. Cardinality(B) = Cardinality(A) + 1
    BY <1>2, <1>3, <2>1, FS_AddElement
  <2> QED
    BY <1>2, <1>4, <2>2 DEF Depth, A, B, t
<1>5. CASE ~Handling(f)
  <2>1. B = A
    BY <1>1, <1>5
  <2> HIDE DEF A, B
  <2> QED
    BY <1>2, <1>5, <2>1 DEF Depth, A, B, t
<1> QED
  BY <1>4, <1>5

\* What a push does to the groups that wait and to the frames that are calm.
LEMMA NestingAppend ==
  ASSUME NEW R, NEW s \in Seq(Frames), NEW f
  PROVE  /\ Waiting(Append(s, f), R) <=> Waiting(s, R) \/ Waits(f, R)
         /\ OneWaits(Append(s, f), R) <=> OneWaits(s, R) /\ ~(Waiting(s, R) /\ Waits(f, R))
         /\ AllCalm(Append(s, f), R) <=> AllCalm(s, R) /\ Calm(f, R)
<1> DEFINE t == Append(s, f)
<1>1. /\ Len(t) = Len(s) + 1 /\ Len(s) \in Nat
      /\ \A i \in 1 .. Len(s) : t[i] = s[i]
      /\ t[Len(s) + 1] = f
  BY Pushed
<1> HIDE DEF t
<1>2. 1 .. Len(t) = 1 .. Len(s) \cup {Len(s) + 1} /\ Len(s) + 1 \notin 1 .. Len(s)
  BY <1>1
<1>3. Waiting(t, R) <=> Waiting(s, R) \/ Waits(f, R)
  BY <1>1, <1>2 DEF Waiting
<1>4. AllCalm(t, R) <=> AllCalm(s, R) /\ Calm(f, R)
  BY <1>1, <1>2 DEF AllCalm
<1>5. OneWaits(t, R) <=> OneWaits(s, R) /\ ~(Waiting(s, R) /\ Waits(f, R))
  <2>1. ASSUME OneWaits(t, R) PROVE OneWaits(s, R) /\ ~(Waiting(s, R) /\ Waits(f, R))
    <3>1. OneWaits(s, R)
      BY <1>1, <1>2, <2>1 DEF OneWaits
    <3>2. ASSUME NEW i \in 1 .. Len(s), Waits(s[i], R), Waits(f, R) PROVE FALSE
      <4>1. i \in 1 .. Len(t) /\ Len(s) + 1 \in 1 .. Len(t) /\ i # Len(s) + 1
        BY <1>2
      <4>2. Waits(t[i], R) /\ Waits(t[Len(s) + 1], R)
        BY <1>1, <3>2
      <4> QED
        BY <2>1, <4>1, <4>2 DEF OneWaits
    <3> QED
      BY <3>1, <3>2 DEF Waiting
  <2>2. ASSUME OneWaits(s, R), ~(Waiting(s, R) /\ Waits(f, R)) PROVE OneWaits(t, R)
    <3>1. ASSUME NEW i \in 1 .. Len(t), NEW j \in 1 .. Len(t), Waits(t[i], R), Waits(t[j], R)
          PROVE  i = j
      <4>1. i \in 1 .. Len(s) \/ (i = Len(s) + 1 /\ t[i] = f)
        BY <1>1, <1>2
      <4>2. j \in 1 .. Len(s) \/ (j = Len(s) + 1 /\ t[j] = f)
        BY <1>1, <1>2
      <4> QED
        BY <1>1, <2>2, <3>1, <4>1, <4>2 DEF OneWaits, Waiting
    <3> QED
      BY <3>1 DEF OneWaits
  <2> QED
    BY <2>1, <2>2
<1> QED
  BY <1>3, <1>4, <1>5 DEF t

\* None of this is about the nodes that the frames point to.
LEMMA NestingSame ==
  ASSUME NEW R, NEW s, NEW t, SameFrames(s, t)
  PROVE  /\ Waiting(t, R) <=> Waiting(s, R)
         /\ OneWaits(s, R) => OneWaits(t, R)
         /\ AllCalm(s, R) => AllCalm(t, R)
         /\ Depth(t) = Depth(s)
<1>1. Len(t) = Len(s)
  BY DEF SameFrames
<1>2. ASSUME NEW i \in 1 .. Len(s)
      PROVE  /\ Waits(t[i], R) <=> Waits(s[i], R)
             /\ Calm(s[i], R) => Calm(t[i], R)
             /\ Handling(t[i]) <=> Handling(s[i])
  <2>1. /\ t[i].fn = s[i].fn
        /\ s[i].fn # "binding" => t[i] = s[i]
        /\ s[i].fn = "binding" => t[i].call = s[i].call /\ t[i].left = s[i].left
    BY DEF SameFrames
  <2>2. CASE s[i].fn = "binding"
    BY <2>1, <2>2 DEF Waits, Calm, Handling
  <2>3. CASE s[i].fn # "binding"
    BY <2>1, <2>3
  <2> QED
    BY <2>2, <2>3
<1>3. {i \in 1 .. Len(t) : Handling(t[i])} = {i \in 1 .. Len(s) : Handling(s[i])}
  BY <1>1, <1>2
<1> QED
  BY <1>1, <1>2, <1>3 DEF Waiting, OneWaits, AllCalm, Depth

\* What is left after a pop, and what was popped.
LEMMA NestingBelow ==
  ASSUME NEW R, TypeOK, NestingInv(R), Len(stack) > 0
  PROVE  /\ Top \in Frames /\ Below \in Seq(Frames)
         /\ AllCalm(Below, R) /\ Calm(Top, R) /\ OneWaits(Below, R)
         /\ Waiting(stack, R) <=> Waiting(Below, R) \/ Waits(Top, R)
         /\ ~(Waiting(Below, R) /\ Waits(Top, R))
         /\ Depth(Below) \in Nat
         /\ Depth(stack) = IF Handling(Top) THEN Depth(Below) + 1 ELSE Depth(Below)
<1>1. stack \in Seq(Frames)
  BY DEF TypeOK
<1>2. Top \in Frames /\ Below \in Seq(Frames) /\ Append(Below, Top) = stack
  BY <1>1, StackTypes, TopOnBelow
<1>3. AllCalm(stack, R) /\ OneWaits(stack, R)
  BY DEF NestingInv
<1> QED
  BY <1>2, <1>3, DepthAppend, NestingAppend

\* A step after which the key is not about to be handled, that adds nothing to the depth
\* and no group that waits.
LEMMA NestingKept ==
  ASSUME NEW R, TypeOK, NestingInv(R), stack' \in Seq(Frames),
         AllCalm(stack', R), OneWaits(stack', R),
         Waiting(stack', R) => Waiting(stack, R) /\ rehandeled' = rehandeled,
         Depth(stack') <= Depth(stack),
         ctl'.at # "handle", ctl'.at = "call" => ctl'.key = NoKey \/ ctl'.call \notin R,
         bindings' = bindings, repeat_enabled' = repeat_enabled
  PROVE  NestingInv(R)'
<1>1. Depth(stack) \in Nat /\ Depth(stack') \in Nat
  <2>1. [fn |-> "unbound"] \in Frames
    BY FramesMade
  <2>2. stack \in Seq(Frames)
    BY DEF TypeOK
  <2> QED
    BY <2>1, <2>2, DepthAppend
<1>2. rehandeled \in Nat /\ RehandleDepthMax \in Nat
  BY RangesAssumption DEF TypeOK
<1>3. ~Active(R)' /\ ~Rehandles(R)'
  BY DEF Active, Rehandles
<1>4. Depth(stack') <= RehandleDepthMax + 1
  BY <1>1, <1>2 DEF NestingInv
<1>5. Waiting(stack', R) => Depth(stack') <= rehandeled' + 1
  BY <1>1, <1>2 DEF NestingInv
<1> QED
  BY <1>3, <1>4, <1>5 DEF NestingInv

\* The same for a step that pushes a frame other than a group with commands ahead.
LEMMA NestingPushed ==
  ASSUME NEW R, TypeOK, NestingInv(R), NEW s \in Seq(Frames), NEW f \in Frames,
         stack' = Append(s, f), AllCalm(s, R), OneWaits(s, R), Calm(f, R), ~Waits(f, R),
         Waiting(s, R) => Waiting(stack, R),
         (IF Handling(f) THEN Depth(s) + 1 ELSE Depth(s)) <= Depth(stack),
         ctl'.at # "handle", ctl'.at = "call" => ctl'.key = NoKey \/ ctl'.call \notin R,
         UNCHANGED <<bindings, repeat_enabled, rehandeled>>
  PROVE  NestingInv(R)'
<1>1. /\ Waiting(stack', R) => Waiting(stack, R)
      /\ AllCalm(stack', R) /\ OneWaits(stack', R)
  BY NestingAppend
<1>2. stack' \in Seq(Frames) /\ Depth(stack') <= Depth(stack)
  BY DepthAppend
<1> QED
  BY <1>1, <1>2, NestingKept

\* A group that calls its command j with the others after j still ahead, when the key was
\* about to be rehandled by that group.
LEMMA NestingGroup ==
  ASSUME NEW R, RehandlesOnce(R), TypeOK, NestingInv(R), NEW s \in Seq(Frames),
         AllCalm(s, R), OneWaits(s, R), Waiting(s, R) => Waiting(stack, R),
         Depth(s) = Depth(stack),
         NEW f \in Frames, f.fn = "group", f.pos \in 1 .. Len(Program[f.call].calls),
         f.key # NoKey /\ (\E i \in f.pos .. Len(Program[f.call].calls) : Program[f.call].calls[i] \in R)
           => ~Waiting(s, R) /\ Depth(stack) <= rehandeled + 1,
         stack' = Append(s, f), ctl' = Call(Program[f.call].calls[f.pos], f.key),
         UNCHANGED <<bindings, repeat_enabled, rehandeled>>
  PROVE  NestingInv(R)'
<1> DEFINE calls == Program[f.call].calls
           Ahead == f.key # NoKey /\ \E i \in f.pos .. Len(calls) : calls[i] \in R
<1>1. f.call \in Groups /\ calls \in Seq(Calls) /\ DOMAIN calls = 1 .. Len(calls) /\ Len(calls) \in Nat
  BY FramesRead, ProgramAssumption DEF WellFormed, Groups
<1>2. Calm(f, R) /\ ~Handling(f)
  BY DEF Calm, Handling
<1>3. /\ Waiting(stack', R) <=> Waiting(s, R) \/ Waits(f, R)
      /\ OneWaits(stack', R) <=> OneWaits(s, R) /\ ~(Waiting(s, R) /\ Waits(f, R))
      /\ AllCalm(stack', R)
  BY <1>2, NestingAppend
<1>4. Depth(stack') = Depth(stack)
  BY <1>2, DepthAppend
<1>5. Waits(f, R) => Ahead
  BY <1>1 DEF Waits
<1>6. Rehandles(R)' => Ahead /\ ~Waits(f, R)
  <2>1. SUFFICES ASSUME Rehandles(R)' PROVE Ahead /\ ~Waits(f, R)
    OBVIOUS
  <2>2. calls[f.pos] \in R /\ f.key # NoKey
    BY <2>1 DEF Rehandles, Call
  <2>3. \A j \in 1 .. Len(calls) : calls[j] \in R => f.pos = j
    BY <1>1, <2>2 DEF RehandlesOnce
  <2>4. f.pos \in f.pos .. Len(calls) /\ \A j \in f.pos + 1 .. Len(calls) : j \in 1 .. Len(calls) /\ j # f.pos
    BY <1>1
  <2> QED
    BY <2>2, <2>3, <2>4 DEF Waits
<1>7. Ahead => ~Waiting(s, R) /\ Depth(stack) <= rehandeled + 1
  OBVIOUS
<1>8. OneWaits(stack', R)
  BY <1>3, <1>5, <1>7
<1>9. Active(R)' => ~Waiting(stack', R)
  BY <1>3, <1>6, <1>7 DEF Active, Call
<1>10. Rehandles(R)' \/ Waiting(stack', R) => Depth(stack') <= rehandeled' + 1
  BY <1>3, <1>4, <1>5, <1>6, <1>7 DEF NestingInv
<1>11. Depth(stack') <= RehandleDepthMax + 1 /\ ctl'.at # "handle"
  BY <1>4 DEF NestingInv, Call
<1> QED
  BY <1>3, <1>8, <1>9, <1>10, <1>11 DEF NestingInv

\* handle_key() is one level deeper when it executes something.
LEMMA NestingDeeper ==
  ASSUME NEW R, TypeOK, TypeOK', NestingInv(R), ctl.at = "handle", NEW f \in Frames,
         Handling(f), Calm(f, R), stack' = Append(stack, f), ctl'.at = "call",
         UNCHANGED <<bindings, repeat_enabled, rehandeled>>
  PROVE  NestingInv(R)'
<1>1. stack \in Seq(Frames) /\ rehandeled \in Nat /\ RehandleDepthMax \in Nat
        /\ rehandeled <= RehandleDepthMax
  BY RangesAssumption DEF TypeOK
<1>2. ~Waits(f, R)
  BY DEF Waits, Handling
<1>3. ~Waiting(stack, R) /\ AllCalm(stack, R) /\ OneWaits(stack, R) /\ Depth(stack) <= rehandeled
  BY DEF NestingInv, Active
<1>4. ~Waiting(stack', R) /\ AllCalm(stack', R) /\ OneWaits(stack', R)
  BY <1>1, <1>2, <1>3, NestingAppend
<1>5. Depth(stack) \in Nat /\ Depth(stack') = Depth(stack) + 1
  BY <1>1, DepthAppend
<1>6. Depth(stack') <= rehandeled' + 1 /\ Depth(stack') <= RehandleDepthMax + 1
  BY <1>1, <1>3, <1>5
<1> QED
  BY <1>4, <1>6 DEF NestingInv, Active

\* A key that is handled without executing anything.
LEMMA NestingHandled ==
  ASSUME NEW R, TypeOK, NestingInv(R), stack' = stack, ctl' = Return(TRUE),
         UNCHANGED <<bindings, repeat_enabled, rehandeled>>
  PROVE  NestingInv(R)'
<1>1. stack \in Seq(Frames) /\ AllCalm(stack, R) /\ OneWaits(stack, R)
  BY DEF TypeOK, NestingInv
<1>2. [fn |-> "unbound"] \in Frames
  BY FramesMade
<1>3. Depth(stack) \in Nat
  BY <1>1, <1>2, DepthAppend
<1> QED
  BY <1>1, <1>3, NestingKept DEF Return

\* A binding's command either does not rehandle or has no count.
LEMMA NestingBinding ==
  ASSUME NEW R, RehandlesOnce(R), TypeOK, TypeOK', NestingInv(R), ctl.at = "handle",
         NEW n \in DOMAIN bindings, NEW km \in Modes, NEW k \in Keys, BindingExecute(n, km, k),
         UNCHANGED <<bindings, repeat_enabled, rehandeled>>
  PROVE  NestingInv(R)'
<1>1. CASE bindings[n] = NoCall
  BY <1>1, NestingHandled DEF BindingExecute
<1>2. CASE bindings[n] # NoCall
  <2> DEFINE counted == repeat_enabled[km] /\ repeat > 0
             left == IF counted THEN repeat - 1 ELSE 0
             f == [fn |-> "binding", node |-> n, call |-> bindings[n], key |-> k,
                   counted |-> counted, left |-> left]
  <2>1. bindings[n] \in Calls /\ n \in Nodes
    BY <1>2 DEF TypeOK
  <2>2. f \in Frames
    <3>1. counted \in BOOLEAN
      OBVIOUS
    <3>2. left \in 0 .. RepeatRange - 1
      BY RangesAssumption DEF TypeOK
    <3> QED
      BY <2>1, <3>1, <3>2, FramesMade
  <2>3. stack' = Append(stack, f) /\ ctl'.at = "call"
    BY <1>2 DEF BindingExecute, Push, Call
  <2>4. left = 0 \/ bindings[n] \notin R
    <3>1. CASE Unbindable(R)
      BY <3>1 DEF NestingInv
    <3>2. CASE NeverRepeats
      BY <3>2 DEF NestingInv
    <3> QED
      BY <3>1, <3>2 DEF RehandlesOnce
  <2>5. Handling(f) /\ Calm(f, R)
    BY <2>4 DEF Handling, Calm
  <2> HIDE DEF f
  <2> QED
    BY <2>2, <2>3, <2>5, NestingDeeper
<1> QED
  BY <1>1, <1>2

\* An unbound command is executed once.
LEMMA NestingUnbound ==
  ASSUME NEW R, TypeOK, TypeOK', NestingInv(R), ctl.at = "handle",
         \/ \E m, k : ExecuteUnbound(m, k)
         \/ ctl' = Return(TRUE) /\ stack' = stack,
         UNCHANGED <<bindings, repeat_enabled, rehandeled>>
  PROVE  NestingInv(R)'
<1> DEFINE f == [fn |-> "unbound"]
<1>1. f \in Frames /\ Handling(f) /\ Calm(f, R)
  BY FramesMade DEF Handling, Calm
<1>2. ASSUME NEW m, NEW k, ExecuteUnbound(m, k) PROVE NestingInv(R)'
  <2>1. stack' = Append(stack, f) /\ ctl'.at = "call"
    BY <1>2 DEF ExecuteUnbound, Push, Call
  <2> HIDE DEF f
  <2> QED
    BY <1>1, <2>1, NestingDeeper
<1> QED
  BY <1>2, NestingHandled

\* Nothing is nested in an empty stack.
LEMMA NoDepth ==
  ASSUME NEW R
  PROVE  AllCalm(<<>>, R) /\ OneWaits(<<>>, R) /\ ~Waiting(<<>>, R) /\ Depth(<<>>) = 0
<1>1. 1 .. Len(<<>>) = {}
  OBVIOUS
<1>2. {i \in 1 .. Len(<<>>) : Handling(<<>>[i])} = {}
  BY <1>1
<1>3. Depth(<<>>) = 0
  BY <1>2, FS_EmptySet DEF Depth
<1> QED
  BY <1>1, <1>3 DEF AllCalm, OneWaits, Waiting

\* A frame stays one of its kind when it goes on.
LEMMA FramesChanged ==
  ASSUME NEW f \in Frames
  PROVE  /\ f.fn = "evaluate" =>
              /\ [f EXCEPT !.again = TRUE] \in Frames
              /\ [f EXCEPT !.again = TRUE].fn = "evaluate"
              /\ [f EXCEPT !.again = TRUE].call = f.call
              /\ [f EXCEPT !.again = TRUE].again = TRUE
         /\ f.fn = "conf" /\ Tail(f.todo) \in Seq(Calls) =>
              /\ [f EXCEPT !.todo = Tail(@)] \in Frames
              /\ [f EXCEPT !.todo = Tail(@)].fn = "conf"
              /\ [f EXCEPT !.todo = Tail(@)].restore = f.restore
BY DEF Frames

\* Under the condition, a key that has been refused is not rehandled: one case for each
\* action that calls, pushes or pops.
LEMMA NestingStep ==
  ASSUME NEW R, RehandlesOnce(R), TypeOK, TypeOK', KeyInv, NestingInv(R), [Next]_vars
  PROVE  NestingInv(R)'
<1>1. /\ stack \in Seq(Frames) /\ AllCalm(stack, R) /\ OneWaits(stack, R)
      /\ rehandeled \in Nat /\ RehandleDepthMax \in Nat /\ rehandeled <= RehandleDepthMax
  BY RangesAssumption DEF TypeOK, NestingInv
<1>2. Depth(stack) \in Nat
  <2>1. [fn |-> "unbound"] \in Frames
    BY FramesMade
  <2> QED
    BY <1>1, <2>1, DepthAppend
<1>3. ASSUME NEW fn, TopIs(fn)
      PROVE  /\ Len(stack) > 0 /\ Top.fn = fn /\ Top \in Frames /\ Below \in Seq(Frames)
             /\ AllCalm(Below, R) /\ Calm(Top, R) /\ OneWaits(Below, R)
             /\ Waiting(stack, R) <=> Waiting(Below, R) \/ Waits(Top, R)
             /\ ~(Waiting(Below, R) /\ Waits(Top, R))
             /\ Depth(Below) \in Nat
             /\ Depth(stack) = IF Handling(Top) THEN Depth(Below) + 1 ELSE Depth(Below)
  BY <1>3, NestingBelow DEF TopIs
<1>4. ASSUME NEW fn, TopIs(fn), stack' = Below, ctl'.at = "return",
             UNCHANGED <<bindings, repeat_enabled, rehandeled>>
      PROVE  NestingInv(R)'
  <2>1. Depth(Below) <= Depth(stack)
    BY <1>3, <1>4
  <2> QED
    BY <1>3, <1>4, <2>1, NestingKept
<1>5. CASE HandleChain \/ HandleBound
  <2>1. ctl.key \in Keys /\ current_mode \in Modes /\ LookupMode \in Modes /\ ctl.at = "handle"
    BY <1>5, ControlsRead, ModesAssumption
    DEF HandleChain, InChain, HandleBound, LookingUp, LookupMode, TypeOK
  <2>2. \E n \in DOMAIN bindings, km \in Modes : BindingExecute(n, km, ctl.key)
    BY <1>5, <2>1, ModesAssumption DEF HandleChain, HandleBound, HasBinding
  <2>3. UNCHANGED <<bindings, repeat_enabled, rehandeled>>
    BY <1>5 DEF HandleChain, HandleBound, keymodes
  <2> QED
    BY <2>1, <2>2, <2>3, NestingBinding
<1>6. CASE HandleChainBroken
  <2>1. \/ ExecuteUnbound(current_mode, ctl.key)
        \/ ctl' = Return(TRUE) /\ stack' = stack
    BY <1>6 DEF HandleChainBroken
  <2>2. ctl.at = "handle" /\ UNCHANGED <<bindings, repeat_enabled, rehandeled>>
    BY <1>6 DEF HandleChainBroken, InChain, keymodes
  <2> QED
    BY <2>1, <2>2, NestingUnbound
<1>7. CASE HandleUnbound
  <2>1. \/ ExecuteUnbound(LookupMode, ctl.key)
        \/ ctl' = Return(TRUE) /\ stack' = stack
    BY <1>7 DEF HandleUnbound
  <2>2. ctl.at = "handle" /\ UNCHANGED <<bindings, repeat_enabled, rehandeled>>
    BY <1>7 DEF HandleUnbound, LookingUp, keymodes
  <2> QED
    BY <2>1, <2>2, NestingUnbound
<1>8. CASE HandleMasked \/ HandleZero \/ HandleDigit
  BY <1>8, NestingHandled DEF HandleMasked, HandleZero, HandleDigit, keymodes
<1>9. CASE BindingReturn
  <2>1. TopIs("binding") /\ UNCHANGED <<bindings, repeat_enabled, rehandeled>>
    BY <1>9 DEF BindingReturn, keymodes
  <2>2. CASE Top.left > 0
    <3>1. stack' = Append(Below, Countdown(Top)) /\ ctl' = Call(Top.call, Top.key)
      BY <1>9, <2>2 DEF BindingReturn, Replace
    <3>2. /\ Top.left \in 0 .. RepeatRange - 1 /\ Top.node \in Nodes /\ Top.call \in Calls
          /\ Top.key \in Keys /\ Top.counted \in BOOLEAN
          /\ Countdown(Top) = [fn |-> "binding", node |-> Top.node, call |-> Top.call,
                               key |-> Top.key, counted |-> Top.counted, left |-> Top.left - 1]
      BY <1>3, <2>1, FramesRead DEF Countdown
    <3>3. Top.left - 1 \in 0 .. RepeatRange - 1
      BY <2>2, <3>2, RangesAssumption
    <3>4. Countdown(Top) \in Frames
      BY <3>2, <3>3, FramesMade
    <3>5. Top.call \notin R
      BY <1>3, <2>1, <2>2, <3>2 DEF Calm
    <3>6. Calm(Countdown(Top), R) /\ ~Waits(Countdown(Top), R) /\ Handling(Countdown(Top))
      BY <3>2, <3>5 DEF Calm, Waits, Handling
    <3>7. Handling(Top)
      BY <1>3, <2>1 DEF Handling
    <3>8. ctl'.at = "call" /\ ctl'.call = Top.call
      BY <3>1 DEF Call
    <3> QED
      BY <1>3, <2>1, <3>1, <3>4, <3>5, <3>6, <3>7, <3>8, NestingPushed
  <2>3. CASE ~(Top.left > 0)
    BY <1>4, <1>9, <2>1, <2>3 DEF BindingReturn, Pop, Return
  <2> QED
    BY <2>2, <2>3
<1>10. CASE UnboundReturn
  BY <1>4, <1>10 DEF UnboundReturn, Pop, Return, context, keymodes
<1>11. CASE LoadReturn
  BY <1>4, <1>11 DEF LoadReturn, Pop, Returning, context, keymodes
<1>12. CASE ConfReturn
  BY <1>4, <1>12 DEF ConfReturn, Pop, Returning, keymodes
<1>13. CASE CallGroup
  <2> DEFINE f == [fn |-> "group", call |-> ctl.call, key |-> ctl.key, pos |-> 1]
  <2>1. ctl.call \in Groups /\ ctl.key \in Keys \cup {NoKey} /\ WellFormed(Program[ctl.call])
          /\ Program[ctl.call].op = "group"
    BY <1>13, CallWellFormed DEF CallGroup, Groups
  <2>2. f \in Frames
    <3>1. 1 \in Nat \ {0}
      OBVIOUS
    <3> QED
      BY <2>1, <3>1, FramesMade
  <2>3. 1 \in 1 .. Len(Program[ctl.call].calls)
    BY <2>1 DEF WellFormed
  <2>4. ctl.key # NoKey
          /\ (\E i \in 1 .. Len(Program[ctl.call].calls) : Program[ctl.call].calls[i] \in R)
        => Rehandles(R)
    BY <1>13, <2>1 DEF CallGroup, Calling, Rehandles, RehandlesOnce, WellFormed
  <2>5. Rehandles(R) => ~Waiting(stack, R) /\ Depth(stack) <= rehandeled + 1
    BY DEF NestingInv, Active
  <2>6. stack' = Append(stack, f) /\ ctl' = Call(Program[ctl.call].calls[1], ctl.key)
          /\ UNCHANGED <<bindings, repeat_enabled, rehandeled>>
    BY <1>13 DEF CallGroup, Push, Arg, context, keymodes
  <2>7. f.fn = "group" /\ f.call = ctl.call /\ f.key = ctl.key /\ f.pos = 1
    OBVIOUS
  <2> HIDE DEF f
  <2> QED
    BY <1>1, <2>2, <2>3, <2>4, <2>5, <2>6, <2>7, NestingGroup
<1>14. CASE GroupReturn
  <2>1. TopIs("group") /\ UNCHANGED <<bindings, repeat_enabled, rehandeled>>
    BY <1>14 DEF GroupReturn, context, keymodes
  <2>2. CASE stack' = Below /\ ctl' = Return(TRUE)
    BY <1>4, <2>1, <2>2 DEF Return
  <2>3. ASSUME NEW j \in NextInGroup(Program[Top.call], Top.pos, ctl.ok),
               stack' = Append(Below, [Top EXCEPT !.pos = j]),
               ctl' = Call(Program[Top.call].calls[j], Top.key)
        PROVE  NestingInv(R)'
    <3> DEFINE f == [Top EXCEPT !.pos = j]
    <3>1. Top.call \in Groups /\ Top.pos \in Nat \ {0} /\ Top.key \in Keys \cup {NoKey}
            /\ Top = [fn |-> "group", call |-> Top.call, key |-> Top.key, pos |-> Top.pos]
      BY <1>3, <2>1, FramesRead
    <3>2. Len(Program[Top.call].calls) \in Nat
      BY <3>1, ProgramAssumption DEF Groups, WellFormed
    <3>3. j \in Nat \ {0} /\ j \in Top.pos + 1 .. Len(Program[Top.call].calls)
            /\ j \in 1 .. Len(Program[Top.call].calls)
      BY <3>1, <3>2 DEF NextInGroup
    <3>4. f = [fn |-> "group", call |-> Top.call, key |-> Top.key, pos |-> j]
      BY <3>1
    <3>5. f \in Frames /\ f.fn = "group" /\ f.call = Top.call /\ f.key = Top.key /\ f.pos = j
      BY <3>1, <3>3, <3>4, FramesMade
    <3>6. ~Handling(Top)
      BY <1>3, <2>1 DEF Handling
    <3>7. ASSUME Top.key # NoKey,
                 NEW i \in j .. Len(Program[Top.call].calls), Program[Top.call].calls[i] \in R
          PROVE  ~Waiting(Below, R) /\ Depth(stack) <= rehandeled + 1
      <4>1. i \in Top.pos + 1 .. Len(Program[Top.call].calls)
        BY <3>1, <3>2, <3>3, <3>7
      <4>2. Waits(Top, R)
        BY <1>3, <2>1, <3>7, <4>1 DEF Waits
      <4> QED
        BY <1>3, <2>1, <4>2 DEF NestingInv
    <3>8. stack' = Append(Below, f)
      BY <2>3
    <3> HIDE DEF f
    <3>9. Waiting(Below, R) => Waiting(stack, R)
      BY <1>3, <2>1
    <3>10. Depth(Below) = Depth(stack)
      BY <1>3, <2>1, <3>6
    <3> QED
      BY <1>3, <2>1, <2>3, <3>3, <3>5, <3>7, <3>8, <3>9, <3>10, NestingGroup
  <2> QED
    BY <1>14, <2>2, <2>3 DEF GroupReturn, Pop, Replace
<1>15. CASE CallRehandle
  <2>1. ctl.at = "call" /\ Program[ctl.call].op = "rehandle" /\ ctl.call \in Calls
          /\ ctl.key \in Keys \cup {NoKey}
    BY <1>15, CallWellFormed DEF CallRehandle, Calling
  <2>2. stack' = stack /\ UNCHANGED <<bindings, repeat_enabled>>
    BY <1>15 DEF CallRehandle, keymodes
  <2>3. CASE ctl.key = NoKey
    <3>1. ctl' = Return(TRUE) /\ rehandeled' = rehandeled
      BY <1>15, <2>3 DEF CallRehandle
    <3> QED
      BY <2>2, <3>1, NestingHandled
  <2>4. CASE ctl.key # NoKey
    <3>1. Rehandles(R)
      BY <2>1, <2>4 DEF Rehandles, RehandlesOnce
    <3>2. ~Waiting(stack, R) /\ Depth(stack) <= rehandeled + 1
      BY <3>1 DEF NestingInv, Active
    <3>3. CASE MayRehandle
      <4>1. ctl' = Handle(ctl.key) /\ rehandeled' = rehandeled + 1
        BY <1>15, <2>4, <3>3 DEF CallRehandle
      <4>2. ~Rehandles(R)'
        BY <4>1 DEF Rehandles, Handle
      <4> QED
        BY <2>2, <3>2, <4>1, <4>2 DEF NestingInv
    <3>4. CASE ~MayRehandle
      <4>1. ctl' = Return(FALSE)
        BY <1>15, <2>4, <3>4 DEF CallRehandle
      <4> QED
        BY <1>1, <1>2, <2>2, <3>2, <4>1, NestingKept DEF Return
    <3> QED
      BY <3>3, <3>4
  <2> QED
    BY <2>3, <2>4
<1>16. CASE CallBind
  <2>1. Program[ctl.call].op = "bind" /\ ctl.call \in Calls /\ Program[ctl.call].call \in Calls
    BY <1>16, CallWellFormed DEF CallBind, WellFormed
  <2>2. stack' = stack /\ ctl' = Return(TRUE) /\ UNCHANGED <<repeat_enabled, rehandeled>>
    BY <1>16 DEF CallBind, context
  <2>3. ASSUME Unbindable(R), NEW n \in DOMAIN bindings' PROVE bindings'[n] \notin R
    <3>1. \/ bindings'[n] = Program[ctl.call].call
          \/ n \in DOMAIN bindings /\ bindings'[n] = bindings[n]
          \/ bindings'[n] = NoCall
      BY <1>16, <2>3 DEF CallBind, Arg
    <3>2. Program[ctl.call].call \notin R
      BY <2>1, <2>3 DEF Unbindable
    <3>3. NoCall \notin R
      BY NullAssumption DEF RehandlesOnce
    <3> QED
      BY <2>3, <3>1, <3>2, <3>3 DEF NestingInv
  <2> QED
    BY <2>2, <2>3 DEF NestingInv, Active, Rehandles, Return
<1>17. CASE CallRepeat
  <2>1. Program[ctl.call].op = "repeat" /\ ctl.call \in Calls /\ Program[ctl.call].on \in BOOLEAN
    BY <1>17, CallWellFormed DEF CallRepeat, WellFormed
  <2>2. stack' = stack /\ ctl' = Return(TRUE) /\ UNCHANGED <<bindings, rehandeled>>
    BY <1>17 DEF CallRepeat, context
  <2>3. ASSUME NeverRepeats, NEW m \in Modes PROVE ~repeat_enabled'[m]
    <3>1. ~Program[ctl.call].on
      BY <2>1, <2>3 DEF NeverRepeats
    <3>2. repeat_enabled' = [repeat_enabled EXCEPT ![current_mode] = Program[ctl.call].on]
      BY <1>17 DEF CallRepeat, Arg
    <3>3. repeat_enabled \in [Modes -> BOOLEAN] /\ ~repeat_enabled[m]
      BY <2>3 DEF TypeOK, NestingInv
    <3> QED
      BY <3>1, <3>2, <3>3
  <2> QED
    BY <2>2, <2>3 DEF NestingInv, Active, Rehandles, Return
<1>18. CASE CallMask \/ CallPass \/ CallIgnore \/ CallMode \/ CallPreviousMode \/ CallOther \/ CallUnbound
  <2>1. stack' = stack /\ ctl'.at = "return" /\ UNCHANGED <<bindings, repeat_enabled, rehandeled>>
    BY <1>18 DEF CallMask, CallPass, CallIgnore, CallMode, CallPreviousMode, CallOther,
       CallUnbound, Return, context, keymodes
  <2> QED
    BY <1>1, <1>2, <2>1, NestingKept
<1>19. ASSUME NEW s \in Seq(Frames), NEW files, stack' = Append(s, LoadFrame(files)),
              LoadFrame(files) \in Frames, ctl'.at # "handle", ctl'.at # "call",
              AllCalm(s, R), OneWaits(s, R), Waiting(s, R) => Waiting(stack, R),
              Depth(s) <= Depth(stack), UNCHANGED <<bindings, repeat_enabled, rehandeled>>
       PROVE  NestingInv(R)'
  <2>1. Calm(LoadFrame(files), R) /\ ~Waits(LoadFrame(files), R) /\ ~Handling(LoadFrame(files))
    BY DEF Calm, Waits, Handling, LoadFrame
  <2> QED
    BY <1>19, <2>1, NestingPushed
<1>20. CASE ReadOption
  <2>1. UNCHANGED <<bindings, repeat_enabled, rehandeled>> /\ ctl.at = "options"
    BY <1>20 DEF ReadOption, keymodes, AtOptions
  <2>2. CASE UNCHANGED <<ctl, stack>>
    BY <1>1, <1>2, <2>1, <2>2, NestingKept
  <2>3. CASE ctl' = Return(FALSE) /\ stack' = Append(stack, LoadFrame(Options[optind].files))
             /\ Options[optind].opt = "conf"
    <3>1. optind \in DOMAIN Options
              /\ Options[optind] \in [opt : {"conf"}, files : Seq(Seq(Calls))] \cup [opt : {"mode"}, mode : Modes]
      BY <1>20, OptionsAssumption DEF ReadOption, TypeOK
    <3>2. LoadFrame(Options[optind].files) \in Frames
      BY <2>3, <3>1, FramesMade
    <3> QED
      BY <1>1, <1>2, <1>19, <2>1, <2>3, <3>2 DEF Return
  <2> QED
    BY <1>20, <2>2, <2>3 DEF ReadOption, Push
<1>21. CASE CallLoad
  <2>1. LoadFrame(Program[ctl.call].files) \in Frames
    BY <1>21, CallWellFormed, FramesMade DEF CallLoad, WellFormed
  <2>2. stack' = Append(stack, LoadFrame(Program[ctl.call].files)) /\ ctl' = Return(FALSE)
          /\ UNCHANGED <<bindings, repeat_enabled, rehandeled>>
    BY <1>21 DEF CallLoad, Push, Arg, context, keymodes
  <2> QED
    BY <1>1, <1>2, <1>19, <2>1, <2>2 DEF Return
<1>22. ASSUME NEW s \in Seq(Frames), NEW todo, stack' = Append(s, ConfFrame(todo)),
              ConfFrame(todo) \in Frames, ctl' = Return(TRUE),
              AllCalm(s, R), OneWaits(s, R), Waiting(s, R) => Waiting(stack, R),
              Depth(s) <= Depth(stack), UNCHANGED <<bindings, repeat_enabled, rehandeled>>
       PROVE  NestingInv(R)'
  <2>1. Calm(ConfFrame(todo), R) /\ ~Waits(ConfFrame(todo), R) /\ ~Handling(ConfFrame(todo))
    BY DEF Calm, Waits, Handling, ConfFrame
  <2>2. ctl'.at = "return"
    BY <1>22 DEF Return
  <2> QED
    BY <1>22, <2>1, <2>2, NestingPushed
<1>23. ASSUME NEW s \in Seq(Frames), NEW f \in Frames,
              f.fn = "load" \/ (f.fn = "evaluate" /\ f.call \notin R),
              AllCalm(s, R), OneWaits(s, R), Waiting(s, R) => Waiting(stack, R),
              Depth(s) <= Depth(stack)
       PROVE  /\ Append(s, f) \in Seq(Frames) /\ AllCalm(Append(s, f), R)
              /\ OneWaits(Append(s, f), R)
              /\ Waiting(Append(s, f), R) => Waiting(stack, R)
              /\ Depth(Append(s, f)) <= Depth(stack)
  <2>1. Calm(f, R) /\ ~Waits(f, R) /\ ~Handling(f)
    BY <1>23 DEF Calm, Waits, Handling
  <2>2. Append(s, f) \in Seq(Frames)
    BY <1>23
  <2> QED
    BY <1>23, <2>1, <2>2, NestingAppend, DepthAppend
<1>24. CASE LoadNext
  <2>1. TopIs("load") /\ UNCHANGED <<bindings, repeat_enabled, rehandeled>>
    BY <1>24 DEF LoadNext, context, keymodes
  <2>2. Top.files \in Seq(Seq(Calls)) /\ Top.files # <<>>
    BY <1>3, <1>24, <2>1, FramesRead DEF LoadNext
  <2>3. Tail(Top.files) \in Seq(Seq(Calls)) /\ Head(Top.files) \in Seq(Calls)
    BY <2>2
  <2> DEFINE f == LoadFrame(Tail(Top.files))
  <2>4. f \in Frames /\ f.fn = "load"
    BY <2>3, FramesMade DEF LoadFrame
  <2>5. ConfFrame(Head(Top.files)) \in Frames
    BY <2>3, FramesMade DEF ConfFrame, TypeOK
  <2>6. stack' = Append(Append(Below, f), ConfFrame(Head(Top.files))) /\ ctl' = Return(TRUE)
    BY <1>24 DEF LoadNext
  <2>7. Depth(Below) <= Depth(stack)
    BY <1>3, <2>1
  <2> HIDE DEF f
  <2>8. /\ Append(Below, f) \in Seq(Frames) /\ AllCalm(Append(Below, f), R)
        /\ OneWaits(Append(Below, f), R)
        /\ Waiting(Append(Below, f), R) => Waiting(stack, R)
        /\ Depth(Append(Below, f)) <= Depth(stack)
    BY <1>3, <1>23, <2>1, <2>4, <2>7
  <2> QED
    BY <1>22, <2>1, <2>5, <2>6, <2>8
<1>25. CASE CallEvaluate
  <2> DEFINE callers == IF Again THEN Below ELSE stack
             asking == [fn |-> "evaluate", call |-> ctl.call, key |-> ctl.key,
                        again |-> Again]
  <2>1. ctl.call \in Calls /\ ctl.key \in Keys \cup {NoKey}
          /\ Program[ctl.call].lines \subseteq Seq(Calls) /\ Program[ctl.call].op = "evaluate"
    BY <1>25, CallWellFormed DEF CallEvaluate, WellFormed
  <2>2. ctl.call \notin R
    BY <2>1 DEF RehandlesOnce
  <2>3. /\ callers \in Seq(Frames) /\ AllCalm(callers, R) /\ OneWaits(callers, R)
        /\ Waiting(callers, R) => Waiting(stack, R)
        /\ Depth(callers) <= Depth(stack)
    <3>1. CASE Again
      <4>1. Depth(Below) <= Depth(stack)
        BY <1>3, <3>1 DEF Again
      <4> QED
        BY <1>3, <3>1, <4>1 DEF Again
    <3>2. CASE ~Again
      BY <1>1, <1>2, <3>2
    <3> QED
      BY <3>1, <3>2
  <2>4. asking \in Frames /\ asking.fn = "evaluate" /\ asking.call \notin R
    <3>1. Again \in BOOLEAN
      BY <1>1, StackTypes, FramesRead DEF Again, TopIs
    <3> QED
      BY <2>1, <2>2, <3>1, FramesMade
  <2>5. /\ \/ stack' = callers /\ ctl' = Return(Again)
           \/ \E line \in Program[ctl.call].lines :
                /\ stack' = Append(Append(callers, asking), ConfFrame(line))
                /\ ctl' = Return(TRUE)
        /\ UNCHANGED <<bindings, repeat_enabled, rehandeled>>
    BY <1>25 DEF CallEvaluate, Arg, context, keymodes
  <2> HIDE DEF callers, asking
  <2>6. CASE stack' = callers /\ ctl' = Return(Again)
    BY <2>3, <2>5, <2>6, NestingKept DEF Return
  <2>7. ASSUME NEW line \in Program[ctl.call].lines,
               stack' = Append(Append(callers, asking), ConfFrame(line)), ctl' = Return(TRUE)
        PROVE  NestingInv(R)'
    <3>1. ConfFrame(line) \in Frames
      BY <2>1, FramesMade DEF ConfFrame, TypeOK
    <3>2. /\ Append(callers, asking) \in Seq(Frames) /\ AllCalm(Append(callers, asking), R)
          /\ OneWaits(Append(callers, asking), R)
          /\ Waiting(Append(callers, asking), R) => Waiting(stack, R)
          /\ Depth(Append(callers, asking)) <= Depth(stack)
      BY <1>23, <2>3, <2>4
    <3> QED
      BY <1>22, <2>5, <2>7, <3>1, <3>2
  <2> QED
    BY <2>5, <2>6, <2>7
<1>26. CASE EvaluateReturn
  <2>1. TopIs("evaluate") /\ UNCHANGED <<bindings, repeat_enabled, rehandeled>>
    BY <1>26 DEF EvaluateReturn, context, keymodes
  <2>2. CASE stack' = Below /\ ctl' = Return(TRUE)
    BY <1>4, <2>1, <2>2 DEF Return
  <2>3. CASE stack' = Append(Below, [Top EXCEPT !.again = TRUE]) /\ ctl' = Call(Top.call, Top.key)
    <3> DEFINE f == [Top EXCEPT !.again = TRUE]
    <3>1. f \in Frames /\ f.fn = "evaluate" /\ f.call = Top.call
      BY <1>3, <2>1, FramesChanged
    <3>2. Top.call \notin R /\ ~Handling(Top)
      BY <1>3, <2>1 DEF Calm, Handling
    <3>3. Calm(f, R) /\ ~Waits(f, R) /\ ~Handling(f)
      BY <3>1, <3>2 DEF Calm, Waits, Handling
    <3>4. ctl'.at = "call" /\ ctl'.call = Top.call
      BY <2>3 DEF Call
    <3>5. stack' = Append(Below, f)
      BY <2>3
    <3> HIDE DEF f
    <3> QED
      BY <1>3, <2>1, <3>1, <3>2, <3>3, <3>4, <3>5, NestingPushed
  <2> QED
    BY <1>26, <2>2, <2>3 DEF EvaluateReturn, Pop, Replace
<1>27. CASE ConfNext
  <2>1. TopIs("conf") /\ UNCHANGED <<bindings, repeat_enabled, rehandeled>>
    BY <1>27 DEF ConfNext, context, keymodes
  <2>2. Top.todo \in Seq(Calls) /\ Top.todo # <<>>
    BY <1>3, <1>27, <2>1, FramesRead DEF ConfNext
  <2> DEFINE f == [Top EXCEPT !.todo = Tail(@)]
  <2>3. f \in Frames /\ f.fn = "conf"
    <3>1. Tail(Top.todo) \in Seq(Calls)
      BY <2>2
    <3> QED
      BY <1>3, <2>1, <3>1, FramesChanged
  <2>4. stack' = Append(Below, f) /\ ctl' = Call(Head(Top.todo), NoKey)
    BY <1>27 DEF ConfNext, ConfCall, Replace
  <2> HIDE DEF f
  <2>5. Calm(f, R) /\ ~Waits(f, R) /\ ~Handling(f) /\ ~Handling(Top)
    BY <1>3, <2>1, <2>3 DEF Calm, Waits, Handling
  <2>6. ctl'.at = "call" /\ ctl'.key = NoKey
    BY <2>4 DEF Call
  <2> QED
    BY <1>3, <2>1, <2>3, <2>4, <2>5, <2>6, NestingPushed
<1>28. CASE ConfCrash \/ OptionReturn \/ StartProgram \/ KeyReturn
            \/ HandleFreed \/ BindingReturnFreed
  <2>1. stack' = stack /\ ctl'.at \notin {"handle", "call"}
          /\ UNCHANGED <<bindings, repeat_enabled, rehandeled>>
    BY <1>28 DEF ConfCrash, OptionReturn, StartProgram, KeyReturn, HandleFreed,
       BindingReturnFreed, AtOptions, AtPoll, Exited, Crashed, Fault, context, keymodes
  <2> QED
    BY <1>1, <1>2, <2>1, NestingKept
<1>29. CASE UNCHANGED vars
  BY <1>29 DEF vars, context, keymodes, NestingInv, Active, Rehandles
<1>30. CASE ReadKey
  <2>1. stack' = <<>> /\ UNCHANGED <<bindings, repeat_enabled, rehandeled>>
    BY <1>30 DEF ReadKey, KeyInv, AtPoll, context, keymodes
  <2>2. ctl'.at = "handle" /\ ~Rehandles(R)'
    BY <1>30 DEF ReadKey, Handle, Rehandles
  <2>3. AllCalm(<<>>, R) /\ OneWaits(<<>>, R) /\ ~Waiting(<<>>, R) /\ Depth(<<>>) = 0
    BY NoDepth
  <2> QED
    BY <1>1, <2>1, <2>2, <2>3 DEF NestingInv
<1>31. CASE CallUnbind
  <2>1. /\ SameFrames(stack, stack') /\ (ctl' = Return(TRUE) \/ ctl' = Fault)
        /\ \A n \in DOMAIN bindings' :
             bindings'[n] = NoCall \/ \E p \in DOMAIN bindings : bindings'[n] = bindings[p]
    BY <1>31, UnbindTypes
  <2>2. repeat_enabled' = repeat_enabled /\ rehandeled' = rehandeled
    BY <1>31 DEF CallUnbind
  <2>3. ctl'.at \notin {"handle", "call"}
    BY <2>1 DEF Return, Fault
  <2>4. /\ Waiting(stack', R) <=> Waiting(stack, R)
        /\ OneWaits(stack', R) /\ AllCalm(stack', R) /\ Depth(stack') = Depth(stack)
    BY <1>1, <2>1, NestingSame
  <2>5. ASSUME Unbindable(R), NEW n \in DOMAIN bindings' PROVE bindings'[n] \notin R
    <3>1. NoCall \notin R
      BY NullAssumption DEF RehandlesOnce
    <3> QED
      BY <2>1, <2>5, <3>1 DEF NestingInv
  <2> QED
    BY <2>2, <2>3, <2>4, <2>5 DEF NestingInv, Active, Rehandles
<1> QED
  BY <1>31, <1>5, <1>6, <1>7, <1>8, <1>9, <1>10, <1>11, <1>12, <1>13, <1>14, <1>15, <1>16, <1>17, <1>18,
     <1>20, <1>21, <1>24, <1>25, <1>26, <1>27, <1>28, <1>29, <1>30
  DEF Next, Run, Startup, HandleKey, Command

\* Calls of handle_key() nest no deeper than REHANDLE_DEPTH_MAX announces, in every
\* configuration in which a key that has been refused a rehandle does not ask again:
\* vi.conf is one.  The counter alone does not see to it.
THEOREM NestingCorrect ==
  ASSUME NEW R, RehandlesOnce(R)
  PROVE  Spec => []NestingIsBounded
<1>1. Init => NestingInv(R)
  <2>1. SUFFICES ASSUME Init PROVE NestingInv(R)
    OBVIOUS
  <2>2. stack = <<>> /\ ~Active(R) /\ ~Rehandles(R) /\ ctl.at # "handle"
    BY <2>1 DEF Init, Active, Rehandles, AtOptions
  <2>3. AllCalm(stack, R) /\ OneWaits(stack, R) /\ ~Waiting(stack, R) /\ Depth(stack) = 0
    BY <2>2, NoDepth
  <2>4. \A n \in DOMAIN bindings : bindings[n] \notin R
    BY <2>1, NullAssumption DEF Init, RehandlesOnce
  <2>5. \A m \in Modes : ~repeat_enabled[m]
    BY <2>1 DEF Init
  <2> QED
    BY <2>2, <2>3, <2>4, <2>5, RangesAssumption DEF NestingInv
<1>2. TypeOK /\ NestingInv(R) => NestingIsBounded
  <2>1. TypeOK => DOMAIN stack = 1 .. Len(stack)
    BY DEF TypeOK
  <2> QED
    BY <2>1 DEF NestingInv, NestingIsBounded, Depth, Handling
<1>3. TypeOK /\ TypeOK' /\ KeyInv /\ NestingInv(R) /\ [Next]_vars => NestingInv(R)'
  BY NestingStep
<1> QED
  BY TypeInit, TypeStep, KeyInit, KeyStep, <1>1, <1>2, <1>3, PTL DEF Spec

-----------------------------------------------------------------------------
(***************************************************************************)
(* A key bound to load or readline -!, and the mode.  The binding's frame  *)
(* is the first on the stack, load or evaluate the second, and the third a *)
(* configuration that will restore the mode; only above those can commands *)
(* run that change it, and handle_key() not at all.                        *)
(***************************************************************************)

\* The mode the key was looked up in.
LookedUpIn ==
  IF pressed.chain = NoNode /\ pressed.mode = Global THEN Default ELSE pressed.mode

\* The frame of a binding whose command reads configurations.
Reader(f) == f.fn = "binding" /\ Program[f.call].op \in {"load", "evaluate"}

Inside(s) == Len(s) > 0 /\ Reader(s[1])

\* A frame on top of the frames s, as far as the second and the third are concerned.
ReaderFrame(s, f) ==
  Inside(s) =>
    /\ Len(s) = 1 => \/ f.fn = "load"
                     \/ f.fn = "evaluate" /\ Program[f.call].op = "evaluate"
    /\ Len(s) = 2 => f.fn = "conf" /\ f.restore = LookedUpIn

ReaderStack(s) == \A i \in 1 .. Len(s) : ReaderFrame(SubSeq(s, 1, i - 1), s[i])

ReaderInv ==
  /\ ctl.at = "handle" /\ Len(stack) = 0 =>
       current_mode = pressed.mode /\ current_binding = pressed.chain
  /\ ctl.at = "call" => Len(stack) > 0
  /\ ReaderStack(stack)
  /\ Inside(stack) =>
       /\ ctl.at # "handle"
       /\ Len(stack) <= 2 => current_mode = LookedUpIn
       /\ Len(stack) <= 2 /\ ctl.at = "call" => ctl.call = Top.call
       /\ Len(stack) = 2 /\ ctl.at = "call" => Again

\* A push decides about the frames it adds.
LEMMA ReaderAppend ==
  ASSUME NEW s \in Seq(Frames), NEW f \in Frames
  PROVE  /\ Inside(Append(s, f)) <=> Inside(s) \/ (Len(s) = 0 /\ Reader(f))
         /\ ReaderStack(Append(s, f)) <=> ReaderStack(s) /\ ReaderFrame(s, f)
<1> DEFINE t == Append(s, f)
<1>1. /\ Len(t) = Len(s) + 1 /\ Len(s) \in Nat
      /\ \A i \in 1 .. Len(s) : t[i] = s[i]
      /\ t[Len(s) + 1] = f
  BY Pushed
<1>2. \A i \in 0 .. Len(s) : SubSeq(t, 1, i) = SubSeq(s, 1, i)
  BY PrefixOfAppend
<1>3. SubSeq(s, 1, Len(s)) = s
  BY PrefixWhole
<1> HIDE DEF t
<1>4. Inside(t) <=> Inside(s) \/ (Len(s) = 0 /\ Reader(f))
  BY <1>1 DEF Inside
<1>5. \A i \in 1 .. Len(s) :
        ReaderFrame(SubSeq(t, 1, i - 1), t[i]) <=> ReaderFrame(SubSeq(s, 1, i - 1), s[i])
  <2>1. ASSUME NEW i \in 1 .. Len(s)
        PROVE  ReaderFrame(SubSeq(t, 1, i - 1), t[i]) <=> ReaderFrame(SubSeq(s, 1, i - 1), s[i])
    <3>1. i - 1 \in 0 .. Len(s)
      BY <1>1
    <3>2. SubSeq(t, 1, i - 1) = SubSeq(s, 1, i - 1) /\ t[i] = s[i]
      BY <1>1, <1>2, <3>1
    <3> QED
      BY <3>2
  <2> QED
    BY <2>1
<1>6. ReaderFrame(SubSeq(t, 1, Len(s)), t[Len(s) + 1]) <=> ReaderFrame(s, f)
  <2>1. Len(s) \in 0 .. Len(s)
    BY <1>1
  <2>2. SubSeq(t, 1, Len(s)) = s
    BY <1>2, <1>3, <2>1
  <2> QED
    BY <1>1, <2>2
<1>7. 1 .. Len(t) = 1 .. Len(s) \cup {Len(s) + 1} /\ Len(s) + 1 - 1 = Len(s)
  BY <1>1
<1>8. ReaderStack(t) <=> ReaderStack(s) /\ ReaderFrame(s, f)
  BY <1>5, <1>6, <1>7 DEF ReaderStack
<1> QED
  BY <1>4, <1>8 DEF t

\* Nor is this.
LEMMA ReaderSame ==
  ASSUME NEW s \in Seq(Frames), NEW t \in Seq(Frames), SameFrames(s, t)
  PROVE  /\ Inside(t) <=> Inside(s)
         /\ ReaderStack(s) => ReaderStack(t)
<1>1. Len(t) = Len(s) /\ Len(s) \in Nat
  BY DEF SameFrames
<1>2. ASSUME NEW i \in 1 .. Len(s)
      PROVE  /\ Reader(t[i]) <=> Reader(s[i])
             /\ t[i].fn = s[i].fn /\ (s[i].fn # "binding" => t[i] = s[i])
  BY DEF SameFrames, Reader
<1>3. Inside(t) <=> Inside(s)
  BY <1>1, <1>2 DEF Inside
<1>4. ASSUME ReaderStack(s), NEW i \in 1 .. Len(t)
      PROVE  ReaderFrame(SubSeq(t, 1, i - 1), t[i])
  <2> DEFINE sub == SubSeq(s, 1, i - 1)
             tub == SubSeq(t, 1, i - 1)
  <2>1. i - 1 \in 0 .. Len(s) /\ i - 1 \in 0 .. Len(t) /\ i \in 1 .. Len(s)
    BY <1>1
  <2>2. Len(sub) = i - 1 /\ \A j \in 1 .. i - 1 : sub[j] = s[j]
    BY <2>1, PrefixOf
  <2>3. Len(tub) = i - 1 /\ \A j \in 1 .. i - 1 : tub[j] = t[j]
    BY <2>1, PrefixOf
  <2>4. ReaderFrame(sub, s[i])
    BY <1>4, <2>1 DEF ReaderStack
  <2> HIDE DEF sub, tub
  <2>5. Len(tub) = Len(sub) /\ (Len(sub) > 0 => (Reader(tub[1]) <=> Reader(sub[1])))
    <3>1. CASE i - 1 > 0
      <4>1. 1 \in 1 .. i - 1 /\ 1 \in 1 .. Len(s)
        BY <2>1, <3>1
      <4>2. tub[1] = t[1] /\ sub[1] = s[1] /\ (Reader(t[1]) <=> Reader(s[1]))
        BY <1>2, <2>2, <2>3, <4>1
      <4> QED
        BY <2>2, <2>3, <4>2
    <3> QED
      BY <2>2, <2>3, <3>1
  <2>6. Inside(tub) <=> Inside(sub)
    BY <2>5 DEF Inside
  <2>7. t[i].fn = s[i].fn /\ (s[i].fn # "binding" => t[i] = s[i])
    BY <1>2, <2>1
  <2>8. ReaderFrame(tub, t[i])
    BY <2>4, <2>5, <2>6, <2>7 DEF ReaderFrame
  <2> QED
    BY <2>8 DEF tub
<1> QED
  BY <1>3, <1>4 DEF ReaderStack

\* What is left after a pop, and which frames the top can be.
LEMMA ReaderBelow ==
  ASSUME TypeOK, ReaderInv, Len(stack) > 0
  PROVE  /\ Top \in Frames /\ Below \in Seq(Frames)
         /\ Len(stack) \in Nat /\ Len(Below) = Len(stack) - 1
         /\ ReaderStack(Below) /\ ReaderFrame(Below, Top)
         /\ Inside(stack) <=> Inside(Below) \/ (Len(Below) = 0 /\ Reader(Top))
<1>1. stack \in Seq(Frames) /\ ReaderStack(stack)
  BY DEF TypeOK, ReaderInv
<1>2. Top \in Frames /\ Below \in Seq(Frames) /\ Append(Below, Top) = stack
        /\ Len(stack) \in Nat /\ Len(Below) = Len(stack) - 1
  BY <1>1, StackTypes, TopOnBelow, PoppedFrames
<1> QED
  BY <1>1, <1>2, ReaderAppend

\* A step after which something returns, or nothing runs.
LEMMA ReaderReturns ==
  ASSUME ReaderInv, ReaderStack(stack'), ctl'.at \notin {"handle", "call"},
         Inside(stack') /\ Len(stack') <= 2 => current_mode' = LookedUpIn,
         pressed' = pressed
  PROVE  ReaderInv'
<1>1. LookedUpIn' = LookedUpIn
  BY DEF LookedUpIn
<1>2. ReaderStack(stack)'
  BY <1>1 DEF ReaderStack, ReaderFrame
<1> QED
  BY <1>1, <1>2 DEF ReaderInv

\* A step that calls something while no key is bound to a reader, or far above it.
LEMMA ReaderCallsOn ==
  ASSUME ReaderInv, ReaderStack(stack'), ctl'.at # "handle", Len(stack') > 0,
         Inside(stack') => ~(Len(stack') <= 2),
         pressed' = pressed, stack' \in Seq(Frames)
  PROVE  ReaderInv'
<1>1. LookedUpIn' = LookedUpIn
  BY DEF LookedUpIn
<1>2. ReaderStack(stack)'
  BY <1>1 DEF ReaderStack, ReaderFrame
<1>3. ~(Len(stack') <= 2) => Len(stack') # 2
  <2> DEFINE n == Len(stack')
  <2>1. n \in Nat
    OBVIOUS
  <2> HIDE DEF n
  <2>2. ~(n <= 2) => n # 2
    BY <2>1
  <2> QED
    BY <2>2 DEF n
<1> QED
  BY <1>1, <1>2, <1>3 DEF ReaderInv

\* With two frames at most, the call in progress is that of the reader.
LEMMA ReaderCall ==
  ASSUME TypeOK, ReaderInv, Inside(stack), Len(stack) <= 2, ctl.at = "call"
  PROVE  /\ Program[ctl.call].op \in {"load", "evaluate"}
         /\ Len(stack) = 2 => Program[ctl.call].op = "evaluate"
<1>1. /\ Len(stack) > 0 /\ Top \in Frames /\ Below \in Seq(Frames)
      /\ Len(stack) \in Nat /\ Len(Below) = Len(stack) - 1
      /\ ReaderFrame(Below, Top)
      /\ Inside(stack) <=> Inside(Below) \/ (Len(Below) = 0 /\ Reader(Top))
  BY ReaderBelow DEF Inside
<1>2. ctl.call = Top.call
  BY DEF ReaderInv
<1>3. CASE Len(stack) = 1
  BY <1>1, <1>2, <1>3 DEF Inside, Reader
<1>4. CASE Len(stack) = 2
  <2>1. Inside(Below) /\ Len(Below) = 1
    BY <1>1, <1>4
  <2>2. Top.fn = "evaluate"
    BY <1>4 DEF ReaderInv, Again, TopIs
  <2> QED
    BY <1>1, <1>2, <2>1, <2>2 DEF ReaderFrame
<1> QED
  BY <1>1, <1>3, <1>4

\* handle_key() runs only outside of readers.  What it executes is the first frame, or
\* leaves the first as it is.
LEMMA ReaderHandles ==
  ASSUME TypeOK, ReaderInv, ctl.at = "handle", pressed' = pressed,
         \/ stack' = stack /\ ctl'.at = "return"
         \/ \E f \in Frames : /\ stack' = Append(stack, f) /\ ctl'.at = "call"
                              /\ Reader(f) => ctl'.call = f.call,
         Len(stack) = 0 /\ Inside(stack') => current_mode' = LookedUpIn
  PROVE  ReaderInv'
<1>1. stack \in Seq(Frames) /\ ~Inside(stack) /\ ReaderStack(stack) /\ Len(stack) \in Nat
  BY DEF TypeOK, ReaderInv
<1>2. CASE stack' = stack /\ ctl'.at = "return"
  BY <1>1, <1>2, ReaderReturns
<1>3. ASSUME NEW f \in Frames, stack' = Append(stack, f), ctl'.at = "call",
             Reader(f) => ctl'.call = f.call
      PROVE  ReaderInv'
  <2>1. /\ Len(stack') = Len(stack) + 1 /\ stack'[Len(stack) + 1] = f
        /\ stack' \in Seq(Frames)
    BY <1>1, <1>3, Pushed
  <2>2. /\ Inside(stack') <=> Len(stack) = 0 /\ Reader(f)
        /\ ReaderStack(stack')
    BY <1>1, <1>3, ReaderAppend DEF ReaderFrame
  <2>3. CASE ~Inside(stack')
    BY <1>1, <1>3, <2>1, <2>2, <2>3, ReaderCallsOn
  <2>4. CASE Inside(stack')
    <3>1. Len(stack) = 0 /\ Reader(f) /\ Len(stack') = 1
      BY <2>1, <2>2, <2>4
    <3>2. Top' = f
      BY <2>1, <3>1 DEF Top
    <3>3. ctl'.call = (Top').call
      BY <1>3, <3>1, <3>2
    <3>4. LookedUpIn' = LookedUpIn /\ current_mode' = LookedUpIn
      BY <2>4, <3>1 DEF LookedUpIn
    <3>5. ReaderStack(stack)'
      BY <2>2, <3>4 DEF ReaderStack, ReaderFrame
    <3> QED
      BY <1>3, <3>1, <3>3, <3>4, <3>5 DEF ReaderInv
  <2> QED
    BY <2>3, <2>4
<1> QED
  BY <1>2, <1>3

\* How many frames there are, by the function on top, while a reader runs.
LEMMA ReaderTop ==
  ASSUME TypeOK, ReaderInv, Len(stack) > 0, Inside(stack)
  PROVE  /\ Top.fn = "conf" => Len(stack) > 2
         /\ Top.fn \in {"group", "unbound"} => Len(stack) > 3
         /\ Top.fn \in {"load", "evaluate"} => Len(stack) = 2 \/ Len(stack) > 3
         /\ Top.fn = "binding" => Len(stack) = 1 \/ Len(stack) > 3
<1>1. /\ Top \in Frames /\ Below \in Seq(Frames)
      /\ Len(stack) \in Nat /\ Len(Below) = Len(stack) - 1
      /\ ReaderFrame(Below, Top)
      /\ Inside(stack) <=> Inside(Below) \/ (Len(Below) = 0 /\ Reader(Top))
  BY ReaderBelow
<1>2. Len(stack) = 1 => Top.fn = "binding"
  BY <1>1 DEF Inside, Reader
<1>3. Len(stack) = 2 => Top.fn \in {"load", "evaluate"}
  BY <1>1 DEF ReaderFrame
<1>4. Len(stack) = 3 => Top.fn = "conf"
  BY <1>1 DEF ReaderFrame
<1>5. Len(stack) = 1 \/ Len(stack) = 2 \/ Len(stack) = 3 \/ Len(stack) > 3
  BY <1>1
<1> QED
  BY <1>1, <1>2, <1>3, <1>4, <1>5

\* What binding_execute() pushes has the command that it calls.
LEMMA BindingCalls ==
  ASSUME TypeOK, NEW n \in DOMAIN bindings, NEW km \in Modes, NEW k \in Keys,
         BindingExecute(n, km, k)
  PROVE  \/ stack' = stack /\ ctl'.at = "return"
         \/ \E f \in Frames : /\ stack' = Append(stack, f) /\ ctl'.at = "call"
                              /\ Reader(f) => ctl'.call = f.call
<1>1. CASE bindings[n] = NoCall
  BY <1>1 DEF BindingExecute, Return
<1>2. CASE bindings[n] # NoCall
  <2> DEFINE counted == repeat_enabled[km] /\ repeat > 0
             left == IF counted THEN repeat - 1 ELSE 0
             f == [fn |-> "binding", node |-> n, call |-> bindings[n], key |-> k,
                   counted |-> counted, left |-> left]
  <2>1. bindings[n] \in Calls /\ n \in Nodes
    BY <1>2 DEF TypeOK
  <2>2. f \in Frames
    <3>1. counted \in BOOLEAN
      OBVIOUS
    <3>2. left \in 0 .. RepeatRange - 1
      BY RangesAssumption DEF TypeOK
    <3> QED
      BY <2>1, <3>1, <3>2, FramesMade
  <2>3. stack' = Append(stack, f) /\ ctl' = Call(bindings[n], k) /\ f.call = bindings[n]
    BY <1>2 DEF BindingExecute, Push
  <2> HIDE DEF f
  <2>4. ctl'.at = "call" /\ ctl'.call = f.call
    BY <2>3 DEF Call
  <2> QED
    BY <2>2, <2>3, <2>4
<1> QED
  BY <1>1, <1>2

\* No command that can switch modes runs before the reader has saved the mode, or after
\* it has been restored: one case for each action that calls, pushes or pops.
LEMMA ReaderStep ==
  ASSUME TypeOK, TypeOK', KeyInv, ReaderInv, [Next]_vars
  PROVE  ReaderInv'
<1>1. stack \in Seq(Frames) /\ ReaderStack(stack) /\ Len(stack) \in Nat
  BY DEF TypeOK, ReaderInv
<1>2. ASSUME NEW fn, TopIs(fn)
      PROVE  /\ Len(stack) > 0 /\ Top.fn = fn /\ Top \in Frames /\ Below \in Seq(Frames)
             /\ Len(Below) = Len(stack) - 1
             /\ ReaderStack(Below) /\ ReaderFrame(Below, Top)
             /\ Inside(stack) <=> Inside(Below) \/ (Len(Below) = 0 /\ Reader(Top))
  BY <1>2, ReaderBelow DEF TopIs
<1>3. ASSUME NEW fn \in {"binding", "unbound", "group", "load", "evaluate"}, TopIs(fn),
             stack' = Below, ctl'.at = "return", current_mode' = current_mode, pressed' = pressed
      PROVE  ReaderInv'
  <2>1. ASSUME Inside(Below), Len(Below) <= 2 PROVE current_mode' = LookedUpIn
    <3>1. Inside(stack) /\ Len(stack) <= 3
      BY <1>1, <1>2, <1>3, <2>1
    <3>2. Len(stack) <= 2
      BY <1>1, <1>2, <1>3, <3>1, ReaderTop
    <3> QED
      BY <1>3, <3>1, <3>2 DEF ReaderInv
  <2> QED
    BY <1>2, <1>3, <2>1, ReaderReturns
<1>4. ASSUME Inside(stack), ctl.at = "call",
             Program[ctl.call].op \notin {"load", "evaluate"}
      PROVE  Len(stack) > 2
  BY <1>1, <1>4, ReaderCall
<1>5. CASE HandleChain \/ HandleBound
  <2>1. ctl.key \in Keys /\ current_mode \in Modes /\ LookupMode \in Modes /\ ctl.at = "handle"
    BY <1>5, ControlsRead, ModesAssumption
    DEF HandleChain, InChain, HandleBound, LookingUp, LookupMode, TypeOK
  <2>2. \E n \in DOMAIN bindings, km \in Modes : BindingExecute(n, km, ctl.key)
    BY <1>5, <2>1, ModesAssumption DEF HandleChain, HandleBound, HasBinding
  <2>3. \/ stack' = stack /\ ctl'.at = "return"
        \/ \E f \in Frames : /\ stack' = Append(stack, f) /\ ctl'.at = "call"
                             /\ Reader(f) => ctl'.call = f.call
    BY <2>1, <2>2, BindingCalls
  <2>4. pressed' = pressed
    BY <1>5 DEF HandleChain, HandleBound
  <2>5. ASSUME Len(stack) = 0 PROVE current_mode' = LookedUpIn
    <3>1. current_mode = pressed.mode /\ current_binding = pressed.chain
      BY <2>1, <2>5 DEF ReaderInv
    <3>2. CASE HandleChain
      BY <3>1, <3>2 DEF HandleChain, InChain, LookedUpIn
    <3>3. CASE HandleBound
      BY <3>1, <3>3 DEF HandleBound, LookingUp, LookupMode, LookedUpIn
    <3> QED
      BY <1>5, <3>2, <3>3
  <2> QED
    BY <2>1, <2>3, <2>4, <2>5, ReaderHandles
<1>6. ASSUME ctl.at = "handle", pressed' = pressed,
             \/ \E m, k : ExecuteUnbound(m, k)
             \/ ctl'.at = "return" /\ stack' = stack
      PROVE  ReaderInv'
  <2> DEFINE f == [fn |-> "unbound"]
  <2>1. f \in Frames /\ ~Reader(f)
    BY FramesMade DEF Reader
  <2>2. CASE ctl'.at = "return" /\ stack' = stack
    <3>1. ~Inside(stack)
      BY <1>6 DEF ReaderInv
    <3> QED
      BY <1>6, <2>2, <3>1, ReaderHandles
  <2>3. ASSUME NEW m, NEW k, ExecuteUnbound(m, k) PROVE ReaderInv'
    <3>1. stack' = Append(stack, f) /\ ctl'.at = "call"
      BY <2>3 DEF ExecuteUnbound, Push, Call
    <3> HIDE DEF f
    <3>2. Len(stack) = 0 => ~Inside(stack')
      <4>1. ~Inside(stack)
        BY <1>6 DEF ReaderInv
      <4> QED
        BY <1>1, <2>1, <3>1, <4>1, ReaderAppend
    <3> QED
      BY <1>6, <2>1, <3>1, <3>2, ReaderHandles
  <2> QED
    BY <1>6, <2>2, <2>3
<1>7. CASE HandleChainBroken
  <2>1. \/ ExecuteUnbound(current_mode, ctl.key)
        \/ ctl'.at = "return" /\ stack' = stack
    BY <1>7 DEF HandleChainBroken, Return
  <2>2. ctl.at = "handle" /\ pressed' = pressed
    BY <1>7 DEF HandleChainBroken, InChain, history
  <2> QED
    BY <1>6, <2>1, <2>2
<1>8. CASE HandleUnbound
  <2>1. \/ ExecuteUnbound(LookupMode, ctl.key)
        \/ ctl'.at = "return" /\ stack' = stack
    BY <1>8 DEF HandleUnbound, Return
  <2>2. ctl.at = "handle" /\ pressed' = pressed
    BY <1>8 DEF HandleUnbound, LookingUp
  <2> QED
    BY <1>6, <2>1, <2>2
<1>9. CASE HandleMasked \/ HandleZero \/ HandleDigit
  <2>1. ctl.at = "handle" /\ pressed' = pressed /\ ctl'.at = "return" /\ stack' = stack
    BY <1>9 DEF HandleMasked, HandleZero, HandleDigit, LookingUp, Return
  <2> QED
    BY <1>6, <2>1
<1>10. CASE BindingReturn
  <2>1. TopIs("binding") /\ pressed' = pressed /\ current_mode' = current_mode
    BY <1>10 DEF BindingReturn
  <2>2. CASE Top.left > 0
    <3>1. stack' = Append(Below, Countdown(Top)) /\ ctl' = Call(Top.call, Top.key)
      BY <1>10, <2>2 DEF BindingReturn, Replace
    <3>2. /\ Top.left \in 0 .. RepeatRange - 1 /\ Top.node \in Nodes /\ Top.call \in Calls
          /\ Top.key \in Keys /\ Top.counted \in BOOLEAN
          /\ Countdown(Top) = [fn |-> "binding", node |-> Top.node, call |-> Top.call,
                               key |-> Top.key, counted |-> Top.counted, left |-> Top.left - 1]
      BY <1>2, <2>1, FramesRead DEF Countdown
    <3>3. Top.left - 1 \in 0 .. RepeatRange - 1
      BY <2>2, <3>2, RangesAssumption
    <3>4. Countdown(Top) \in Frames
      BY <3>2, <3>3, FramesMade
    <3>5. Countdown(Top).fn = "binding" /\ Countdown(Top).call = Top.call
      BY <3>2
    <3>6. Reader(Countdown(Top)) <=> Reader(Top)
      BY <1>2, <2>1, <3>5 DEF Reader
    <3>7. ReaderFrame(Below, Countdown(Top))
      BY <1>2, <2>1, <3>5 DEF ReaderFrame
    <3>8. ReaderStack(stack') /\ (Inside(stack') <=> Inside(stack))
      BY <1>2, <2>1, <3>1, <3>4, <3>6, <3>7, ReaderAppend
    <3>9. Len(stack') = Len(stack) /\ stack'[Len(stack)] = Countdown(Top) /\ stack' \in Seq(Frames)
      BY <1>1, <1>2, <2>1, <3>1, <3>4, Pushed
    <3>10. ctl'.at = "call" /\ ctl'.call = Top.call
      BY <3>1 DEF Call
    <3>11. CASE Inside(stack) /\ Len(stack) = 1
      <4>1. (Top').call = ctl'.call
        BY <3>5, <3>9, <3>10 DEF Top
      <4>2. LookedUpIn' = LookedUpIn /\ current_mode' = LookedUpIn
        BY <2>1, <3>11 DEF LookedUpIn, ReaderInv
      <4>3. ReaderStack(stack)'
        BY <3>8, <4>2 DEF ReaderStack, ReaderFrame
      <4> QED
        BY <3>9, <3>10, <3>11, <4>1, <4>2, <4>3 DEF ReaderInv
    <3>12. CASE ~(Inside(stack) /\ Len(stack) = 1)
      <4>1. Inside(stack') => ~(Len(stack') <= 2)
        BY <1>1, <1>2, <2>1, <3>8, <3>9, <3>12, ReaderTop
      <4> QED
        BY <1>2, <2>1, <3>8, <3>9, <3>10, <4>1, ReaderCallsOn
    <3> QED
      BY <3>11, <3>12
  <2>3. CASE ~(Top.left > 0)
    BY <1>3, <1>10, <2>1, <2>3 DEF BindingReturn, Pop, Return
  <2> QED
    BY <2>2, <2>3
<1>11. CASE UnboundReturn
  BY <1>3, <1>11 DEF UnboundReturn, Pop, Return, context, history
<1>12. CASE LoadReturn
  BY <1>3, <1>12 DEF LoadReturn, Pop, Returning, context, history
<1>13. CASE ConfReturn
  <2>1. TopIs("conf") /\ stack' = Below /\ ctl'.at = "return" /\ current_mode' = Top.restore
          /\ pressed' = pressed
    BY <1>13 DEF ConfReturn, Pop, Returning, history
  <2>2. ASSUME Inside(Below), Len(Below) <= 2 PROVE current_mode' = LookedUpIn
    <3>1. Inside(stack) /\ Len(stack) > 2
      BY <1>2, <2>1, <2>2, ReaderTop
    <3>2. Len(Below) = 2
      <4>1. Len(Below) = Len(stack) - 1 /\ Len(stack) \in Nat
        BY <1>1, <1>2, <2>1
      <4> QED
        BY <2>2, <3>1, <4>1
    <3> QED
      BY <1>2, <2>1, <2>2, <3>2 DEF ReaderFrame
  <2> QED
    BY <1>2, <2>1, <2>2, ReaderReturns
<1>14. ASSUME NEW s \in Seq(Frames), NEW f \in Frames, stack' = Append(s, f), ReaderStack(s),
              Inside(s) => Len(s) > 2, ~Reader(f), ctl'.at # "handle", pressed' = pressed
       PROVE  ReaderInv'
  <2>1. ReaderFrame(s, f)
    BY <1>14 DEF ReaderFrame
  <2>2. ReaderStack(stack') /\ (Inside(stack') <=> Inside(s))
    BY <1>14, <2>1, ReaderAppend
  <2>3. Len(stack') = Len(s) + 1 /\ Len(s) \in Nat /\ stack' \in Seq(Frames)
    BY <1>14, Pushed
  <2>4. Inside(stack') => ~(Len(stack') <= 2)
    BY <1>14, <2>2, <2>3
  <2>5. Len(stack') > 0
    BY <2>3
  <2> QED
    BY <1>14, <2>2, <2>3, <2>4, <2>5, ReaderCallsOn
<1>15. CASE CallGroup
  <2> DEFINE f == [fn |-> "group", call |-> ctl.call, key |-> ctl.key, pos |-> 1]
  <2>1. ctl.call \in Groups /\ ctl.key \in Keys \cup {NoKey} /\ Program[ctl.call].op = "group"
    BY <1>15, CallWellFormed DEF CallGroup, Groups
  <2>2. f \in Frames
    <3>1. 1 \in Nat \ {0}
      OBVIOUS
    <3> QED
      BY <2>1, <3>1, FramesMade
  <2>3. ~Reader(f)
    BY DEF Reader
  <2>4. stack' = Append(stack, f) /\ ctl'.at = "call" /\ ctl.at = "call" /\ pressed' = pressed
    BY <1>15 DEF CallGroup, Calling, Push, Call, history
  <2> HIDE DEF f
  <2>5. Inside(stack) => Len(stack) > 2
    BY <1>4, <2>1, <2>4
  <2> QED
    BY <1>1, <1>14, <2>2, <2>3, <2>4, <2>5
<1>16. CASE GroupReturn
  <2>1. TopIs("group") /\ pressed' = pressed /\ current_mode' = current_mode
    BY <1>16 DEF GroupReturn, context, history
  <2>2. CASE stack' = Below /\ ctl' = Return(TRUE)
    BY <1>3, <2>1, <2>2 DEF Return
  <2>3. ASSUME NEW j \in NextInGroup(Program[Top.call], Top.pos, ctl.ok),
               stack' = Append(Below, [Top EXCEPT !.pos = j]),
               ctl' = Call(Program[Top.call].calls[j], Top.key)
        PROVE  ReaderInv'
    <3> DEFINE f == [Top EXCEPT !.pos = j]
    <3>1. Top.pos \in Nat \ {0}
      BY <1>2, <2>1, FramesRead
    <3>2. j \in Nat \ {0}
      BY <3>1 DEF NextInGroup
    <3>3. f \in Frames /\ f.fn = "group"
      BY <1>2, <2>1, <3>2 DEF Frames
    <3>4. ~Reader(f)
      BY <3>3 DEF Reader
    <3>5. Inside(Below) => Len(Below) > 2
      BY <1>1, <1>2, <2>1, ReaderTop
    <3>6. ctl'.at = "call"
      BY <2>3 DEF Call
    <3>7. stack' = Append(Below, f)
      BY <2>3
    <3> HIDE DEF f
    <3> QED
      BY <1>2, <1>14, <2>1, <3>3, <3>4, <3>5, <3>6, <3>7
  <2> QED
    BY <1>16, <2>2, <2>3 DEF GroupReturn, Pop, Replace
<1>17. CASE CallRehandle
  <2>1. ctl.at = "call" /\ Program[ctl.call].op = "rehandle" /\ stack' = stack
          /\ pressed' = pressed /\ current_mode' = current_mode
    BY <1>17 DEF CallRehandle, Calling, history
  <2>2. Len(stack) > 0
    BY <2>1 DEF ReaderInv
  <2>3. CASE Inside(stack)
    <3>1. Len(stack) > 2
      BY <1>4, <2>1, <2>3
    <3>2. 3 \in 1 .. Len(stack) /\ stack[3].fn = "conf"
      <4>1. 3 \in 1 .. Len(stack) /\ 2 \in 0 .. Len(stack)
        BY <1>1, <3>1
      <4>2. /\ Len(SubSeq(stack, 1, 2)) = 2
            /\ \A i \in 1 .. 2 : SubSeq(stack, 1, 2)[i] = stack[i]
        BY <1>1, <4>1, PrefixOf
      <4>3. Inside(SubSeq(stack, 1, 2))
        BY <2>3, <4>2 DEF Inside
      <4>4. 3 - 1 = 2
        OBVIOUS
      <4>5. ReaderFrame(SubSeq(stack, 1, 2), stack[3])
        BY <1>1, <4>1, <4>4 DEF ReaderStack
      <4> QED
        BY <4>1, <4>2, <4>3, <4>5 DEF ReaderFrame
    <3>3. ctl.key = NoKey
      BY <2>1, <3>2 DEF KeyInv, Fits
    <3>4. ctl' = Return(TRUE)
      BY <1>17, <3>3 DEF CallRehandle
    <3> QED
      BY <1>1, <2>1, <3>1, <3>4, ReaderReturns DEF Return, ReaderInv
  <2>4. CASE ~Inside(stack)
    <3>1. ctl'.at \in {"return", "handle"}
      BY <1>17 DEF CallRehandle, Return, Handle
    <3>2. LookedUpIn' = LookedUpIn
      BY <2>1 DEF LookedUpIn
    <3>3. ReaderStack(stack)'
      BY <1>1, <2>1, <3>2 DEF ReaderStack, ReaderFrame
    <3> QED
      BY <1>1, <2>1, <2>2, <2>4, <3>1, <3>3 DEF ReaderInv
  <2> QED
    BY <2>3, <2>4
<1>18. CASE CallMask \/ CallPass \/ CallIgnore \/ CallMode \/ CallPreviousMode \/ CallRepeat
            \/ CallOther \/ CallBind \/ CallUnbound
  <2>1. stack' = stack /\ ctl'.at = "return" /\ pressed' = pressed
    BY <1>18 DEF CallMask, CallPass, CallIgnore, CallMode, CallPreviousMode, CallRepeat, CallOther,
       CallBind, CallUnbound, Return, history
  <2>2. ctl.at = "call" /\ Program[ctl.call].op \notin {"load", "evaluate"}
    BY <1>18 DEF CallMask, CallPass, CallIgnore, CallMode, CallPreviousMode, CallRepeat, CallOther,
       CallBind, CallUnbound, Calling
  <2>3. Inside(stack) => ~(Len(stack) <= 2)
    BY <1>1, <1>4, <2>2
  <2> QED
    BY <1>1, <2>1, <2>3, ReaderReturns
<1>19. ASSUME NEW s \in Seq(Frames), NEW todo, stack' = Append(s, ConfFrame(todo)),
              ConfFrame(todo) \in Frames, ctl' = Return(TRUE), ReaderStack(s),
              Inside(s) => (Len(s) = 2 /\ current_mode = LookedUpIn) \/ Len(s) > 2,
              pressed' = pressed
       PROVE  ReaderInv'
  <2>1. ReaderFrame(s, ConfFrame(todo)) /\ ~Reader(ConfFrame(todo))
    BY <1>19 DEF ReaderFrame, ConfFrame, Reader
  <2>2. ReaderStack(stack') /\ (Inside(stack') <=> Inside(s))
    BY <1>19, <2>1, ReaderAppend
  <2>3. Len(stack') = Len(s) + 1 /\ Len(s) \in Nat
    BY <1>19, Pushed
  <2>4. ~(Inside(stack') /\ Len(stack') <= 2)
    BY <1>19, <2>2, <2>3
  <2> QED
    BY <1>19, <2>2, <2>4, ReaderReturns DEF Return
<1>20. CASE ReadOption \/ OptionReturn \/ StartProgram \/ KeyReturn
  <2>1. pressed' = pressed
    BY <1>20 DEF ReadOption, OptionReturn, StartProgram, KeyReturn, history
  <2>2. Len(stack) = 0 /\ ~Inside(stack)
    <3>1. stack = <<>>
      <4>1. CASE ReadOption \/ StartProgram
        <5>1. ctl = AtOptions
          BY <4>1, Zenon DEF ReadOption, StartProgram
        <5> QED
          BY <5>1 DEF KeyInv, AtOptions
      <4>2. CASE OptionReturn \/ KeyReturn
        BY <4>2 DEF OptionReturn, KeyReturn
      <4> QED
        BY <1>20, <4>1, <4>2
    <3> QED
      BY <3>1 DEF Inside
  <2>3. CASE stack' = stack /\ ctl'.at \notin {"handle", "call"}
    BY <1>1, <2>1, <2>2, <2>3, ReaderReturns
  <2>4. ASSUME NEW files, stack' = Append(stack, LoadFrame(files)), LoadFrame(files) \in Frames,
               ctl' = Return(FALSE)
        PROVE  ReaderInv'
    <3>1. ~Reader(LoadFrame(files))
      BY DEF Reader, LoadFrame
    <3> QED
      BY <1>1, <1>14, <2>1, <2>2, <2>4, <3>1 DEF Return
  <2>5. CASE ReadOption
    <3>1. optind \in DOMAIN Options
              /\ Options[optind] \in [opt : {"conf"}, files : Seq(Seq(Calls))] \cup [opt : {"mode"}, mode : Modes]
      BY <2>5, OptionsAssumption DEF ReadOption, TypeOK
    <3>2. CASE UNCHANGED <<ctl, stack>>
      BY <2>3, <2>5, <3>2 DEF ReadOption, AtOptions
    <3>3. CASE ctl' = Return(FALSE) /\ stack' = Append(stack, LoadFrame(Options[optind].files))
               /\ Options[optind].opt = "conf"
      <4>1. LoadFrame(Options[optind].files) \in Frames
        BY <3>1, <3>3, FramesMade
      <4> QED
        BY <2>4, <3>3, <4>1
    <3> QED
      BY <2>5, <3>2, <3>3 DEF ReadOption, Push
  <2>6. CASE OptionReturn \/ StartProgram \/ KeyReturn
    BY <2>3, <2>6 DEF OptionReturn, StartProgram, KeyReturn, AtOptions, AtPoll, Exited
  <2> QED
    BY <1>20, <2>5, <2>6
<1>21. CASE CallLoad
  <2> DEFINE f == LoadFrame(Program[ctl.call].files)
  <2>1. ctl.at = "call" /\ Program[ctl.call].op = "load" /\ stack' = Append(stack, f)
          /\ ctl'.at = "return" /\ pressed' = pressed /\ current_mode' = current_mode
    BY <1>21 DEF CallLoad, Calling, Push, Arg, Return, context, history
  <2>2. f \in Frames /\ f.fn = "load"
    BY <1>21, CallWellFormed, FramesMade DEF CallLoad, WellFormed, LoadFrame
  <2>3. Inside(stack) => Len(stack) = 1 \/ Len(stack) > 2
    <3>1. ASSUME Inside(stack), Len(stack) = 2 PROVE FALSE
      BY <2>1, <3>1, ReaderCall
    <3>2. Inside(stack) => Len(stack) > 0
      BY DEF Inside
    <3> QED
      BY <1>1, <3>1, <3>2
  <2> HIDE DEF f
  <2>4. ReaderFrame(stack, f) /\ ~Reader(f)
    <3>1. ~Reader(f)
      BY <2>2 DEF Reader
    <3>2. Inside(stack) => Len(stack) # 2
      <4>1. \A n \in Nat : n = 1 \/ n > 2 => n # 2
        OBVIOUS
      <4>2. Len(stack) = 1 \/ Len(stack) > 2 => Len(stack) # 2
        BY <1>1, <4>1
      <4> QED
        BY <2>3, <4>2
    <3> QED
      BY <2>2, <3>1, <3>2 DEF ReaderFrame
  <2>5. ReaderStack(stack') /\ (Inside(stack') <=> Inside(stack)) /\ Len(stack') = Len(stack) + 1
    BY <1>1, <2>1, <2>2, <2>4, ReaderAppend, Pushed
  <2>6. Inside(stack') /\ Len(stack') <= 2 => current_mode' = LookedUpIn
    BY <1>1, <2>1, <2>5 DEF ReaderInv
  <2> QED
    BY <2>1, <2>5, <2>6, ReaderReturns
<1>22. CASE LoadNext
  <2>1. TopIs("load") /\ pressed' = pressed
    BY <1>22 DEF LoadNext, history
  <2>2. Top.files \in Seq(Seq(Calls)) /\ Top.files # <<>>
    BY <1>2, <1>22, <2>1, FramesRead DEF LoadNext
  <2>3. Tail(Top.files) \in Seq(Seq(Calls)) /\ Head(Top.files) \in Seq(Calls)
    BY <2>2
  <2> DEFINE f == LoadFrame(Tail(Top.files))
             s == Append(Below, f)
  <2>4. f \in Frames /\ f.fn = "load" /\ ~Reader(f)
    BY <2>3, FramesMade DEF LoadFrame, Reader
  <2>5. ConfFrame(Head(Top.files)) \in Frames
    BY <2>3, FramesMade DEF ConfFrame, TypeOK
  <2>6. stack' = Append(s, ConfFrame(Head(Top.files))) /\ ctl' = Return(TRUE)
    BY <1>22 DEF LoadNext
  <2> HIDE DEF f
  <2>7. ReaderFrame(Below, f)
    BY <1>2, <2>1, <2>4 DEF ReaderFrame
  <2>8. s \in Seq(Frames) /\ ReaderStack(s) /\ (Inside(s) <=> Inside(Below))
          /\ Len(s) = Len(stack)
    <3>1. s \in Seq(Frames) /\ Len(s) = Len(Below) + 1
      BY <1>2, <2>1, <2>4, Pushed
    <3>2. ReaderStack(s) /\ (Inside(s) <=> Inside(Below))
      BY <1>2, <2>1, <2>4, <2>7, ReaderAppend
    <3> QED
      BY <1>1, <1>2, <2>1, <3>1, <3>2
  <2> HIDE DEF s
  <2>9. Inside(s) => (Len(s) = 2 /\ current_mode = LookedUpIn) \/ Len(s) > 2
    <3>1. ASSUME Inside(s) PROVE (Len(s) = 2 /\ current_mode = LookedUpIn) \/ Len(s) > 2
      <4>1. Inside(stack) /\ (Len(stack) = 2 \/ Len(stack) > 3)
        BY <1>2, <2>1, <2>8, <3>1, ReaderTop
      <4> QED
        BY <1>1, <2>8, <4>1 DEF ReaderInv
    <3> QED
      BY <3>1
  <2> QED
    BY <1>19, <2>1, <2>5, <2>6, <2>8, <2>9
<1>23. CASE CallEvaluate
  <2> DEFINE callers == IF Again THEN Below ELSE stack
             asking == [fn |-> "evaluate", call |-> ctl.call, key |-> ctl.key,
                        again |-> Again]
             s == Append(callers, asking)
  <2>1. ctl.call \in Calls /\ ctl.key \in Keys \cup {NoKey}
          /\ Program[ctl.call].lines \subseteq Seq(Calls) /\ Program[ctl.call].op = "evaluate"
    BY <1>23, CallWellFormed DEF CallEvaluate, WellFormed
  <2>2. ctl.at = "call" /\ pressed' = pressed /\ current_mode' = current_mode
    BY <1>23 DEF CallEvaluate, Calling, context, history
  <2>3. asking \in Frames /\ asking.fn = "evaluate" /\ asking.call = ctl.call /\ ~Reader(asking)
    <3>1. Again \in BOOLEAN
      BY <1>1, StackTypes, FramesRead DEF Again, TopIs
    <3> QED
      BY <2>1, <3>1, FramesMade DEF Reader
  <2>4. \/ stack' = callers /\ ctl' = Return(Again)
        \/ \E line \in Program[ctl.call].lines :
             stack' = Append(s, ConfFrame(line)) /\ ctl' = Return(TRUE)
    BY <1>23 DEF CallEvaluate, Arg
  <2>5. Inside(stack) => Len(stack) > 2 \/ current_mode = LookedUpIn
    BY <1>1 DEF ReaderInv
  <2>6. /\ callers \in Seq(Frames) /\ ReaderStack(callers) /\ Len(callers) \in Nat
        /\ Inside(callers) => (current_mode = LookedUpIn /\ Len(callers) = 1) \/ Len(callers) > 2
    <3>1. CASE Again
      <4>1. TopIs("evaluate")
        BY <3>1 DEF Again
      <4>2. Inside(Below) => Inside(stack) /\ (Len(stack) = 2 \/ Len(stack) > 3)
        BY <1>2, <4>1, ReaderTop
      <4>3. callers = Below /\ Len(Below) = Len(stack) - 1
        BY <1>2, <3>1, <4>1
      <4>4. Inside(Below) => (current_mode = LookedUpIn /\ Len(Below) = 1) \/ Len(Below) > 2
        <5>1. stack \in Seq(Frames)
          BY <1>1
        <5>2. Inside(stack) /\ Len(stack) = 2 => current_mode = LookedUpIn
          BY DEF ReaderInv
        <5> QED
          BY <4>2, <4>3, <5>1, <5>2
      <4>5. Below \in Seq(Frames) /\ ReaderStack(Below) /\ Len(Below) \in Nat
        BY <1>2, <4>1
      <4> HIDE DEF callers
      <4> QED
        BY <4>3, <4>4, <4>5
    <3>2. CASE ~Again
      <4>1. Inside(stack) => Len(stack) # 2 /\ Len(stack) > 0
        BY <2>2, <3>2 DEF ReaderInv, Inside
      <4>2. callers = stack
        BY <3>2
      <4>3. Inside(stack) => Len(stack) = 1 \/ Len(stack) > 2
        BY <1>1, <4>1
      <4>4. Inside(stack) /\ Len(stack) = 1 => current_mode = LookedUpIn
        BY DEF ReaderInv
      <4> HIDE DEF callers
      <4> QED
        BY <1>1, <4>2, <4>3, <4>4
    <3> QED
      BY <3>1, <3>2
  <2> HIDE DEF callers, asking
  <2>7. CASE stack' = callers /\ ctl' = Return(Again)
    <3>1. Inside(stack') /\ Len(stack') <= 2 => current_mode' = LookedUpIn
      BY <2>2, <2>6, <2>7
    <3> QED
      BY <2>2, <2>6, <2>7, <3>1, ReaderReturns DEF Return
  <2>8. ReaderFrame(callers, asking)
    <3>1. Inside(callers) => Len(callers) # 2
      <4>1. \A n \in Nat : n = 1 \/ n > 2 => n # 2
        OBVIOUS
      <4>2. Len(callers) = 1 \/ Len(callers) > 2 => Len(callers) # 2
        BY <2>6, <4>1
      <4> QED
        BY <2>6, <4>2
    <3> QED
      BY <2>1, <2>3, <3>1 DEF ReaderFrame
  <2>9. s \in Seq(Frames) /\ ReaderStack(s) /\ (Inside(s) <=> Inside(callers))
          /\ Len(s) = Len(callers) + 1
    BY <2>3, <2>6, <2>8, ReaderAppend, Pushed
  <2> HIDE DEF s
  <2>10. Inside(s) => (Len(s) = 2 /\ current_mode = LookedUpIn) \/ Len(s) > 2
    BY <2>6, <2>9
  <2>11. ASSUME NEW line \in Program[ctl.call].lines,
                stack' = Append(s, ConfFrame(line)), ctl' = Return(TRUE)
         PROVE  ReaderInv'
    <3>1. ConfFrame(line) \in Frames
      BY <2>1, FramesMade DEF ConfFrame, TypeOK
    <3> QED
      BY <1>19, <2>2, <2>9, <2>10, <2>11, <3>1
  <2> QED
    BY <2>4, <2>7, <2>11
<1>24. CASE EvaluateReturn
  <2>1. TopIs("evaluate") /\ pressed' = pressed /\ current_mode' = current_mode
    BY <1>24 DEF EvaluateReturn, context, history
  <2>2. CASE stack' = Below /\ ctl' = Return(TRUE)
    BY <1>3, <2>1, <2>2 DEF Return
  <2>3. CASE stack' = Append(Below, [Top EXCEPT !.again = TRUE]) /\ ctl' = Call(Top.call, Top.key)
    <3> DEFINE f == [Top EXCEPT !.again = TRUE]
    <3>1. f \in Frames /\ f.fn = "evaluate" /\ f.call = Top.call /\ f.again = TRUE
      BY <1>2, <2>1, FramesChanged
    <3>2. ~Reader(f) /\ ~Reader(Top)
      BY <1>2, <2>1, <3>1 DEF Reader
    <3>3. stack' = Append(Below, f) /\ ctl'.at = "call" /\ ctl'.call = f.call
      BY <2>3, <3>1 DEF Call
    <3> HIDE DEF f
    <3>4. ReaderFrame(Below, f)
      BY <1>2, <2>1, <3>1 DEF ReaderFrame
    <3>5. ReaderStack(stack') /\ (Inside(stack') <=> Inside(stack))
      BY <1>2, <2>1, <3>1, <3>2, <3>3, <3>4, ReaderAppend
    <3>6. Len(stack') = Len(stack) /\ stack'[Len(stack)] = f /\ stack' \in Seq(Frames) /\ Len(stack) > 0
      BY <1>1, <1>2, <2>1, <3>1, <3>3, Pushed
    <3>7. Top' = f /\ Again'
      BY <3>1, <3>6 DEF Top, Again, TopIs
    <3>8. LookedUpIn' = LookedUpIn
      BY <2>1 DEF LookedUpIn
    <3>9. ReaderStack(stack)'
      BY <3>5, <3>8 DEF ReaderStack, ReaderFrame
    <3> QED
      BY <2>1, <3>3, <3>5, <3>6, <3>7, <3>8, <3>9 DEF ReaderInv
  <2> QED
    BY <1>24, <2>2, <2>3 DEF EvaluateReturn, Pop, Replace
<1>25. CASE ConfNext
  <2>1. TopIs("conf") /\ pressed' = pressed
    BY <1>25 DEF ConfNext, history
  <2>2. Top.todo \in Seq(Calls) /\ Top.todo # <<>>
    BY <1>2, <1>25, <2>1, FramesRead DEF ConfNext
  <2> DEFINE f == [Top EXCEPT !.todo = Tail(@)]
  <2>3. f \in Frames /\ f.fn = "conf" /\ f.restore = Top.restore
    <3>1. Tail(Top.todo) \in Seq(Calls)
      BY <2>2
    <3> QED
      BY <1>2, <2>1, <3>1, FramesChanged
  <2>4. stack' = Append(Below, f) /\ ctl'.at = "call"
    BY <1>25 DEF ConfNext, ConfCall, Replace, Call
  <2> HIDE DEF f
  <2>5. ReaderFrame(Below, f) /\ ~Reader(f) /\ ~Reader(Top)
    BY <1>2, <2>1, <2>3 DEF ReaderFrame, Reader
  <2>6. ReaderStack(stack') /\ (Inside(stack') <=> Inside(stack))
    BY <1>2, <2>1, <2>3, <2>4, <2>5, ReaderAppend
  <2>7. Len(stack') = Len(stack) /\ stack' \in Seq(Frames) /\ Len(stack) > 0
    BY <1>1, <1>2, <2>1, <2>3, <2>4, Pushed
  <2>8. Inside(stack') => ~(Len(stack') <= 2)
    BY <1>1, <1>2, <2>1, <2>6, <2>7, ReaderTop
  <2> QED
    BY <2>1, <2>4, <2>6, <2>7, <2>8, ReaderCallsOn
<1>26. CASE ConfCrash
  <2>1. stack' = stack /\ ctl'.at = "crashed" /\ pressed' = pressed /\ current_mode' = current_mode
    BY <1>26 DEF ConfCrash, Crashed, context, history
  <2> QED
    BY <1>1, <2>1, ReaderReturns DEF ReaderInv
<1>27. CASE ReadKey
  <2>1. stack' = <<>> /\ ctl'.at = "handle"
    BY <1>27 DEF ReadKey, KeyInv, AtPoll, Handle
  <2>2. current_mode' = (pressed').mode /\ current_binding' = (pressed').chain
    <3>1. PICK k : pressed' = [key |-> k, mode |-> current_mode, chain |-> current_binding,
                               mask |-> mask, repeat |-> repeat]
      BY <1>27 DEF ReadKey
    <3> QED
      BY <1>27, <3>1 DEF ReadKey, context
  <2>3. ReaderStack(<<>>)' /\ ~Inside(<<>>)'
    BY DEF ReaderStack, Inside
  <2> QED
    BY <2>1, <2>2, <2>3 DEF ReaderInv, ReaderStack, Inside
<1>28. CASE UNCHANGED vars
  BY <1>28 DEF vars, context, history, ReaderInv, ReaderStack, ReaderFrame, Inside, Reader,
     LookedUpIn, Again, TopIs, Top
<1>29. CASE CallUnbind
  <2>1. /\ SameFrames(stack, stack') /\ (ctl' = Return(TRUE) \/ ctl' = Fault)
        /\ stack' \in Seq(Frames)
    BY <1>29, UnbindTypes
  <2>2. ctl.at = "call" /\ Program[ctl.call].op = "unbind" /\ pressed' = pressed
    BY <1>29 DEF CallUnbind, Calling, history
  <2>3. ctl'.at \notin {"handle", "call"}
    BY <2>1 DEF Return, Fault
  <2>4. Inside(stack) => ~(Len(stack) <= 2)
    BY <1>1, <1>4, <2>2
  <2>5. Len(stack') = Len(stack) /\ (Inside(stack') <=> Inside(stack)) /\ ReaderStack(stack')
    BY <1>1, <2>1, ReaderSame DEF SameFrames
  <2> QED
    BY <2>2, <2>3, <2>4, <2>5, ReaderReturns
<1>30. CASE HandleFreed \/ BindingReturnFreed
  <2>1. /\ stack' = stack /\ ctl'.at \notin {"handle", "call"} /\ pressed' = pressed
        /\ current_mode' = current_mode
    BY <1>30 DEF HandleFreed, BindingReturnFreed, Fault, context, history
  <2> QED
    BY <1>1, <2>1, ReaderReturns DEF ReaderInv
<1> QED
  BY <1>5, <1>7, <1>8, <1>9, <1>10, <1>11, <1>12, <1>13, <1>15, <1>16, <1>17, <1>18, <1>20, <1>21,
     <1>22, <1>23, <1>24, <1>25, <1>26, <1>27, <1>28, <1>29, <1>30
  DEF Next, Run, Startup, HandleKey, Command

\* Whatever a configuration or a line does, and however it fails, a key bound to load or
\* to readline -! leaves the mode it was looked up in.
THEOREM ConfModeCorrect == Spec => []ConfKeepsMode
<1>1. Init => ReaderInv
  BY DEF Init, ReaderInv, ReaderStack, Inside, AtOptions
<1>2. TypeOK /\ ReaderInv => ConfKeepsMode
  <2>1. SUFFICES ASSUME TypeOK, ReaderInv, Returning, Len(stack) = 1, Top.fn = "binding",
                        Program[Top.call].op \in {"load", "evaluate"}
                 PROVE  current_mode = LookedUpIn
    BY DEF ConfKeepsMode, LookedUpIn
  <2>2. Top = stack[1]
    BY <2>1 DEF Top
  <2>3. Inside(stack)
    BY <2>1, <2>2 DEF Inside, Reader
  <2> QED
    BY <2>1, <2>3 DEF ReaderInv
<1>3. TypeOK /\ TypeOK' /\ KeyInv /\ ReaderInv /\ [Next]_vars => ReaderInv'
  BY ReaderStep
<1> QED
  BY TypeInit, TypeStep, KeyInit, KeyStep, <1>1, <1>2, <1>3, PTL DEF Spec
=============================================================================
