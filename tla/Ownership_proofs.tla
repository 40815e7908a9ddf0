-------------------------- MODULE Ownership_proofs --------------------------
(***************************************************************************)
(* What else Ownership promises, for every configuration: that all is      *)
(* freed at the end, that a fault has a cause, and that the bindings are   *)
(* those that were last asked for.  Each needs an invariant of its own     *)
(* beside SafeInv.                                                         *)
(***************************************************************************)
EXTENDS OwnershipSafe_proofs

-----------------------------------------------------------------------------
(* What is freed at the end. *)

\* A step that leaves the commands, what they are bound to, and what was said of it.
Quiet ==
  /\ UNCHANGED <<heap, nodes, unbound, meant, unbinds>>
  /\ ctl.at \notin {"exited", "fault"} /\ ctl'.at # "exited"
  /\ ctl'.at = "fault" \/ ctl.at \notin {"bind", "store"}

\* The steps, told apart by what they change besides the control point and the stack.
LEMMA StepsAre ==
  ASSUME [Next]_vars, SafeInv
  PROVE  \/ UNCHANGED vars
         \/ Release /\ releases # {}
         \/ releases = {} /\ (\/ Quiet
                              \/ UNCHANGED releases /\ (ReadLine \/ BindStore \/ UnboundStore)
                              \/ CallBind \/ UnboundRelease \/ CallUnbind \/ ContextFree)
<1>1. CASE Stopped \/ UNCHANGED vars
  BY <1>1 DEF Stopped
<1>2. CASE releases # {} /\ Release
  BY <1>2
<1>3. ASSUME LineReturn \/ LinesEnd \/ LineInvalid PROVE Quiet
  <2>0. ctl \in [at: Places, call: 1..Len(heap) \cup {Null}]
    BY DEF SafeInv, ControlInv
  <2>1. CASE LineReturn
    BY <2>1 DEF LineReturn, Returning, At, Quiet
  <2>2. CASE LinesEnd
    BY <2>2 DEF LinesEnd, At, Quiet
  <2>3. CASE LineInvalid
    BY <2>0, <2>3 DEF LineInvalid, Fault, Quiet
  <2> QED BY <1>3, <2>1, <2>2, <2>3
<1>4. ASSUME ReadKey \/ HandleFreed \/ HandleBound \/ HandleUnbound \/ KeyReturn PROVE Quiet
  <2>0. ctl \in [at: Places, call: 1..Len(heap) \cup {Null}]
    BY DEF SafeInv, ControlInv
  <2>1. UNCHANGED <<heap, nodes, unbound, meant, unbinds>> /\ ctl.at \in {"poll", "handle", "return"}
    BY <1>4 DEF ReadKey, HandleFreed, HandleBound, HandleUnbound, KeyReturn, Returning
  <2>2. ctl' = Fault \/ ctl' = At("handle") \/ ctl' = At("return") \/ ctl' = At("poll") \/ \E a: ctl' = Call(a)
    BY <1>4 DEF ReadKey, HandleFreed, HandleBound, HandleUnbound, KeyReturn
  <2>3. ctl'.at # "exited"
    BY <2>0, <2>2 DEF At, Call, Fault
  <2> QED BY <2>1, <2>3 DEF Quiet
<1>5. ASSUME BindingRepeat \/ BindingReturn \/ UnboundReturn PROVE Quiet
  <2>1. ctl \in [at: Places, call: 1..Len(heap) \cup {Null}]
    BY DEF SafeInv, ControlInv
  <2> QED BY <1>5, <2>1 DEF BindingRepeat, BindingReturn, UnboundReturn, Returning, At, Call, Fault, Quiet
<1>6. ASSUME CallFreed \/ StoreFreed PROVE Quiet
  <2>1. ctl \in [at: Places, call: 1..Len(heap) \cup {Null}]
    BY DEF SafeInv, ControlInv
  <2> QED BY <1>6, <2>1 DEF CallFreed, StoreFreed, Fault, Quiet
<1>7. ASSUME CallOther \/ CallRehandle \/ CallEvaluate \/ CallGroup \/ CallUnbound PROVE Quiet
  <2>1. ctl \in [at: Places, call: 1..Len(heap) \cup {Null}]
    BY DEF SafeInv, ControlInv
  <2> QED BY <1>7, <2>1 DEF CallOther, CallRehandle, CallEvaluate, CallGroup, CallUnbound, Calling, At, Call, Quiet
<1>8. ASSUME GroupReturn PROVE Quiet
  <2>1. ctl \in [at: Places, call: 1..Len(heap) \cup {Null}]
    BY DEF SafeInv, ControlInv
  <2>2. /\ UNCHANGED <<heap, nodes, unbound, meant, unbinds>> /\ ctl.at = "return"
        /\ \/ ctl' = Fault
           \/ \E a: ctl' = Call(a)
           \/ ctl' = ctl
    BY <1>8 DEF GroupReturn, Returning
  <2> QED BY <2>1, <2>2 DEF Call, Fault, Quiet
<1>9. CASE releases = {} /\ Step /\ UNCHANGED releases
  BY <1>3, <1>4, <1>5, <1>6, <1>7, <1>8, <1>9 DEF Step
<1>10. CASE releases = {} /\ StepReleasing
  BY <1>3, <1>10 DEF StepReleasing
<1> QED BY <1>1, <1>2, <1>9, <1>10 DEF Next

\* The nodes that the keys of some command lead to.
Leading(N, n) ==
  n = Root \/ \E t \in Texts: \E i \in 0..Len(Program[t].keys): WayOf(N, Program[t].keys)[i] = n
AllReached(N) == \A n \in 1..Len(N): N[n] # Freed => Leading(N, n)

\* What a command of the configuration says of keys.
LEMMA KeysOf ==
  ASSUME NEW t \in Texts
  PROVE  Program[t].keys \in Seq(Keys) /\ WellFormed(Program[t])
<1>1. WellFormed(Program[t])
  BY TextsAssumption
<1> QED BY <1>1, WellFormedIs

\* bind makes no node that its keys do not lead to, and unbind, when it loses nothing,
\* leaves none.
LEMMA BindReached ==
  ASSUME NEW N, TreeOK(N), AllReached(N), NEW t \in Texts, Program[t].keys # <<>>
  PROVE  AllReached(BindOf(N, Program[t].keys))
<1> DEFINE keys == Program[t].keys
<1> DEFINE M == BindOf(N, keys)
<1> DEFINE d == DepthOf(N, keys)
<1>1. keys \in Seq(Keys)
  BY KeysOf
<1>2. Grown(N, keys, M, d, WayOf(N, keys)[d])
  BY <1>1, BindIs
<1>3. Len(N) \in Nat /\ DOMAIN N = 1..Len(N) /\ Len(keys) \in Nat
  BY <1>1 DEF TreeOK, LinksOK
<1>4. Len(M) = Len(N) + (Len(keys) - d) /\ d \in 0..Len(keys)
      /\ \A n \in 1..Len(N): M[n] # Freed => N[n] # Freed
  BY <1>2 DEF Grown
<1>5. \A i \in 1..Len(keys) - d: WayOf(M, keys)[d + i] = Len(N) + i
  BY <1>1, BindEnds
<1>6. ASSUME NEW n \in 1..Len(M), M[n] # Freed PROVE Leading(M, n)
  <2>1. CASE n \in 1..Len(N)
    <3>1. Leading(N, n)
      BY <1>4, <1>6, <2>1 DEF AllReached
    <3>2. CASE n = Root
      BY <3>2 DEF Leading
    <3>3. ASSUME NEW x \in Texts, NEW i \in 0..Len(Program[x].keys), WayOf(N, Program[x].keys)[i] = n
          PROVE  Leading(M, n)
      <4>1. Program[x].keys \in Seq(Keys)
        BY KeysOf
      <4>2. n # Null
        BY <2>1, <1>3, NoAddressAssumption
      <4>3. WayOf(M, Program[x].keys)[i] = n
        BY <1>1, <3>3, <4>1, <4>2, BindWays
      <4> QED BY <4>3 DEF Leading
    <3> QED BY <3>1, <3>2, <3>3 DEF Leading
  <2>2. CASE n \notin 1..Len(N)
    <3> DEFINE i == n - Len(N)
    <3> DEFINE l == Len(keys)
    <3>1. i \in 1..Len(keys) - d /\ Len(N) + i = n /\ d + i \in 0..l
      <4> DEFINE m == Len(M)
      <4> DEFINE e == Len(N)
      <4>1. /\ n \in 1..m /\ n \notin 1..e /\ m = e + (l - d) /\ d \in 0..l /\ l \in Nat /\ e \in Nat
            /\ i = n - e
        BY <1>3, <1>4, <1>6, <2>2
      <4> HIDE DEF m, e, l, i
      <4>2. i \in 1..l - d /\ e + i = n /\ d + i \in 0..l
        BY <4>1
      <4> QED BY <4>2 DEF e, l
    <3> HIDE DEF i
    <3>2. WayOf(M, keys)[d + i] = n
      BY <1>5, <3>1
    <3> QED BY <3>1, <3>2 DEF Leading
  <2> QED BY <2>1, <2>2
<1> HIDE DEF M
<1>7. AllReached(M)
  BY <1>6 DEF AllReached
<1> QED BY <1>7 DEF M

\* After unbind every node is still found, unless it has lost one.
LEMMA UnbindReached ==
  ASSUME NEW N, TreeOK(N), AllReached(N), NEW keys \in Seq(Keys), keys # <<>>, FoundOf(N, keys) # Null,
         NEW frees \in BOOLEAN, LostIn(N, keys) = {}
  PROVE  AllReached(UnbindOf(N, keys, frees))
<1> DEFINE M == UnbindOf(N, keys, frees)
<1> DEFINE gone == GoneOf(N, keys)
<1>1. Pruned(N, keys, frees, M, gone)
  BY UnbindIs
<1>2. Len(M) = Len(N) /\ \A n \in 1..Len(N): M[n] # Freed => N[n] # Freed /\ n \notin gone
  BY <1>1 DEF Pruned
<1> HIDE DEF gone
<1>3. ASSUME NEW n \in 1..Len(M), M[n] # Freed PROVE Leading(M, n)
  <2>1. Leading(N, n) /\ n \notin gone
    BY <1>2, <1>3 DEF AllReached
  <2>2. CASE n = Root
    BY <2>2 DEF Leading
  <2>3. ASSUME NEW x \in Texts, NEW i \in 0..Len(Program[x].keys), WayOf(N, Program[x].keys)[i] = n
        PROVE  Leading(M, n)
    <3>1. Program[x].keys \in Seq(Keys)
      BY KeysOf
    <3>2. WayOf(M, Program[x].keys)[i] = n
      BY <2>1, <2>3, <3>1, UnbindWays DEF gone
    <3> QED BY <3>2 DEF Leading
  <2> QED BY <2>1, <2>2, <2>3 DEF Leading
<1> HIDE DEF M
<1>4. AllReached(M)
  BY <1>3 DEF AllReached
<1> QED BY <1>4 DEF M

\* With other commands in the nodes every node is still found.
LEMMA StoredReached ==
  ASSUME NEW N, TreeOK(N), AllReached(N), NEW M, SameTree(N, M)
  PROVE  AllReached(M)
<1>1. Len(M) = Len(N) /\ \A n \in 1..Len(N): M[n] # Freed => N[n] # Freed
  BY DEF SameTree
<1>2. ASSUME NEW n \in 1..Len(M), M[n] # Freed PROVE Leading(M, n)
  <2>1. Leading(N, n)
    BY <1>1, <1>2 DEF AllReached
  <2>2. CASE n = Root
    BY <2>2 DEF Leading
  <2>3. ASSUME NEW x \in Texts, NEW i \in 0..Len(Program[x].keys), WayOf(N, Program[x].keys)[i] = n
        PROVE  Leading(M, n)
    <3>1. Program[x].keys \in Seq(Keys)
      BY KeysOf
    <3>2. WayOf(M, Program[x].keys)[i] = n
      BY <2>3, <3>1, StoredWays
    <3> QED BY <3>2 DEF Leading
  <2> QED BY <2>1, <2>2, <2>3 DEF Leading
<1> QED BY <1>2 DEF AllReached

\* A command that is stored in a node leaves the tree what it is.
LEMMA CommandStored ==
  ASSUME NEW N, N \in Seq(Nodes \cup {Freed}), NEW n \in DOMAIN N, N[n] # Freed, N[n].command = Null,
         NEW a \in Nat
  PROVE  SameTree(N, [N EXCEPT ![n].command = a])
<1> DEFINE o == [N[n] EXCEPT !.command = a]
<1> DEFINE M == [N EXCEPT ![n] = o]
<1>0. o \in Nodes /\ o.bindings = N[n].bindings
  BY NodeIs DEF Nodes
<1>2. DOMAIN N = 1..Len(N) /\ o # Freed
  BY <1>0, NoAddressAssumption
<1> HIDE DEF o
<1>1. /\ M \in Seq(Nodes \cup {Freed}) /\ Len(M) = Len(N) /\ M[n] = o
      /\ \A m \in DOMAIN N: m # n => M[m] = N[m]
  BY <1>0
<1>4. M[n] # Freed /\ M[n].bindings = N[n].bindings
  BY <1>0, <1>1, <1>2
<1> HIDE DEF M
<1>3. SameTree(N, M)
  BY <1>1, <1>2, <1>4 DEF SameTree
<1> QED BY <1>3 DEF M, o

\* Every node is found at the end, as long as unbind has not gone wrong, and then all
\* of them are freed.
ReachInv ==
  /\ ctl.at \notin {"fault", "exited"} /\ unbinds = {} => AllReached(nodes)
  /\ ctl.at = "exited" => /\ \A t \in Types: unbound[t] = Null
                          /\ unbinds = {} => \A n \in 1..Len(nodes): nodes[n] = Freed

\* At the start there is the root only, which is found.
LEMMA ReachInit ==
  ASSUME Init
  PROVE  ReachInv
<1>1. nodes = <<NewNode>> /\ ctl.at = "lines"
  BY DEF Init, At
<1>2. \A n \in 1..Len(nodes): n = Root
  BY <1>1 DEF Root
<1> QED BY <1>1, <1>2 DEF ReachInv, AllReached, Leading

\* What bind does to the nodes before its argument is stored.
LEMMA CallBindIs ==
  ASSUME SafeInv, CallBind
  PROVE  /\ ctl.at = "call" /\ ctl.call \in 1..Len(heap) /\ heap[ctl.call] # Freed /\ heap[ctl.call].text \in Texts
         /\ Command = Program[heap[ctl.call].text] /\ Command.keys \in Seq(Keys) /\ Command.keys # <<>>
         /\ nodes' = BindOf(nodes, Command.keys) /\ TreeOK(nodes)
         /\ ctl'.at = "bind" /\ ctl'.call = ctl.call
<1>1. Calling("bind") /\ nodes' = BindOf(nodes, Command.keys) /\ ctl' = [ctl EXCEPT !.at = "bind"]
  BY BindDef DEF CallBind
<1>2. /\ ctl.at = "call" /\ ctl.call \in 1..Len(heap) /\ heap[ctl.call] # Freed /\ heap[ctl.call].text \in Texts
      /\ Command = Program[heap[ctl.call].text] /\ Command.op = "bind" /\ WellFormed(Command)
  BY <1>1, CalledIs
<1>3. Command.keys \in Seq(Keys) /\ Command.keys # <<>>
  BY <1>2, WellFormedIs
<1>4. ctl.at \notin {"fault", "exited"}
  BY <1>2
<1>5. TreeOK(nodes) /\ ctl \in [at: Places, call: 1..Len(heap) \cup {Null}]
  BY <1>4, RunningIs
<1> QED BY <1>1, <1>2, <1>3, <1>5

\* What unbind does to them.
LEMMA CallUnbindIs ==
  ASSUME SafeInv, CallUnbind
  PROVE  /\ ctl.at = "call" /\ heap' = heap /\ unbinds \subseteq unbinds' /\ heap[ctl.call].text \in Texts
         /\ Command = Program[heap[ctl.call].text] /\ Command.keys \in Seq(Keys) /\ Command.keys # <<>> /\ TreeOK(nodes)
         /\ \/ /\ \E seen, frees: Unbound(nodes, nodes', releases', Command.keys, seen, frees, unbinds, unbinds')
               /\ meant' = [meant EXCEPT !.keys[Command.keys] = Null] /\ ctl'.at = "return"
            \/ /\ nodes' = nodes /\ (unbinds' = {} => FoundOf(nodes, Command.keys) = Null)
               /\ meant' = [meant EXCEPT !.keys[Command.keys] = Null] /\ ctl'.at = "return"
            \/ nodes' = nodes /\ ctl'.at = "fault" /\ "size" \in unbinds'
<1>1. Calling("unbind") /\ heap' = heap /\ unbinds \subseteq unbinds'
  BY DEF CallUnbind, UnbindFinds, UnbindFindsNothing
<1>2. /\ ctl.at = "call" /\ heap[ctl.call].text \in Texts
      /\ Command = Program[heap[ctl.call].text] /\ Command.op = "unbind" /\ WellFormed(Command)
  BY <1>1, CalledIs
<1>3. Command.keys \in Seq(Keys) /\ Command.keys # <<>>
  BY <1>2, WellFormedIs
<1>4. ctl.at \notin {"fault", "exited"}
  BY <1>2
<1>5. TreeOK(nodes) /\ ctl \in [at: Places, call: 1..Len(heap) \cup {Null}]
  BY <1>4, RunningIs
<1>6. At("return").at = "return" /\ Fault.at = "fault"
  BY <1>5 DEF At, Fault
<1>7. CASE UnbindFinds /\ meant' = [meant EXCEPT !.keys[Command.keys] = Null]
  <2>1. \E seen, frees: Unbound(nodes, nodes', releases', Command.keys, seen, frees, unbinds, unbinds')
    BY <1>3, <1>5, <1>7, UnbindFindsIs
  <2>2. ctl' = At("return")
    BY <1>7 DEF UnbindFinds
  <2> QED BY <1>1, <1>2, <1>3, <1>5, <1>6, <1>7, <2>1, <2>2
<1>8. CASE UnbindFindsNothing /\ meant' = [meant EXCEPT !.keys[Command.keys] = Null]
  <2>1. nodes' = nodes /\ ctl' = At("return") /\ (unbinds' = {} => FoundOf(nodes, Command.keys) = Null)
    BY <1>8, FoundDef DEF UnbindFindsNothing
  <2> QED BY <1>1, <1>2, <1>3, <1>5, <1>6, <1>8, <2>1
<1>9. CASE ctl' = Fault /\ unbinds' = unbinds \cup {"size"} /\ nodes' = nodes
  BY <1>1, <1>2, <1>3, <1>5, <1>6, <1>9
<1> QED BY <1>7, <1>8, <1>9 DEF CallUnbind

\* Every step keeps every node within reach, and the end frees all of them.
LEMMA ReachStep ==
  ASSUME SafeInv, ReachInv, [Next]_vars
  PROVE  ReachInv'
<1>0. ctl \in [at: Places, call: 1..Len(heap) \cup {Null}]
  BY DEF SafeInv, ControlInv
<1>1. CASE UNCHANGED vars
  BY <1>1 DEF vars, ReachInv
<1>2. CASE Release /\ releases # {}
  <2>1. UNCHANGED <<nodes, unbound, unbinds>> /\ ctl.at # "fault" /\ (ctl' = ctl \/ ctl' = Fault)
    BY <1>2, ReleaseIs
  <2> QED BY <1>0, <2>1 DEF ReachInv, Fault
<1>3. CASE Quiet
  BY <1>3 DEF Quiet, ReachInv
<1>4. CASE ReadLine
  <2>1. UNCHANGED <<nodes, unbinds>> /\ ctl.at = "lines" /\ ctl'.at = "call"
    BY <1>4 DEF ReadLine, Call
  <2> QED BY <2>1 DEF ReachInv
<1>5. CASE BindStore
  <2>1. ctl.at = "bind" /\ ctl'.at = "return" /\ unbinds' = unbinds
    BY <1>5 DEF BindStore, At
  <2>2. TreeOK(nodes)
    BY <2>1, RunningIs
  <2>3. nodes \in Seq(Nodes \cup {Freed}) /\ DOMAIN nodes = 1..Len(nodes)
    BY HeldIs DEF SafeInv
  <2> DEFINE n == FoundOf(nodes, Command.keys)
  <2> DEFINE M == [nodes EXCEPT ![n].command = Argument]
  <2>4. n \in DOMAIN nodes /\ nodes[n] # Freed /\ nodes[n].command = Null /\ Argument \in Nat
    BY <1>5, BindStoreIs
  <2>7. nodes' = M
    BY <1>5, BindStoreIs
  <2> HIDE DEF n
  <2>5. SameTree(nodes, M)
    BY <2>3, <2>4, CommandStored
  <2> HIDE DEF M
  <2>6. AllReached(nodes) => AllReached(M)
    BY <2>2, <2>5, StoredReached
  <2> QED BY <2>1, <2>6, <2>7 DEF ReachInv
<1>6. CASE UnboundStore
  <2>1. UNCHANGED <<nodes, unbinds>> /\ ctl.at = "store" /\ (ctl' = At("return") \/ ctl' = [ctl EXCEPT !.at = "types"])
    BY <1>6 DEF UnboundStore
  <2>2. ctl'.at \in {"return", "types"}
    BY <1>0, <2>1 DEF At
  <2> QED BY <2>1, <2>2 DEF ReachInv
<1>7. CASE CallBind
  <2>1. /\ ctl.at = "call" /\ heap[ctl.call].text \in Texts /\ Command = Program[heap[ctl.call].text]
        /\ Command.keys # <<>> /\ nodes' = BindOf(nodes, Command.keys) /\ TreeOK(nodes) /\ ctl'.at = "bind"
    BY <1>7, CallBindIs
  <2>2. unbinds' = unbinds
    BY <1>7 DEF CallBind
  <2>3. AllReached(nodes) => AllReached(BindOf(nodes, Command.keys))
    BY <2>1, BindReached
  <2> QED BY <2>1, <2>2, <2>3 DEF ReachInv
<1>8. CASE UnboundRelease
  <2>1. UNCHANGED <<nodes, unbinds>> /\ ctl.at = "types" /\ ctl' = [ctl EXCEPT !.at = "store"]
    BY <1>8 DEF UnboundRelease
  <2>2. ctl'.at = "store"
    BY <1>0, <2>1
  <2> QED BY <2>1, <2>2 DEF ReachInv
<1>9. CASE CallUnbind
  <2>1. /\ ctl.at = "call" /\ unbinds \subseteq unbinds' /\ TreeOK(nodes)
        /\ \/ /\ \E seen, frees: Unbound(nodes, nodes', releases', Command.keys, seen, frees, unbinds, unbinds')
              /\ ctl'.at = "return"
           \/ nodes' = nodes /\ ctl'.at = "return"
           \/ nodes' = nodes /\ ctl'.at = "fault"
    BY <1>9, CallUnbindIs
  <2>2. CASE nodes' = nodes
    BY <2>1, <2>2 DEF ReachInv
  <2>3. ASSUME NEW seen, NEW frees, Unbound(nodes, nodes', releases', Command.keys, seen, frees, unbinds, unbinds'),
               ctl'.at = "return"
        PROVE  ReachInv'
    <3> DEFINE M == nodes'
    <3>1. /\ seen \in Seq(Keys) /\ seen # <<>> /\ frees \in BOOLEAN /\ FoundOf(nodes, seen) # Null
          /\ M = UnbindOf(nodes, seen, frees) /\ (unbinds' = {} => LostIn(nodes, seen) = {})
      BY <2>3 DEF Unbound
    <3> HIDE DEF M
    <3>2. AllReached(nodes) /\ unbinds' = {} => AllReached(M)
      BY <2>1, <3>1, UnbindReached
    <3>3. unbinds' = {} => unbinds = {}
      BY <2>1
    <3> QED BY <2>1, <2>3, <3>2, <3>3 DEF ReachInv, M
  <2> QED BY <2>1, <2>2, <2>3
<1>10. CASE ContextFree
  <2>1. /\ ctl.at = "poll" /\ nodes' = [n \in DOMAIN nodes |-> IF n \in Reachable THEN Freed ELSE nodes[n]]
        /\ unbound' = [t \in Types |-> Null] /\ ctl' = At("exited") /\ unbinds' = unbinds
    BY <1>10 DEF ContextFree
  <2>2. ctl'.at = "exited" /\ DOMAIN nodes = 1..Len(nodes) /\ Len(nodes) \in Nat
    BY <2>1, HeldIs DEF At, SafeInv
  <2>3. DOMAIN nodes' = 1..Len(nodes) /\ Len(nodes') = Len(nodes)
    <3> DEFINE m == Len(nodes)
    <3> DEFINE f == [n \in 1..m |-> IF n \in Reachable THEN Freed ELSE nodes[n]]
    <3>1. m \in Nat /\ nodes' = f
      BY <2>1, <2>2
    <3> HIDE DEF m
    <3>2. Len(f) = m /\ DOMAIN f = 1..m
      BY <3>1
    <3> QED BY <3>1, <3>2 DEF m
  <2>4. ASSUME unbinds = {}, NEW n \in 1..Len(nodes) PROVE nodes'[n] = Freed
    <3>1. nodes[n] # Freed => Leading(nodes, n)
      BY <2>1, <2>4 DEF ReachInv, AllReached
    <3>2. Leading(nodes, n) => n \in Reachable
      BY <2>2, WayDef DEF Leading, Reachable
    <3> QED BY <2>1, <2>2, <3>1, <3>2
  <2>5. \A t \in Types: unbound'[t] = Null
    BY <2>1
  <2> QED BY <2>1, <2>2, <2>3, <2>4, <2>5 DEF ReachInv
<1> QED BY <1>1, <1>2, <1>3, <1>4, <1>5, <1>6, <1>7, <1>8, <1>9, <1>10, StepsAre

\* Every node is found by some keys of the configuration as long as unbind has not gone
\* wrong, so that context_free() finds all of them.
THEOREM ReachAlways == Spec => []ReachInv
<1>1. Init => ReachInv
  BY ReachInit
<1>2. SafeInv /\ ReachInv /\ [Next]_vars => ReachInv'
  BY ReachStep
<1> QED BY <1>1, <1>2, SafeAlways, PTL DEF Spec

\* A live command that is not lost, with the least address, would have a pointer, and
\* that could only be of a live command before it; what is lost has no pointers.
LEMMA ReachFreed ==
  ASSUME SafeInv, ReachInv
  PROVE  AllIsFreed
<1> SUFFICES ASSUME ctl.at = "exited", releases = {}, unbinds = {}
             PROVE  /\ \A a \in Addresses: heap[a] # Freed => IsLost(heap[a].text)
                    /\ \A n \in DOMAIN nodes: nodes[n] = Freed
  BY DEF AllIsFreed, Live
<1>1. /\ Len(heap) \in Nat /\ heap \in Seq(Objects \cup {Freed}) /\ HeapOK(heap) /\ DOMAIN nodes = 1..Len(nodes)
  BY HeldIs DEF SafeInv, DataInv
<1>2. \A n \in DOMAIN nodes: nodes[n] = Freed
  BY <1>1 DEF ReachInv
<1>3. \A t \in Types: unbound[t] = Null
  BY DEF ReachInv
<1>4. stack = <<>>
  BY DEF SafeInv, ControlInv, PlaceOK
<1>5. NP(nodes) = {} /\ TP(unbound) = {} /\ FP(stack) = {}
  <2>1. NP(nodes) = {}
    BY <1>2 DEF NP, NPOf
  <2>2. TP(unbound) = {}
    BY <1>3 DEF TP, TPOf
  <2>3. FP(stack) = {}
    BY <1>4 DEF FP
  <2> QED BY <2>1, <2>2, <2>3
<1>6. Exact(heap, KP(heap))
  <2>1. Exact(heap, Held(nodes, unbound, heap, stack) \cup releases)
    BY DEF SafeInv, DataInv, Pointed
  <2>2. Held(nodes, unbound, heap, stack) \cup releases = KP(heap)
    BY <1>5 DEF Held
  <2> QED BY <2>1, <2>2
<1> DEFINE T == {a \in 1..Len(heap): heap[a] # Freed /\ ~IsLost(heap[a].text)}
<1>7. ASSUME T # {} PROVE FALSE
  <2>1. T \subseteq Nat
    BY <1>1
  <2> HIDE DEF T
  <2>2. PICK a \in T: \A b \in T: a <= b
    BY <1>7, <2>1, LeastNat
  <2>3. a \in 1..Len(heap) /\ heap[a] # Freed /\ ~IsLost(heap[a].text)
    BY DEF T
  <2>4. PICK p \in KP(heap): p.call = a
    BY <1>6, <2>3 DEF Exact
  <2>5. PICK b \in {c \in 1..Len(heap): heap[c] # Freed}: p \in KPOf(heap, b)
    BY <2>4 DEF KP
  <2>6. PICK i \in DOMAIN heap[b].kids: p = KPtr(heap, b, i)
    BY <2>5 DEF KPOf
  <2>7. heap[b].kids[i] = a
    BY <2>4, <2>6, KPtrIs
  <2>8. i \in 1..Len(heap[b].kids) /\ KidsOK(heap, b) /\ WellFormed(Program[heap[b].text])
    BY <1>1, <2>5, <2>6, ObjectIs DEF HeapOK
  <2>9. a \in b + 1..Len(heap)
    BY <2>7, <2>8 DEF KidsOK
  <2>10. b \in T
    <3>1. Program[heap[b].text].subs # <<>>
      BY <2>8 DEF KidsOK
    <3>2. ~IsLost(heap[b].text)
      BY <2>8, <3>1 DEF WellFormed, IsLost
    <3> QED BY <2>5, <3>2 DEF T
  <2>11. a <= b /\ b \in Nat /\ a \in Nat
    BY <1>1, <2>2, <2>3, <2>5, <2>10
  <2> QED BY <2>9, <2>11
<1> QED BY <1>2, <1>7 DEF Addresses

\* At the end only the command_call_t of commands that are alone in their group are left,
\* unless unbind has gone wrong: every other command that was read has been freed, for
\* every configuration, however it was bound, replaced and executed.
THEOREM FreedCorrect == Spec => []AllIsFreed
<1>1. SafeInv /\ ReachInv => AllIsFreed
  BY ReachFreed
<1> QED BY <1>1, SafeAlways, ReachAlways, PTL

-----------------------------------------------------------------------------
(* At the start nothing that is executed is freed. *)

\* The command at a is in a group that is being executed, or is the line, in the frames
\* of s from i on.
OwnedIn(H, s, a, i) ==
  \E j \in i..Len(s):
    \/ s[j].fn = "conf" /\ s[j].call = a
    \/ /\ s[j].fn = "group" /\ H[s[j].call] # Freed
       /\ \E h \in 1..Len(H[s[j].call].kids): H[s[j].call].kids[h] = a
FramesOwned(H, s) == \A i \in 1..Len(s): s[i].call # Null => OwnedIn(H, s, s[i].call, i)
\* The lines at the start are read, and unbind has not gone wrong.
Starting(s, W) == s # <<>> /\ s[Len(s)].fn = "lines" /\ W = {}
StartOK(H, s, c, W) ==
  Starting(s, W) => FramesOwned(H, s) /\ (Executing(c) => OwnedIn(H, s, c.call, 1))
StartInv == StartOK(heap, stack, ctl, unbinds)

\* The groups that are being executed are what they were.
GroupsKept(H, G, s) ==
  \A j \in 1..Len(s): s[j].fn = "group" /\ H[s[j].call] # Freed =>
    G[s[j].call] # Freed /\ G[s[j].call].kids = H[s[j].call].kids

\* What is owned stays so, if the groups are what they were.
LEMMA OwnedKept ==
  ASSUME NEW H, NEW G, NEW s, GroupsKept(H, G, s), Len(s) \in Nat, NEW a, NEW i \in 1..Len(s), OwnedIn(H, s, a, i)
  PROVE  OwnedIn(G, s, a, i)
<1>1. PICK j \in i..Len(s):
        \/ s[j].fn = "conf" /\ s[j].call = a
        \/ /\ s[j].fn = "group" /\ H[s[j].call] # Freed
           /\ \E h \in 1..Len(H[s[j].call].kids): H[s[j].call].kids[h] = a
  BY DEF OwnedIn
<1>2. j \in 1..Len(s)
  OBVIOUS
<1>3. s[j].fn = "group" /\ H[s[j].call] # Freed =>
        G[s[j].call] # Freed /\ G[s[j].call].kids = H[s[j].call].kids
  BY <1>2 DEF GroupsKept
<1> QED BY <1>1, <1>3 DEF OwnedIn

\* The frames stay owned, if the groups are what they were.
LEMMA FramesKept ==
  ASSUME NEW H, NEW G, NEW s, GroupsKept(H, G, s), Len(s) \in Nat, FramesOwned(H, s)
  PROVE  FramesOwned(G, s)
<1>1. ASSUME NEW i \in 1..Len(s), s[i].call # Null PROVE OwnedIn(G, s, s[i].call, i)
  <2>1. OwnedIn(H, s, s[i].call, i)
    BY <1>1 DEF FramesOwned
  <2> QED BY <2>1, OwnedKept
<1> QED BY <1>1 DEF FramesOwned

\* A frame more.
LEMMA OwnedPushed ==
  ASSUME NEW S, NEW s \in Seq(S), NEW f \in S, NEW H, NEW a, NEW i \in 1..Len(s) + 1, NEW k \in 1..i + 1,
         OwnedIn(H, s, a, i)
  PROVE  OwnedIn(H, <<f>> \o s, a, k)
<1> DEFINE t == <<f>> \o s
<1>1. Len(t) = Len(s) + 1 /\ Len(s) \in Nat /\ \A j \in 1..Len(s): t[j + 1] = s[j]
  BY Pushed
<1> HIDE DEF t
<1>2. PICK j \in i..Len(s):
        \/ s[j].fn = "conf" /\ s[j].call = a
        \/ /\ s[j].fn = "group" /\ H[s[j].call] # Freed
           /\ \E h \in 1..Len(H[s[j].call].kids): H[s[j].call].kids[h] = a
  BY DEF OwnedIn
<1>3. j \in 1..Len(s) /\ j + 1 \in k..Len(t)
  BY <1>1
<1>4. t[j + 1] = s[j]
  BY <1>1, <1>3
<1>5. OwnedIn(H, t, a, k)
  BY <1>2, <1>3, <1>4 DEF OwnedIn
<1> QED BY <1>5 DEF t

\* A frame of what is owned, or that reads a line, is put on top.
LEMMA FramesPushed ==
  ASSUME NEW S, NEW s \in Seq(S), NEW f \in S, NEW H, FramesOwned(H, s),
         f.fn = "conf" \/ f.call = Null \/ OwnedIn(H, s, f.call, 1)
  PROVE  FramesOwned(H, <<f>> \o s)
<1> DEFINE t == <<f>> \o s
<1>1. Len(t) = Len(s) + 1 /\ Len(s) \in Nat /\ t[1] = f /\ \A j \in 2..Len(t): t[j] = s[j - 1]
  BY Pushed
<1> HIDE DEF t
<1>2. ASSUME NEW i \in 1..Len(t), t[i].call # Null PROVE OwnedIn(H, t, t[i].call, i)
  <2>1. CASE i = 1 /\ f.fn = "conf"
    <3>1. 1 \in i..Len(t)
      BY <1>1, <2>1
    <3> QED BY <1>1, <2>1, <3>1 DEF OwnedIn
  <2>2. CASE i = 1 /\ f.fn # "conf"
    <3>1. OwnedIn(H, s, f.call, 1)
      BY <1>1, <1>2, <2>2
    <3>2. 1 \in 1..Len(s) + 1 /\ 1 \in 1..1 + 1
      BY <1>1
    <3>3. OwnedIn(H, t, f.call, 1)
      BY <3>1, <3>2, OwnedPushed DEF t
    <3> QED BY <1>1, <2>2, <3>3
  <2>3. CASE i # 1
    <3> DEFINE j == i - 1
    <3>1. i \in 2..Len(t) /\ j \in 1..Len(s) /\ j \in 1..Len(s) + 1 /\ i \in 1..j + 1
      BY <1>1, <2>3
    <3>2. t[i] = s[j]
      BY <1>1, <3>1
    <3> HIDE DEF j
    <3>3. OwnedIn(H, s, s[j].call, j)
      BY <1>2, <3>1, <3>2 DEF FramesOwned
    <3>4. OwnedIn(H, t, s[j].call, i)
      BY <3>1, <3>3, OwnedPushed DEF t
    <3> QED BY <3>2, <3>4
  <2> QED BY <2>1, <2>2, <2>3
<1>3. FramesOwned(H, t)
  BY <1>2 DEF FramesOwned
<1> QED BY <1>3 DEF t

\* A frame less.
LEMMA FramesPopped ==
  ASSUME NEW S, NEW s \in Seq(S), s # <<>>, NEW H, FramesOwned(H, s)
  PROVE  FramesOwned(H, Tail(s))
<1> DEFINE t == Tail(s)
<1>1. Len(t) = Len(s) - 1 /\ Len(s) \in Nat \ {0} /\ \A i \in 1..Len(s) - 1: t[i] = s[i + 1]
  BY Popped
<1> HIDE DEF t
<1>2. ASSUME NEW i \in 1..Len(t), t[i].call # Null PROVE OwnedIn(H, t, t[i].call, i)
  <2>1. i + 1 \in 1..Len(s) /\ t[i] = s[i + 1]
    BY <1>1
  <2>2. OwnedIn(H, s, t[i].call, i + 1)
    BY <1>2, <2>1 DEF FramesOwned
  <2>3. PICK j \in i + 1..Len(s):
          \/ s[j].fn = "conf" /\ s[j].call = t[i].call
          \/ /\ s[j].fn = "group" /\ H[s[j].call] # Freed
             /\ \E h \in 1..Len(H[s[j].call].kids): H[s[j].call].kids[h] = t[i].call
    BY <2>2 DEF OwnedIn
  <2> DEFINE k == j - 1
  <2>4. k \in i..Len(t) /\ k \in 1..Len(s) - 1 /\ k + 1 = j
    BY <1>1
  <2> HIDE DEF k
  <2>5. t[k] = s[j]
    BY <1>1, <2>4
  <2> QED BY <2>3, <2>4, <2>5 DEF OwnedIn
<1>3. FramesOwned(H, t)
  BY <1>2 DEF FramesOwned
<1> QED BY <1>3 DEF t

\* A frame that goes on.
SameCalls(s, t) == Len(t) = Len(s) /\ \A i \in 1..Len(s): t[i].fn = s[i].fn /\ t[i].call = s[i].call

\* A frame that only goes on calls what it called.
LEMMA CallsSame ==
  ASSUME NEW S, NEW s \in Seq(S), s # <<>>, NEW f \in S, f.fn = s[1].fn, f.call = s[1].call
  PROVE  SameCalls(s, <<f>> \o Tail(s))
<1> DEFINE t == <<f>> \o Tail(s)
<1>1. Tail(s) \in Seq(S) /\ Len(Tail(s)) = Len(s) - 1 /\ Len(s) \in Nat \ {0}
      /\ \A i \in 1..Len(s) - 1: Tail(s)[i] = s[i + 1]
  BY Popped
<1>2. Len(t) = Len(Tail(s)) + 1 /\ t[1] = f /\ \A i \in 2..Len(t): t[i] = Tail(s)[i - 1]
  BY <1>1, Pushed
<1> HIDE DEF t
<1>3. Len(t) = Len(s)
  BY <1>1, <1>2
<1>4. ASSUME NEW i \in 1..Len(s) PROVE t[i].fn = s[i].fn /\ t[i].call = s[i].call
  <2>1. CASE i = 1
    BY <1>2, <2>1
  <2>2. CASE i # 1
    <3>1. i \in 2..Len(t) /\ i - 1 \in 1..Len(s) - 1 /\ (i - 1) + 1 = i
      BY <1>1, <1>3, <2>2
    <3>2. t[i] = s[i]
      BY <1>1, <1>2, <3>1
    <3> QED BY <3>2
  <2> QED BY <2>1, <2>2
<1>5. SameCalls(s, t)
  BY <1>3, <1>4 DEF SameCalls
<1> QED BY <1>5 DEF t

\* What is owned stays so, if the frames call what they called.
LEMMA OwnedSame ==
  ASSUME NEW s, NEW t, SameCalls(s, t), NEW H, NEW a, NEW i \in 1..Len(s), OwnedIn(H, s, a, i), Len(s) \in Nat
  PROVE  OwnedIn(H, t, a, i)
<1>1. PICK j \in i..Len(s):
        \/ s[j].fn = "conf" /\ s[j].call = a
        \/ /\ s[j].fn = "group" /\ H[s[j].call] # Freed
           /\ \E h \in 1..Len(H[s[j].call].kids): H[s[j].call].kids[h] = a
  BY DEF OwnedIn
<1>2. j \in 1..Len(s) /\ j \in i..Len(t)
  BY DEF SameCalls
<1>3. t[j].fn = s[j].fn /\ t[j].call = s[j].call
  BY <1>2 DEF SameCalls
<1> QED BY <1>1, <1>2, <1>3 DEF OwnedIn

\* The frames stay owned, if they call what they called.
LEMMA FramesSame ==
  ASSUME NEW s, NEW t, SameCalls(s, t), NEW H, FramesOwned(H, s), Len(s) \in Nat
  PROVE  FramesOwned(H, t)
<1>1. ASSUME NEW i \in 1..Len(t), t[i].call # Null PROVE OwnedIn(H, t, t[i].call, i)
  <2>1. i \in 1..Len(s) /\ t[i].call = s[i].call
    BY DEF SameCalls
  <2>2. OwnedIn(H, s, t[i].call, i)
    BY <1>1, <2>1 DEF FramesOwned
  <2> QED BY <2>1, <2>2, OwnedSame
<1> QED BY <1>1 DEF FramesOwned

\* What is owned has a pointer that does not count, so that it is live, and not what is
\* being released.
LEMMA OwnedLive ==
  ASSUME SafeInv, ctl.at # "fault", unbinds = {}, NEW a, NEW i \in 1..Len(stack), OwnedIn(heap, stack, a, i)
  PROVE  heap[a] # Freed /\ \A r \in releases: r.call # a
<1> DEFINE Q == Held(nodes, unbound, heap, stack)
<1>1. /\ Sound(heap, Q \cup releases) /\ Q \cap releases = {} /\ Safe(heap, Q \cup releases)
      /\ StackOK(stack, heap) /\ stack \in Seq(FramesOf(Len(heap), Len(nodes)))
      /\ heap \in Seq(Objects \cup {Freed})
  BY DEF SafeInv, DataInv, ControlInv, Pointed, HeapOK
<1>2. DOMAIN stack = 1..Len(stack) /\ Len(stack) \in Nat
  BY <1>1
<1>3. PICK j \in i..Len(stack):
        \/ stack[j].fn = "conf" /\ stack[j].call = a
        \/ /\ stack[j].fn = "group" /\ heap[stack[j].call] # Freed
           /\ \E h \in 1..Len(heap[stack[j].call].kids): heap[stack[j].call].kids[h] = a
  BY DEF OwnedIn
<1>4. j \in 1..Len(stack)
  BY <1>2
<1>5. \E p \in Q: ~p.counted /\ p.call = a
  <2>1. CASE stack[j].fn = "conf" /\ stack[j].call = a
    <3>1. FPtr(stack, j) \in FP(stack)
      BY <1>2, <1>4, <2>1 DEF FP
    <3>2. FPtr(stack, j).call = a /\ ~FPtr(stack, j).counted
      BY <2>1, FPtrIs
    <3> QED BY <3>1, <3>2 DEF Held
  <2>2. CASE /\ stack[j].fn = "group" /\ heap[stack[j].call] # Freed
             /\ \E h \in 1..Len(heap[stack[j].call].kids): heap[stack[j].call].kids[h] = a
    <3> DEFINE b == stack[j].call
    <3>1. PICK h \in 1..Len(heap[b].kids): heap[b].kids[h] = a
      BY <2>2
    <3>2. b \in 1..Len(heap)
      <4>1. stack[j] \in FramesOf(Len(heap), Len(nodes))
        BY <1>1, <1>4, ElementOfSeq
      <4> QED BY <2>2, <4>1, FrameIs
    <3>3. Program[heap[b].text].op = "group" /\ heap[b] # Freed
      BY <1>1, <1>4, <2>2 DEF StackOK
    <3> HIDE DEF b
    <3>4. h \in DOMAIN heap[b].kids
      BY <1>1, <3>1, <3>2, <3>3, ObjectIs
    <3>5. KPtr(heap, b, h) \in KP(heap)
      BY <3>2, <3>3, <3>4 DEF KP, KPOf
    <3>6. KPtr(heap, b, h).call = a /\ KPtr(heap, b, h).counted = Counts(heap[b].text)
      BY <3>1, KPtrIs
    <3>7. ~Counts(heap[b].text)
      BY <3>3 DEF Counts
    <3> QED BY <3>5, <3>6, <3>7 DEF Held
  <2> QED BY <1>3, <2>1, <2>2
<1> HIDE DEF Q
<1>6. PICK p \in Q: ~p.counted /\ p.call = a
  BY <1>5
<1>7. heap[a] # Freed
  BY <1>1, <1>6 DEF Safe
<1>8. ASSUME NEW r \in releases, r.call = a PROVE FALSE
  BY <1>1, <1>6, <1>8 DEF Sound
<1> QED BY <1>7, <1>8

\* Nothing that is in the heap changes but its count, when a line is read or a command
\* is stored.
LEMMA HeapGrows ==
  ASSUME SafeInv, ReadLine \/ BindStore \/ UnboundStore
  PROVE  Later(heap, heap') /\ Kept(heap, heap', 0)
<1>1. heap \in Seq(Objects \cup {Freed}) /\ Len(heap) \in Nat /\ HeapOK(heap)
  BY HeldIs DEF SafeInv, DataInv
<1>2. CASE ReadLine
  <2>1. PICK text \in Lines: heap' = heap \o Parsed(text, Len(heap))
    BY <1>2 DEF ReadLine
  <2> DEFINE X == Parsed(text, Len(heap))
  <2>2. Allocated(text, Len(heap), X)
    BY <1>1, ParsedIs
  <2> HIDE DEF X
  <2>3. heap' = heap \o X
    BY <2>1 DEF X
  <2>4. Appended(heap, X, heap')
    BY <1>1, <2>2, <2>3, AllocatedKids
  <2>5. Later(heap, heap')
    BY <1>1, <2>2, <2>4, HeapGrown
  <2>6. \A b \in 1..Len(heap): heap'[b] = heap[b]
    BY <2>4 DEF Appended
  <2> QED BY <2>5, <2>6 DEF Kept
<1>3. CASE heap' = heap
  BY <1>1, <1>3 DEF Later, Kept
<1>4. CASE (BindStore \/ UnboundStore) /\ Reference(Argument)
  <2>1. ctl.at \in {"bind", "store"} /\ ~ArgumentFreed
    BY <1>4 DEF BindStore, UnboundStore
  <2>2. heap[ctl.call] # Freed /\ heap[Argument] # Freed /\ Command = Program[heap[ctl.call].text]
    BY <2>1 DEF ArgumentFreed, Command
  <2>3. ctl.at \notin {"fault", "exited"} /\ Executing(ctl)
    BY <2>1 DEF Executing
  <2>4. ctl.call \in 1..Len(heap) /\ PlaceOK(heap, nodes, unbound, ctl, stack)
    BY <2>3, RunningIs
  <2>5. Command.op \in {"bind", "unbound"}
    BY <2>1, <2>2, <2>4 DEF PlaceOK
  <2> DEFINE a == Argument
  <2>6. a \in 1..Len(heap)
    BY <2>2, <2>4, <2>5, ArgumentIs
  <2> HIDE DEF a
  <2>7. heap' = Recount(heap, a, heap[a].refcount + 1)
    BY <1>4 DEF Reference, Recount, a
  <2>8. heap[a].refcount + 1 \in Int /\ heap[a] # Freed
    BY <1>1, <2>2, <2>6, ObjectIs DEF a
  <2>9. /\ Len(heap') = Len(heap) /\ heap'[a] # Freed /\ heap'[a].text = heap[a].text /\ heap'[a].kids = heap[a].kids
        /\ \A b \in 1..Len(heap): b # a => heap'[b] = heap[b]
    BY <1>1, <2>6, <2>7, <2>8, KidsCounted
  <2>10. Len(heap) <= Len(heap')
    BY <1>1, <2>9
  <2> QED BY <2>8, <2>9, <2>10 DEF Later, Kept
<1> QED BY <1>2, <1>3, <1>4 DEF BindStore, UnboundStore

\* At the first step nothing is executed.
LEMMA StartInit ==
  ASSUME Init
  PROVE  StartInv
<1> DEFINE f == [fn |-> "lines", call |-> Null]
<1>1. stack = <<f>> /\ ctl.at = "lines"
  BY DEF Init, At
<1>2. f.call = Null
  OBVIOUS
<1> HIDE DEF f
<1>3. \A i \in 1..Len(stack): stack[i].call = Null
  BY <1>1, <1>2
<1> QED BY <1>1, <1>3 DEF StartInv, StartOK, FramesOwned, Executing

\* The command that is executed at the start, and those of the frames, are live.
LEMMA StartLive ==
  ASSUME SafeInv, StartInv, Starting(stack, unbinds), ctl.at # "fault"
  PROVE  /\ \A i \in 1..Len(stack): stack[i].call # Null => heap[stack[i].call] # Freed /\ \A r \in releases: r.call # stack[i].call
         /\ Executing(ctl) => heap[ctl.call] # Freed
<1>1. FramesOwned(heap, stack) /\ (Executing(ctl) => OwnedIn(heap, stack, ctl.call, 1)) /\ unbinds = {} /\ stack # <<>>
  BY DEF StartInv, StartOK, Starting
<1>2. stack \in Seq(FramesOf(Len(heap), Len(nodes)))
  BY DEF SafeInv, ControlInv
<1>3. 1 \in 1..Len(stack)
  BY <1>1, <1>2
<1>4. ASSUME NEW i \in 1..Len(stack), stack[i].call # Null
      PROVE  heap[stack[i].call] # Freed /\ \A r \in releases: r.call # stack[i].call
  <2>1. OwnedIn(heap, stack, stack[i].call, i)
    BY <1>1, <1>4 DEF FramesOwned
  <2> QED BY <1>1, <2>1, OwnedLive
<1>5. Executing(ctl) => heap[ctl.call] # Freed
  BY <1>1, <1>3, OwnedLive
<1> QED BY <1>4, <1>5

\* The stack stays, and what is executed does, if anything is.
LEMMA StartStays ==
  ASSUME StartInv, Len(stack) \in Nat, stack' = stack, GroupsKept(heap, heap', stack), unbinds \subseteq unbinds',
         Executing(ctl') => Executing(ctl) /\ ctl'.call = ctl.call
  PROVE  StartInv'
<1>1. SUFFICES ASSUME Starting(stack, unbinds')
               PROVE  FramesOwned(heap', stack) /\ (Executing(ctl') => OwnedIn(heap', stack, ctl'.call, 1))
  BY DEF StartInv, StartOK
<1>2. Starting(stack, unbinds)
  BY <1>1 DEF Starting
<1>3. FramesOwned(heap, stack) /\ (Executing(ctl) => OwnedIn(heap, stack, ctl.call, 1))
  BY <1>2 DEF StartInv, StartOK
<1>4. FramesOwned(heap', stack)
  BY <1>3, FramesKept
<1>5. 1 \in 1..Len(stack)
  BY <1>2 DEF Starting
<1>6. ASSUME Executing(ctl') PROVE OwnedIn(heap', stack, ctl'.call, 1)
  BY <1>3, <1>5, <1>6, OwnedKept
<1> QED BY <1>4, <1>6

\* The first frame has called the command at a.
Calls(H, f, a) ==
  \/ f.fn = "conf" /\ f.call = a
  \/ f.fn = "group" /\ H[f.call] # Freed /\ \E h \in 1..Len(H[f.call].kids): H[f.call].kids[h] = a

\* What the first frame calls is owned.
LEMMA OwnedFirst ==
  ASSUME NEW H, NEW s, Len(s) \in Nat \ {0}, NEW a, Calls(H, s[1], a)
  PROVE  OwnedIn(H, s, a, 1)
<1>1. 1 \in 1..Len(s)
  OBVIOUS
<1> QED BY <1>1 DEF OwnedIn, Calls

\* Commands stay owned when a frame is put on top, of a set of frames.
LEMMA StartPushed ==
  ASSUME StartInv, NEW S, stack \in Seq(S), stack # <<>>, NEW f \in S, stack' = <<f>> \o stack,
         GroupsKept(heap, heap', stack), unbinds' = unbinds,
         f.fn = "conf" \/ f.call = Null \/ (Executing(ctl) /\ f.call = ctl.call),
         Executing(ctl') => Calls(heap', f, ctl'.call) \/ (Executing(ctl) /\ ctl'.call = ctl.call)
  PROVE  StartInv'
<1> DEFINE s == stack
<1> DEFINE t == <<f>> \o s
<1>1. /\ Len(s) \in Nat /\ 1 \in 1..Len(s) /\ 1 \in 1..Len(s) + 1 /\ 1 \in 1..1 + 1
      /\ Len(t) = Len(s) + 1 /\ t[1] = f /\ t[Len(t)] = s[Len(s)] /\ t # <<>>
  BY Pushed
<1>2. SUFFICES ASSUME Starting(t, unbinds)
               PROVE  FramesOwned(heap', t) /\ (Executing(ctl') => OwnedIn(heap', t, ctl'.call, 1))
  BY DEF StartInv, StartOK
<1> HIDE DEF t
<1>3. Starting(stack, unbinds)
  BY <1>1, <1>2 DEF Starting
<1>4. FramesOwned(heap, s) /\ (Executing(ctl) => OwnedIn(heap, s, ctl.call, 1))
  BY <1>3 DEF StartInv, StartOK
<1>5. FramesOwned(heap', s) /\ (Executing(ctl) => OwnedIn(heap', s, ctl.call, 1))
  BY <1>1, <1>4, FramesKept, OwnedKept
<1>6. FramesOwned(heap', t)
  BY <1>5, FramesPushed DEF t
<1>7. Executing(ctl) => OwnedIn(heap', t, ctl.call, 1)
  BY <1>1, <1>5, OwnedPushed DEF t
<1>8. ASSUME Calls(heap', f, ctl'.call) PROVE OwnedIn(heap', t, ctl'.call, 1)
  <2>1. Len(t) \in Nat \ {0}
    BY <1>1
  <2> QED BY <1>1, <1>8, <2>1, OwnedFirst
<1> QED BY <1>6, <1>7, <1>8

\* Commands stay owned when the frame on top returns, of a set of frames.
LEMMA StartPopped ==
  ASSUME StartInv, NEW S, stack \in Seq(S), stack # <<>>, stack' = Tail(stack),
         GroupsKept(heap, heap', stack), unbinds' = unbinds, ~Executing(ctl')
  PROVE  StartInv'
<1> DEFINE s == stack
<1> DEFINE t == Tail(s)
<1>1. SUFFICES ASSUME Starting(t, unbinds) PROVE FramesOwned(heap', t)
  BY DEF StartInv, StartOK
<1>2. t \in Seq(S) /\ Len(t) = Len(s) - 1 /\ Len(s) \in Nat \ {0} /\ \A i \in 1..Len(s) - 1: t[i] = s[i + 1]
  BY Popped
<1> HIDE DEF t
<1>3. t[Len(t)] = s[Len(s)]
  <2>1. Len(t) \in Nat /\ Len(t) # 0
    BY <1>1, <1>2 DEF Starting
  <2>2. Len(t) \in 1..Len(s) - 1 /\ Len(t) + 1 = Len(s)
    BY <1>2, <2>1
  <2> QED BY <1>2, <2>2
<1>4. Starting(stack, unbinds)
  BY <1>1, <1>3 DEF Starting
<1>5. FramesOwned(heap, s)
  BY <1>4 DEF StartInv, StartOK
<1>6. FramesOwned(heap', s)
  BY <1>2, <1>5, FramesKept
<1> QED BY <1>6, FramesPopped DEF t

\* Commands stay owned when the frame on top goes on, of a set of frames.
LEMMA StartReplaced ==
  ASSUME StartInv, NEW S, stack \in Seq(S), stack # <<>>, NEW f \in S, f.fn = stack[1].fn, f.call = stack[1].call,
         stack' = <<f>> \o Tail(stack), GroupsKept(heap, heap', stack), unbinds' = unbinds,
         Executing(ctl') => Calls(heap', f, ctl'.call) \/ (Executing(ctl) /\ ctl'.call = ctl.call)
  PROVE  StartInv'
<1> DEFINE s == stack
<1> DEFINE t == <<f>> \o Tail(s)
<1>1. SameCalls(s, t) /\ Len(s) \in Nat \ {0} /\ 1 \in 1..Len(s)
  BY CallsSame
<1>2. t[1] = f /\ t # <<>>
  BY Pushed, Popped
<1>3. SUFFICES ASSUME Starting(t, unbinds)
               PROVE  FramesOwned(heap', t) /\ (Executing(ctl') => OwnedIn(heap', t, ctl'.call, 1))
  BY DEF StartInv, StartOK
<1> HIDE DEF t
<1>4. Len(t) = Len(s) /\ t[Len(s)].fn = s[Len(s)].fn
  BY <1>1 DEF SameCalls
<1>5. Starting(stack, unbinds)
  BY <1>3, <1>4 DEF Starting
<1>6. FramesOwned(heap, s) /\ (Executing(ctl) => OwnedIn(heap, s, ctl.call, 1))
  BY <1>5 DEF StartInv, StartOK
<1>7. FramesOwned(heap', s) /\ (Executing(ctl) => OwnedIn(heap', s, ctl.call, 1))
  BY <1>1, <1>6, FramesKept, OwnedKept
<1>8. FramesOwned(heap', t) /\ (Executing(ctl) => OwnedIn(heap', t, ctl.call, 1))
  BY <1>1, <1>7, FramesSame, OwnedSame
<1>9. ASSUME Calls(heap', f, ctl'.call) PROVE OwnedIn(heap', t, ctl'.call, 1)
  <2>1. Len(t) \in Nat \ {0}
    BY <1>1, <1>4
  <2> QED BY <1>2, <1>9, <2>1, OwnedFirst
<1> QED BY <1>8, <1>9

\* No frame has called the command at a.
NotCalled(s, a) == \A j \in 1..Len(s): s[j].call # a

\* Nothing but what is in a group is freed, so that those that are executed stay.
LEMMA GroupsLater ==
  ASSUME SafeInv, Later(heap, heap'), NEW a, Kept(heap, heap', a), NotCalled(stack, a)
  PROVE  GroupsKept(heap, heap', stack)
<1>1. stack \in Seq(FramesOf(Len(heap), Len(nodes)))
  BY DEF SafeInv, ControlInv
<1>2. ASSUME NEW j \in 1..Len(stack), stack[j].fn = "group", heap[stack[j].call] # Freed
      PROVE  heap'[stack[j].call] # Freed /\ heap'[stack[j].call].kids = heap[stack[j].call].kids
  <2>1. stack[j] \in FramesOf(Len(heap), Len(nodes))
    BY <1>1, ElementOfSeq
  <2>2. stack[j].call \in 1..Len(heap)
    BY <1>2, <2>1, FrameIs
  <2>3. stack[j].call # a
    BY DEF NotCalled
  <2>4. heap'[stack[j].call] # Freed
    BY <1>2, <2>2, <2>3 DEF Kept
  <2> QED BY <2>2, <2>4 DEF Later
<1> QED BY <1>2 DEF GroupsKept

\* No frame has called what is at zero.
LEMMA NothingAtZero ==
  ASSUME SafeInv
  PROVE  NotCalled(stack, 0)
<1>1. stack \in Seq(FramesOf(Len(heap), Len(nodes))) /\ Len(heap) \in Nat
  BY HeldIs DEF SafeInv, ControlInv
<1>2. ASSUME NEW j \in 1..Len(stack) PROVE stack[j].call # 0
  <2>1. stack[j] \in FramesOf(Len(heap), Len(nodes))
    BY <1>1, ElementOfSeq
  <2>2. stack[j].call \in 1..Len(heap) \cup {Null}
    BY <2>1, FrameIs
  <2> QED BY <1>1, <2>2, NoAddressAssumption
<1> QED BY <1>2 DEF NotCalled

\* Nothing that matters here changes.
LEMMA StartIdle ==
  ASSUME SafeInv, StartInv, heap' = heap, stack' = stack, unbinds \subseteq unbinds',
         Executing(ctl') => Executing(ctl) /\ ctl'.call = ctl.call
  PROVE  StartInv'
<1>1. Len(stack) \in Nat
  BY DEF SafeInv, ControlInv
<1>2. GroupsKept(heap, heap', stack)
  BY DEF GroupsKept
<1> QED BY <1>1, <1>2, StartStays

\* What is executed for a key is not executed at the start.
LEMMA StartForKey ==
  ASSUME stack' = <<>> \/ stack'[Len(stack')].fn # "lines"
  PROVE  StartInv'
BY DEF StartInv, StartOK, Starting

\* Commands stay owned when a frame is put on top of those of a state.
LEMMA StartPush ==
  ASSUME SafeInv, StartInv, stack # <<>>, NEW f, stack' = <<f>> \o stack,
         GroupsKept(heap, heap', stack), unbinds' = unbinds,
         f.fn = "conf" \/ f.call = Null \/ (Executing(ctl) /\ f.call = ctl.call),
         Executing(ctl') => Calls(heap', f, ctl'.call) \/ (Executing(ctl) /\ ctl'.call = ctl.call)
  PROVE  StartInv'
<1> DEFINE A == FramesOf(Len(heap), Len(nodes))
<1> DEFINE S == A \cup {f}
<1>1. stack \in Seq(A)
  BY DEF SafeInv, ControlInv
<1> HIDE DEF A
<1>2. stack \in Seq(S) /\ f \in S
  BY <1>1
<1> HIDE DEF S
<1> QED BY <1>2, StartPushed

\* Commands stay owned when the frame on top of those of a state goes on.
LEMMA StartReplace ==
  ASSUME SafeInv, StartInv, stack # <<>>, NEW f, f.fn = stack[1].fn, f.call = stack[1].call,
         stack' = <<f>> \o Tail(stack), GroupsKept(heap, heap', stack), unbinds' = unbinds,
         Executing(ctl') => Calls(heap', f, ctl'.call) \/ (Executing(ctl) /\ ctl'.call = ctl.call)
  PROVE  StartInv'
<1> DEFINE A == FramesOf(Len(heap), Len(nodes))
<1> DEFINE S == A \cup {f}
<1>1. stack \in Seq(A)
  BY DEF SafeInv, ControlInv
<1> HIDE DEF A
<1>2. stack \in Seq(S) /\ f \in S
  BY <1>1
<1> HIDE DEF S
<1> QED BY <1>2, StartReplaced

\* Commands stay owned when the frame on top of those of a state returns.
LEMMA StartPop ==
  ASSUME SafeInv, StartInv, stack # <<>>, stack' = Tail(stack),
         GroupsKept(heap, heap', stack), unbinds' = unbinds, ~Executing(ctl')
  PROVE  StartInv'
<1>1. stack \in Seq(FramesOf(Len(heap), Len(nodes)))
  BY DEF SafeInv, ControlInv
<1> QED BY <1>1, StartPopped

\* A key is read and handled; the frame of the key is below all others.
LEMMA StartKeys ==
  ASSUME SafeInv, ReadKey \/ HandleFreed \/ HandleBound \/ HandleUnbound \/ KeyReturn
  PROVE  StartInv'
<1>1. CASE ReadKey
  <2>1. PICK k \in Keys: stack' = <<[fn |-> "main", call |-> Null, key |-> k]>> \o stack
    BY <1>1 DEF ReadKey, Push
  <2> DEFINE f == [fn |-> "main", call |-> Null, key |-> k]
  <2>2. stack = <<>>
    BY <1>1, RunningIs DEF ReadKey
  <2>3. stack' = <<f>> /\ f.fn = "main"
    BY <2>1, <2>2
  <2> HIDE DEF f
  <2>4. stack'[Len(stack')].fn # "lines"
    BY <2>3
  <2> QED BY <2>4, StartForKey
<1>2. CASE KeyReturn
  <2>1. ctl.at = "return" /\ stack # <<>> /\ Top.fn = "main" /\ stack' = Tail(stack)
    BY <1>2 DEF KeyReturn, Returning, TopIs, Pop
  <2>2. Tail(stack) = <<>>
    BY <2>1, TopIsKnown DEF FrameFits, IsBottom
  <2> QED BY <2>1, <2>2, StartForKey
<1>3. CASE HandleFreed \/ HandleBound \/ HandleUnbound
  <2>1. ctl.at = "handle"
    BY <1>3 DEF HandleFreed, HandleBound, HandleUnbound
  <2>2. stack # <<>> /\ stack[Len(stack)].fn = "main"
    BY <2>1, KeyIs
  <2>3. stack' = stack \/ \E f: stack' = <<f>> \o stack
    BY <1>3 DEF HandleFreed, HandleBound, HandleUnbound, Push
  <2>4. ASSUME NEW f, stack' = <<f>> \o stack PROVE stack'[Len(stack')] = stack[Len(stack)]
    <3> DEFINE S == FramesOf(Len(heap), Len(nodes)) \cup {f}
    <3>1. stack \in Seq(S) /\ f \in S
      BY DEF SafeInv, ControlInv
    <3> HIDE DEF S
    <3> QED BY <2>2, <2>4, <3>1, Pushed
  <2> QED BY <2>2, <2>3, <2>4, StartForKey
<1> QED BY <1>1, <1>2, <1>3

\* What was executed for a key is repeated, or has returned.
LEMMA StartHandled ==
  ASSUME SafeInv, StartInv, BindingRepeat \/ BindingReturn \/ UnboundReturn
  PROVE  StartInv'
<1>0. /\ ctl.at = "return" /\ stack # <<>> /\ ctl.at \notin {"fault", "exited"}
      /\ UNCHANGED <<heap, unbinds>> /\ ctl \in [at: Places, call: 1..Len(heap) \cup {Null}]
  BY DEF BindingRepeat, BindingReturn, UnboundReturn, Returning, TopIs, SafeInv, ControlInv
<1>1. GroupsKept(heap, heap', stack)
  BY <1>0 DEF GroupsKept
<1>2. CASE BindingReturn \/ UnboundReturn
  <2>1. (ctl' = Fault /\ stack' = stack) \/ (ctl' = ctl /\ stack' = Tail(stack))
    BY <1>2 DEF BindingReturn, UnboundReturn, Pop
  <2>2. ~Executing(ctl')
    BY <1>0, <2>1 DEF Fault, Executing
  <2>3. CASE stack' = stack
    BY <1>0, <2>2, <2>3, StartIdle
  <2>4. CASE stack' = Tail(stack)
    BY <1>0, <1>1, <2>2, <2>4, StartPop
  <2> QED BY <2>1, <2>3, <2>4
<1>3. CASE BindingRepeat
  <2> DEFINE f == [Top EXCEPT !.left = @ - 1]
  <2> DEFINE S == FramesOf(Len(heap), Len(nodes)) \cup {f}
  <2>1. stack' = <<f>> \o Tail(stack) /\ ctl' = Call(Top.call) /\ Top.fn = "binding"
    BY <1>3 DEF BindingRepeat, Returning, TopIs
  <2>2. Top = stack[1] /\ Top \in FramesOf(Len(heap), Len(nodes)) /\ stack \in Seq(S) /\ f \in S
    BY <1>0, TopIsKnown, RunningIs
  <2>3. f.fn = stack[1].fn /\ f.call = stack[1].call /\ ctl'.call = stack[1].call
    BY <2>1, <2>2, FrameIs DEF Call
  <2> HIDE DEF f, S
  <2>4. SameCalls(stack, stack') /\ Len(stack) \in Nat \ {0} /\ 1 \in 1..Len(stack)
    BY <1>0, <2>1, <2>2, <2>3, CallsSame
  <2>5. SUFFICES ASSUME Starting(stack', unbinds)
                 PROVE  FramesOwned(heap, stack') /\ OwnedIn(heap, stack', stack[1].call, 1)
    BY <1>0, <2>3 DEF StartInv, StartOK
  <2>6. Starting(stack, unbinds)
    BY <1>0, <2>4, <2>5 DEF Starting, SameCalls
  <2>7. FramesOwned(heap, stack)
    BY <2>6 DEF StartInv, StartOK
  <2>8. stack[1].call # Null
    BY <1>0, <2>1, <2>2, FrameIs, RunningIs
  <2>9. OwnedIn(heap, stack, stack[1].call, 1)
    BY <2>4, <2>7, <2>8 DEF FramesOwned
  <2> QED BY <2>4, <2>7, <2>9, FramesSame, OwnedSame
<1> QED BY <1>2, <1>3

\* A line is read, and has been executed.
LEMMA StartLines ==
  ASSUME SafeInv, StartInv, ReadLine \/ LineReturn \/ LinesEnd
  PROVE  StartInv'
<1>0. ctl.at \notin {"fault", "exited"} /\ ctl.at # "poll" /\ unbinds' = unbinds
  BY DEF ReadLine, LineReturn, LinesEnd, Returning
<1>1. stack # <<>>
  BY <1>0, RunningIs
<1>2. CASE ReadLine
  <2>1. PICK text \in Lines: Push([fn |-> "conf", call |-> Len(heap) + 1]) /\ ctl' = Call(Len(heap) + 1)
    BY <1>2 DEF ReadLine
  <2> DEFINE f == [fn |-> "conf", call |-> Len(heap) + 1]
  <2>2. stack' = <<f>> \o stack /\ f.fn = "conf" /\ ctl'.call = f.call
    BY <2>1 DEF Push, Call
  <2> HIDE DEF f
  <2>3. Calls(heap', f, ctl'.call)
    BY <2>2 DEF Calls
  <2>4. GroupsKept(heap, heap', stack)
    BY <1>2, HeapGrows, NothingAtZero, GroupsLater
  <2> QED BY <1>0, <1>1, <2>2, <2>3, <2>4, StartPush
<1>3. CASE LineReturn \/ LinesEnd
  <2>1. stack' = Tail(stack) /\ heap' = heap /\ ~Executing(ctl')
    BY <1>3 DEF LineReturn, LinesEnd, Pop, Executing, At
  <2>2. GroupsKept(heap, heap', stack)
    BY <2>1 DEF GroupsKept
  <2> QED BY <1>0, <1>1, <2>1, <2>2, StartPop
<1> QED BY <1>2, <1>3

\* The commands that others are in.
LEMMA StartCalls ==
  ASSUME SafeInv, StartInv, CallEvaluate \/ CallGroup \/ GroupReturn
  PROVE  StartInv'
<1>0. ctl.at \notin {"fault", "exited"} /\ ctl.at # "poll" /\ unbinds' = unbinds /\ heap' = heap
  BY DEF CallEvaluate, CallGroup, GroupReturn, Calling, Returning
<1>1. stack # <<>> /\ ctl \in [at: Places, call: 1..Len(heap) \cup {Null}]
  BY <1>0, RunningIs
<1>2. GroupsKept(heap, heap', stack)
  BY <1>0 DEF GroupsKept
<1>3. CASE CallEvaluate
  <2> DEFINE f == [fn |-> "lines", call |-> ctl.call]
  <2>1. stack' = <<f>> \o stack /\ f.call = ctl.call /\ Executing(ctl) /\ ~Executing(ctl')
    BY <1>3 DEF CallEvaluate, Push, Calling, Executing, At
  <2> HIDE DEF f
  <2> QED BY <1>0, <1>1, <1>2, <2>1, StartPush
<1>4. CASE CallGroup
  <2> DEFINE f == [fn |-> "group", call |-> ctl.call, last |-> 1]
  <2>1. /\ stack' = <<f>> \o stack /\ f.call = ctl.call /\ f.fn = "group" /\ Executing(ctl)
        /\ ctl'.call = heap[ctl.call].kids[1] /\ Calling("group")
    BY <1>4 DEF CallGroup, Push, Calling, Executing, Call
  <2> HIDE DEF f
  <2>2. ctl.call \in 1..Len(heap) /\ heap[ctl.call] # Freed /\ Program[heap[ctl.call].text].op = "group"
    BY <2>1, CalledIs
  <2>3. 1 \in 1..Len(heap[ctl.call].kids)
    BY <2>2, GroupKids
  <2>4. Calls(heap', f, ctl'.call)
    BY <1>0, <2>1, <2>2, <2>3 DEF Calls
  <2> QED BY <1>0, <1>1, <1>2, <2>1, <2>4, StartPush
<1>5. CASE GroupReturn
  <2>1. Top = stack[1] /\ Top.fn = "group" /\ Top \in FramesOf(Len(heap), Len(nodes)) /\ ctl.at = "return"
    BY <1>0, <1>1, <1>5, TopIsKnown DEF GroupReturn, Returning, TopIs
  <2>2. Top \in [fn: {"group"}, call: 1..Len(heap), last: Nat]
    BY <2>1, FrameIs
  <2>3. IF heap[Top.call] = Freed
        THEN ctl' = Fault /\ stack' = stack
        ELSE \/ \E i \in Top.last + 1..Len(heap[Top.call].kids):
                  /\ ctl' = Call(heap[Top.call].kids[i])
                  /\ stack' = <<[Top EXCEPT !.last = i]>> \o Tail(stack)
             \/ ctl' = ctl /\ stack' = Tail(stack)
    BY <1>5 DEF GroupReturn, Pop
  <2>4. CASE ctl' = Fault /\ stack' = stack
    <3>1. ~Executing(ctl')
      BY <1>1, <2>4 DEF Fault, Executing
    <3> QED BY <1>0, <2>4, <3>1, StartIdle
  <2>5. CASE ctl' = ctl /\ stack' = Tail(stack)
    <3>1. ~Executing(ctl')
      BY <2>1, <2>5 DEF Executing
    <3> QED BY <1>0, <1>1, <1>2, <2>5, <3>1, StartPop
  <2>6. CASE heap[Top.call] # Freed /\ \E i \in Top.last + 1..Len(heap[Top.call].kids):
                  /\ ctl' = Call(heap[Top.call].kids[i])
                  /\ stack' = <<[Top EXCEPT !.last = i]>> \o Tail(stack)
    <3>1. PICK i \in Top.last + 1..Len(heap[Top.call].kids):
                  /\ ctl' = Call(heap[Top.call].kids[i])
                  /\ stack' = <<[Top EXCEPT !.last = i]>> \o Tail(stack)
      BY <2>6
    <3> DEFINE f == [Top EXCEPT !.last = i]
    <3>2. i \in 1..Len(heap[Top.call].kids)
      BY <2>2, <2>6, <3>1, GroupKids
    <3>3. f.fn = "group" /\ f.call = Top.call /\ stack' = <<f>> \o Tail(stack)
      BY <2>2, <3>1
    <3> HIDE DEF f
    <3>4. Calls(heap', f, ctl'.call)
      BY <1>0, <2>6, <3>1, <3>2, <3>3 DEF Calls, Call
    <3> QED BY <1>0, <1>1, <1>2, <2>1, <3>3, <3>4, StartReplace
  <2> QED BY <2>3, <2>4, <2>5, <2>6
<1> QED BY <1>3, <1>4, <1>5

\* The commands that store their arguments, and unbind.
LEMMA StartStores ==
  ASSUME SafeInv, StartInv,
         CallBind \/ BindStore \/ CallUnbound \/ UnboundRelease \/ UnboundStore \/ CallUnbind
  PROVE  StartInv'
<1>0. /\ ctl.at \in {"call", "bind", "types", "store"} /\ ctl.at \notin {"fault", "exited"} /\ ctl.at # "poll"
      /\ Executing(ctl) /\ unbinds \subseteq unbinds'
  BY DEF CallBind, BindStore, CallUnbound, UnboundRelease, UnboundStore, CallUnbind, Calling, Executing,
         UnbindFinds, UnbindFindsNothing
<1>1. stack # <<>> /\ ctl \in [at: Places, call: 1..Len(heap) \cup {Null}] /\ Len(stack) \in Nat
      /\ PlaceOK(heap, nodes, unbound, ctl, stack)
  BY <1>0, RunningIs
<1>2. CASE CallBind \/ UnboundRelease
  <2>1. heap' = heap /\ stack' = stack /\ ctl'.call = ctl.call
    BY <1>1, <1>2 DEF CallBind, UnboundRelease
  <2> QED BY <1>0, <2>1, StartIdle
<1>3. CASE CallUnbind
  <2>1. heap' = heap /\ stack' = stack /\ (ctl' = At("return") \/ ctl' = Fault)
    BY <1>3 DEF CallUnbind, UnbindFinds, UnbindFindsNothing
  <2>2. ~Executing(ctl')
    BY <1>1, <2>1 DEF At, Fault, Executing
  <2> QED BY <1>0, <2>1, <2>2, StartIdle
<1>4. CASE BindStore
  <2>1. GroupsKept(heap, heap', stack)
    BY <1>4, HeapGrows, NothingAtZero, GroupsLater
  <2>2. stack' = stack /\ ~Executing(ctl')
    BY <1>4 DEF BindStore, At, Executing
  <2> QED BY <1>0, <1>1, <2>1, <2>2, StartStays
<1>5. CASE CallUnbound
  <2> DEFINE f == [fn |-> "types", call |-> ctl.call, types |-> Command.types]
  <2>1. stack' = <<f>> \o stack /\ f.call = ctl.call /\ ctl'.call = ctl.call /\ heap' = heap /\ unbinds' = unbinds
    BY <1>1, <1>5 DEF CallUnbound, Push
  <2> HIDE DEF f
  <2>2. GroupsKept(heap, heap', stack)
    BY <2>1 DEF GroupsKept
  <2> QED BY <1>0, <1>1, <2>1, <2>2, StartPush
<1>6. CASE UnboundStore
  <2>1. GroupsKept(heap, heap', stack)
    BY <1>6, HeapGrows, NothingAtZero, GroupsLater
  <2>2. /\ unbinds' = unbinds /\ ctl.at = "store"
        /\ \/ ctl' = At("return") /\ stack' = Tail(stack)
           \/ ctl' = [ctl EXCEPT !.at = "types"] /\ stack' = <<[Top EXCEPT !.types = Tail(@)]>> \o Tail(stack)
    BY <1>6 DEF UnboundStore, Pop
  <2>3. CASE ctl' = At("return") /\ stack' = Tail(stack)
    <3>1. ~Executing(ctl')
      BY <2>3 DEF At, Executing
    <3> QED BY <1>1, <2>1, <2>2, <2>3, <3>1, StartPop
  <2>4. CASE ctl' = [ctl EXCEPT !.at = "types"] /\ stack' = <<[Top EXCEPT !.types = Tail(@)]>> \o Tail(stack)
    <3> DEFINE f == [Top EXCEPT !.types = Tail(@)]
    <3>1. Top = stack[1] /\ Top \in FramesOf(Len(heap), Len(nodes))
      BY <1>0, <1>1, TopIsKnown
    <3>2. stack[1].fn = "types"
      BY <1>1, <2>2 DEF PlaceOK
    <3>3. Top \in [fn: {"types"}, call: 1..Len(heap), types: Seq(Types) \ {<<>>}]
      BY <3>1, <3>2, FrameIs
    <3>4. f.fn = stack[1].fn /\ f.call = stack[1].call /\ stack' = <<f>> \o Tail(stack) /\ ctl'.call = ctl.call
      BY <1>1, <2>4, <3>1, <3>3
    <3> HIDE DEF f
    <3> QED BY <1>0, <1>1, <2>1, <2>2, <3>4, StartReplace
  <2> QED BY <2>2, <2>3, <2>4
<1> QED BY <1>2, <1>3, <1>4, <1>5, <1>6

\* What is being released is not what is executed.
LEMMA StartRelease ==
  ASSUME SafeInv, StartInv, Release, releases # {}
  PROVE  StartInv'
<1>1. UNCHANGED <<stack, unbinds>> /\ ctl.at # "fault" /\ ctl \in [at: Places, call: 1..Len(heap) \cup {Null}]
  BY ReleaseIs DEF SafeInv, ControlInv
<1>2. PICK r \in releases:
        \/ heap[r.call] = Freed /\ ctl' = Fault /\ UNCHANGED <<heap, releases>>
        \/ Released(r, heap, heap', releases, releases') /\ ctl' = ctl
  BY ReleaseIs
<1>3. CASE heap[r.call] = Freed /\ ctl' = Fault /\ UNCHANGED <<heap, releases>>
  <2>1. ~Executing(ctl')
    BY <1>1, <1>3 DEF Fault, Executing
  <2> QED BY <1>1, <1>3, <2>1, StartIdle
<1>4. CASE Released(r, heap, heap', releases, releases') /\ ctl' = ctl
  <2>1. Later(heap, heap') /\ Kept(heap, heap', r.call)
    <3>1. /\ HeapOK(heap) /\ Pointed(heap, Held(nodes, unbound, heap, stack), releases, unbinds)
          /\ r \in releases /\ Released(r, heap, heap', releases, releases')
      BY <1>4 DEF SafeInv, DataInv
    <3> QED BY ONLY <3>1, ReleasedIs
  <2>2. CASE Starting(stack, unbinds)
    <3>1. Len(heap) \in Nat /\ stack \in Seq(FramesOf(Len(heap), Len(nodes))) /\ r.call \in 1..Len(heap)
      BY HeldIs DEF SafeInv, DataInv, ControlInv, Pointed, Sound
    <3>2. ASSUME NEW j \in 1..Len(stack) PROVE stack[j].call # r.call
      <4>1. stack[j].call # Null => stack[j].call # r.call
        BY <1>1, <2>2, StartLive
      <4> QED BY <3>1, <4>1, NoAddressAssumption
    <3>3. NotCalled(stack, r.call)
      BY <3>2 DEF NotCalled
    <3>4. GroupsKept(heap, heap', stack)
      BY <2>1, <3>3, GroupsLater
    <3>5. Len(stack) \in Nat
      BY <3>1
    <3> QED BY <1>1, <1>4, <3>4, <3>5, StartStays
  <2>3. CASE ~Starting(stack, unbinds)
    BY <1>1, <2>3 DEF StartInv, StartOK
  <2> QED BY <2>2, <2>3
<1> QED BY <1>2, <1>3, <1>4

\* Every step leaves what is executed at the start owned.
LEMMA StartStep ==
  ASSUME SafeInv, StartInv, [Next]_vars
  PROVE  StartInv'
<1>0. ctl \in [at: Places, call: 1..Len(heap) \cup {Null}]
  BY DEF SafeInv, ControlInv
<1>1. CASE UNCHANGED vars
  BY <1>1 DEF vars, StartInv
<1>2. CASE releases # {} /\ Release
  BY <1>2, StartRelease
<1>3. CASE LineInvalid \/ CallFreed \/ StoreFreed \/ CallOther \/ CallRehandle
  <2>1. UNCHANGED <<heap, stack, unbinds>> /\ (ctl' = Fault \/ ctl' = ctl \/ ctl' = At("return") \/ ctl' = At("handle"))
    BY <1>3 DEF LineInvalid, CallFreed, StoreFreed, CallOther, CallRehandle
  <2>2. Executing(ctl') => Executing(ctl) /\ ctl'.call = ctl.call
    BY <1>0, <2>1 DEF At, Fault, Executing
  <2> QED BY <2>1, <2>2, StartIdle
<1>4. CASE ContextFree
  <2>1. UNCHANGED <<heap, stack, unbinds>> /\ ctl' = At("exited")
    BY <1>4 DEF ContextFree
  <2>2. ~Executing(ctl')
    BY <2>1 DEF At, Executing
  <2> QED BY <2>1, <2>2, StartIdle
<1>5. CASE Step
  BY <1>3, <1>5, StartLines, StartKeys, StartHandled, StartCalls, StartStores DEF Step
<1>6. CASE StepReleasing
  BY <1>4, <1>6, StartLines, StartStores DEF StepReleasing
<1>7. Stopped => UNCHANGED vars
  BY DEF Stopped
<1> QED BY <1>1, <1>2, <1>5, <1>6, <1>7 DEF Next

\* While the configuration is read, every command that is executed is the line or in a
\* group that is: no binding holds it, so that nothing that is bound meanwhile frees it.
THEOREM StartAlways == Spec => []StartInv
<1>1. Init => StartInv
  BY StartInit
<1>2. SafeInv /\ StartInv /\ [Next]_vars => StartInv'
  BY StartStep
<1> QED BY <1>1, <1>2, SafeAlways, PTL DEF Spec

-----------------------------------------------------------------------------
(* A chain of keys that is open on freed nodes. *)

\* The commands of bindings are executed for a key, and without rehandle it has one only.
Handled(s, r) ==
  \A i \in 1..Len(s): s[i].fn = "binding" => s[Len(s)].fn = "main" /\ (r \/ i = Len(s) - 1)
\* The key has a command, which has not returned.
ForKey(s) == Len(s) > 1 /\ s[Len(s) - 1].fn = "binding"
\* What is known of the chain when no key was rehandled: it is opened again when the
\* command returns, there is none, or nothing was executed since it was opened.
ChainOK(N, b, c, s) ==
  \/ ForKey(s)
  \/ b = Null
  \/ /\ c.at \in {"return", "poll"} /\ Len(s) \in {0, 1}
     /\ N[b] # Freed /\ \E k \in Keys: N[b].bindings[k] # Null
ChainInv ==
  ctl.at \notin {"fault", "exited"} =>
    /\ Handled(stack, rehandled)
    /\ ctl.at = "handle" => ctl.call = Null /\ (rehandled \/ Len(stack) = 1)
    /\ rehandled \/ ctl.at = "handle" \/ ChainOK(nodes, current_binding, ctl, stack)

\* A frame more, that is not that of a binding or the first one of a key.
LEMMA HandledPushed ==
  ASSUME NEW S, NEW s \in Seq(S), NEW f \in S, NEW r, Handled(s, r),
         f.fn = "binding" => s # <<>> /\ s[Len(s)].fn = "main" /\ (r \/ Len(s) = 1)
  PROVE  /\ Handled(<<f>> \o s, r) /\ (ForKey(s) => ForKey(<<f>> \o s))
         /\ f.fn = "binding" => r \/ ForKey(<<f>> \o s)
<1> DEFINE t == <<f>> \o s
<1>1. /\ Len(t) = Len(s) + 1 /\ Len(s) \in Nat /\ t[1] = f /\ \A j \in 2..Len(t): t[j] = s[j - 1]
      /\ s # <<>> => t[Len(t)] = s[Len(s)]
  BY Pushed
<1> HIDE DEF t
<1>2. ASSUME NEW i \in 1..Len(t), t[i].fn = "binding"
      PROVE  t[Len(t)].fn = "main" /\ (r \/ i = Len(t) - 1)
  <2>1. CASE i = 1
    BY <1>1, <1>2, <2>1
  <2>2. CASE i # 1
    <3>1. i \in 2..Len(t) /\ i - 1 \in 1..Len(s)
      BY <1>1, <2>2
    <3>2. s[i - 1].fn = "binding" /\ s # <<>>
      BY <1>1, <1>2, <3>1
    <3>3. s[Len(s)].fn = "main" /\ (r \/ i - 1 = Len(s) - 1)
      BY <3>1, <3>2 DEF Handled
    <3> QED BY <1>1, <3>1, <3>2, <3>3
  <2> QED BY <2>1, <2>2
<1>3. ASSUME ForKey(s) PROVE ForKey(t)
  <2>1. Len(t) - 1 \in 2..Len(t) /\ Len(t) > 1 /\ (Len(t) - 1) - 1 = Len(s) - 1
    BY <1>1, <1>3 DEF ForKey
  <2>2. t[Len(t) - 1] = s[Len(s) - 1]
    BY <1>1, <2>1
  <2> QED BY <1>3, <2>1, <2>2 DEF ForKey
<1>4. ASSUME f.fn = "binding", ~r PROVE ForKey(t)
  <2>1. Len(t) = 2 /\ t[1].fn = "binding"
    BY <1>1, <1>4
  <2> QED BY <2>1 DEF ForKey
<1> QED BY <1>2, <1>3, <1>4 DEF Handled, t

\* A frame less.
LEMMA HandledPopped ==
  ASSUME NEW S, NEW s \in Seq(S), s # <<>>, NEW r, Handled(s, r)
  PROVE  Handled(Tail(s), r) /\ (ForKey(s) /\ s[1].fn # "binding" => ForKey(Tail(s)))
<1> DEFINE t == Tail(s)
<1>1. Len(t) = Len(s) - 1 /\ Len(s) \in Nat \ {0} /\ \A i \in 1..Len(s) - 1: t[i] = s[i + 1]
  BY Popped
<1> HIDE DEF t
<1>2. ASSUME NEW i \in 1..Len(t), t[i].fn = "binding"
      PROVE  t[Len(t)].fn = "main" /\ (r \/ i = Len(t) - 1)
  <2>1. i + 1 \in 1..Len(s) /\ t[i] = s[i + 1] /\ Len(t) \in 1..Len(s) - 1 /\ Len(t) + 1 = Len(s)
    BY <1>1
  <2>2. s[Len(s)].fn = "main" /\ (r \/ i + 1 = Len(s) - 1)
    BY <1>2, <2>1 DEF Handled
  <2>3. t[Len(t)] = s[Len(s)]
    BY <1>1, <2>1
  <2> QED BY <2>1, <2>2, <2>3
<1>3. ASSUME ForKey(s), s[1].fn # "binding" PROVE ForKey(t)
  <2>1. Len(s) # 2
    BY <1>1, <1>3 DEF ForKey
  <2>2. Len(t) > 1 /\ Len(t) - 1 \in 1..Len(s) - 1 /\ (Len(t) - 1) + 1 = Len(s) - 1
    BY <1>1, <1>3, <2>1 DEF ForKey
  <2>3. t[Len(t) - 1] = s[Len(s) - 1]
    BY <1>1, <2>2
  <2> QED BY <1>3, <2>2, <2>3 DEF ForKey
<1> QED BY <1>2, <1>3 DEF Handled, t

\* A frame that goes on.
LEMMA HandledReplaced ==
  ASSUME NEW S, NEW s \in Seq(S), s # <<>>, NEW f \in S, f.fn = s[1].fn, NEW r, Handled(s, r)
  PROVE  Handled(<<f>> \o Tail(s), r) /\ (ForKey(s) => ForKey(<<f>> \o Tail(s)))
<1> DEFINE t == <<f>> \o Tail(s)
<1>1. Tail(s) \in Seq(S) /\ Len(Tail(s)) = Len(s) - 1 /\ Len(s) \in Nat \ {0}
      /\ \A i \in 1..Len(s) - 1: Tail(s)[i] = s[i + 1]
  BY Popped
<1>2. Len(t) = Len(Tail(s)) + 1 /\ t[1] = f /\ \A i \in 2..Len(t): t[i] = Tail(s)[i - 1]
  BY <1>1, Pushed
<1> HIDE DEF t
<1>3. Len(t) = Len(s)
  BY <1>1, <1>2
<1>4. ASSUME NEW i \in 1..Len(s) PROVE t[i].fn = s[i].fn
  <2>1. CASE i = 1
    BY <1>2, <2>1
  <2>2. CASE i # 1
    <3>1. i \in 2..Len(t) /\ i - 1 \in 1..Len(s) - 1 /\ (i - 1) + 1 = i
      BY <1>1, <1>3, <2>2
    <3> QED BY <1>1, <1>2, <3>1
  <2> QED BY <2>1, <2>2
<1>5. Len(s) \in 1..Len(s) /\ (Len(s) > 1 => Len(s) - 1 \in 1..Len(s))
  BY <1>1
<1>6. Handled(t, r)
  BY <1>3, <1>4, <1>5 DEF Handled
<1>7. ForKey(s) => ForKey(t)
  BY <1>3, <1>4, <1>5 DEF ForKey
<1> QED BY <1>6, <1>7 DEF t

\* The frames of a state, and one more.
LEMMA FramesAnd ==
  ASSUME SafeInv, NEW f
  PROVE  \E S: stack \in Seq(S) /\ f \in S
<1> DEFINE S == FramesOf(Len(heap), Len(nodes)) \cup {f}
<1>1. stack \in Seq(S) /\ f \in S
  BY DEF SafeInv, ControlInv
<1> HIDE DEF S
<1> QED BY <1>1

\* A step of what is executed: the frame of a binding stays where it is.
ChainStays ==
  /\ current_binding' = current_binding /\ rehandled' = rehandled /\ ctl'.at # "handle"
  /\ \/ ctl.at \in {"lines", "call", "bind", "types", "store"}
     \/ ctl.at = "return" /\ stack # <<>> /\ stack[1].fn \in {"conf", "unbound", "binding", "group"}
  /\ \/ stack' = stack
     \/ stack # <<>> /\ stack[1].fn # "binding" /\ stack' = Tail(stack)
     \/ \E f: f.fn # "binding" /\ stack' = <<f>> \o stack
     \/ \E f: stack # <<>> /\ f.fn = stack[1].fn /\ stack' = <<f>> \o Tail(stack)

\* It leaves the chain what it was.
LEMMA ChainStaying ==
  ASSUME SafeInv, ChainInv, ChainStays
  PROVE  ChainInv'
<1>1. ctl.at \notin {"fault", "exited"} /\ ctl.at # "handle" /\ ctl.at # "poll"
  BY DEF ChainStays
<1>2. Handled(stack, rehandled) /\ (rehandled \/ ForKey(stack) \/ current_binding = Null)
  <2>1. ASSUME ctl.at = "return" PROVE Len(stack) \notin {0, 1}
    <3>1. stack # <<>> /\ Top = stack[1] /\ ~IsBottom(stack[1])
      BY <1>1, <2>1, TopIsKnown DEF ChainStays, IsBottom
    <3>2. Tail(stack) # <<>>
      BY <1>1, <3>1, TopIsKnown DEF FrameFits
    <3> QED BY <1>1, <3>1, <3>2, TopIsKnown, RunningIs
  <2> QED BY <1>1, <2>1 DEF ChainInv, ChainOK
<1>3. \E S: stack \in Seq(S)
  BY DEF SafeInv, ControlInv
<1>4. Handled(stack', rehandled) /\ (ForKey(stack) => ForKey(stack'))
  <2>1. CASE stack' = stack
    BY <1>2, <2>1
  <2>2. CASE stack # <<>> /\ stack[1].fn # "binding" /\ stack' = Tail(stack)
    BY <1>2, <1>3, <2>2, HandledPopped
  <2>3. ASSUME NEW f, f.fn # "binding", stack' = <<f>> \o stack
        PROVE  Handled(stack', rehandled) /\ (ForKey(stack) => ForKey(stack'))
    <3>1. PICK S: stack \in Seq(S) /\ f \in S
      BY FramesAnd
    <3> QED BY <1>2, <2>3, <3>1, HandledPushed
  <2>4. ASSUME NEW f, stack # <<>>, f.fn = stack[1].fn, stack' = <<f>> \o Tail(stack)
        PROVE  Handled(stack', rehandled) /\ (ForKey(stack) => ForKey(stack'))
    <3>1. PICK S: stack \in Seq(S) /\ f \in S
      BY FramesAnd
    <3> QED BY <1>2, <2>4, <3>1, HandledReplaced
  <2> QED BY <2>1, <2>2, <2>3, <2>4 DEF ChainStays
<1> QED BY <1>2, <1>4 DEF ChainInv, ChainOK, ChainStays

\* The steps that leave it.
LEMMA ChainKept ==
  ASSUME SafeInv,
         \/ ReadLine \/ LineReturn \/ LinesEnd \/ LineInvalid
         \/ BindingRepeat \/ UnboundReturn \/ CallFreed \/ StoreFreed
         \/ CallOther \/ CallEvaluate \/ CallGroup \/ GroupReturn
         \/ CallBind \/ BindStore \/ CallUnbound \/ UnboundRelease \/ UnboundStore \/ CallUnbind
  PROVE  ctl'.at = "fault" \/ ChainStays
<1>0. ctl \in [at: Places, call: 1..Len(heap) \cup {Null}]
  BY DEF SafeInv, ControlInv
<1>1. CASE ReadLine
  <2> DEFINE f == [fn |-> "conf", call |-> Len(heap) + 1]
  <2>1. ctl.at = "lines" /\ stack' = <<f>> \o stack /\ f.fn # "binding" /\ ctl'.at # "handle"
        /\ UNCHANGED <<current_binding, rehandled>>
    BY <1>1 DEF ReadLine, Push, Call
  <2> HIDE DEF f
  <2> QED BY <2>1 DEF ChainStays
<1>2. CASE LinesEnd
  <2>1. ctl.at = "lines" /\ stack[1].fn = "lines" /\ stack # <<>>
    BY <1>2, RunningIs DEF LinesEnd, PlaceOK
  <2> QED BY <1>2, <2>1 DEF LinesEnd, Pop, At, ChainStays
<1>3. CASE LineInvalid
  BY <1>0, <1>3 DEF LineInvalid, Fault, ChainStays
<1>4. CASE LineReturn \/ UnboundReturn \/ BindingRepeat \/ GroupReturn
  <2>1. ctl.at = "return" /\ stack # <<>> /\ ctl.at \notin {"fault", "exited"}
        /\ UNCHANGED <<current_binding, rehandled>>
    BY <1>4 DEF LineReturn, UnboundReturn, BindingRepeat, GroupReturn, Returning, TopIs
  <2>2. Top = stack[1] /\ Top \in FramesOf(Len(heap), Len(nodes))
    BY <2>1, TopIsKnown
  <2>3. CASE LineReturn \/ UnboundReturn
    <3>1. Top.fn \in {"conf", "unbound"} /\ stack' = Tail(stack) /\ (ctl' = At("lines") \/ ctl' = ctl)
      BY <2>3 DEF LineReturn, UnboundReturn, Returning, TopIs, Pop
    <3>2. ctl'.at # "handle"
      BY <2>1, <3>1 DEF At
    <3> QED BY <2>1, <2>2, <3>1, <3>2 DEF ChainStays
  <2>4. CASE BindingRepeat
    <3> DEFINE f == [Top EXCEPT !.left = @ - 1]
    <3>1. stack' = <<f>> \o Tail(stack) /\ ctl' = Call(Top.call) /\ Top.fn = "binding"
      BY <2>4 DEF BindingRepeat, Returning, TopIs
    <3>2. f.fn = stack[1].fn /\ ctl'.at = "call"
      BY <2>2, <3>1, FrameIs DEF Call
    <3> HIDE DEF f
    <3> QED BY <2>1, <2>2, <3>1, <3>2 DEF ChainStays
  <2>5. CASE GroupReturn
    <3>1. Top.fn = "group" /\ Top \in [fn: {"group"}, call: 1..Len(heap), last: Nat]
      BY <2>2, <2>5, FrameIs DEF GroupReturn, Returning, TopIs
    <3>2. \/ ctl' = Fault
          \/ \E i: \E a: ctl' = Call(a) /\ stack' = <<[Top EXCEPT !.last = i]>> \o Tail(stack)
          \/ ctl' = ctl /\ stack' = Tail(stack)
      BY <2>5 DEF GroupReturn, Pop
    <3>3. ASSUME NEW i, NEW a, ctl' = Call(a), stack' = <<[Top EXCEPT !.last = i]>> \o Tail(stack)
          PROVE  ChainStays
      <4> DEFINE f == [Top EXCEPT !.last = i]
      <4>1. f.fn = stack[1].fn /\ ctl'.at = "call" /\ stack' = <<f>> \o Tail(stack)
        BY <2>2, <3>1, <3>3 DEF Call
      <4> HIDE DEF f
      <4> QED BY <2>1, <2>2, <3>1, <4>1 DEF ChainStays
    <3>4. CASE ctl' = Fault
      BY <1>0, <3>4 DEF Fault
    <3>5. CASE ctl' = ctl /\ stack' = Tail(stack)
      BY <2>1, <2>2, <3>1, <3>5 DEF ChainStays
    <3> QED BY <3>2, <3>3, <3>4, <3>5
  <2> QED BY <1>4, <2>3, <2>4, <2>5
<1>5. CASE CallFreed \/ StoreFreed
  BY <1>0, <1>5 DEF CallFreed, StoreFreed, Fault
<1>6. CASE CallOther \/ CallEvaluate \/ CallGroup
  <2> DEFINE f == IF CallEvaluate THEN [fn |-> "lines", call |-> ctl.call]
                                  ELSE [fn |-> "group", call |-> ctl.call, last |-> 1]
  <2>1. f.fn # "binding"
    OBVIOUS
  <2>2. /\ ctl.at = "call" /\ (stack' = stack \/ stack' = <<f>> \o stack)
        /\ UNCHANGED <<current_binding, rehandled>>
        /\ ctl' = At("return") \/ ctl' = At("lines") \/ \E a: ctl' = Call(a)
    BY <1>6 DEF CallOther, CallEvaluate, CallGroup, Calling, Push
  <2> HIDE DEF f
  <2>3. ctl'.at # "handle"
    BY <2>2 DEF At, Call
  <2> QED BY <2>1, <2>2, <2>3 DEF ChainStays
<1>7. CASE CallBind \/ BindStore \/ UnboundRelease \/ CallUnbound
  <2>1. ctl'.at # "handle"
    BY <1>0, <1>7 DEF CallBind, BindStore, UnboundRelease, CallUnbound, At
  <2> QED BY <1>7, <2>1 DEF CallBind, BindStore, UnboundRelease, CallUnbound, Calling, Push, ChainStays
<1>8. CASE CallUnbind
  <2>1. ctl' = At("return") \/ ctl' = Fault
    BY <1>8 DEF CallUnbind, UnbindFinds, UnbindFindsNothing
  <2>2. ctl'.at \in {"return", "fault"}
    BY <1>0, <2>1 DEF At, Fault
  <2> QED BY <1>8, <2>2 DEF CallUnbind, Calling, ChainStays
<1>9. CASE UnboundStore
  <2>1. ctl.at = "store" /\ ctl.at \notin {"fault", "exited"} /\ UNCHANGED <<current_binding, rehandled>>
    BY <1>9 DEF UnboundStore
  <2>2. stack # <<>> /\ Top = stack[1] /\ stack[1].fn = "types" /\ Top \in FramesOf(Len(heap), Len(nodes))
    BY <2>1, RunningIs, TopIsKnown DEF PlaceOK
  <2> DEFINE f == [Top EXCEPT !.types = Tail(@)]
  <2>3. \/ ctl' = At("return") /\ stack' = Tail(stack)
        \/ ctl' = [ctl EXCEPT !.at = "types"] /\ stack' = <<f>> \o Tail(stack)
    BY <1>9 DEF UnboundStore, Pop
  <2>4. f.fn = stack[1].fn
    BY <2>2, FrameIs
  <2>5. ctl'.at # "handle"
    BY <1>0, <2>3 DEF At
  <2> HIDE DEF f
  <2> QED BY <2>1, <2>2, <2>3, <2>4, <2>5 DEF ChainStays
<1> QED BY <1>1, <1>2, <1>3, <1>4, <1>5, <1>6, <1>7, <1>8, <1>9

\* A key is read: what chain is open is looked at in the next step.
LEMMA ChainRead ==
  ASSUME SafeInv, ReadKey
  PROVE  ChainInv'
<1>1. stack = <<>> /\ ctl' = At("handle")
  BY RunningIs DEF ReadKey
<1>2. PICK k \in Keys: stack' = <<[fn |-> "main", call |-> Null, key |-> k]>> \o stack
  BY DEF ReadKey, Push
<1> DEFINE f == [fn |-> "main", call |-> Null, key |-> k]
<1>3. stack' = <<f>> /\ f.fn = "main"
  BY <1>1, <1>2
<1> HIDE DEF f
<1>4. Len(stack') = 1 /\ \A i \in 1..Len(stack'): stack'[i].fn # "binding"
  BY <1>3
<1> QED BY <1>1, <1>4 DEF ChainInv, Handled, At

\* A key is handled: the chain is closed, opened on a node of the tree, or left to the
\* command of the binding.
LEMMA ChainHandled ==
  ASSUME SafeInv, ChainInv, HandleBound \/ HandleUnbound
  PROVE  ChainInv'
<1>1. ctl.at = "handle" /\ nodes[From] # Freed /\ UNCHANGED <<nodes, rehandled>>
  BY DEF HandleBound, HandleUnbound
<1>2. Handled(stack, rehandled) /\ (rehandled \/ Len(stack) = 1)
  BY <1>1 DEF ChainInv
<1>3. stack # <<>> /\ stack[Len(stack)].fn = "main" /\ Key \in Keys
  BY <1>1, KeyIs
<1>4. CASE HandleUnbound
  <2>1. current_binding' = Null
    BY <1>4 DEF HandleUnbound
  <2>2. ctl'.at \in {"return", "call"} /\ (stack' = stack \/ \E f: f.fn = "unbound" /\ stack' = <<f>> \o stack)
    <3> DEFINE f == [fn |-> "unbound", call |-> unbound[KeyType[Key]]]
    <3>1. f.fn = "unbound"
      OBVIOUS
    <3>2. (stack' = stack /\ ctl' = At("return")) \/ (stack' = <<f>> \o stack /\ \E a: ctl' = Call(a))
      BY <1>4 DEF HandleUnbound, Push
    <3> HIDE DEF f
    <3> QED BY <3>1, <3>2 DEF At, Call
  <2>3. Handled(stack', rehandled)
    <3>1. ASSUME NEW f, f.fn = "unbound", stack' = <<f>> \o stack PROVE Handled(stack', rehandled)
      <4>1. PICK S: stack \in Seq(S) /\ f \in S
        BY FramesAnd
      <4>2. f.fn # "binding"
        BY <3>1
      <4> QED BY <1>2, <3>1, <4>1, <4>2, HandledPushed
    <3> QED BY <1>2, <2>2, <3>1
  <2> QED BY <1>1, <2>1, <2>2, <2>3 DEF ChainInv, ChainOK
<1>5. CASE HandleBound
  <2> DEFINE n == nodes[From].bindings[Key]
  <2>1. n \in 1..Len(nodes) /\ nodes[n] # Freed
    BY <1>1, <1>3, <1>5, FromIs DEF HandleBound
  <2>2. IF nodes[n].command = Null
        THEN ctl' = At("return") /\ current_binding' = Opened(n) /\ stack' = stack
        ELSE /\ \E left \in 0..MaxRepeat:
                  stack' = <<[fn |-> "binding", node |-> n, call |-> nodes[n].command, left |-> left]>> \o stack
             /\ ctl' = Call(nodes[n].command)
    BY <1>5 DEF HandleBound, Push
  <2> HIDE DEF n
  <2>3. CASE nodes[n].command = Null
    <3>1. /\ current_binding' = Null \/ (current_binding' = n /\ \E k \in Keys: nodes[n].bindings[k] # Null)
          /\ ctl'.at = "return" /\ stack' = stack
      BY <2>2, <2>3 DEF Opened, At
    <3>2. rehandled \/ ChainOK(nodes, current_binding', ctl', stack')
      BY <1>2, <2>1, <3>1 DEF ChainOK
    <3> QED BY <1>1, <1>2, <3>1, <3>2 DEF ChainInv
  <2>4. CASE nodes[n].command # Null
    <3>1. PICK left \in 0..MaxRepeat:
            stack' = <<[fn |-> "binding", node |-> n, call |-> nodes[n].command, left |-> left]>> \o stack
      BY <2>2, <2>4
    <3> DEFINE f == [fn |-> "binding", node |-> n, call |-> nodes[n].command, left |-> left]
    <3>2. stack' = <<f>> \o stack /\ f.fn = "binding" /\ ctl'.at = "call"
      BY <2>2, <2>4, <3>1 DEF Call
    <3> HIDE DEF f
    <3>3. PICK S: stack \in Seq(S) /\ f \in S
      BY FramesAnd
    <3>4. Handled(stack', rehandled) /\ (rehandled \/ ForKey(stack'))
      BY <1>2, <1>3, <3>2, <3>3, HandledPushed
    <3> QED BY <1>1, <3>2, <3>4 DEF ChainInv, ChainOK
  <2> QED BY <2>3, <2>4
<1> QED BY <1>4, <1>5

\* The command of a binding has returned: the chain is opened on the node of the binding,
\* which was looked at.
LEMMA ChainOpened ==
  ASSUME SafeInv, ChainInv, BindingReturn, ctl'.at # "fault"
  PROVE  ChainInv'
<1>0. ctl \in [at: Places, call: 1..Len(heap) \cup {Null}]
  BY DEF SafeInv, ControlInv
<1>1. /\ ctl.at = "return" /\ stack # <<>> /\ Top.fn = "binding" /\ ctl.at \notin {"fault", "exited"}
      /\ UNCHANGED <<nodes, rehandled>>
      /\ \/ ctl' = Fault
         \/ nodes[Top.node] # Freed /\ ctl' = ctl /\ current_binding' = Opened(Top.node) /\ stack' = Tail(stack)
  BY DEF BindingReturn, Returning, TopIs, Pop
<1>2. nodes[Top.node] # Freed /\ ctl' = ctl /\ current_binding' = Opened(Top.node) /\ stack' = Tail(stack)
  BY <1>0, <1>1 DEF Fault
<1>3. stack \in Seq(FramesOf(Len(heap), Len(nodes))) /\ Top = stack[1] /\ 1 \in 1..Len(stack)
  BY <1>1, TopIsKnown, RunningIs
<1>4. Handled(stack, rehandled)
  BY <1>1 DEF ChainInv
<1>5. Handled(stack', rehandled)
  BY <1>1, <1>2, <1>3, <1>4, HandledPopped
<1>6. rehandled \/ Len(stack') = 1
  <2>1. rehandled \/ 1 = Len(stack) - 1
    BY <1>1, <1>3, <1>4 DEF Handled
  <2>2. Len(stack') = Len(stack) - 1
    BY <1>1, <1>2, <1>3, Popped
  <2> QED BY <2>1, <2>2
<1>7. rehandled \/ ChainOK(nodes, current_binding', ctl', stack')
  BY <1>1, <1>2, <1>6 DEF ChainOK, Opened
<1> QED BY <1>1, <1>2, <1>5, <1>7 DEF ChainInv

\* Every step keeps what is known of the chain.
LEMMA ChainStep ==
  ASSUME SafeInv, ChainInv, [Next]_vars
  PROVE  ChainInv'
<1>0. ctl \in [at: Places, call: 1..Len(heap) \cup {Null}]
  BY DEF SafeInv, ControlInv
<1>1. CASE UNCHANGED vars
  BY <1>1 DEF vars, ChainInv
<1>2. CASE Release
  <2>1. UNCHANGED <<nodes, current_binding, stack, rehandled>> /\ (ctl' = Fault \/ ctl' = ctl)
    BY <1>2 DEF Release
  <2>2. CASE ctl' = Fault
    BY <1>0, <2>2 DEF Fault, ChainInv
  <2>3. CASE ctl' = ctl
    BY <2>1, <2>3 DEF ChainInv
  <2> QED BY <2>1, <2>2, <2>3
<1>3. CASE ReadKey
  BY <1>3, ChainRead
<1>4. CASE HandleFreed
  BY <1>0, <1>4 DEF HandleFreed, Fault, ChainInv
<1>5. CASE HandleBound \/ HandleUnbound
  BY <1>5, ChainHandled
<1>6. CASE KeyReturn
  <2>1. /\ ctl.at = "return" /\ stack # <<>> /\ Top.fn = "main" /\ stack' = Tail(stack) /\ ctl' = At("poll")
        /\ UNCHANGED <<nodes, current_binding, rehandled>> /\ ctl.at \notin {"fault", "exited"}
    BY <1>6 DEF KeyReturn, Returning, TopIs, Pop
  <2>2. Tail(stack) = <<>> /\ Len(stack) = 1
    BY <2>1, TopIsKnown DEF FrameFits, IsBottom
  <2>3. Len(stack') = 0
    BY <2>1, <2>2
  <2>4. rehandled \/ ChainOK(nodes, current_binding, ctl', stack')
    BY <2>1, <2>2, <2>3 DEF ChainInv, ChainOK, ForKey, At
  <2>5. Handled(stack', rehandled)
    BY <2>3 DEF Handled
  <2> QED BY <2>1, <2>4, <2>5 DEF ChainInv, At
<1>7. CASE BindingReturn
  <2>1. CASE ctl'.at = "fault"
    BY <2>1 DEF ChainInv
  <2>2. CASE ctl'.at # "fault"
    BY <1>7, <2>2, ChainOpened
  <2> QED BY <2>1, <2>2
<1>8. CASE CallRehandle
  <2>1. ctl.at = "call" /\ UNCHANGED <<nodes, current_binding, stack>>
    BY <1>8 DEF CallRehandle, Calling
  <2>2. CASE ctl' = At("return") /\ rehandled' = rehandled
    <3>1. ChainStays
      BY <2>1, <2>2 DEF ChainStays, At
    <3> QED BY <3>1, ChainStaying
  <2>3. CASE ctl' = At("handle") /\ rehandled' = TRUE
    BY <2>1, <2>3 DEF ChainInv, Handled, At
  <2> QED BY <1>8, <2>2, <2>3 DEF CallRehandle
<1>9. CASE ContextFree
  BY <1>9 DEF ContextFree, At, ChainInv
<1>10. ASSUME \/ ReadLine \/ LineReturn \/ LinesEnd \/ LineInvalid
              \/ BindingRepeat \/ UnboundReturn \/ CallFreed \/ StoreFreed
              \/ CallOther \/ CallEvaluate \/ CallGroup \/ GroupReturn
              \/ CallBind \/ BindStore \/ CallUnbound \/ UnboundRelease \/ UnboundStore \/ CallUnbind
       PROVE  ChainInv'
  <2>1. ctl'.at = "fault" \/ ChainStays
    BY <1>10, ChainKept
  <2>2. CASE ctl'.at = "fault"
    BY <2>2 DEF ChainInv
  <2> QED BY <2>1, <2>2, ChainStaying
<1>11. Stopped => UNCHANGED vars
  BY DEF Stopped
<1> QED BY <1>1, <1>2, <1>3, <1>4, <1>5, <1>6, <1>7, <1>8, <1>9, <1>10, <1>11 DEF Next, Step, StepReleasing

\* A chain of keys is open on live nodes when a key is read, unless the key before it was
\* handled more than once.
THEOREM ChainAlways == Spec => []ChainInv
<1>1. Init => ChainInv
  <2>1. ASSUME Init PROVE ChainInv
    <3> DEFINE f == [fn |-> "lines", call |-> Null]
    <3>1. stack = <<f>> /\ f.fn = "lines" /\ current_binding = Null /\ ctl.at = "lines"
      BY <2>1 DEF Init, At
    <3> HIDE DEF f
    <3>2. \A i \in 1..Len(stack): stack[i].fn # "binding"
      BY <3>1
    <3> QED BY <3>1, <3>2 DEF ChainInv, Handled, ChainOK
  <2> QED BY <2>1
<1>2. SafeInv /\ ChainInv /\ [Next]_vars => ChainInv'
  BY ChainStep
<1> QED BY <1>1, <1>2, SafeAlways, PTL DEF Spec

-----------------------------------------------------------------------------
(* What a fault comes from. *)

\* The second part of FaultsHaveCauses.
FaultInv ==
  ctl.at = "fault" =>
    /\ \/ unbinds \cap {"size", "shared"} # {}
       \/ \E a \in Running \ {Null}: heap[a] = Freed
       \/ \E n \in NodesInUse: nodes[n] = Freed
       \/ ctl.call = Null /\ ChainIsFreed
    /\ (stack # <<>> /\ stack[Len(stack)].fn = "lines") => unbinds # {}

\* How a step comes to a fault.
Faulting ==
  /\ heap' = heap /\ nodes' = nodes /\ stack' = stack /\ current_binding' = current_binding
  /\ ctl'.call = ctl.call /\ unbinds \subseteq unbinds'
  /\ \/ "size" \in unbinds' \/ "shared" \in unbinds
     \/ \E i \in 1..Len(stack): stack[i].call # Null /\ heap[stack[i].call] = Freed
     \/ Executing(ctl) /\ heap[ctl.call] = Freed
     \/ /\ stack # <<>> /\ stack[1].fn = "binding" /\ nodes[stack[1].node] = Freed
        /\ stack[Len(stack)].fn = "main"
     \/ ctl.call = Null /\ ChainIsFreed /\ stack[Len(stack)].fn = "main"

\* A step comes to a fault in one of these ways only.
LEMMA FaultFrom ==
  ASSUME SafeInv, ChainInv, [Next]_vars, ctl.at # "fault", ctl'.at = "fault"
  PROVE  Faulting
<1>0. /\ ctl \in [at: Places, call: 1..Len(heap) \cup {Null}] /\ stack \in Seq(FramesOf(Len(heap), Len(nodes)))
      /\ DOMAIN stack = 1..Len(stack) /\ Len(stack) \in Nat
  BY DEF SafeInv, ControlInv
<1>1. Fault.call = ctl.call
  BY <1>0 DEF Fault
<1>2. CASE releases # {} /\ Release
  <2>1. UNCHANGED <<nodes, stack, current_binding, unbinds>>
    BY <1>2 DEF Release
  <2>2. PICK r \in releases: heap[r.call] = Freed /\ ctl' = Fault /\ UNCHANGED <<heap, releases>>
    BY <1>2, ReleaseIs
  <2>3. "shared" \in unbinds
    BY <2>2, HeldIs DEF SafeInv
  <2> QED BY <1>1, <2>1, <2>2, <2>3 DEF Faulting
<1>3. CASE LineInvalid
  <2>1. /\ UNCHANGED <<heap, nodes, stack, current_binding, unbinds>> /\ ctl.at = "lines" /\ Top.call # Null
        /\ (ctl' = Fault /\ heap[Top.call] = Freed) \/ ctl' = ctl
    BY <1>3 DEF LineInvalid
  <2>2. ctl' = Fault /\ heap[Top.call] = Freed
    BY <2>1
  <2>3. ctl.at \notin {"fault", "exited"} /\ stack # <<>>
    BY <2>1, RunningIs
  <2>4. Top = stack[1] /\ 1 \in 1..Len(stack)
    BY <1>0, <2>3, TopIsKnown
  <2> QED BY <1>1, <2>1, <2>2, <2>4 DEF Faulting
<1>4. CASE GroupReturn
  <2>1. /\ UNCHANGED <<heap, nodes, current_binding, unbinds>> /\ ctl.at = "return" /\ stack # <<>> /\ Top.fn = "group"
        /\ \/ heap[Top.call] = Freed /\ ctl' = Fault /\ stack' = stack
           \/ \E a: ctl' = Call(a)
           \/ ctl' = ctl
    BY <1>4 DEF GroupReturn, Returning, TopIs
  <2>2. heap[Top.call] = Freed /\ ctl' = Fault /\ stack' = stack
    BY <2>1 DEF Call
  <2>3. ctl.at \notin {"fault", "exited"}
    BY <2>1
  <2>4. Top = stack[1] /\ 1 \in 1..Len(stack) /\ Top \in FramesOf(Len(heap), Len(nodes))
    BY <1>0, <2>1, <2>3, TopIsKnown
  <2>5. Top.call \in 1..Len(heap) /\ Top.call # Null
    BY <2>1, <2>3, <2>4, FrameIs, RunningIs
  <2> QED BY <1>1, <2>1, <2>2, <2>4, <2>5 DEF Faulting
<1>5. CASE BindingReturn
  <2>1. /\ UNCHANGED <<heap, nodes, unbinds>> /\ ctl.at = "return" /\ stack # <<>> /\ Top.fn = "binding"
        /\ \/ nodes[Top.node] = Freed /\ ctl' = Fault /\ UNCHANGED <<current_binding, stack>>
           \/ ctl' = ctl
    BY <1>5 DEF BindingReturn, Returning, TopIs
  <2>2. nodes[Top.node] = Freed /\ ctl' = Fault /\ UNCHANGED <<current_binding, stack>>
    BY <2>1
  <2>3. ctl.at \notin {"fault", "exited"} /\ 1 \in 1..Len(stack)
    BY <1>0, <2>1
  <2>4. stack[1] = Top
    BY <2>1, <2>3, TopIsKnown
  <2>5. stack[Len(stack)].fn = "main"
    BY <2>1, <2>3, <2>4 DEF ChainInv, Handled
  <2> QED BY <1>1, <2>1, <2>2, <2>4, <2>5 DEF Faulting
<1>6. CASE CallFreed
  <2>1. UNCHANGED <<heap, nodes, stack, current_binding, unbinds>> /\ ctl.at = "call" /\ heap[ctl.call] = Freed /\ ctl' = Fault
    BY <1>6 DEF CallFreed
  <2>2. Executing(ctl)
    BY <2>1 DEF Executing
  <2> QED BY <1>1, <2>1, <2>2 DEF Faulting
<1>7. CASE StoreFreed
  <2>1. UNCHANGED <<heap, nodes, stack, current_binding, unbinds>> /\ ctl.at \in {"bind", "store"} /\ ArgumentFreed /\ ctl' = Fault
    BY <1>7 DEF StoreFreed
  <2>2. Executing(ctl) /\ ctl.at \notin {"fault", "exited"}
    BY <2>1 DEF Executing
  <2>3. CASE heap[ctl.call] = Freed
    BY <1>1, <2>1, <2>2, <2>3 DEF Faulting
  <2>4. CASE heap[ctl.call] # Freed
    <3>1. heap[heap[ctl.call].kids[1]] = Freed
      BY <2>1, <2>4 DEF ArgumentFreed, Argument
    <3>2. ctl.call \in 1..Len(heap) /\ PlaceOK(heap, nodes, unbound, ctl, stack)
      BY <2>2, RunningIs
    <3>3. Program[heap[ctl.call].text].op \in {"bind", "unbound"}
      BY <2>1, <2>4, <3>2 DEF PlaceOK
    <3>4. 1 \in 1..Len(heap[ctl.call].kids)
      BY <2>4, <3>2, <3>3, GroupKids
    <3>5. "shared" \in unbinds
      BY <2>4, <3>1, <3>2, <3>4, HeldIs DEF SafeInv
    <3> QED BY <1>1, <2>1, <3>5 DEF Faulting
  <2> QED BY <2>3, <2>4
<1>8. CASE CallUnbind
  <2>1. /\ UNCHANGED <<heap, stack, current_binding>> /\ unbinds \subseteq unbinds'
        /\ \/ ctl' = At("return")
           \/ ctl' = Fault /\ unbinds' = unbinds \cup {"size"} /\ nodes' = nodes
    BY <1>8 DEF CallUnbind, UnbindFinds, UnbindFindsNothing
  <2>2. ctl' = Fault /\ unbinds' = unbinds \cup {"size"} /\ nodes' = nodes
    BY <2>1 DEF At
  <2> QED BY <1>1, <2>1, <2>2 DEF Faulting
<1>9. CASE ReadLine \/ LineReturn \/ LinesEnd
  BY <1>9 DEF ReadLine, LineReturn, LinesEnd, At, Call
<1>10. CASE HandleFreed
  <2>1. /\ ctl.at = "handle" /\ nodes[From] = Freed /\ ctl' = Fault
        /\ UNCHANGED <<heap, nodes, stack, current_binding, unbinds>>
    BY <1>10 DEF HandleFreed
  <2>2. ctl.at \notin {"fault", "exited"}
    BY <2>1
  <2>3. nodes[Root] # Freed
    BY <2>2, RunningIs DEF TreeOK, LinksOK
  <2>4. ChainIsFreed
    BY <2>1, <2>3 DEF From, ChainIsFreed
  <2>5. ctl.call = Null /\ stack[Len(stack)].fn = "main"
    BY <2>1, <2>2, KeyIs DEF ChainInv
  <2> QED BY <1>1, <2>1, <2>4, <2>5 DEF Faulting
<1>11. CASE \/ ReadKey \/ HandleBound \/ HandleUnbound \/ KeyReturn
            \/ BindingRepeat \/ UnboundReturn \/ CallOther \/ CallRehandle \/ CallEvaluate \/ CallGroup
  <2>1. ctl' = ctl \/ (\E place \in Places \ {"fault"}: ctl' = At(place)) \/ (\E a: ctl' = Call(a))
    BY <1>11 DEF ReadKey, HandleBound, HandleUnbound, KeyReturn, BindingRepeat, UnboundReturn, CallOther,
                 CallRehandle, CallEvaluate, CallGroup, Places
  <2> QED BY <2>1 DEF At, Call
<1>12. CASE CallBind \/ BindStore \/ CallUnbound \/ UnboundRelease \/ UnboundStore
  <2>1. ctl' = At("return") \/ ctl' = [ctl EXCEPT !.at = "bind"] \/ ctl' = [ctl EXCEPT !.at = "types"]
        \/ ctl' = [ctl EXCEPT !.at = "store"]
    BY <1>12 DEF CallBind, BindStore, CallUnbound, UnboundRelease, UnboundStore
  <2> QED BY <1>0, <2>1 DEF At
<1>13. CASE ContextFree
  BY <1>13 DEF ContextFree, At
<1>14. CASE UNCHANGED vars
  BY <1>14 DEF vars
<1>15. Stopped => UNCHANGED vars
  BY DEF Stopped
<1> QED BY <1>2, <1>3, <1>4, <1>5, <1>6, <1>7, <1>8, <1>9, <1>10, <1>11, <1>12, <1>13, <1>14, <1>15
        DEF Next, Step, StepReleasing

\* Every step leaves a fault with its cause.
LEMMA FaultStep ==
  ASSUME SafeInv, StartInv, ChainInv, FaultInv, [Next]_vars
  PROVE  FaultInv'
<1>1. CASE ctl.at = "fault"
  <2>1. ~Release
    BY <1>1 DEF Release
  <2>2. ~Step
    BY <1>1 DEF Step, ReadLine, LinesEnd, LineInvalid, ReadKey, HandleFreed, HandleBound, HandleUnbound,
                KeyReturn, BindingRepeat, BindingReturn, UnboundReturn, CallFreed, CallOther, CallRehandle,
                CallEvaluate, CallGroup, GroupReturn, BindStore, CallUnbound, UnboundStore, StoreFreed,
                Returning, Calling
  <2>3. ~StepReleasing
    BY <1>1 DEF StepReleasing, LineReturn, CallBind, UnboundRelease, CallUnbind, ContextFree, Returning, Calling
  <2>4. UNCHANGED vars
    BY <2>1, <2>2, <2>3 DEF Next, Stopped
  <2> QED BY <2>4 DEF vars, FaultInv, Running, NodesInUse, ChainIsFreed
<1>2. CASE ctl.at # "fault" /\ ctl'.at = "fault"
  <2>1. Faulting
    BY <1>2, FaultFrom
  <2>2. DOMAIN stack = 1..Len(stack) /\ Len(stack) \in Nat
    BY DEF SafeInv, ControlInv
  <2>3. Running' = Running /\ NodesInUse' = NodesInUse /\ ChainIsFreed' = ChainIsFreed
    BY <2>1 DEF Faulting, Running, NodesInUse, ChainIsFreed
  <2>4. \A i \in 1..Len(stack): stack[i].call \in Running
    BY <2>2 DEF Running
  <2>5. ctl.call \in Running
    BY DEF Running
  <2>6. Executing(ctl) => ctl.call # Null
    BY <1>2 DEF SafeInv, ControlInv, PlaceOK
  <2>7. stack # <<>> /\ stack[1].fn = "binding" => stack[1].node \in NodesInUse
    <3>1. stack # <<>> => 1 \in DOMAIN stack
      BY <2>2 DEF SafeInv, ControlInv
    <3> QED BY <3>1 DEF NodesInUse
  <2>8. \/ unbinds' \cap {"size", "shared"} # {}
        \/ \E a \in Running \ {Null}: heap[a] = Freed
        \/ \E n \in NodesInUse: nodes[n] = Freed
        \/ ctl.call = Null /\ ChainIsFreed
    BY <2>1, <2>4, <2>5, <2>6, <2>7 DEF Faulting
  <2>9. ASSUME stack # <<>>, stack[Len(stack)].fn = "lines", unbinds' = {}
        PROVE  FALSE
    <3>1. Starting(stack, unbinds) /\ "size" \notin unbinds' /\ "shared" \notin unbinds
      BY <2>1, <2>9 DEF Starting, Faulting
    <3>2. /\ \A i \in 1..Len(stack): stack[i].call # Null => heap[stack[i].call] # Freed
          /\ Executing(ctl) => heap[ctl.call] # Freed
      BY <1>2, <3>1, StartLive
    <3> QED BY <2>1, <2>9, <3>1, <3>2 DEF Faulting
  <2> QED BY <2>1, <2>3, <2>8, <2>9 DEF FaultInv, Faulting
<1>3. CASE ctl'.at # "fault"
  BY <1>3 DEF FaultInv
<1> QED BY <1>1, <1>2, <1>3

\* Freed memory is used only by what has replaced itself, by what an unbind has freed or
\* left behind, or by a chain of keys that is open on freed nodes, which a key that is
\* handled once does not leave, nor one that no key continues, for every configuration; and never at the start unless
\* unbind has gone wrong.
THEOREM FaultsCorrect == Spec => []FaultsHaveCauses
<1>1. Init => FaultInv
  BY DEF Init, At, FaultInv
<1>2. SafeInv /\ StartInv /\ ChainInv /\ FaultInv /\ [Next]_vars => FaultInv'
  BY FaultStep
<1>3. SafeInv /\ ChainInv /\ FaultInv => FaultsHaveCauses
  <2>1. ASSUME SafeInv, ChainInv, ctl.at = "poll", ChainIsDead PROVE rehandled
    <3>1. stack = <<>>
      BY <2>1, RunningIs
    <3>2. ~ForKey(stack)
      BY <3>1 DEF ForKey
    <3> QED BY <2>1, <3>2 DEF ChainInv, ChainOK, ChainIsDead, ChainIsFreed, Opened
  <2> QED BY <2>1 DEF FaultInv, FaultsHaveCauses
<1> QED BY <1>1, <1>2, <1>3, SafeAlways, StartAlways, ChainAlways, PTL DEF Spec

-----------------------------------------------------------------------------
(* What is bound is what was said last. *)

\* The chains of keys that the commands have.
Chains == {Program[t].keys: t \in Texts}
Said == [keys: [Chains -> Texts \cup {Null}], types: [Types -> Texts \cup {Null}]]
TextOf(H, a) == IF a = Null THEN Null ELSE IF H[a] = Freed THEN Freed ELSE H[a].text

\* What bind and unbound will still store, when what was there before is being released.
KeyDue(H, c, keys) == c.at = "bind" /\ (H[c.call] = Freed \/ Program[H[c.call].text].keys = keys)
TypeDue(c, s, t) == c.at = "store" /\ t = Head(Head(s).types)
KeyMeant(H, N, m, keys) == TextOf(H, CommandOf(N, keys)) = m.keys[keys]
TypeMeant(H, U, m, t) == TextOf(H, U[t]) = m.types[t]
AllMeant(H, N, U, c, s, m) ==
  /\ \A keys \in Chains \ {<<>>}: KeyDue(H, c, keys) \/ KeyMeant(H, N, m, keys)
  /\ \A t \in Types: TypeDue(c, s, t) \/ TypeMeant(H, U, m, t)
MeantInv ==
  /\ meant \in Said
  /\ unbinds = {} /\ ctl.at \notin {"exited", "fault"} => AllMeant(heap, nodes, unbound, ctl, stack, meant)

\* The chains are keys.
LEMMA ChainsAreKeys ==
  ASSUME NEW keys \in Chains
  PROVE  keys \in Seq(Keys)
<1>1. PICK t \in Texts: keys = Program[t].keys
  BY DEF Chains
<1>2. WellFormed(Program[t])
  BY TextsAssumption
<1> QED BY <1>1, <1>2, WellFormedIs

\* Something else is said of one chain, and of one type.
SaidOfKeys(m, g, keys, x) ==
  /\ g \in Said /\ g.keys[keys] = x /\ g.types = m.types
  /\ \A others \in Chains: others # keys => g.keys[others] = m.keys[others]
SaidOfType(m, g, t, x) ==
  /\ g \in Said /\ g.types[t] = x /\ g.keys = m.keys
  /\ \A u \in Types: u # t => g.types[u] = m.types[u]

\* To say something of a chain of keys leaves the others what they are.
LEMMA KeysSaid ==
  ASSUME NEW m \in Said, NEW keys \in Chains, NEW x \in Texts \cup {Null}
  PROVE  SaidOfKeys(m, [m EXCEPT !.keys[keys] = x], keys, x)
<1> DEFINE g == [m EXCEPT !.keys[keys] = x]
<1> DEFINE X == Texts \cup {Null}
<1>1. m \in [keys: [Chains -> X], types: [Types -> X]]
  BY DEF Said
<1> HIDE DEF X
<1>2. g.keys = [m.keys EXCEPT ![keys] = x] /\ g.types = m.types /\ g = [keys |-> g.keys, types |-> g.types]
  BY <1>1
<1>3. m.keys \in [Chains -> X] /\ m.types \in [Types -> X] /\ x \in X
  BY <1>1 DEF X
<1>4. g.keys \in [Chains -> X] /\ g.keys[keys] = x /\ \A others \in Chains: others # keys => g.keys[others] = m.keys[others]
  BY <1>2, <1>3
<1>5. g \in [keys: [Chains -> X], types: [Types -> X]]
  BY <1>2, <1>3, <1>4
<1> HIDE DEF g
<1>6. SaidOfKeys(m, g, keys, x)
  BY <1>2, <1>4, <1>5 DEF SaidOfKeys, Said, X
<1> QED BY <1>6 DEF g

\* To say something of a type leaves the others what they are.
LEMMA TypeSaid ==
  ASSUME NEW m \in Said, NEW t \in Types, NEW x \in Texts \cup {Null}
  PROVE  SaidOfType(m, [m EXCEPT !.types[t] = x], t, x)
<1> DEFINE g == [m EXCEPT !.types[t] = x]
<1> DEFINE X == Texts \cup {Null}
<1>1. m \in [keys: [Chains -> X], types: [Types -> X]]
  BY DEF Said
<1> HIDE DEF X
<1>2. g.types = [m.types EXCEPT ![t] = x] /\ g.keys = m.keys /\ g = [keys |-> g.keys, types |-> g.types]
  BY <1>1
<1>3. m.keys \in [Chains -> X] /\ m.types \in [Types -> X] /\ x \in X
  BY <1>1 DEF X
<1>4. g.types \in [Types -> X] /\ g.types[t] = x /\ \A u \in Types: u # t => g.types[u] = m.types[u]
  BY <1>2, <1>3
<1>5. g \in [keys: [Chains -> X], types: [Types -> X]]
  BY <1>2, <1>3, <1>4
<1> HIDE DEF g
<1>6. SaidOfType(m, g, t, x)
  BY <1>2, <1>4, <1>5 DEF SaidOfType, Said, X
<1> QED BY <1>6 DEF g

\* What is bound is live.
LEMMA BoundLive ==
  ASSUME NEW N, NEW U, NEW H, NEW s, NEW R, NEW W, Pointed(H, Held(N, U, H, s), R, W), "shared" \notin W,
         TreeOK(N), NEW keys \in Seq(Keys), CommandOf(N, keys) # Null
  PROVE  CommandOf(N, keys) \in 1..Len(H) /\ H[CommandOf(N, keys)] # Freed
<1> DEFINE n == FoundOf(N, keys)
<1>1. n # Null /\ N[n].command # Null /\ CommandOf(N, keys) = N[n].command
  BY DEF CommandOf
<1>2. TreeWay(N, keys, WayOf(N, keys)) /\ Len(keys) \in 0..Len(keys) /\ n = WayOf(N, keys)[Len(keys)]
  BY WayFacts DEF FoundOf
<1>3. n \in DOMAIN N /\ N[n] # Freed
  BY <1>1, <1>2 DEF TreeWay
<1> HIDE DEF n
<1> DEFINE p == NPtr(N, n)
<1>4. p \in NP(N)
  BY <1>1, <1>3 DEF NP, NPOf
<1>5. p.call = N[n].command
  BY NPtrIs
<1> HIDE DEF p
<1>6. p \in Held(N, U, H, s) \cup R
  BY <1>4 DEF Held
<1>7. p.call \in 1..Len(H) /\ H[p.call] # Freed
  BY <1>6 DEF Pointed, Sound, Safe
<1> QED BY <1>1, <1>5, <1>7

\* What a type has is live, unless a pointer was left behind.
LEMMA TypeLive ==
  ASSUME NEW N, NEW U, NEW H, NEW s, NEW R, NEW W, Pointed(H, Held(N, U, H, s), R, W), "shared" \notin W,
         NEW t \in Types, U[t] # Null
  PROVE  U[t] \in 1..Len(H) /\ H[U[t]] # Freed
<1> DEFINE p == TPtr(U, t)
<1>1. p \in TP(U)
  BY DEF TP, TPOf
<1>2. p.call = U[t]
  BY TPtrIs
<1> HIDE DEF p
<1>3. p \in Held(N, U, H, s) \cup R
  BY <1>1 DEF Held
<1>4. p.call \in 1..Len(H) /\ H[p.call] # Freed
  BY <1>3 DEF Pointed, Sound, Safe
<1> QED BY <1>2, <1>4

\* What stays bound stays what it is.
LEMMA BoundText ==
  ASSUME SafeInv, SafeInv', "shared" \notin unbinds, "shared" \notin unbinds',
         ctl.at \notin {"fault", "exited"}, ctl'.at \notin {"fault", "exited"}, Later(heap, heap'),
         NEW keys \in Seq(Keys), CommandOf(nodes', keys) = CommandOf(nodes, keys)
  PROVE  TextOf(heap', CommandOf(nodes', keys)) = TextOf(heap, CommandOf(nodes, keys))
<1> DEFINE a == CommandOf(nodes, keys)
<1>1. CASE a = Null
  BY <1>1 DEF TextOf
<1>2. CASE a # Null
  <2>1. TreeOK(nodes) /\ Pointed(heap, Held(nodes, unbound, heap, stack), releases, unbinds)
    BY DEF SafeInv, DataInv, ControlInv
  <2>2. TreeOK(nodes') /\ Pointed(heap', Held(nodes', unbound', heap', stack'), releases', unbinds')
    BY DEF SafeInv, DataInv, ControlInv
  <2>3. a \in 1..Len(heap) /\ heap[a] # Freed
    BY <1>2, <2>1, BoundLive
  <2>4. heap'[a] # Freed
    BY <1>2, <2>2, BoundLive
  <2>5. heap'[a].text = heap[a].text
    BY <2>3, <2>4 DEF Later
  <2> HIDE DEF a
  <2>6. TextOf(heap', a) = TextOf(heap, a)
    BY <2>3, <2>4, <2>5 DEF TextOf
  <2> QED BY <2>6 DEF a
<1> QED BY <1>1, <1>2

\* The command of a type that stays the same has the same text.
LEMMA TypeText ==
  ASSUME SafeInv, SafeInv', "shared" \notin unbinds, "shared" \notin unbinds', Later(heap, heap'),
         NEW t \in Types, unbound'[t] = unbound[t]
  PROVE  TextOf(heap', unbound'[t]) = TextOf(heap, unbound[t])
<1> DEFINE a == unbound[t]
<1>1. CASE a = Null
  BY <1>1 DEF TextOf
<1>2. CASE a # Null
  <2>1. Pointed(heap, Held(nodes, unbound, heap, stack), releases, unbinds)
    BY DEF SafeInv, DataInv
  <2>2. Pointed(heap', Held(nodes', unbound', heap', stack'), releases', unbinds')
    BY DEF SafeInv, DataInv
  <2>3. a \in 1..Len(heap) /\ heap[a] # Freed
    BY <1>2, <2>1, TypeLive
  <2>4. heap'[a] # Freed
    BY <1>2, <2>2, TypeLive
  <2>5. heap'[a].text = heap[a].text
    BY <2>3, <2>4 DEF Later
  <2> HIDE DEF a
  <2>6. TextOf(heap', a) = TextOf(heap, a)
    BY <2>3, <2>4, <2>5 DEF TextOf
  <2> QED BY <2>6 DEF a
<1> QED BY <1>1, <1>2

\* The program runs before the step and after it, and unbind has not gone wrong.
Going ==
  unbinds = {} /\ unbinds' = {} /\ ctl.at \notin {"exited", "fault"} /\ ctl'.at \notin {"exited", "fault"}

\* A chain, and a type, about which nothing is said.
LEMMA KeyKept ==
  ASSUME SafeInv, SafeInv', MeantInv, Going, Later(heap, heap'), NEW keys \in Chains \ {<<>>},
         ~KeyDue(heap, ctl, keys), CommandOf(nodes', keys) = CommandOf(nodes, keys), meant'.keys[keys] = meant.keys[keys]
  PROVE  KeyMeant(heap', nodes', meant', keys)
<1>1. KeyMeant(heap, nodes, meant, keys)
  BY DEF MeantInv, AllMeant, Going
<1>2. keys \in Seq(Keys)
  BY ChainsAreKeys
<1>3. TextOf(heap', CommandOf(nodes', keys)) = TextOf(heap, CommandOf(nodes, keys))
  BY <1>2, BoundText DEF Going
<1> QED BY <1>1, <1>3 DEF KeyMeant

\* What was last said of a type stays true, if neither changes.
LEMMA TypeKept ==
  ASSUME SafeInv, SafeInv', MeantInv, Going, Later(heap, heap'), NEW t \in Types,
         ~TypeDue(ctl, stack, t), unbound'[t] = unbound[t], meant'.types[t] = meant.types[t]
  PROVE  TypeMeant(heap', unbound', meant', t)
<1>1. TypeMeant(heap, unbound, meant, t)
  BY DEF MeantInv, AllMeant, Going
<1>2. TextOf(heap', unbound'[t]) = TextOf(heap, unbound[t])
  BY TypeText DEF Going
<1> QED BY <1>1, <1>2 DEF TypeMeant

\* The steps that say nothing, store nothing and take nothing away.
LEMMA MeantKept ==
  ASSUME SafeInv, SafeInv', MeantInv, Going, Later(heap, heap'), UNCHANGED <<nodes, unbound, meant>>,
         \/ ctl.at \notin {"bind", "store"}
         \/ ctl' = ctl /\ stack' = stack /\ ctl.call \in 1..Len(heap)
  PROVE  AllMeant(heap', nodes', unbound', ctl', stack', meant')
<1>1. ASSUME NEW keys \in Chains \ {<<>>}, ~KeyDue(heap', ctl', keys) PROVE KeyMeant(heap', nodes', meant', keys)
  <2>1. CASE ctl.at \notin {"bind", "store"}
    <3>1. ~KeyDue(heap, ctl, keys)
      BY <2>1 DEF KeyDue
    <3> QED BY <3>1, KeyKept
  <2>2. CASE ctl' = ctl /\ stack' = stack /\ ctl.call \in 1..Len(heap)
    <3>1. ~KeyDue(heap, ctl, keys)
      BY <1>1, <2>2 DEF KeyDue, Later
    <3> QED BY <3>1, KeyKept
  <2> QED BY <2>1, <2>2
<1>2. ASSUME NEW t \in Types, ~TypeDue(ctl', stack', t) PROVE TypeMeant(heap', unbound', meant', t)
  <2>1. ~TypeDue(ctl, stack, t)
    BY <1>2 DEF TypeDue
  <2> QED BY <2>1, TypeKept
<1> QED BY <1>1, <1>2 DEF AllMeant

\* bind, before its argument is stored.
LEMMA MeantBind ==
  ASSUME SafeInv, SafeInv', MeantInv, Going, CallBind
  PROVE  AllMeant(heap', nodes', unbound', ctl', stack', meant')
<1>1. /\ ctl.at = "call" /\ Command = Program[heap[ctl.call].text] /\ heap[ctl.call].text \in Texts
      /\ heap[ctl.call] # Freed /\ Command.keys \in Seq(Keys) /\ Command.keys # <<>>
      /\ nodes' = BindOf(nodes, Command.keys) /\ TreeOK(nodes) /\ ctl'.at = "bind" /\ ctl'.call = ctl.call
  BY CallBindIs
<1>2. UNCHANGED <<heap, unbound, stack, meant>>
  BY DEF CallBind
<1>3. Later(heap, heap')
  BY <1>2, HeldIs DEF Later, SafeInv
<1>4. ASSUME NEW keys \in Chains \ {<<>>}, ~KeyDue(heap', ctl', keys) PROVE KeyMeant(heap', nodes', meant', keys)
  <2>1. keys # Command.keys /\ keys \in Seq(Keys)
    BY <1>1, <1>2, <1>4, ChainsAreKeys DEF KeyDue
  <2>2. CommandOf(BindOf(nodes, Command.keys), keys) = CommandOf(nodes, keys)
    BY <1>1, <2>1, BindCommands
  <2>3. CommandOf(nodes', keys) = CommandOf(nodes, keys)
    BY <1>1, <2>2
  <2>4. ~KeyDue(heap, ctl, keys)
    BY <1>1 DEF KeyDue
  <2> QED BY <1>2, <1>3, <2>3, <2>4, KeyKept
<1>5. ASSUME NEW t \in Types PROVE TypeMeant(heap', unbound', meant', t)
  <2>1. ~TypeDue(ctl, stack, t)
    BY <1>1 DEF TypeDue
  <2> QED BY <1>2, <1>3, <2>1, TypeKept
<1> QED BY <1>4, <1>5 DEF AllMeant

\* Two chains with the same node are the same.
LEMMA SameEnds ==
  ASSUME NEW N, TreeOK(N), NEW keys \in Seq(Keys), NEW others \in Seq(Keys),
         FoundOf(N, keys) # Null, FoundOf(N, keys) = FoundOf(N, others)
  PROVE  keys = others
<1> DEFINE i == Len(keys)
<1> DEFINE j == Len(others)
<1>1. i \in 0..Len(keys) /\ j \in 0..Len(others)
  OBVIOUS
<1>2. WayOf(N, keys)[i] # Null /\ WayOf(N, keys)[i] = WayOf(N, others)[j]
  BY DEF FoundOf
<1>3. i = j /\ \A h \in 1..i: keys[h] = others[h]
  BY <1>1, <1>2, WayUnique
<1> QED BY <1>3

\* Only the keys that lead to it have the command that is put into a node.
LEMMA StoredCommands ==
  ASSUME NEW N, TreeOK(N), NEW n \in DOMAIN N, N[n] # Freed, NEW M, SameTree(N, M),
         NEW a, a # Null, M[n].command = a, \A m \in DOMAIN N: m # n => M[m] = N[m],
         NEW keys \in Seq(Keys), n = FoundOf(N, keys), n # Null, NEW others \in Seq(Keys)
  PROVE  CommandOf(M, others) = IF others = keys THEN a ELSE CommandOf(N, others)
<1>1. FoundOf(M, others) = FoundOf(N, others)
  BY StoredWays
<1>2. CASE others = keys
  BY <1>1, <1>2 DEF CommandOf
<1>3. CASE others # keys
  <2> DEFINE m == FoundOf(N, others)
  <2>1. m # n
    BY <1>3, SameEnds
  <2>2. m # Null => m \in DOMAIN N
    <3>1. TreeWay(N, others, WayOf(N, others)) /\ Len(others) \in 0..Len(others)
      BY WayFacts
    <3> QED BY <3>1 DEF TreeWay, FoundOf
  <2> QED BY <1>1, <1>3, <2>1, <2>2 DEF CommandOf
<1> QED BY <1>2, <1>3

\* What is said by bind, unbound and unbind.
LEMMA BindSays ==
  ASSUME SafeInv, meant \in Said, BindStore
  PROVE  SaidOfKeys(meant, meant', Command.keys, heap[Argument].text) /\ Command.keys \in Chains
<1>1. /\ ctl.call \in 1..Len(heap) /\ heap[ctl.call].text \in Texts
      /\ Command = Program[heap[ctl.call].text] /\ Argument \in 1..Len(heap) /\ heap[Argument] # Freed
      /\ heap[Argument].text = Command.subs[1]
  BY BindStoreIs
<1>2. heap \in Seq(Objects \cup {Freed})
  BY HeldIs DEF SafeInv
<1>3. heap[Argument].text \in Texts
  BY <1>1, <1>2, ObjectIs
<1>4. Command.keys \in Chains
  BY <1>1 DEF Chains
<1>5. meant' = [meant EXCEPT !.keys[Command.keys] = heap[Argument].text]
  BY <1>1 DEF BindStore
<1> QED BY <1>3, <1>4, <1>5, KeysSaid

\* unbind says that a chain of keys has no command.
LEMMA UnbindSays ==
  ASSUME SafeInv, meant \in Said, CallUnbind, ctl'.at # "fault"
  PROVE  SaidOfKeys(meant, meant', Command.keys, Null) /\ Command.keys \in Chains
<1>1. /\ heap[ctl.call].text \in Texts /\ Command = Program[heap[ctl.call].text]
      /\ meant' = [meant EXCEPT !.keys[Command.keys] = Null]
  BY CallUnbindIs
<1>2. Command.keys \in Chains
  BY <1>1 DEF Chains
<1> QED BY <1>1, <1>2, KeysSaid

\* unbound stores its argument in the field that it has emptied, unless it is a pass.
LEMMA UnboundStoreIs ==
  ASSUME SafeInv, UnboundStore
  PROVE  /\ ctl.at = "store" /\ Head(Top.types) \in Types /\ unbound[Head(Top.types)] = Null /\ DOMAIN unbound = Types
         /\ Argument \in 1..Len(heap) /\ Argument # Null /\ heap[Argument] # Freed /\ heap[Argument].text \in Texts
         /\ heap[Argument].text = Command.subs[1]
         /\ unbound' = IF Discarded(heap[Argument].text) THEN unbound
                       ELSE [unbound EXCEPT ![Head(Top.types)] = Argument]
<1>1. /\ ctl.at = "store" /\ ~ArgumentFreed
      /\ IF Discarded(heap[Argument].text) THEN unbound' = unbound
         ELSE unbound' = [unbound EXCEPT ![Head(Top.types)] = Argument]
  BY DEF UnboundStore
<1>2. ctl.at \notin {"fault", "exited"} /\ Executing(ctl)
  BY <1>1 DEF Executing
<1>3. ctl.call \in 1..Len(heap) /\ PlaceOK(heap, nodes, unbound, ctl, stack) /\ stack # <<>>
  BY <1>1, <1>2, RunningIs
<1>4. Top = stack[1] /\ Top \in FramesOf(Len(heap), Len(nodes)) /\ Top.fn = "types"
  <2>1. stack[1].fn = "types"
    BY <1>1, <1>3 DEF PlaceOK
  <2> QED BY <1>2, <1>3, <2>1, TopIsKnown
<1>5. Top.types \in Seq(Types) \ {<<>>}
  BY <1>4, FrameIs
<1>6. Head(Top.types) \in Types
  BY <1>5, Popped
<1>7. heap[ctl.call] # Freed /\ heap[Argument] # Freed /\ Command = Program[heap[ctl.call].text]
  BY <1>1 DEF ArgumentFreed, Command
<1>8. Command.op \in {"bind", "unbound"} /\ unbound[Head(Top.types)] = Null
  BY <1>1, <1>3, <1>4, <1>7 DEF PlaceOK
<1>9. Argument \in 1..Len(heap) /\ Argument # Null /\ heap[Argument].text = Command.subs[1]
  BY <1>3, <1>7, <1>8, ArgumentIs
<1>10. heap \in Seq(Objects \cup {Freed}) /\ DOMAIN unbound = Types
  BY HeldIs DEF SafeInv, DataInv
<1>11. heap[Argument].text \in Texts
  BY <1>7, <1>9, <1>10, ObjectIs
<1> QED BY <1>1, <1>6, <1>7, <1>8, <1>9, <1>10, <1>11

\* unbound says what the type has, and a pass is none.
LEMMA UnboundSays ==
  ASSUME SafeInv, meant \in Said, UnboundStore
  PROVE  SaidOfType(meant, meant', Head(Top.types), IF Discarded(heap[Argument].text) THEN Null ELSE heap[Argument].text)
<1> DEFINE x == IF Discarded(heap[Argument].text) THEN Null ELSE heap[Argument].text
<1>1. /\ Head(Top.types) \in Types /\ heap[Argument].text \in Texts
      /\ heap[Argument].text = Command.subs[1]
  BY UnboundStoreIs
<1>2. x \in Texts \cup {Null}
  BY <1>1
<1>3. meant' = [meant EXCEPT !.types[Head(Top.types)] = x]
  BY <1>1 DEF UnboundStore
<1> HIDE DEF x
<1>4. SaidOfType(meant, meant', Head(Top.types), x)
  BY <1>1, <1>2, <1>3, TypeSaid
<1> QED BY <1>4 DEF x

\* bind, when its argument is stored.
LEMMA MeantBindStore ==
  ASSUME SafeInv, SafeInv', MeantInv, Going, BindStore
  PROVE  AllMeant(heap', nodes', unbound', ctl', stack', meant')
<1> DEFINE n == FoundOf(nodes, Command.keys)
<1>1. /\ ctl.at = "bind" /\ ctl.call \in 1..Len(heap) /\ heap[ctl.call] # Freed
      /\ Command = Program[heap[ctl.call].text] /\ Command.keys \in Seq(Keys)
      /\ n # Null /\ n \in DOMAIN nodes /\ nodes[n] # Freed /\ nodes[n].command = Null
      /\ Argument \in 1..Len(heap) /\ Argument \in Nat /\ Argument # Null /\ heap[Argument] # Freed
      /\ nodes' = [nodes EXCEPT ![n].command = Argument]
  BY BindStoreIs
<1>2. UNCHANGED <<unbound, stack>> /\ ctl'.at = "return" /\ ctl.at \notin {"fault", "exited"}
  BY <1>1 DEF BindStore, At
<1>3. SaidOfKeys(meant, meant', Command.keys, heap[Argument].text) /\ Command.keys \in Chains
  BY BindSays DEF MeantInv
<1>4. Later(heap, heap') /\ Kept(heap, heap', 0)
  BY HeapGrows
<1>5. heap'[Argument] # Freed /\ heap'[Argument].text = heap[Argument].text
  <2>1. Argument # 0
    BY <1>1
  <2>2. heap'[Argument] # Freed
    BY <1>1, <1>4, <2>1 DEF Kept
  <2> QED BY <1>1, <1>4, <2>2 DEF Later
<1>6. TreeOK(nodes) /\ nodes \in Seq(Nodes \cup {Freed})
  BY <1>2, RunningIs, HeldIs DEF SafeInv
<1> DEFINE M == [nodes EXCEPT ![n].command = Argument]
<1> DEFINE keys == Command.keys
<1>7. nodes' = M /\ n = FoundOf(nodes, keys)
  BY <1>1
<1>8. nodes[n] \in Nodes
  BY <1>1, <1>6, NodeIs
<1>9. M[n].command = Argument /\ \A m \in DOMAIN nodes: m # n => M[m] = nodes[m]
  BY <1>1, <1>8 DEF Nodes
<1> HIDE DEF n
<1>10. SameTree(nodes, M)
  BY <1>1, <1>6, CommandStored
<1> HIDE DEF M, keys
<1>11. ASSUME NEW others \in Seq(Keys)
       PROVE  CommandOf(M, others) = IF others = keys THEN Argument ELSE CommandOf(nodes, others)
  <2>1. keys \in Seq(Keys)
    BY <1>1 DEF keys
  <2> QED BY <1>1, <1>6, <1>7, <1>9, <1>10, <2>1, StoredCommands
<1>12. ASSUME NEW others \in Chains \ {<<>>} PROVE KeyMeant(heap', nodes', meant', others)
  <2>1. others \in Seq(Keys)
    BY ChainsAreKeys
  <2>2. CASE others = keys
    <3>1. CommandOf(nodes', others) = Argument
      BY <1>7, <1>11, <2>1, <2>2
    <3>2. TextOf(heap', Argument) = heap[Argument].text
      BY <1>1, <1>5 DEF TextOf
    <3>3. meant'.keys[others] = heap[Argument].text
      BY <1>3, <2>2 DEF SaidOfKeys, keys
    <3> QED BY <3>1, <3>2, <3>3 DEF KeyMeant
  <2>3. CASE others # keys
    <3>1. CommandOf(nodes', others) = CommandOf(nodes, others)
      BY <1>7, <1>11, <2>1, <2>3
    <3>2. meant'.keys[others] = meant.keys[others]
      BY <1>3, <2>3 DEF SaidOfKeys, keys
    <3>3. ~KeyDue(heap, ctl, others)
      BY <1>1, <2>3 DEF KeyDue, keys
    <3> QED BY <1>4, <3>1, <3>2, <3>3, KeyKept
  <2> QED BY <2>2, <2>3
<1>13. ASSUME NEW t \in Types PROVE TypeMeant(heap', unbound', meant', t)
  <2>1. ~TypeDue(ctl, stack, t)
    BY <1>1 DEF TypeDue
  <2>2. meant'.types[t] = meant.types[t]
    BY <1>3 DEF SaidOfKeys
  <2> QED BY <1>2, <1>4, <2>1, <2>2, TypeKept
<1> QED BY <1>12, <1>13 DEF AllMeant

\* unbound, before its argument is stored.
LEMMA MeantUnboundRelease ==
  ASSUME SafeInv, SafeInv', MeantInv, Going, UnboundRelease
  PROVE  AllMeant(heap', nodes', unbound', ctl', stack', meant')
<1>1. /\ UNCHANGED <<heap, nodes, stack, meant>> /\ ctl.at = "types" /\ ctl' = [ctl EXCEPT !.at = "store"]
      /\ unbound' = [unbound EXCEPT ![Head(Top.types)] = Null]
  BY DEF UnboundRelease
<1>2. DOMAIN unbound = Types /\ ctl \in [at: Places, call: 1..Len(heap) \cup {Null}]
  BY DEF SafeInv, DataInv, ControlInv
<1>3. Later(heap, heap')
  BY <1>1, HeldIs DEF Later, SafeInv
<1>4. ASSUME NEW keys \in Chains \ {<<>>} PROVE KeyMeant(heap', nodes', meant', keys)
  <2>1. ~KeyDue(heap, ctl, keys)
    BY <1>1 DEF KeyDue
  <2> QED BY <1>1, <1>3, <2>1, KeyKept
<1>5. ASSUME NEW t \in Types, ~TypeDue(ctl', stack', t) PROVE TypeMeant(heap', unbound', meant', t)
  <2>1. t # Head(Top.types)
    BY <1>1, <1>2, <1>5 DEF TypeDue, Top
  <2>2. unbound'[t] = unbound[t]
    BY <1>1, <1>2, <2>1
  <2>3. ~TypeDue(ctl, stack, t)
    BY <1>1 DEF TypeDue
  <2> QED BY <1>1, <1>3, <2>2, <2>3, TypeKept
<1> QED BY <1>4, <1>5 DEF AllMeant

\* unbound, when it is.
LEMMA MeantUnboundStore ==
  ASSUME SafeInv, SafeInv', MeantInv, Going, UnboundStore
  PROVE  AllMeant(heap', nodes', unbound', ctl', stack', meant')
<1> DEFINE u == Head(Top.types)
<1>1. /\ ctl.at = "store" /\ u \in Types /\ unbound[u] = Null /\ DOMAIN unbound = Types
      /\ Argument \in 1..Len(heap) /\ Argument # Null /\ heap[Argument] # Freed
      /\ unbound' = IF Discarded(heap[Argument].text) THEN unbound ELSE [unbound EXCEPT ![u] = Argument]
  BY UnboundStoreIs
<1>2. SaidOfType(meant, meant', u, IF Discarded(heap[Argument].text) THEN Null ELSE heap[Argument].text)
  BY UnboundSays DEF MeantInv
<1>3. nodes' = nodes
  BY DEF UnboundStore
<1>4. Later(heap, heap') /\ Kept(heap, heap', 0) /\ Len(heap) \in Nat
  BY HeapGrows, HeldIs DEF SafeInv
<1>5. heap'[Argument] # Freed /\ heap'[Argument].text = heap[Argument].text
  <2>1. Argument # 0
    BY <1>1, <1>4
  <2>2. heap'[Argument] # Freed
    BY <1>1, <1>4, <2>1 DEF Kept
  <2> QED BY <1>1, <1>4, <2>2 DEF Later
<1>6. ASSUME NEW keys \in Chains \ {<<>>} PROVE KeyMeant(heap', nodes', meant', keys)
  <2>1. ~KeyDue(heap, ctl, keys)
    BY <1>1 DEF KeyDue
  <2>2. meant'.keys[keys] = meant.keys[keys]
    BY <1>2 DEF SaidOfType
  <2> QED BY <1>3, <1>4, <2>1, <2>2, KeyKept
<1>7. ASSUME NEW t \in Types PROVE TypeMeant(heap', unbound', meant', t)
  <2>1. CASE t = u /\ Discarded(heap[Argument].text)
    <3>1. unbound'[t] = Null /\ meant'.types[t] = Null
      BY <1>1, <1>2, <2>1 DEF SaidOfType
    <3> QED BY <3>1 DEF TypeMeant, TextOf
  <2>2. CASE t = u /\ ~Discarded(heap[Argument].text)
    <3>1. unbound'[t] = Argument /\ meant'.types[t] = heap[Argument].text
      BY <1>1, <1>2, <2>2 DEF SaidOfType
    <3> QED BY <1>1, <1>5, <3>1 DEF TypeMeant, TextOf
  <2>3. CASE t # u
    <3>1. unbound'[t] = unbound[t] /\ meant'.types[t] = meant.types[t]
      BY <1>1, <1>2, <2>3 DEF SaidOfType
    <3>2. ~TypeDue(ctl, stack, t)
      BY <2>3 DEF TypeDue, Top
    <3> QED BY <1>4, <3>1, <3>2, TypeKept
  <2> QED BY <2>1, <2>2, <2>3
<1> QED BY <1>6, <1>7 DEF AllMeant

\* unbind, when it takes the right keys.
LEMMA MeantUnbind ==
  ASSUME SafeInv, SafeInv', MeantInv, Going, CallUnbind
  PROVE  AllMeant(heap', nodes', unbound', ctl', stack', meant')
<1> DEFINE keys == Command.keys
<1>1. /\ ctl.at = "call" /\ heap' = heap /\ keys \in Seq(Keys) /\ keys # <<>> /\ TreeOK(nodes)
      /\ \/ \E seen, frees: Unbound(nodes, nodes', releases', keys, seen, frees, unbinds, unbinds')
         \/ nodes' = nodes /\ (unbinds' = {} => FoundOf(nodes, keys) = Null)
         \/ ctl'.at = "fault"
  BY CallUnbindIs
<1>2. SaidOfKeys(meant, meant', keys, Null)
  BY UnbindSays DEF MeantInv, Going
<1>3. unbound' = unbound
  BY DEF CallUnbind
<1>4. Later(heap, heap')
  BY <1>1, HeldIs DEF Later, SafeInv
<1> HIDE DEF keys
<1>5. ASSUME NEW others \in Seq(Keys)
      PROVE  CommandOf(nodes', others) = IF others = keys THEN Null ELSE CommandOf(nodes, others)
  <2>1. CASE \E seen, frees: Unbound(nodes, nodes', releases', keys, seen, frees, unbinds, unbinds')
    <3>1. PICK seen, frees: Unbound(nodes, nodes', releases', keys, seen, frees, unbinds, unbinds')
      BY <2>1
    <3>2. /\ seen = keys /\ frees \in BOOLEAN /\ FoundOf(nodes, keys) # Null
          /\ nodes' = UnbindOf(nodes, keys, frees) /\ LostIn(nodes, keys) = {}
          /\ Len(keys) > 1 \/ frees \/ CommandOf(nodes, keys) = Null
      BY <3>1 DEF Unbound, Going
    <3>3. CommandOf(UnbindOf(nodes, keys, frees), others) =
            IF others # keys THEN CommandOf(nodes, others)
            ELSE IF Len(keys) > 1 \/ frees THEN Null ELSE CommandOf(nodes, keys)
      BY <1>1, <3>2, UnbindCommands
    <3> QED BY <3>2, <3>3
  <2>2. CASE nodes' = nodes /\ (unbinds' = {} => FoundOf(nodes, keys) = Null)
    BY <2>2 DEF Going, CommandOf
  <2> QED BY <1>1, <2>1, <2>2 DEF Going
<1>6. ASSUME NEW others \in Chains \ {<<>>} PROVE KeyMeant(heap', nodes', meant', others)
  <2>1. others \in Seq(Keys)
    BY ChainsAreKeys
  <2>2. CASE others = keys
    <3>1. CommandOf(nodes', others) = Null
      BY <1>5, <2>1, <2>2
    <3>2. meant'.keys[others] = Null
      BY <1>2, <2>2 DEF SaidOfKeys
    <3> QED BY <3>1, <3>2 DEF KeyMeant, TextOf
  <2>3. CASE others # keys
    <3>1. CommandOf(nodes', others) = CommandOf(nodes, others)
      BY <1>5, <2>1, <2>3
    <3>2. meant'.keys[others] = meant.keys[others]
      BY <1>2, <2>3 DEF SaidOfKeys
    <3>3. ~KeyDue(heap, ctl, others)
      BY <1>1 DEF KeyDue
    <3> QED BY <1>4, <3>1, <3>2, <3>3, KeyKept
  <2> QED BY <2>2, <2>3
<1>7. ASSUME NEW t \in Types PROVE TypeMeant(heap', unbound', meant', t)
  <2>1. ~TypeDue(ctl, stack, t)
    BY <1>1 DEF TypeDue
  <2>2. meant'.types[t] = meant.types[t]
    BY <1>2 DEF SaidOfKeys
  <2> QED BY <1>3, <1>4, <2>1, <2>2, TypeKept
<1> QED BY <1>6, <1>7 DEF AllMeant

\* At the start nothing has been said, and nothing is bound.
LEMMA MeantInit ==
  ASSUME Init, SafeInv
  PROVE  MeantInv
<1>1. /\ nodes = <<NewNode>> /\ ctl.at = "lines" /\ unbound = [t \in Types |-> Null]
      /\ meant = [keys |-> [ks \in Chains |-> Null], types |-> [t \in Types |-> Null]]
  BY DEF Init, At, Chains
<1>2. TreeOK(nodes)
  BY <1>1, RunningIs
<1>3. meant \in Said
  BY <1>1 DEF Said
<1>4. ASSUME NEW keys \in Chains \ {<<>>} PROVE KeyMeant(heap, nodes, meant, keys)
  <2>1. keys \in Seq(Keys) /\ Len(keys) \in Nat \ {0}
    <3>1. keys \in Seq(Keys) /\ keys # <<>>
      BY ChainsAreKeys
    <3> QED BY <3>1
  <2>2. 1 \in 1..Len(keys) /\ 1 \in 0..Len(keys) /\ Len(keys) \in 1..Len(keys) /\ 1 - 1 = 0
    BY <2>1
  <2>3. TreeWay(nodes, keys, WayOf(nodes, keys))
    BY <1>2, <2>1, WayFacts
  <2>4. WayOf(nodes, keys)[1] # Null => WayOf(nodes, keys)[1] = nodes[Root].bindings[keys[1]] /\ keys[1] \in Keys
    BY <2>2, <2>3 DEF TreeWay
  <2>5. \A k \in Keys: nodes[Root].bindings[k] = Null
    BY <1>1 DEF Root, NewNode
  <2>6. WayOf(nodes, keys)[1] = Null
    BY <2>4, <2>5
  <2>7. WayOf(nodes, keys)[Len(keys)] = Null
    BY <2>1, <2>2, <2>6, WayEnds
  <2> QED BY <1>1, <2>7 DEF KeyMeant, CommandOf, FoundOf, TextOf
<1>5. \A t \in Types: TypeMeant(heap, unbound, meant, t)
  BY <1>1 DEF TypeMeant, TextOf
<1> QED BY <1>3, <1>4, <1>5 DEF MeantInv, AllMeant

\* What is said is said of a chain of keys, or of a type.
LEMMA SaidStep ==
  ASSUME SafeInv, meant \in Said, [Next]_vars
  PROVE  meant' \in Said
<1>1. CASE UNCHANGED vars
  BY <1>1 DEF vars
<1>2. CASE Release /\ releases # {}
  BY <1>2, ReleaseIs
<1>3. CASE Quiet
  BY <1>3 DEF Quiet
<1>4. CASE ReadLine \/ CallBind \/ UnboundRelease \/ ContextFree
  BY <1>4 DEF ReadLine, CallBind, UnboundRelease, ContextFree
<1>5. CASE BindStore
  BY <1>5, BindSays DEF SaidOfKeys
<1>6. CASE UnboundStore
  BY <1>6, UnboundSays DEF SaidOfType
<1>7. CASE CallUnbind
  <2>1. meant' = meant \/ ctl' = At("return")
    BY <1>7 DEF CallUnbind, UnbindFinds, UnbindFindsNothing
  <2>2. CASE ctl' = At("return")
    <3>1. ctl'.at # "fault"
      BY <2>2 DEF At
    <3> QED BY <1>7, <3>1, UnbindSays DEF SaidOfKeys
  <2> QED BY <2>1, <2>2
<1> QED BY <1>1, <1>2, <1>3, <1>4, <1>5, <1>6, <1>7, StepsAre

\* Every step keeps what was last said true, but for what is just being stored.
LEMMA MeantStep ==
  ASSUME SafeInv, SafeInv', MeantInv, [Next]_vars
  PROVE  MeantInv'
<1>1. meant' \in Said
  BY SaidStep DEF MeantInv
<1>2. SUFFICES ASSUME unbinds' = {}, ctl'.at \notin {"exited", "fault"}
               PROVE  AllMeant(heap', nodes', unbound', ctl', stack', meant')
  BY <1>1 DEF MeantInv
<1>0. ctl \in [at: Places, call: 1..Len(heap) \cup {Null}] /\ Len(heap) \in Nat
  BY HeldIs DEF SafeInv, ControlInv
<1>3. CASE UNCHANGED vars
  BY <1>2, <1>3 DEF vars, MeantInv
<1>4. CASE Release /\ releases # {}
  <2>1. UNCHANGED <<nodes, unbound, stack, meant, unbinds>> /\ ctl.at # "fault"
    BY <1>4, ReleaseIs
  <2>2. PICK r \in releases:
          \/ heap[r.call] = Freed /\ ctl' = Fault /\ UNCHANGED <<heap, releases>>
          \/ Released(r, heap, heap', releases, releases') /\ ctl' = ctl
    BY <1>4, ReleaseIs
  <2>3. Fault.at = "fault"
    BY <1>0 DEF Fault
  <2>4. Released(r, heap, heap', releases, releases') /\ ctl' = ctl
    BY <1>2, <2>2, <2>3
  <2>5. Later(heap, heap')
    <3>1. /\ HeapOK(heap) /\ Pointed(heap, Held(nodes, unbound, heap, stack), releases, unbinds)
          /\ r \in releases /\ Released(r, heap, heap', releases, releases')
      BY <2>4 DEF SafeInv, DataInv
    <3> QED BY ONLY <3>1, ReleasedIs
  <2>6. Going
    BY <1>2, <2>1, <2>4 DEF Going
  <2>7. ctl.at \in {"bind", "store"} => ctl.call \in 1..Len(heap)
    BY <2>6, RunningIs DEF Going, Executing
  <2> QED BY <2>1, <2>4, <2>5, <2>6, <2>7, MeantKept
<1>5. CASE Quiet
  <2>1. Going /\ UNCHANGED <<nodes, unbound, meant>> /\ ctl.at \notin {"bind", "store"}
    BY <1>2, <1>5 DEF Quiet, Going
  <2>2. Later(heap, heap')
    BY <1>0, <1>5 DEF Quiet, Later
  <2> QED BY <2>1, <2>2, MeantKept
<1>6. CASE ReadLine
  <2>1. Going /\ UNCHANGED <<nodes, unbound, meant>> /\ ctl.at \notin {"bind", "store"}
    BY <1>2, <1>6 DEF ReadLine, Going
  <2>2. Later(heap, heap')
    BY <1>6, HeapGrows
  <2> QED BY <2>1, <2>2, MeantKept
<1>7. CASE BindStore
  <2>1. Going
    BY <1>2, <1>7 DEF BindStore, Going
  <2> QED BY <1>7, <2>1, MeantBindStore
<1>8. CASE UnboundStore
  <2>1. Going
    BY <1>2, <1>8 DEF UnboundStore, Going
  <2> QED BY <1>8, <2>1, MeantUnboundStore
<1>9. CASE CallBind
  <2>1. Going
    BY <1>2, <1>9 DEF CallBind, Calling, Going
  <2> QED BY <1>9, <2>1, MeantBind
<1>10. CASE UnboundRelease
  <2>1. Going
    BY <1>2, <1>10 DEF UnboundRelease, Going
  <2> QED BY <1>10, <2>1, MeantUnboundRelease
<1>11. CASE CallUnbind
  <2>1. unbinds \subseteq unbinds' /\ ctl.at = "call"
    BY <1>11, CallUnbindIs
  <2>2. Going
    BY <1>2, <2>1 DEF Going
  <2> QED BY <1>11, <2>2, MeantUnbind
<1>12. CASE ContextFree
  BY <1>2, <1>12 DEF ContextFree, At
<1> QED BY <1>3, <1>4, <1>5, <1>6, <1>7, <1>8, <1>9, <1>10, <1>11, <1>12, StepsAre

\* A chain of keys has the command that was last bound to it, and a type of key its last
\* unbound command, or none after unbind, for every configuration and every order in which
\* it is read, executed and replaced, unless unbind goes wrong.
THEOREM TableCorrect == Spec => []TableIsKept
<1>1. Init => MeantInv
  BY InitSafe, MeantInit
<1>2. SafeInv /\ SafeInv' /\ MeantInv /\ [Next]_vars => MeantInv'
  BY MeantStep
<1>3. MeantInv => TableIsKept
  <2> SUFFICES ASSUME MeantInv, ctl.at = "poll", unbinds = {}
               PROVE  /\ \A keys \in DOMAIN meant.keys \ {<<>>}: TextAt(CommandAt(keys)) = meant.keys[keys]
                      /\ \A t \in Types: TextAt(unbound[t]) = meant.types[t]
    BY DEF TableIsKept
  <2>1. DOMAIN meant.keys = Chains /\ AllMeant(heap, nodes, unbound, ctl, stack, meant)
    BY DEF MeantInv, Said
  <2>2. \A a: TextAt(a) = TextOf(heap, a)
    BY DEF TextAt, TextOf
  <2>3. ASSUME NEW keys \in Chains \ {<<>>} PROVE TextAt(CommandAt(keys)) = meant.keys[keys]
    <3>1. CommandAt(keys) = CommandOf(nodes, keys)
      BY FoundDef
    <3>2. KeyMeant(heap, nodes, meant, keys)
      BY <2>1 DEF AllMeant, KeyDue
    <3> QED BY <2>2, <3>1, <3>2 DEF KeyMeant
  <2>4. ASSUME NEW t \in Types PROVE TextAt(unbound[t]) = meant.types[t]
    BY <2>1, <2>2 DEF AllMeant, TypeDue, TypeMeant
  <2> QED BY <2>1, <2>3, <2>4
<1> QED BY <1>1, <1>2, <1>3, SafeAlways, PTL DEF Spec
=============================================================================
