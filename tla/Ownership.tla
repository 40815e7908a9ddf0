----------------------------- MODULE Ownership -----------------------------
(***************************************************************************)
(* Who owns a command: the reference counts of command_call_t, the binding *)
(* nodes, and the commands that replace the ones they are part of.         *)
(*                                                                         *)
(* The parser allocates a command with the commands in it; bind, unbound   *)
(* and unbind store and release them while key presses, groups and lines   *)
(* of configuration execute them.  The heap is a sequence that grows: no   *)
(* address is used twice, so that a pointer to something freed is seen as  *)
(* such when it is followed, and the program goes no further (fault).      *)
(* Releasing a command releases what is in it, one pointer in each step,   *)
(* and nothing else happens meanwhile.                                     *)
(*                                                                         *)
(* There is one mode here; the others are in KeyDispatch, which has no     *)
(* heap.  Whether && and || skip a command is left open, and how often a   *)
(* key may be rehandled.                                                   *)
(***************************************************************************)
EXTENDS Integers, Sequences, FiniteSets

CONSTANTS
  Keys, Types,    \* the keys, and the kinds of keys that have an unbound command
  KeyType,        \* the kind of each key
  Texts,          \* the commands of a configuration, and the commands in them
  Program,        \* what each of them is
  Lines,          \* those that are lines
  Tree,           \* the commands that the parser allocates for a line, with their places
  Null, Freed,
  MaxLines,       \* bound: lines that are read
  MaxNodes,       \* bound: nodes that are allocated
  MaxRepeat,      \* bound: how often a command is repeated
  MaxDepth        \* bound: commands of bindings and unbound fields in one another

\* A group of one command is that command: the group takes its argument, and what
\* command_parse() has allocated for it is lost.
Operations == {"other", "pass", "evaluate", "rehandle", "group", "bind", "unbound", "unbind", "lost"}
WellFormed(c) ==
  /\ c.op \in Operations
  /\ c.keys \in Seq(Keys) /\ (c.op \in {"bind", "unbind"} => c.keys # <<>>)
  /\ c.types \in Seq(Types) /\ (c.op = "unbound" => c.types # <<>>)
  /\ c.subs \in Seq(Texts)
  /\ c.op \in {"bind", "unbound"} => Len(c.subs) = 1
  /\ c.op = "group" => c.subs # <<>>
  /\ c.op \notin {"bind", "unbound", "group"} => c.subs = <<>>

\* The line comes first, each command before those in it, and each of those is in
\* one other, unless it is lost.
IsLost(text) == Program[text].op = "lost"
Inside(tree, i, k) == \E j \in DOMAIN tree[i].kids: tree[i].kids[j] = k
IsTree(line, tree) ==
  /\ tree \in Seq([text: Texts, kids: Seq(Nat)])
  /\ tree # <<>> /\ tree[1].text = line /\ ~IsLost(line)
  /\ \A i \in DOMAIN tree:
       /\ Len(tree[i].kids) = Len(Program[tree[i].text].subs)
       /\ \A j \in DOMAIN tree[i].kids:
            /\ tree[i].kids[j] \in i + 1..Len(tree)
            /\ tree[tree[i].kids[j]].text = Program[tree[i].text].subs[j]
            /\ ~IsLost(Program[tree[i].text].subs[j])
            /\ \A g \in DOMAIN tree: \A h \in DOMAIN tree[g].kids:
                 tree[g].kids[h] = tree[i].kids[j] => g = i /\ h = j
  /\ \A k \in 2..Len(tree): IsLost(tree[k].text) \/ \E i \in DOMAIN tree: Inside(tree, i, k)
Parent(tree, k) == CHOOSE i \in DOMAIN tree: Inside(tree, i, k)

Objects == [text: Texts, kids: Seq(Nat), refcount: Int]
Nodes == [bindings: [Keys -> Nat \cup {Null}], command: Nat \cup {Null}]

ASSUME TextsAssumption == Lines \subseteq Texts /\ \A t \in Texts: WellFormed(Program[t])
ASSUME TreeAssumption == \A line \in Lines: IsTree(line, Tree[line])
ASSUME NoAddressAssumption == Null \notin Nat /\ Freed \notin Objects \cup Nodes
ASSUME KeysAssumption == IsFiniteSet(Keys) /\ IsFiniteSet(Types) /\ KeyType \in [Keys -> Types]
ASSUME BoundsAssumption == MaxLines \in Nat /\ MaxNodes \in Nat \ {0} /\ MaxRepeat \in Nat /\ MaxDepth \in Nat

VARIABLES
  heap,             \* the command_call_t and their arguments
  releases,         \* the pointers that are being released
  nodes,            \* the binding_t; the first one is the root
  unbound,          \* type -> command
  current_binding,
  ctl, stack,       \* the control point and the frames below it
  \* history
  lines,            \* how many lines were read
  meant,            \* what was last said of each chain of keys and each type
  unbinds,          \* what unbind has done wrong
  rehandled         \* the last key was handled more than once

vars == <<heap, releases, nodes, unbound, current_binding, ctl, stack, lines, meant, unbinds,
          rehandled>>

Addresses == 1..Len(heap)
Object(text, kids, refcount) == [text |-> text, kids |-> kids, refcount |-> refcount]
NewNode == [bindings |-> [k \in Keys |-> Null], command |-> Null]
Root == 1

At(place) == [at |-> place, call |-> Null]
Call(a) == [at |-> "call", call |-> a]
Fault == [ctl EXCEPT !.at = "fault"]
Calling(op) ==
  /\ ctl.at = "call"
  /\ heap[ctl.call] # Freed
  /\ Program[heap[ctl.call].text].op = op
Command == Program[heap[ctl.call].text]

Top == Head(stack)
TopIs(fn) == stack # <<>> /\ Top.fn = fn
Returning(fn) == ctl.at = "return" /\ TopIs(fn)
Push(frame) == stack' = <<frame>> \o stack
Pop == stack' = Tail(stack)

Init ==
  /\ heap = <<>>
  /\ releases = {}
  /\ nodes = <<NewNode>>
  /\ unbound = [t \in Types |-> Null]
  /\ current_binding = Null
  /\ ctl = At("lines")
  /\ stack = << [fn |-> "lines", call |-> Null] >>
  /\ lines = 0
  /\ meant = [keys |-> [ks \in {Program[t].keys: t \in Texts} |-> Null],
             types |-> [t \in Types |-> Null]]
  /\ unbinds = {}
  /\ rehandled = FALSE

---------------------------------------------------------------------------
(* Allocation and release. *)

\* bind and unbound hold a reference to the command in them, a group owns its
\* commands, whose counts stay zero.
Counts(text) == Program[text].op \in {"bind", "unbound"}

\* Mutant: the parse functions of bind and unbound take no reference.
Uncounted(text) == 0
\* The count of a command that the parser puts into another one.
InitialCount(text) == IF Counts(text) THEN 1 ELSE 0

\* What command_parse() allocates behind the address base for a line.
Parsed(line, base) ==
  LET tree == Tree[line]
      Count(i) ==
        IF i = 1 \/ IsLost(tree[i].text) THEN 0 ELSE InitialCount(tree[Parent(tree, i)].text)
  IN [i \in DOMAIN tree |->
        Object(tree[i].text, [j \in DOMAIN tree[i].kids |-> base + tree[i].kids[j]], Count(i))]

\* Mutant: the count is not looked at.
NeverUsed(object) == FALSE
\* PTR_UNREF() finds other references.
StillUsed(object) == object.refcount # 1

\* Mutant: only the first command of a group is freed.
FirstKid(object) ==
  IF Program[object.text].op = "group" THEN {1} ELSE DOMAIN object.kids
\* The commands that command_call_free() releases.
Kids(object) == DOMAIN object.kids

\* A pointer to a command, by where it is, and whether it is counted.
Pointer(from, call, counted) == [from |-> from, call |-> call, counted |-> counted]
NodePointer(n) == Pointer(<<"node", n, 1>>, nodes[n].command, TRUE)
TypePointer(t) == Pointer(<<"type", t, 1>>, unbound[t], TRUE)
KidPointer(a, i) == Pointer(<<"kid", a, i>>, heap[a].kids[i], Counts(heap[a].text))
FramePointer(i) == Pointer(<<"frame", Len(stack) + 1 - i, 1>>, stack[i].call, FALSE)

NodePointers(S) == {NodePointer(n): n \in {x \in S: nodes[x] # Freed /\ nodes[x].command # Null}}
TypePointers(S) == {TypePointer(t): t \in {x \in S: unbound[x] # Null}}

\* With a count: if (PTR_UNREF(a)) { command_call_free(a); free(a); }
\* Without: what is done then.  What is in the command is released next; in which
\* order makes no difference.
Release ==
  /\ ctl.at # "fault"
  /\ \E r \in {CHOOSE p \in releases: TRUE}:
       LET a == r.call
           object == heap[a]
       IN \/ /\ object = Freed
             /\ ctl' = Fault
             /\ UNCHANGED <<heap, releases>>
          \/ /\ object # Freed /\ r.counted /\ StillUsed(object)
             /\ heap' = [heap EXCEPT ![a].refcount = @ - 1]
             /\ releases' = releases \ {r}
             /\ UNCHANGED ctl
          \/ /\ object # Freed /\ (r.counted => ~StillUsed(object))
             /\ heap' = [heap EXCEPT ![a] = Freed]
             /\ releases' = (releases \ {r}) \cup {KidPointer(a, i): i \in Kids(object)}
             /\ UNCHANGED ctl
  /\ UNCHANGED <<nodes, unbound, current_binding, stack, lines, meant, unbinds, rehandled>>

\* Mutant: the count stays what it is.
ReferenceForgotten(a) == UNCHANGED heap
\* PTR_REF()
Reference(a) == heap' = [heap EXCEPT ![a].refcount = @ + 1]

---------------------------------------------------------------------------
(* read_conf_stream(): at the start, and for what is typed in readline -!. *)

ReadLine ==
  /\ ctl.at = "lines" /\ lines < MaxLines
  /\ lines' = lines + 1
  /\ \E text \in Lines:
       /\ heap' = heap \o Parsed(text, Len(heap))
       /\ Push([fn |-> "conf", call |-> Len(heap) + 1])
       /\ ctl' = Call(Len(heap) + 1)
  /\ UNCHANGED <<nodes, unbound, current_binding, meant, unbinds, rehandled>>

\* command_call_free(&call)
LineReturn ==
  /\ Returning("conf")
  /\ releases' = {FramePointer(1)}
  /\ ctl' = At("lines") /\ Pop
  /\ UNCHANGED <<heap, nodes, unbound, current_binding, lines, meant, unbinds, rehandled>>

LinesEnd ==
  /\ ctl.at = "lines"
  /\ Pop
  /\ ctl' = At(IF Top.call = Null THEN "poll" ELSE "return")
  /\ UNCHANGED <<heap, nodes, unbound, current_binding, lines, meant, unbinds, rehandled>>

\* A line that is not valid: readline uses its arguments to ask again.
LineInvalid ==
  /\ ctl.at = "lines" /\ Top.call # Null
  /\ ctl' = IF heap[Top.call] = Freed THEN Fault ELSE ctl
  /\ UNCHANGED <<heap, nodes, unbound, current_binding, stack, lines, meant, unbinds, rehandled>>

---------------------------------------------------------------------------
(* handle_key() *)

Opened(n) == IF \E k \in Keys: nodes[n].bindings[k] # Null THEN n ELSE Null

\* Where the chain of keys begins that the next key continues.
From == IF current_binding = Null THEN Root ELSE current_binding

\* The key of this handle_key() and of those below it.
Key == stack[Len(stack)].key

ReadKey ==
  /\ ctl.at = "poll"
  /\ \E k \in Keys: Push([fn |-> "main", call |-> Null, key |-> k])
  /\ ctl' = At("handle")
  /\ rehandled' = FALSE
  /\ UNCHANGED <<heap, nodes, unbound, current_binding, lines, meant, unbinds>>

\* The nodes of the chain have been freed.
HandleFreed ==
  /\ ctl.at = "handle" /\ nodes[From] = Freed
  /\ ctl' = Fault
  /\ UNCHANGED <<heap, nodes, unbound, current_binding, stack, lines, meant, unbinds, rehandled>>

HandleBound ==
  /\ ctl.at = "handle" /\ nodes[From] # Freed
  /\ LET n == nodes[From].bindings[Key] IN
     /\ n # Null
     /\ IF nodes[n].command = Null
        THEN ctl' = At("return") /\ current_binding' = Opened(n) /\ UNCHANGED stack
        ELSE /\ \E left \in 0..MaxRepeat:
                  Push([fn |-> "binding", node |-> n, call |-> nodes[n].command, left |-> left])
             /\ ctl' = Call(nodes[n].command)
             /\ UNCHANGED current_binding
  /\ UNCHANGED <<heap, nodes, unbound, lines, meant, unbinds, rehandled>>

HandleUnbound ==
  /\ ctl.at = "handle" /\ nodes[From] # Freed
  /\ nodes[From].bindings[Key] = Null
  /\ LET command == unbound[KeyType[Key]] IN
     IF command = Null
     THEN ctl' = At("return") /\ UNCHANGED stack
     ELSE Push([fn |-> "unbound", call |-> command]) /\ ctl' = Call(command)
  /\ current_binding' = Null
  /\ UNCHANGED <<heap, nodes, unbound, lines, meant, unbinds, rehandled>>

KeyReturn ==
  /\ Returning("main")
  /\ ctl' = At("poll") /\ Pop
  /\ UNCHANGED <<heap, nodes, unbound, current_binding, lines, meant, unbinds, rehandled>>

\* The rest of binding_execute(), which still has its node, and of
\* command_call_execute_with_repeat(), which still has the command.
BindingRepeat ==
  /\ Returning("binding") /\ Top.left > 0
  /\ ctl' = Call(Top.call)
  /\ stack' = <<[Top EXCEPT !.left = @ - 1]>> \o Tail(stack)
  /\ UNCHANGED <<heap, nodes, unbound, current_binding, lines, meant, unbinds, rehandled>>

BindingReturn ==
  /\ Returning("binding") /\ Top.left = 0
  /\ IF nodes[Top.node] = Freed
     THEN ctl' = Fault /\ UNCHANGED <<current_binding, stack>>
     ELSE ctl' = ctl /\ current_binding' = Opened(Top.node) /\ Pop
  /\ UNCHANGED <<heap, nodes, unbound, lines, meant, unbinds, rehandled>>

UnboundReturn ==
  /\ Returning("unbound")
  /\ ctl' = ctl /\ Pop
  /\ UNCHANGED <<heap, nodes, unbound, current_binding, lines, meant, unbinds, rehandled>>

CallFreed ==
  /\ ctl.at = "call" /\ heap[ctl.call] = Freed
  /\ ctl' = Fault
  /\ UNCHANGED <<heap, nodes, unbound, current_binding, stack, lines, meant, unbinds, rehandled>>

---------------------------------------------------------------------------
(* The commands. *)

CallOther ==
  /\ Calling("other") \/ Calling("pass")
  /\ ctl' = At("return")
  /\ UNCHANGED <<heap, nodes, unbound, current_binding, stack, lines, meant, unbinds, rehandled>>

\* A line of configuration is executed without a key.
KeyIsPassed ==
  stack[Len(stack)].fn = "main" /\ \A i \in DOMAIN stack: stack[i].fn # "conf"
Handlings == {i \in DOMAIN stack: stack[i].fn \in {"binding", "unbound"}}

\* handle_key(key), or nothing: there is no key, or it was rehandled too often.
CallRehandle ==
  /\ Calling("rehandle")
  /\ \/ ctl' = At("return") /\ UNCHANGED rehandled
     \/ /\ KeyIsPassed /\ Cardinality(Handlings) < MaxDepth
        /\ ctl' = At("handle") /\ rehandled' = TRUE
  /\ UNCHANGED <<heap, nodes, unbound, current_binding, stack, lines, meant, unbinds>>

CallEvaluate ==
  /\ Calling("evaluate")
  /\ Push([fn |-> "lines", call |-> ctl.call])
  /\ ctl' = At("lines")
  /\ UNCHANGED <<heap, nodes, unbound, current_binding, lines, meant, unbinds, rehandled>>

CallGroup ==
  /\ Calling("group")
  /\ Push([fn |-> "group", call |-> ctl.call, last |-> 1])
  /\ ctl' = Call(heap[ctl.call].kids[1])
  /\ UNCHANGED <<heap, nodes, unbound, current_binding, lines, meant, unbinds, rehandled>>

\* The array is read again after each command, for the next one that is not
\* skipped.
GroupReturn ==
  /\ Returning("group")
  /\ IF heap[Top.call] = Freed
     THEN ctl' = Fault /\ UNCHANGED stack
     ELSE LET kids == heap[Top.call].kids IN
          \/ \E i \in Top.last + 1..Len(kids):
               /\ ctl' = Call(kids[i])
               /\ stack' = <<[Top EXCEPT !.last = i]>> \o Tail(stack)
          \/ ctl' = ctl /\ Pop
  /\ UNCHANGED <<heap, nodes, unbound, current_binding, lines, meant, unbinds, rehandled>>

\* Node i on the way along keys, or Null.
Way(keys) ==
  LET way[i \in 0..Len(keys)] ==
        CASE i = 0 -> Root
          [] i > 0 /\ way[i - 1] = Null -> Null
          [] OTHER -> nodes[way[i - 1]].bindings[keys[i]]
  IN way
Found(keys) == Way(keys)[Len(keys)]
CommandAt(keys) == IF Found(keys) = Null THEN Null ELSE nodes[Found(keys)].command

\* How many of the keys have a node.
Depth(keys) ==
  CHOOSE d \in 0..Len(keys): /\ Way(keys)[d] # Null
                             /\ d < Len(keys) => Way(keys)[d + 1] = Null

\* bind: the nodes that are missing are made, and the last one has no command, for
\* the old one is released before the new one is stored.
BindNodes(keys) ==
  LET depth == Depth(keys)
      last == Way(keys)[depth]
      missing == Len(keys) - depth
      Made(i) ==
        [NewNode EXCEPT !.bindings =
           [k \in Keys |-> IF i < missing /\ k = keys[depth + i + 1] THEN Len(nodes) + i + 1
                                                                   ELSE Null]]
  IN IF missing = 0 THEN [nodes EXCEPT ![last].command = Null]
     ELSE [nodes EXCEPT ![last].bindings[keys[depth + 1]] = Len(nodes) + 1]
            \o [i \in 1..missing |-> Made(i)]

CallBind ==
  /\ Calling("bind")
  /\ Len(BindNodes(Command.keys)) <= MaxNodes
  /\ nodes' = BindNodes(Command.keys)
  /\ releases' = NodePointers({Found(Command.keys)} \ {Null})
  /\ ctl' = [ctl EXCEPT !.at = "bind"]
  /\ UNCHANGED <<heap, unbound, current_binding, stack, lines, meant, unbinds, rehandled>>

\* The arguments are read again after the release.
Argument == heap[ctl.call].kids[1]
ArgumentFreed == heap[ctl.call] # Freed => heap[Argument] = Freed

BindStore ==
  /\ ctl.at = "bind" /\ ~ArgumentFreed
  /\ Reference(Argument)
  /\ nodes' = [nodes EXCEPT ![Found(Command.keys)].command = Argument]
  /\ meant' = [meant EXCEPT !.keys[Command.keys] = Command.subs[1]]
  /\ ctl' = At("return")
  /\ UNCHANGED <<unbound, current_binding, stack, lines, unbinds, rehandled>>

\* unbound does the same for each of its types.
CallUnbound ==
  /\ Calling("unbound")
  /\ Push([fn |-> "types", call |-> ctl.call, types |-> Command.types])
  /\ ctl' = [ctl EXCEPT !.at = "types"]
  /\ UNCHANGED <<heap, nodes, unbound, current_binding, lines, meant, unbinds, rehandled>>

UnboundRelease ==
  /\ ctl.at = "types"
  /\ releases' = TypePointers({Head(Top.types)})
  /\ unbound' = [unbound EXCEPT ![Head(Top.types)] = Null]
  /\ ctl' = [ctl EXCEPT !.at = "store"]
  /\ UNCHANGED <<heap, nodes, current_binding, stack, lines, meant, unbinds, rehandled>>

\* A pass is not stored.
Discarded(text) == Program[text].op = "pass"

UnboundStore ==
  /\ ctl.at = "store" /\ ~ArgumentFreed
  /\ IF Discarded(heap[Argument].text)
     THEN UNCHANGED <<heap, unbound>>
     ELSE Reference(Argument) /\ unbound' = [unbound EXCEPT ![Head(Top.types)] = Argument]
  /\ meant' = [meant EXCEPT !.types[Head(Top.types)] =
                 IF Discarded(Command.subs[1]) THEN Null ELSE Command.subs[1]]
  /\ IF Len(Top.types) = 1
     THEN ctl' = At("return") /\ Pop
     ELSE /\ ctl' = [ctl EXCEPT !.at = "types"]
          /\ stack' = <<[Top EXCEPT !.types = Tail(@)]>> \o Tail(stack)
  /\ UNCHANGED <<nodes, current_binding, lines, unbinds, rehandled>>

StoreFreed ==
  /\ ctl.at \in {"bind", "store"} /\ ArgumentFreed
  /\ ctl' = Fault
  /\ UNCHANGED <<heap, nodes, unbound, current_binding, stack, lines, meant, unbinds, rehandled>>

\* The keys that unbind sees: its size is what malloc() found there.  Behind the
\* last key there is no key that anything is bound to, or there may be one.
SeenKeys(keys) ==
  {SubSeq(keys, 1, size): size \in 1..Len(keys)} \cup {Append(keys, k): k \in Keys}

\* Which of the nodes on the way are deleted from their parents: the last one,
\* and each one above it whose only binding that was, but never the first.
Deleted(keys) ==
  LET way == Way(keys)
      Only(n) == Cardinality({k \in Keys: nodes[n].bindings[k] # Null}) = 1
  IN {i \in 2..Len(keys): \A j \in i..Len(keys) - 1: Only(way[j])}

\* The command of the last one is freed, not only counted down.
Frees(keys) ==
  /\ CommandAt(keys) # Null
  /\ heap[CommandAt(keys)] # Freed => ~StillUsed(heap[CommandAt(keys)])

\* Mutant: the pointer is left in the node.
NotCleared(node) == node
Cleared(node) == [node EXCEPT !.command = Null]
UnbindNodes(keys) ==
  LET way == Way(keys)
      Gone == {way[i]: i \in Deleted(keys)}
      Parents == {way[i - 1]: i \in Deleted(keys)}
  IN [n \in DOMAIN nodes |->
        CASE n \in Gone -> Freed
          [] n \notin Gone /\ n \in Parents ->
               [nodes[n] EXCEPT !.bindings =
                  [k \in Keys |-> IF @[k] \in Gone THEN Null ELSE @[k]]]
          [] n \notin Gone \cup Parents /\ n = Found(keys) /\ Frees(keys) -> Cleared(nodes[n])
          [] OTHER -> nodes[n]]

\* What it does wrong: it takes other keys for its keys, it leaves a pointer to a
\* command without counting it, it loses what it does not free with a node.
Wrong(keys, seen) ==
  LET way == Way(seen)
      Lost == {i \in Deleted(seen):
                 \/ i < Len(seen) /\ nodes[way[i]].command # Null
                 \/ i = Len(seen) /\ Opened(way[i]) # Null}
  IN (IF keys # seen THEN {"size"} ELSE {})
     \cup (IF Len(seen) = 1 /\ CommandAt(seen) # Null /\ ~Frees(seen) THEN {"shared"} ELSE {})
     \cup (IF Lost # {} THEN {"lost"} ELSE {})

UnbindFinds ==
  \E seen \in SeenKeys(Command.keys):
    /\ Found(seen) # Null
    /\ releases' = NodePointers({Found(seen)})
    /\ nodes' = UnbindNodes(seen)
    /\ unbinds' = unbinds \cup Wrong(Command.keys, seen)
    /\ ctl' = At("return")

UnbindFindsNothing ==
  /\ unbinds' = unbinds \cup (IF Found(Command.keys) = Null THEN {} ELSE {"size"})
  /\ ctl' = At("return")
  /\ UNCHANGED <<releases, nodes>>

CallUnbind ==
  /\ Calling("unbind")
  /\ \/ UnbindFinds /\ meant' = [meant EXCEPT !.keys[Command.keys] = Null]
     \/ UnbindFindsNothing /\ meant' = [meant EXCEPT !.keys[Command.keys] = Null]
     \/ /\ ctl' = Fault     \* a size of zero: binding_stack[-1]
        /\ unbinds' = unbinds \cup {"size"}
        /\ UNCHANGED <<releases, nodes, meant>>
  /\ UNCHANGED <<heap, unbound, current_binding, stack, lines, rehandled>>

---------------------------------------------------------------------------
(* context_free(), in a build with FREE_MEMORY, after the program has ended. *)

\* The nodes that binding_free() finds: those that some keys lead to.
Reachable ==
  {n \in DOMAIN nodes:
     n = Root \/ \E t \in Texts: \E i \in 0..Len(Program[t].keys): Way(Program[t].keys)[i] = n}

ContextFree ==
  /\ ctl.at = "poll"
  /\ releases' = NodePointers(Reachable) \cup TypePointers(Types)
  /\ nodes' = [n \in DOMAIN nodes |-> IF n \in Reachable THEN Freed ELSE nodes[n]]
  /\ unbound' = [t \in Types |-> Null]
  /\ ctl' = At("exited")
  /\ UNCHANGED <<heap, current_binding, stack, lines, meant, unbinds, rehandled>>

---------------------------------------------------------------------------

\* What a command does while it is executed, and what is done after it.
Step ==
  \/ ReadLine \/ LinesEnd \/ LineInvalid
  \/ ReadKey \/ HandleFreed \/ HandleBound \/ HandleUnbound \/ KeyReturn
  \/ BindingRepeat \/ BindingReturn \/ UnboundReturn \/ CallFreed
  \/ CallOther \/ CallRehandle \/ CallEvaluate \/ CallGroup \/ GroupReturn
  \/ BindStore \/ CallUnbound \/ UnboundStore \/ StoreFreed
\* The steps that release pointers.
StepReleasing == LineReturn \/ CallBind \/ UnboundRelease \/ CallUnbind \/ ContextFree

Stopped == (ctl.at = "fault" \/ (ctl.at = "exited" /\ releases = {})) /\ UNCHANGED vars

Next ==
  \/ releases # {} /\ Release
  \/ releases = {} /\ ((Step /\ UNCHANGED releases) \/ StepReleasing)
  \/ Stopped

Spec == Init /\ [][Next]_vars

---------------------------------------------------------------------------

Live(a) == heap[a] # Freed

\* Every pointer to a command: those of the nodes, the unbound fields, the commands
\* and read_conf_stream(), and those that are being released.
HeldPointers ==
  NodePointers(DOMAIN nodes) \cup TypePointers(Types)
    \cup (UNION {{KidPointer(a, i): i \in DOMAIN heap[a].kids}: a \in {b \in Addresses: Live(b)}})
    \cup {FramePointer(i): i \in {j \in DOMAIN stack: stack[j].fn = "conf"}}
Pointers == HeldPointers \cup releases
Counted(a) == {p \in Pointers: p.counted /\ p.call = a}

Frames ==
  [fn: {"lines"}, call: Addresses \cup {Null}] \cup [fn: {"conf", "unbound"}, call: Addresses]
    \cup [fn: {"binding"}, node: DOMAIN nodes, call: Addresses, left: 0..MaxRepeat]
    \cup [fn: {"main"}, call: {Null}, key: Keys]
    \cup [fn: {"group"}, call: Addresses, last: Nat]
    \cup [fn: {"types"}, call: Addresses, types: Seq(Types) \ {<<>>}]
Places == {"lines", "poll", "handle", "call", "return", "bind", "types", "store", "fault", "exited"}

\* No pointer leads out of the heap, and no count falls below zero.
TypeOK ==
  /\ heap \in Seq(Objects \cup {Freed}) /\ nodes \in Seq(Nodes \cup {Freed}) /\ nodes # <<>>
  /\ \A p \in Pointers: p.call \in Addresses
  /\ \A a \in Addresses: Live(a) => heap[a].refcount >= 0
  /\ \A n \in DOMAIN nodes: nodes[n] # Freed =>
       \A k \in Keys: nodes[n].bindings[k] \in {Null} \cup DOMAIN nodes
  /\ DOMAIN unbound = Types
  /\ current_binding \in DOMAIN nodes \cup {Null}
  /\ ctl \in [at: Places, call: Addresses \cup {Null}]
  /\ stack \in Seq(Frames)

\* The count of a command is the number of pointers of bindings, unbound fields and
\* bind and unbound commands to it, a command of a group or a line has one pointer
\* only, and none of them leads to what has been freed - as long as unbind has not
\* gone wrong.  This goes for every order of binding, replacing and executing, and
\* for the commands that replace themselves.
CountsAreReferences ==
  ctl.at # "fault" /\ unbinds = {} =>
    /\ \A a \in Addresses: Live(a) => heap[a].refcount = Cardinality(Counted(a))
    /\ \A p \in Pointers: /\ Live(p.call)
                          /\ ~p.counted => \A q \in Pointers: q.call = p.call => q = p

\* What is being executed, and the nodes whose commands are.
Running == {stack[i].call: i \in DOMAIN stack} \cup {ctl.call}
NodesInUse == {stack[i].node: i \in {j \in DOMAIN stack: stack[j].fn = "binding"}}

ChainIsFreed == current_binding # Null /\ nodes[current_binding] = Freed
\* No key leads on from the node that the chain is open on.
ChainIsDead == current_binding # Null /\ (ChainIsFreed \/ Opened(current_binding) = Null)

\* Freed memory is used only by a command that has replaced itself, or by
\* binding_execute() when unbind has freed its node, or for a chain of keys that is
\* open on freed nodes, or after unbind took wrong keys or left a pointer behind.
\* Such a chain, or one whose node has lost all its keys, is left by a command only
\* that has rehandled its key, to open it, before it unbound it.  At the start, nothing
\* but unbind is dangerous.
FaultsHaveCauses ==
  /\ ctl.at = "poll" /\ ChainIsDead => rehandled
  /\ ctl.at = "fault" =>
    /\ \/ unbinds \cap {"size", "shared"} # {}
       \/ \E a \in Running \ {Null}: heap[a] = Freed
       \/ \E n \in NodesInUse: nodes[n] = Freed
       \/ ctl.call = Null /\ ChainIsFreed
    /\ (stack # <<>> /\ stack[Len(stack)].fn = "lines") => unbinds # {}

\* When the program has ended, commands that were replaced, also by themselves, have
\* been freed, and nothing was freed twice.  What is left are the command_call_t of
\* the only commands of groups.
AllIsFreed ==
  ctl.at = "exited" /\ releases = {} /\ unbinds = {} =>
    (\A a \in Addresses: Live(a) => IsLost(heap[a].text)) /\ (\A n \in DOMAIN nodes: nodes[n] = Freed)

TextAt(a) == CASE a = Null -> Null
               [] a # Null /\ heap[a] = Freed -> Freed
               [] OTHER -> heap[a].text
\* A chain of keys has the command that was last bound to it, and a type of key
\* the one that was last made its unbound command, or none after unbind, unless
\* unbind goes wrong.
TableIsKept ==
  ctl.at = "poll" /\ unbinds = {} =>
    /\ \A keys \in DOMAIN meant.keys \ {<<>>}: TextAt(CommandAt(keys)) = meant.keys[keys]
    /\ \A t \in Types: TextAt(unbound[t]) = meant.types[t]
=============================================================================
