------------------------ MODULE OwnershipSafe_proofs ------------------------
(***************************************************************************)
(* The invariant of Ownership: the commands in the heap and the pointers   *)
(* to them, the tree of bindings, and the stack.  From it follow the types *)
(* and the counts, for every configuration.                                *)
(***************************************************************************)
EXTENDS OwnershipData_proofs

-----------------------------------------------------------------------------
(* The commands in the heap, and the frames. *)

KidsOK(H, a) ==
  /\ Len(H[a].kids) = Len(Program[H[a].text].subs)
  /\ \A i \in 1..Len(H[a].kids):
       /\ H[a].kids[i] \in a + 1..Len(H)
       /\ H[H[a].kids[i]] # Freed => H[H[a].kids[i]].text = Program[H[a].text].subs[i]
\* What is in a command comes after it, and is what its text says.
HeapOK(H) == H \in Seq(Objects \cup {Freed}) /\ \A a \in 1..Len(H): H[a] # Freed => KidsOK(H, a)

\* What has not been freed is what it was.
Later(H, G) ==
  /\ Len(H) <= Len(G)
  /\ \A a \in 1..Len(H): G[a] # Freed => H[a] # Freed /\ G[a].text = H[a].text /\ G[a].kids = H[a].kids

\* What is known of a command that can be written.
LEMMA WellFormedIs ==
  ASSUME NEW c, WellFormed(c)
  PROVE  /\ c.op \in Operations /\ c.keys \in Seq(Keys) /\ c.types \in Seq(Types) /\ c.subs \in Seq(Texts)
         /\ c.op \in {"bind", "unbind"} => c.keys # <<>>
         /\ c.op = "unbound" => c.types # <<>>
         /\ c.op \in {"bind", "unbound"} => Len(c.subs) = 1
         /\ c.op = "group" => Len(c.subs) > 0
         /\ c.op \notin {"bind", "unbound", "group"} => c.subs = <<>>
BY DEF WellFormed

\* What a command is that was not freed.
LEMMA ObjectIs ==
  ASSUME NEW H, H \in Seq(Objects \cup {Freed}), NEW a \in 1..Len(H), H[a] # Freed
  PROVE  /\ H[a] \in Objects /\ H[a].text \in Texts /\ H[a].refcount \in Int
         /\ H[a].kids \in Seq(Nat) /\ Len(H[a].kids) \in Nat /\ DOMAIN H[a].kids = 1..Len(H[a].kids)
         /\ WellFormed(Program[H[a].text])
<1>1. H[a] \in Objects
  BY ElementOfSeq
<1>2. H[a].text \in Texts /\ H[a].refcount \in Int /\ H[a].kids \in Seq(Nat)
  BY <1>1 DEF Objects
<1>3. Len(H[a].kids) \in Nat /\ DOMAIN H[a].kids = 1..Len(H[a].kids)
  BY <1>2
<1>4. WellFormed(Program[H[a].text])
  BY <1>2, TextsAssumption
<1> QED BY <1>1, <1>2, <1>3, <1>4

\* The heap stays well-formed when commands are freed or counted.
LEMMA HeapKept ==
  ASSUME NEW H, HeapOK(H), NEW G, G \in Seq(Objects \cup {Freed}), Len(G) = Len(H), Later(H, G)
  PROVE  HeapOK(G)
<1>1. ASSUME NEW a \in 1..Len(G), G[a] # Freed PROVE KidsOK(G, a)
  <2>1. a \in 1..Len(H) /\ H[a] # Freed /\ G[a].text = H[a].text /\ G[a].kids = H[a].kids
    BY <1>1 DEF Later
  <2>2. KidsOK(H, a)
    BY <2>1 DEF HeapOK
  <2>3. ASSUME NEW i \in 1..Len(H[a].kids)
        PROVE  /\ H[a].kids[i] \in a + 1..Len(G)
               /\ G[H[a].kids[i]] # Freed => G[H[a].kids[i]].text = Program[H[a].text].subs[i]
    <3>1. H[a].kids[i] \in a + 1..Len(H) /\ H[a].kids[i] \in 1..Len(H)
      BY <2>1, <2>2 DEF KidsOK, HeapOK
    <3>2. H[H[a].kids[i]] # Freed => H[H[a].kids[i]].text = Program[H[a].text].subs[i]
      BY <2>2 DEF KidsOK
    <3> QED BY <3>1, <3>2 DEF Later
  <2> QED BY <2>1, <2>2, <2>3 DEF KidsOK
<1> QED BY <1>1 DEF HeapOK

\* It stays well-formed when a line is put into it.
LEMMA HeapGrown ==
  ASSUME NEW H, HeapOK(H), NEW line, NEW X, Allocated(line, Len(H), X), NEW G, Appended(H, X, G)
  PROVE  HeapOK(G) /\ Later(H, G)
<1> DEFINE b == Len(H)
<1> DEFINE n == Len(X)
<1>0. G \in Seq(Objects \cup {Freed})
  BY DEF Appended
<1>1. b \in Nat /\ n \in Nat /\ Len(G) = b + n
  BY DEF HeapOK, Appended
<1>2. \A a \in 1..b: G[a] = H[a]
  BY DEF Appended
<1>3. \A i \in 1..n: G[b + i] = X[i]
  BY DEF Appended
<1>4. \A a \in 1..b: H[a] # Freed => KidsOK(H, a)
  BY DEF HeapOK
<1>5. \A i \in 1..n:
        /\ Len(X[i].kids) = Len(Program[X[i].text].subs)
        /\ \A j \in 1..Len(X[i].kids): \E k \in i + 1..n:
             X[i].kids[j] = b + k /\ X[k].text = Program[X[i].text].subs[j]
  BY DEF Allocated
<1> HIDE DEF b, n
<1>6. ASSUME NEW a \in 1..b, H[a] # Freed PROVE KidsOK(G, a)
  <2>1. KidsOK(H, a) /\ G[a] = H[a]
    BY <1>2, <1>4, <1>6
  <2>2. ASSUME NEW i \in 1..Len(H[a].kids)
        PROVE  /\ H[a].kids[i] \in a + 1..Len(G)
               /\ G[H[a].kids[i]] # Freed => G[H[a].kids[i]].text = Program[H[a].text].subs[i]
    <3>1. H[a].kids[i] \in a + 1..b
      BY <2>1 DEF KidsOK, b
    <3>2. H[a].kids[i] \in 1..b /\ H[a].kids[i] \in a + 1..Len(G)
      BY <1>1, <3>1
    <3>3. H[H[a].kids[i]] # Freed => H[H[a].kids[i]].text = Program[H[a].text].subs[i]
      BY <2>1 DEF KidsOK
    <3> QED BY <1>2, <3>2, <3>3
  <2> QED BY <2>1, <2>2 DEF KidsOK
<1>7. ASSUME NEW i \in 1..n PROVE KidsOK(G, b + i)
  <2>1. G[b + i] = X[i]
    BY <1>3
  <2>2. ASSUME NEW j \in 1..Len(X[i].kids)
        PROVE  /\ X[i].kids[j] \in b + i + 1..Len(G)
               /\ G[X[i].kids[j]].text = Program[X[i].text].subs[j]
    <3>1. PICK k \in i + 1..n: X[i].kids[j] = b + k /\ X[k].text = Program[X[i].text].subs[j]
      BY <1>5
    <3>2. k \in 1..n /\ b + k \in b + i + 1..Len(G)
      BY <1>1
    <3>3. G[X[i].kids[j]] = X[k]
      BY <1>3, <3>1, <3>2
    <3> QED BY <3>1, <3>2, <3>3
  <2>3. Len(X[i].kids) = Len(Program[X[i].text].subs)
    BY <1>5
  <2> QED BY <2>1, <2>2, <2>3 DEF KidsOK
<1>8. ASSUME NEW a \in 1..Len(G), G[a] # Freed PROVE KidsOK(G, a)
  <2>1. CASE a \in 1..b
    BY <1>2, <1>6, <1>8, <2>1
  <2>2. CASE a \notin 1..b
    <3>1. a - b \in 1..n /\ b + (a - b) = a
      BY <1>1, <2>2
    <3>2. KidsOK(G, b + (a - b))
      BY <1>7, <3>1
    <3> QED BY <3>1, <3>2
  <2> QED BY <2>1, <2>2
<1>9. Later(H, G)
  <2>1. Len(H) <= Len(G)
    BY <1>1 DEF b
  <2> QED BY <1>2, <2>1 DEF Later, b
<1> QED BY <1>0, <1>8, <1>9 DEF HeapOK

\* The frames that can be, with so many addresses and nodes.
FramesOf(h, n) ==
  [fn: {"lines"}, call: 1..h \cup {Null}] \cup [fn: {"conf", "unbound"}, call: 1..h]
    \cup [fn: {"binding"}, node: 1..n, call: 1..h, left: 0..MaxRepeat]
    \cup [fn: {"main"}, call: {Null}, key: Keys]
    \cup [fn: {"group"}, call: 1..h, last: Nat]
    \cup [fn: {"types"}, call: 1..h, types: Seq(Types) \ {<<>>}]

\* The frames of a state, here and in the next one.
LEMMA FramesDef ==
  /\ DOMAIN nodes = 1..Len(nodes) => Frames = FramesOf(Len(heap), Len(nodes))
  /\ (DOMAIN nodes = 1..Len(nodes))' => Frames' = FramesOf(Len(heap'), Len(nodes'))
BY DEF Frames, FramesOf, Addresses

\* What is in a frame.
LEMMA FrameIs ==
  ASSUME NEW h, NEW n, NEW f \in FramesOf(h, n)
  PROVE  /\ f.fn \in {"lines", "conf", "main", "unbound", "binding", "group", "types"}
         /\ f.call \in 1..h \cup {Null} /\ (f.fn \notin {"lines", "main"} => f.call \in 1..h)
         /\ f.fn = "main" => f.call = Null /\ f.key \in Keys
         /\ f.fn = "binding" => f \in [fn: {"binding"}, node: 1..n, call: 1..h, left: 0..MaxRepeat]
         /\ f.fn = "group" => f \in [fn: {"group"}, call: 1..h, last: Nat]
         /\ f.fn = "types" => f \in [fn: {"types"}, call: 1..h, types: Seq(Types) \ {<<>>}]
BY DEF FramesOf

\* More addresses and nodes.
LEMMA FramesGrow ==
  ASSUME NEW h \in Nat, NEW n \in Nat, NEW g \in Nat, NEW m \in Nat, h <= g, n <= m
  PROVE  FramesOf(h, n) \subseteq FramesOf(g, m)
<1>1. 1..h \subseteq 1..g /\ 1..n \subseteq 1..m
  OBVIOUS
<1> DEFINE A == 1..h
<1> DEFINE B == 1..n
<1> DEFINE C == 1..g
<1> DEFINE D == 1..m
<1> HIDE DEF A, B, C, D
<1>2. A \subseteq C /\ B \subseteq D
  BY <1>1 DEF A, B, C, D
<1>3. FramesOf(h, n) =
        [fn: {"lines"}, call: A \cup {Null}] \cup [fn: {"conf", "unbound"}, call: A]
          \cup [fn: {"binding"}, node: B, call: A, left: 0..MaxRepeat]
          \cup [fn: {"main"}, call: {Null}, key: Keys]
          \cup [fn: {"group"}, call: A, last: Nat]
          \cup [fn: {"types"}, call: A, types: Seq(Types) \ {<<>>}]
  BY DEF FramesOf, A, B
<1>4. FramesOf(g, m) =
        [fn: {"lines"}, call: C \cup {Null}] \cup [fn: {"conf", "unbound"}, call: C]
          \cup [fn: {"binding"}, node: D, call: C, left: 0..MaxRepeat]
          \cup [fn: {"main"}, call: {Null}, key: Keys]
          \cup [fn: {"group"}, call: C, last: Nat]
          \cup [fn: {"types"}, call: C, types: Seq(Types) \ {<<>>}]
  BY DEF FramesOf, C, D
<1> QED BY <1>2, <1>3, <1>4

IsBottom(f) == f.fn = "main" \/ (f.fn = "lines" /\ f.call = Null)

\* A frame fits on those below it: only the first one is that of a key or of the
\* start, and lines of configuration are read for those who read them.
FrameFits(f, s, H) ==
  /\ IsBottom(f) <=> s = <<>>
  /\ f.fn = "conf" => s # <<>> /\ s[1].fn = "lines"
  /\ f.fn = "group" /\ H[f.call] # Freed => Program[H[f.call].text].op = "group"
StackOK(s, H) ==
  \A i \in 1..Len(s):
    /\ IsBottom(s[i]) <=> i = Len(s)
    /\ s[i].fn = "conf" => i < Len(s) /\ s[i + 1].fn = "lines"
    /\ s[i].fn = "group" /\ H[s[i].call] # Freed => Program[H[s[i].call].text].op = "group"

\* Without its first frame the stack is still one, and that frame fits on it.
LEMMA StackPopped ==
  ASSUME NEW S, NEW s \in Seq(S), s # <<>>, NEW H, StackOK(s, H)
  PROVE  /\ StackOK(Tail(s), H) /\ FrameFits(s[1], Tail(s), H)
         /\ Tail(s) # <<>> => Tail(s)[Len(Tail(s))] = s[Len(s)]
         /\ IsBottom(s[Len(s)])
<1> DEFINE n == Len(s)
<1> DEFINE t == Tail(s)
<1>1. t \in Seq(S) /\ Len(t) = n - 1 /\ n \in Nat \ {0} /\ (t = <<>> <=> n = 1) /\ \A i \in 1..n - 1: t[i] = s[i + 1]
  BY Popped
<1>2. \A i \in 1..n:
        /\ IsBottom(s[i]) <=> i = n
        /\ s[i].fn = "conf" => i < n /\ s[i + 1].fn = "lines"
        /\ s[i].fn = "group" /\ H[s[i].call] # Freed => Program[H[s[i].call].text].op = "group"
  BY DEF StackOK
<1> HIDE DEF n, t
<1>3. ASSUME NEW i \in 1..Len(t)
      PROVE  /\ IsBottom(t[i]) <=> i = Len(t)
             /\ t[i].fn = "conf" => i < Len(t) /\ t[i + 1].fn = "lines"
             /\ t[i].fn = "group" /\ H[t[i].call] # Freed => Program[H[t[i].call].text].op = "group"
  <2>1. i \in 1..n - 1 /\ i + 1 \in 1..n /\ (i + 1 = n <=> i = Len(t)) /\ (i + 1 < n <=> i < Len(t))
    BY <1>1
  <2>2. t[i] = s[i + 1]
    BY <1>1, <2>1
  <2>3. i < Len(t) => t[i + 1] = s[(i + 1) + 1]
    BY <1>1, <2>1
  <2>4. IsBottom(t[i]) <=> i = Len(t)
    BY <1>2, <2>1, <2>2
  <2>5. t[i].fn = "conf" => i < Len(t) /\ t[i + 1].fn = "lines"
    <3>1. s[i + 1].fn = "conf" => i + 1 < n /\ s[(i + 1) + 1].fn = "lines"
      BY <1>2, <2>1
    <3> QED BY <2>1, <2>2, <2>3, <3>1
  <2> QED BY <1>2, <2>1, <2>2, <2>4, <2>5
<1>4. StackOK(t, H)
  BY <1>3 DEF StackOK
<1>5. FrameFits(s[1], t, H)
  <2>1. 1 \in 1..n /\ (1 = n <=> t = <<>>) /\ (1 < n => t[1] = s[1 + 1])
    BY <1>1
  <2>2. s[1].fn = "conf" => t # <<>> /\ t[1].fn = "lines"
    <3>1. s[1].fn = "conf" => 1 < n /\ s[1 + 1].fn = "lines"
      BY <1>2, <2>1
    <3> QED BY <1>1, <2>1, <3>1
  <2> QED BY <1>2, <2>1, <2>2 DEF FrameFits
<1>6. t # <<>> => t[Len(t)] = s[n]
  BY <1>1
<1>7. IsBottom(s[n])
  BY <1>1, <1>2
<1> QED BY <1>4, <1>5, <1>6, <1>7 DEF n, t

\* With a frame that fits on it the stack is still one.
LEMMA StackPushed ==
  ASSUME NEW S, NEW s \in Seq(S), NEW f \in S, NEW H, StackOK(s, H), FrameFits(f, s, H)
  PROVE  StackOK(<<f>> \o s, H)
<1> DEFINE n == Len(s)
<1> DEFINE t == <<f>> \o s
<1>1. t \in Seq(S) /\ Len(t) = n + 1 /\ n \in Nat /\ t[1] = f /\ (s = <<>> <=> n = 0)
  BY Pushed
<1>2. (\A i \in 1..n: t[i + 1] = s[i]) /\ \A i \in 2..Len(t): t[i] = s[i - 1]
  BY Pushed
<1>3. \A i \in 1..n:
        /\ IsBottom(s[i]) <=> i = n
        /\ s[i].fn = "conf" => i < n /\ s[i + 1].fn = "lines"
        /\ s[i].fn = "group" /\ H[s[i].call] # Freed => Program[H[s[i].call].text].op = "group"
  BY DEF StackOK
<1> HIDE DEF n, t
<1>4. ASSUME NEW i \in 1..Len(t)
      PROVE  /\ IsBottom(t[i]) <=> i = Len(t)
             /\ t[i].fn = "conf" => i < Len(t) /\ t[i + 1].fn = "lines"
             /\ t[i].fn = "group" /\ H[t[i].call] # Freed => Program[H[t[i].call].text].op = "group"
  <2>1. CASE i = 1
    <3>1. (i = Len(t) <=> s = <<>>) /\ (s # <<>> => i < Len(t) /\ t[i + 1] = s[1])
      BY <1>1, <1>2, <2>1
    <3>2. t[i] = f
      BY <1>1, <2>1
    <3> QED BY <3>1, <3>2 DEF FrameFits
  <2>2. CASE i # 1
    <3> DEFINE j == i - 1
    <3>1. j \in 1..n /\ i = j + 1 /\ (i = Len(t) <=> j = n) /\ (i < Len(t) <=> j < n)
      BY <1>1, <2>2
    <3> HIDE DEF j
    <3>2. t[i] = s[j] /\ (j < n => t[i + 1] = s[j + 1])
      <4>1. t[j + 1] = s[j]
        BY <1>2, <3>1
      <4>2. j < n => t[(j + 1) + 1] = s[j + 1]
        BY <1>1, <1>2, <3>1
      <4> QED BY <3>1, <4>1, <4>2
    <3>3. s[j].fn = "conf" => j < n /\ s[j + 1].fn = "lines"
      BY <1>3, <3>1
    <3>4. IsBottom(t[i]) <=> i = Len(t)
      BY <1>3, <3>1, <3>2
    <3>5. t[i].fn = "group" /\ H[t[i].call] # Freed => Program[H[t[i].call].text].op = "group"
      BY <1>3, <3>1, <3>2
    <3>6. t[i].fn = "conf" => i < Len(t) /\ t[i + 1].fn = "lines"
      BY <3>1, <3>2, <3>3
    <3> QED BY <3>4, <3>5, <3>6
  <2> QED BY <2>1, <2>2
<1>5. StackOK(t, H)
  BY <1>4 DEF StackOK
<1> QED BY <1>5 DEF t

\* The commands of the frames may be freed meanwhile.
LEMMA StackLater ==
  ASSUME NEW h \in Nat, NEW n, NEW s \in Seq(FramesOf(h, n)), NEW H, NEW G, Len(H) = h, StackOK(s, H), Later(H, G)
  PROVE  StackOK(s, G)
<1>1. ASSUME NEW i \in 1..Len(s), s[i].fn = "group", G[s[i].call] # Freed
      PROVE  Program[G[s[i].call].text].op = "group"
  <2>1. s[i] \in FramesOf(h, n)
    BY ElementOfSeq
  <2>2. s[i].call \in 1..Len(H)
    BY <1>1, <2>1, FrameIs
  <2>3. H[s[i].call] # Freed /\ G[s[i].call].text = H[s[i].call].text
    BY <1>1, <2>2 DEF Later
  <2> QED BY <1>1, <2>3 DEF StackOK
<1> QED BY <1>1 DEF StackOK

-----------------------------------------------------------------------------
(* What holds in every state. *)

\* The heap H, the pointers Q that are held and R that are being released, and what
\* unbind has done wrong.
Pointed(H, Q, R, W) ==
  /\ Sound(H, Q \cup R)
  /\ "shared" \notin W => /\ Q \cap R = {} /\ Safe(H, Q \cup R)
                          /\ "lost" \notin W => Exact(H, Q \cup R)
NodesOK(N) ==
  /\ N \in Seq(Nodes \cup {Freed}) /\ N # <<>>
  /\ \A n \in 1..Len(N): N[n] # Freed => \A k \in Keys: N[n].bindings[k] \in {Null} \cup 1..Len(N)

\* The control point c on the stack s: what is executed there, and which stores are due.
Executing(c) == c.at \in {"call", "bind", "types", "store"}
PlaceOK(H, N, U, c, s) ==
  /\ s = <<>> <=> c.at \in {"poll", "exited"}
  /\ c.at = "lines" => s[1].fn = "lines"
  /\ c.at = "handle" => s[Len(s)].fn = "main"
  /\ c.at \in {"types", "store"} => s[1].fn = "types"
  /\ Executing(c) => c.call # Null
  /\ c.at = "bind" /\ H[c.call] # Freed =>
       LET command == Program[H[c.call].text] IN
       command.op = "bind" /\ FoundOf(N, command.keys) # Null /\ CommandOf(N, command.keys) = Null
  /\ c.at \in {"types", "store"} /\ H[c.call] # Freed => Program[H[c.call].text].op = "unbound"
  /\ c.at = "store" => U[Head(s[1].types)] = Null

DataInv ==
  /\ HeapOK(heap) /\ NodesOK(nodes) /\ DOMAIN unbound = Types
  /\ Pointed(heap, Held(nodes, unbound, heap, stack), releases, unbinds)
ControlInv ==
  /\ current_binding \in 1..Len(nodes) \cup {Null}
  /\ ctl \in [at: Places, call: 1..Len(heap) \cup {Null}]
  /\ stack \in Seq(FramesOf(Len(heap), Len(nodes)))
  /\ ctl.at \notin {"fault", "exited"} => TreeOK(nodes)
  /\ ctl.at # "fault" => /\ StackOK(stack, heap)
                         /\ PlaceOK(heap, nodes, unbound, ctl, stack)
SafeInv == DataInv /\ ControlInv

\* What a pointer leads to is in the heap, and live unless a pointer was left behind.
LEMMA HeldIs ==
  ASSUME DataInv
  PROVE  /\ Len(heap) \in Nat /\ heap \in Seq(Objects \cup {Freed})
         /\ Len(nodes) \in Nat \ {0} /\ nodes \in Seq(Nodes \cup {Freed}) /\ DOMAIN nodes = 1..Len(nodes)
         /\ \A n \in 1..Len(nodes): nodes[n] # Freed /\ nodes[n].command # Null => nodes[n].command \in 1..Len(heap)
         /\ \A t \in Types: unbound[t] # Null => unbound[t] \in 1..Len(heap)
         /\ "shared" \notin unbinds =>
              /\ \A n \in 1..Len(nodes): nodes[n] # Freed /\ nodes[n].command # Null => heap[nodes[n].command] # Freed
              /\ \A t \in Types: unbound[t] # Null => heap[unbound[t]] # Freed
              /\ \A a \in 1..Len(heap): heap[a] # Freed => \A i \in 1..Len(heap[a].kids): heap[heap[a].kids[i]] # Freed
              /\ \A i \in DOMAIN stack: stack[i].fn = "conf" => heap[stack[i].call] # Freed
              /\ \A r \in releases: heap[r.call] # Freed
<1> DEFINE Q == Held(nodes, unbound, heap, stack)
<1>1. HeapOK(heap) /\ NodesOK(nodes) /\ DOMAIN unbound = Types /\ Pointed(heap, Q, releases, unbinds)
  BY DEF DataInv
<1>2. heap \in Seq(Objects \cup {Freed}) /\ nodes \in Seq(Nodes \cup {Freed}) /\ nodes # <<>>
  BY <1>1 DEF HeapOK, NodesOK
<1>3. Len(heap) \in Nat /\ Len(nodes) \in Nat \ {0} /\ DOMAIN nodes = 1..Len(nodes)
  BY <1>2
<1>4. /\ \A p \in Q \cup releases: p.call \in 1..Len(heap)
      /\ "shared" \notin unbinds => \A p \in Q \cup releases: heap[p.call] # Freed
  BY <1>1 DEF Pointed, Sound, Safe
<1>5. NP(nodes) \subseteq Q /\ TP(unbound) \subseteq Q /\ KP(heap) \subseteq Q /\ FP(stack) \subseteq Q
  BY DEF Held
<1> HIDE DEF Q
<1>6. ASSUME NEW n \in 1..Len(nodes), nodes[n] # Freed, nodes[n].command # Null
      PROVE  nodes[n].command \in 1..Len(heap) /\ ("shared" \notin unbinds => heap[nodes[n].command] # Freed)
  <2>1. NPtr(nodes, n) \in NP(nodes)
    BY <1>3, <1>6 DEF NP, NPOf
  <2>2. NPtr(nodes, n).call = nodes[n].command
    BY NPtrIs
  <2> QED BY <1>4, <1>5, <2>1, <2>2
<1>7. ASSUME NEW t \in Types, unbound[t] # Null
      PROVE  unbound[t] \in 1..Len(heap) /\ ("shared" \notin unbinds => heap[unbound[t]] # Freed)
  <2>1. TPtr(unbound, t) \in TP(unbound)
    BY <1>7 DEF TP, TPOf
  <2>2. TPtr(unbound, t).call = unbound[t]
    BY TPtrIs
  <2> QED BY <1>4, <1>5, <2>1, <2>2
<1>8. ASSUME "shared" \notin unbinds, NEW a \in 1..Len(heap), heap[a] # Freed, NEW i \in 1..Len(heap[a].kids)
      PROVE  heap[heap[a].kids[i]] # Freed
  <2>1. i \in DOMAIN heap[a].kids
    BY <1>2, <1>8, ObjectIs
  <2>2. KPtr(heap, a, i) \in KP(heap)
    BY <1>8, <2>1 DEF KP, KPOf
  <2>3. KPtr(heap, a, i).call = heap[a].kids[i]
    BY KPtrIs
  <2> QED BY <1>4, <1>5, <1>8, <2>2, <2>3
<1>9. ASSUME "shared" \notin unbinds, NEW i \in DOMAIN stack, stack[i].fn = "conf"
      PROVE  heap[stack[i].call] # Freed
  <2>1. FPtr(stack, i) \in FP(stack)
    BY <1>9 DEF FP
  <2>2. FPtr(stack, i).call = stack[i].call
    BY FPtrIs
  <2> QED BY <1>4, <1>5, <1>9, <2>1, <2>2
<1>10. ASSUME "shared" \notin unbinds, NEW r \in releases PROVE heap[r.call] # Freed
  BY <1>4, <1>10
<1> QED BY <1>2, <1>3, <1>6, <1>7, <1>8, <1>9, <1>10

\* The steps that change nothing but the place, the stack and the open chain.
LEMMA ControlKept ==
  ASSUME SafeInv, UNCHANGED <<heap, nodes, unbound, releases>>, unbinds \subseteq unbinds',
         FP(stack') = FP(stack),
         current_binding' \in 1..Len(nodes) \cup {Null},
         ctl' \in [at: Places, call: 1..Len(heap) \cup {Null}],
         stack' \in Seq(FramesOf(Len(heap), Len(nodes))),
         ctl'.at \notin {"fault", "exited"} => ctl.at \notin {"fault", "exited"},
         ctl'.at # "fault" => /\ StackOK(stack', heap)
                              /\ PlaceOK(heap, nodes, unbound, ctl', stack')
  PROVE  SafeInv'
<1>1. DataInv'
  <2> DEFINE Q == Held(nodes, unbound, heap, stack)
  <2>1. Held(nodes', unbound', heap', stack') = Q
    BY DEF Held
  <2>2. HeapOK(heap) /\ NodesOK(nodes) /\ DOMAIN unbound = Types /\ Pointed(heap, Q, releases, unbinds)
    BY DEF SafeInv, DataInv
  <2> HIDE DEF Q
  <2>3. Pointed(heap', Q, releases', unbinds')
    <3>1. heap' = heap /\ releases' = releases
      OBVIOUS
    <3>2. Pointed(heap, Q, releases, unbinds')
      BY <2>2 DEF Pointed
    <3> QED BY <3>1, <3>2
  <2> QED BY <2>1, <2>2, <2>3 DEF DataInv
<1>2. ControlInv'
  <2>1. heap' = heap /\ nodes' = nodes /\ unbound' = unbound
    OBVIOUS
  <2>2. ctl.at \notin {"fault", "exited"} => TreeOK(nodes)
    BY DEF SafeInv, ControlInv
  <2> QED BY <2>1, <2>2 DEF ControlInv
<1> QED BY <1>1, <1>2 DEF SafeInv

\* The program has followed a pointer to something freed.
LEMMA FaultSafe ==
  ASSUME SafeInv, UNCHANGED <<heap, nodes, unbound, releases, stack, current_binding>>,
         unbinds \subseteq unbinds', ctl' = Fault
  PROVE  SafeInv'
<1>1. ControlInv
  BY DEF SafeInv
<1>2. ctl' \in [at: Places, call: 1..Len(heap) \cup {Null}] /\ ctl'.at = "fault"
  BY <1>1 DEF ControlInv, Fault, Places
<1>3. FP(stack') = FP(stack)
  OBVIOUS
<1>4. current_binding' \in 1..Len(nodes) \cup {Null} /\ stack' \in Seq(FramesOf(Len(heap), Len(nodes)))
  BY <1>1 DEF ControlInv
<1> QED BY <1>2, <1>3, <1>4, ControlKept

\* A place where nothing is stored.
LEMMA PlainPlace ==
  ASSUME NEW H, NEW N, NEW U, NEW s, NEW c,
         c.at \in {"poll", "lines", "call", "return"}, s = <<>> <=> c.at = "poll",
         c.at = "lines" => s[1].fn = "lines", c.at = "call" => c.call # Null
  PROVE  PlaceOK(H, N, U, c, s)
<1>1. c.at # "bind" /\ c.at # "types" /\ c.at # "store" /\ c.at # "exited"
  OBVIOUS
<1> QED BY <1>1 DEF PlaceOK, Executing

\* A control point is one, whatever is called there.
LEMMA PlacesAre ==
  ASSUME NEW h \in Nat
  PROVE  /\ \A place \in Places: At(place) \in [at: Places, call: 1..h \cup {Null}] /\ At(place).at = place
         /\ \A a \in 1..h: Call(a) \in [at: Places, call: 1..h \cup {Null}] /\ Call(a).at = "call" /\ Call(a).call = a
         /\ \A a \in 1..h: a # Null
<1>1. \A a \in 1..h: a # Null
  BY NoAddressAssumption
<1> QED BY <1>1 DEF At, Call, Places

\* What is known while the program runs.
LEMMA RunningIs ==
  ASSUME SafeInv, ctl.at \notin {"fault", "exited"}
  PROVE  /\ stack \in Seq(FramesOf(Len(heap), Len(nodes))) /\ Len(stack) \in Nat
         /\ current_binding \in 1..Len(nodes) \cup {Null}
         /\ ctl \in [at: Places, call: 1..Len(heap) \cup {Null}]
         /\ TreeOK(nodes) /\ StackOK(stack, heap)
         /\ PlaceOK(heap, nodes, unbound, ctl, stack)
         /\ stack = <<>> <=> ctl.at = "poll"
         /\ Executing(ctl) => ctl.call \in 1..Len(heap)
         /\ \A a: a \in 1..Len(heap) => a # Null
<1>1. ControlInv /\ DataInv
  BY DEF SafeInv
<1>2. /\ stack \in Seq(FramesOf(Len(heap), Len(nodes)))
      /\ current_binding \in 1..Len(nodes) \cup {Null}
      /\ ctl \in [at: Places, call: 1..Len(heap) \cup {Null}]
      /\ TreeOK(nodes) /\ StackOK(stack, heap)
      /\ PlaceOK(heap, nodes, unbound, ctl, stack)
  BY <1>1 DEF ControlInv
<1>3. Len(stack) \in Nat
  BY <1>2
<1>4. (stack = <<>> <=> ctl.at = "poll") /\ (Executing(ctl) => ctl.call # Null)
  BY <1>2 DEF PlaceOK
<1>5. Len(heap) \in Nat
  BY <1>1, HeldIs
<1>6. \A a: a \in 1..Len(heap) => a # Null
  BY <1>5, NoAddressAssumption
<1>7. Executing(ctl) => ctl.call \in 1..Len(heap)
  BY <1>2, <1>4
<1> QED BY <1>2, <1>3, <1>4, <1>6, <1>7

\* The frame on top of the stack.
LEMMA TopIsKnown ==
  ASSUME SafeInv, ctl.at \notin {"fault", "exited"}, stack # <<>>
  PROVE  /\ Top = stack[1] /\ Top \in FramesOf(Len(heap), Len(nodes))
         /\ Tail(stack) \in Seq(FramesOf(Len(heap), Len(nodes))) /\ StackOK(Tail(stack), heap)
         /\ FrameFits(Top, Tail(stack), heap)
         /\ FP(stack) = IF Top.fn = "conf" THEN FP(Tail(stack)) \cup {FPtr(stack, 1)} ELSE FP(Tail(stack))
         /\ FPtr(stack, 1) \notin FP(Tail(stack))
         /\ (Tail(stack) = <<>> <=> Len(stack) = 1)
         /\ IF Tail(stack) = <<>> THEN stack[Len(stack)] = Top
            ELSE Tail(stack)[Len(Tail(stack))] = stack[Len(stack)]
<1> DEFINE S == FramesOf(Len(heap), Len(nodes))
<1>1. stack \in Seq(S) /\ StackOK(stack, heap)
  BY RunningIs
<1> HIDE DEF S
<1>2. Tail(stack) \in Seq(S) /\ Head(stack) = stack[1] /\ Head(stack) \in S
      /\ (Tail(stack) = <<>> <=> Len(stack) = 1)
  BY <1>1, Popped
<1>3. Top = stack[1] /\ Top \in S
  BY <1>2 DEF Top
<1>4. StackOK(Tail(stack), heap) /\ FrameFits(stack[1], Tail(stack), heap)
      /\ (Tail(stack) # <<>> => Tail(stack)[Len(Tail(stack))] = stack[Len(stack)])
  BY <1>1, StackPopped
<1>5. FP(stack) = IF stack[1].fn = "conf" THEN FP(Tail(stack)) \cup {FPtr(stack, 1)} ELSE FP(Tail(stack))
  BY <1>1, FramesTail
<1>6. FPtr(stack, 1) \notin FP(Tail(stack))
  BY <1>1, FramesTail
<1> QED BY <1>2, <1>3, <1>4, <1>5, <1>6 DEF S

\* A frame is put on the stack.
LEMMA PushedFrame ==
  ASSUME SafeInv, ctl.at \notin {"fault", "exited"}, NEW f \in FramesOf(Len(heap), Len(nodes)),
         FrameFits(f, stack, heap), stack' = <<f>> \o stack
  PROVE  /\ stack' \in Seq(FramesOf(Len(heap), Len(nodes))) /\ StackOK(stack', heap)
         /\ stack' # <<>> /\ stack'[1] = f /\ Tail(stack') = stack
         /\ stack'[Len(stack')] = IF stack = <<>> THEN f ELSE stack[Len(stack)]
         /\ f.fn # "conf" => FP(stack') = FP(stack)
<1> DEFINE S == FramesOf(Len(heap), Len(nodes))
<1>1. stack \in Seq(S) /\ StackOK(stack, heap)
  BY RunningIs
<1> HIDE DEF S
<1> DEFINE t == <<f>> \o stack
<1>2. f \in S
  BY DEF S
<1>3. StackOK(t, heap)
  BY <1>1, <1>2, StackPushed
<1>4. t \in Seq(S) /\ t # <<>> /\ t[1] = f /\ Tail(t) = stack
      /\ t[Len(t)] = IF stack = <<>> THEN f ELSE stack[Len(stack)]
  BY <1>1, <1>2, Pushed
<1>5. f.fn # "conf" => FP(t) = FP(stack)
  BY <1>1, <1>2, FramesPush
<1> HIDE DEF t
<1>6. stack' = t
  BY DEF t
<1> QED BY <1>3, <1>4, <1>5, <1>6 DEF S

\* The frame on top changes, but not who has called what.
LEMMA ReplacedFrame ==
  ASSUME SafeInv, ctl.at \notin {"fault", "exited"}, stack # <<>>, NEW f \in FramesOf(Len(heap), Len(nodes)),
         f.fn = Top.fn, f.call = Top.call, f.fn # "conf", stack' = <<f>> \o Tail(stack)
  PROVE  /\ stack' \in Seq(FramesOf(Len(heap), Len(nodes))) /\ StackOK(stack', heap)
         /\ stack' # <<>> /\ stack'[1] = f /\ FP(stack') = FP(stack) /\ Tail(stack') = Tail(stack)
         /\ stack'[Len(stack')].fn = stack[Len(stack)].fn
         /\ stack'[Len(stack')].call = stack[Len(stack)].call
<1> DEFINE S == FramesOf(Len(heap), Len(nodes))
<1>1. stack \in Seq(S)
  BY RunningIs
<1>2. /\ Top = stack[1] /\ Tail(stack) \in Seq(S) /\ StackOK(Tail(stack), heap) /\ FrameFits(Top, Tail(stack), heap)
      /\ IF Tail(stack) = <<>> THEN stack[Len(stack)] = Top
         ELSE Tail(stack)[Len(Tail(stack))] = stack[Len(stack)]
  BY TopIsKnown
<1> HIDE DEF S
<1> DEFINE t == <<f>> \o Tail(stack)
<1>3. f \in S
  BY DEF S
<1>4. FrameFits(f, Tail(stack), heap)
  BY <1>2 DEF FrameFits, IsBottom
<1>5. StackOK(t, heap)
  BY <1>2, <1>3, <1>4, StackPushed
<1>6. t \in Seq(S) /\ t # <<>> /\ t[1] = f /\ Tail(t) = Tail(stack)
      /\ t[Len(t)] = IF Tail(stack) = <<>> THEN f ELSE Tail(stack)[Len(Tail(stack))]
  BY <1>2, <1>3, Pushed
<1>7. FP(t) = FP(stack)
  BY <1>1, <1>2, <1>3, FramesReplace
<1>8. t[Len(t)].fn = stack[Len(stack)].fn /\ t[Len(t)].call = stack[Len(stack)].call
  BY <1>2, <1>6
<1> HIDE DEF t
<1>9. stack' = t
  BY DEF t
<1> QED BY <1>5, <1>6, <1>7, <1>8, <1>9 DEF S

\* The frame on top is taken off.
LEMMA PoppedFrame ==
  ASSUME SafeInv, ctl.at \notin {"fault", "exited"}, stack # <<>>, Top.fn # "conf", stack' = Tail(stack)
  PROVE  /\ stack' \in Seq(FramesOf(Len(heap), Len(nodes))) /\ StackOK(stack', heap) /\ FP(stack') = FP(stack)
         /\ stack' = <<>> <=> IsBottom(Top)
         /\ stack' = <<>> => stack[Len(stack)] = Top
         /\ stack' # <<>> => stack'[Len(stack')] = stack[Len(stack)]
<1>1. /\ Tail(stack) \in Seq(FramesOf(Len(heap), Len(nodes))) /\ StackOK(Tail(stack), heap)
      /\ FrameFits(Top, Tail(stack), heap)
      /\ FP(stack) = FP(Tail(stack))
      /\ IF Tail(stack) = <<>> THEN stack[Len(stack)] = Top
         ELSE Tail(stack)[Len(Tail(stack))] = stack[Len(stack)]
  BY TopIsKnown
<1> QED BY <1>1 DEF FrameFits

-----------------------------------------------------------------------------
(* The steps that do not allocate, store or release. *)

\* The invariant is kept at the end of the lines.
LEMMA LinesEndSafe ==
  ASSUME SafeInv, LinesEnd, UNCHANGED releases
  PROVE  SafeInv'
<1>1. /\ ctl.at = "lines" /\ stack' = Tail(stack) /\ ctl' = At(IF Top.call = Null THEN "poll" ELSE "return")
      /\ UNCHANGED <<heap, nodes, unbound, current_binding, unbinds>>
  BY DEF LinesEnd, Pop
<1>2. ctl.at \notin {"fault", "exited"}
  BY <1>1
<1>3. /\ stack # <<>> /\ stack[1].fn = "lines"
     
      /\ current_binding \in 1..Len(nodes) \cup {Null}
  BY <1>1, <1>2, RunningIs DEF PlaceOK
<1>4. Top = stack[1]
  BY <1>2, <1>3, TopIsKnown
<1>5. /\ stack' \in Seq(FramesOf(Len(heap), Len(nodes))) /\ StackOK(stack', heap) /\ FP(stack') = FP(stack)
      /\ stack' = <<>> <=> IsBottom(Top)
      /\ stack' = <<>> => stack[Len(stack)] = Top
      /\ stack' # <<>> => stack'[Len(stack')] = stack[Len(stack)]
  BY <1>1, <1>2, <1>3, <1>4, PoppedFrame
<1>6. stack' = <<>> <=> Top.call = Null
  BY <1>3, <1>4, <1>5 DEF IsBottom
<1>7. ctl' \in [at: Places, call: 1..Len(heap) \cup {Null}] /\ ctl'.at = IF Top.call = Null THEN "poll" ELSE "return"
  BY <1>1 DEF At, Places
<1>8. PlaceOK(heap, nodes, unbound, ctl', stack')
  BY <1>6, <1>7, PlainPlace
<1> QED BY <1>1, <1>2, <1>3, <1>5, <1>7, <1>8, ControlKept

\* The invariant is kept by a line that is not valid.
LEMMA LineInvalidSafe ==
  ASSUME SafeInv, LineInvalid, UNCHANGED releases
  PROVE  SafeInv'
<1>1. /\ ctl.at = "lines" /\ ctl' = IF heap[Top.call] = Freed THEN Fault ELSE ctl
      /\ UNCHANGED <<heap, nodes, unbound, current_binding, stack, unbinds>>
  BY DEF LineInvalid
<1>2. CASE ctl' = Fault
  BY <1>1, <1>2, FaultSafe
<1>3. CASE ctl' = ctl
  <2>1. ctl.at \notin {"fault", "exited"}
    BY <1>1
  <2>2. /\ stack \in Seq(FramesOf(Len(heap), Len(nodes)))
        /\ current_binding \in 1..Len(nodes) \cup {Null}
        /\ ctl \in [at: Places, call: 1..Len(heap) \cup {Null}]
        /\ StackOK(stack, heap)
        /\ PlaceOK(heap, nodes, unbound, ctl, stack)
    BY <2>1, RunningIs
  <2>3. stack' = stack /\ current_binding' = current_binding /\ ctl' = ctl /\ FP(stack') = FP(stack)
    BY <1>1, <1>3
  <2> QED BY <1>1, <2>1, <2>2, <2>3, ControlKept
<1> QED BY <1>1, <1>2, <1>3

\* The node where a key is looked up, when it is there.
LEMMA FromIs ==
  ASSUME SafeInv, ctl.at = "handle", nodes[From] # Freed
  PROVE  /\ From \in 1..Len(nodes)
         /\ \A k \in Keys: nodes[From].bindings[k] # Null =>
              nodes[From].bindings[k] \in 1..Len(nodes) /\ nodes[nodes[From].bindings[k]] # Freed
<1>1. ctl.at \notin {"fault", "exited"}
  OBVIOUS
<1>2. TreeOK(nodes) /\ current_binding \in 1..Len(nodes) \cup {Null}
  BY <1>1, RunningIs
<1>3. nodes \in Seq(Nodes \cup {Freed}) /\ nodes # <<>>
  BY <1>2 DEF TreeOK, LinksOK
<1>4. 1 \in 1..Len(nodes) /\ Len(nodes) \in Nat /\ DOMAIN nodes = 1..Len(nodes)
  BY <1>3
<1>5. From \in 1..Len(nodes)
  BY <1>2, <1>4 DEF From, Root
<1>6. \A k \in Keys: nodes[From].bindings[k] # Null =>
        nodes[From].bindings[k] \in From + 1..Len(nodes) /\ nodes[nodes[From].bindings[k]] # Freed
  BY <1>2, <1>4, <1>5 DEF TreeOK, LinksOK
<1>7. From + 1..Len(nodes) \subseteq 1..Len(nodes)
  BY <1>4, <1>5
<1> QED BY <1>5, <1>6, <1>7

\* The key that is handled.
LEMMA KeyIs ==
  ASSUME SafeInv, ctl.at = "handle"
  PROVE  /\ stack # <<>> /\ stack[Len(stack)].fn = "main" /\ Key \in Keys
         /\ stack \in Seq(FramesOf(Len(heap), Len(nodes))) /\ Len(stack) \in Nat \ {0}
<1>1. ctl.at \notin {"fault", "exited"}
  OBVIOUS
<1>2. /\ stack # <<>> /\ stack[Len(stack)].fn = "main"
      /\ stack \in Seq(FramesOf(Len(heap), Len(nodes)))
  BY <1>1, RunningIs DEF PlaceOK
<1> DEFINE S == FramesOf(Len(heap), Len(nodes))
<1> HIDE DEF S
<1>3. stack \in Seq(S)
  BY <1>2 DEF S
<1>4. Len(stack) \in 1..Len(stack) /\ Len(stack) \in Nat \ {0}
  BY <1>2, <1>3
<1>5. stack[Len(stack)] \in S
  BY <1>3, <1>4, ElementOfSeq
<1>6. stack[Len(stack)].key \in Keys
  BY <1>2, <1>5, FrameIs DEF S
<1> QED BY <1>2, <1>4, <1>6 DEF Key

\* The invariant is kept by a key that is read: its frame is the only one.
LEMMA ReadKeySafe ==
  ASSUME SafeInv, ReadKey, UNCHANGED releases
  PROVE  SafeInv'
<1>1. /\ ctl.at = "poll" /\ ctl' = At("handle") /\ ctl.at \notin {"fault", "exited"}
      /\ UNCHANGED <<heap, nodes, unbound, current_binding, unbinds>>
  BY DEF ReadKey
<1>2. PICK k \in Keys: stack' = <<[fn |-> "main", call |-> Null, key |-> k]>> \o stack
  BY DEF ReadKey, Push
<1> DEFINE f == [fn |-> "main", call |-> Null, key |-> k]
<1>3. f \in FramesOf(Len(heap), Len(nodes)) /\ f.fn = "main"
  BY DEF FramesOf
<1>4. stack' = <<f>> \o stack
  BY <1>2
<1> HIDE DEF f
<1>5. stack = <<>> /\ current_binding \in 1..Len(nodes) \cup {Null}
  BY <1>1, RunningIs
<1>6. FrameFits(f, stack, heap)
  BY <1>3, <1>5 DEF FrameFits, IsBottom
<1>7. /\ stack' \in Seq(FramesOf(Len(heap), Len(nodes))) /\ StackOK(stack', heap)
      /\ stack' # <<>> /\ stack'[Len(stack')] = f /\ FP(stack') = FP(stack)
  BY <1>1, <1>3, <1>4, <1>5, <1>6, PushedFrame
<1>8. ctl' \in [at: Places, call: 1..Len(heap) \cup {Null}] /\ ctl'.at = "handle"
  BY <1>1 DEF At, Places
<1>9. PlaceOK(heap, nodes, unbound, ctl', stack')
  BY <1>3, <1>7, <1>8 DEF PlaceOK, Executing
<1>10. current_binding' \in 1..Len(nodes) \cup {Null} /\ unbinds \subseteq unbinds'
  BY <1>1, <1>5
<1> QED BY <1>1, <1>7, <1>8, <1>9, <1>10, ControlKept

\* A step on the way through the frames, with a chain of keys that is opened or closed.
LEMMA StackStep ==
  ASSUME SafeInv, ctl.at \notin {"fault", "exited", "poll"}, UNCHANGED <<heap, nodes, unbound, releases, unbinds>>,
         current_binding' = current_binding \/ current_binding' \in 1..Len(nodes) \cup {Null},
         stack' \in Seq(FramesOf(Len(heap), Len(nodes))), StackOK(stack', heap), FP(stack') = FP(stack),
         stack' # <<>>, ctl' \in [at: Places, call: 1..Len(heap) \cup {Null}], ctl'.at \in {"call", "return", "lines"},
         ctl'.at = "call" => ctl'.call # Null, ctl'.at = "lines" => stack'[1].fn = "lines"
  PROVE  SafeInv'
<1>1. current_binding \in 1..Len(nodes) \cup {Null}
  BY RunningIs
<1>2. PlaceOK(heap, nodes, unbound, ctl', stack')
  <2>1. ctl'.at \in {"poll", "lines", "call", "return"} /\ (stack' = <<>> <=> ctl'.at = "poll")
    OBVIOUS
  <2>2. (ctl'.at = "lines" => stack'[1].fn = "lines") /\ (ctl'.at = "call" => ctl'.call # Null)
    OBVIOUS
  <2> QED BY ONLY <2>1, <2>2, PlainPlace
<1>3. ctl'.at \notin {"fault", "exited"} /\ ctl.at \notin {"fault", "exited"} /\ unbinds \subseteq unbinds'
  OBVIOUS
<1>4. current_binding' \in 1..Len(nodes) \cup {Null}
  BY <1>1
<1> QED BY <1>2, <1>3, <1>4, ControlKept

\* A frame for a key.
LEMMA KeyFrame ==
  ASSUME SafeInv, ctl.at = "handle", NEW f \in FramesOf(Len(heap), Len(nodes)), f.fn \in {"binding", "unbound"},
         stack' = <<f>> \o stack, ctl' = Call(f.call), UNCHANGED <<heap, nodes, unbound, releases, unbinds>>,
         current_binding' = current_binding \/ current_binding' = Null
  PROVE  SafeInv'
<1>1. ctl.at \notin {"fault", "exited"} /\ ctl.at \notin {"fault", "exited", "poll"}
  OBVIOUS
<1>2. stack # <<>>
  BY <1>1, RunningIs
<1>3. FrameFits(f, stack, heap)
  BY <1>2 DEF FrameFits, IsBottom
<1>4. /\ stack' \in Seq(FramesOf(Len(heap), Len(nodes))) /\ StackOK(stack', heap)
      /\ stack' # <<>> /\ FP(stack') = FP(stack)
  BY <1>1, <1>2, <1>3, PushedFrame
<1>5. f.call \in 1..Len(heap)
  BY FrameIs
<1>6. Len(heap) \in Nat
  BY HeldIs DEF SafeInv
<1>7. ctl' \in [at: Places, call: 1..Len(heap) \cup {Null}] /\ ctl'.at = "call" /\ ctl'.call # Null
  BY <1>5, <1>6, PlacesAre
<1>8. current_binding' = current_binding \/ current_binding' \in 1..Len(nodes) \cup {Null}
  OBVIOUS
<1> QED BY <1>1, <1>4, <1>7, <1>8, StackStep

\* A key for which nothing is executed.
LEMMA KeyDone ==
  ASSUME SafeInv, ctl.at = "handle", ctl' = At("return"), UNCHANGED <<heap, nodes, unbound, releases, unbinds, stack>>,
         current_binding' \in 1..Len(nodes) \cup {Null}
  PROVE  SafeInv'
<1>1. ctl.at \notin {"fault", "exited"} /\ ctl.at \notin {"fault", "exited", "poll"}
  OBVIOUS
<1>2. stack \in Seq(FramesOf(Len(heap), Len(nodes))) /\ StackOK(stack, heap) /\ stack # <<>>
  BY <1>1, RunningIs
<1>3. ctl' \in [at: Places, call: 1..Len(heap) \cup {Null}] /\ ctl'.at = "return"
  BY DEF At, Places
<1>4. stack' = stack
  OBVIOUS
<1> QED BY <1>1, <1>2, <1>3, <1>4, StackStep

\* The invariant is kept by the fault of looking a key up in a freed node.
LEMMA HandleFreedSafe ==
  ASSUME SafeInv, HandleFreed, UNCHANGED releases
  PROVE  SafeInv'
BY FaultSafe DEF HandleFreed

\* The invariant is kept by a key that is bound: its node is in the tree, its command live.
LEMMA HandleBoundSafe ==
  ASSUME SafeInv, HandleBound, UNCHANGED releases
  PROVE  SafeInv'
<1> DEFINE n == nodes[From].bindings[Key]
<1>1. /\ ctl.at = "handle" /\ nodes[From] # Freed /\ UNCHANGED <<heap, nodes, unbound, unbinds>> /\ n # Null
      /\ IF nodes[n].command = Null
         THEN ctl' = At("return") /\ current_binding' = Opened(n) /\ UNCHANGED stack
         ELSE /\ \E left \in 0..MaxRepeat:
                   Push([fn |-> "binding", node |-> n, call |-> nodes[n].command, left |-> left])
              /\ ctl' = Call(nodes[n].command)
              /\ UNCHANGED current_binding
  BY DEF HandleBound
<1>2. Key \in Keys
  BY <1>1, KeyIs
<1>3. n \in 1..Len(nodes) /\ nodes[n] # Freed
  BY <1>1, <1>2, FromIs
<1> HIDE DEF n
<1>4. CASE nodes[n].command = Null
  <2>1. ctl' = At("return") /\ current_binding' = Opened(n) /\ UNCHANGED stack
    BY <1>1, <1>4
  <2>2. current_binding' \in 1..Len(nodes) \cup {Null}
    BY <1>3, <2>1 DEF Opened
  <2> QED BY <1>1, <2>1, <2>2, KeyDone
<1>5. CASE nodes[n].command # Null
  <2>1. PICK left \in 0..MaxRepeat:
          Push([fn |-> "binding", node |-> n, call |-> nodes[n].command, left |-> left])
    BY <1>1, <1>5
  <2> DEFINE f == [fn |-> "binding", node |-> n, call |-> nodes[n].command, left |-> left]
  <2>2. nodes[n].command \in 1..Len(heap)
    BY <1>3, <1>5, HeldIs DEF SafeInv
  <2>3. f \in FramesOf(Len(heap), Len(nodes)) /\ f.fn = "binding" /\ f.call = nodes[n].command
    BY <1>3, <2>2 DEF FramesOf
  <2>4. stack' = <<f>> \o stack /\ ctl' = Call(f.call) /\ current_binding' = current_binding
    BY <1>1, <1>5, <2>1, <2>3 DEF Push
  <2> HIDE DEF f
  <2> QED BY <1>1, <2>3, <2>4, KeyFrame
<1> QED BY <1>4, <1>5

\* The invariant is kept by a key that is not bound.
LEMMA HandleUnboundSafe ==
  ASSUME SafeInv, HandleUnbound, UNCHANGED releases
  PROVE  SafeInv'
<1> DEFINE command == unbound[KeyType[Key]]
<1>1. /\ ctl.at = "handle" /\ UNCHANGED <<heap, nodes, unbound, unbinds>> /\ current_binding' = Null
      /\ IF command = Null
         THEN ctl' = At("return") /\ UNCHANGED stack
         ELSE Push([fn |-> "unbound", call |-> command]) /\ ctl' = Call(command)
  BY DEF HandleUnbound
<1>2. KeyType[Key] \in Types
  BY <1>1, KeyIs, KeysAssumption
<1>3. command # Null => command \in 1..Len(heap)
  BY <1>2, HeldIs DEF SafeInv
<1> HIDE DEF command
<1>4. CASE command = Null
  <2>1. current_binding' \in 1..Len(nodes) \cup {Null}
    BY <1>1
  <2> QED BY <1>1, <1>4, <2>1, KeyDone
<1>5. CASE command # Null
  <2> DEFINE f == [fn |-> "unbound", call |-> command]
  <2>1. f \in FramesOf(Len(heap), Len(nodes)) /\ f.fn = "unbound" /\ f.call = command
    BY <1>3, <1>5 DEF FramesOf
  <2>2. stack' = <<f>> \o stack /\ ctl' = Call(f.call)
    BY <1>1, <1>5, <2>1 DEF Push
  <2> HIDE DEF f
  <2> QED BY <1>1, <2>1, <2>2, KeyFrame
<1> QED BY <1>4, <1>5

\* The invariant is kept at the end of a key: its frame was the only one.
LEMMA KeyReturnSafe ==
  ASSUME SafeInv, KeyReturn, UNCHANGED releases
  PROVE  SafeInv'
<1>1. /\ ctl.at = "return" /\ stack # <<>> /\ Top.fn = "main" /\ stack' = Tail(stack) /\ ctl' = At("poll")
      /\ UNCHANGED <<heap, nodes, unbound, current_binding, unbinds>> /\ ctl.at \notin {"fault", "exited"}
  BY DEF KeyReturn, Returning, TopIs, Pop
<1>2. /\ stack' \in Seq(FramesOf(Len(heap), Len(nodes))) /\ StackOK(stack', heap) /\ FP(stack') = FP(stack)
      /\ stack' = <<>> <=> IsBottom(Top)
  BY <1>1, PoppedFrame
<1>3. stack' = <<>>
  BY <1>1, <1>2 DEF IsBottom
<1>4. ctl' \in [at: Places, call: 1..Len(heap) \cup {Null}] /\ ctl'.at = "poll"
  BY <1>1 DEF At, Places
<1>5. PlaceOK(heap, nodes, unbound, ctl', stack')
  <2>1. ctl'.at \in {"poll", "lines", "call", "return"} /\ (stack' = <<>> <=> ctl'.at = "poll")
        /\ ~(ctl'.at = "lines") /\ ~(ctl'.at = "call")
    BY <1>3, <1>4
  <2> QED BY ONLY <2>1, PlainPlace
<1>6. current_binding' \in 1..Len(nodes) \cup {Null} /\ unbinds \subseteq unbinds'
  BY <1>1, RunningIs
<1> QED BY <1>1, <1>2, <1>4, <1>5, <1>6, ControlKept

\* The invariant is kept when the command of a binding is repeated.
LEMMA BindingRepeatSafe ==
  ASSUME SafeInv, BindingRepeat, UNCHANGED releases
  PROVE  SafeInv'
<1> DEFINE f == [Top EXCEPT !.left = @ - 1]
<1>1. /\ ctl.at = "return" /\ stack # <<>> /\ Top.fn = "binding" /\ Top.left > 0
      /\ ctl' = Call(Top.call) /\ stack' = <<f>> \o Tail(stack)
      /\ UNCHANGED <<heap, nodes, unbound, current_binding, unbinds>>
  BY DEF BindingRepeat, Returning, TopIs
<1>2. ctl.at \notin {"fault", "exited"} /\ ctl.at \notin {"fault", "exited", "poll"}
  BY <1>1
<1>3. Top \in FramesOf(Len(heap), Len(nodes))
  BY <1>1, <1>2, TopIsKnown
<1>4. Top \in [fn: {"binding"}, node: 1..Len(nodes), call: 1..Len(heap), left: 0..MaxRepeat]
  BY <1>1, <1>3, FrameIs
<1>5. f.fn = Top.fn /\ f.call = Top.call /\ f.fn # "conf" /\ Top.call \in 1..Len(heap)
  BY <1>1, <1>4
<1>6. f \in FramesOf(Len(heap), Len(nodes))
  <2>1. Top.left - 1 \in 0..MaxRepeat
    BY <1>1, <1>4, BoundsAssumption
  <2>2. f \in [fn: {"binding"}, node: 1..Len(nodes), call: 1..Len(heap), left: 0..MaxRepeat]
    BY <1>4, <2>1
  <2> HIDE DEF f
  <2> QED BY <2>2 DEF FramesOf
<1> HIDE DEF f
<1>7. /\ stack' \in Seq(FramesOf(Len(heap), Len(nodes))) /\ StackOK(stack', heap)
      /\ stack' # <<>> /\ FP(stack') = FP(stack)
      /\ stack'[Len(stack')].fn = stack[Len(stack)].fn
  BY <1>1, <1>2, <1>5, <1>6, ReplacedFrame
<1>8. Len(heap) \in Nat
  BY HeldIs DEF SafeInv
<1>9. ctl' \in [at: Places, call: 1..Len(heap) \cup {Null}] /\ ctl'.at = "call" /\ ctl'.call # Null
  BY <1>1, <1>5, <1>8, PlacesAre
<1> QED BY <1>1, <1>2, <1>7, <1>9, StackStep

\* What a key was bound to has returned; its frame is not the only one.
LEMMA HandlingReturns ==
  ASSUME SafeInv, ctl.at = "return", stack # <<>>, Top.fn \in {"binding", "unbound"}, stack' = Tail(stack),
         ctl' = ctl, UNCHANGED <<heap, nodes, unbound, releases, unbinds>>,
         current_binding' = current_binding \/ current_binding' \in 1..Len(nodes) \cup {Null}
  PROVE  SafeInv'
<1>1. ctl.at \notin {"fault", "exited"} /\ ctl.at \notin {"fault", "exited", "poll"}
  OBVIOUS
<1>2. /\ stack' \in Seq(FramesOf(Len(heap), Len(nodes))) /\ StackOK(stack', heap) /\ FP(stack') = FP(stack)
      /\ stack' = <<>> <=> IsBottom(Top)
  BY <1>1, PoppedFrame
<1>3. stack' # <<>>
  BY <1>2 DEF IsBottom
<1>4. ctl' \in [at: Places, call: 1..Len(heap) \cup {Null}] /\ ctl'.at = "return"
  BY <1>1, RunningIs
<1>5. current_binding' = current_binding \/ current_binding' \in 1..Len(nodes) \cup {Null}
  OBVIOUS
<1> QED BY <1>1, <1>2, <1>3, <1>4, <1>5, StackStep

\* The invariant is kept when binding_execute() has returned, also to a freed node.
LEMMA BindingReturnSafe ==
  ASSUME SafeInv, BindingReturn, UNCHANGED releases
  PROVE  SafeInv'
<1>1. /\ ctl.at = "return" /\ stack # <<>> /\ Top.fn = "binding"
      /\ IF nodes[Top.node] = Freed
         THEN ctl' = Fault /\ UNCHANGED <<current_binding, stack>>
         ELSE ctl' = ctl /\ current_binding' = Opened(Top.node) /\ stack' = Tail(stack)
      /\ UNCHANGED <<heap, nodes, unbound, unbinds>>
  BY DEF BindingReturn, Returning, TopIs, Pop
<1>2. CASE nodes[Top.node] = Freed
  BY <1>1, <1>2, FaultSafe
<1>3. CASE nodes[Top.node] # Freed
  <2>1. ctl.at \notin {"fault", "exited"}
    BY <1>1
  <2>2. Top.node \in 1..Len(nodes)
    BY <1>1, <2>1, TopIsKnown, FrameIs
  <2>3. current_binding' \in 1..Len(nodes) \cup {Null}
    BY <1>1, <1>3, <2>2 DEF Opened
  <2> QED BY <1>1, <1>3, <2>3, HandlingReturns
<1> QED BY <1>2, <1>3

\* The invariant is kept when an unbound command has returned.
LEMMA UnboundReturnSafe ==
  ASSUME SafeInv, UnboundReturn, UNCHANGED releases
  PROVE  SafeInv'
<1>1. /\ ctl.at = "return" /\ stack # <<>> /\ Top.fn = "unbound" /\ ctl' = ctl /\ stack' = Tail(stack)
      /\ UNCHANGED <<heap, nodes, unbound, current_binding, unbinds>>
  BY DEF UnboundReturn, Returning, TopIs, Pop
<1> QED BY <1>1, HandlingReturns

\* The invariant is kept by the fault of calling freed memory.
LEMMA CallFreedSafe ==
  ASSUME SafeInv, CallFreed, UNCHANGED releases
  PROVE  SafeInv'
BY FaultSafe DEF CallFreed

\* The invariant is kept by the fault of storing freed memory.
LEMMA StoreFreedSafe ==
  ASSUME SafeInv, StoreFreed, UNCHANGED releases
  PROVE  SafeInv'
BY FaultSafe DEF StoreFreed

\* The command that is executed.
LEMMA CalledIs ==
  ASSUME SafeInv, NEW op, Calling(op)
  PROVE  /\ ctl.at = "call" /\ ctl.call \in 1..Len(heap) /\ heap[ctl.call] # Freed
         /\ Command = Program[heap[ctl.call].text] /\ Command.op = op /\ WellFormed(Command)
         /\ heap[ctl.call].text \in Texts /\ KidsOK(heap, ctl.call) /\ Len(heap) \in Nat
         /\ heap \in Seq(Objects \cup {Freed}) /\ HeapOK(heap) /\ stack # <<>>
<1>1. ctl.at = "call" /\ heap[ctl.call] # Freed /\ Command.op = op /\ Command = Program[heap[ctl.call].text]
  BY DEF Calling, Command
<1>2. ctl.call \in 1..Len(heap) /\ stack # <<>>
  BY <1>1, RunningIs DEF Executing
<1>3. HeapOK(heap) /\ heap \in Seq(Objects \cup {Freed}) /\ Len(heap) \in Nat
  BY HeldIs DEF SafeInv, DataInv
<1>4. KidsOK(heap, ctl.call)
  BY <1>1, <1>2, <1>3 DEF HeapOK
<1>5. heap[ctl.call].text \in Texts /\ WellFormed(Program[heap[ctl.call].text])
  BY <1>1, <1>2, <1>3, ObjectIs
<1> QED BY <1>1, <1>2, <1>3, <1>4, <1>5

\* The invariant is kept by a command that neither binds nor calls.
LEMMA CallOtherSafe ==
  ASSUME SafeInv, CallOther, UNCHANGED releases
  PROVE  SafeInv'
<1>1. /\ ctl.at = "call" /\ ctl' = At("return") /\ ctl.at \notin {"fault", "exited"} /\ ctl.at \notin {"fault", "exited", "poll"}
      /\ UNCHANGED <<heap, nodes, unbound, current_binding, stack, unbinds>>
  BY DEF CallOther, Calling
<1>2. stack \in Seq(FramesOf(Len(heap), Len(nodes))) /\ StackOK(stack, heap) /\ stack # <<>>
  BY <1>1, RunningIs
<1>3. ctl' \in [at: Places, call: 1..Len(heap) \cup {Null}] /\ ctl'.at = "return"
  BY <1>1 DEF At, Places
<1>4. stack' = stack
  BY <1>1
<1> QED BY <1>1, <1>2, <1>3, <1>4, StackStep

\* The invariant is kept by rehandle: the key is that of the frame below.
LEMMA CallRehandleSafe ==
  ASSUME SafeInv, CallRehandle, UNCHANGED releases
  PROVE  SafeInv'
<1>1. /\ ctl.at = "call" /\ ctl.at \notin {"fault", "exited"}
      /\ UNCHANGED <<heap, nodes, unbound, current_binding, stack, unbinds>>
      /\ ctl' = At("return") \/ (ctl' = At("handle") /\ stack[Len(stack)].fn = "main")
  BY DEF CallRehandle, Calling, KeyIsPassed
<1>2. /\ stack \in Seq(FramesOf(Len(heap), Len(nodes))) /\ StackOK(stack, heap) /\ stack # <<>>
      /\ current_binding \in 1..Len(nodes) \cup {Null}
  BY <1>1, RunningIs
<1>3. ctl' \in [at: Places, call: 1..Len(heap) \cup {Null}] /\ ctl'.at \in {"return", "handle"}
  BY <1>1 DEF At, Places
<1>4. ctl'.at = "handle" => stack[Len(stack)].fn = "main"
  BY <1>1 DEF At
<1>5. PlaceOK(heap, nodes, unbound, ctl', stack)
  BY <1>2, <1>3, <1>4 DEF PlaceOK, Executing
<1>6. stack' = stack /\ current_binding' = current_binding /\ FP(stack') = FP(stack) /\ unbinds \subseteq unbinds'
      /\ ctl'.at \notin {"fault", "exited"}
  BY <1>1, <1>3
<1> QED BY <1>1, <1>2, <1>3, <1>5, <1>6, ControlKept

\* A command puts a frame on the stack.
LEMMA CommandFrame ==
  ASSUME SafeInv, ctl.at = "call", NEW f \in FramesOf(Len(heap), Len(nodes)),
         f.fn \in {"lines", "group", "types"}, f.call # Null,
         f.fn = "group" => Program[heap[f.call].text].op = "group", stack' = <<f>> \o stack
  PROVE  /\ stack' \in Seq(FramesOf(Len(heap), Len(nodes))) /\ StackOK(stack', heap)
         /\ stack' # <<>> /\ stack'[1] = f /\ FP(stack') = FP(stack) /\ Tail(stack') = stack
         /\ stack'[Len(stack')] = stack[Len(stack)]
<1>1. ctl.at \notin {"fault", "exited"}
  OBVIOUS
<1>2. stack # <<>>
  BY <1>1, RunningIs
<1>3. FrameFits(f, stack, heap)
  BY <1>2 DEF FrameFits, IsBottom
<1> QED BY <1>1, <1>2, <1>3, PushedFrame

\* The invariant is kept by readline -!, which reads lines within a command.
LEMMA CallEvaluateSafe ==
  ASSUME SafeInv, CallEvaluate, UNCHANGED releases
  PROVE  SafeInv'
<1> DEFINE f == [fn |-> "lines", call |-> ctl.call]
<1>1. /\ Calling("evaluate") /\ stack' = <<f>> \o stack /\ ctl' = At("lines")
      /\ UNCHANGED <<heap, nodes, unbound, current_binding, unbinds>>
  BY DEF CallEvaluate, Push
<1>2. ctl.at = "call" /\ ctl.call \in 1..Len(heap) /\ Len(heap) \in Nat /\ ctl.call # Null
  BY <1>1, CalledIs, PlacesAre
<1>3. f \in FramesOf(Len(heap), Len(nodes)) /\ f.fn = "lines" /\ f.call # Null
  BY <1>2 DEF FramesOf
<1> HIDE DEF f
<1>4. /\ stack' \in Seq(FramesOf(Len(heap), Len(nodes))) /\ StackOK(stack', heap)
      /\ stack' # <<>> /\ stack'[1] = f /\ FP(stack') = FP(stack)
      /\ stack'[Len(stack')] = stack[Len(stack)]
  BY <1>1, <1>2, <1>3, CommandFrame
<1>5. ctl' \in [at: Places, call: 1..Len(heap) \cup {Null}] /\ ctl'.at = "lines"
  BY <1>1 DEF At, Places
<1>6. ctl.at \notin {"fault", "exited", "poll"}
  BY <1>2
<1> QED BY <1>1, <1>3, <1>4, <1>5, <1>6, StackStep

\* The commands in a group.
LEMMA GroupKids ==
  ASSUME SafeInv, NEW a \in 1..Len(heap), heap[a] # Freed
  PROVE  /\ Len(heap[a].kids) \in Nat /\ \A i \in 1..Len(heap[a].kids): heap[a].kids[i] \in 1..Len(heap)
         /\ Len(heap[a].kids) = Len(Program[heap[a].text].subs)
         /\ Program[heap[a].text].op = "group" => 1 \in 1..Len(heap[a].kids)
         /\ Program[heap[a].text].op \in {"bind", "unbound"} => 1 \in 1..Len(heap[a].kids)
<1>1. HeapOK(heap) /\ heap \in Seq(Objects \cup {Freed}) /\ Len(heap) \in Nat
  BY HeldIs DEF SafeInv, DataInv
<1>2. KidsOK(heap, a) /\ Len(heap[a].kids) \in Nat /\ WellFormed(Program[heap[a].text])
  BY <1>1, ObjectIs DEF HeapOK
<1>3. \A i \in 1..Len(heap[a].kids): heap[a].kids[i] \in 1..Len(heap)
  <2>1. a + 1..Len(heap) \subseteq 1..Len(heap)
    BY <1>1
  <2> QED BY <1>2, <2>1 DEF KidsOK
<1>4. Len(heap[a].kids) = Len(Program[heap[a].text].subs)
  BY <1>2 DEF KidsOK
<1>5. Program[heap[a].text].op = "group" => Len(Program[heap[a].text].subs) > 0
  BY <1>2, WellFormedIs
<1>6. Program[heap[a].text].op \in {"bind", "unbound"} => Len(Program[heap[a].text].subs) = 1
  BY <1>2, WellFormedIs
<1>7. Program[heap[a].text].op \in {"bind", "unbound"} => 1 \in 1..Len(heap[a].kids)
  <2>1. ASSUME Program[heap[a].text].op \in {"bind", "unbound"} PROVE 1 \in 1..Len(heap[a].kids)
    <3>1. Len(heap[a].kids) = 1
      BY <1>4, <1>6, <2>1
    <3> QED BY <3>1
  <2> QED BY <2>1
<1>8. Program[heap[a].text].op = "group" => 1 \in 1..Len(heap[a].kids)
  BY <1>2, <1>4, <1>5
<1> QED BY <1>2, <1>3, <1>4, <1>7, <1>8

\* The invariant is kept by the start of a group.
LEMMA CallGroupSafe ==
  ASSUME SafeInv, CallGroup, UNCHANGED releases
  PROVE  SafeInv'
<1> DEFINE f == [fn |-> "group", call |-> ctl.call, last |-> 1]
<1>1. /\ Calling("group") /\ stack' = <<f>> \o stack /\ ctl' = Call(heap[ctl.call].kids[1])
      /\ UNCHANGED <<heap, nodes, unbound, current_binding, unbinds>>
  BY DEF CallGroup, Push
<1>2. /\ ctl.at = "call" /\ ctl.call \in 1..Len(heap) /\ Len(heap) \in Nat /\ ctl.call # Null
      /\ heap[ctl.call] # Freed /\ Program[heap[ctl.call].text].op = "group"
  BY <1>1, CalledIs, PlacesAre
<1>3. /\ f \in FramesOf(Len(heap), Len(nodes)) /\ f.fn = "group" /\ f.call # Null
      /\ Program[heap[f.call].text].op = "group"
  BY <1>2 DEF FramesOf
<1> HIDE DEF f
<1>4. /\ stack' \in Seq(FramesOf(Len(heap), Len(nodes))) /\ StackOK(stack', heap)
      /\ stack' # <<>> /\ stack'[1] = f /\ FP(stack') = FP(stack)
      /\ stack'[Len(stack')] = stack[Len(stack)]
  BY <1>1, <1>2, <1>3, CommandFrame
<1>5. heap[ctl.call].kids[1] \in 1..Len(heap)
  BY <1>2, GroupKids
<1>6. ctl' \in [at: Places, call: 1..Len(heap) \cup {Null}] /\ ctl'.at = "call" /\ ctl'.call # Null
  BY <1>1, <1>2, <1>5, PlacesAre
<1>7. ctl.at \notin {"fault", "exited", "poll"}
  BY <1>2
<1> QED BY <1>1, <1>4, <1>6, <1>7, StackStep

\* The invariant is kept when a group goes on, ends, or finds itself freed.
LEMMA GroupReturnSafe ==
  ASSUME SafeInv, GroupReturn, UNCHANGED releases
  PROVE  SafeInv'
<1>1. /\ ctl.at = "return" /\ stack # <<>> /\ Top.fn = "group"
      /\ ctl.at \notin {"fault", "exited"} /\ ctl.at \notin {"fault", "exited", "poll"}
      /\ UNCHANGED <<heap, nodes, unbound, current_binding, unbinds>>
  BY DEF GroupReturn, Returning, TopIs
<1>2. IF heap[Top.call] = Freed
      THEN ctl' = Fault /\ UNCHANGED stack
      ELSE \/ \E i \in Top.last + 1..Len(heap[Top.call].kids):
                /\ ctl' = Call(heap[Top.call].kids[i])
                /\ stack' = <<[Top EXCEPT !.last = i]>> \o Tail(stack)
           \/ ctl' = ctl /\ stack' = Tail(stack)
  BY DEF GroupReturn, Pop
<1>3. Top \in FramesOf(Len(heap), Len(nodes))
  BY <1>1, TopIsKnown
<1>4. Top \in [fn: {"group"}, call: 1..Len(heap), last: Nat]
  BY <1>1, <1>3, FrameIs
<1>5. CASE heap[Top.call] = Freed
  BY <1>1, <1>2, <1>5, FaultSafe
<1>6. CASE heap[Top.call] # Freed /\ \E i \in Top.last + 1..Len(heap[Top.call].kids):
                /\ ctl' = Call(heap[Top.call].kids[i])
                /\ stack' = <<[Top EXCEPT !.last = i]>> \o Tail(stack)
  <2>1. PICK i \in Top.last + 1..Len(heap[Top.call].kids):
                /\ ctl' = Call(heap[Top.call].kids[i])
                /\ stack' = <<[Top EXCEPT !.last = i]>> \o Tail(stack)
    BY <1>6
  <2> DEFINE f == [Top EXCEPT !.last = i]
  <2>2. i \in Nat /\ i \in 1..Len(heap[Top.call].kids)
    BY <1>4, <1>6, <2>1, GroupKids
  <2>3. f \in [fn: {"group"}, call: 1..Len(heap), last: Nat] /\ f.fn = Top.fn /\ f.call = Top.call /\ f.fn # "conf"
    BY <1>4, <2>2
  <2>4. stack' = <<f>> \o Tail(stack)
    BY <2>1
  <2> HIDE DEF f
  <2>5. f \in FramesOf(Len(heap), Len(nodes))
    BY <2>3 DEF FramesOf
  <2>6. /\ stack' \in Seq(FramesOf(Len(heap), Len(nodes))) /\ StackOK(stack', heap)
        /\ stack' # <<>> /\ FP(stack') = FP(stack)
        /\ stack'[Len(stack')].fn = stack[Len(stack)].fn
    BY <1>1, <2>3, <2>4, <2>5, ReplacedFrame
  <2>7. heap[Top.call].kids[i] \in 1..Len(heap) /\ Len(heap) \in Nat
    BY <1>4, <1>6, <2>2, GroupKids, HeldIs DEF SafeInv
  <2>8. ctl' \in [at: Places, call: 1..Len(heap) \cup {Null}] /\ ctl'.at = "call" /\ ctl'.call # Null
    BY <2>1, <2>7, PlacesAre
  <2> QED BY <1>1, <2>6, <2>8, StackStep
<1>7. CASE ctl' = ctl /\ stack' = Tail(stack)
  <2>1. /\ stack' \in Seq(FramesOf(Len(heap), Len(nodes))) /\ StackOK(stack', heap) /\ FP(stack') = FP(stack)
        /\ stack' = <<>> <=> IsBottom(Top)
        /\ stack' # <<>> => stack'[Len(stack')] = stack[Len(stack)]
    BY <1>1, <1>7, PoppedFrame
  <2>2. stack' # <<>>
    BY <1>1, <2>1 DEF IsBottom
  <2>3. ctl' \in [at: Places, call: 1..Len(heap) \cup {Null}] /\ ctl'.at = "return"
    BY <1>1, <1>7, RunningIs
  <2> QED BY <1>1, <2>1, <2>2, <2>3, StackStep
<1> QED BY <1>2, <1>5, <1>6, <1>7

\* The invariant is kept by the start of unbound.
LEMMA CallUnboundSafe ==
  ASSUME SafeInv, CallUnbound, UNCHANGED releases
  PROVE  SafeInv'
<1> DEFINE f == [fn |-> "types", call |-> ctl.call, types |-> Command.types]
<1>1. /\ Calling("unbound") /\ stack' = <<f>> \o stack /\ ctl' = [ctl EXCEPT !.at = "types"]
      /\ UNCHANGED <<heap, nodes, unbound, current_binding, unbinds>>
  BY DEF CallUnbound, Push
<1>2. /\ ctl.at = "call" /\ ctl.call \in 1..Len(heap) /\ Len(heap) \in Nat /\ ctl.call # Null
      /\ heap[ctl.call] # Freed /\ Command.op = "unbound" /\ WellFormed(Command)
      /\ Command = Program[heap[ctl.call].text]
  BY <1>1, CalledIs, PlacesAre
<1>3. Command.types \in Seq(Types) \ {<<>>}
  <2>1. WellFormed(Command) /\ Command.op = "unbound"
    BY <1>2
  <2>2. Command.types \in Seq(Types) /\ (Command.op = "unbound" => Command.types # <<>>)
    BY <2>1, WellFormedIs
  <2> QED BY <2>1, <2>2
<1>4. f \in FramesOf(Len(heap), Len(nodes)) /\ f.fn = "types" /\ f.call # Null
  BY <1>2, <1>3 DEF FramesOf
<1> HIDE DEF f
<1>5. /\ stack' \in Seq(FramesOf(Len(heap), Len(nodes))) /\ StackOK(stack', heap)
      /\ stack' # <<>> /\ stack'[1] = f /\ FP(stack') = FP(stack)
      /\ stack'[Len(stack')] = stack[Len(stack)]
  BY <1>1, <1>2, <1>4, CommandFrame
<1>6. ctl.at \notin {"fault", "exited"}
  BY <1>2
<1>7. /\ ctl \in [at: Places, call: 1..Len(heap) \cup {Null}] /\ stack # <<>>
      /\ current_binding \in 1..Len(nodes) \cup {Null}
  BY <1>2, <1>6, RunningIs
<1>8. ctl' \in [at: Places, call: 1..Len(heap) \cup {Null}] /\ ctl'.at = "types" /\ ctl'.call = ctl.call
  BY <1>1, <1>7 DEF Places
<1>9. PlaceOK(heap, nodes, unbound, ctl', stack')
  BY <1>2, <1>4, <1>5, <1>8 DEF PlaceOK, Executing
<1>11. current_binding' \in 1..Len(nodes) \cup {Null} /\ unbinds \subseteq unbinds'
  BY <1>1, <1>7
<1> QED BY <1>1, <1>5, <1>6, <1>8, <1>9, <1>11, ControlKept

-----------------------------------------------------------------------------
(* The steps that release pointers, and those that allocate and store. *)

\* Pointers that were held are being released now.
LEMMA Regrouped ==
  ASSUME NEW H, NEW P, NEW W, Pointed(H, P, {}, W), NEW Q, NEW R, P = Q \cup R, Q \cap R = {}
  PROVE  Pointed(H, Q, R, W)
<1>1. P \cup {} = Q \cup R
  OBVIOUS
<1> QED BY <1>1 DEF Pointed

\* The place does not depend on what is freed meanwhile.
LEMMA PlaceLater ==
  ASSUME NEW H, NEW G, NEW N, NEW U, NEW c, NEW s, PlaceOK(H, N, U, c, s), Later(H, G),
         Executing(c) => c.call \in 1..Len(H)
  PROVE  PlaceOK(G, N, U, c, s)
<1>1. Executing(c) /\ G[c.call] # Freed => H[c.call] # Freed /\ G[c.call].text = H[c.call].text
  BY DEF Later
<1> QED BY <1>1 DEF PlaceOK, Executing

\* A pointer is released: the command is counted down, or freed and its pointers are
\* released next.
Released(r, H, G, R, S) ==
  \/ /\ H[r.call] # Freed /\ r.counted /\ H[r.call].refcount # 1
     /\ G = Recount(H, r.call, H[r.call].refcount - 1)
     /\ S = R \ {r}
  \/ /\ H[r.call] # Freed /\ (r.counted => H[r.call].refcount = 1)
     /\ G = Without(H, r.call)
     /\ S = (R \ {r}) \cup KPOf(H, r.call)

CountedOnly(P, a) == \A p \in P: p.call = a => p.counted
Kept(H, G, a) == \A b \in 1..Len(H): b # a /\ H[b] # Freed => G[b] # Freed

\* Release is a fault, or what Released says.
LEMMA ReleaseIs ==
  ASSUME Release, releases # {}
  PROVE  /\ ctl.at # "fault"
         /\ UNCHANGED <<nodes, unbound, current_binding, stack, meant, unbinds>>
         /\ \E r \in releases:
              \/ heap[r.call] = Freed /\ ctl' = Fault /\ UNCHANGED <<heap, releases>>
              \/ Released(r, heap, heap', releases, releases') /\ ctl' = ctl
<1> DEFINE r == CHOOSE p \in releases: TRUE
<1>1. r \in releases
  OBVIOUS
<1>2. /\ ctl.at # "fault"
      /\ UNCHANGED <<nodes, unbound, current_binding, stack, meant, unbinds>>
      /\ \E p \in {r}:
         \/ /\ heap[p.call] = Freed
            /\ ctl' = Fault
            /\ UNCHANGED <<heap, releases>>
         \/ /\ heap[p.call] # Freed /\ p.counted /\ heap[p.call].refcount # 1
            /\ heap' = [heap EXCEPT ![p.call].refcount = @ - 1]
            /\ releases' = releases \ {p}
            /\ UNCHANGED ctl
         \/ /\ heap[p.call] # Freed /\ (p.counted => ~(heap[p.call].refcount # 1))
            /\ heap' = [heap EXCEPT ![p.call] = Freed]
            /\ releases' = (releases \ {p}) \cup {KidPointer(p.call, i): i \in DOMAIN heap[p.call].kids}
            /\ UNCHANGED ctl
  BY DEF Release, StillUsed, Kids
<1> HIDE DEF r
<1>3. CASE heap[r.call] = Freed /\ ctl' = Fault /\ UNCHANGED <<heap, releases>>
  BY <1>1, <1>2, <1>3
<1>4. CASE /\ heap[r.call] # Freed /\ r.counted /\ heap[r.call].refcount # 1
           /\ heap' = [heap EXCEPT ![r.call].refcount = @ - 1]
           /\ releases' = releases \ {r}
           /\ UNCHANGED ctl
  <2>1. heap' = Recount(heap, r.call, heap[r.call].refcount - 1)
    BY <1>4 DEF Recount
  <2>2. Released(r, heap, heap', releases, releases')
    BY <1>4, <2>1 DEF Released
  <2> QED BY <1>1, <1>2, <1>4, <2>2
<1>5. CASE /\ heap[r.call] # Freed /\ (r.counted => ~(heap[r.call].refcount # 1))
           /\ heap' = [heap EXCEPT ![r.call] = Freed]
           /\ releases' = (releases \ {r}) \cup {KidPointer(r.call, i): i \in DOMAIN heap[r.call].kids}
           /\ UNCHANGED ctl
  <2>1. heap' = Without(heap, r.call)
    BY <1>5 DEF Without
  <2>2. {KidPointer(r.call, i): i \in DOMAIN heap[r.call].kids} = KPOf(heap, r.call)
    BY DEF KidPointer, KPOf, KPtr
  <2>3. Released(r, heap, heap', releases, releases')
    BY <1>5, <2>1, <2>2 DEF Released
  <2> QED BY <1>1, <1>2, <1>5, <2>3
<1> QED BY <1>2, <1>3, <1>4, <1>5

\* The counts after that, and the heap.
LEMMA ReleasedIs ==
  ASSUME NEW N, NEW U, NEW H, HeapOK(H), NEW s, NEW R, NEW W, Pointed(H, Held(N, U, H, s), R, W),
         NEW r \in R, NEW G, NEW S, Released(r, H, G, R, S)
  PROVE  /\ HeapOK(G) /\ Len(G) = Len(H) /\ Later(H, G)
         /\ Pointed(G, Held(N, U, G, s), S, W)
         /\ "shared" \notin W /\ G[r.call] = Freed => CountedOnly(Held(N, U, H, s), r.call)
         /\ Kept(H, G, r.call)
<1> DEFINE Q == Held(N, U, H, s)
<1> DEFINE P == Q \cup R
<1>1. H \in Seq(Objects \cup {Freed}) /\ Sound(H, P) /\ r \in P
  BY DEF HeapOK, Pointed
<1>2. r.call \in 1..Len(H)
  BY <1>1 DEF Sound
<1>3. ("shared" \notin W => Q \cap R = {} /\ Safe(H, P)) /\ ("shared" \notin W /\ "lost" \notin W => Exact(H, P))
  BY DEF Pointed
<1>4. Q = NP(N) \cup TP(U) \cup KP(H) \cup FP(s)
  BY DEF Held
<1>5. CASE /\ H[r.call] # Freed /\ r.counted /\ H[r.call].refcount # 1
           /\ G = Recount(H, r.call, H[r.call].refcount - 1)
           /\ S = R \ {r}
  <2>1. H[r.call].refcount \in Int /\ H[r.call].refcount - 1 \in Int
    BY <1>1, <1>2, <1>5, ObjectIs
  <2>2. /\ G \in Seq(Objects \cup {Freed}) /\ Len(G) = Len(H)
        /\ G[r.call] # Freed /\ G[r.call].text = H[r.call].text /\ G[r.call].kids = H[r.call].kids
        /\ \A b \in 1..Len(H): b # r.call => G[b] = H[b]
        /\ KP(G) = KP(H)
    BY <1>1, <1>2, <1>5, <2>1, KidsCounted
  <2>3. Later(H, G) /\ \A a \in 1..Len(H): H[a] # Freed => G[a] # Freed
    <3>1. Len(H) \in Nat /\ Len(H) <= Len(G)
      BY <1>1, <2>2
    <3> QED BY <1>5, <2>2, <3>1 DEF Later
  <2>4. HeapOK(G)
    BY <2>2, <2>3, HeapKept
  <2>5. Held(N, U, G, s) = Q
    BY <1>4, <2>2 DEF Held
  <2> HIDE DEF P, Q
  <2>6. /\ Sound(G, P)
        /\ Safe(H, P) => Safe(G, P \ {r})
        /\ Safe(H, P) /\ Exact(H, P) => Exact(G, P \ {r})
    BY <1>1, <1>5, CountedDown
  <2>7. Q \cup S \subseteq P /\ (Q \cap R = {} => Q \cup S = P \ {r} /\ Q \cap S = {})
    BY <1>5 DEF P
  <2>8. Sound(G, Q \cup S)
    BY <2>2, <2>6, <2>7, Fewer
  <2>9. Pointed(G, Q, S, W)
    BY <1>3, <2>6, <2>7, <2>8 DEF Pointed
  <2> QED BY <2>2, <2>3, <2>4, <2>5, <2>9 DEF Kept
<1>6. CASE /\ H[r.call] # Freed /\ (r.counted => H[r.call].refcount = 1)
           /\ G = Without(H, r.call)
           /\ S = (R \ {r}) \cup KPOf(H, r.call)
  <2>2. /\ G \in Seq(Objects \cup {Freed}) /\ Len(G) = Len(H) /\ G[r.call] = Freed
        /\ \A b \in 1..Len(H): b # r.call => G[b] = H[b]
        /\ KP(G) = KP(H) \ KPOf(H, r.call) /\ KPOf(H, r.call) \subseteq KP(H)
    BY <1>1, <1>2, <1>6, KidsFreed
  <2>3. Later(H, G) /\ \A a \in 1..Len(H): a # r.call /\ H[a] # Freed => G[a] # Freed
    <3>1. Len(H) \in Nat /\ Len(H) <= Len(G)
      BY <1>1, <2>2
    <3> QED BY <2>2, <3>1 DEF Later
  <2>4. HeapOK(G)
    BY <2>2, <2>3, HeapKept
  <2> DEFINE K == KPOf(H, r.call)
  <2> DEFINE V == Held(N, U, G, s)
  <2>5. V = Q \ K /\ K \subseteq Q
    <3>1. \A p \in K: p \notin NP(N) /\ p \notin TP(U) /\ p \notin FP(s)
      <4>1. \A p \in K: p.from[1] = "kid"
        BY <2>2, KindIs
      <4>2. /\ \A p \in NP(N): p.from[1] = "node"
            /\ \A p \in TP(U): p.from[1] = "type"
            /\ \A p \in FP(s): p.from[1] = "frame"
        BY KindIs DEF NP, TP
      <4> HIDE DEF K
      <4> QED BY <4>1, <4>2
    <3>2. V = NP(N) \cup TP(U) \cup KP(G) \cup FP(s)
      BY DEF Held
    <3> HIDE DEF V, K, Q
    <3>3. KP(G) = KP(H) \ K /\ K \subseteq KP(H)
      BY <2>2 DEF K
    <3> QED BY <1>4, <3>1, <3>2, <3>3
  <2> HIDE DEF P, Q, V, K
  <2>6. /\ Sound(G, P)
        /\ Safe(H, P) => Safe(G, P \ {r}) /\ OnlyOne(P, r)
        /\ Safe(H, P) /\ Exact(H, P) => Exact(G, P \ {r})
    <3>1. /\ H \in Seq(Objects \cup {Freed}) /\ Sound(H, P) /\ r \in P
          /\ H[r.call] # Freed /\ (r.counted => H[r.call].refcount = 1)
          /\ G = Without(H, r.call)
      BY <1>1, <1>6
    <3> QED BY ONLY <3>1, LastGone
  <2>7. S = (R \ {r}) \cup K
    BY <1>6 DEF K
  <2>8. V \cup S \subseteq P /\ (Q \cap R = {} => V \cup S = P \ {r} /\ V \cap S = {})
    BY <2>5, <2>7 DEF P
  <2>9. Sound(G, V \cup S)
    BY <2>2, <2>6, <2>8, Fewer
  <2>10. Pointed(G, V, S, W)
    BY <1>3, <2>6, <2>8, <2>9 DEF Pointed
  <2>11. "shared" \notin W => \A p \in Q: p.call = r.call => p.counted
    BY <1>3, <1>6, <2>6 DEF P, OnlyOne
  <2> QED BY <2>2, <2>3, <2>4, <2>10, <2>11 DEF V, Q, Kept, CountedOnly
<1> QED BY <1>5, <1>6 DEF Released

\* The invariant is kept by the release of one pointer, whether it frees or counts down.
LEMMA ReleaseSafe ==
  ASSUME SafeInv, Release, releases # {}
  PROVE  SafeInv'
<1>1. /\ ctl.at # "fault"
      /\ UNCHANGED <<nodes, unbound, current_binding, stack, unbinds>>
  BY ReleaseIs
<1>2. PICK r \in releases:
        \/ heap[r.call] = Freed /\ ctl' = Fault /\ UNCHANGED <<heap, releases>>
        \/ Released(r, heap, heap', releases, releases') /\ ctl' = ctl
  BY ReleaseIs
<1>3. CASE heap[r.call] = Freed /\ ctl' = Fault /\ UNCHANGED <<heap, releases>>
  BY <1>1, <1>3, FaultSafe
<1>4. CASE Released(r, heap, heap', releases, releases') /\ ctl' = ctl
  <2> DEFINE Q == Held(nodes, unbound, heap, stack)
  <2>1. HeapOK(heap) /\ NodesOK(nodes) /\ DOMAIN unbound = Types /\ Pointed(heap, Q, releases, unbinds)
    BY DEF SafeInv, DataInv
  <2>2. /\ HeapOK(heap') /\ Len(heap') = Len(heap) /\ Later(heap, heap')
        /\ Pointed(heap', Held(nodes, unbound, heap', stack), releases', unbinds)
    <3>1. /\ HeapOK(heap) /\ Pointed(heap, Held(nodes, unbound, heap, stack), releases, unbinds)
          /\ r \in releases /\ Released(r, heap, heap', releases, releases')
      BY <1>4, <2>1
    <3> QED BY ONLY <3>1, ReleasedIs
  <2>3. nodes' = nodes /\ unbound' = unbound /\ stack' = stack /\ current_binding' = current_binding
        /\ unbinds' = unbinds /\ ctl' = ctl
    BY <1>1, <1>4
  <2>4. DataInv'
    BY <2>1, <2>2, <2>3 DEF DataInv
  <2>5. /\ current_binding \in 1..Len(nodes) \cup {Null}
        /\ ctl \in [at: Places, call: 1..Len(heap) \cup {Null}]
        /\ stack \in Seq(FramesOf(Len(heap), Len(nodes)))
        /\ ctl.at \notin {"fault", "exited"} => TreeOK(nodes)
        /\ StackOK(stack, heap) /\ PlaceOK(heap, nodes, unbound, ctl, stack)
       
    BY <1>1 DEF SafeInv, ControlInv
  <2>6. Len(heap) \in Nat
    BY HeldIs DEF SafeInv
  <2>7. StackOK(stack, heap')
    BY <2>2, <2>5, <2>6, StackLater
  <2>8. Executing(ctl) => ctl.call \in 1..Len(heap)
    BY <2>5 DEF PlaceOK
  <2>9. PlaceOK(heap', nodes, unbound, ctl, stack)
    BY <2>2, <2>5, <2>8, PlaceLater
  <2>10. ControlInv'
    BY <2>2, <2>3, <2>5, <2>7, <2>9 DEF ControlInv
  <2> QED BY <2>4, <2>10 DEF SafeInv
<1> QED BY <1>2, <1>3, <1>4

\* A tree of bindings has all its nodes.
LEMMA TreeNodes ==
  ASSUME NEW N, TreeOK(N)
  PROVE  NodesOK(N)
<1>1. N \in Seq(Nodes \cup {Freed}) /\ N # <<>>
  BY DEF TreeOK, LinksOK
<1>2. DOMAIN N = 1..Len(N) /\ Len(N) \in Nat
  BY <1>1
<1>3. ASSUME NEW n \in 1..Len(N), N[n] # Freed, NEW k \in Keys, N[n].bindings[k] # Null
      PROVE  N[n].bindings[k] \in 1..Len(N)
  <2>1. N[n].bindings[k] \in n + 1..Len(N)
    BY <1>2, <1>3 DEF TreeOK, LinksOK
  <2>2. n + 1..Len(N) \subseteq 1..Len(N)
    BY <1>2
  <2> QED BY <2>1, <2>2
<1> QED BY <1>1, <1>3 DEF NodesOK

\* The same bindings, perhaps other commands.
SameTree(N, M) ==
  /\ M \in Seq(Nodes \cup {Freed}) /\ Len(M) = Len(N)
  /\ \A n \in 1..Len(N): /\ M[n] # Freed <=> N[n] # Freed
                         /\ N[n] # Freed => M[n].bindings = N[n].bindings

\* A tree whose commands alone are others is a tree.
LEMMA StoredTree ==
  ASSUME NEW N, TreeOK(N), NEW M, SameTree(N, M)
  PROVE  TreeOK(M)
<1>1. N \in Seq(Nodes \cup {Freed}) /\ N # <<>> /\ N[Root] # Freed
  BY DEF TreeOK, LinksOK
<1>2. /\ DOMAIN N = 1..Len(N) /\ Len(N) \in Nat /\ 1 \in 1..Len(N) /\ M \in Seq(Nodes \cup {Freed})
      /\ DOMAIN M = 1..Len(N) /\ Len(M) = Len(N) /\ M # <<>>
  BY <1>1 DEF SameTree
<1>3. \A n \in 1..Len(N): /\ M[n] # Freed <=> N[n] # Freed
                          /\ N[n] # Freed => M[n].bindings = N[n].bindings
  BY DEF SameTree
<1>4. M[Root] # Freed
  BY <1>1, <1>2, <1>3 DEF Root
<1>5. LinksOK(M)
  <2>1. ASSUME NEW n \in 1..Len(N), M[n] # Freed, NEW k \in Keys, M[n].bindings[k] # Null
        PROVE  M[n].bindings[k] \in n + 1..Len(N) /\ M[M[n].bindings[k]] # Freed
    <3>1. N[n] # Freed /\ M[n].bindings = N[n].bindings
      BY <1>3, <2>1
    <3>2. N[n].bindings[k] \in n + 1..Len(N) /\ N[N[n].bindings[k]] # Freed
      BY <1>2, <2>1, <3>1 DEF TreeOK, LinksOK
    <3>3. N[n].bindings[k] \in 1..Len(N)
      BY <1>2, <3>2
    <3> QED BY <1>3, <3>1, <3>2, <3>3
  <2> QED BY <1>2, <2>1 DEF LinksOK
<1>6. ParentsOK(M)
  <2>1. ASSUME NEW n \in 1..Len(N), NEW m \in 1..Len(N), NEW k \in Keys, NEW j \in Keys,
               M[n] # Freed, M[m] # Freed, M[n].bindings[k] # Null, M[m].bindings[j] = M[n].bindings[k]
        PROVE  m = n /\ j = k
    <3>1. N[n] # Freed /\ M[n].bindings = N[n].bindings /\ N[m] # Freed /\ M[m].bindings = N[m].bindings
      BY <1>3, <2>1
    <3> QED BY <1>2, <2>1, <3>1 DEF TreeOK, ParentsOK
  <2> QED BY <1>2, <2>1 DEF ParentsOK
<1> QED BY <1>2, <1>4, <1>5, <1>6 DEF TreeOK

\* The ways are the same.
LEMMA StoredWays ==
  ASSUME NEW N, TreeOK(N), NEW M, SameTree(N, M), NEW keys \in Seq(Keys)
  PROVE  /\ \A i \in 0..Len(keys): WayOf(M, keys)[i] = WayOf(N, keys)[i]
         /\ FoundOf(M, keys) = FoundOf(N, keys)
<1>1. Len(keys) \in Nat /\ Len(keys) \in 0..Len(keys)
  OBVIOUS
<1> DEFINE v == WayOf(N, keys)
<1> DEFINE u == WayOf(M, keys)
<1> DEFINE T == {i \in 0..Len(keys): u[i] = v[i]}
<1> DEFINE m == Len(keys)
<1>2. /\ DOMAIN N = 1..Len(N) /\ TreeWay(N, keys, v)
      /\ u[0] = Root /\ \A i \in 1..m: u[i] = IF u[i - 1] = Null THEN Null ELSE M[u[i - 1]].bindings[keys[i]]
  BY WayIs, WayFacts DEF TreeOK, LinksOK
<1> HIDE DEF v, u
<1>3. \A i \in 0..m: u[i] = v[i]
  <2>1. 0 \in T
    BY <1>1, <1>2 DEF TreeWay
  <2>2. ASSUME NEW i \in 0..m - 1, i \in T PROVE i + 1 \in T
    <3>1. i + 1 \in 1..m /\ i \in 0..m /\ (i + 1) - 1 = i /\ i + 1 \in 0..m
      BY <1>1
    <3>2. v[i + 1] = (IF v[i] = Null THEN Null ELSE N[v[i]].bindings[keys[i + 1]])
          /\ u[i + 1] = IF v[i] = Null THEN Null ELSE M[v[i]].bindings[keys[i + 1]]
      BY <1>2, <2>2, <3>1 DEF TreeWay
    <3>3. v[i] # Null => M[v[i]].bindings = N[v[i]].bindings
      BY <1>2, <3>1 DEF TreeWay, SameTree
    <3> QED BY <3>1, <3>2, <3>3
  <2> HIDE DEF T, m
  <2>3. m \in Nat /\ \A i \in 0..m - 1: i \in T => i + 1 \in T
    BY <1>1, <2>2 DEF m
  <2>4. \A i \in 0..m: i \in T
    BY <2>1, <2>3, Induction
  <2> QED BY <2>4 DEF T
<1> QED BY <1>1, <1>3 DEF FoundOf, u, v

\* The invariant is kept when a line is released: its frame gives up the only pointer.
LEMMA LineReturnSafe ==
  ASSUME SafeInv, LineReturn, releases = {}
  PROVE  SafeInv'
<1>1. /\ ctl.at = "return" /\ stack # <<>> /\ Top.fn = "conf" /\ ctl' = At("lines") /\ stack' = Tail(stack)
      /\ releases' = {FPtr(stack, 1)} /\ ctl.at \notin {"fault", "exited"}
      /\ UNCHANGED <<heap, nodes, unbound, current_binding, unbinds>>
  BY PointersDef DEF LineReturn, Returning, TopIs, Pop
<1>2. /\ Tail(stack) \in Seq(FramesOf(Len(heap), Len(nodes))) /\ StackOK(Tail(stack), heap)
      /\ FrameFits(Top, Tail(stack), heap)
      /\ FP(stack) = FP(Tail(stack)) \cup {FPtr(stack, 1)}
      /\ FPtr(stack, 1) \notin FP(Tail(stack))
      /\ IF Tail(stack) = <<>> THEN stack[Len(stack)] = Top
         ELSE Tail(stack)[Len(Tail(stack))] = stack[Len(stack)]
  BY <1>1, TopIsKnown
<1>3. /\ TreeOK(nodes) /\ current_binding \in 1..Len(nodes) \cup {Null}
  BY <1>1, RunningIs
<1>4. Tail(stack) # <<>> /\ Tail(stack)[1].fn = "lines"
  BY <1>1, <1>2 DEF FrameFits
<1>5. HeapOK(heap) /\ NodesOK(nodes) /\ DOMAIN unbound = Types
      /\ Pointed(heap, Held(nodes, unbound, heap, stack), releases, unbinds)
  BY DEF SafeInv, DataInv
<1>6. Pointed(heap, Held(nodes, unbound, heap, Tail(stack)), {FPtr(stack, 1)}, unbinds)
  <2> DEFINE P == Held(nodes, unbound, heap, stack)
  <2> DEFINE Q == Held(nodes, unbound, heap, Tail(stack))
  <2> DEFINE R == {FPtr(stack, 1)}
  <2>1. P = Q \cup R
    BY <1>2 DEF Held
  <2>2. Q \cap R = {}
    <3>1. FPtr(stack, 1) \in FP(stack)
      BY <1>2
    <3>2. FPtr(stack, 1) \notin NP(nodes) /\ FPtr(stack, 1) \notin TP(unbound) /\ FPtr(stack, 1) \notin KP(heap)
      <4>1. FPtr(stack, 1).from[1] = "frame"
        BY <3>1, KindIs
      <4>2. /\ \A p \in NP(nodes): p.from[1] = "node"
            /\ \A p \in TP(unbound): p.from[1] = "type"
            /\ \A p \in KP(heap): p.from[1] = "kid"
        BY KindIs DEF NP, TP
      <4> QED BY <4>1, <4>2
    <3> QED BY <1>2, <3>2 DEF Held
  <2>3. Pointed(heap, P, {}, unbinds)
    BY <1>5
  <2> HIDE DEF P, Q, R
  <2>4. Pointed(heap, Q, R, unbinds)
    BY <2>1, <2>2, <2>3, Regrouped
  <2> QED BY <2>4 DEF Q, R
<1>7. DataInv'
  <2>1. heap' = heap /\ nodes' = nodes /\ unbound' = unbound /\ unbinds' = unbinds
    BY <1>1
  <2> QED BY <1>1, <1>5, <1>6, <2>1 DEF DataInv
<1>8. ctl' \in [at: Places, call: 1..Len(heap) \cup {Null}] /\ ctl'.at = "lines"
  BY <1>1 DEF At, Places
<1>9. PlaceOK(heap, nodes, unbound, ctl', stack')
  <2>1. ctl'.at = "lines" /\ stack' # <<>> /\ stack'[1].fn = "lines"
    BY <1>1, <1>4, <1>8
  <2>2. ctl'.at \in {"poll", "lines", "call", "return"} /\ (stack' = <<>> <=> ctl'.at = "poll") /\ ~(ctl'.at = "call")
    BY <2>1
  <2> QED BY ONLY <2>1, <2>2, PlainPlace
<1>11. ControlInv'
  <2>1. heap' = heap /\ nodes' = nodes /\ unbound' = unbound /\ stack' = Tail(stack) /\ current_binding' = current_binding
    BY <1>1
  <2> QED BY <1>2, <1>3, <1>8, <1>9, <2>1 DEF ControlInv
<1> QED BY <1>7, <1>11 DEF SafeInv

\* The invariant is kept by a line that is read: what the parser allocates has pointers.
LEMMA ReadLineSafe ==
  ASSUME SafeInv, ReadLine, UNCHANGED releases, releases = {}
  PROVE  SafeInv'
<1>1. PICK text \in Lines:
        /\ heap' = heap \o Parsed(text, Len(heap))
        /\ stack' = <<[fn |-> "conf", call |-> Len(heap) + 1]>> \o stack
        /\ ctl' = Call(Len(heap) + 1)
  BY DEF ReadLine, Push
<1>2. ctl.at = "lines" /\ ctl.at \notin {"fault", "exited"} /\ UNCHANGED <<nodes, unbound, current_binding, unbinds>>
  BY DEF ReadLine
<1>3. HeapOK(heap) /\ NodesOK(nodes) /\ DOMAIN unbound = Types
      /\ Pointed(heap, Held(nodes, unbound, heap, stack), {}, unbinds)
  BY DEF SafeInv, DataInv
<1>4. heap \in Seq(Objects \cup {Freed}) /\ Len(heap) \in Nat /\ Len(nodes) \in Nat
  BY HeldIs DEF SafeInv
<1> DEFINE X == Parsed(text, Len(heap))
<1>5. Allocated(text, Len(heap), X)
  BY <1>4, ParsedIs
<1> HIDE DEF X
<1>6. heap' = heap \o X
  BY <1>1 DEF X
<1> DEFINE K == KidsBehind(heap, X, heap')
<1>9. Appended(heap, X, heap') /\ NewKids(K, Len(heap), X) /\ KP(heap') = KP(heap) \cup K
  BY <1>4, <1>5, <1>6, AllocatedKids
<1> HIDE DEF K
<1>7. Len(heap') = Len(heap) + Len(X) /\ Len(X) \in Nat \ {0} /\ Len(heap') \in Nat
  BY <1>4, <1>9 DEF Appended
<1>8. HeapOK(heap') /\ Later(heap, heap')
  BY <1>3, <1>5, <1>9, HeapGrown
<1> DEFINE f == [fn |-> "conf", call |-> Len(heap) + 1]
<1>10. /\ stack \in Seq(FramesOf(Len(heap), Len(nodes))) /\ StackOK(stack, heap) /\ stack # <<>>
       /\ stack[1].fn = "lines" /\ TreeOK(nodes) /\ current_binding \in 1..Len(nodes) \cup {Null}
      
  BY <1>2, RunningIs DEF PlaceOK
<1>11. FramesOf(Len(heap), Len(nodes)) \subseteq FramesOf(Len(heap'), Len(nodes))
  <2>1. Len(heap') \in Nat /\ Len(heap) <= Len(heap') /\ Len(nodes) <= Len(nodes)
    BY <1>4, <1>7
  <2> QED BY <1>4, <2>1, FramesGrow
<1>12. stack \in Seq(FramesOf(Len(heap'), Len(nodes)))
  BY <1>10, <1>11
<1>13. Len(heap) + 1 \in 1..Len(heap')
  BY <1>4, <1>7
<1>14. f \in FramesOf(Len(heap'), Len(nodes)) /\ f.fn = "conf" /\ f.call = Len(heap) + 1
  BY <1>13 DEF FramesOf
<1> HIDE DEF f
<1>15. stack' = <<f>> \o stack
  BY <1>1 DEF f
<1>16. StackOK(stack, heap')
  BY <1>4, <1>8, <1>10, StackLater
<1>17. FrameFits(f, stack, heap')
  BY <1>10, <1>14 DEF FrameFits, IsBottom
<1>18. StackOK(<<f>> \o stack, heap')
  BY <1>12, <1>14, <1>16, <1>17, StackPushed
<1> DEFINE t == <<f>> \o stack
<1>19. t \in Seq(FramesOf(Len(heap'), Len(nodes))) /\ t # <<>> /\ t[Len(t)] = stack[Len(stack)]
  BY <1>10, <1>12, <1>14, Pushed
<1>20. FP(t) = FP(stack) \cup {FPtr(t, 1)} /\ FPtr(t, 1) = Pointer(<<"frame", Len(stack) + 1, 1>>, f.call, FALSE)
  <2> DEFINE S == FramesOf(Len(heap'), Len(nodes))
  <2>1. stack \in Seq(S) /\ f \in S /\ f.fn = "conf"
    BY <1>12, <1>14
  <2> HIDE DEF S
  <2> QED BY ONLY <2>1, FramesPush
<1> DEFINE p == FPtr(t, 1)
<1>21. ~p.counted /\ p.call = Len(heap) + 1
  BY <1>14, <1>20 DEF Pointer
<1> HIDE DEF t
<1>22. stack' = t
  BY <1>15 DEF t
<1>23. Pointed(heap', Held(nodes, unbound, heap', t), {}, unbinds)
  <2> DEFINE P == Held(nodes, unbound, heap, stack)
  <2> DEFINE Q == Held(nodes, unbound, heap', t)
  <2>1. Q = P \cup {p} \cup K
    BY <1>9, <1>20 DEF Held
  <2>2. Pointed(heap, P, {}, unbinds)
    BY <1>3
  <2> HIDE DEF P, Q, p
  <2>3. /\ Sound(heap, P)
        /\ "shared" \notin unbinds => Safe(heap, P)
        /\ "shared" \notin unbinds /\ "lost" \notin unbinds => Exact(heap, P)
    <3>1. P \cup {} = P
      OBVIOUS
    <3> QED BY <2>2, <3>1 DEF Pointed
  <2>4. /\ Sound(heap', Q)
        /\ Safe(heap, P) => Safe(heap', Q)
        /\ Exact(heap, P) => Exact(heap', Q)
    BY <1>4, <1>5, <1>9, <1>21, <2>1, <2>3, CountedNew
  <2>5. Q \cup {} = Q /\ Q \cap {} = {}
    OBVIOUS
  <2>6. Pointed(heap', Q, {}, unbinds)
    BY <2>3, <2>4, <2>5 DEF Pointed
  <2> QED BY <2>6 DEF Q
<1>24. DataInv'
  <2>1. nodes' = nodes /\ unbound' = unbound /\ unbinds' = unbinds /\ releases' = {}
    BY <1>2
  <2> QED BY <1>3, <1>8, <1>22, <1>23, <2>1 DEF DataInv
<1>25. ctl' \in [at: Places, call: 1..Len(heap') \cup {Null}] /\ ctl'.at = "call" /\ ctl'.call # Null
  <2>1. Len(heap') \in Nat
    BY <1>7
  <2> QED BY <1>1, <1>13, <2>1, PlacesAre
<1>26. PlaceOK(heap', nodes, unbound, ctl', t)
  <2>1. ctl'.at = "call" /\ t # <<>> /\ ctl'.call # Null
    BY <1>19, <1>25
  <2>2. ctl'.at \in {"poll", "lines", "call", "return"} /\ (t = <<>> <=> ctl'.at = "poll") /\ ~(ctl'.at = "lines")
    BY <2>1
  <2> QED BY ONLY <2>1, <2>2, PlainPlace
<1>28. ControlInv'
  <2>1. nodes' = nodes /\ unbound' = unbound /\ current_binding' = current_binding
    BY <1>2
  <2>2. StackOK(t, heap')
    BY <1>18 DEF t
  <2> QED BY <1>10, <1>19, <1>22, <1>25, <1>26, <2>1, <2>2 DEF ControlInv
<1> QED BY <1>24, <1>28 DEF SafeInv

\* The place, the stack and the open chain after a step that changes other things, too.
LEMMA ControlMoved ==
  ASSUME SafeInv, ctl.at \notin {"fault", "exited"}, stack # <<>>, Len(heap') = Len(heap), Later(heap, heap'),
         Len(nodes') \in Nat, Len(nodes) <= Len(nodes'), TreeOK(nodes'), current_binding' = current_binding,
         ctl' \in [at: Places, call: 1..Len(heap) \cup {Null}], ctl'.at # "exited",
         PlaceOK(heap', nodes', unbound', ctl', stack'),
         stack' \in Seq(FramesOf(Len(heap), Len(nodes))), StackOK(stack', heap), stack' # <<>>,
         stack'[Len(stack')].fn = stack[Len(stack)].fn
  PROVE  ControlInv'
<1>1. /\ current_binding \in 1..Len(nodes) \cup {Null}
  BY RunningIs
<1>2. Len(heap) \in Nat /\ Len(nodes) \in Nat
  BY HeldIs DEF SafeInv
<1>3. StackOK(stack', heap')
  <2> DEFINE s == stack'
  <2>1. s \in Seq(FramesOf(Len(heap), Len(nodes))) /\ StackOK(s, heap)
    OBVIOUS
  <2> HIDE DEF s
  <2>2. StackOK(s, heap')
    BY <1>2, <2>1, StackLater
  <2> QED BY <2>2 DEF s
<1>4. FramesOf(Len(heap), Len(nodes)) \subseteq FramesOf(Len(heap'), Len(nodes'))
  <2>1. Len(heap') \in Nat /\ Len(heap) <= Len(heap')
    BY <1>2
  <2> QED BY <1>2, <2>1, FramesGrow
<1>5. stack' \in Seq(FramesOf(Len(heap'), Len(nodes')))
  <2> DEFINE s == stack'
  <2> DEFINE S == FramesOf(Len(heap), Len(nodes))
  <2> DEFINE T == FramesOf(Len(heap'), Len(nodes'))
  <2>1. s \in Seq(S) /\ S \subseteq T
    BY <1>4
  <2> HIDE DEF s, S, T
  <2>2. s \in Seq(T)
    BY <2>1
  <2> QED BY <2>2 DEF s, T
<1>6. current_binding' \in 1..Len(nodes') \cup {Null}
  BY <1>1, <1>2
<1>8. ctl' \in [at: Places, call: 1..Len(heap') \cup {Null}]
  BY <1>2
<1> QED BY <1>3, <1>5, <1>6, <1>8 DEF ControlInv

\* The pointers of nodes, unbound fields, commands and frames are different ones.
LEMMA KindsApart ==
  ASSUME NEW N, NEW U, NEW H, NEW s, NEW p
  PROVE  /\ p.from[1] = "node" /\ p \notin NP(N) => p \notin Held(N, U, H, s)
         /\ p.from[1] = "type" /\ p \notin TP(U) => p \notin Held(N, U, H, s)
<1>1. /\ \A q \in NP(N): q.from[1] = "node"
      /\ \A q \in TP(U): q.from[1] = "type"
      /\ \A q \in KP(H): q.from[1] = "kid"
      /\ \A q \in FP(s): q.from[1] = "frame"
  BY KindIs DEF NP, TP
<1> QED BY <1>1 DEF Held

\* The invariant is kept when bind makes the nodes and gives up the old command.
LEMMA CallBindSafe ==
  ASSUME SafeInv, CallBind, releases = {}
  PROVE  SafeInv'
<1> DEFINE keys == Command.keys
<1> DEFINE S == {FoundOf(nodes, keys)} \ {Null}
<1> DEFINE R == NPOf(nodes, S)
<1>1. /\ Calling("bind") /\ nodes' = BindOf(nodes, keys) /\ releases' = R
      /\ ctl' = [ctl EXCEPT !.at = "bind"]
      /\ UNCHANGED <<heap, unbound, current_binding, stack, unbinds>>
  <2>1. BindNodes(Command.keys) = BindOf(nodes, keys) /\ Found(Command.keys) = FoundOf(nodes, keys)
    BY BindDef, FoundDef
  <2>2. NodePointers(S) = NPOf(nodes, S)
    BY PointersDef
  <2> QED BY <2>1, <2>2 DEF CallBind
<1>2. /\ ctl.at = "call" /\ ctl.call \in 1..Len(heap) /\ heap[ctl.call] # Freed
      /\ Command = Program[heap[ctl.call].text] /\ Command.op = "bind" /\ WellFormed(Command) /\ stack # <<>>
  BY <1>1, CalledIs
<1>3. keys \in Seq(Keys) /\ keys # <<>>
  BY <1>2, WellFormedIs
<1>4. ctl.at \notin {"fault", "exited"}
  BY <1>2
<1>5. /\ TreeOK(nodes) /\ stack \in Seq(FramesOf(Len(heap), Len(nodes))) /\ StackOK(stack, heap)
      /\ ctl \in [at: Places, call: 1..Len(heap) \cup {Null}] /\ ctl.call # Null
  BY <1>2, <1>4, RunningIs
<1> DEFINE M == BindOf(nodes, keys)
<1> HIDE DEF keys
<1>6. TreeOK(M)
  BY <1>3, <1>5, BindTree
<1>7. Grown(nodes, keys, M, DepthOf(nodes, keys), WayOf(nodes, keys)[DepthOf(nodes, keys)])
  BY <1>3, <1>5, BindIs
<1>8. Len(nodes) \in Nat /\ Len(M) \in Nat /\ Len(nodes) <= Len(M) /\ Len(heap) \in Nat
  <2>1. Len(M) = Len(nodes) + (Len(keys) - DepthOf(nodes, keys)) /\ DepthOf(nodes, keys) \in 0..Len(keys)
    BY <1>7 DEF Grown
  <2>2. Len(keys) \in Nat /\ Len(nodes) \in Nat /\ Len(heap) \in Nat
    BY <1>3, HeldIs DEF SafeInv
  <2> QED BY <2>1, <2>2
<1>9. FoundOf(M, keys) # Null /\ CommandOf(M, keys) = Null
  <2>1. FoundOf(M, keys) # Null /\ M[FoundOf(M, keys)].command = Null
    BY <1>3, <1>5, BindEnds
  <2> QED BY <2>1 DEF CommandOf
<1>10. NP(nodes) = NP(M) \cup R /\ NP(M) \cap R = {}
  BY <1>3, <1>5, BindPointers
<1>11. HeapOK(heap) /\ DOMAIN unbound = Types
       /\ Pointed(heap, Held(nodes, unbound, heap, stack), {}, unbinds)
  BY DEF SafeInv, DataInv
<1>12. NodesOK(M)
  BY <1>6, TreeNodes
<1>13. \A p \in R: p.from[1] = "node"
  BY KindIs
<1> HIDE DEF M, S, R
<1>14. Pointed(heap, Held(M, unbound, heap, stack), R, unbinds)
  <2> DEFINE P == Held(nodes, unbound, heap, stack)
  <2> DEFINE Q == Held(M, unbound, heap, stack)
  <2>1. P = Q \cup R
    BY <1>10 DEF Held
  <2>2. Q \cap R = {}
    <3>1. ASSUME NEW p \in R PROVE p \notin Q
      BY <1>10, <1>13, KindsApart
    <3> QED BY <3>1
  <2>3. Pointed(heap, P, {}, unbinds)
    BY <1>11
  <2> HIDE DEF P, Q
  <2>4. Pointed(heap, Q, R, unbinds)
    BY <2>1, <2>2, <2>3, Regrouped
  <2> QED BY <2>4 DEF Q
<1>15. nodes' = M /\ releases' = R /\ heap' = heap /\ unbound' = unbound /\ current_binding' = current_binding
       /\ stack' = stack /\ unbinds' = unbinds
  BY <1>1 DEF M, R, S
<1>16. DataInv'
  BY <1>11, <1>12, <1>14, <1>15 DEF DataInv
<1>17. ctl' \in [at: Places, call: 1..Len(heap) \cup {Null}] /\ ctl'.at = "bind" /\ ctl'.call = ctl.call
  BY <1>1, <1>5 DEF Places
<1>18. PlaceOK(heap, M, unbound, ctl', stack)
  BY <1>2, <1>5, <1>9, <1>17 DEF PlaceOK, Executing, keys
<1>19. Later(heap, heap)
  BY <1>8 DEF Later
<1>20. ControlInv'
  BY <1>2, <1>4, <1>5, <1>6, <1>8, <1>15, <1>17, <1>18, <1>19, ControlMoved
<1> QED BY <1>16, <1>20 DEF SafeInv

\* bind or unbound takes a reference to its argument.
LEMMA ArgumentReferenced ==
  ASSUME SafeInv, releases = {}, ctl.call \in 1..Len(heap), ~ArgumentFreed, Command.op \in {"bind", "unbound"},
         Reference(Argument), NEW p, p.counted, p.call = Argument, p \notin Held(nodes, unbound, heap, stack)
  PROVE  /\ HeapOK(heap') /\ Len(heap') = Len(heap) /\ Later(heap, heap') /\ KP(heap') = KP(heap)
         /\ Pointed(heap', Held(nodes, unbound, heap, stack) \cup {p}, {}, unbinds)
         /\ Argument \in 1..Len(heap) /\ heap[Argument] # Freed /\ Argument \in Nat /\ Argument # Null
<1>1. heap[ctl.call] # Freed /\ heap[Argument] # Freed /\ Argument = heap[ctl.call].kids[1]
      /\ Command = Program[heap[ctl.call].text]
  BY DEF ArgumentFreed, Argument, Command
<1>2. HeapOK(heap) /\ Pointed(heap, Held(nodes, unbound, heap, stack), {}, unbinds)
      /\ heap \in Seq(Objects \cup {Freed}) /\ Len(heap) \in Nat
  BY HeldIs DEF SafeInv, DataInv
<1>3. 1 \in 1..Len(heap[ctl.call].kids) /\ Argument \in 1..Len(heap)
  BY <1>1, GroupKids
<1> DEFINE a == Argument
<1> HIDE DEF a
<1>4. heap[a].refcount \in Int /\ heap[a].refcount + 1 \in Int /\ heap[a] # Freed /\ a \in 1..Len(heap)
  BY <1>1, <1>2, <1>3, ObjectIs DEF a
<1>5. heap' = Recount(heap, a, heap[a].refcount + 1)
  BY DEF Reference, Recount, a
<1>6. /\ heap' \in Seq(Objects \cup {Freed}) /\ Len(heap') = Len(heap)
      /\ heap'[a] # Freed /\ heap'[a].text = heap[a].text /\ heap'[a].kids = heap[a].kids
      /\ \A b \in 1..Len(heap): b # a => heap'[b] = heap[b]
      /\ KP(heap') = KP(heap)
  BY <1>2, <1>4, <1>5, KidsCounted
<1>7. Later(heap, heap')
  <2>1. Len(heap) <= Len(heap')
    BY <1>2, <1>6
  <2> QED BY <1>4, <1>6, <2>1 DEF Later
<1>8. HeapOK(heap')
  BY <1>2, <1>6, <1>7, HeapKept
<1> DEFINE P == Held(nodes, unbound, heap, stack)
<1>9. \E q \in P: q.counted /\ q.call = p.call
  <2> DEFINE q == KPtr(heap, ctl.call, 1)
  <2>1. q.call = a /\ q.counted
    <3>1. q.call = heap[ctl.call].kids[1] /\ q.counted = Counts(heap[ctl.call].text)
      BY KPtrIs
    <3>2. Counts(heap[ctl.call].text)
      BY <1>1 DEF Counts
    <3> QED BY <1>1, <3>1, <3>2 DEF a
  <2>2. q \in P
    <3>1. 1 \in DOMAIN heap[ctl.call].kids
      BY <1>1, <1>2, <1>3, ObjectIs
    <3>2. q \in KPOf(heap, ctl.call)
      BY <3>1 DEF KPOf
    <3> QED BY <1>1, <3>2 DEF Held, KP
  <2> HIDE DEF q
  <2> QED BY <2>1, <2>2 DEF a
<1>10. p \notin P /\ Pointed(heap, P, {}, unbinds) /\ p.call = a
  BY <1>2 DEF a
<1> HIDE DEF P
<1>11. /\ Sound(heap, P)
       /\ "shared" \notin unbinds => Safe(heap, P)
       /\ "shared" \notin unbinds /\ "lost" \notin unbinds => Exact(heap, P)
  <2>1. P \cup {} = P
    OBVIOUS
  <2> QED BY <1>10, <2>1 DEF Pointed
<1>12. /\ Sound(heap', P \cup {p})
       /\ Safe(heap, P) => Safe(heap', P \cup {p})
       /\ Exact(heap, P) => Exact(heap', P \cup {p})
  BY <1>2, <1>4, <1>5, <1>9, <1>10, <1>11, CountedUp
<1>13. Pointed(heap', P \cup {p}, {}, unbinds)
  <2>1. (P \cup {p}) \cup {} = P \cup {p} /\ (P \cup {p}) \cap {} = {}
    OBVIOUS
  <2> QED BY <1>11, <1>12, <2>1 DEF Pointed
<1> QED BY <1>1, <1>2, <1>3, <1>6, <1>7, <1>8, <1>13, NoAddressAssumption DEF P

\* The argument of bind or unbound.
LEMMA ArgumentIs ==
  ASSUME SafeInv, ctl.call \in 1..Len(heap), heap[ctl.call] # Freed, Command.op \in {"bind", "unbound"},
         heap[Argument] # Freed
  PROVE  /\ Argument \in 1..Len(heap) /\ Argument \in Nat /\ Argument # Null
         /\ heap[Argument].text = Command.subs[1]
<1>1. Command = Program[heap[ctl.call].text] /\ Argument = heap[ctl.call].kids[1]
  BY DEF Command, Argument
<1>2. 1 \in 1..Len(heap[ctl.call].kids) /\ Argument \in 1..Len(heap)
  BY <1>1, GroupKids
<1>3. HeapOK(heap) /\ Len(heap) \in Nat
  BY HeldIs DEF SafeInv, DataInv
<1>4. KidsOK(heap, ctl.call)
  BY <1>3 DEF HeapOK
<1> QED BY <1>1, <1>2, <1>3, <1>4, NoAddressAssumption DEF KidsOK

\* bind stores its argument in the node that it has emptied.
LEMMA BindStoreIs ==
  ASSUME SafeInv, BindStore
  PROVE  /\ ctl.at = "bind" /\ ctl.call \in 1..Len(heap) /\ heap[ctl.call] # Freed /\ heap[ctl.call].text \in Texts
         /\ Command = Program[heap[ctl.call].text] /\ Command.op = "bind" /\ Command.keys \in Seq(Keys)
         /\ FoundOf(nodes, Command.keys) # Null /\ FoundOf(nodes, Command.keys) \in DOMAIN nodes
         /\ nodes[FoundOf(nodes, Command.keys)] # Freed /\ nodes[FoundOf(nodes, Command.keys)].command = Null
         /\ Argument \in 1..Len(heap) /\ Argument \in Nat /\ Argument # Null /\ heap[Argument] # Freed
         /\ heap[Argument].text = Command.subs[1]
         /\ nodes' = [nodes EXCEPT ![FoundOf(nodes, Command.keys)].command = Argument]
<1> DEFINE n == FoundOf(nodes, Command.keys)
<1>1. /\ ctl.at = "bind" /\ ~ArgumentFreed
      /\ nodes' = [nodes EXCEPT ![FoundOf(nodes, Command.keys)].command = Argument]
  BY FoundDef DEF BindStore
<1>2. heap[ctl.call] # Freed /\ heap[Argument] # Freed /\ Command = Program[heap[ctl.call].text]
  BY <1>1 DEF ArgumentFreed, Command
<1>3. ctl.at \notin {"fault", "exited"} /\ Executing(ctl)
  BY <1>1 DEF Executing
<1>4. TreeOK(nodes) /\ ctl.call \in 1..Len(heap) /\ PlaceOK(heap, nodes, unbound, ctl, stack)
  BY <1>1, <1>3, RunningIs
<1>5. Command.op = "bind" /\ n # Null /\ CommandOf(nodes, Command.keys) = Null
  BY <1>1, <1>2, <1>4 DEF PlaceOK
<1>6. heap \in Seq(Objects \cup {Freed}) /\ Len(heap) \in Nat /\ HeapOK(heap)
  BY HeldIs DEF SafeInv, DataInv
<1>7. heap[ctl.call].text \in Texts /\ WellFormed(Command)
  BY <1>2, <1>4, <1>6, ObjectIs
<1>8. Command.keys \in Seq(Keys)
  BY <1>7, WellFormedIs
<1>9. n \in DOMAIN nodes /\ nodes[n] # Freed /\ nodes[n].command = Null
  <2>1. nodes[n].command = Null
    BY <1>5 DEF CommandOf
  <2>2. Len(Command.keys) \in 0..Len(Command.keys)
    BY <1>8
  <2>3. TreeWay(nodes, Command.keys, WayOf(nodes, Command.keys))
    BY <1>4, <1>8, WayFacts
  <2>4. n = WayOf(nodes, Command.keys)[Len(Command.keys)]
    BY DEF FoundOf
  <2>5. n \in DOMAIN nodes /\ nodes[n] # Freed
    BY <1>5, <2>2, <2>3, <2>4 DEF TreeWay
  <2> QED BY <2>1, <2>5
<1>10. Argument \in 1..Len(heap) /\ Argument \in Nat /\ Argument # Null /\ heap[Argument].text = Command.subs[1]
  BY <1>2, <1>4, <1>5, ArgumentIs
<1> QED BY <1>1, <1>2, <1>4, <1>5, <1>7, <1>8, <1>9, <1>10

\* The invariant is kept when bind stores its argument, with one pointer and one count more.
LEMMA BindStoreSafe ==
  ASSUME SafeInv, BindStore, UNCHANGED releases, releases = {}
  PROVE  SafeInv'
<1> DEFINE n == FoundOf(nodes, Command.keys)
<1> DEFINE M == [nodes EXCEPT ![n].command = Argument]
<1>1. /\ ctl.at = "bind" /\ ~ArgumentFreed /\ Reference(Argument) /\ nodes' = M /\ ctl' = At("return")
      /\ UNCHANGED <<unbound, current_binding, stack, unbinds, releases>>
  BY FoundDef DEF BindStore
<1>3. ctl.at \notin {"fault", "exited"}
  BY <1>1
<1>4. /\ TreeOK(nodes) /\ stack \in Seq(FramesOf(Len(heap), Len(nodes))) /\ StackOK(stack, heap) /\ stack # <<>>
  BY <1>1, <1>3, RunningIs
<1>6. Len(heap) \in Nat /\ Len(nodes) \in Nat /\ DOMAIN nodes = 1..Len(nodes) /\ nodes \in Seq(Nodes \cup {Freed})
  BY HeldIs DEF SafeInv
<1>9. /\ n \in DOMAIN nodes /\ nodes[n] # Freed /\ nodes[n].command = Null
      /\ ctl.call \in 1..Len(heap) /\ Command.op \in {"bind", "unbound"} /\ Argument \in Nat
  BY BindStoreIs
<1> HIDE DEF n
<1>11. /\ M \in Seq(Nodes \cup {Freed}) /\ Len(M) = Len(nodes) /\ M[n] # Freed /\ M[n].command = Argument
       /\ M[n].bindings = nodes[n].bindings /\ \A m \in DOMAIN nodes: m # n => M[m] = nodes[m]
       /\ NP(M) = NP(nodes) \cup {NPtr(M, n)} /\ NPtr(M, n) \notin NP(nodes)
  BY <1>6, <1>9, NodePointersStored
<1> HIDE DEF M
<1> DEFINE p == NPtr(M, n)
<1>12. p.counted /\ p.call = Argument /\ p.from[1] = "node"
  <2>1. p.from = <<"node", n, 1>> /\ p.call = M[n].command /\ p.counted
    BY NPtrIs
  <2>2. p.from[1] = "node"
    BY <2>1
  <2> QED BY <1>11, <2>1, <2>2
<1> HIDE DEF p
<1>13. p \notin Held(nodes, unbound, heap, stack)
  BY <1>11, <1>12, KindsApart DEF p
<1>14. /\ HeapOK(heap') /\ Len(heap') = Len(heap) /\ Later(heap, heap') /\ KP(heap') = KP(heap)
       /\ Pointed(heap', Held(nodes, unbound, heap, stack) \cup {p}, {}, unbinds)
  BY <1>1, <1>9, <1>12, <1>13, ArgumentReferenced
<1>15. TreeOK(M)
  <2>1. SameTree(nodes, M)
    BY <1>6, <1>9, <1>11 DEF SameTree
  <2> QED BY <1>4, <2>1, StoredTree
<1>16. NodesOK(M)
  BY <1>15, TreeNodes
<1>17. Held(M, unbound, heap', stack) = Held(nodes, unbound, heap, stack) \cup {p}
  BY <1>11, <1>14 DEF Held, p
<1>18. nodes' = M /\ releases' = {} /\ unbound' = unbound /\ stack' = stack /\ unbinds' = unbinds
       /\ current_binding' = current_binding
  BY <1>1 DEF M
<1>19. DataInv'
  <2>1. DOMAIN unbound = Types
    BY DEF SafeInv, DataInv
  <2> QED BY <1>14, <1>16, <1>17, <1>18, <2>1 DEF DataInv
<1>20. ctl' \in [at: Places, call: 1..Len(heap) \cup {Null}] /\ ctl'.at = "return"
  BY <1>1 DEF At, Places
<1>21. PlaceOK(heap', nodes', unbound', ctl', stack')
  <2>1. ctl'.at \in {"poll", "lines", "call", "return"} /\ (stack' = <<>> <=> ctl'.at = "poll")
        /\ ~(ctl'.at = "call") /\ ~(ctl'.at = "lines")
    BY <1>4, <1>18, <1>20
  <2> QED BY ONLY <2>1, PlainPlace
<1>22. ControlInv'
  <2>1. Len(nodes') = Len(nodes)
    BY <1>11, <1>18
  <2> QED BY <1>3, <1>4, <1>6, <1>14, <1>15, <1>18, <1>20, <1>21, <2>1, ControlMoved
<1> QED BY <1>19, <1>22 DEF SafeInv

\* What unbound does in a pass for one type: the old command is to be released.
LEMMA UnboundReleaseSafe ==
  ASSUME SafeInv, UnboundRelease, releases = {}
  PROVE  SafeInv'
<1> DEFINE t == Head(Top.types)
<1> DEFINE V == [unbound EXCEPT ![t] = Null]
<1> DEFINE R == TPOf(unbound, {t})
<1>1. /\ ctl.at = "types" /\ releases' = R /\ unbound' = V /\ ctl' = [ctl EXCEPT !.at = "store"]
      /\ UNCHANGED <<heap, nodes, current_binding, stack, unbinds>>
  <2>1. TypePointers({t}) = TPOf(unbound, {t})
    BY PointersDef
  <2> QED BY <2>1 DEF UnboundRelease
<1>2. ctl.at \notin {"fault", "exited"} /\ Executing(ctl)
  BY <1>1 DEF Executing
<1>3. /\ TreeOK(nodes) /\ stack \in Seq(FramesOf(Len(heap), Len(nodes))) /\ StackOK(stack, heap)
      /\ ctl \in [at: Places, call: 1..Len(heap) \cup {Null}]
      /\ ctl.call \in 1..Len(heap) /\ PlaceOK(heap, nodes, unbound, ctl, stack) /\ stack # <<>>
  BY <1>1, <1>2, RunningIs
<1>4. Top = stack[1] /\ Top \in FramesOf(Len(heap), Len(nodes)) /\ Top.fn = "types"
  <2>1. stack[1].fn = "types"
    BY <1>1, <1>3 DEF PlaceOK
  <2> QED BY <1>2, <1>3, <2>1, TopIsKnown
<1>5. t \in Types
  <2>1. Top.types \in Seq(Types) \ {<<>>}
    BY <1>4, FrameIs
  <2> QED BY <2>1, Popped
<1>6. /\ HeapOK(heap) /\ NodesOK(nodes) /\ DOMAIN unbound = Types
      /\ Pointed(heap, Held(nodes, unbound, heap, stack), {}, unbinds)
  BY DEF SafeInv, DataInv
<1>7. TP(unbound) = TP(V) \cup R /\ TP(V) \cap R = {}
  BY <1>5, <1>6, TypePointersCleared
<1>8. DOMAIN V = Types /\ V[t] = Null
  BY <1>5, <1>6
<1>9. \A p \in R: p.from[1] = "type"
  BY KindIs
<1> HIDE DEF V, R
<1>10. Pointed(heap, Held(nodes, V, heap, stack), R, unbinds)
  <2> DEFINE P == Held(nodes, unbound, heap, stack)
  <2> DEFINE Q == Held(nodes, V, heap, stack)
  <2>1. P = Q \cup R
    BY <1>7 DEF Held
  <2>2. Q \cap R = {}
    <3>1. ASSUME NEW p \in R PROVE p \notin Q
      BY <1>7, <1>9, KindsApart
    <3> QED BY <3>1
  <2>3. Pointed(heap, P, {}, unbinds)
    BY <1>6
  <2> HIDE DEF P, Q
  <2>4. Pointed(heap, Q, R, unbinds)
    BY <2>1, <2>2, <2>3, Regrouped
  <2> QED BY <2>4 DEF Q
<1>11. nodes' = nodes /\ releases' = R /\ heap' = heap /\ unbound' = V /\ current_binding' = current_binding
       /\ stack' = stack /\ unbinds' = unbinds
  BY <1>1 DEF V, R
<1>12. DataInv'
  BY <1>6, <1>8, <1>10, <1>11 DEF DataInv
<1>13. ctl' \in [at: Places, call: 1..Len(heap) \cup {Null}] /\ ctl'.at = "store" /\ ctl'.call = ctl.call
  BY <1>1, <1>3 DEF Places
<1>14. PlaceOK(heap, nodes, V, ctl', stack)
  <2>1. V[Head(stack[1].types)] = Null
    BY <1>4, <1>8
  <2>2. heap[ctl.call] # Freed => Program[heap[ctl.call].text].op = "unbound"
    BY <1>1, <1>3 DEF PlaceOK
  <2>3. ctl.call # Null
    BY <1>2, <1>3 DEF PlaceOK
  <2> QED BY <1>3, <1>4, <1>13, <2>1, <2>2, <2>3 DEF PlaceOK, Executing
<1>15. Len(heap) \in Nat /\ Len(nodes) \in Nat
  BY HeldIs DEF SafeInv
<1>16. Later(heap, heap)
  BY <1>15 DEF Later
<1>17. ControlInv'
  BY <1>2, <1>3, <1>11, <1>13, <1>14, <1>15, <1>16, ControlMoved
<1> QED BY <1>12, <1>17 DEF SafeInv

\* The rest of a pass of unbound: the argument is stored, and the next type is due.
LEMMA UnboundStoreSafe ==
  ASSUME SafeInv, UnboundStore, UNCHANGED releases, releases = {}
  PROVE  SafeInv'
<1> DEFINE t == Head(Top.types)
<1> DEFINE V == [unbound EXCEPT ![t] = Argument]
<1> DEFINE f == [Top EXCEPT !.types = Tail(@)]
<1>1. /\ ctl.at = "store" /\ ~ArgumentFreed /\ nodes' = nodes /\ current_binding' = current_binding
      /\ unbinds' = unbinds /\ releases' = {} /\ releases = {}
  BY DEF UnboundStore
<1>2. \/ UNCHANGED <<heap, unbound>>
      \/ Reference(Argument) /\ unbound' = V
  BY DEF UnboundStore
<1>3. \/ Len(Top.types) = 1 /\ ctl' = At("return") /\ stack' = Tail(stack)
      \/ Len(Top.types) # 1 /\ ctl' = [ctl EXCEPT !.at = "types"] /\ stack' = <<f>> \o Tail(stack)
  BY DEF UnboundStore, Pop
<1>4. ctl.at \notin {"fault", "exited"} /\ Executing(ctl)
  BY <1>1 DEF Executing
<1>5. /\ TreeOK(nodes) /\ stack \in Seq(FramesOf(Len(heap), Len(nodes))) /\ StackOK(stack, heap)
      /\ ctl \in [at: Places, call: 1..Len(heap) \cup {Null}]
      /\ ctl.call \in 1..Len(heap) /\ PlaceOK(heap, nodes, unbound, ctl, stack) /\ stack # <<>>
      /\ ctl.call # Null
  BY <1>1, <1>4, RunningIs
<1>6. Top = stack[1] /\ Top \in FramesOf(Len(heap), Len(nodes)) /\ Top.fn = "types"
  <2>1. stack[1].fn = "types"
    BY <1>1, <1>5 DEF PlaceOK
  <2> QED BY <1>4, <1>5, <2>1, TopIsKnown
<1>7. /\ Top \in [fn: {"types"}, call: 1..Len(heap), types: Seq(Types) \ {<<>>}]
      /\ Top.types \in Seq(Types) \ {<<>>}
  BY <1>6, FrameIs
<1>8. t \in Types
  BY <1>7, Popped
<1>9. heap[ctl.call] # Freed /\ Command = Program[heap[ctl.call].text]
  BY <1>1 DEF ArgumentFreed, Command
<1>10. Command.op \in {"bind", "unbound"} /\ unbound[t] = Null
  BY <1>1, <1>5, <1>6, <1>9 DEF PlaceOK
<1>11. /\ HeapOK(heap) /\ NodesOK(nodes) /\ DOMAIN unbound = Types /\ Len(heap) \in Nat /\ Len(nodes) \in Nat
       /\ Pointed(heap, Held(nodes, unbound, heap, stack), {}, unbinds)
  <2>1. HeapOK(heap) /\ NodesOK(nodes) /\ DOMAIN unbound = Types
        /\ Pointed(heap, Held(nodes, unbound, heap, stack), releases, unbinds)
    BY DEF SafeInv, DataInv
  <2>2. Len(heap) \in Nat /\ Len(nodes) \in Nat
    BY HeldIs DEF SafeInv
  <2> QED BY <1>1, <2>1, <2>2
<1>12. /\ HeapOK(heap') /\ Len(heap') = Len(heap) /\ Later(heap, heap') /\ DOMAIN unbound' = Types
       /\ Pointed(heap', Held(nodes, unbound', heap', stack), {}, unbinds)
  <2>1. CASE UNCHANGED <<heap, unbound>>
    <3>1. heap' = heap /\ unbound' = unbound
      BY <2>1
    <3>2. Later(heap, heap)
      BY <1>11 DEF Later
    <3> QED BY <1>11, <3>1, <3>2
  <2>2. CASE Reference(Argument) /\ unbound' = V
    <3> DEFINE p == TPtr(V, t)
    <3>1. Argument \in Nat /\ Argument # Null
      <4>1. Argument = heap[ctl.call].kids[1] /\ heap[ctl.call] # Freed
        BY <1>9 DEF Argument
      <4>2. 1 \in 1..Len(heap[ctl.call].kids) /\ Argument \in 1..Len(heap)
        BY <1>5, <1>9, <1>10, <4>1, GroupKids
      <4> QED BY <1>11, <4>2, NoAddressAssumption
    <3>2. /\ TP(V) = TP(unbound) \cup {p} /\ p \notin TP(unbound) /\ V[t] = Argument
      BY <1>8, <1>10, <1>11, <3>1, TypePointersStored
    <3>3. DOMAIN V = Types
      BY <1>11
    <3> HIDE DEF V
    <3>4. p.from = <<"type", t, 1>> /\ p.call = V[t] /\ p.counted
      BY TPtrIs
    <3>5. p.from[1] = "type"
      BY <3>4
    <3>6. p.counted /\ p.call = Argument
      BY <3>2, <3>4
    <3> HIDE DEF p
    <3>7. p \notin Held(nodes, unbound, heap, stack)
      BY <3>2, <3>5, KindsApart
    <3>8. /\ HeapOK(heap') /\ Len(heap') = Len(heap) /\ Later(heap, heap') /\ KP(heap') = KP(heap)
          /\ Pointed(heap', Held(nodes, unbound, heap, stack) \cup {p}, {}, unbinds)
      BY <1>1, <1>5, <1>10, <2>2, <3>6, <3>7, ArgumentReferenced
    <3>9. Held(nodes, V, heap', stack) = Held(nodes, unbound, heap, stack) \cup {p}
      BY <3>2, <3>8 DEF Held
    <3>10. unbound' = V
      BY <2>2
    <3> QED BY <3>3, <3>8, <3>9, <3>10
  <2> QED BY <1>2, <2>1, <2>2
<1> HIDE DEF V
<1>13. /\ stack' \in Seq(FramesOf(Len(heap), Len(nodes))) /\ StackOK(stack', heap) /\ stack' # <<>>
       /\ FP(stack') = FP(stack) /\ stack'[Len(stack')].fn = stack[Len(stack)].fn
       /\ ctl' \in [at: Places, call: 1..Len(heap) \cup {Null}] /\ ctl'.at # "exited"
       /\ PlaceOK(heap', nodes', unbound', ctl', stack')
  <2>1. CASE Len(Top.types) = 1 /\ ctl' = At("return") /\ stack' = Tail(stack)
    <3>1. ~IsBottom(Top) /\ Top.fn # "conf"
      BY <1>6 DEF IsBottom
    <3>2. /\ stack' \in Seq(FramesOf(Len(heap), Len(nodes))) /\ StackOK(stack', heap) /\ FP(stack') = FP(stack)
          /\ stack' # <<>>
          /\ stack'[Len(stack')] = stack[Len(stack)]
      BY <1>4, <1>5, <2>1, <3>1, PoppedFrame
    <3>3. ctl' \in [at: Places, call: 1..Len(heap) \cup {Null}] /\ ctl'.at = "return"
      BY <2>1 DEF At, Places
    <3>4. PlaceOK(heap', nodes', unbound', ctl', stack')
      <4>1. ctl'.at \in {"poll", "lines", "call", "return"} /\ (stack' = <<>> <=> ctl'.at = "poll")
            /\ ~(ctl'.at = "call") /\ ~(ctl'.at = "lines")
        BY <3>2, <3>3
      <4> QED BY ONLY <4>1, PlainPlace
    <3> QED BY <3>2, <3>3, <3>4
  <2>2. CASE Len(Top.types) # 1 /\ ctl' = [ctl EXCEPT !.at = "types"] /\ stack' = <<f>> \o Tail(stack)
    <3> DEFINE types == Top.types
    <3>1. Tail(types) \in Seq(Types) \ {<<>>}
      <4>1. types \in Seq(Types) /\ types # <<>> /\ Len(types) # 1
        BY <1>7, <2>2
      <4> HIDE DEF types
      <4>2. Tail(types) \in Seq(Types) /\ (Tail(types) = <<>> <=> Len(types) = 1)
        BY <4>1, Popped
      <4> QED BY <4>1, <4>2
    <3>2. f \in [fn: {"types"}, call: 1..Len(heap), types: Seq(Types) \ {<<>>}] /\ f.fn = "types"
          /\ f.call = Top.call
      BY <1>6, <1>7, <3>1
    <3>3. f \in FramesOf(Len(heap), Len(nodes)) /\ f.fn = Top.fn /\ f.fn # "conf"
      BY <1>6, <3>2 DEF FramesOf
    <3>4. stack' = <<f>> \o Tail(stack)
      BY <2>2
    <3> HIDE DEF f
    <3>5. /\ stack' \in Seq(FramesOf(Len(heap), Len(nodes))) /\ StackOK(stack', heap)
          /\ stack' # <<>> /\ stack'[1] = f /\ FP(stack') = FP(stack)
          /\ stack'[Len(stack')].fn = stack[Len(stack)].fn
      BY <1>4, <1>5, <3>2, <3>3, <3>4, ReplacedFrame
    <3>6. ctl' \in [at: Places, call: 1..Len(heap) \cup {Null}] /\ ctl'.at = "types" /\ ctl'.call = ctl.call
      BY <1>5, <2>2 DEF Places
    <3>7. PlaceOK(heap', nodes', unbound', ctl', stack')
      <4>1. heap'[ctl.call] # Freed => heap'[ctl.call].text = heap[ctl.call].text
        BY <1>5, <1>12 DEF Later
      <4>2. Program[heap[ctl.call].text].op = "unbound"
        BY <1>1, <1>5, <1>9 DEF PlaceOK
      <4>3. heap'[ctl'.call] # Freed => Program[heap'[ctl'.call].text].op = "unbound"
        BY <3>6, <4>1, <4>2
      <4> QED BY <1>5, <3>2, <3>5, <3>6, <4>3 DEF PlaceOK, Executing
    <3> QED BY <3>5, <3>6, <3>7
  <2> QED BY <1>3, <2>1, <2>2
<1>14. DataInv'
  <2>1. Held(nodes', unbound', heap', stack') = Held(nodes, unbound', heap', stack)
    BY <1>1, <1>13 DEF Held
  <2> QED BY <1>1, <1>11, <1>12, <2>1 DEF DataInv
<1>15. ControlInv'
  BY <1>1, <1>4, <1>5, <1>11, <1>12, <1>13, ControlMoved
<1> QED BY <1>14, <1>15 DEF SafeInv

\* unbind with the keys that it sees, which leads to a node: seen are these keys, frees
\* says whether the command is freed, W is what has gone wrong before and V after it.
Unbound(N, M, R, keys, seen, frees, W, V) ==
  /\ seen \in Seq(Keys) /\ seen # <<>> /\ frees \in BOOLEAN
  /\ FoundOf(N, seen) # Null /\ M = UnbindOf(N, seen, frees) /\ R = NPOf(N, {FoundOf(N, seen)})
  /\ W \subseteq V
  /\ "size" \notin V => seen = keys
  /\ "lost" \notin V => LostIn(N, seen) = {}
  /\ "shared" \notin V => Len(seen) > 1 \/ frees \/ CommandOf(N, seen) = Null

\* The keys that unbind sees are keys.
LEMMA SeenAre ==
  ASSUME NEW keys \in Seq(Keys), NEW seen \in SeenKeys(keys)
  PROVE  seen \in Seq(Keys) /\ seen # <<>>
<1>1. CASE \E size \in 1..Len(keys): seen = SubSeq(keys, 1, size)
  <2>1. PICK size \in 1..Len(keys): seen = SubSeq(keys, 1, size)
    BY <1>1
  <2>2. seen \in Seq(Keys) /\ Len(seen) = size
    BY <2>1
  <2> QED BY <2>1, <2>2
<1>2. CASE \E k \in Keys: seen = Append(keys, k)
  <2>1. PICK k \in Keys: seen = Append(keys, k)
    BY <1>2
  <2>2. seen \in Seq(Keys) /\ Len(seen) = Len(keys) + 1 /\ Len(keys) \in Nat
    BY <2>1
  <2> QED BY <2>2
<1> QED BY <1>1, <1>2 DEF SeenKeys

\* What unbind does when it finds its keys is what Unbound says.
LEMMA UnbindFindsIs ==
  ASSUME Command.keys \in Seq(Keys), UnbindFinds, TreeOK(nodes)
  PROVE  \E seen, frees: Unbound(nodes, nodes', releases', Command.keys, seen, frees, unbinds, unbinds')
<1> DEFINE keys == Command.keys
<1>1. PICK seen \in SeenKeys(keys):
        /\ Found(seen) # Null /\ releases' = NodePointers({Found(seen)}) /\ nodes' = UnbindNodes(seen)
        /\ unbinds' = unbinds \cup Wrong(keys, seen)
  BY DEF UnbindFinds
<1> DEFINE frees == Frees(seen)
<1>2. seen \in Seq(Keys) /\ seen # <<>>
  BY SeenAre
<1>3. frees \in BOOLEAN
  BY DEF Frees
<1>4. Found(seen) = FoundOf(nodes, seen) /\ CommandAt(seen) = CommandOf(nodes, seen)
      /\ UnbindNodes(seen) = UnbindOf(nodes, seen, frees) /\ Deleted(seen) = DeletedOf(nodes, seen)
      /\ Way(seen) = WayOf(nodes, seen)
  BY FoundDef, UnbindDef, WayDef
<1>5. NodePointers({Found(seen)}) = NPOf(nodes, {FoundOf(nodes, seen)})
  BY <1>4, PointersDef
<1> DEFINE Lost == {i \in Deleted(seen):
                      \/ i < Len(seen) /\ nodes[Way(seen)[i]].command # Null
                      \/ i = Len(seen) /\ Opened(Way(seen)[i]) # Null}
<1>6. Wrong(keys, seen) =
        (IF keys # seen THEN {"size"} ELSE {})
          \cup (IF Len(seen) = 1 /\ CommandAt(seen) # Null /\ ~Frees(seen) THEN {"shared"} ELSE {})
          \cup (IF Lost # {} THEN {"lost"} ELSE {})
  BY DEF Wrong
<1>7. LostIn(nodes, seen) \subseteq Lost
  <2>1. ASSUME NEW i \in DeletedOf(nodes, seen), i = Len(seen),
               \E k \in Keys: nodes[WayOf(nodes, seen)[i]].bindings[k] # Null
        PROVE  Opened(Way(seen)[i]) # Null
    <3>1. WayOf(nodes, seen)[i] # Null
      <4>1. i \in 0..Len(seen)
        BY <1>2, <2>1
      <4> QED BY <1>1, <1>2, <1>4, <4>1, NodesOnWay
    <3> QED BY <1>4, <2>1, <3>1 DEF Opened
  <2> QED BY <1>4, <2>1 DEF LostIn
<1> HIDE DEF Lost, frees
<1>8. Len(seen) \in Nat /\ Len(seen) # 0
  BY <1>2
<1>9. "lost" \notin unbinds' => LostIn(nodes, seen) = {}
  BY <1>1, <1>6, <1>7
<1>10. "shared" \notin unbinds' => Len(seen) > 1 \/ frees \/ CommandOf(nodes, seen) = Null
  <2> DEFINE n == Len(seen)
  <2>1. "shared" \notin unbinds' => ~(n = 1 /\ CommandAt(seen) # Null /\ ~Frees(seen))
    BY <1>1, <1>6
  <2>2. n \in Nat /\ n # 0
    BY <1>8
  <2> HIDE DEF n
  <2>3. "shared" \notin unbinds' => n > 1 \/ CommandAt(seen) = Null \/ Frees(seen)
    BY <2>1, <2>2
  <2> QED BY <1>4, <2>3 DEF frees, n
<1>11. "size" \notin unbinds' => seen = keys
  BY <1>1, <1>6
<1>12. FoundOf(nodes, seen) # Null /\ nodes' = UnbindOf(nodes, seen, frees)
       /\ releases' = NPOf(nodes, {FoundOf(nodes, seen)}) /\ unbinds \subseteq unbinds'
  BY <1>1, <1>4, <1>5
<1> HIDE DEF keys
<1>13. Unbound(nodes, nodes', releases', keys, seen, frees, unbinds, unbinds')
  BY <1>2, <1>3, <1>9, <1>10, <1>11, <1>12 DEF Unbound
<1> QED BY <1>13 DEF keys

\* The invariant is kept by unbind, also when it goes wrong.
LEMMA CallUnbindSafe ==
  ASSUME SafeInv, CallUnbind, releases = {}
  PROVE  SafeInv'
<1>1. /\ Calling("unbind") /\ heap' = heap /\ unbound' = unbound /\ stack' = stack
      /\ current_binding' = current_binding /\ unbinds \subseteq unbinds'
      /\ \/ UnbindFinds /\ ctl' = At("return")
         \/ ctl' = At("return") /\ releases' = releases /\ nodes' = nodes
         \/ ctl' = Fault /\ releases' = releases /\ nodes' = nodes
  BY DEF CallUnbind, UnbindFinds, UnbindFindsNothing
<1>2. /\ ctl.at = "call" /\ Command.op = "unbind" /\ WellFormed(Command) /\ stack # <<>>
  BY <1>1, CalledIs
<1>3. ctl.at \notin {"fault", "exited"}
  BY <1>2
<1>4. /\ TreeOK(nodes) /\ stack \in Seq(FramesOf(Len(heap), Len(nodes))) /\ StackOK(stack, heap)
      /\ current_binding \in 1..Len(nodes) \cup {Null}
  BY <1>3, RunningIs
<1>5. ctl' = At("return") => ctl' \in [at: Places, call: 1..Len(heap) \cup {Null}] /\ ctl'.at = "return"
  BY DEF At, Places
<1>6. ASSUME ctl' = At("return") PROVE \A N: PlaceOK(heap, N, unbound, ctl', stack)
  <2> TAKE N
  <2>1. ctl'.at \in {"poll", "lines", "call", "return"} /\ (stack = <<>> <=> ctl'.at = "poll")
        /\ ~(ctl'.at = "call") /\ ~(ctl'.at = "lines")
    BY <1>2, <1>5, <1>6
  <2> QED BY ONLY <2>1, PlainPlace
<1>7. CASE ctl' = At("return") /\ releases' = releases /\ nodes' = nodes
  <2>1. PlaceOK(heap, nodes, unbound, ctl', stack')
    BY <1>1, <1>6, <1>7
  <2>3. FP(stack') = FP(stack) /\ StackOK(stack', heap) /\ stack' \in Seq(FramesOf(Len(heap), Len(nodes)))
        /\ current_binding' \in 1..Len(nodes) \cup {Null}
    BY <1>1, <1>4
  <2> QED BY <1>1, <1>3, <1>5, <1>7, <2>1, <2>3, ControlKept
<1>8. CASE ctl' = Fault /\ releases' = releases /\ nodes' = nodes
  BY <1>1, <1>8, FaultSafe
<1>9. CASE UnbindFinds /\ ctl' = At("return")
  <2> DEFINE M == nodes'
  <2> DEFINE R == releases'
  <2> DEFINE V == unbinds'
  <2>1. Command.keys \in Seq(Keys)
    BY <1>2, WellFormedIs
  <2>2. PICK seen, frees: Unbound(nodes, M, R, Command.keys, seen, frees, unbinds, V)
    BY <1>4, <1>9, <2>1, UnbindFindsIs
  <2> HIDE DEF M, R, V
  <2>3. seen \in Seq(Keys) /\ seen # <<>> /\ frees \in BOOLEAN /\ FoundOf(nodes, seen) # Null
        /\ M = UnbindOf(nodes, seen, frees) /\ R = NPOf(nodes, {FoundOf(nodes, seen)})
    BY <2>2 DEF Unbound
  <2>4. TreeOK(M)
    BY <1>4, <2>3, UnbindTree
  <2>5. Len(M) = Len(nodes) /\ Len(nodes) \in Nat /\ Len(heap) \in Nat
    <3>1. Pruned(nodes, seen, frees, M, GoneOf(nodes, seen))
      BY <1>4, <2>3, UnbindIs
    <3>2. Len(nodes) \in Nat /\ Len(heap) \in Nat
      BY HeldIs DEF SafeInv
    <3> QED BY <3>1, <3>2 DEF Pruned
  <2>6. /\ NP(M) \subseteq NP(nodes) /\ R \subseteq NP(nodes)
        /\ LostIn(nodes, seen) = {} => NP(nodes) = NP(M) \cup R
        /\ Len(seen) > 1 \/ frees \/ CommandOf(nodes, seen) = Null => NP(M) \cap R = {}
    BY <1>4, <2>3, UnbindPointers
  <2> DEFINE P == Held(nodes, unbound, heap, stack)
  <2> DEFINE Q == Held(M, unbound, heap, stack)
  <2>7. /\ Q \cup R \subseteq P
        /\ LostIn(nodes, seen) = {} => Q \cup R = P
    BY <2>6 DEF Held
  <2>8. NP(M) \cap R = {} => Q \cap R = {}
    <3>1. \A p \in R: p.from[1] = "node"
      BY <2>3, KindIs
    <3> QED BY <3>1, KindsApart
  <2>9. HeapOK(heap) /\ DOMAIN unbound = Types /\ Pointed(heap, P, {}, unbinds)
    BY DEF SafeInv, DataInv
  <2> HIDE DEF P, Q
  <2>10. Sound(heap, P) /\ ("shared" \notin unbinds => Safe(heap, P))
         /\ ("shared" \notin unbinds /\ "lost" \notin unbinds => Exact(heap, P))
    <3>1. P \cup {} = P
      OBVIOUS
    <3> QED BY <2>9, <3>1 DEF Pointed
  <2>11. Sound(heap, Q \cup R) /\ (Safe(heap, P) => Safe(heap, Q \cup R))
    <3>1. heap \in Seq(Objects \cup {Freed})
      BY <2>9 DEF HeapOK
    <3> QED BY <2>7, <2>10, <3>1, Fewer
  <2>12. Pointed(heap, Q, R, V)
    <3>1. unbinds \subseteq V /\ ("lost" \notin V => LostIn(nodes, seen) = {})
          /\ ("shared" \notin V => Len(seen) > 1 \/ frees \/ CommandOf(nodes, seen) = Null)
      BY <2>2 DEF Unbound
    <3>2. "shared" \notin V => Q \cap R = {} /\ Safe(heap, Q \cup R)
      BY <2>6, <2>8, <2>10, <2>11, <3>1
    <3>3. "shared" \notin V /\ "lost" \notin V => Exact(heap, Q \cup R)
      BY <2>7, <2>10, <3>1
    <3> QED BY <2>11, <3>2, <3>3 DEF Pointed
  <2>13. NodesOK(M)
    BY <2>4, TreeNodes
  <2>14. nodes' = M /\ releases' = R /\ unbinds' = V
    BY DEF M, R, V
  <2>15. DataInv'
    BY <1>1, <2>9, <2>12, <2>13, <2>14 DEF DataInv, Q
  <2>16. PlaceOK(heap', nodes', unbound', ctl', stack')
    BY <1>1, <1>6, <1>9
  <2>17. Later(heap, heap)
    BY <2>5 DEF Later
  <2>18. ControlInv'
    BY <1>1, <1>2, <1>3, <1>4, <1>5, <1>9, <2>4, <2>5, <2>14, <2>16, <2>17, ControlMoved
  <2> QED BY <2>15, <2>18 DEF SafeInv
<1> QED BY <1>1, <1>7, <1>8, <1>9

\* At the end all pointers of the nodes that are found and of the unbound fields are
\* to be released.
LEMMA ContextFreeSafe ==
  ASSUME SafeInv, ContextFree, releases = {}
  PROVE  SafeInv'
<1> DEFINE S == Reachable
<1> DEFINE M == [n \in DOMAIN nodes |-> IF n \in S THEN Freed ELSE nodes[n]]
<1> DEFINE V == [t \in Types |-> Null]
<1> DEFINE A == NPOf(nodes, S)
<1>1. /\ ctl.at = "poll" /\ releases' = A \cup TP(unbound) /\ nodes' = M /\ unbound' = V /\ ctl' = At("exited")
      /\ heap' = heap /\ current_binding' = current_binding /\ stack' = stack /\ unbinds' = unbinds
  <2>1. NodePointers(S) = NPOf(nodes, S) /\ TypePointers(Types) = TPOf(unbound, Types)
    BY PointersDef
  <2> QED BY <2>1 DEF ContextFree, TP
<1>2. S \subseteq DOMAIN nodes
  BY DEF Reachable
<1> HIDE DEF S
<1>3. /\ HeapOK(heap) /\ NodesOK(nodes) /\ DOMAIN unbound = Types
      /\ Pointed(heap, Held(nodes, unbound, heap, stack), {}, unbinds)
  BY DEF SafeInv, DataInv
<1>4. /\ nodes \in Seq(Nodes \cup {Freed}) /\ Len(nodes) \in Nat \ {0} /\ DOMAIN nodes = 1..Len(nodes)
      /\ Len(heap) \in Nat
  BY HeldIs DEF SafeInv
<1>5. /\ M \in Seq(Nodes \cup {Freed}) /\ Len(M) = Len(nodes) /\ DOMAIN M = DOMAIN nodes
      /\ \A n \in DOMAIN nodes: M[n] = IF n \in S THEN Freed ELSE nodes[n]
  <2> DEFINE m == Len(nodes)
  <2>1. m \in Nat /\ DOMAIN nodes = 1..m
    BY <1>4
  <2>2. \A n \in DOMAIN nodes: nodes[n] \in Nodes \cup {Freed}
    BY <1>4
  <2>3. M = [n \in 1..m |-> IF n \in S THEN Freed ELSE nodes[n]]
    BY <2>1
  <2> HIDE DEF m
  <2>4. M \in [1..m -> Nodes \cup {Freed}]
    BY <2>1, <2>2, <2>3
  <2>5. M \in Seq(Nodes \cup {Freed}) /\ Len(M) = m
    BY <2>1, <2>4, FunctionIsSeq
  <2> QED BY <2>1, <2>5 DEF m
<1> HIDE DEF M
<1>6. NodesOK(M)
  <2>1. ASSUME NEW n \in 1..Len(M), M[n] # Freed, NEW k \in Keys
        PROVE  M[n].bindings[k] \in {Null} \cup 1..Len(M)
    BY <1>3, <1>4, <1>5, <2>1 DEF NodesOK
  <2>2. M # <<>>
    BY <1>4, <1>5
  <2> QED BY <1>5, <2>1, <2>2 DEF NodesOK
<1>7. NP(nodes) = NP(M) \cup A /\ NP(M) \cap A = {}
  <2>1. \A n \in DOMAIN M: M[n] # Freed /\ M[n].command # Null =>
          n \in DOMAIN nodes /\ nodes[n] # Freed /\ M[n].command = nodes[n].command
    BY <1>5
  <2>2. \A n \in DOMAIN nodes: nodes[n] # Freed /\ nodes[n].command # Null /\ n \notin S =>
          n \in DOMAIN M /\ M[n] # Freed /\ M[n].command = nodes[n].command
    BY <1>5
  <2>3. \A n \in S: n \in DOMAIN M => M[n] = Freed \/ M[n].command = Null
    BY <1>2, <1>5
  <2> QED BY <1>2, <2>1, <2>2, <2>3, NodePointersMoved
<1>8. TP(V) = {} /\ DOMAIN V = Types
  BY DEF TP, TPOf
<1>9. (\A p \in A: p.from[1] = "node") /\ (\A p \in TP(unbound): p.from[1] = "type")
  BY KindIs DEF TP
<1> DEFINE R == A \cup TP(unbound)
<1> HIDE DEF V, A
<1>10. Pointed(heap, Held(M, V, heap, stack), R, unbinds)
  <2> DEFINE P == Held(nodes, unbound, heap, stack)
  <2> DEFINE Q == Held(M, V, heap, stack)
  <2>1. P = Q \cup R
    BY <1>7, <1>8 DEF Held
  <2>2. Q \cap R = {}
    <3>1. ASSUME NEW p \in A PROVE p \notin Q
      BY <1>7, <1>9, KindsApart
    <3>2. ASSUME NEW p \in TP(unbound) PROVE p \notin Q
      BY <1>8, <1>9, KindsApart
    <3> QED BY <3>1, <3>2
  <2>3. Pointed(heap, P, {}, unbinds)
    BY <1>3
  <2> HIDE DEF P, Q, R
  <2>4. Pointed(heap, Q, R, unbinds)
    BY <2>1, <2>2, <2>3, Regrouped
  <2> QED BY <2>4 DEF Q, R
<1>11. nodes' = M /\ releases' = R /\ unbound' = V
  BY <1>1 DEF M, V, A
<1> HIDE DEF R
<1>12. DataInv'
  BY <1>1, <1>3, <1>6, <1>8, <1>10, <1>11 DEF DataInv
<1>13. ctl' \in [at: Places, call: 1..Len(heap) \cup {Null}] /\ ctl'.at = "exited"
  BY <1>1 DEF At, Places
<1>14. /\ stack = <<>> /\ stack \in Seq(FramesOf(Len(heap), Len(nodes))) /\ StackOK(stack, heap)
       /\ current_binding \in 1..Len(nodes) \cup {Null}
  BY <1>1, RunningIs
<1>15. PlaceOK(heap, M, V, ctl', stack)
  BY <1>13, <1>14 DEF PlaceOK, Executing
<1>16. ControlInv'
  <2>1. Len(nodes') = Len(nodes)
    BY <1>5, <1>11
  <2> QED BY <1>1, <1>11, <1>13, <1>14, <1>15, <2>1 DEF ControlInv
<1> QED BY <1>12, <1>16 DEF SafeInv

\* In the first state there is the root, and the lines at the start.
LEMMA InitSafe ==
  ASSUME Init
  PROVE  SafeInv
<1> DEFINE N == <<NewNode>>
<1> DEFINE U == [t \in Types |-> Null]
<1> DEFINE f == [fn |-> "lines", call |-> Null]
<1> DEFINE s == <<f>>
<1>1. /\ heap = <<>> /\ releases = {} /\ nodes = N /\ unbound = U /\ current_binding = Null
      /\ ctl = At("lines") /\ stack = s /\ unbinds = {}
  BY DEF Init
<1>2. NewNode \in Nodes /\ NewNode # Freed /\ NewNode.command = Null /\ \A k \in Keys: NewNode.bindings[k] = Null
  <2>1. NewNode \in Nodes
    BY DEF NewNode, Nodes
  <2>2. NewNode.command = Null /\ \A k \in Keys: NewNode.bindings[k] = Null
    BY DEF NewNode
  <2> QED BY <2>1, <2>2, NoAddressAssumption
<1>3. N \in Seq(Nodes \cup {Freed}) /\ Len(N) = 1 /\ DOMAIN N = 1..1 /\ N[1] = NewNode /\ N # <<>>
  BY <1>2
<1>4. \A n \in 1..1: n = 1
  OBVIOUS
<1>5. TreeOK(N)
  <2>1. LinksOK(N)
    BY <1>2, <1>3, <1>4 DEF LinksOK
  <2>2. ParentsOK(N)
    BY <1>2, <1>3, <1>4 DEF ParentsOK
  <2> QED BY <1>2, <1>3, <2>1, <2>2 DEF TreeOK, Root
<1>6. NodesOK(N)
  BY <1>5, TreeNodes
<1>7. NP(N) = {}
  BY <1>2, <1>3, <1>4 DEF NP, NPOf
<1>8. DOMAIN U = Types /\ TP(U) = {}
  BY DEF TP, TPOf
<1>9. s \in Seq(FramesOf(Len(<<>>), Len(N))) /\ Len(s) = 1 /\ s[1] = f /\ DOMAIN s = 1..1 /\ s # <<>>
  <2>1. f \in FramesOf(Len(<<>>), Len(N))
    BY DEF FramesOf
  <2> HIDE DEF f
  <2> QED BY <2>1
<1>10. f.fn = "lines" /\ f.call = Null /\ IsBottom(f)
  BY DEF IsBottom
<1> HIDE DEF N, U, f, s
<1>11. FP(s) = {}
  BY <1>4, <1>9, <1>10 DEF FP
<1>12. <<>> \in Seq(Objects \cup {Freed}) /\ Len(<<>>) = 0 /\ 1..0 = {} /\ DOMAIN <<>> = {}
  OBVIOUS
<1>13. KP(<<>>) = {}
  BY <1>12 DEF KP
<1>14. HeapOK(<<>>)
  BY <1>12 DEF HeapOK
<1>15. Held(N, U, <<>>, s) = {}
  BY <1>7, <1>8, <1>11, <1>13 DEF Held
<1>16. Pointed(<<>>, {}, {}, {})
  <2>1. IsFiniteSet({}) /\ {} \cup {} = {}
    BY FS_EmptySet
  <2>2. Sound(<<>>, {}) /\ Safe(<<>>, {}) /\ Exact(<<>>, {})
    BY <1>12, <2>1 DEF Sound, Safe, Exact
  <2> QED BY <2>1, <2>2 DEF Pointed
<1>17. DataInv
  BY <1>1, <1>6, <1>8, <1>14, <1>15, <1>16 DEF DataInv
<1>18. ctl \in [at: Places, call: 1..Len(heap) \cup {Null}] /\ ctl.at = "lines"
  BY <1>1 DEF At, Places
<1>19. StackOK(s, heap)
  BY <1>4, <1>9, <1>10 DEF StackOK
<1>20. PlaceOK(heap, N, U, ctl, s)
  <2>1. /\ ctl.at \in {"poll", "lines", "call", "return"} /\ (s = <<>> <=> ctl.at = "poll")
        /\ (ctl.at = "lines" => s[1].fn = "lines") /\ (ctl.at = "call" => ctl.call # Null)
    BY <1>9, <1>10, <1>18
  <2> QED BY ONLY <2>1, PlainPlace
<1>22. ControlInv
  BY <1>1, <1>5, <1>9, <1>18, <1>19, <1>20 DEF ControlInv
<1> QED BY <1>17, <1>22 DEF SafeInv

-----------------------------------------------------------------------------
(* The types and the counts. *)

\* A step that keeps everything.
LEMMA SafeStutter ==
  ASSUME SafeInv, UNCHANGED vars
  PROVE  SafeInv'
<1>1. UNCHANGED <<heap, releases, nodes, unbound, current_binding, ctl, stack, unbinds>>
  BY DEF vars
<1>2. DataInv'
  BY <1>1 DEF SafeInv, DataInv
<1>3. ControlInv'
  BY <1>1 DEF SafeInv, ControlInv
<1> QED BY <1>2, <1>3 DEF SafeInv

\* Every step keeps the invariant.
LEMMA SafeStep ==
  ASSUME SafeInv, [Next]_vars
  PROVE  SafeInv'
<1>1. CASE releases # {} /\ Release
  BY <1>1, ReleaseSafe
<1>2. CASE releases = {} /\ Step /\ UNCHANGED releases
  <2>1. CASE ReadLine
    BY <1>2, <2>1, ReadLineSafe
  <2>2. CASE LinesEnd
    BY <1>2, <2>2, LinesEndSafe
  <2>3. CASE LineInvalid
    BY <1>2, <2>3, LineInvalidSafe
  <2>4. CASE HandleBound
    BY <1>2, <2>4, HandleBoundSafe
  <2>5. CASE HandleUnbound
    BY <1>2, <2>5, HandleUnboundSafe
  <2>18. CASE ReadKey
    BY <1>2, <2>18, ReadKeySafe
  <2>19. CASE HandleFreed
    BY <1>2, <2>19, HandleFreedSafe
  <2>20. CASE KeyReturn
    BY <1>2, <2>20, KeyReturnSafe
  <2>21. CASE CallRehandle
    BY <1>2, <2>21, CallRehandleSafe
  <2>6. CASE BindingRepeat
    BY <1>2, <2>6, BindingRepeatSafe
  <2>7. CASE BindingReturn
    BY <1>2, <2>7, BindingReturnSafe
  <2>8. CASE UnboundReturn
    BY <1>2, <2>8, UnboundReturnSafe
  <2>9. CASE CallFreed
    BY <1>2, <2>9, CallFreedSafe
  <2>10. CASE CallOther
    BY <1>2, <2>10, CallOtherSafe
  <2>11. CASE CallEvaluate
    BY <1>2, <2>11, CallEvaluateSafe
  <2>12. CASE CallGroup
    BY <1>2, <2>12, CallGroupSafe
  <2>13. CASE GroupReturn
    BY <1>2, <2>13, GroupReturnSafe
  <2>14. CASE BindStore
    BY <1>2, <2>14, BindStoreSafe
  <2>15. CASE CallUnbound
    BY <1>2, <2>15, CallUnboundSafe
  <2>16. CASE UnboundStore
    BY <1>2, <2>16, UnboundStoreSafe
  <2>17. CASE StoreFreed
    BY <1>2, <2>17, StoreFreedSafe
  <2> QED BY <1>2, <2>1, <2>2, <2>3, <2>4, <2>5, <2>6, <2>7, <2>8, <2>9, <2>10, <2>11, <2>12, <2>13,
             <2>14, <2>15, <2>16, <2>17, <2>18, <2>19, <2>20, <2>21 DEF Step
<1>3. CASE releases = {} /\ StepReleasing
  <2>1. CASE LineReturn
    BY <1>3, <2>1, LineReturnSafe
  <2>2. CASE CallBind
    BY <1>3, <2>2, CallBindSafe
  <2>3. CASE UnboundRelease
    BY <1>3, <2>3, UnboundReleaseSafe
  <2>4. CASE CallUnbind
    BY <1>3, <2>4, CallUnbindSafe
  <2>5. CASE ContextFree
    BY <1>3, <2>5, ContextFreeSafe
  <2> QED BY <1>3, <2>1, <2>2, <2>3, <2>4, <2>5 DEF StepReleasing
<1>4. CASE UNCHANGED vars
  BY <1>4, SafeStutter
<1>5. Stopped => UNCHANGED vars
  BY DEF Stopped
<1>6. \/ releases # {} /\ Release
      \/ releases = {} /\ Step /\ UNCHANGED releases
      \/ releases = {} /\ StepReleasing
      \/ UNCHANGED vars
  BY <1>5 DEF Next
<1> QED BY <1>1, <1>2, <1>3, <1>4, <1>6

\* The invariant from which the types and the counts follow: of the heap and its
\* pointers, of the tree of bindings, and of the stack.
THEOREM SafeAlways == Spec => []SafeInv
<1>1. Init => SafeInv
  BY InitSafe
<1>2. SafeInv /\ [Next]_vars => SafeInv'
  BY SafeStep
<1> QED BY <1>1, <1>2, PTL DEF Spec

\* The invariant implies the types.
LEMMA SafeTypes ==
  ASSUME SafeInv
  PROVE  TypeOK
<1>1. /\ heap \in Seq(Objects \cup {Freed}) /\ nodes \in Seq(Nodes \cup {Freed}) /\ DOMAIN unbound = Types
      /\ Len(nodes) \in Nat \ {0} /\ DOMAIN nodes = 1..Len(nodes)
  BY HeldIs DEF SafeInv, DataInv
<1>2. nodes # <<>> /\ \A n \in DOMAIN nodes: nodes[n] # Freed =>
        \A k \in Keys: nodes[n].bindings[k] \in {Null} \cup DOMAIN nodes
  BY <1>1 DEF SafeInv, DataInv, NodesOK
<1> DEFINE P == Held(nodes, unbound, heap, stack) \cup releases
<1>3. Sound(heap, P) /\ Pointers = P
  BY PointersDef DEF SafeInv, DataInv, Pointed
<1> HIDE DEF P
<1>4. (\A p \in Pointers: p.call \in Addresses) /\ \A a \in Addresses: Live(a) => heap[a].refcount >= 0
  BY <1>3 DEF Sound, Addresses, Live
<1>5. /\ current_binding \in DOMAIN nodes \cup {Null}
      /\ ctl \in [at: Places, call: Addresses \cup {Null}]
      /\ stack \in Seq(Frames)
  <2>1. Frames = FramesOf(Len(heap), Len(nodes))
    BY <1>1, FramesDef
  <2> QED BY <1>1, <2>1 DEF SafeInv, ControlInv, Addresses
<1> QED BY <1>1, <1>2, <1>4, <1>5 DEF TypeOK

\* The invariant implies that the counts are the references.
LEMMA SafeCounts ==
  ASSUME SafeInv
  PROVE  CountsAreReferences
<1> SUFFICES ASSUME unbinds = {} PROVE
      /\ \A a \in Addresses: Live(a) => heap[a].refcount = Cardinality(Counted(a))
      /\ \A p \in Pointers: /\ Live(p.call)
                            /\ ~p.counted => \A q \in Pointers: q.call = p.call => q = p
  BY DEF CountsAreReferences
<1> DEFINE P == Held(nodes, unbound, heap, stack) \cup releases
<1>1. Pointers = P /\ \A a: Counted(a) = CountedIn(P, a)
  BY PointersDef DEF CountedIn
<1>2. Sound(heap, P) /\ Safe(heap, P) /\ Exact(heap, P)
  BY DEF SafeInv, DataInv, Pointed
<1> HIDE DEF P
<1>3. ASSUME NEW a \in Addresses, Live(a) PROVE heap[a].refcount = Cardinality(Counted(a))
  BY <1>1, <1>2, <1>3 DEF Exact, Addresses, Live
<1>4. ASSUME NEW p \in Pointers
      PROVE  Live(p.call) /\ (~p.counted => \A q \in Pointers: q.call = p.call => q = p)
  BY <1>1, <1>2, <1>4 DEF Safe, Sound, Live
<1> QED BY <1>3, <1>4

\* The types, for every value of the constants: no pointer leads out of the heap and no
\* count falls below zero, whatever is bound, replaced, released and executed.
THEOREM TypeCorrect == Spec => []TypeOK
<1>1. SafeInv => TypeOK
  BY SafeTypes
<1> QED BY <1>1, SafeAlways, PTL

\* The counts of the commands are the numbers of the pointers that count, and none of
\* these leads to freed memory, as long as unbind has not gone wrong.
THEOREM CountsCorrect == Spec => []CountsAreReferences
<1>1. SafeInv => CountsAreReferences
  BY SafeCounts
<1> QED BY <1>1, SafeAlways, PTL
=============================================================================
