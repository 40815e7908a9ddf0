--------------------------- MODULE Config_proofs ---------------------------
(***************************************************************************)
(* Proofs about Config: what the functions of the parser do with the       *)
(* tokens of one lexer that they share, for every text, every number of    *)
(* nested commands, and every command table.                               *)
(*                                                                         *)
(* The argument: the words passed over so far are the words of the         *)
(* commands that were called, followed by those of each function on the    *)
(* stack, from the bottom to the top, followed by those of the command     *)
(* that is being returned, and by at most one token that was put back.     *)
(***************************************************************************)
EXTENDS Config, SequenceTheorems, TLAPS

-----------------------------------------------------------------------------
(* Sequences of anything, and the stack, whose top is its first element. *)

IsSeq(s) == \E S: s \in Seq(S)

\* The frame at depth d, counted from the bottom.
Depth(s, d) == s[Len(s) + 1 - d]

\* One element more at the end of a sequence.
LEMMA AppendIs ==
  ASSUME NEW s, IsSeq(s), NEW e
  PROVE  IsSeq(Append(s, e)) /\ Len(Append(s, e)) = Len(s) + 1 /\ Len(s) \in Nat
<1>1. PICK S: s \in Seq(S)
  BY DEF IsSeq
<1>2. s \in Seq(S \cup {e}) /\ e \in S \cup {e}
  BY <1>1
<1>3. Append(s, e) \in Seq(S \cup {e}) /\ Len(Append(s, e)) = Len(s) + 1
  BY <1>2
<1> QED BY <1>1, <1>3 DEF IsSeq

\* A frame on top of a stack.
LEMMA Pushed ==
  ASSUME NEW s, IsSeq(s), NEW f
  PROVE  LET t == <<f>> \o s IN
         /\ IsSeq(t) /\ Len(t) = Len(s) + 1 /\ Len(s) \in Nat
         /\ t # <<>> /\ Head(t) = f /\ t[1] = f /\ Tail(t) = s
         /\ \A i \in 1..Len(s): t[i + 1] = s[i]
         /\ \A d \in 1..Len(s): Depth(t, d) = Depth(s, d)
         /\ Depth(t, Len(s) + 1) = f
<1> DEFINE t == <<f>> \o s
<1>1. PICK S: s \in Seq(S)
  BY DEF IsSeq
<1>2. s \in Seq(S \cup {f}) /\ <<f>> \in Seq(S \cup {f}) /\ Len(<<f>>) = 1 /\ Len(s) \in Nat
  BY <1>1
<1>3. t \in Seq(S \cup {f}) /\ Len(t) = Len(s) + 1
  BY <1>2
<1>4. t[1] = f /\ \A i \in 1..Len(s): t[i + 1] = s[i]
  BY <1>2
<1>5. t # <<>> /\ Head(t) = f
  BY <1>2, <1>3, <1>4
<1> HIDE DEF t
<1>8. Tail(t) = s
  <2>1. Tail(t) \in Seq(S \cup {f}) /\ Len(Tail(t)) = Len(s)
    BY <1>2, <1>3, <1>5
  <2>2. \A i \in 1..Len(s): Tail(t)[i] = t[i + 1]
    BY <1>3, <1>5, <2>1
  <2> QED BY <1>2, <1>4, <2>1, <2>2, SeqEqual
<1>6. \A d \in 1..Len(s): Depth(t, d) = Depth(s, d)
  <2> SUFFICES ASSUME NEW d \in 1..Len(s) PROVE Depth(t, d) = Depth(s, d)
    OBVIOUS
  <2>1. Len(s) + 1 - d \in 1..Len(s) /\ Len(t) + 1 - d = (Len(s) + 1 - d) + 1
    BY <1>2, <1>3
  <2> QED BY <2>1, <1>4 DEF Depth
<1>7. Depth(t, Len(s) + 1) = f
  <2>1. Len(t) + 1 - (Len(s) + 1) = 1
    BY <1>2, <1>3
  <2> QED BY <2>1, <1>4 DEF Depth
<1> QED BY <1>2, <1>3, <1>4, <1>5, <1>6, <1>7, <1>8 DEF IsSeq, t

\* The stack without its top.
LEMMA Popped ==
  ASSUME NEW s, IsSeq(s), s # <<>>
  PROVE  /\ IsSeq(Tail(s)) /\ Len(s) \in Nat \ {0} /\ Len(Tail(s)) = Len(s) - 1
         /\ Head(s) = s[1]
         /\ \A i \in 1..Len(s) - 1: Tail(s)[i] = s[i + 1]
         /\ \A d \in 1..Len(s) - 1: Depth(Tail(s), d) = Depth(s, d)
         /\ Depth(s, Len(s)) = Head(s)
<1>1. PICK S: s \in Seq(S)
  BY DEF IsSeq
<1>2. Len(s) \in Nat \ {0} /\ Head(s) = s[1]
  BY <1>1
<1>3. Tail(s) \in Seq(S) /\ Len(Tail(s)) = Len(s) - 1
  BY <1>1
<1>4. \A i \in 1..Len(s) - 1: Tail(s)[i] = s[i + 1]
  BY <1>1, <1>3
<1>5. \A d \in 1..Len(s) - 1: Depth(Tail(s), d) = Depth(s, d)
  <2> SUFFICES ASSUME NEW d \in 1..Len(s) - 1 PROVE Depth(Tail(s), d) = Depth(s, d)
    OBVIOUS
  <2>1. /\ Len(Tail(s)) + 1 - d \in 1..Len(s) - 1
        /\ (Len(Tail(s)) + 1 - d) + 1 = Len(s) + 1 - d
    BY <1>2, <1>3
  <2> QED BY <2>1, <1>4 DEF Depth
<1>6. Depth(s, Len(s)) = Head(s)
  <2>1. Len(s) + 1 - Len(s) = 1
    BY <1>2
  <2> QED BY <2>1, <1>2 DEF Depth
<1> QED BY <1>2, <1>3, <1>4, <1>5, <1>6 DEF IsSeq

-----------------------------------------------------------------------------
(* Which words belong to whom. *)

\* The words w are in q from m to n.
Holds(q, m, n, w) ==
  n = m + Len(w) /\ \A j \in 1..Len(w): q[m + j] = w[j]

\* Up to n, q has the words h and then those of the frames of s, the lowest first.
Owned(q, h, s, n) ==
  \E cut \in [0..Len(s) -> Nat]:
    /\ cut[Len(s)] = n
    /\ \A i, j \in 0..Len(s): i <= j => cut[i] <= cut[j]
    /\ Holds(q, 0, cut[0], h)
    /\ \A d \in 1..Len(s): Holds(q, cut[d - 1], cut[d], Depth(s, d).words)

\* Words behind words.
LEMMA HoldsBoth ==
  ASSUME NEW q, NEW l \in Nat, NEW m \in Nat, NEW n \in Nat,
         NEW S, NEW v \in Seq(S), NEW w \in Seq(S),
         Holds(q, l, m, v), Holds(q, m, n, w)
  PROVE  Holds(q, l, n, v \o w)
<1>1. Len(v) \in Nat /\ Len(w) \in Nat /\ Len(v \o w) = Len(v) + Len(w)
  OBVIOUS
<1>2. n = l + Len(v \o w)
  BY <1>1 DEF Holds
<1>3. ASSUME NEW j \in 1..Len(v \o w) PROVE q[l + j] = (v \o w)[j]
  <2>1. CASE j <= Len(v)
    <3>1. j \in 1..Len(v)
      BY <1>1, <2>1
    <3>2. (v \o w)[j] = v[j]
      BY <3>1
    <3> QED BY <3>1, <3>2 DEF Holds
  <2>2. CASE j > Len(v)
    <3>1. j - Len(v) \in 1..Len(w) /\ m + (j - Len(v)) = l + j
      BY <1>1, <2>2 DEF Holds
    <3>2. (v \o w)[j] = w[j - Len(v)]
      BY <1>1, <2>2
    <3> QED BY <3>1, <3>2 DEF Holds
  <2> QED BY <1>1, <2>1, <2>2
<1> QED BY <1>2, <1>3 DEF Holds

\* One word more.
LEMMA HoldsOne ==
  ASSUME NEW S, NEW q, NEW l \in Nat, NEW m \in Nat, NEW v \in Seq(S), NEW e \in S,
         Holds(q, l, m, v), q[m + 1] = e
  PROVE  Holds(q, l, m + 1, Append(v, e))
<1>1. Len(v) \in Nat /\ Len(Append(v, e)) = Len(v) + 1 /\ Append(v, e)[Len(v) + 1] = e
  BY AppendProperties
<1>2. ASSUME NEW j \in 1..Len(v) + 1 PROVE q[l + j] = Append(v, e)[j]
  <2>1. CASE j \in 1..Len(v)
    BY <2>1 DEF Holds
  <2>2. CASE j = Len(v) + 1
    <3>1. l + j = m + 1
      BY <1>1, <2>2 DEF Holds
    <3> QED BY <1>1, <2>2, <3>1
  <2>3. j \in 1..Len(v) \/ j = Len(v) + 1
    BY <1>1
  <2> QED BY <2>1, <2>2, <2>3
<1>3. m + 1 = l + Len(Append(v, e))
  BY <1>1 DEF Holds
<1> QED BY <1>1, <1>2, <1>3 DEF Holds

\* Between a place and itself there is nothing.
LEMMA HoldsNothing ==
  ASSUME NEW q, NEW n \in Nat
  PROVE  Holds(q, n, n, <<>>)
<1>1. Len(<<>>) = 0
  OBVIOUS
<1> QED BY <1>1 DEF Holds

\* Only what is before n matters.
LEMMA HoldsStill ==
  ASSUME NEW q, NEW r, NEW m \in Nat, NEW n \in Nat, NEW k \in Nat, NEW w, IsSeq(w),
         Holds(q, m, n, w), n <= k, \A i \in 1..k: r[i] = q[i]
  PROVE  Holds(r, m, n, w)
<1>1. Len(w) \in Nat
  BY DEF IsSeq
<1>2. ASSUME NEW j \in 1..Len(w) PROVE r[m + j] = w[j]
  <2>1. m + j \in 1..k
    BY <1>1 DEF Holds
  <2> QED BY <2>1 DEF Holds
<1> QED BY <1>2 DEF Holds

-----------------------------------------------------------------------------

\* A frame is pushed, with the words behind those of the others.
LEMMA OwnedPush ==
  ASSUME NEW q, NEW h, NEW s, IsSeq(s), NEW f, IsSeq(f.words), NEW n \in Nat, NEW m \in Nat,
         Owned(q, h, s, n), Holds(q, n, m, f.words)
  PROVE  Owned(q, h, <<f>> \o s, m)
<1> DEFINE t == <<f>> \o s
           L == Len(s)
<1>1. /\ L \in Nat /\ Len(t) = L + 1
      /\ \A d \in 1..L: Depth(t, d) = Depth(s, d)
      /\ Depth(t, L + 1) = f
  BY Pushed
<1> HIDE DEF t
<1>2. PICK cut \in [0..L -> Nat]:
        /\ cut[L] = n
        /\ \A i, j \in 0..L: i <= j => cut[i] <= cut[j]
        /\ Holds(q, 0, cut[0], h)
        /\ \A d \in 1..L: Holds(q, cut[d - 1], cut[d], Depth(s, d).words)
  BY DEF Owned
<1>3. n <= m
  <2>1. Len(f.words) \in Nat
    BY DEF IsSeq
  <2> QED BY <2>1 DEF Holds
<1> HIDE DEF L
<1> DEFINE new == [i \in 0..L + 1 |-> IF i = L + 1 THEN m ELSE cut[i]]
<1>4. /\ new \in [0..Len(t) -> Nat] /\ new[Len(t)] = m
      /\ \A i \in 0..L: new[i] = cut[i]
  BY <1>1
<1>5. \A i, j \in 0..Len(t): i <= j => new[i] <= new[j]
  <2> SUFFICES ASSUME NEW i \in 0..L + 1, NEW j \in 0..L + 1, i <= j PROVE new[i] <= new[j]
    BY <1>1
  <2>1. CASE j \in 0..L
    <3>1. i \in 0..L
      BY <1>1, <2>1
    <3> QED BY <1>2, <1>4, <2>1, <3>1
  <2>2. CASE j = L + 1 /\ i \in 0..L
    <3>1. cut[i] <= cut[L] /\ cut[i] \in Nat
      BY <1>1, <1>2, <2>2
    <3>2. new[i] = cut[i] /\ new[j] = m
      BY <1>1, <1>4, <2>2
    <3> HIDE DEF new
    <3> QED BY <1>2, <1>3, <3>1, <3>2
  <2>3. CASE j = L + 1 /\ i = L + 1
    BY <1>1, <1>4, <2>3
  <2> QED BY <1>1, <2>1, <2>2, <2>3
<1>6. Holds(q, 0, new[0], h)
  BY <1>1, <1>2, <1>4
<1>7. ASSUME NEW d \in 1..Len(t) PROVE Holds(q, new[d - 1], new[d], Depth(t, d).words)
  <2>1. CASE d \in 1..L
    <3>1. d - 1 \in 0..L /\ d \in 0..L
      BY <1>1, <2>1
    <3>2. new[d - 1] = cut[d - 1] /\ new[d] = cut[d]
      BY <1>4, <3>1
    <3> QED BY <1>1, <1>2, <2>1, <3>2
  <2>2. CASE d = L + 1
    <3>1. new[d - 1] = n /\ new[d] = m
      BY <1>1, <1>2, <1>4, <2>2
    <3> QED BY <1>1, <2>2, <3>1
  <2> QED BY <1>1, <2>1, <2>2
<1> HIDE DEF new
<1> QED BY <1>4, <1>5, <1>6, <1>7 DEF Owned, t

\* The top frame's words are the last ones.
LEMMA OwnedPop ==
  ASSUME NEW q, NEW h, NEW s, IsSeq(s), s # <<>>, NEW n, Owned(q, h, s, n)
  PROVE  /\ n \in Nat
         /\ \E m \in Nat: Owned(q, h, Tail(s), m) /\ Holds(q, m, n, Head(s).words)
<1> DEFINE t == Tail(s)
           L == Len(s)
<1>1. /\ IsSeq(t) /\ L \in Nat \ {0} /\ Len(t) = L - 1
      /\ \A d \in 1..L - 1: Depth(t, d) = Depth(s, d)
      /\ Depth(s, L) = Head(s)
  BY Popped
<1> HIDE DEF t
<1>2. PICK cut \in [0..L -> Nat]:
        /\ cut[L] = n
        /\ \A i, j \in 0..L: i <= j => cut[i] <= cut[j]
        /\ Holds(q, 0, cut[0], h)
        /\ \A d \in 1..L: Holds(q, cut[d - 1], cut[d], Depth(s, d).words)
  BY DEF Owned
<1> HIDE DEF L
<1> DEFINE new == [i \in 0..L - 1 |-> cut[i]]
<1>3. new \in [0..Len(t) -> Nat] /\ new[Len(t)] = cut[L - 1] /\ \A i \in 0..L - 1: new[i] = cut[i]
  BY <1>1
<1>4. \A i, j \in 0..Len(t): i <= j => new[i] <= new[j]
  <2> SUFFICES ASSUME NEW i \in 0..L - 1, NEW j \in 0..L - 1, i <= j PROVE new[i] <= new[j]
    BY <1>1
  <2>1. i \in 0..L /\ j \in 0..L
    BY <1>1
  <2> QED BY <1>2, <1>3, <2>1
<1>5. Holds(q, 0, new[0], h)
  BY <1>1, <1>2, <1>3
<1>6. ASSUME NEW d \in 1..Len(t) PROVE Holds(q, new[d - 1], new[d], Depth(t, d).words)
  <2>1. d \in 1..L - 1 /\ d \in 1..L /\ d - 1 \in 0..L - 1 /\ d \in 0..L - 1
    BY <1>1
  <2> QED BY <1>1, <1>2, <1>3, <2>1
<1>7. Owned(q, h, t, cut[L - 1])
  <2> HIDE DEF new
  <2> QED BY <1>3, <1>4, <1>5, <1>6 DEF Owned
<1>8. cut[L - 1] \in Nat /\ n \in Nat /\ Holds(q, cut[L - 1], n, Head(s).words)
  BY <1>1, <1>2
<1> QED BY <1>7, <1>8 DEF t

\* Without frames all words are those of the commands that were called.
LEMMA OwnedByNone ==
  ASSUME NEW q, NEW h, NEW n
  PROVE  Owned(q, h, <<>>, n) <=> n \in Nat /\ Holds(q, 0, n, h)
<1>1. Len(<<>>) = 0 /\ 0 \in 0..0 /\ 0..0 = {0} /\ 1..0 = {}
  OBVIOUS
<1>2. ASSUME Owned(q, h, <<>>, n) PROVE n \in Nat /\ Holds(q, 0, n, h)
  <2>1. PICK cut \in [0..0 -> Nat]: cut[0] = n /\ Holds(q, 0, cut[0], h)
    BY <1>1, <1>2 DEF Owned
  <2> QED BY <1>1, <2>1
<1>3. ASSUME n \in Nat, Holds(q, 0, n, h) PROVE Owned(q, h, <<>>, n)
  <2> DEFINE cut == [i \in 0..0 |-> n]
  <2>1. /\ cut \in [0..Len(<<>>) -> Nat] /\ cut[Len(<<>>)] = n /\ cut[0] = n
        /\ \A i, j \in 0..Len(<<>>): i <= j => cut[i] <= cut[j]
    BY <1>1, <1>3
  <2> HIDE DEF cut
  <2> QED BY <1>1, <1>3, <2>1 DEF Owned
<1> QED BY <1>2, <1>3

\* More words do not change whose those before them are.
LEMMA OwnedStill ==
  ASSUME NEW q, NEW r, NEW h, IsSeq(h), NEW s, IsSeq(s), NEW n, NEW k \in Nat,
         \A i \in 1..Len(s): IsSeq(s[i].words),
         Owned(q, h, s, n), n <= k, \A i \in 1..k: r[i] = q[i]
  PROVE  Owned(r, h, s, n)
<1> DEFINE L == Len(s)
<1>1. L \in Nat
  BY DEF IsSeq
<1>2. PICK cut \in [0..L -> Nat]:
        /\ cut[L] = n
        /\ \A i, j \in 0..L: i <= j => cut[i] <= cut[j]
        /\ Holds(q, 0, cut[0], h)
        /\ \A d \in 1..L: Holds(q, cut[d - 1], cut[d], Depth(s, d).words)
  BY DEF Owned
<1> HIDE DEF L
<1>3. \A i \in 0..L: cut[i] \in Nat /\ cut[i] <= k
  <2>1. \A i \in 0..L: cut[i] \in Nat /\ cut[i] <= cut[L]
    BY <1>1, <1>2
  <2> QED BY <1>1, <1>2, <2>1
<1>4. Holds(r, 0, cut[0], h)
  <2>1. cut[0] \in Nat /\ cut[0] <= k
    BY <1>1, <1>3
  <2> QED BY <1>2, <2>1, HoldsStill
<1>5. ASSUME NEW d \in 1..L PROVE Holds(r, cut[d - 1], cut[d], Depth(s, d).words)
  <2>1. d - 1 \in 0..L /\ d \in 0..L /\ L + 1 - d \in 1..L
    BY <1>1
  <2>2. IsSeq(Depth(s, d).words)
    BY <2>1 DEF Depth, L
  <2>3. Holds(q, cut[d - 1], cut[d], Depth(s, d).words)
    BY <1>2
  <2> QED BY <1>3, <2>1, <2>2, <2>3, HoldsStill
<1> QED BY <1>2, <1>4, <1>5 DEF Owned, L

-----------------------------------------------------------------------------
(* The inductive invariant. *)

\* A lexer, as far as it matters here.
LexerOK(l) ==
  /\ {"unlexed", "token", "type", "ret", "error", "words"} \subseteq DOMAIN l
  /\ l.unlexed \in BOOLEAN /\ l.words \in Seq(STRING) /\ l.token \in STRING

\* The words that the parser has passed over: not the one that was put back, nor the
\* mark of a quotation that was not closed, if that was.
Unread(l) == IF l.unlexed /\ l.type \in {Word, MissingQuote} THEN 1 ELSE 0
Passed(l) == Len(l.words) - Unread(l)

\* What can be said of a token that is put back.
PutBackOK(l) ==
  l.unlexed =>
    /\ l.type \in {Word, MissingQuote} => l.words # <<>>
    /\ l.type = Word => l.words[Len(l.words)] = l.token
    /\ l.type = EOF => l.error # NoError

FrameOK(f) ==
  /\ f.fn \in {"simple", "bind", "unbound", "group"}
  /\ {"fn", "words"} \subseteq DOMAIN f /\ f.words \in Seq(STRING)
  /\ f.fn = "group" => "items" \in DOMAIN f /\ IsSeq(f.items)

StackOK(s) == IsSeq(s) /\ \A i \in 1..Len(s): FrameOK(s[i])

\* A group that waits for a separator.
Odd(f) == f.fn = "group" /\ Len(f.items) % 2 = 1
AllEven(s) == \A i \in 1..Len(s): ~Odd(s[i])

TypeInv ==
  /\ pc \notin {"open", "crashed"} => LexerOK(lx)
  /\ heard \in Seq(STRING)
  /\ StackOK(stack)
  /\ pc = "returned" =>
       /\ ret = [command |-> ret.command, words |-> ret.words, syntax |-> ret.syntax]
       /\ ret.words \in Seq(STRING)

\* The stack that belongs to each place.
PlaceInv ==
  /\ pc \in {"open", "statement", "terminator", "ok"} => stack = <<>>
  /\ pc \in {"simple", "bind", "unbound", "group"} => stack # <<>> /\ Head(stack).fn = pc
  /\ pc = "separator" => stack # <<>> /\ Head(stack).fn = "group"
  /\ pc = "command" => lx.unlexed
  /\ pc = "ok" => ~lx.unlexed
  /\ pc = "open" => heard = <<>>

\* The end of the input is taken for a separator, and then for a command that fails.
Ending ==
  \/ pc = "group" /\ lx.error # NoError /\ ~lx.unlexed
  \/ pc = "command" /\ lx.type = EOF
  \/ pc = "returned" /\ Failed /\ lx.type = EOF

ParityInv ==
  stack # <<>> =>
    /\ AllEven(Tail(stack))
    /\ pc = "separator" => Odd(Head(stack))
    /\ pc # "separator" /\ Odd(Head(stack)) => Ending

\* Reading goes on, and no word was dropped.
Live == dropped = {} /\ pc \notin {"failed", "stopped", "crashed"}

\* A command failed, and that can be no end of a group: reading will fail.
Lost == pc = "returned" /\ Failed /\ ~(ret.syntax /\ lx.type = BlockEnd)

\* The words of the command that is returned.
Given == IF pc = "returned" /\ ~Failed THEN ret.words ELSE <<>>

\* The words that l has passed over are h, those of the frames of s, and w.
OwnedBy(l, h, s, w) ==
  \E n \in Nat: Owned(l.words, h, s, n) /\ Holds(l.words, n, Passed(l), w)

OwnedInv == OwnedBy(lx, heard, stack, Given)

Inv ==
  /\ TypeInv /\ PlaceInv
  /\ Live => PutBackOK(lx) /\ ParityInv
  /\ Live /\ ~Lost /\ pc # "open" => OwnedInv

-----------------------------------------------------------------------------
(* The lexer. *)

\* t is l after its next token was read.
Took(l, t) ==
  /\ LexerOK(t) /\ ~t.unlexed
  /\ l.unlexed => t.ret = l.type /\ t.type = l.type
  /\ ~l.unlexed /\ l.error # NoError => t.ret = EOF
  /\ t.ret # UnexpectedSymbol => t.type = t.ret
  /\ PutBackOK(l) /\ t.ret # UnexpectedSymbol =>
       /\ Len(t.words) = Passed(l) + (IF t.ret \in {Word, MissingQuote} THEN 1 ELSE 0)
       /\ \A i \in 1..Passed(l): t.words[i] = l.words[i]
       /\ t.ret = Word => t.words[Passed(l) + 1] = t.token
       /\ t.ret = EOF => t.error # NoError

\* Every record of the type lexer_t has what the proofs need of a lexer.
LEMMA LexerIs ==
  ASSUME NEW l \in lexer_t
  PROVE  LexerOK(l) /\ l.token \in STRING /\ l.ret \in STRING
BY DEF LexerOK, lexer_t

\* How many words have been passed over.
LEMMA LexerFields ==
  ASSUME NEW l, LexerOK(l)
  PROVE  /\ l.unlexed \in BOOLEAN /\ l.words \in Seq(STRING) /\ Len(l.words) \in Nat
         /\ PutBackOK(l) => Passed(l) \in Nat /\ Passed(l) <= Len(l.words)
         /\ ~l.unlexed \/ l.type \notin {Word, MissingQuote} => Passed(l) = Len(l.words)
<1>1. l.unlexed \in BOOLEAN /\ l.words \in Seq(STRING)
  BY DEF LexerOK
<1>3. Len(l.words) \in Nat
  BY <1>1
<1>4. ASSUME PutBackOK(l) PROVE Passed(l) \in Nat /\ Passed(l) <= Len(l.words)
  <2> DEFINE put == l.unlexed /\ l.type \in {Word, MissingQuote}
  <2>1. \A n \in Nat: n - 0 = n /\ n <= n /\ (n > 0 => n - 1 \in Nat /\ n - 1 <= n)
    OBVIOUS
  <2>2. CASE ~put
    <3>1. Passed(l) = Len(l.words) - 0
      BY <2>2 DEF Passed, Unread
    <3> QED BY <1>3, <2>1, <3>1
  <2>3. CASE put
    <3>1. Passed(l) = Len(l.words) - 1 /\ l.words # <<>>
      BY <1>4, <2>3 DEF Passed, Unread, PutBackOK
    <3>2. Len(l.words) > 0
      BY <1>1, <3>1
    <3> QED BY <1>3, <2>1, <3>1, <3>2
  <2> QED BY <2>2, <2>3
<1>5. ASSUME ~l.unlexed \/ l.type \notin {Word, MissingQuote} PROVE Passed(l) = Len(l.words)
  <2>1. Passed(l) = Len(l.words) - 0
    BY <1>5 DEF Passed, Unread
  <2>2. \A n \in Nat: n - 0 = n
    OBVIOUS
  <2> QED BY <1>3, <2>1, <2>2
<1> QED BY <1>1, <1>3, <1>4, <1>5

\* A token that was put back is read again.
LEMMA ReadAgain ==
  ASSUME NEW l, LexerOK(l), l.unlexed
  PROVE  Took(l, lex_lex(l)) /\ lex_lex(l).words = l.words
<1> DEFINE t == lex_lex(l)
<1>1. t = [l EXCEPT !.unlexed = FALSE, !.ret = l.type]
  BY DEF lex_lex
<1>2. LexerOK(t) /\ ~t.unlexed /\ t.ret = l.type /\ t.type = l.type
  BY <1>1 DEF LexerOK
<1>3. t.words = l.words /\ t.token = l.token /\ t.error = l.error
  BY <1>1 DEF LexerOK
<1> HIDE DEF t
<1>4. ASSUME PutBackOK(l), t.ret # UnexpectedSymbol
      PROVE  /\ Len(t.words) = Passed(l) + (IF t.ret \in {Word, MissingQuote} THEN 1 ELSE 0)
             /\ \A i \in 1..Passed(l): t.words[i] = l.words[i]
             /\ t.ret = Word => t.words[Passed(l) + 1] = t.token
             /\ t.ret = EOF => t.error # NoError
  <2>1. Len(l.words) \in Nat
    BY LexerFields
  <2>2. Unread(l) = IF t.ret \in {Word, MissingQuote} THEN 1 ELSE 0
    BY <1>2 DEF Unread
  <2>3. Len(l.words) = Passed(l) + (IF t.ret \in {Word, MissingQuote} THEN 1 ELSE 0)
    BY <2>1, <2>2 DEF Passed
  <2>4. t.ret = Word => l.words[Len(l.words)] = l.token /\ Len(l.words) = Passed(l) + 1
    BY <1>2, <1>4, <2>3 DEF PutBackOK
  <2>5. t.ret = EOF => t.error # NoError
    BY <1>2, <1>3, <1>4 DEF PutBackOK
  <2> QED BY <1>3, <2>3, <2>4, <2>5
<1> QED BY <1>2, <1>3, <1>4 DEF Took, t

\* At the end the end is read again and again.
LEMMA ReadEnd ==
  ASSUME NEW l, LexerOK(l), ~l.unlexed, l.error # NoError
  PROVE  Took(l, lex_lex(l))
<1> DEFINE t == lex_lex(l)
<1>1. t = [l EXCEPT !.type = EOF, !.ret = EOF]
  BY DEF lex_lex
<1>2. LexerOK(t) /\ ~t.unlexed /\ t.ret = EOF /\ t.type = EOF
  BY <1>1 DEF LexerOK
<1>3. t.words = l.words /\ t.error = l.error
  BY <1>1 DEF LexerOK
<1> HIDE DEF t
<1>4. Len(l.words) \in Nat /\ Passed(l) = Len(l.words)
  BY LexerFields
<1>5. Len(t.words) = Passed(l)
  BY <1>3, <1>4
<1>6. t.ret \notin {Word, MissingQuote}
  BY <1>2 DEF EOF, Word, MissingQuote
<1>7. Passed(l) + 0 = Passed(l)
  <2>1. \A n \in Nat: n + 0 = n
    OBVIOUS
  <2> QED BY <1>4, <2>1
<1> QED BY <1>2, <1>3, <1>5, <1>6, <1>7 DEF Took, t

\* One word more at the end.
LEMMA OneMore ==
  ASSUME NEW S, NEW w \in Seq(S), NEW e \in S
  PROVE  /\ Len(w \o <<e>>) = Len(w) + 1 /\ (w \o <<e>>)[Len(w) + 1] = e
         /\ \A i \in 1..Len(w): (w \o <<e>>)[i] = w[i]
<1>2. w \o <<e>> = Append(w, e)
  BY AppendIsConcat
<1>3. /\ Len(Append(w, e)) = Len(w) + 1 /\ Append(w, e)[Len(w) + 1] = e
      /\ \A i \in 1..Len(w): Append(w, e)[i] = w[i]
  BY AppendProperties
<1> QED BY <1>2, <1>3

\* A token that is new.
LEMMA ReadNew ==
  ASSUME NEW l, LexerOK(l), ~l.unlexed, l.error = NoError, NEW t, ReadsOn(l, t)
  PROVE  Took(l, t)
<1> DEFINE more == CASE t.ret = Word -> <<t.token>>
                     [] t.ret \in {MissingQuote, UnexpectedSymbol} -> <<t.ret>>
                     [] OTHER -> <<>>
<1>1. /\ t \in lexer_t /\ ~t.unlexed /\ t.words = l.words \o more
      /\ t.ret # UnexpectedSymbol => t.type = t.ret
      /\ t.ret = EOF => t.error # NoError
  BY DEF ReadsOn
<1>0. LexerOK(t)
  BY <1>1, LexerIs
<1>2. Word # MissingQuote /\ Word # UnexpectedSymbol
  BY DEF Word, MissingQuote, UnexpectedSymbol
<1>3. /\ t.ret = Word => more = <<t.token>>
      /\ t.ret = MissingQuote => more = <<t.ret>>
      /\ t.ret \notin {Word, MissingQuote, UnexpectedSymbol} => more = <<>>
  BY <1>2
<1>4. t.token \in STRING /\ t.ret \in STRING /\ l.words \in Seq(STRING) /\ Len(l.words) \in Nat
  BY <1>1, LexerIs, LexerFields
<1> HIDE DEF more
<1>5. Passed(l) = Len(l.words)
  BY LexerFields
<1>6. CASE t.ret = Word
  <2>1. t.words = l.words \o <<t.token>>
    BY <1>1, <1>3, <1>6
  <2>2. /\ Len(t.words) = Len(l.words) + 1 /\ t.words[Len(l.words) + 1] = t.token
        /\ \A i \in 1..Len(l.words): t.words[i] = l.words[i]
    BY <1>4, <2>1, OneMore
  <2>3. t.ret # EOF
    BY <1>6 DEF EOF, Word
  <2> QED BY <1>0, <1>1, <1>5, <1>6, <2>2, <2>3 DEF Took
<1>7. CASE t.ret = MissingQuote
  <2>1. t.words = l.words \o <<t.ret>>
    BY <1>1, <1>3, <1>7
  <2>2. /\ Len(t.words) = Len(l.words) + 1
        /\ \A i \in 1..Len(l.words): t.words[i] = l.words[i]
    BY <1>4, <2>1, OneMore
  <2> QED BY <1>0, <1>1, <1>2, <1>5, <1>7, <2>2 DEF Took
<1>8. CASE t.ret \notin {Word, MissingQuote, UnexpectedSymbol}
  <2>1. t.words = l.words
    <3>1. t.words = l.words \o <<>>
      BY <1>1, <1>3, <1>8
    <3> QED BY <1>4, <3>1, ConcatEmptySeq
  <2>2. Len(l.words) = Len(l.words) + 0
    <3>1. \A n \in Nat: n = n + 0
      OBVIOUS
    <3> QED BY <1>4, <3>1
  <2> QED BY <1>0, <1>1, <1>5, <1>8, <2>1, <2>2 DEF Took
<1>9. CASE t.ret = UnexpectedSymbol
  BY <1>0, <1>1, <1>9 DEF Took
<1> QED BY <1>6, <1>7, <1>8, <1>9

-----------------------------------------------------------------------------
(* The stack. *)

\* A parse function is called: its frame is on top and the others are below it.
LEMMA StackPush ==
  ASSUME NEW s, StackOK(s), NEW f, FrameOK(f)
  PROVE  /\ StackOK(<<f>> \o s)
         /\ <<f>> \o s # <<>> /\ Head(<<f>> \o s) = f /\ Tail(<<f>> \o s) = s
<1> DEFINE t == <<f>> \o s
<1>1. IsSeq(s) /\ \A i \in 1..Len(s): FrameOK(s[i])
  BY DEF StackOK
<1>2. /\ IsSeq(t) /\ Len(t) = Len(s) + 1 /\ Len(s) \in Nat
      /\ t # <<>> /\ Head(t) = f /\ t[1] = f /\ Tail(t) = s
      /\ \A i \in 1..Len(s): t[i + 1] = s[i]
  BY <1>1, Pushed
<1> HIDE DEF t
<1>3. ASSUME NEW i \in 1..Len(t) PROVE FrameOK(t[i])
  <2>1. CASE i = 1
    BY <1>2, <2>1
  <2>2. CASE i # 1
    <3>1. i - 1 \in 1..Len(s) /\ (i - 1) + 1 = i
      BY <1>2, <2>2
    <3> QED BY <1>1, <1>2, <3>1
  <2> QED BY <2>1, <2>2
<1> QED BY <1>2, <1>3 DEF StackOK, t

\* A parse function returns: what is left of the stack, and what is even in it.
LEMMA StackPop ==
  ASSUME NEW s, StackOK(s), s # <<>>
  PROVE  /\ StackOK(Tail(s)) /\ FrameOK(Head(s))
         /\ AllEven(Tail(s)) /\ Tail(s) # <<>> => ~Odd(Head(Tail(s))) /\ AllEven(Tail(Tail(s)))
         /\ AllEven(Tail(s)) /\ ~Odd(Head(s)) => AllEven(s)
<1> DEFINE t == Tail(s)
<1>1. IsSeq(s) /\ \A i \in 1..Len(s): FrameOK(s[i])
  BY DEF StackOK
<1>2. /\ IsSeq(t) /\ Len(s) \in Nat \ {0} /\ Len(t) = Len(s) - 1 /\ Head(s) = s[1]
      /\ \A i \in 1..Len(s) - 1: t[i] = s[i + 1]
  BY <1>1, Popped
<1> HIDE DEF t
<1>3. ASSUME NEW i \in 1..Len(t) PROVE FrameOK(t[i])
  <2>1. i \in 1..Len(s) - 1 /\ i + 1 \in 1..Len(s)
    BY <1>2
  <2> QED BY <1>1, <1>2, <2>1
<1>4. FrameOK(Head(s))
  <2>1. 1 \in 1..Len(s)
    BY <1>2
  <2> QED BY <1>1, <1>2, <2>1
<1>5. ASSUME AllEven(t), t # <<>> PROVE ~Odd(Head(t)) /\ AllEven(Tail(t))
  <2> DEFINE u == Tail(t)
  <2>1. /\ Len(t) \in Nat \ {0} /\ Len(u) = Len(t) - 1 /\ Head(t) = t[1]
        /\ \A i \in 1..Len(t) - 1: u[i] = t[i + 1]
    BY <1>2, <1>5, Popped
  <2> HIDE DEF u
  <2>2. ~Odd(Head(t))
    <3>1. 1 \in 1..Len(t)
      BY <2>1
    <3> QED BY <1>5, <2>1, <3>1 DEF AllEven
  <2>3. ASSUME NEW i \in 1..Len(u) PROVE ~Odd(u[i])
    <3>1. i \in 1..Len(t) - 1 /\ i + 1 \in 1..Len(t)
      BY <2>1
    <3> QED BY <1>5, <2>1, <3>1 DEF AllEven
  <2> QED BY <2>2, <2>3 DEF AllEven, u
<1>6. ASSUME AllEven(t), ~Odd(Head(s)) PROVE AllEven(s)
  <2> SUFFICES ASSUME NEW i \in 1..Len(s) PROVE ~Odd(s[i])
    BY DEF AllEven
  <2>1. CASE i = 1
    BY <1>2, <1>6, <2>1
  <2>2. CASE i # 1
    <3>1. i - 1 \in 1..Len(t) /\ i - 1 \in 1..Len(s) - 1 /\ (i - 1) + 1 = i
      BY <1>2, <2>2
    <3>2. s[i] = t[i - 1]
      BY <1>2, <3>1
    <3> QED BY <1>6, <3>1, <3>2 DEF AllEven
  <2> QED BY <2>1, <2>2
<1> QED BY <1>2, <1>3, <1>4, <1>5, <1>6 DEF StackOK, t

\* Nothing is called.
LEMMA StackEmpty == AllEven(<<>>) /\ StackOK(<<>>)
<1>1. Len(<<>>) = 0 /\ 1..0 = {} /\ <<>> \in Seq({})
  OBVIOUS
<1> QED BY <1>1 DEF AllEven, StackOK, IsSeq

-----------------------------------------------------------------------------
(* The words, and who gets them. *)

\* Up to what was passed over, the words are h and those of the frames of s.
Accounted(l, h, s) == Passed(l) \in Nat /\ Owned(l.words, h, s, Passed(l))

\* With nothing yet given back, the words are accounted for by those heard and the frames.
LEMMA NothingGiven ==
  ASSUME NEW l, LexerOK(l), PutBackOK(l), NEW h, NEW s
  PROVE  OwnedBy(l, h, s, <<>>) <=> Accounted(l, h, s)
<1>1. Passed(l) \in Nat
  BY LexerFields
<1>2. ASSUME OwnedBy(l, h, s, <<>>) PROVE Accounted(l, h, s)
  <2>1. PICK n \in Nat: Owned(l.words, h, s, n) /\ Holds(l.words, n, Passed(l), <<>>)
    BY <1>2 DEF OwnedBy
  <2>2. Passed(l) = n + Len(<<>>) /\ Len(<<>>) = 0
    BY <2>1 DEF Holds
  <2>3. Passed(l) = n
    BY <2>2
  <2> QED BY <1>1, <2>1, <2>3 DEF Accounted
<1>3. ASSUME Accounted(l, h, s) PROVE OwnedBy(l, h, s, <<>>)
  BY <1>1, <1>3, HoldsNothing DEF Accounted, OwnedBy
<1> QED BY <1>2, <1>3

\* A token was read: the words before it are still those of the same.
LEMMA StillOwned ==
  ASSUME NEW l, LexerOK(l), PutBackOK(l), NEW t, Took(l, t), t.ret # UnexpectedSymbol,
         NEW h \in Seq(STRING), NEW s, StackOK(s), Accounted(l, h, s)
  PROVE  /\ LexerOK(t) /\ PutBackOK(t) /\ Passed(l) \in Nat
         /\ Owned(t.words, h, s, Passed(l))
         /\ t.ret \notin {Word, MissingQuote} => Passed(t) = Passed(l)
         /\ t.ret = Word => Passed(t) = Passed(l) + 1 /\ t.words[Passed(l) + 1] = t.token
         /\ t.token \in STRING
<1>1. LexerOK(t) /\ PutBackOK(t) /\ t.token \in STRING
  BY DEF Took, PutBackOK, LexerOK
<1>2. Passed(l) \in Nat /\ Owned(l.words, h, s, Passed(l))
  BY DEF Accounted
<1>3. /\ Len(t.words) = Passed(l) + (IF t.ret \in {Word, MissingQuote} THEN 1 ELSE 0)
      /\ \A i \in 1..Passed(l): t.words[i] = l.words[i]
      /\ t.ret = Word => t.words[Passed(l) + 1] = t.token
  BY DEF Took
<1>4. Passed(t) = Len(t.words)
  BY <1>1, LexerFields DEF Took
<1>5. IsSeq(h) /\ IsSeq(s) /\ \A i \in 1..Len(s): IsSeq(s[i].words)
  BY DEF IsSeq, StackOK, FrameOK
<1>6. Owned(t.words, h, s, Passed(l))
  <2>1. Passed(l) <= Passed(l)
    BY <1>2
  <2> QED BY <1>2, <1>3, <1>5, <2>1, OwnedStill
<1>7. \A n \in Nat: n + 0 = n
  OBVIOUS
<1> QED BY <1>1, <1>2, <1>3, <1>4, <1>6, <1>7

\* A token that is no word is nobody's.
LEMMA TokenPassed ==
  ASSUME NEW l, LexerOK(l), PutBackOK(l), NEW t, Took(l, t),
         t.ret \notin {Word, MissingQuote, UnexpectedSymbol},
         NEW h \in Seq(STRING), NEW s, StackOK(s), Accounted(l, h, s)
  PROVE  Accounted(t, h, s)
BY StillOwned DEF Accounted

\* A token that is put back is still to be passed over.
LEMMA TokenPutBack ==
  ASSUME NEW l, LexerOK(l), PutBackOK(l), NEW t, Took(l, t), t.ret # UnexpectedSymbol,
         NEW h \in Seq(STRING), NEW s, StackOK(s), Accounted(l, h, s)
  PROVE  /\ Accounted(lex_unlex(t), h, s) /\ PutBackOK(lex_unlex(t))
<1> DEFINE u == lex_unlex(t)
<1>1. LexerOK(t) /\ Passed(l) \in Nat /\ Owned(t.words, h, s, Passed(l))
  BY StillOwned
<1>2. /\ LexerOK(u) /\ u.unlexed = TRUE /\ u.words = t.words /\ u.type = t.type
      /\ u.token = t.token /\ u.error = t.error
  BY <1>1 DEF lex_unlex, LexerOK
<1> HIDE DEF u
<1>3. /\ t.type = t.ret
      /\ Len(t.words) = Passed(l) + (IF t.ret \in {Word, MissingQuote} THEN 1 ELSE 0)
      /\ t.ret = Word => t.words[Passed(l) + 1] = t.token
      /\ t.ret = EOF => t.error # NoError
  BY DEF Took
<1>4. \A n \in Nat: (n + 1) - 1 = n /\ (n + 0) - 0 = n
  OBVIOUS
<1>5. Passed(u) = Passed(l)
  <2>1. Passed(u) = Len(t.words) - (IF t.ret \in {Word, MissingQuote} THEN 1 ELSE 0)
    BY <1>2, <1>3 DEF Passed, Unread
  <2> QED BY <1>1, <1>3, <1>4, <2>1
<1>6. ASSUME t.ret \in {Word, MissingQuote}
      PROVE  Len(t.words) = Passed(l) + 1 /\ t.words # <<>>
  <2>1. Len(t.words) = Passed(l) + 1
    BY <1>3, <1>6
  <2>2. Len(<<>>) = 0 /\ \A n \in Nat: n + 1 # 0
    OBVIOUS
  <2> QED BY <1>1, <2>1, <2>2
<1>7. PutBackOK(u)
  BY <1>2, <1>3, <1>6 DEF PutBackOK
<1> QED BY <1>1, <1>2, <1>5, <1>7 DEF Accounted, u

\* A word becomes the first one of a new frame.
LEMMA WordPushed ==
  ASSUME NEW l, LexerOK(l), PutBackOK(l), NEW t, Took(l, t), t.ret = Word,
         NEW h \in Seq(STRING), NEW s, StackOK(s), Accounted(l, h, s),
         NEW f, FrameOK(f), f.words = <<t.token>>
  PROVE  Accounted(t, h, <<f>> \o s)
<1>1. t.ret # UnexpectedSymbol
  BY DEF Word, UnexpectedSymbol
<1>2. /\ Passed(l) \in Nat /\ Owned(t.words, h, s, Passed(l))
      /\ Passed(t) = Passed(l) + 1 /\ t.words[Passed(l) + 1] = t.token
  BY <1>1, StillOwned
<1>3. Holds(t.words, Passed(l), Passed(t), <<t.token>>)
  <2>1. Len(<<t.token>>) = 1 /\ <<t.token>>[1] = t.token /\ 1..1 = {1}
    OBVIOUS
  <2> QED BY <1>2, <2>1 DEF Holds
<1>4. IsSeq(s) /\ IsSeq(f.words)
  BY DEF StackOK, FrameOK, IsSeq
<1>5. Passed(t) \in Nat
  BY <1>2
<1> QED BY <1>2, <1>3, <1>4, <1>5, OwnedPush DEF Accounted

\* A word becomes the last one of the topmost frame.
LEMMA WordTaken ==
  ASSUME NEW l, LexerOK(l), PutBackOK(l), NEW t, Took(l, t), t.ret = Word,
         NEW h \in Seq(STRING), NEW s, StackOK(s), s # <<>>, Accounted(l, h, s),
         NEW f, FrameOK(f), f.words = Append(Head(s).words, t.token)
  PROVE  Accounted(t, h, <<f>> \o Tail(s))
<1>1. t.ret # UnexpectedSymbol
  BY DEF Word, UnexpectedSymbol
<1>2. /\ Passed(l) \in Nat /\ Owned(t.words, h, s, Passed(l)) /\ t.token \in STRING
      /\ Passed(t) = Passed(l) + 1 /\ t.words[Passed(l) + 1] = t.token
  BY <1>1, StillOwned
<1>3. IsSeq(s) /\ IsSeq(f.words) /\ StackOK(Tail(s)) /\ FrameOK(Head(s))
  BY StackPop DEF StackOK, FrameOK, IsSeq
<1>4. PICK m \in Nat: Owned(t.words, h, Tail(s), m) /\ Holds(t.words, m, Passed(l), Head(s).words)
  BY <1>2, <1>3, OwnedPop
<1>5. Holds(t.words, m, Passed(l) + 1, Append(Head(s).words, t.token))
  BY <1>2, <1>3, <1>4, HoldsOne DEF FrameOK
<1>6. Passed(t) \in Nat /\ IsSeq(Tail(s))
  BY <1>2, <1>3 DEF StackOK
<1> QED BY <1>2, <1>3, <1>4, <1>5, <1>6, OwnedPush DEF Accounted

\* The topmost frame changes, but not its words.
LEMMA FrameChanged ==
  ASSUME NEW l, NEW h, NEW s, StackOK(s), s # <<>>, Accounted(l, h, s),
         NEW f, FrameOK(f), f.words = Head(s).words
  PROVE  Accounted(l, h, <<f>> \o Tail(s))
<1>1. IsSeq(s) /\ IsSeq(f.words) /\ IsSeq(Tail(s))
  BY StackPop DEF StackOK, FrameOK, IsSeq
<1>2. PICK m \in Nat: Owned(l.words, h, Tail(s), m) /\ Holds(l.words, m, Passed(l), Head(s).words)
  BY <1>1, OwnedPop DEF Accounted
<1> QED BY <1>1, <1>2, OwnedPush DEF Accounted

\* The words of a frame are given to its caller.
LEMMA FrameGiven ==
  ASSUME NEW l, NEW h, NEW s, StackOK(s), s # <<>>, Accounted(l, h, s)
  PROVE  OwnedBy(l, h, Tail(s), Head(s).words)
BY OwnedPop DEF Accounted, OwnedBy, StackOK

\* They are taken by the topmost frame, which goes on or returns itself.
LEMMA GivenTaken ==
  ASSUME NEW l, LexerOK(l), PutBackOK(l), NEW h, NEW s, StackOK(s), s # <<>>,
         NEW w \in Seq(STRING), OwnedBy(l, h, s, w)
  PROVE  /\ OwnedBy(l, h, Tail(s), Head(s).words \o w)
         /\ \A f: FrameOK(f) /\ f.words = Head(s).words \o w => Accounted(l, h, <<f>> \o Tail(s))
<1>1. IsSeq(s) /\ IsSeq(Tail(s)) /\ FrameOK(Head(s)) /\ Head(s).words \in Seq(STRING)
  BY StackPop DEF StackOK, FrameOK
<1>2. PICK n \in Nat: Owned(l.words, h, s, n) /\ Holds(l.words, n, Passed(l), w)
  BY DEF OwnedBy
<1>3. PICK m \in Nat: Owned(l.words, h, Tail(s), m) /\ Holds(l.words, m, n, Head(s).words)
  BY <1>1, <1>2, OwnedPop
<1>4. Passed(l) \in Nat
  BY LexerFields
<1>5. Holds(l.words, m, Passed(l), Head(s).words \o w)
  BY <1>1, <1>2, <1>3, <1>4, HoldsBoth
<1>6. ASSUME NEW f, FrameOK(f), f.words = Head(s).words \o w
      PROVE  Accounted(l, h, <<f>> \o Tail(s))
  <2>1. IsSeq(f.words)
    BY <1>6 DEF FrameOK, IsSeq
  <2> QED BY <1>1, <1>3, <1>4, <1>5, <1>6, <2>1, OwnedPush DEF Accounted
<1> QED BY <1>3, <1>5, <1>6 DEF OwnedBy

\* They are those of a command that is called.
LEMMA GivenHeard ==
  ASSUME NEW l, LexerOK(l), PutBackOK(l), NEW h \in Seq(STRING), NEW w \in Seq(STRING),
         OwnedBy(l, h, <<>>, w)
  PROVE  Accounted(l, h \o w, <<>>)
<1>1. PICK n \in Nat: Owned(l.words, h, <<>>, n) /\ Holds(l.words, n, Passed(l), w)
  BY DEF OwnedBy
<1>2. Holds(l.words, 0, n, h)
  BY <1>1, OwnedByNone
<1>3. Passed(l) \in Nat
  BY LexerFields
<1>4. Holds(l.words, 0, Passed(l), h \o w)
  <2>1. 0 \in Nat
    OBVIOUS
  <2> QED BY <1>1, <1>2, <1>3, <2>1, HoldsBoth
<1> QED BY <1>3, <1>4, OwnedByNone DEF Accounted

\* All words are those of the commands that were called.
LEMMA AllHeard ==
  ASSUME NEW l, LexerOK(l), ~l.unlexed, NEW h \in Seq(STRING), Accounted(l, h, <<>>)
  PROVE  h = l.words
<1>1. Passed(l) = Len(l.words) /\ l.words \in Seq(STRING) /\ Len(l.words) \in Nat
  BY LexerFields
<1>2. Holds(l.words, 0, Len(l.words), h)
  BY <1>1, OwnedByNone DEF Accounted
<1>3. Len(h) \in Nat
  OBVIOUS
<1>4. Len(l.words) = Len(h) /\ \A j \in 1..Len(h): l.words[j] = h[j]
  <2>1. \A j \in Nat: 0 + j = j
    OBVIOUS
  <2>2. 1..Len(h) \subseteq Nat
    OBVIOUS
  <2> QED BY <1>2, <1>3, <2>1, <2>2 DEF Holds
<1> QED BY <1>1, <1>4, SeqEqual

\* Nothing was passed over for a new frame.
LEMMA NoWordPushed ==
  ASSUME NEW l, NEW h, NEW s, StackOK(s), Accounted(l, h, s),
         NEW f, FrameOK(f), f.words = <<>>
  PROVE  Accounted(l, h, <<f>> \o s)
<1>1. IsSeq(s) /\ IsSeq(f.words)
  BY DEF StackOK, FrameOK, IsSeq
<1>2. Holds(l.words, Passed(l), Passed(l), f.words)
  BY HoldsNothing DEF Accounted
<1> QED BY <1>1, <1>2, OwnedPush DEF Accounted

-----------------------------------------------------------------------------
(* The steps.  First what every step that reads a token has, and what is   *)
(* left to show where reading goes on, a command returns, or reading ends. *)

\* A step that reads a token takes the next word, if it is one, and nothing else.
LEMMA Reads ==
  ASSUME Inv, LexerCountsWords, NEW place \in Reading, NEW T, NEW t \in Read(place, T)
  PROVE  /\ pc = place /\ t.ret \in T
         /\ LexerOK(lx) /\ heard \in Seq(STRING) /\ StackOK(stack)
         /\ Took(lx, t) /\ LexerOK(t) /\ ~t.unlexed /\ PutBackOK(t)
         /\ dropped = {} => PutBackOK(lx) /\ ParityInv /\ Accounted(lx, heard, stack)
<1>1. pc = place /\ t = lex_lex(lx) /\ t.fault = NoFault /\ t.ret \in T
  BY DEF Read
<1>2. pc \notin {"open", "ok", "returned", "failed", "stopped", "crashed"}
  BY <1>1 DEF Reading
<1>3. LexerOK(lx) /\ heard \in Seq(STRING) /\ StackOK(stack)
  BY <1>2 DEF Inv, TypeInv
<1>4. Took(lx, t)
  <2>1. CASE lx.unlexed
    BY <1>1, <1>3, <2>1, ReadAgain
  <2>2. CASE ~lx.unlexed /\ lx.error # NoError
    BY <1>1, <1>3, <2>2, ReadEnd
  <2>3. CASE ~lx.unlexed /\ lx.error = NoError
    <3>1. ReadsOn(lx, t)
      BY <1>1, <2>3 DEF LexerCountsWords
    <3> QED BY <1>3, <2>3, <3>1, ReadNew
  <2> QED BY <2>1, <2>2, <2>3
<1>5. LexerOK(t) /\ ~t.unlexed /\ PutBackOK(t)
  BY <1>4 DEF Took, PutBackOK
<1>6. ASSUME dropped = {} PROVE PutBackOK(lx) /\ ParityInv /\ Accounted(lx, heard, stack)
  <2>1. Live /\ ~Lost /\ Given = <<>>
    BY <1>2, <1>6 DEF Live, Lost, Given
  <2>2. PutBackOK(lx) /\ ParityInv /\ OwnedBy(lx, heard, stack, <<>>)
    BY <1>2, <2>1 DEF Inv, OwnedInv
  <2> QED BY <1>3, <2>2, NothingGiven
<1> QED BY <1>1, <1>3, <1>4, <1>5, <1>6

\* A step after which reading goes on needs only the account of the words.
LEMMA GoesOn ==
  ASSUME pc' \in Reading \cup {"ok"},
         LexerOK(lx'), heard' \in Seq(STRING), StackOK(stack'), PlaceInv',
         dropped' = {} => PutBackOK(lx') /\ ParityInv' /\ Accounted(lx', heard', stack')
  PROVE  Inv'
<1>1. pc' \notin {"open", "returned", "failed", "stopped", "crashed"}
  BY DEF Reading
<1>2. TypeInv'
  BY <1>1 DEF TypeInv
<1>3. Given' = <<>>
  BY <1>1 DEF Given
<1>4. Live' => PutBackOK(lx') /\ ParityInv'
  BY DEF Live
<1>5. Live' => OwnedInv'
  <2> SUFFICES ASSUME Live' PROVE OwnedInv'
    OBVIOUS
  <2>1. PutBackOK(lx') /\ Accounted(lx', heard', stack')
    BY DEF Live
  <2>2. OwnedBy(lx', heard', stack', <<>>)
    BY <2>1, NothingGiven
  <2> QED BY <1>3, <2>2 DEF OwnedInv
<1> QED BY <1>2, <1>4, <1>5 DEF Inv

\* A command is returned, that was parsed or was not.
LEMMA ReturnsIt ==
  ASSUME pc' = "returned", LexerOK(lx'), heard' \in Seq(STRING), StackOK(stack'),
         ret' = [command |-> ret'.command, words |-> ret'.words, syntax |-> ret'.syntax],
         ret'.words \in Seq(STRING),
         dropped' = {} => /\ PutBackOK(lx') /\ ParityInv'
                          /\ ~Lost' => OwnedBy(lx', heard', stack', Given')
  PROVE  Inv'
<1>1. TypeInv' /\ PlaceInv'
  BY DEF TypeInv, PlaceInv
<1>3. Live' => PutBackOK(lx') /\ ParityInv'
  BY DEF Live
<1>4. Live' /\ ~Lost' => OwnedInv'
  BY DEF Live, OwnedInv
<1> QED BY <1>1, <1>3, <1>4 DEF Inv

\* A step after which nothing more is read leaves nothing to account for.
LEMMA ReadingFails ==
  ASSUME pc' \in {"failed", "stopped", "crashed"}, pc' # "crashed" => LexerOK(lx'),
         heard' \in Seq(STRING), StackOK(stack')
  PROVE  Inv'
<1>1. TypeInv' /\ PlaceInv'
  BY DEF TypeInv, PlaceInv
<1>2. ~Live'
  BY DEF Live
<1> QED BY <1>1, <1>2 DEF Inv

\* A parse function returns to its caller.  Its frame goes, and the caller's, if that is
\* a group, is at an even place.
LEMMA PopsEven ==
  ASSUME StackOK(stack), stack # <<>>, stack' = Tail(stack), pc' = "returned"
  PROVE  StackOK(stack') /\ (ParityInv => ParityInv')
<1>1. StackOK(stack')
  BY StackPop
<1>2. ASSUME ParityInv PROVE ParityInv'
  <2>1. AllEven(Tail(stack))
    BY <1>2 DEF ParityInv
  <2>2. stack' # <<>> => ~Odd(Head(stack')) /\ AllEven(Tail(stack'))
    BY <2>1, StackPop
  <2> QED BY <2>2 DEF ParityInv
<1> QED BY <1>1, <1>2

\* Without a command.
LEMMA ReturnsFailure ==
  ASSUME Inv, StackOK(stack), stack # <<>>, stack' = Tail(stack), pc' = "returned", ret' = Failure,
         LexerOK(lx'), heard' = heard,
         dropped' = {} => dropped = {} /\ ParityInv /\ PutBackOK(lx')
  PROVE  Inv'
<1>1. /\ ret' = [command |-> ret'.command, words |-> ret'.words, syntax |-> ret'.syntax]
      /\ ret'.command = Null /\ ret'.words = <<>> /\ ret'.syntax = FALSE
  BY DEF Failure, Returned
<1>2. Lost' /\ ret'.words \in Seq(STRING)
  BY <1>1 DEF Lost, Failed
<1>3. heard' \in Seq(STRING)
  BY DEF Inv, TypeInv
<1>4. StackOK(stack') /\ (ParityInv => ParityInv')
  BY PopsEven
<1> QED BY <1>1, <1>2, <1>3, <1>4, ReturnsIt

\* With one, and with the words of the frame.
LEMMA ReturnsFrame ==
  ASSUME Inv, StackOK(stack), stack # <<>>, stack' = Tail(stack), pc' = "returned",
         NEW c, ret' = Returned(c, Head(stack).words),
         LexerOK(lx'), heard' = heard,
         dropped' = {} => /\ dropped = {} /\ ParityInv /\ PutBackOK(lx')
                          /\ Accounted(lx', heard, stack)
  PROVE  Inv'
<1>1. /\ ret' = [command |-> ret'.command, words |-> ret'.words, syntax |-> ret'.syntax]
      /\ ret'.words = Head(stack).words /\ ret'.syntax = FALSE
  BY DEF Returned
<1>2. ret'.words \in Seq(STRING)
  BY <1>1, StackPop DEF FrameOK
<1>3. heard' \in Seq(STRING)
  BY DEF Inv, TypeInv
<1>4. StackOK(stack') /\ (ParityInv => ParityInv')
  BY PopsEven
<1>5. dropped' = {} => OwnedBy(lx', heard', stack', ret'.words)
  BY <1>1, FrameGiven
<1>6. ~Lost' => Given' = ret'.words
  BY <1>1 DEF Lost, Given, Failed
<1> QED BY <1>1, <1>2, <1>3, <1>4, <1>5, <1>6, ReturnsIt

\* A step that puts the token back that it has read.
LEMMA PutsBack ==
  ASSUME Inv, LexerCountsWords, NEW place \in Reading, NEW T, NEW t \in Read(place, T),
         lx' = lex_unlex(t)
  PROVE  /\ LexerOK(lx') /\ lx'.unlexed /\ lx'.type = t.type
         /\ dropped = {} /\ t.ret # UnexpectedSymbol =>
              /\ lx'.type = t.ret /\ PutBackOK(lx') /\ ParityInv
              /\ Accounted(lx', heard, stack)
<1>1. /\ LexerOK(t) /\ LexerOK(lx) /\ heard \in Seq(STRING) /\ StackOK(stack) /\ Took(lx, t)
      /\ dropped = {} => PutBackOK(lx) /\ ParityInv /\ Accounted(lx, heard, stack)
  BY Reads
<1>2. LexerOK(lx') /\ lx'.unlexed /\ lx'.type = t.type
  BY <1>1 DEF lex_unlex, LexerOK
<1>3. t.ret # UnexpectedSymbol => t.type = t.ret
  BY <1>1 DEF Took
<1> QED BY <1>1, <1>2, <1>3, TokenPutBack

\* A lone '&' or '|' is no token that can be put back.
LEMMA PutsBackToken ==
  ASSUME NEW t, PutBack(t)
  PROVE  lx' = lex_unlex(t) /\ (dropped' = {} => dropped = {} /\ t.ret # UnexpectedSymbol)
BY DEF PutBack, Dropped

\* A step that passes a token over that is no word.
LEMMA PassesToken ==
  ASSUME Inv, LexerCountsWords, NEW place \in Reading, NEW T, NEW t \in Read(place, T),
         lx' = t, stack' = stack, heard' = heard, pc' \in Reading \cup {"ok"}, PlaceInv',
         dropped' = {} => /\ dropped = {} /\ t.ret \notin {Word, MissingQuote, UnexpectedSymbol}
                          /\ ParityInv'
  PROVE  Inv'
<1>1. /\ LexerOK(lx) /\ heard \in Seq(STRING) /\ StackOK(stack)
      /\ Took(lx, t) /\ LexerOK(t) /\ PutBackOK(t)
      /\ dropped = {} => PutBackOK(lx) /\ ParityInv /\ Accounted(lx, heard, stack)
  BY Reads
<1>2. dropped' = {} => PutBackOK(lx') /\ Accounted(lx', heard', stack')
  BY <1>1, TokenPassed
<1> QED BY <1>1, <1>2, GoesOn

-----------------------------------------------------------------------------
(* read_conf_stream() *)

\* read_conf_stream() passes over an empty line.
LEMMA ConfNewLineInv ==
  ASSUME Inv, LexerCountsWords, ConfNewLine
  PROVE  Inv'
<1>1. PICK t \in Read("statement", {NewLine}):
        lx' = t /\ UNCHANGED <<file, stack, pc, ret, modes, history>>
  BY DEF ConfNewLine
<1>2. "statement" \in Reading
  BY DEF Reading
<1>3. pc = "statement" /\ t.ret = NewLine /\ stack = <<>>
  BY <1>1, <1>2, Reads DEF Inv, PlaceInv
<1>4. t.ret \notin {Word, MissingQuote, UnexpectedSymbol}
  BY <1>3 DEF NewLine, Word, MissingQuote, UnexpectedSymbol
<1>5. heard' = heard /\ stack' = stack /\ dropped' = dropped /\ pc' = pc /\ lx' = t
  BY <1>1 DEF history
<1>6. PlaceInv' /\ ParityInv'
  BY <1>3, <1>5 DEF PlaceInv, ParityInv
<1> QED BY <1>1, <1>2, <1>3, <1>4, <1>5, <1>6, PassesToken

\* read_conf_stream() meets the end of the file.
LEMMA ConfEndInv ==
  ASSUME Inv, LexerCountsWords, ConfEnd
  PROVE  Inv'
<1>1. PICK t \in Read("statement", {EOF}):
        lx' = t /\ pc' = "ok" /\ UNCHANGED <<file, stack, ret, modes, history>>
  BY DEF ConfEnd
<1>2. "statement" \in Reading
  BY DEF Reading
<1>3. pc = "statement" /\ t.ret = EOF /\ stack = <<>> /\ ~t.unlexed
  BY <1>1, <1>2, Reads DEF Inv, PlaceInv
<1>4. t.ret \notin {Word, MissingQuote, UnexpectedSymbol}
  BY <1>3 DEF EOF, Word, MissingQuote, UnexpectedSymbol
<1>5. heard' = heard /\ stack' = stack /\ dropped' = dropped
  BY <1>1 DEF history
<1>6. PlaceInv' /\ ParityInv'
  BY <1>1, <1>3, <1>5 DEF PlaceInv, ParityInv
<1> QED BY <1>1, <1>2, <1>3, <1>4, <1>5, <1>6, PassesToken

\* After a statement read_conf_stream() meets a new line or `;`, or the end.
LEMMA ConfTerminatorInv ==
  ASSUME Inv, LexerCountsWords, ConfTerminator
  PROVE  Inv'
<1>1. PICK t \in Read("terminator", {Semicolon, NewLine, EOF}):
        lx' = t /\ pc' = "statement" /\ UNCHANGED <<file, stack, ret, modes, history>>
  BY DEF ConfTerminator
<1>2. "terminator" \in Reading /\ "statement" \in Reading
  BY DEF Reading
<1>3. pc = "terminator" /\ t.ret \in {Semicolon, NewLine, EOF} /\ stack = <<>>
  BY <1>1, <1>2, Reads DEF Inv, PlaceInv
<1>4. t.ret \notin {Word, MissingQuote, UnexpectedSymbol}
  BY <1>3 DEF Semicolon, NewLine, EOF, Word, MissingQuote, UnexpectedSymbol
<1>5. heard' = heard /\ stack' = stack /\ dropped' = dropped
  BY <1>1 DEF history
<1>6. PlaceInv' /\ ParityInv'
  BY <1>1, <1>3, <1>5 DEF PlaceInv, ParityInv
<1> QED BY <1>1, <1>2, <1>3, <1>4, <1>5, <1>6, PassesToken

\* After a statement neither of these follows, and reading fails.
LEMMA ConfNoTerminatorInv ==
  ASSUME Inv, LexerCountsWords, ConfNoTerminator
  PROVE  Inv'
<1>1. PICK t \in Read("terminator", Tokens \ {Semicolon, NewLine, EOF}):
        lx' = t /\ pc' = "failed" /\ UNCHANGED <<file, stack, ret, modes, history>>
  BY DEF ConfNoTerminator
<1>2. "terminator" \in Reading
  BY DEF Reading
<1>3. LexerOK(lx') /\ heard' \in Seq(STRING) /\ StackOK(stack')
  BY <1>1, <1>2, Reads DEF history
<1> QED BY <1>1, <1>3, ReadingFails

\* read_conf_stream() puts the first token of a statement back and calls the parser.
LEMMA ConfStatementInv ==
  ASSUME Inv, LexerCountsWords, ConfStatement
  PROVE  Inv'
<1>1. PICK t \in Read("statement", Tokens \ {NewLine, EOF}):
        PutBack(t) /\ pc' = "command" /\ UNCHANGED <<file, stack, ret, modes, ran, heard>>
  BY DEF ConfStatement
<1>2. "statement" \in Reading /\ "command" \in Reading
  BY DEF Reading
<1>3. stack = <<>> /\ stack' = stack /\ heard' = heard
  BY <1>1, <1>2, Reads DEF Inv, PlaceInv
<1>4. lx' = lex_unlex(t) /\ (dropped' = {} => dropped = {} /\ t.ret # UnexpectedSymbol)
  BY <1>1, PutsBackToken
<1>5. /\ LexerOK(lx') /\ lx'.unlexed
      /\ dropped' = {} => PutBackOK(lx') /\ Accounted(lx', heard, stack)
  BY <1>1, <1>2, <1>4, PutsBack
<1>6. PlaceInv' /\ ParityInv'
  BY <1>1, <1>3, <1>5 DEF PlaceInv, ParityInv
<1>7. heard' \in Seq(STRING) /\ StackOK(stack')
  BY <1>3 DEF Inv, TypeInv
<1> QED BY <1>1, <1>2, <1>3, <1>5, <1>6, <1>7, GoesOn

\* The file is opened and the lexer is cleared.
LEMMA ConfOpenInv ==
  ASSUME Inv, LexerCountsWords, ConfOpen
  PROVE  Inv'
<1>1. /\ pc = "open" /\ lx' = lex_init(file.lines) /\ pc' = "statement"
      /\ stack' = stack /\ heard' = heard
  BY DEF ConfOpen, history
<1>2. stack = <<>> /\ heard = <<>> /\ "statement" \in Reading
  BY <1>1 DEF Inv, PlaceInv, Reading
<1>3. lx' \in lexer_t /\ ~lx'.unlexed /\ lx'.words = <<>>
  BY <1>1 DEF LexerCountsWords
<1>4. LexerOK(lx') /\ PutBackOK(lx')
  BY <1>3, LexerIs DEF PutBackOK
<1>5. Accounted(lx', <<>>, <<>>)
  <2>1. Len(<<>>) = 0 /\ 0 \in Nat /\ 0 = 0 + 0 /\ 1..0 = {}
    OBVIOUS
  <2>2. Passed(lx') = 0
    BY <1>3, <1>4, <2>1, LexerFields
  <2>3. Holds(lx'.words, 0, 0, <<>>)
    BY <2>1 DEF Holds
  <2> QED BY <2>1, <2>2, <2>3, OwnedByNone DEF Accounted
<1>6. PlaceInv' /\ ParityInv'
  BY <1>1, <1>2 DEF PlaceInv, ParityInv
<1>7. heard' \in Seq(STRING) /\ StackOK(stack')
  BY <1>1 DEF Inv, TypeInv
<1> QED BY <1>1, <1>2, <1>4, <1>5, <1>6, <1>7, GoesOn

\* The statement could not be parsed, and reading fails.
LEMMA ConfFailedInv ==
  ASSUME Inv, ConfFailed
  PROVE  Inv'
<1>1. /\ pc = "returned" /\ pc' = "failed" /\ lx' = lx /\ stack' = stack /\ heard' = heard
  BY DEF ConfFailed, history
<1>2. LexerOK(lx') /\ heard' \in Seq(STRING) /\ StackOK(stack')
  BY <1>1 DEF Inv, TypeInv
<1> QED BY <1>1, <1>2, ReadingFails

\* read_conf_stream() calls the command it was given.
LEMMA ConfCallInv ==
  ASSUME Inv, ConfCall
  PROVE  Inv'
<1>1. /\ pc = "returned" /\ stack = <<>> /\ ~Failed
      /\ pc' \in {"crashed", "terminator", "stopped"}
      /\ heard' = heard \o ret.words /\ lx' = lx /\ stack' = stack /\ dropped' = dropped
  BY DEF ConfCall
<1>2. /\ LexerOK(lx) /\ heard \in Seq(STRING) /\ ret.words \in Seq(STRING) /\ StackOK(stack)
  BY <1>1 DEF Inv, TypeInv
<1>3. heard' \in Seq(STRING)
  BY <1>1, <1>2
<1>4. CASE pc' = "terminator"
  <2>1. ASSUME dropped' = {} PROVE PutBackOK(lx') /\ Accounted(lx', heard', stack')
    <3>1. Live /\ ~Lost /\ Given = ret.words
      BY <1>1, <2>1 DEF Live, Lost, Given
    <3>2. PutBackOK(lx) /\ OwnedBy(lx, heard, <<>>, ret.words)
      BY <1>1, <3>1 DEF Inv, OwnedInv
    <3> QED BY <1>1, <1>2, <3>2, GivenHeard
  <2>2. PlaceInv' /\ ParityInv' /\ pc' \in Reading
    BY <1>1, <1>4 DEF PlaceInv, ParityInv, Reading
  <2> QED BY <1>1, <1>2, <1>3, <1>4, <2>1, <2>2, GoesOn
<1>5. CASE pc' # "terminator"
  BY <1>1, <1>2, <1>3, <1>5, ReadingFails
<1> QED BY <1>4, <1>5

-----------------------------------------------------------------------------
(* command_parse() *)

\* A command is expected and something else is read.
LEMMA CommandExpectedInv ==
  ASSUME Inv, LexerCountsWords, CommandExpected
  PROVE  Inv'
<1>1. PICK t \in Read("command", Tokens \ {Word, BlockBegin}):
        /\ lx' = t /\ pc' = "returned" /\ ret' = [Failure EXCEPT !.syntax = TRUE]
        /\ stack' = stack /\ heard' = heard /\ dropped' = dropped
  BY DEF CommandExpected, Return, history
<1>2. "command" \in Reading
  BY DEF Reading
<1>3. /\ pc = "command" /\ t.ret \notin {Word, BlockBegin}
      /\ LexerOK(lx) /\ heard \in Seq(STRING) /\ StackOK(stack)
      /\ Took(lx, t) /\ LexerOK(t) /\ PutBackOK(t)
      /\ dropped = {} => PutBackOK(lx) /\ ParityInv /\ Accounted(lx, heard, stack)
  BY <1>1, <1>2, Reads
<1>4. /\ ret' = [command |-> ret'.command, words |-> ret'.words, syntax |-> ret'.syntax]
      /\ ret'.command = Null /\ ret'.words = <<>> /\ ret'.syntax = TRUE
  BY <1>1 DEF Failure, Returned
<1>5. ret'.words \in Seq(STRING)
  BY <1>4
<1>6. lx.unlexed /\ t.ret = lx.type /\ t.type = lx.type
  BY <1>3 DEF Inv, PlaceInv, Took
<1>7. dropped' = {} => ParityInv'
  BY <1>1, <1>3, <1>4, <1>6 DEF ParityInv, Ending, Failed
<1>8. ASSUME dropped' = {}, ~Lost' PROVE OwnedBy(lx', heard', stack', Given')
  <2>1. t.ret = BlockEnd /\ Given' = <<>>
    BY <1>1, <1>4, <1>6, <1>8 DEF Lost, Given, Failed
  <2>2. t.ret \notin {Word, MissingQuote, UnexpectedSymbol}
    BY <2>1 DEF BlockEnd, Word, MissingQuote, UnexpectedSymbol
  <2>3. Accounted(t, heard, stack)
    BY <1>1, <1>3, <1>8, <2>2, TokenPassed
  <2> QED BY <1>1, <1>3, <2>1, <2>3, NothingGiven
<1> QED BY <1>1, <1>3, <1>4, <1>5, <1>7, <1>8, ReturnsIt

\* The word read names no command.
LEMMA CommandUnknownInv ==
  ASSUME Inv, LexerCountsWords, CommandUnknown
  PROVE  Inv'
<1>1. PICK t \in Read("command", {Word, BlockBegin}):
        /\ lx' = t /\ pc' = "returned" /\ ret' = Failure
        /\ stack' = stack /\ heard' = heard /\ dropped' = dropped
  BY DEF CommandUnknown, Return, history
<1>2. "command" \in Reading
  BY DEF Reading
<1>3. /\ pc = "command" /\ t.ret \in {Word, BlockBegin}
      /\ LexerOK(lx) /\ heard \in Seq(STRING) /\ StackOK(stack)
      /\ Took(lx, t) /\ LexerOK(t) /\ PutBackOK(t)
      /\ dropped = {} => ParityInv
  BY <1>1, <1>2, Reads
<1>4. /\ ret' = [command |-> ret'.command, words |-> ret'.words, syntax |-> ret'.syntax]
      /\ ret'.command = Null /\ ret'.words = <<>> /\ ret'.syntax = FALSE
  BY <1>1 DEF Failure, Returned
<1>5. ret'.words \in Seq(STRING) /\ Lost'
  BY <1>1, <1>4 DEF Lost, Failed
<1>6. t.ret = lx.type /\ t.type = lx.type
  BY <1>3 DEF Inv, PlaceInv, Took
<1>7. dropped' = {} => ParityInv'
  BY <1>1, <1>3, <1>4, <1>6 DEF ParityInv, Ending, Failed
<1> QED BY <1>1, <1>3, <1>4, <1>5, <1>7, ReturnsIt

\* What a parse function starts with.
LEMMA LocalsOK ==
  ASSUME NEW cmd, NEW words \in Seq(STRING)
  PROVE  LET f == Locals(cmd, words) IN
         /\ FrameOK(f) /\ f.words = words /\ ~Odd(f)
         /\ f.fn \in {"simple", "bind", "unbound", "group"}
<1> DEFINE f == Locals(cmd, words)
<1> SUFFICES FrameOK(f) /\ f.words = words /\ ~Odd(f)
  BY DEF FrameOK
<1>1. Len(<<>>) % 2 = 0 /\ <<>> \in Seq({})
  OBVIOUS
<1>2. IsSeq(<<>>)
  BY <1>1 DEF IsSeq
<1>3. CASE cmd.name = "{"
  <2>1. f = [fn |-> "group", items |-> <<>>, words |-> words]
    BY <1>3 DEF Locals
  <2>2. f.fn = "group" /\ f.items = <<>> /\ f.words = words /\ DOMAIN f = {"fn", "items", "words"}
    BY <2>1
  <2> HIDE DEF f
  <2>3. {"fn", "words"} \subseteq DOMAIN f /\ "items" \in DOMAIN f
    BY <2>2
  <2>4. ~Odd(f)
    BY <1>1, <2>2 DEF Odd
  <2> QED BY <1>2, <2>2, <2>3, <2>4 DEF FrameOK
<1>4. CASE cmd.name # "{" /\ cmd.name = "bind"
  <2>1. f = [fn |-> "bind", keys |-> <<>>, words |-> words]
    BY <1>4 DEF Locals
  <2>2. f.fn = "bind" /\ f.words = words /\ DOMAIN f = {"fn", "keys", "words"}
    BY <2>1
  <2> HIDE DEF f
  <2>3. {"fn", "words"} \subseteq DOMAIN f /\ ~Odd(f)
    BY <2>2 DEF Odd
  <2> QED BY <2>2, <2>3 DEF FrameOK
<1>5. CASE cmd.name \notin {"{", "bind"} /\ cmd.name = "unbound"
  <2>1. f = [fn |-> "unbound", types |-> {}, words |-> words]
    BY <1>5 DEF Locals
  <2>2. f.fn = "unbound" /\ f.words = words /\ DOMAIN f = {"fn", "types", "words"}
    BY <2>1
  <2> HIDE DEF f
  <2>3. {"fn", "words"} \subseteq DOMAIN f /\ ~Odd(f)
    BY <2>2 DEF Odd
  <2> QED BY <2>2, <2>3 DEF FrameOK
<1>6. CASE cmd.name \notin {"{", "bind", "unbound"}
  <2>1. f = [fn |-> "simple", cmd |-> cmd, argv |-> <<>>, words |-> words]
    BY <1>6 DEF Locals
  <2>2. f.fn = "simple" /\ f.words = words /\ DOMAIN f = {"fn", "cmd", "argv", "words"}
    BY <2>1
  <2> HIDE DEF f
  <2>3. {"fn", "words"} \subseteq DOMAIN f /\ ~Odd(f)
    BY <2>2 DEF Odd
  <2> QED BY <2>2, <2>3 DEF FrameOK
<1> QED BY <1>3, <1>4, <1>5, <1>6

\* The word read names a command, whose frame takes it.
LEMMA CommandFoundInv ==
  ASSUME Inv, LexerCountsWords, CommandFound
  PROVE  Inv'
<1>1. PICK t \in Read("command", {Word, BlockBegin}):
        /\ lx' = t
        /\ LET words == IF t.ret = Word THEN <<t.token>> ELSE <<>>
               frame == Locals(get_command(t.token), words)
           IN stack' = <<frame>> \o stack /\ pc' = frame.fn
        /\ heard' = heard /\ dropped' = dropped
  BY DEF CommandFound, Push, history
<1> DEFINE words == IF t.ret = Word THEN <<t.token>> ELSE <<>>
           f == Locals(get_command(t.token), words)
<1>2. "command" \in Reading
  BY DEF Reading
<1>3. /\ pc = "command" /\ t.ret \in {Word, BlockBegin}
      /\ LexerOK(lx) /\ heard \in Seq(STRING) /\ StackOK(stack)
      /\ Took(lx, t) /\ LexerOK(t) /\ PutBackOK(t)
      /\ dropped = {} => PutBackOK(lx) /\ ParityInv /\ Accounted(lx, heard, stack)
  BY <1>1, <1>2, Reads
<1>4. words \in Seq(STRING)
  <2>1. \A e \in STRING: <<e>> \in Seq(STRING) /\ <<>> \in Seq(STRING)
    OBVIOUS
  <2> QED BY <1>3, <2>1 DEF LexerOK
<1>5. /\ stack' = <<f>> \o stack /\ pc' = f.fn
      /\ t.ret = Word => words = <<t.token>>
      /\ t.ret # Word => words = <<>>
  BY <1>1
<1> HIDE DEF words
<1>6. FrameOK(f) /\ f.words = words /\ ~Odd(f) /\ f.fn \in {"simple", "bind", "unbound", "group"}
  BY <1>4, LocalsOK
<1> HIDE DEF f
<1>7. StackOK(stack') /\ stack' # <<>> /\ Head(stack') = f /\ Tail(stack') = stack
  BY <1>3, <1>5, <1>6, StackPush
<1>8. PlaceInv' /\ pc' \in Reading
  BY <1>5, <1>6, <1>7 DEF PlaceInv, Reading
<1>9. ASSUME dropped' = {} PROVE ParityInv' /\ Accounted(lx', heard', stack')
  <2>1. PutBackOK(lx) /\ ParityInv /\ Accounted(lx, heard, stack)
    BY <1>1, <1>3, <1>9
  <2>2. lx.unlexed /\ t.ret = lx.type
    BY <1>3 DEF Inv, PlaceInv, Took
  <2>3. t.ret # EOF
    BY <1>3 DEF EOF, Word, BlockBegin
  <2>4. AllEven(stack)
    <3>1. CASE stack = <<>>
      BY <3>1, StackEmpty
    <3>2. CASE stack # <<>>
      <4>1. AllEven(Tail(stack)) /\ ~Odd(Head(stack))
        BY <1>3, <2>1, <2>2, <2>3, <3>2 DEF ParityInv, Ending
      <4> QED BY <1>3, <3>2, <4>1, StackPop
    <3> QED BY <3>1, <3>2
  <2>5. ParityInv'
    BY <1>5, <1>6, <1>7, <2>4 DEF ParityInv
  <2>6. CASE t.ret = Word
    BY <1>1, <1>3, <1>5, <1>6, <2>1, <2>5, <2>6, WordPushed
  <2>7. CASE t.ret # Word
    <3>1. t.ret \notin {Word, MissingQuote, UnexpectedSymbol}
      BY <1>3, <2>7 DEF BlockBegin, Word, MissingQuote, UnexpectedSymbol
    <3>2. Accounted(t, heard, stack)
      BY <1>3, <2>1, <3>1, TokenPassed
    <3> QED BY <1>1, <1>3, <1>5, <1>6, <2>5, <2>7, <3>2, NoWordPushed
  <2> QED BY <2>5, <2>6, <2>7
<1> QED BY <1>1, <1>3, <1>7, <1>8, <1>9, GoesOn

\* A word that the topmost function takes.
LEMMA TakesWord ==
  ASSUME Inv, LexerCountsWords, NEW place \in {"simple", "bind", "unbound"}, NEW T,
         NEW t \in Read(place, T), t.ret = Word, lx' = t,
         NEW f, f.fn = Head(stack).fn, DOMAIN f = DOMAIN Head(stack),
         f.words = Append(Head(stack).words, t.token), stack' = <<f>> \o Tail(stack),
         pc' = pc, heard' = heard, dropped' = dropped
  PROVE  Inv'
<1>1. place \in Reading /\ Word # EOF
  BY DEF Reading, Word, EOF
<1>2. /\ pc = place
      /\ LexerOK(lx) /\ heard \in Seq(STRING) /\ StackOK(stack)
      /\ Took(lx, t) /\ LexerOK(t) /\ PutBackOK(t)
      /\ dropped = {} => PutBackOK(lx) /\ ParityInv /\ Accounted(lx, heard, stack)
  BY <1>1, Reads
<1>3. stack # <<>> /\ Head(stack).fn = place
  BY <1>2 DEF Inv, PlaceInv
<1>4. StackOK(Tail(stack)) /\ FrameOK(Head(stack))
  BY <1>2, <1>3, StackPop
<1>5. FrameOK(f) /\ ~Odd(f)
  <2>1. Head(stack).words \in Seq(STRING) /\ t.token \in STRING
    BY <1>2, <1>4 DEF FrameOK, LexerOK
  <2>2. f.words \in Seq(STRING)
    BY <2>1
  <2>3. f.fn = place /\ DOMAIN f = DOMAIN Head(stack)
    BY <1>3
  <2> QED BY <1>4, <2>2, <2>3 DEF FrameOK, Odd
<1>6. StackOK(stack') /\ stack' # <<>> /\ Head(stack') = f /\ Tail(stack') = Tail(stack)
  BY <1>4, <1>5, StackPush
<1>7. PlaceInv' /\ pc' \in Reading
  BY <1>1, <1>2, <1>3, <1>6 DEF PlaceInv
<1>8. dropped' = {} => ParityInv'
  BY <1>2, <1>3, <1>5, <1>6 DEF ParityInv
<1>9. dropped' = {} => Accounted(lx', heard', stack')
  BY <1>2, <1>3, <1>5, WordTaken
<1> QED BY <1>2, <1>6, <1>7, <1>8, <1>9, GoesOn

\* A command takes one more argument.
LEMMA CommandWordInv ==
  ASSUME Inv, LexerCountsWords, CommandWord
  PROVE  Inv'
<1>1. PICK t \in Read("simple", {Word}):
        /\ lx' = t
        /\ IF Len(Frame.argv) = MaxArgs
           THEN Return(Failure) /\ Pop
           ELSE /\ Become([Frame EXCEPT !.argv = Append(@, t.token),
                                        !.words = Append(@, t.token)])
                /\ UNCHANGED <<pc, ret>>
        /\ heard' = heard /\ dropped' = dropped
  BY DEF CommandWord, history
<1>2. "simple" \in Reading
  BY DEF Reading
<1>3. /\ pc = "simple" /\ t.ret = Word
      /\ StackOK(stack) /\ LexerOK(t) /\ PutBackOK(t)
      /\ dropped = {} => ParityInv
  BY <1>1, <1>2, Reads
<1>4. stack # <<>>
  BY <1>3 DEF Inv, PlaceInv
<1>5. CASE Len(Frame.argv) = MaxArgs
  <2>1. stack' = Tail(stack) /\ pc' = "returned" /\ ret' = Failure
    BY <1>1, <1>5 DEF Return, Pop
  <2> QED BY <1>1, <1>3, <1>4, <2>1, ReturnsFailure
<1>6. CASE Len(Frame.argv) # MaxArgs
  <2> DEFINE f == [Head(stack) EXCEPT !.argv = Append(@, t.token), !.words = Append(@, t.token)]
  <2>1. stack' = <<f>> \o Tail(stack) /\ pc' = pc
    BY <1>1, <1>6 DEF Become, Frame
  <2>2. FrameOK(Head(stack))
    BY <1>3, <1>4, StackPop
  <2>3. /\ f.fn = Head(stack).fn /\ DOMAIN f = DOMAIN Head(stack)
        /\ f.words = Append(Head(stack).words, t.token)
    BY <2>2 DEF FrameOK
  <2> HIDE DEF f
  <2> QED BY <1>1, <1>3, <2>1, <2>3, TakesWord
<1> QED BY <1>5, <1>6

\* A command passes over a token that is no argument and ends none.
LEMMA CommandIgnoresInv ==
  ASSUME Inv, LexerCountsWords, CommandIgnores
  PROVE  Inv'
<1>1. PICK t \in Read("simple", Tokens \ (Terminators \cup {Word})):
        /\ lx' = t /\ dropped' # {} /\ stack' = stack /\ pc' = pc /\ heard' = heard
  BY DEF CommandIgnores, Dropped
<1>2. "simple" \in Reading
  BY DEF Reading
<1>3. pc = "simple" /\ ~t.unlexed
  BY <1>1, <1>2, Reads
<1>4. PlaceInv' /\ pc' \in Reading
  BY <1>1, <1>2, <1>3 DEF Inv, PlaceInv
<1> QED BY <1>1, <1>2, <1>4, PassesToken

\* A command puts the token back that ended its arguments, and is built from them.
LEMMA CommandBuiltInv ==
  ASSUME Inv, LexerCountsWords, CommandBuilt
  PROVE  Inv'
<1>1. PICK t \in Read("simple", Terminators):
        /\ lx' = lex_unlex(t)
        /\ \E command: /\ Return(Returned(command, Frame.words)) /\ Pop
                       /\ dropped' = {} => dropped = {}
        /\ heard' = heard
  BY DEF CommandBuilt, Dropped
<1>2. PICK command:
        /\ ret' = Returned(command, Head(stack).words)
        /\ pc' = "returned" /\ stack' = Tail(stack)
        /\ dropped' = {} => dropped = {}
  BY <1>1 DEF Return, Pop, Frame
<1>3. "simple" \in Reading
  BY DEF Reading
<1>4. pc = "simple" /\ t.ret \in Terminators /\ StackOK(stack)
  BY <1>1, <1>3, Reads
<1>5. stack # <<>> /\ t.ret # UnexpectedSymbol
  BY <1>4 DEF Inv, PlaceInv, Terminators, EOF, Or, And, NewLine, BlockEnd, Semicolon,
               UnexpectedSymbol
<1>6. /\ LexerOK(lx')
      /\ dropped = {} => PutBackOK(lx') /\ ParityInv /\ Accounted(lx', heard, stack)
  BY <1>1, <1>3, <1>5, PutsBack
<1> QED BY <1>1, <1>2, <1>4, <1>5, <1>6, ReturnsFrame

-----------------------------------------------------------------------------
(* bind and unbound *)

\* bind takes one more key of its sequence.
LEMMA BindKeyInv ==
  ASSUME Inv, LexerCountsWords, BindKey
  PROVE  Inv'
<1>1. PICK t \in Read("bind", {Word}):
        /\ lx' = t
        /\ Become([Frame EXCEPT !.keys = Append(@, parse_key[t.token]),
                                !.words = Append(@, t.token)])
        /\ pc' = pc /\ heard' = heard /\ dropped' = dropped
  BY DEF BindKey, history
<1>2. "bind" \in Reading
  BY DEF Reading
<1>3. pc = "bind" /\ t.ret = Word /\ StackOK(stack)
  BY <1>1, <1>2, Reads
<1>4. FrameOK(Head(stack))
  BY <1>3, StackPop DEF Inv, PlaceInv
<1> DEFINE f == [Head(stack) EXCEPT !.keys = Append(@, parse_key[t.token]),
                                    !.words = Append(@, t.token)]
<1>5. /\ f.fn = Head(stack).fn /\ DOMAIN f = DOMAIN Head(stack)
      /\ f.words = Append(Head(stack).words, t.token)
  BY <1>4 DEF FrameOK
<1>6. stack' = <<f>> \o Tail(stack)
  BY <1>1 DEF Become, Frame
<1> HIDE DEF f
<1> QED BY <1>1, <1>3, <1>5, <1>6, TakesWord

\* bind is given more keys than its buffer holds.
LEMMA BindTooManyKeysInv ==
  ASSUME Inv, LexerCountsWords, BindTooManyKeys
  PROVE  Inv'
<1>1. PICK t \in Read("bind", {Word}):
        /\ lx' = t /\ pc' = "returned" /\ ret' = Failure /\ stack' = Tail(stack)
        /\ heard' = heard /\ dropped' = dropped
  BY DEF BindTooManyKeys, Return, Pop, history
<1>2. "bind" \in Reading
  BY DEF Reading
<1>3. /\ pc = "bind" /\ StackOK(stack) /\ LexerOK(t) /\ PutBackOK(t)
      /\ dropped = {} => ParityInv
  BY <1>1, <1>2, Reads
<1>4. stack # <<>>
  BY <1>3 DEF Inv, PlaceInv
<1> QED BY <1>1, <1>3, <1>4, ReturnsFailure

\* bind puts back what is no key and, if it has keys, calls the parser for the command.
LEMMA BindCommandInv ==
  ASSUME Inv, LexerCountsWords, BindCommand
  PROVE  Inv'
<1>1. PICK t \in Read("bind", Tokens):
        /\ PutBack(t)
        /\ IF Frame.keys = <<>>
           THEN Return(Failure) /\ Pop
           ELSE pc' = "command" /\ UNCHANGED <<stack, ret>>
        /\ heard' = heard
  BY DEF BindCommand
<1>2. "bind" \in Reading /\ "command" \in Reading
  BY DEF Reading
<1>3. pc = "bind" /\ StackOK(stack) /\ heard \in Seq(STRING)
  BY <1>1, <1>2, Reads
<1>4. stack # <<>> /\ Head(stack).fn = "bind"
  BY <1>3 DEF Inv, PlaceInv
<1>5. lx' = lex_unlex(t) /\ (dropped' = {} => dropped = {} /\ t.ret # UnexpectedSymbol)
  BY <1>1, PutsBackToken
<1>6. /\ LexerOK(lx') /\ lx'.unlexed
      /\ dropped' = {} => PutBackOK(lx') /\ ParityInv /\ Accounted(lx', heard, stack)
  BY <1>1, <1>2, <1>5, PutsBack
<1>7. CASE Frame.keys = <<>>
  <2>1. stack' = Tail(stack) /\ pc' = "returned" /\ ret' = Failure
    BY <1>1, <1>7 DEF Return, Pop
  <2> QED BY <1>1, <1>3, <1>4, <1>5, <1>6, <2>1, ReturnsFailure
<1>8. CASE Frame.keys # <<>>
  <2>1. pc' = "command" /\ stack' = stack
    BY <1>1, <1>8
  <2>2. PlaceInv' /\ (ParityInv => ParityInv')
    BY <1>4, <1>6, <2>1 DEF PlaceInv, ParityInv, Odd
  <2> QED BY <1>1, <1>2, <1>3, <1>6, <2>1, <2>2, GoesOn
<1> QED BY <1>7, <1>8

\* unbound takes the name of a key type.
LEMMA UnboundTypeInv ==
  ASSUME Inv, LexerCountsWords, UnboundType
  PROVE  Inv'
<1>1. PICK t \in Read("unbound", {Word}):
        /\ lx' = t
        /\ Become([Frame EXCEPT !.types = @ \cup {t.token}, !.words = Append(@, t.token)])
        /\ pc' = pc /\ heard' = heard /\ dropped' = dropped
  BY DEF UnboundType, history
<1>2. "unbound" \in Reading
  BY DEF Reading
<1>3. pc = "unbound" /\ t.ret = Word /\ StackOK(stack)
  BY <1>1, <1>2, Reads
<1>4. FrameOK(Head(stack))
  BY <1>3, StackPop DEF Inv, PlaceInv
<1> DEFINE f == [Head(stack) EXCEPT !.types = @ \cup {t.token}, !.words = Append(@, t.token)]
<1>5. /\ f.fn = Head(stack).fn /\ DOMAIN f = DOMAIN Head(stack)
      /\ f.words = Append(Head(stack).words, t.token)
  BY <1>4 DEF FrameOK
<1>6. stack' = <<f>> \o Tail(stack)
  BY <1>1 DEF Become, Frame
<1> HIDE DEF f
<1> QED BY <1>1, <1>3, <1>5, <1>6, TakesWord

\* unbound puts back what names no type and calls the parser for the command.
LEMMA UnboundCommandInv ==
  ASSUME Inv, LexerCountsWords, UnboundCommand
  PROVE  Inv'
<1>1. PICK t \in Read("unbound", Tokens):
        PutBack(t) /\ pc' = "command" /\ stack' = stack /\ heard' = heard
  BY DEF UnboundCommand
<1>2. "unbound" \in Reading /\ "command" \in Reading
  BY DEF Reading
<1>3. pc = "unbound" /\ StackOK(stack) /\ heard \in Seq(STRING)
  BY <1>1, <1>2, Reads
<1>4. stack # <<>> /\ Head(stack).fn = "unbound"
  BY <1>3 DEF Inv, PlaceInv
<1>5. lx' = lex_unlex(t) /\ (dropped' = {} => dropped = {} /\ t.ret # UnexpectedSymbol)
  BY <1>1, PutsBackToken
<1>6. /\ LexerOK(lx') /\ lx'.unlexed
      /\ dropped' = {} => PutBackOK(lx') /\ ParityInv /\ Accounted(lx', heard, stack)
  BY <1>1, <1>2, <1>5, PutsBack
<1>7. PlaceInv' /\ (ParityInv => ParityInv')
  BY <1>1, <1>4, <1>6 DEF PlaceInv, ParityInv, Odd
<1> QED BY <1>1, <1>2, <1>3, <1>6, <1>7, GoesOn

\* bind and unbound get the command they asked for, or the failure.
LEMMA BindReturnInv ==
  ASSUME Inv, BindReturn
  PROVE  Inv'
<1>1. /\ pc = "returned" /\ stack # <<>> /\ Head(stack).fn \in {"bind", "unbound"}
      /\ pc' = "returned" /\ stack' = Tail(stack) /\ lx' = lx
      /\ heard' = heard /\ dropped' = dropped
      /\ Failed => ret' = Failure
      /\ ~Failed => \E c: ret' = Returned(c, Head(stack).words \o ret.words)
  BY DEF BindReturn, Returns, Pop, Frame, history
<1>2. /\ LexerOK(lx) /\ heard \in Seq(STRING) /\ StackOK(stack) /\ ret.words \in Seq(STRING)
      /\ dropped = {} => PutBackOK(lx) /\ ParityInv
  BY <1>1 DEF Inv, TypeInv, Live
<1>3. CASE Failed
  BY <1>1, <1>2, <1>3, ReturnsFailure
<1>4. CASE ~Failed
  <2>1. PICK c: ret' = Returned(c, Head(stack).words \o ret.words)
    BY <1>1, <1>4
  <2>2. /\ ret' = [command |-> ret'.command, words |-> ret'.words, syntax |-> ret'.syntax]
        /\ ret'.words = Head(stack).words \o ret.words /\ ret'.syntax = FALSE
    BY <2>1 DEF Returned
  <2>3. ret'.words \in Seq(STRING)
    <3>1. Head(stack).words \in Seq(STRING)
      BY <1>1, <1>2, StackPop DEF FrameOK
    <3> QED BY <1>2, <2>2, <3>1
  <2>4. StackOK(stack') /\ (ParityInv => ParityInv')
    BY <1>1, <1>2, PopsEven
  <2>5. ASSUME dropped' = {}, ~Lost' PROVE OwnedBy(lx', heard', stack', Given')
    <3>1. Live /\ ~Lost /\ Given = ret.words
      BY <1>1, <1>4, <2>5 DEF Live, Lost, Given
    <3>2. OwnedBy(lx, heard, stack, ret.words)
      BY <1>1, <3>1 DEF Inv, OwnedInv
    <3>3. Given' = Head(stack).words \o ret.words
      BY <1>1, <2>2, <2>5 DEF Lost, Given
    <3> QED BY <1>1, <1>2, <2>5, <3>2, <3>3, GivenTaken
  <2> QED BY <1>1, <1>2, <2>2, <2>3, <2>4, <2>5, ReturnsIt
<1> QED BY <1>3, <1>4

-----------------------------------------------------------------------------
(* The group. *)

\* A group that has one item more is at the other kind of place.
LEMMA OtherPlace ==
  ASSUME NEW f, FrameOK(f), f.fn = "group", NEW e, NEW g, g.fn = "group",
         DOMAIN g = DOMAIN f, g.items = Append(f.items, e), g.words \in Seq(STRING)
  PROVE  FrameOK(g) /\ (Odd(g) <=> ~Odd(f))
<1>1. IsSeq(f.items)
  BY DEF FrameOK
<1>2. IsSeq(g.items) /\ Len(g.items) = Len(f.items) + 1 /\ Len(f.items) \in Nat
  BY <1>1, AppendIs
<1>3. \A n \in Nat: (n + 1) % 2 = 1 <=> ~(n % 2 = 1)
  OBVIOUS
<1>4. Odd(g) <=> ~Odd(f)
  BY <1>2, <1>3 DEF Odd
<1> QED BY <1>2, <1>4 DEF FrameOK

\* The group ends.
LEMMA GroupDoneInv ==
  ASSUME Inv, StackOK(stack), stack # <<>>, GroupDone, LexerOK(lx'), heard' = heard,
         dropped' = {} => /\ dropped = {} /\ ParityInv /\ PutBackOK(lx')
                          /\ Accounted(lx', heard, stack)
  PROVE  Inv'
<1>1. /\ pc' = "returned" /\ stack' = Tail(stack)
      /\ ret' = Failure \/ \E c: ret' = Returned(c, Head(stack).words)
  <2> DEFINE f == Head(stack)
             r == CASE f.items = <<>> -> Failure
                    [] Len(f.items) = 1 -> Returned(f.items[1], f.words)
                    [] OTHER -> Returned(<<"{", f.items>>, f.words)
  <2>1. pc' = "returned" /\ stack' = Tail(stack) /\ ret' = r
    BY DEF GroupDone, Return, Pop, Frame
  <2>2. Len(<<>>) # 1
    OBVIOUS
  <2>3. r = Failure \/ r = Returned(f.items[1], f.words)
                    \/ r = Returned(<<"{", f.items>>, f.words)
    BY <2>2
  <2> QED BY <2>1, <2>3
<1>2. CASE ret' = Failure
  BY <1>1, <1>2, ReturnsFailure
<1>3. CASE \E c: ret' = Returned(c, Head(stack).words)
  BY <1>1, <1>3, ReturnsFrame
<1> QED BY <1>1, <1>2, <1>3

\* A group passes over an empty line.
LEMMA GroupNewLineInv ==
  ASSUME Inv, LexerCountsWords, GroupNewLine
  PROVE  Inv'
<1>1. PICK t \in Read("group", {NewLine}):
        lx' = t /\ stack' = stack /\ pc' = pc /\ heard' = heard /\ dropped' = dropped
  BY DEF GroupNewLine, history
<1>2. "group" \in Reading
  BY DEF Reading
<1>3. /\ pc = "group" /\ t.ret = NewLine /\ Took(lx, t) /\ ~t.unlexed
      /\ dropped = {} => ParityInv
  BY <1>1, <1>2, Reads
<1>4. t.ret \notin {EOF, Word, MissingQuote, UnexpectedSymbol}
  BY <1>3 DEF NewLine, EOF, Word, MissingQuote, UnexpectedSymbol
<1>5. PlaceInv'
  BY <1>1, <1>3 DEF Inv, PlaceInv
<1>6. dropped' = {} => ParityInv'
  <2>1. ~(lx.error # NoError /\ ~lx.unlexed)
    BY <1>3, <1>4 DEF Took
  <2> QED BY <1>1, <1>3, <2>1 DEF ParityInv, Ending
<1> QED BY <1>1, <1>2, <1>3, <1>4, <1>5, <1>6, PassesToken

\* A group puts the first token of a command back and calls the parser.
LEMMA GroupCommandInv ==
  ASSUME Inv, LexerCountsWords, GroupCommand
  PROVE  Inv'
<1>1. PICK t \in Read("group", Tokens \ {NewLine}):
        PutBack(t) /\ pc' = "command" /\ stack' = stack /\ heard' = heard
  BY DEF GroupCommand
<1>2. "group" \in Reading /\ "command" \in Reading
  BY DEF Reading
<1>3. pc = "group" /\ StackOK(stack) /\ heard \in Seq(STRING) /\ Took(lx, t)
  BY <1>1, <1>2, Reads
<1>4. stack # <<>> /\ Head(stack).fn = "group"
  BY <1>3 DEF Inv, PlaceInv
<1>5. lx' = lex_unlex(t) /\ (dropped' = {} => dropped = {} /\ t.ret # UnexpectedSymbol)
  BY <1>1, PutsBackToken
<1>6. /\ LexerOK(lx') /\ lx'.unlexed
      /\ dropped' = {} => /\ lx'.type = t.ret /\ PutBackOK(lx') /\ ParityInv
                          /\ Accounted(lx', heard, stack)
  BY <1>1, <1>2, <1>5, PutsBack
<1>7. PlaceInv'
  BY <1>1, <1>4, <1>6 DEF PlaceInv
<1>8. ASSUME dropped' = {} PROVE ParityInv'
  <2>1. lx.error # NoError /\ ~lx.unlexed => lx'.type = EOF
    BY <1>3, <1>6, <1>8 DEF Took
  <2> QED BY <1>1, <1>3, <1>6, <1>8, <2>1 DEF ParityInv, Ending
<1> QED BY <1>1, <1>2, <1>3, <1>6, <1>7, <1>8, GoesOn

\* A group gets a command and adds it.
LEMMA GroupReturnInv ==
  ASSUME Inv, GroupReturn
  PROVE  Inv'
<1> DEFINE f == [Head(stack) EXCEPT
                   !.items = Append(@, ret.command),
                   !.words = IF Len(Head(stack).items) % 2 = 0 THEN @ \o ret.words ELSE @]
<1>1. /\ pc = "returned" /\ stack # <<>> /\ Head(stack).fn = "group" /\ ~Failed
      /\ stack' = <<f>> \o Tail(stack) /\ pc' = "separator"
      /\ lx' = lx /\ heard' = heard /\ dropped' = dropped
  BY DEF GroupReturn, Returns, Become, Frame, history
<1>2. /\ LexerOK(lx) /\ heard \in Seq(STRING) /\ StackOK(stack) /\ ret.words \in Seq(STRING)
      /\ dropped = {} => PutBackOK(lx) /\ ParityInv
  BY <1>1 DEF Inv, TypeInv, Live
<1>3. FrameOK(Head(stack)) /\ StackOK(Tail(stack))
  BY <1>1, <1>2, StackPop
<1>4. /\ f.fn = "group" /\ DOMAIN f = DOMAIN Head(stack)
      /\ f.items = Append(Head(stack).items, ret.command)
      /\ Len(Head(stack).items) % 2 = 0 => f.words = Head(stack).words \o ret.words
      /\ Len(Head(stack).items) % 2 # 0 => f.words = Head(stack).words
  BY <1>1, <1>3 DEF FrameOK
<1> HIDE DEF f
<1>5. f.words \in Seq(STRING)
  <2>1. Head(stack).words \in Seq(STRING)
    BY <1>3 DEF FrameOK
  <2>2. Head(stack).words \o ret.words \in Seq(STRING)
    BY <1>2, <2>1
  <2> QED BY <1>4, <2>1, <2>2
<1>6. FrameOK(f) /\ (Odd(f) <=> ~Odd(Head(stack)))
  BY <1>1, <1>3, <1>4, <1>5, OtherPlace
<1>7. StackOK(stack') /\ stack' # <<>> /\ Head(stack') = f /\ Tail(stack') = Tail(stack)
  BY <1>1, <1>3, <1>6, StackPush
<1>8. PlaceInv' /\ pc' \in Reading
  BY <1>1, <1>4, <1>7 DEF PlaceInv, Reading
<1>9. ASSUME dropped' = {} PROVE ParityInv' /\ Accounted(lx', heard', stack')
  <2>1. ~Odd(Head(stack)) /\ AllEven(Tail(stack)) /\ PutBackOK(lx)
    BY <1>1, <1>2, <1>9 DEF ParityInv, Ending
  <2>2. ParityInv'
    BY <1>1, <1>6, <1>7, <2>1 DEF ParityInv
  <2>3. Len(Head(stack).items) % 2 = 0
    <3>1. Len(Head(stack).items) \in Nat
      BY <1>1, <1>3, AppendIs DEF FrameOK
    <3>2. Len(Head(stack).items) % 2 # 1
      BY <1>1, <2>1 DEF Odd
    <3>3. \A n \in Nat: n % 2 # 1 => n % 2 = 0
      OBVIOUS
    <3> QED BY <3>1, <3>2, <3>3
  <2>4. Live /\ ~Lost /\ Given = ret.words
    BY <1>1, <1>9 DEF Live, Lost, Given
  <2>5. OwnedBy(lx, heard, stack, ret.words)
    BY <1>1, <2>4 DEF Inv, OwnedInv
  <2>6. Accounted(lx, heard, <<f>> \o Tail(stack))
    BY <1>1, <1>2, <1>4, <1>6, <2>1, <2>3, <2>5, GivenTaken
  <2> QED BY <1>1, <2>2, <2>6
<1> QED BY <1>1, <1>2, <1>7, <1>8, <1>9, GoesOn

\* A group gets a failure: it ends if the token that failed closes it, or fails too.
LEMMA GroupReturnFailedInv ==
  ASSUME Inv, GroupReturnFailed
  PROVE  Inv'
<1>1. /\ pc = "returned" /\ stack # <<>> /\ Failed
      /\ lx' = lex_lex(lex_unlex(lx)) /\ heard' = heard
      /\ lx.type = BlockEnd => GroupDone
      /\ lx.type # BlockEnd => pc' = "returned" /\ ret' = Failure /\ stack' = Tail(stack)
      /\ dropped' = {} => dropped = {} /\ (lx.type = BlockEnd => ret.syntax)
  BY DEF GroupReturnFailed, Returns, Return, Pop, Dropped
<1>2. /\ LexerOK(lx) /\ heard \in Seq(STRING) /\ StackOK(stack)
      /\ dropped = {} => PutBackOK(lx) /\ ParityInv
  BY <1>1 DEF Inv, TypeInv, Live
<1> DEFINE u == lex_unlex(lx)
<1>3. /\ LexerOK(u) /\ u.unlexed = TRUE /\ u.words = lx.words /\ u.type = lx.type
  BY <1>2 DEF lex_unlex, LexerOK
<1> HIDE DEF u
<1>4. Took(u, lx') /\ lx'.words = lx.words
  BY <1>1, <1>3, ReadAgain DEF u
<1>5. LexerOK(lx') /\ ~lx'.unlexed /\ PutBackOK(lx')
  BY <1>4 DEF Took, PutBackOK
<1>6. CASE lx.type # BlockEnd
  BY <1>1, <1>2, <1>5, <1>6, ReturnsFailure
<1>7. CASE lx.type = BlockEnd
  <2>1. ASSUME dropped' = {} PROVE Accounted(lx', heard, stack)
    <3>1. Live /\ ~Lost /\ Given = <<>>
      BY <1>1, <1>7, <2>1 DEF Live, Lost, Given
    <3>2. OwnedBy(lx, heard, stack, <<>>)
      BY <1>1, <3>1 DEF Inv, OwnedInv
    <3>3. Accounted(lx, heard, stack)
      BY <1>1, <1>2, <2>1, <3>2, NothingGiven
    <3>4. lx.type \notin {Word, MissingQuote}
      BY <1>7 DEF BlockEnd, Word, MissingQuote
    <3>5. Passed(lx') = Passed(lx)
      BY <1>2, <1>4, <1>5, <3>4, LexerFields
    <3> QED BY <1>4, <3>3, <3>5 DEF Accounted
  <2> QED BY <1>1, <1>2, <1>5, <1>7, <2>1, GroupDoneInv
<1> QED BY <1>6, <1>7

\* Two commands of a group are separated.
LEMMA GroupSeparatorInv ==
  ASSUME Inv, LexerCountsWords, GroupSeparator
  PROVE  Inv'
<1>1. PICK t \in Read("separator", Separators):
        /\ lx' = t
        /\ Become([Frame EXCEPT
                     !.items = Append(@, <<IF t.ret = NewLine THEN ";" ELSE t.ret>>)])
        /\ pc' = "group" /\ heard' = heard /\ dropped' = dropped
  BY DEF GroupSeparator, history
<1>2. "separator" \in Reading /\ "group" \in Reading
  BY DEF Reading
<1>3. /\ pc = "separator" /\ t.ret \in Separators
      /\ LexerOK(lx) /\ heard \in Seq(STRING) /\ StackOK(stack)
      /\ Took(lx, t) /\ LexerOK(t) /\ ~t.unlexed /\ PutBackOK(t)
      /\ dropped = {} => PutBackOK(lx) /\ ParityInv /\ Accounted(lx, heard, stack)
  BY <1>1, <1>2, Reads
<1>4. stack # <<>> /\ Head(stack).fn = "group"
  BY <1>3 DEF Inv, PlaceInv
<1>5. FrameOK(Head(stack)) /\ StackOK(Tail(stack))
  BY <1>3, <1>4, StackPop
<1>6. PICK e: stack' = <<[Head(stack) EXCEPT !.items = Append(@, e)]>> \o Tail(stack)
  BY <1>1 DEF Become, Frame
<1> DEFINE f == [Head(stack) EXCEPT !.items = Append(@, e)]
<1>7. /\ f.fn = "group" /\ DOMAIN f = DOMAIN Head(stack)
      /\ f.items = Append(Head(stack).items, e) /\ f.words = Head(stack).words
  BY <1>4, <1>5 DEF FrameOK
<1>8. stack' = <<f>> \o Tail(stack)
  BY <1>6
<1> HIDE DEF f
<1>9. FrameOK(f) /\ (Odd(f) <=> ~Odd(Head(stack)))
  BY <1>4, <1>5, <1>7, OtherPlace DEF FrameOK
<1>10. StackOK(stack') /\ stack' # <<>> /\ Head(stack') = f /\ Tail(stack') = Tail(stack)
  BY <1>5, <1>8, <1>9, StackPush
<1>11. PlaceInv'
  BY <1>1, <1>7, <1>10 DEF PlaceInv
<1>12. t.ret \notin {Word, MissingQuote, UnexpectedSymbol}
  BY <1>3 DEF Separators, NewLine, Semicolon, And, Or, Word, MissingQuote, UnexpectedSymbol
<1>13. ASSUME dropped' = {} PROVE ParityInv' /\ Accounted(lx', heard', stack')
  <2>1. PutBackOK(lx) /\ ParityInv /\ Accounted(lx, heard, stack)
    BY <1>1, <1>3, <1>13
  <2>2. ParityInv'
    BY <1>1, <1>3, <1>4, <1>9, <1>10, <2>1 DEF ParityInv
  <2>3. Accounted(t, heard, stack)
    BY <1>3, <1>12, <2>1, TokenPassed
  <2>4. Accounted(t, heard, <<f>> \o Tail(stack))
    BY <1>3, <1>4, <1>7, <1>9, <2>3, FrameChanged
  <2> QED BY <1>1, <1>8, <2>2, <2>4
<1> QED BY <1>1, <1>2, <1>3, <1>10, <1>11, <1>13, GoesOn

\* A group is closed.
LEMMA GroupEndInv ==
  ASSUME Inv, LexerCountsWords, GroupEnd
  PROVE  Inv'
<1>1. PICK t \in Read("separator", {BlockEnd}):
        lx' = t /\ GroupDone /\ heard' = heard /\ dropped' = dropped
  BY DEF GroupEnd, history
<1>2. "separator" \in Reading
  BY DEF Reading
<1>3. /\ pc = "separator" /\ t.ret = BlockEnd
      /\ LexerOK(lx) /\ heard \in Seq(STRING) /\ StackOK(stack)
      /\ Took(lx, t) /\ LexerOK(t) /\ PutBackOK(t)
      /\ dropped = {} => PutBackOK(lx) /\ ParityInv /\ Accounted(lx, heard, stack)
  BY <1>1, <1>2, Reads
<1>4. stack # <<>>
  BY <1>3 DEF Inv, PlaceInv
<1>5. t.ret \notin {Word, MissingQuote, UnexpectedSymbol}
  BY <1>3 DEF BlockEnd, Word, MissingQuote, UnexpectedSymbol
<1>6. dropped = {} => Accounted(t, heard, stack)
  BY <1>3, <1>5, TokenPassed
<1> QED BY <1>1, <1>3, <1>4, <1>6, GroupDoneInv

\* A command of a group is followed by what neither separates nor closes: it goes on.
LEMMA GroupNoSeparatorInv ==
  ASSUME Inv, LexerCountsWords, GroupNoSeparator
  PROVE  Inv'
<1>1. PICK t \in Read("separator", Tokens \ (Separators \cup {BlockEnd})):
        /\ lx' = t /\ pc' = "group" /\ stack' = stack /\ heard' = heard
        /\ dropped' = {} => t.ret = EOF /\ dropped = {}
  BY DEF GroupNoSeparator, Dropped
<1>2. "separator" \in Reading /\ "group" \in Reading
  BY DEF Reading
<1>3. /\ pc = "separator" /\ Took(lx, t) /\ ~t.unlexed
      /\ dropped = {} => PutBackOK(lx) /\ ParityInv
  BY <1>1, <1>2, Reads
<1>4. EOF \notin {Word, MissingQuote, UnexpectedSymbol}
  BY DEF EOF, Word, MissingQuote, UnexpectedSymbol
<1>5. PlaceInv'
  BY <1>1, <1>3 DEF Inv, PlaceInv
<1>6. ASSUME dropped' = {} PROVE ParityInv'
  <2>1. t.error # NoError /\ ~t.unlexed
    BY <1>1, <1>3, <1>4, <1>6 DEF Took
  <2> QED BY <1>1, <1>3, <1>6, <2>1 DEF ParityInv, Ending
<1> QED BY <1>1, <1>2, <1>4, <1>5, <1>6, PassesToken

\* The array of the group is full, or the lexer reads what nothing can be said of.
LEMMA CrashInv ==
  ASSUME Inv, GroupOverflow \/ Crash
  PROVE  Inv'
<1>1. pc' = "crashed" /\ stack' = stack /\ heard' = heard
  BY DEF GroupOverflow, Crash, history
<1>2. heard' \in Seq(STRING) /\ StackOK(stack')
  BY <1>1 DEF Inv, TypeInv
<1> QED BY <1>1, <1>2, ReadingFails

-----------------------------------------------------------------------------
(* The specification. *)

\* Before the file is opened the lexer is clear and nothing is called.
LEMMA InitInv ==
  ASSUME Init
  PROVE  Inv
<1>1. pc = "open" /\ stack = <<>> /\ heard = <<>> /\ lx = calloced
  BY DEF Init
<1>2. ~lx.unlexed
  BY <1>1 DEF calloced
<1>3. heard \in Seq(STRING) /\ StackOK(stack)
  BY <1>1, StackEmpty
<1>4. TypeInv /\ PlaceInv
  BY <1>1, <1>3 DEF TypeInv, PlaceInv
<1>5. PutBackOK(lx) /\ ParityInv
  BY <1>1, <1>2 DEF PutBackOK, ParityInv
<1> QED BY <1>1, <1>4, <1>5 DEF Inv

\* Every step keeps the inductive invariant, if the lexer counts its words.
LEMMA NextInv ==
  ASSUME Inv, LexerCountsWords, [Next]_vars
  PROVE  Inv'
<1>1. CASE Step
  BY <1>1, ConfOpenInv, ConfNewLineInv, ConfStatementInv, ConfEndInv, ConfFailedInv, ConfCallInv,
     ConfTerminatorInv, ConfNoTerminatorInv, CommandExpectedInv, CommandUnknownInv,
     CommandFoundInv, CommandWordInv, CommandIgnoresInv, CommandBuiltInv, BindKeyInv,
     BindTooManyKeysInv, BindCommandInv, UnboundTypeInv, UnboundCommandInv, BindReturnInv,
     GroupNewLineInv, GroupCommandInv, GroupReturnInv, GroupReturnFailedInv, GroupSeparatorInv,
     GroupEndInv, GroupNoSeparatorInv, CrashInv DEF Step
<1>2. CASE UNCHANGED vars
  BY <1>2 DEF vars, Inv, TypeInv, PlaceInv, ParityInv, Ending, Live, Lost, Failed, Given, OwnedInv
<1> QED BY <1>1, <1>2 DEF Next, Finished

\* For every text, every number of nested commands and every limit: if the lexer counts
\* its words as the run that checks LexerCountsWords finds it to do, and the tokens are
\* passed around by the functions of command_parse.c as they are, a configuration that
\* is read without complaint has been executed to the last word.
THEOREM WordsCorrect == Spec /\ []LexerCountsWords => []NoWordIsLost
<1>1. Init => Inv
  BY InitInv
<1>2. Inv /\ LexerCountsWords /\ [Next]_vars => Inv'
  BY NextInv
<1>3. Inv => NoWordIsLost
  <2> SUFFICES ASSUME Inv, pc = "ok", dropped = {} PROVE heard = lx.words
    BY DEF NoWordIsLost
  <2>1. Live /\ ~Lost /\ Given = <<>>
    BY DEF Live, Lost, Given
  <2>2. LexerOK(lx) /\ ~lx.unlexed /\ stack = <<>> /\ heard \in Seq(STRING) /\ PutBackOK(lx)
    BY <2>1 DEF Inv, TypeInv, PlaceInv
  <2>3. OwnedBy(lx, heard, <<>>, <<>>)
    BY <2>1, <2>2 DEF Inv, OwnedInv
  <2> QED BY <2>2, <2>3, NothingGiven, AllHeard
<1> QED BY <1>1, <1>2, <1>3, PTL DEF Spec
=============================================================================
