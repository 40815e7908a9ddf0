------------------------ MODULE OwnershipData_proofs ------------------------
(***************************************************************************)
(* What Ownership is built from, as facts about data: the tree of bindings *)
(* and what bind and unbind make of it, the pointers to commands and their *)
(* counts, and what the parser allocates.  What is said of every number is *)
(* shown with the least one of which it is false (Induction).              *)
(***************************************************************************)
EXTENDS Ownership, TLAPS, FiniteSetTheorems, SequenceTheorems, WellFoundedInduction

-----------------------------------------------------------------------------
(* Natural numbers and sequences. *)

\* A set of natural numbers has a least element.
LEMMA LeastNat ==
  ASSUME NEW T, T \subseteq Nat, T # {}
  PROVE  \E m \in T: \A n \in T: m <= n
<1> DEFINE R == OpToRel(<, Nat)
<1>1. IsWellFoundedOn(R, Nat)
  BY NatLessThanWellFounded
<1> HIDE DEF R
<1>2. PICK m \in T: \A n \in T: ~ (<<n, m>> \in R)
  BY <1>1, WFMin
<1>3. \A n \in T: <<n, m>> \in R <=> n < m
  BY DEF R, OpToRel
<1>4. m \in Nat /\ \A n \in T: n \in Nat /\ ~(n < m)
  BY <1>2, <1>3
<1> QED BY <1>4

\* What holds for 0, and for n + 1 if for n, holds for all.
LEMMA Induction ==
  ASSUME NEW T, NEW m \in Nat, 0 \in T, \A n \in 0..m - 1: n \in T => n + 1 \in T
  PROVE  \A n \in 0..m: n \in T
<1> DEFINE U == {n \in 0..m: n \notin T}
<1>1. SUFFICES ASSUME U # {} PROVE FALSE
  OBVIOUS
<1>5. U \subseteq Nat
  OBVIOUS
<1>2. PICK n \in U: \A k \in U: n <= k
  BY <1>1, <1>5, LeastNat
<1>3. n \in 0..m /\ n # 0 /\ n \notin T
  BY <1>2
<1>4. n - 1 \in 0..m - 1 /\ (n - 1) + 1 = n /\ n - 1 \notin U
  BY <1>2, <1>3
<1> QED BY <1>3, <1>4

\* One sequence behind another.
LEMMA Joined ==
  ASSUME NEW S, NEW s \in Seq(S), NEW t \in Seq(S)
  PROVE  /\ s \o t \in Seq(S) /\ Len(s \o t) = Len(s) + Len(t)
         /\ \A i \in 1..Len(s) + Len(t): (s \o t)[i] = IF i <= Len(s) THEN s[i] ELSE t[i - Len(s)]
         /\ \A i \in 1..Len(s): (s \o t)[i] = s[i]
         /\ \A i \in 1..Len(t): (s \o t)[Len(s) + i] = t[i]
<1>1. /\ s \o t \in Seq(S) /\ Len(s \o t) = Len(s) + Len(t)
      /\ \A i \in 1..Len(s) + Len(t): (s \o t)[i] = IF i <= Len(s) THEN s[i] ELSE t[i - Len(s)]
  BY ConcatProperties
<1>2. Len(s) \in Nat /\ Len(t) \in Nat
  OBVIOUS
<1> DEFINE u == s \o t
<1> HIDE DEF u
<1>3. \A i \in 1..Len(s): u[i] = s[i]
  BY <1>1, <1>2 DEF u
<1>4. \A i \in 1..Len(t): u[Len(s) + i] = t[i]
  BY <1>1, <1>2 DEF u
<1> QED BY <1>1, <1>3, <1>4 DEF u

\* A function of the first numbers is a sequence.
LEMMA FunctionIsSeq ==
  ASSUME NEW S, NEW n \in Nat, NEW f \in [1..n -> S]
  PROVE  f \in Seq(S) /\ Len(f) = n
OBVIOUS

\* A frame on top of the stack.
LEMMA Pushed ==
  ASSUME NEW S, NEW s \in Seq(S), NEW f \in S
  PROVE  LET t == <<f>> \o s IN
         /\ t \in Seq(S) /\ Len(t) = Len(s) + 1 /\ t # <<>> /\ t[1] = f
         /\ Head(t) = f /\ Tail(t) = s /\ t[Len(t)] = IF s = <<>> THEN f ELSE s[Len(s)]
         /\ \A i \in 1..Len(s): t[i + 1] = s[i]
         /\ \A i \in 2..Len(t): t[i] = s[i - 1]
<1> DEFINE t == <<f>> \o s
<1>1. <<f>> \in Seq(S) /\ Len(<<f>>) = 1 /\ Len(s) \in Nat
  OBVIOUS
<1>2. t \in Seq(S) /\ Len(t) = Len(s) + 1
  BY <1>1
<1>3. t[1] = f /\ \A i \in 1..Len(s): t[i + 1] = s[i]
  BY <1>1
<1>4. t # <<>> /\ Head(t) = f
  BY <1>1, <1>2, <1>3
<1> HIDE DEF t
<1>5. Tail(t) = s
  <2>1. Tail(t) \in Seq(S) /\ Len(Tail(t)) = Len(s)
    BY <1>1, <1>2, <1>4
  <2>2. \A i \in 1..Len(s): Tail(t)[i] = t[i + 1]
    BY <1>2, <1>4, <2>1
  <2> QED BY <1>1, <1>3, <2>1, <2>2, SeqEqual
<1>6. \A i \in 2..Len(t): t[i] = s[i - 1]
  <2>1. ASSUME NEW i \in 2..Len(t) PROVE t[i] = s[i - 1]
    <3>1. i - 1 \in 1..Len(s) /\ (i - 1) + 1 = i
      BY <1>1, <1>2
    <3> QED BY <1>3, <3>1
  <2> QED BY <2>1
<1>7. t[Len(t)] = IF s = <<>> THEN f ELSE s[Len(s)]
  <2>1. CASE s = <<>>
    BY <1>1, <1>2, <1>3, <2>1
  <2>2. CASE s # <<>>
    <3>1. Len(s) \in 1..Len(s)
      BY <1>1, <2>2
    <3> QED BY <1>2, <1>3, <2>2, <3>1
  <2> QED BY <2>1, <2>2
<1> QED BY <1>2, <1>3, <1>4, <1>5, <1>6, <1>7 DEF t

\* The frame on top is taken away.
LEMMA Popped ==
  ASSUME NEW S, NEW s \in Seq(S), s # <<>>
  PROVE  /\ Tail(s) \in Seq(S) /\ Len(Tail(s)) = Len(s) - 1 /\ Head(s) = s[1] /\ Head(s) \in S
         /\ Len(s) \in Nat \ {0}
         /\ Tail(s) = <<>> <=> Len(s) = 1
         /\ \A i \in 1..Len(s) - 1: Tail(s)[i] = s[i + 1]
<1>1. Len(s) \in Nat \ {0} /\ Head(s) = s[1] /\ s[1] \in S
  OBVIOUS
<1>2. Tail(s) \in Seq(S) /\ Len(Tail(s)) = Len(s) - 1
  OBVIOUS
<1>3. \A i \in 1..Len(s) - 1: Tail(s)[i] = s[i + 1]
  BY <1>2
<1>4. Tail(s) = <<>> <=> Len(s) = 1
  <2> DEFINE t == Tail(s)
  <2>1. t \in Seq(S) /\ Len(t) = Len(s) - 1
    BY <1>2
  <2> HIDE DEF t
  <2>2. t = <<>> <=> Len(t) = 0
    BY <2>1, EmptySeq
  <2> QED BY ONLY <1>1, <2>1, <2>2 DEF t
<1> QED BY <1>1, <1>2, <1>3, <1>4

-----------------------------------------------------------------------------
(* The way along keys. *)

StepOf(N, keys, f, i) ==
  CASE i = 0 -> Root
    [] i > 0 /\ f[i - 1] = Null -> Null
    [] OTHER -> N[f[i - 1]].bindings[keys[i]]
WayOf(N, keys) == CHOOSE f: f = [i \in 0..Len(keys) |-> StepOf(N, keys, f, i)]

\* The way can be computed.
LEMMA WayExists ==
  ASSUME NEW N, NEW keys \in Seq(Keys)
  PROVE  WayOf(N, keys) = [i \in 0..Len(keys) |-> StepOf(N, keys, WayOf(N, keys), i)]
<1> DEFINE Is(f, n) == f = [i \in 0..n |-> StepOf(N, keys, f, i)]
<1> DEFINE T == {n \in Nat: \E f: Is(f, n)}
<1>1. Len(keys) \in Nat
  OBVIOUS
<1>2. 0 \in T
  <2> DEFINE f == [i \in 0..0 |-> Root]
  <2>1. \A i \in 0..0: StepOf(N, keys, f, i) = Root
    BY DEF StepOf
  <2>2. Is(f, 0)
    BY <2>1
  <2> QED BY <2>2
<1>3. ASSUME NEW n \in Nat, n \in T PROVE n + 1 \in T
  <2>1. PICK f: Is(f, n)
    BY <1>3
  <2> DEFINE g == [i \in 0..n + 1 |-> IF i <= n THEN f[i] ELSE StepOf(N, keys, f, n + 1)]
  <2> HIDE DEF Is
  <2>2. \A i \in 0..n: g[i] = f[i]
    OBVIOUS
  <2>3. \A i \in 0..n: f[i] = StepOf(N, keys, f, i)
    BY <2>1 DEF Is
  <2>4. ASSUME NEW i \in 0..n + 1 PROVE StepOf(N, keys, g, i) = StepOf(N, keys, f, i)
    <3>1. CASE i = 0
      BY <3>1 DEF StepOf
    <3>2. CASE i # 0
      <4>1. i - 1 \in 0..n
        BY <3>2
      <4>2. g[i - 1] = f[i - 1]
        BY <2>2, <4>1
      <4> HIDE DEF g
      <4> QED BY <4>2 DEF StepOf
    <3> QED BY <3>1, <3>2
  <2>5. \A i \in 0..n + 1: g[i] = StepOf(N, keys, f, i)
    <3>1. ASSUME NEW i \in 0..n + 1 PROVE g[i] = StepOf(N, keys, f, i)
      <4>1. CASE i <= n
        BY <2>3, <4>1
      <4>2. CASE ~(i <= n)
        <5>1. i = n + 1
          BY <4>2
        <5> QED BY <4>2, <5>1
      <4> QED BY <4>1, <4>2
    <3> QED BY <3>1
  <2>6. g = [i \in 0..n + 1 |-> StepOf(N, keys, g, i)]
    <3>1. g = [i \in 0..n + 1 |-> g[i]]
      OBVIOUS
    <3>2. \A i \in 0..n + 1: g[i] = StepOf(N, keys, g, i)
      BY <2>4, <2>5
    <3> HIDE DEF g
    <3> QED BY <3>1, <3>2
  <2> HIDE DEF g
  <2> QED BY <2>6 DEF Is
<1> HIDE DEF T
<1>4. Len(keys) \in T
  <2>1. \A n \in 0..Len(keys) - 1: n \in T => n + 1 \in T
    BY <1>1, <1>3
  <2>2. \A n \in 0..Len(keys): n \in T
    BY <1>1, <1>2, <2>1, Induction
  <2> QED BY <1>1, <2>2
<1>5. PICK f: Is(f, Len(keys))
  BY <1>4 DEF T
<1> QED BY <1>5 DEF WayOf

\* Each node on the way is the one that the node before it has for the key.
LEMMA WayIs ==
  ASSUME NEW N, NEW keys \in Seq(Keys)
  PROVE  LET w == WayOf(N, keys) IN
         /\ DOMAIN w = 0..Len(keys) /\ w[0] = Root
         /\ \A i \in 1..Len(keys): w[i] = IF w[i - 1] = Null THEN Null ELSE N[w[i - 1]].bindings[keys[i]]
<1> DEFINE w == WayOf(N, keys)
<1>1. w = [i \in 0..Len(keys) |-> StepOf(N, keys, w, i)]
  BY WayExists
<1> HIDE DEF w
<1>2. \A i \in 0..Len(keys): w[i] = StepOf(N, keys, w, i)
  BY <1>1
<1>3. DOMAIN w = 0..Len(keys)
  BY <1>1
<1>4. w[0] = Root
  BY <1>2 DEF StepOf
<1>5. \A i \in 1..Len(keys): w[i] = IF w[i - 1] = Null THEN Null ELSE N[w[i - 1]].bindings[keys[i]]
  BY <1>2 DEF StepOf
<1> QED BY <1>3, <1>4, <1>5 DEF w

\* Way is the way in the nodes of a state, here and in the next one.
LEMMA WayDef ==
  ASSUME NEW keys
  PROVE  Way(keys) = WayOf(nodes, keys) /\ Way(keys)' = WayOf(nodes', keys)
BY DEF Way, WayOf, StepOf

-----------------------------------------------------------------------------
(* The tree of bindings. *)

LinksOK(N) ==
  /\ N \in Seq(Nodes \cup {Freed})
  /\ \A n \in DOMAIN N: N[n] # Freed => \A k \in Keys: N[n].bindings[k] # Null =>
       N[n].bindings[k] \in n + 1..Len(N) /\ N[N[n].bindings[k]] # Freed
ParentsOK(N) ==
  \A n, m \in DOMAIN N: \A k, j \in Keys:
    N[n] # Freed /\ N[m] # Freed /\ N[n].bindings[k] # Null
      /\ N[m].bindings[j] = N[n].bindings[k] => m = n /\ j = k
TreeOK(N) == N # <<>> /\ N[Root] # Freed /\ LinksOK(N) /\ ParentsOK(N)

\* A node that was not freed, and its number.
LEMMA NodeIs ==
  ASSUME NEW N, N \in Seq(Nodes \cup {Freed}), NEW n \in DOMAIN N
  PROVE  /\ DOMAIN N = 1..Len(N) /\ Len(N) \in Nat /\ n \in Nat /\ n # Null
         /\ N[n] # Freed => N[n] \in Nodes
<1>1. DOMAIN N = 1..Len(N) /\ Len(N) \in Nat /\ N[n] \in Nodes \cup {Freed}
  OBVIOUS
<1> QED BY <1>1, NoAddressAssumption

\* The way leads from the root through nodes that exist, to ever higher numbers.
LEMMA WayInTree ==
  ASSUME NEW N, TreeOK(N), NEW keys \in Seq(Keys)
  PROVE  LET w == WayOf(N, keys) IN
         /\ \A i \in 0..Len(keys): w[i] # Null => w[i] \in DOMAIN N /\ N[w[i]] # Freed /\ w[i] >= i + 1
         /\ \A i \in 1..Len(keys): w[i] # Null =>
              /\ w[i - 1] # Null /\ w[i] = N[w[i - 1]].bindings[keys[i]]
              /\ keys[i] \in Keys /\ w[i - 1] < w[i]
<1> DEFINE w == WayOf(N, keys)
<1>1. /\ w[0] = Root
      /\ \A i \in 1..Len(keys): w[i] = IF w[i - 1] = Null THEN Null ELSE N[w[i - 1]].bindings[keys[i]]
  BY WayIs
<1> HIDE DEF w
<1>2. Len(keys) \in Nat /\ \A i \in 1..Len(keys): keys[i] \in Keys
  OBVIOUS
<1>3. DOMAIN N = 1..Len(N) /\ Len(N) \in Nat \ {0}
  BY DEF TreeOK, LinksOK
<1> DEFINE T == {i \in 0..Len(keys): w[i] # Null => w[i] \in DOMAIN N /\ N[w[i]] # Freed /\ w[i] >= i + 1}
<1>4. 0 \in T
  BY <1>1, <1>2, <1>3 DEF Root, TreeOK
<1>5. ASSUME NEW i \in 1..Len(keys), i - 1 \in T, w[i] # Null
      PROVE  /\ w[i] \in DOMAIN N /\ N[w[i]] # Freed /\ w[i] >= i + 1
             /\ w[i - 1] # Null /\ w[i] = N[w[i - 1]].bindings[keys[i]] /\ w[i - 1] < w[i]
  <2>1. w[i - 1] # Null /\ w[i] = N[w[i - 1]].bindings[keys[i]]
    BY <1>1, <1>5
  <2>2. w[i - 1] \in DOMAIN N /\ N[w[i - 1]] # Freed /\ w[i - 1] >= i /\ w[i - 1] \in Nat
    BY <1>3, <1>5, <2>1
  <2>3. keys[i] \in Keys
    BY <1>2
  <2>4. w[i] \in w[i - 1] + 1..Len(N) /\ N[w[i]] # Freed
    BY <1>5, <2>1, <2>2, <2>3 DEF TreeOK, LinksOK
  <2> QED BY <1>3, <2>1, <2>2, <2>4
<1>6. \A n \in 0..Len(keys) - 1: n \in T => n + 1 \in T
  <2>1. ASSUME NEW n \in 0..Len(keys) - 1, n \in T PROVE n + 1 \in T
    <3>1. n + 1 \in 1..Len(keys) /\ (n + 1) - 1 = n
      BY <1>2
    <3>2. (n + 1) - 1 \in T
      BY <2>1, <3>1
    <3>3. w[n + 1] # Null => w[n + 1] \in DOMAIN N /\ N[w[n + 1]] # Freed /\ w[n + 1] >= (n + 1) + 1
      BY <1>5, <3>1, <3>2
    <3>4. n + 1 \in 0..Len(keys)
      BY <3>1, <1>2
    <3> QED BY <3>3, <3>4
  <2> QED BY <2>1
<1>7. \A i \in 0..Len(keys): i \in T
  <2> HIDE DEF T
  <2> QED BY <1>2, <1>4, <1>6, Induction
<1>8. \A i \in 1..Len(keys): i - 1 \in T
  BY <1>2, <1>7
<1> QED BY <1>2, <1>5, <1>7, <1>8 DEF w

TreeWay(N, keys, w) ==
  /\ w[0] = Root
  /\ \A i \in 1..Len(keys): w[i] = IF w[i - 1] = Null THEN Null ELSE N[w[i - 1]].bindings[keys[i]]
  /\ \A i \in 0..Len(keys): w[i] # Null => w[i] \in DOMAIN N /\ N[w[i]] # Freed /\ w[i] >= i + 1
  /\ \A i \in 1..Len(keys): w[i] # Null =>
       /\ w[i - 1] # Null /\ w[i] = N[w[i - 1]].bindings[keys[i]]
       /\ keys[i] \in Keys /\ w[i - 1] < w[i]

\* WayIs and WayInTree, together.
LEMMA WayFacts ==
  ASSUME NEW N, TreeOK(N), NEW keys \in Seq(Keys)
  PROVE  TreeWay(N, keys, WayOf(N, keys))
BY WayIs, WayInTree DEF TreeWay

\* Where there is no node, there is none further on.
LEMMA WayEnds ==
  ASSUME NEW N, NEW keys \in Seq(Keys), NEW i \in 0..Len(keys), NEW j \in i..Len(keys),
         WayOf(N, keys)[i] = Null
  PROVE  WayOf(N, keys)[j] = Null
<1> DEFINE w == WayOf(N, keys)
<1>1. \A h \in 1..Len(keys): w[h] = IF w[h - 1] = Null THEN Null ELSE N[w[h - 1]].bindings[keys[h]]
  BY WayIs
<1>0. w[i] = Null
  OBVIOUS
<1> HIDE DEF w
<1>2. Len(keys) \in Nat
  OBVIOUS
<1> DEFINE T == {n \in Nat: i + n <= Len(keys) => w[i + n] = Null}
<1>3. 0 \in T
  BY <1>0
<1>4. \A n \in 0..(j - i) - 1: n \in T => n + 1 \in T
  <2>1. ASSUME NEW n \in 0..(j - i) - 1, n \in T PROVE n + 1 \in T
    <3>1. i + (n + 1) \in 1..Len(keys) /\ (i + (n + 1)) - 1 = i + n
      BY <1>2
    <3>2. w[i + n] = Null
      BY <1>2, <2>1, <3>1
    <3>3. w[i + (n + 1)] = Null
      BY <1>1, <3>1, <3>2
    <3> QED BY <3>3
  <2> QED BY <2>1
<1>5. j - i \in Nat /\ i + (j - i) = j
  BY <1>2
<1> HIDE DEF T
<1>6. j - i \in T
  <2>1. \A n \in 0..j - i: n \in T
    BY <1>3, <1>4, <1>5, Induction
  <2> QED BY <1>5, <2>1
<1> QED BY <1>2, <1>5, <1>6 DEF T, w

\* Two ways to a node are one.
LEMMA WayUnique ==
  ASSUME NEW N, TreeOK(N), NEW keys \in Seq(Keys), NEW others \in Seq(Keys),
         NEW i \in 0..Len(keys), NEW j \in 0..Len(others),
         WayOf(N, keys)[i] # Null, WayOf(N, keys)[i] = WayOf(N, others)[j]
  PROVE  i = j /\ \A h \in 1..i: keys[h] = others[h]
<1> DEFINE w == WayOf(N, keys)
<1> DEFINE v == WayOf(N, others)
<1>1. /\ w[0] = Root
      /\ \A h \in 0..Len(keys): w[h] # Null => w[h] \in DOMAIN N /\ N[w[h]] # Freed /\ w[h] >= h + 1
      /\ \A h \in 1..Len(keys): w[h] # Null =>
              w[h - 1] # Null /\ w[h] = N[w[h - 1]].bindings[keys[h]] /\ keys[h] \in Keys
  BY WayInTree, WayIs
<1>2. /\ v[0] = Root
      /\ \A h \in 0..Len(others): v[h] # Null => v[h] \in DOMAIN N /\ N[v[h]] # Freed /\ v[h] >= h + 1
      /\ \A h \in 1..Len(others): v[h] # Null =>
              v[h - 1] # Null /\ v[h] = N[v[h - 1]].bindings[others[h]] /\ others[h] \in Keys
  BY WayInTree, WayIs
<1>0. w[i] # Null /\ w[i] = v[j]
  OBVIOUS
<1> HIDE DEF w, v
<1>3. Len(keys) \in Nat /\ Len(others) \in Nat /\ DOMAIN N = 1..Len(N) /\ Len(N) \in Nat
  BY DEF TreeOK, LinksOK
<1> DEFINE T == {n \in Nat: n <= i => \A m \in 0..Len(others): w[n] # Null /\ w[n] = v[m] =>
                                n = m /\ \A h \in 1..n: keys[h] = others[h]}
<1>4. 0 \in T
  <2>1. ASSUME NEW m \in 0..Len(others), w[0] # Null, w[0] = v[m] PROVE 0 = m
    BY <1>1, <1>2, <1>3, <2>1 DEF Root
  <2> QED BY <2>1
<1>5. \A n \in 0..i - 1: n \in T => n + 1 \in T
  <2>1. ASSUME NEW n \in 0..i - 1, n \in T, NEW m \in 0..Len(others), w[n + 1] # Null, w[n + 1] = v[m]
        PROVE  n + 1 = m /\ \A h \in 1..n + 1: keys[h] = others[h]
    <3>1. n + 1 \in 1..Len(keys) /\ (n + 1) - 1 = n /\ n \in 0..Len(keys)
      BY <1>3
    <3>2. /\ w[n] # Null /\ w[n + 1] = N[w[n]].bindings[keys[n + 1]] /\ keys[n + 1] \in Keys
          /\ w[n + 1] >= (n + 1) + 1 /\ w[n] \in DOMAIN N /\ N[w[n]] # Freed
      BY <1>1, <1>3, <2>1, <3>1
    <3>3. m # 0
      <4>1. w[n + 1] \in Nat /\ w[n + 1] # 1
        <5>1. w[n + 1] \in 1..Len(N)
          BY <1>1, <1>3, <2>1, <3>1
        <5>2. n \in Nat
          BY <1>3
        <5> DEFINE x == w[n + 1]
        <5>3. x \in Nat /\ x >= (n + 1) + 1
          BY <1>3, <3>2, <5>1
        <5> HIDE DEF x
        <5>4. x # 1
          BY ONLY <5>2, <5>3
        <5> QED BY ONLY <5>3, <5>4 DEF x
      <4> QED BY <1>2, <2>1, <4>1 DEF Root
    <3>4. m \in 1..Len(others) /\ m - 1 \in 0..Len(others)
      BY <1>3, <3>3
    <3>5. /\ v[m - 1] # Null /\ v[m] = N[v[m - 1]].bindings[others[m]] /\ others[m] \in Keys
          /\ v[m - 1] \in DOMAIN N /\ N[v[m - 1]] # Freed
      BY <1>2, <2>1, <3>4
    <3>6. v[m - 1] = w[n] /\ others[m] = keys[n + 1]
      <4>1. N[w[n]].bindings[keys[n + 1]] # Null
        BY <2>1, <3>2
      <4>2. N[v[m - 1]].bindings[others[m]] = N[w[n]].bindings[keys[n + 1]]
        BY <2>1, <3>2, <3>5
      <4>3. ParentsOK(N)
        BY DEF TreeOK
      <4> QED BY <3>2, <3>5, <4>1, <4>2, <4>3 DEF ParentsOK
    <3>7. n = m - 1 /\ \A h \in 1..n: keys[h] = others[h]
      <4>1. n <= i /\ n \in Nat
        BY <1>3
      <4>2. \A l \in 0..Len(others): w[n] # Null /\ w[n] = v[l] =>
                                n = l /\ \A h \in 1..n: keys[h] = others[h]
        BY ONLY <2>1, <4>1
      <4> QED BY <3>2, <3>4, <3>6, <4>2
    <3>8. \A h \in 1..n + 1: h \in 1..n \/ h = n + 1
      BY <3>1
    <3>9. n + 1 = m
      BY <1>3, <3>4, <3>7
    <3>10. keys[n + 1] = others[n + 1]
      BY <3>6, <3>9
    <3>11. \A h \in 1..n + 1: keys[h] = others[h]
      BY ONLY <3>7, <3>8, <3>10
    <3> QED BY <3>9, <3>11
  <2>2. ASSUME NEW n \in 0..i - 1, n \in T PROVE n + 1 \in T
    <3>1. n + 1 \in Nat
      BY <1>3
    <3>2. \A m \in 0..Len(others): w[n + 1] # Null /\ w[n + 1] = v[m] =>
                                       n + 1 = m /\ \A h \in 1..n + 1: keys[h] = others[h]
      <4> HIDE DEF T
      <4> QED BY <2>1, <2>2
    <3> QED BY ONLY <3>1, <3>2
  <2> HIDE DEF T
  <2> QED BY ONLY <2>2
<1>6. i \in T
  <2>1. i \in Nat /\ i \in 0..i
    BY <1>3
  <2> HIDE DEF T
  <2> QED BY <1>4, <1>5, <2>1, Induction
<1> QED BY <1>0, <1>6

-----------------------------------------------------------------------------
(* bind in the tree of bindings. *)

DepthOf(N, keys) ==
  CHOOSE d \in 0..Len(keys): /\ WayOf(N, keys)[d] # Null
                             /\ d < Len(keys) => WayOf(N, keys)[d + 1] = Null
BindOf(N, keys) ==
  LET depth == DepthOf(N, keys)
      last == WayOf(N, keys)[depth]
      missing == Len(keys) - depth
      Made(i) ==
        [NewNode EXCEPT !.bindings =
           [k \in Keys |-> IF i < missing /\ k = keys[depth + i + 1] THEN Len(N) + i + 1
                                                                   ELSE Null]]
  IN IF missing = 0 THEN [N EXCEPT ![last].command = Null]
     ELSE [N EXCEPT ![last].bindings[keys[depth + 1]] = Len(N) + 1]
            \o [i \in 1..missing |-> Made(i)]

\* BindNodes is what bind makes of the nodes of a state.
LEMMA BindDef ==
  ASSUME NEW keys
  PROVE  BindNodes(keys) = BindOf(nodes, keys) /\ Depth(keys) = DepthOf(nodes, keys)
<1>1. Depth(keys) = DepthOf(nodes, keys)
  BY WayDef DEF Depth, DepthOf
<1> QED BY <1>1, WayDef DEF BindNodes, BindOf

\* The nodes of a chain of keys are those of its first keys.
LEMMA DepthIs ==
  ASSUME NEW N, NEW keys \in Seq(Keys)
  PROVE  LET d == DepthOf(N, keys)
             w == WayOf(N, keys) IN
         /\ d \in 0..Len(keys)
         /\ \A i \in 0..d: w[i] # Null
         /\ \A i \in d + 1..Len(keys): w[i] = Null
<1> DEFINE w == WayOf(N, keys)
<1> DEFINE T == {n \in Nat: n <= Len(keys) /\ (n < Len(keys) => w[n + 1] = Null)}
<1>1. w[0] = Root /\ Root # Null
  BY WayIs, NoAddressAssumption DEF Root
<1>2. Len(keys) \in Nat
  OBVIOUS
<1>3. T \subseteq Nat /\ Len(keys) \in T
  BY <1>2
<1>4. PICK d \in T: \A n \in T: d <= n
  BY <1>3, LeastNat
<1>5. d \in 0..Len(keys) /\ (d < Len(keys) => w[d + 1] = Null)
  BY <1>2, <1>4
<1>6. w[d] # Null
  <2>1. CASE d = 0
    BY <1>1, <2>1
  <2>2. CASE d # 0
    <3>1. d - 1 \in Nat /\ d - 1 < Len(keys) /\ (d - 1) + 1 = d
      BY <1>2, <1>5, <2>2
    <3>2. d - 1 \notin T
      BY <1>4, <3>1
    <3> QED BY <3>1, <3>2
  <2> QED BY <2>1, <2>2
<1>7. /\ DepthOf(N, keys) \in 0..Len(keys) /\ w[DepthOf(N, keys)] # Null
      /\ DepthOf(N, keys) < Len(keys) => w[DepthOf(N, keys) + 1] = Null
  BY <1>5, <1>6 DEF DepthOf
<1> HIDE DEF w
<1>8. \A i \in 0..DepthOf(N, keys): w[i] # Null
  <2>1. ASSUME NEW i \in 0..DepthOf(N, keys), w[i] = Null PROVE FALSE
    <3>1. i \in 0..Len(keys) /\ DepthOf(N, keys) \in i..Len(keys)
      BY <1>2, <1>7
    <3>2. w[DepthOf(N, keys)] = Null
      BY <2>1, <3>1, WayEnds DEF w
    <3> QED BY <1>7, <3>2
  <2> QED BY <2>1
<1>9. \A i \in DepthOf(N, keys) + 1..Len(keys): w[i] = Null
  <2>1. ASSUME NEW i \in DepthOf(N, keys) + 1..Len(keys) PROVE w[i] = Null
    <3>1. DepthOf(N, keys) + 1 \in 0..Len(keys) /\ i \in (DepthOf(N, keys) + 1)..Len(keys)
      BY <1>2, <1>7
    <3>2. w[DepthOf(N, keys) + 1] = Null
      BY <1>2, <1>7, <3>1
    <3> QED BY <3>1, <3>2, WayEnds DEF w
  <2> QED BY <2>1
<1> QED BY <1>7, <1>8, <1>9 DEF w

\* What bind makes of the nodes, one by one.
Grown(N, keys, M, d, last) ==
  /\ M \in Seq(Nodes \cup {Freed}) /\ Len(M) = Len(N) + (Len(keys) - d)
  /\ d \in 0..Len(keys) /\ last \in 1..Len(N) /\ N[last] # Freed
  /\ \A n \in 1..Len(N): n # last => M[n] = N[n]
  /\ M[last] # Freed
  /\ d = Len(keys) => M[last].command = Null /\ M[last].bindings = N[last].bindings
  /\ d < Len(keys) =>
       /\ M[last].command = N[last].command /\ N[last].bindings[keys[d + 1]] = Null
       /\ M[last].bindings = [N[last].bindings EXCEPT ![keys[d + 1]] = Len(N) + 1]
  /\ \A i \in 1..Len(keys) - d:
       /\ M[Len(N) + i] # Freed /\ M[Len(N) + i].command = Null
       /\ M[Len(N) + i].bindings =
            [k \in Keys |-> IF i < Len(keys) - d /\ k = keys[d + i + 1] THEN Len(N) + i + 1 ELSE Null]

\* What bind makes of the nodes is what Grown says.
LEMMA BindIs ==
  ASSUME NEW N, TreeOK(N), NEW keys \in Seq(Keys), keys # <<>>
  PROVE  Grown(N, keys, BindOf(N, keys), DepthOf(N, keys), WayOf(N, keys)[DepthOf(N, keys)])
<1> DEFINE d == DepthOf(N, keys)
<1> DEFINE last == WayOf(N, keys)[d]
<1> DEFINE M == BindOf(N, keys)
<1> DEFINE missing == Len(keys) - d
<1> DEFINE Links(i) == [k \in Keys |-> IF i < missing /\ k = keys[d + i + 1] THEN Len(N) + i + 1 ELSE Null]
<1> DEFINE Made(i) == [NewNode EXCEPT !.bindings = Links(i)]
<1>1. /\ d \in 0..Len(keys) /\ last # Null
      /\ d < Len(keys) => WayOf(N, keys)[d + 1] = Null
  <2>1. Len(keys) \in Nat
    OBVIOUS
  <2> QED BY <2>1, DepthIs
<1>2. Len(keys) \in Nat \ {0} /\ \A i \in 1..Len(keys): keys[i] \in Keys
  OBVIOUS
<1>3. /\ last \in DOMAIN N /\ N[last] # Freed
      /\ d < Len(keys) => N[last].bindings[keys[d + 1]] = Null
  <2>1. last \in DOMAIN N /\ N[last] # Freed
    BY <1>1, WayInTree
  <2>2. ASSUME d < Len(keys) PROVE N[last].bindings[keys[d + 1]] = Null
    <3>1. d + 1 \in 1..Len(keys) /\ (d + 1) - 1 = d
      BY <1>1, <1>2, <2>2
    <3> QED BY <1>1, <2>2, <3>1, WayIs
  <2> QED BY <2>1, <2>2
<1>4. N \in Seq(Nodes \cup {Freed}) /\ DOMAIN N = 1..Len(N) /\ Len(N) \in Nat \ {0}
  BY DEF TreeOK, LinksOK
<1>5. N[last] \in Nodes
  BY <1>3, <1>4, NodeIs
<1>6. M = IF missing = 0 THEN [N EXCEPT ![last].command = Null]
          ELSE [N EXCEPT ![last].bindings[keys[d + 1]] = Len(N) + 1] \o [i \in 1..missing |-> Made(i)]
  BY DEF BindOf
<1>7. missing \in Nat /\ (missing = 0 <=> d = Len(keys))
  BY <1>1, <1>2
<1>8. \A i \in 1..missing: Links(i) \in [Keys -> Nat \cup {Null}]
  BY <1>4, <1>7
<1>9. \A i \in 1..missing: /\ Made(i) \in Nodes /\ Made(i).command = Null /\ Made(i).bindings = Links(i)
  BY <1>8 DEF NewNode, Nodes
<1>10. Null \in Nat \cup {Null} /\ Len(N) + 1 \in Nat
  BY <1>4
<1>11. Freed \notin Nodes
  BY NoAddressAssumption
<1> HIDE DEF Made, d, last, M, missing
<1>12. CASE missing = 0
  <2>1. M = [N EXCEPT ![last].command = Null]
    BY <1>6, <1>12
  <2>2. [N[last] EXCEPT !.command = Null] \in Nodes
    BY <1>5 DEF Nodes
  <2>3. M = [N EXCEPT ![last] = [N[last] EXCEPT !.command = Null]]
    BY <2>1
  <2>4. M \in Seq(Nodes \cup {Freed}) /\ Len(M) = Len(N)
    BY <1>3, <1>4, <2>2, <2>3
  <2>5. /\ M[last] = [N[last] EXCEPT !.command = Null]
        /\ \A n \in 1..Len(N): n # last => M[n] = N[n]
    BY <1>3, <1>4, <2>3
  <2>6. M[last] # Freed /\ M[last].command = Null /\ M[last].bindings = N[last].bindings
    BY <1>5, <1>11, <2>2, <2>5 DEF Nodes
  <2>7. d = Len(keys) /\ ~(d < Len(keys)) /\ 1..Len(keys) - d = {}
    BY <1>1, <1>2, <1>7, <1>12
  <2> QED BY <1>1, <1>3, <1>4, <2>4, <2>5, <2>6, <2>7 DEF d, last, M, Grown
<1>13. CASE missing # 0
  <2> DEFINE B == [N EXCEPT ![last].bindings[keys[d + 1]] = Len(N) + 1]
  <2> DEFINE C == [i \in 1..missing |-> Made(i)]
  <2>1. M = B \o C
    BY <1>6, <1>13
  <2>2. d < Len(keys) /\ keys[d + 1] \in Keys
    BY <1>1, <1>2, <1>7, <1>13
  <2> DEFINE b == [N[last].bindings EXCEPT ![keys[d + 1]] = Len(N) + 1]
  <2>3. [N[last] EXCEPT !.bindings = b] \in Nodes
    <3>1. N[last].bindings \in [Keys -> Nat \cup {Null}]
      BY <1>5 DEF Nodes
    <3>2. b \in [Keys -> Nat \cup {Null}]
      BY <1>10, <3>1
    <3> HIDE DEF b
    <3> QED BY <1>5, <3>2 DEF Nodes
  <2>4. B = [N EXCEPT ![last] = [N[last] EXCEPT !.bindings = b]]
    OBVIOUS
  <2> HIDE DEF b
  <2>5. B \in Seq(Nodes \cup {Freed}) /\ Len(B) = Len(N)
    BY <1>3, <1>4, <2>3, <2>4
  <2>6. /\ B[last] = [N[last] EXCEPT !.bindings = b]
        /\ \A n \in 1..Len(N): n # last => B[n] = N[n]
    BY <1>3, <1>4, <2>4
  <2>7. B[last] # Freed /\ B[last].command = N[last].command /\ B[last].bindings = b
    BY <1>5, <1>11, <2>3, <2>6 DEF Nodes
  <2> HIDE DEF B
  <2>8. C \in Seq(Nodes \cup {Freed}) /\ Len(C) = missing /\ \A i \in 1..missing: C[i] = Made(i)
    <3>1. \A i \in 1..missing: C[i] = Made(i)
      OBVIOUS
    <3>2. C \in [1..missing -> Nodes \cup {Freed}]
      BY <1>9
    <3> HIDE DEF C
    <3> QED BY <1>7, <3>1, <3>2, FunctionIsSeq
  <2> HIDE DEF C
  <2>9. /\ M \in Seq(Nodes \cup {Freed}) /\ Len(M) = Len(N) + missing
        /\ \A n \in 1..Len(N): M[n] = B[n]
        /\ \A i \in 1..missing: M[Len(N) + i] = C[i]
    <3>1. B \in Seq(Nodes \cup {Freed}) /\ C \in Seq(Nodes \cup {Freed})
      BY <2>5, <2>8
    <3>2. /\ M \in Seq(Nodes \cup {Freed}) /\ Len(M) = Len(B) + Len(C)
          /\ \A i \in 1..Len(B): M[i] = B[i]
          /\ \A i \in 1..Len(C): M[Len(B) + i] = C[i]
      BY <2>1, <3>1, Joined
    <3> QED BY <2>5, <2>8, <3>2
  <2>10. \A i \in 1..missing: M[Len(N) + i] # Freed /\ M[Len(N) + i].command = Null /\ M[Len(N) + i].bindings = Links(i)
    BY <1>9, <1>11, <2>8, <2>9
  <2>11. d # Len(keys)
    BY <1>7, <1>13
  <2>12. \A n \in 1..Len(N): n # last => M[n] = N[n]
    BY <2>6, <2>9
  <2>13. M[last] # Freed /\ M[last].command = N[last].command /\ M[last].bindings = b
    BY <1>3, <1>4, <2>7, <2>9
  <2> QED BY <1>1, <1>3, <1>4, <2>2, <2>9, <2>10, <2>11, <2>12, <2>13 DEF d, last, M, missing, b, Grown
<1> QED BY <1>12, <1>13

\* The links after bind: those that were there, one to the first new node, and
\* those from one new node to the next.
LEMMA BindLinks ==
  ASSUME NEW N, TreeOK(N), NEW keys \in Seq(Keys), keys # <<>>
  PROVE  LET d == DepthOf(N, keys)
             last == WayOf(N, keys)[d]
             M == BindOf(N, keys) IN
         \A n \in DOMAIN M, k \in Keys: M[n] # Freed /\ M[n].bindings[k] # Null =>
           \/ n \in DOMAIN N /\ N[n] # Freed /\ M[n].bindings[k] = N[n].bindings[k] /\ N[n].bindings[k] \in 1..Len(N)
           \/ n = last /\ d < Len(keys) /\ k = keys[d + 1] /\ M[n].bindings[k] = Len(N) + 1
           \/ \E i \in 1..(Len(keys) - d) - 1:
                n = Len(N) + i /\ k = keys[d + i + 1] /\ M[n].bindings[k] = Len(N) + i + 1
<1> DEFINE d == DepthOf(N, keys)
<1> DEFINE last == WayOf(N, keys)[d]
<1> DEFINE M == BindOf(N, keys)
<1>0. Grown(N, keys, M, d, last)
  BY BindIs
<1>1. /\ M \in Seq(Nodes \cup {Freed}) /\ Len(M) = Len(N) + (Len(keys) - d)
      /\ d \in 0..Len(keys) /\ last \in 1..Len(N) /\ N[last] # Freed
      /\ \A n \in 1..Len(N): n # last => M[n] = N[n]
      /\ d = Len(keys) => M[last].bindings = N[last].bindings
      /\ d < Len(keys) =>
              M[last].bindings = [N[last].bindings EXCEPT ![keys[d + 1]] = Len(N) + 1]
      /\ \A i \in 1..Len(keys) - d:
              M[Len(N) + i].bindings =
                   [k \in Keys |-> IF i < Len(keys) - d /\ k = keys[d + i + 1] THEN Len(N) + i + 1 ELSE Null]
  <2> HIDE DEF d, last, M
  <2> QED BY <1>0 DEF Grown
<1>2. Len(keys) \in Nat \ {0}
  OBVIOUS
<1>3. /\ N \in Seq(Nodes \cup {Freed}) /\ DOMAIN N = 1..Len(N) /\ Len(N) \in Nat
      /\ \A n \in DOMAIN N: N[n] # Freed => \A k \in Keys: N[n].bindings[k] # Null => N[n].bindings[k] \in 1..Len(N)
  <2>1. N \in Seq(Nodes \cup {Freed}) /\ DOMAIN N = 1..Len(N) /\ Len(N) \in Nat
    BY DEF TreeOK, LinksOK
  <2> QED BY <2>1 DEF TreeOK, LinksOK
<1>4. N[last].bindings \in [Keys -> Nat \cup {Null}]
  <2>1. N[last] \in Nodes
    BY <1>1, <1>3, NodeIs
  <2> QED BY <2>1 DEF Nodes
<1> HIDE DEF d, last, M
<1>5. DOMAIN M = 1..Len(N) + (Len(keys) - d)
  BY <1>1
<1>6. SUFFICES ASSUME NEW n \in DOMAIN M, NEW k \in Keys, M[n] # Freed, M[n].bindings[k] # Null
               PROVE  \/ n \in DOMAIN N /\ N[n] # Freed /\ M[n].bindings[k] = N[n].bindings[k] /\ N[n].bindings[k] \in 1..Len(N)
                      \/ n = last /\ d < Len(keys) /\ k = keys[d + 1] /\ M[n].bindings[k] = Len(N) + 1
                      \/ \E i \in 1..(Len(keys) - d) - 1:
                          n = Len(N) + i /\ k = keys[d + i + 1] /\ M[n].bindings[k] = Len(N) + i + 1
  BY DEF d, last, M
<1>7. CASE n \in 1..Len(N) /\ n # last
  BY <1>1, <1>3, <1>6, <1>7
<1>8. CASE n = last
  <2>1. CASE d = Len(keys) \/ k # keys[d + 1]
    <3>1. M[n].bindings[k] = N[n].bindings[k]
      BY <1>1, <1>2, <1>4, <1>8, <2>1
    <3> QED BY <1>1, <1>3, <1>6, <1>8, <3>1
  <2>2. CASE d < Len(keys) /\ k = keys[d + 1]
    BY <1>1, <1>4, <1>8, <2>2
  <2> QED BY <1>1, <1>2, <2>1, <2>2
<1>9. CASE n \notin 1..Len(N)
  <2>0. n \in 1..Len(N) + (Len(keys) - d) /\ d \in 0..Len(keys)
    BY <1>1, <1>5, <1>6
  <2>1. n - Len(N) \in 1..Len(keys) - d /\ n = Len(N) + (n - Len(N))
    BY <1>2, <1>3, <1>9, <2>0
  <2> DEFINE i == n - Len(N)
  <2>2. M[n].bindings = [l \in Keys |-> IF i < Len(keys) - d /\ l = keys[d + i + 1] THEN Len(N) + i + 1 ELSE Null]
    BY <1>1, <2>1
  <2>3. i < Len(keys) - d /\ k = keys[d + i + 1] /\ M[n].bindings[k] = Len(N) + i + 1
    BY <1>6, <2>2
  <2>4. i \in 1..(Len(keys) - d) - 1
    BY <1>1, <1>2, <2>1, <2>3
  <2> QED BY <2>1, <2>3, <2>4
<1> QED BY <1>7, <1>8, <1>9

\* bind keeps the tree.
LEMMA BindTree ==
  ASSUME NEW N, TreeOK(N), NEW keys \in Seq(Keys), keys # <<>>
  PROVE  TreeOK(BindOf(N, keys))
<1> DEFINE d == DepthOf(N, keys)
<1> DEFINE last == WayOf(N, keys)[d]
<1> DEFINE M == BindOf(N, keys)
<1>0. Grown(N, keys, M, d, last)
  BY BindIs
<1>1. /\ M \in Seq(Nodes \cup {Freed}) /\ Len(M) = Len(N) + (Len(keys) - d)
      /\ d \in 0..Len(keys) /\ last \in 1..Len(N)
      /\ M[last] # Freed /\ \A n \in 1..Len(N): n # last => M[n] = N[n]
      /\ \A i \in 1..Len(keys) - d: M[Len(N) + i] # Freed
  <2> HIDE DEF d, last, M
  <2> QED BY <1>0 DEF Grown
<1>2. /\ Len(keys) \in Nat \ {0} /\ DOMAIN N = 1..Len(N) /\ Len(N) \in Nat \ {0} /\ N[Root] # Freed
      /\ DOMAIN M = 1..Len(M) /\ Len(M) \in Nat
  BY <1>1 DEF TreeOK, LinksOK
<1>3. \A n \in DOMAIN M, k \in Keys: M[n] # Freed /\ M[n].bindings[k] # Null =>
           \/ n \in DOMAIN N /\ N[n] # Freed /\ M[n].bindings[k] = N[n].bindings[k] /\ N[n].bindings[k] \in 1..Len(N)
           \/ n = last /\ d < Len(keys) /\ k = keys[d + 1] /\ M[n].bindings[k] = Len(N) + 1
           \/ \E i \in 1..(Len(keys) - d) - 1:
                n = Len(N) + i /\ k = keys[d + i + 1] /\ M[n].bindings[k] = Len(N) + i + 1
  BY BindLinks
<1> HIDE DEF d, last, M
<1>4. \A n \in DOMAIN N: N[n] # Freed => M[n] # Freed
  BY <1>1, <1>2
<1>5. M # <<>> /\ M[Root] # Freed
  BY <1>1, <1>2, <1>4 DEF Root
<1>6. LinksOK(M)
  <2>1. ASSUME NEW n \in DOMAIN M, NEW k \in Keys, M[n] # Freed, M[n].bindings[k] # Null
        PROVE  M[n].bindings[k] \in n + 1..Len(M) /\ M[M[n].bindings[k]] # Freed
    <3>1. CASE n \in DOMAIN N /\ N[n] # Freed /\ M[n].bindings[k] = N[n].bindings[k]
      <4>1. N[n].bindings[k] \in n + 1..Len(N) /\ N[N[n].bindings[k]] # Freed
        BY <2>1, <3>1 DEF TreeOK, LinksOK
      <4> QED BY <1>1, <1>2, <1>4, <3>1, <4>1
    <3>2. CASE n = last /\ d < Len(keys) /\ M[n].bindings[k] = Len(N) + 1
      BY <1>1, <1>2, <3>2
    <3>3. ASSUME NEW i \in 1..(Len(keys) - d) - 1, n = Len(N) + i, M[n].bindings[k] = Len(N) + i + 1
          PROVE  M[n].bindings[k] \in n + 1..Len(M) /\ M[M[n].bindings[k]] # Freed
      <4>1. i + 1 \in 1..Len(keys) - d /\ Len(N) + i + 1 = Len(N) + (i + 1)
        BY <1>1, <1>2
      <4>2. M[Len(N) + (i + 1)] # Freed
        BY <1>1, <4>1
      <4> QED BY <1>1, <1>2, <3>3, <4>1, <4>2
    <3> QED BY <1>3, <2>1, <3>1, <3>2, <3>3
  <2> QED BY <1>1, <2>1 DEF LinksOK
<1>7. ParentsOK(M)
  <2>1. ASSUME NEW n \in DOMAIN M, NEW m \in DOMAIN M, NEW k \in Keys, NEW j \in Keys,
               M[n] # Freed, M[m] # Freed, M[n].bindings[k] # Null, M[m].bindings[j] = M[n].bindings[k]
        PROVE  m = n /\ j = k
    <3> DEFINE Old == m \in DOMAIN N /\ N[m] # Freed /\ M[m].bindings[j] = N[m].bindings[j]
                      /\ N[m].bindings[j] \in 1..Len(N)
               Last == m = last /\ d < Len(keys) /\ j = keys[d + 1] /\ M[m].bindings[j] = Len(N) + 1
               Made(i) == m = Len(N) + i /\ j = keys[d + i + 1] /\ M[m].bindings[j] = Len(N) + i + 1
    <3>0. Old \/ Last \/ \E i \in 1..(Len(keys) - d) - 1: Made(i)
      <4>1. M[m].bindings[j] # Null
        BY <2>1
      <4> QED BY <1>3, <2>1, <4>1
    <3>1. CASE n \in DOMAIN N /\ N[n] # Freed /\ M[n].bindings[k] = N[n].bindings[k] /\ N[n].bindings[k] \in 1..Len(N)
      <4>1. m \in DOMAIN N /\ N[m] # Freed /\ M[m].bindings[j] = N[m].bindings[j]
        <5>1. M[m].bindings[j] \in 1..Len(N)
          BY <2>1, <3>1
        <5>2. ~Last
          BY <1>2, <5>1
        <5>3. \A i \in 1..(Len(keys) - d) - 1: ~Made(i)
          <6> SUFFICES ASSUME NEW i \in 1..(Len(keys) - d) - 1, Made(i) PROVE FALSE
            OBVIOUS
          <6>1. i \in Nat
            BY <1>1, <1>2
          <6> QED BY <1>2, <5>1, <6>1
        <5> QED BY <3>0, <5>2, <5>3
      <4> QED BY <2>1, <3>1, <4>1 DEF TreeOK, ParentsOK
    <3>2. CASE n = last /\ d < Len(keys) /\ k = keys[d + 1] /\ M[n].bindings[k] = Len(N) + 1
      <4>1. M[m].bindings[j] = Len(N) + 1
        BY <2>1, <3>2
      <4>2. ~Old
        BY <1>2, <4>1
      <4>3. \A i \in 1..(Len(keys) - d) - 1: ~Made(i)
        <5> SUFFICES ASSUME NEW i \in 1..(Len(keys) - d) - 1, Made(i) PROVE FALSE
          OBVIOUS
        <5>1. i \in Nat /\ i # 0
          BY <1>1, <1>2
        <5> QED BY <1>2, <4>1, <5>1
      <4> QED BY <3>0, <3>2, <4>2, <4>3
    <3>3. ASSUME NEW i \in 1..(Len(keys) - d) - 1,
                 n = Len(N) + i, k = keys[d + i + 1], M[n].bindings[k] = Len(N) + i + 1
          PROVE  m = n /\ j = k
      <4>1. M[m].bindings[j] # Null /\ M[m].bindings[j] = Len(N) + i + 1
        BY <2>1, <3>3
      <4>2. \E h \in 1..(Len(keys) - d) - 1: m = Len(N) + h /\ j = keys[d + h + 1] /\ Len(N) + i + 1 = Len(N) + h + 1
        <5>1. i \in Nat /\ i # 0 /\ Len(N) \in Nat /\ DOMAIN N = 1..Len(N)
          BY <1>1, <1>2
        <5>2. Len(N) + i + 1 \notin 1..Len(N) /\ Len(N) + i + 1 # Len(N) + 1
          BY <5>1
        <5> QED BY <1>3, <2>1, <4>1, <5>2
      <4>3. PICK h \in 1..(Len(keys) - d) - 1: m = Len(N) + h /\ j = keys[d + h + 1] /\ Len(N) + i + 1 = Len(N) + h + 1
        BY <4>2
      <4>4. i \in Int /\ h \in Int /\ Len(N) \in Int
        BY <1>1, <1>2
      <4>5. i = h
        BY <4>3, <4>4
      <4> QED BY <3>3, <4>3, <4>5
    <3> QED BY <1>3, <2>1, <3>1, <3>2, <3>3
  <2> QED BY <2>1 DEF ParentsOK
<1> QED BY <1>5, <1>6, <1>7 DEF TreeOK, M

\* bind keeps the ways that there are, and makes none to old nodes.
LEMMA BindWays ==
  ASSUME NEW N, TreeOK(N), NEW keys \in Seq(Keys), keys # <<>>, NEW others \in Seq(Keys)
  PROVE  LET v == WayOf(N, others)
             u == WayOf(BindOf(N, keys), others) IN
         \A i \in 0..Len(others): /\ v[i] # Null => u[i] = v[i]
                                  /\ u[i] \in 1..Len(N) => u[i] = v[i]
<1> DEFINE d == DepthOf(N, keys)
<1> DEFINE last == WayOf(N, keys)[d]
<1> DEFINE M == BindOf(N, keys)
<1> DEFINE v == WayOf(N, others)
<1> DEFINE u == WayOf(M, others)
<1>0. Grown(N, keys, M, d, last)
  BY BindIs
<1>1. /\ M \in Seq(Nodes \cup {Freed}) /\ Len(M) = Len(N) + (Len(keys) - d)
      /\ d \in 0..Len(keys) /\ last \in 1..Len(N) /\ N[last] # Freed
      /\ \A n \in 1..Len(N): n # last => M[n] = N[n]
      /\ d = Len(keys) => M[last].bindings = N[last].bindings
      /\ d < Len(keys) =>
              /\ N[last].bindings[keys[d + 1]] = Null
              /\ M[last].bindings = [N[last].bindings EXCEPT ![keys[d + 1]] = Len(N) + 1]
  <2> HIDE DEF d, last, M
  <2> QED BY <1>0 DEF Grown
<1>2. /\ v[0] = Root
      /\ \A i \in 1..Len(others): v[i] = IF v[i - 1] = Null THEN Null ELSE N[v[i - 1]].bindings[others[i]]
      /\ \A i \in 0..Len(others): v[i] # Null => v[i] \in DOMAIN N /\ N[v[i]] # Freed
  <2>1. TreeWay(N, others, v)
    BY WayFacts
  <2> HIDE DEF v
  <2> QED BY <2>1 DEF TreeWay
<1>3. /\ u[0] = Root
      /\ \A i \in 1..Len(others): u[i] = IF u[i - 1] = Null THEN Null ELSE M[u[i - 1]].bindings[others[i]]
      /\ \A i \in 0..Len(others): u[i] # Null => u[i] \in DOMAIN M /\ M[u[i]] # Freed
  <2>1. TreeOK(M)
    BY BindTree
  <2>2. TreeWay(M, others, u)
    BY <2>1, WayFacts
  <2> HIDE DEF M, u
  <2> QED BY <2>2 DEF TreeWay
<1>4. \A n \in DOMAIN M, k \in Keys: M[n] # Freed /\ M[n].bindings[k] # Null =>
           \/ n \in DOMAIN N /\ N[n] # Freed /\ M[n].bindings[k] = N[n].bindings[k]
           \/ M[n].bindings[k] > Len(N)
  <2>0. DepthOf(N, keys) \in 0..Len(keys) /\ Len(keys) \in Nat /\ Len(N) \in Nat
    BY <1>1 DEF TreeOK, LinksOK
  <2>1. ASSUME NEW n \in DOMAIN M, NEW k \in Keys, M[n] # Freed, M[n].bindings[k] # Null
        PROVE  \/ n \in DOMAIN N /\ N[n] # Freed /\ M[n].bindings[k] = N[n].bindings[k]
               \/ M[n].bindings[k] > Len(N)
    BY <2>0, <2>1, BindLinks
  <2> QED BY <2>1
<1>5. \A n \in DOMAIN N: N[n] # Freed => \A k \in Keys: N[n].bindings[k] # Null => M[n].bindings[k] = N[n].bindings[k]
  <2>1. ASSUME NEW n \in DOMAIN N, N[n] # Freed, NEW k \in Keys, N[n].bindings[k] # Null
        PROVE  M[n].bindings[k] = N[n].bindings[k]
    <3>1. n \in 1..Len(N) /\ N[n].bindings \in [Keys -> Nat \cup {Null}]
      <4>1. N \in Seq(Nodes \cup {Freed})
        BY DEF TreeOK, LinksOK
      <4>2. N[n] \in Nodes /\ n \in 1..Len(N)
        BY <2>1, <4>1, NodeIs
      <4> QED BY <4>2 DEF Nodes
    <3>2. CASE n # last
      BY <1>1, <3>1, <3>2
    <3>3. CASE n = last
      <4>1. Len(keys) \in Nat
        OBVIOUS
      <4>2. d = Len(keys) \/ d < Len(keys)
        BY <1>1, <4>1
      <4> HIDE DEF d, last, M
      <4> QED BY <1>1, <2>1, <3>1, <3>3, <4>2
    <3> QED BY <3>2, <3>3
  <2> QED BY <2>1
<1>6. Len(others) \in Nat /\ DOMAIN N = 1..Len(N) /\ Len(N) \in Nat /\ \A i \in 1..Len(others): others[i] \in Keys
  BY DEF TreeOK, LinksOK
<1> HIDE DEF d, last, M, v, u
<1> DEFINE T == {i \in Nat: (v[i] # Null => u[i] = v[i]) /\ (u[i] \in 1..Len(N) => u[i] = v[i])}
<1>7. 0 \in T
  BY <1>2, <1>3
<1>8. \A n \in 0..Len(others) - 1: n \in T => n + 1 \in T
  <2>1. ASSUME NEW n \in 0..Len(others) - 1, n \in T PROVE n + 1 \in T
    <3>1. n + 1 \in 1..Len(others) /\ (n + 1) - 1 = n /\ n \in 0..Len(others) /\ n + 1 \in 0..Len(others) /\ others[n + 1] \in Keys
      BY <1>6
    <3>2. ASSUME v[n + 1] # Null PROVE u[n + 1] = v[n + 1]
      <4>1. v[n] # Null /\ v[n + 1] = N[v[n]].bindings[others[n + 1]]
        BY <1>2, <3>1, <3>2
      <4>2. u[n] = v[n] /\ v[n] \in DOMAIN N /\ N[v[n]] # Freed
        BY <1>2, <2>1, <3>1, <4>1
      <4>3. u[n + 1] = M[u[n]].bindings[others[n + 1]]
        BY <1>3, <3>1, <4>1, <4>2
      <4> QED BY <1>5, <3>1, <3>2, <4>1, <4>2, <4>3
    <3>3. ASSUME u[n + 1] \in 1..Len(N) PROVE u[n + 1] = v[n + 1]
      <4>1. u[n + 1] # Null
        BY <1>6, <3>3, NoAddressAssumption
      <4>2. u[n] # Null /\ u[n + 1] = M[u[n]].bindings[others[n + 1]]
        BY <1>3, <3>1, <4>1
      <4>3. u[n] \in DOMAIN M /\ M[u[n]] # Freed
        BY <1>3, <3>1, <4>2
      <4>4. u[n] \in DOMAIN N /\ N[u[n]] # Freed /\ u[n + 1] = N[u[n]].bindings[others[n + 1]]
        BY <1>4, <1>6, <3>1, <3>3, <4>1, <4>2, <4>3
      <4>5. u[n] = v[n]
        BY <1>6, <2>1, <4>4
      <4> QED BY <1>2, <3>1, <4>2, <4>4, <4>5
    <3> QED BY <3>1, <3>2, <3>3
  <2> QED BY <2>1
<1>9. \A i \in 0..Len(others): i \in T
  <2> HIDE DEF T
  <2> QED BY <1>6, <1>7, <1>8, Induction
<1> QED BY <1>9 DEF M, v, u

FoundOf(N, keys) == WayOf(N, keys)[Len(keys)]
CommandOf(N, keys) == IF FoundOf(N, keys) = Null THEN Null ELSE N[FoundOf(N, keys)].command

\* Found and CommandAt are the node and the command of a state, here and in the next one.
LEMMA FoundDef ==
  ASSUME NEW keys
  PROVE  /\ Found(keys) = FoundOf(nodes, keys) /\ Found(keys)' = FoundOf(nodes', keys)
         /\ CommandAt(keys) = CommandOf(nodes, keys) /\ CommandAt(keys)' = CommandOf(nodes', keys)
BY WayDef DEF Found, FoundOf, CommandAt, CommandOf

\* After bind the keys lead through all of the new nodes, and the last has no command.
LEMMA BindEnds ==
  ASSUME NEW N, TreeOK(N), NEW keys \in Seq(Keys), keys # <<>>
  PROVE  LET d == DepthOf(N, keys)
             M == BindOf(N, keys)
             u == WayOf(M, keys) IN
         /\ \A i \in 1..Len(keys) - d: u[d + i] = Len(N) + i
         /\ FoundOf(M, keys) # Null /\ M[FoundOf(M, keys)].command = Null
         /\ FoundOf(M, keys) = IF d = Len(keys) THEN FoundOf(N, keys) ELSE Len(M)
<1> DEFINE d == DepthOf(N, keys)
<1> DEFINE w == WayOf(N, keys)
<1> DEFINE last == w[d]
<1> DEFINE M == BindOf(N, keys)
<1> DEFINE u == WayOf(M, keys)
<1>1. Grown(N, keys, M, d, last)
  BY BindIs
<1>2. u[d] = last /\ last # Null
  <2>1. Len(keys) \in Nat
    OBVIOUS
  <2>2. d \in 0..Len(keys) /\ \A i \in 0..d: w[i] # Null
    BY DepthIs
  <2>3. d \in 0..d
    BY <2>1, <2>2
  <2> QED BY <2>2, <2>3, BindWays
<1>3. TreeWay(M, keys, u)
  <2>1. TreeOK(M)
    BY BindTree
  <2> QED BY <2>1, WayFacts
<1>4. Len(keys) \in Nat \ {0} /\ Len(N) \in Nat \ {0} /\ \A i \in 1..Len(keys): keys[i] \in Keys
  BY DEF TreeOK, LinksOK
<1>5. N[last].bindings \in [Keys -> Nat \cup {Null}]
  <2>1. N \in Seq(Nodes \cup {Freed}) /\ DOMAIN N = 1..Len(N)
    BY DEF TreeOK, LinksOK
  <2>2. last \in DOMAIN N /\ N[last] # Freed
    <3> HIDE DEF d, last, M
    <3> QED BY <1>1, <2>1 DEF Grown
  <2>3. N[last] \in Nodes
    BY <2>1, <2>2, NodeIs
  <2> QED BY <2>3 DEF Nodes
<1>6. FoundOf(M, keys) = u[Len(keys)] /\ FoundOf(N, keys) = w[Len(keys)]
  BY DEF FoundOf
<1> HIDE DEF d, w, M, u
<1>7. d \in 0..Len(keys)
  BY <1>1 DEF Grown
<1> DEFINE T == {i \in Nat: i # 0 /\ i <= Len(keys) - d => u[d + i] = Len(N) + i}
<1>8. 0 \in T
  OBVIOUS
<1>9. \A n \in 0..(Len(keys) - d) - 1: n \in T => n + 1 \in T
  <2>1. ASSUME NEW n \in 0..(Len(keys) - d) - 1, n \in T PROVE n + 1 \in T
    <3>1. d + (n + 1) \in 1..Len(keys) /\ (d + (n + 1)) - 1 = d + n /\ d < Len(keys) /\ keys[d + (n + 1)] \in Keys
      BY <1>4, <1>7
    <3>2. u[d + (n + 1)] = IF u[d + n] = Null THEN Null ELSE M[u[d + n]].bindings[keys[d + (n + 1)]]
      BY <1>3, <3>1 DEF TreeWay
    <3>3. CASE n = 0
      <4>1. M[last].bindings[keys[d + 1]] = Len(N) + 1
        <5>1. M[last].bindings = [N[last].bindings EXCEPT ![keys[d + 1]] = Len(N) + 1]
          BY <1>1, <3>1 DEF Grown
        <5>2. keys[d + 1] \in Keys
          BY <3>1, <3>3
        <5> QED BY <1>5, <5>1, <5>2
      <4>2. d + 0 = d /\ n + 1 = 1
        BY <1>7, <3>3, <1>4
      <4> QED BY <1>2, <3>2, <3>3, <4>1, <4>2
    <3>4. CASE n # 0
      <4>1. n \in 1..Len(keys) - d /\ n < Len(keys) - d /\ u[d + n] = Len(N) + n
        BY <1>4, <1>7, <2>1, <3>4
      <4>2. M[Len(N) + n].bindings =
            [k \in Keys |-> IF n < Len(keys) - d /\ k = keys[d + n + 1] THEN Len(N) + n + 1 ELSE Null]
        BY <1>1, <4>1 DEF Grown
      <4>3. d + n + 1 = d + (n + 1) /\ Len(N) + n + 1 = Len(N) + (n + 1) /\ Len(N) + n \in Nat
        BY <1>4, <1>7
      <4>4. Len(N) + n # Null
        BY <4>3, NoAddressAssumption
      <4> QED BY <3>1, <3>2, <4>1, <4>2, <4>3, <4>4
    <3> QED BY <3>3, <3>4
  <2> QED BY <2>1
<1>10. \A i \in 1..Len(keys) - d: u[d + i] = Len(N) + i
  <2>1. Len(keys) - d \in Nat
    BY <1>4, <1>7
  <2>2. \A i \in 0..Len(keys) - d: i \in T
    <3> HIDE DEF T
    <3> QED BY <1>8, <1>9, <2>1, Induction
  <2>3. ASSUME NEW i \in 1..Len(keys) - d PROVE u[d + i] = Len(N) + i
    <3>1. i \in 0..Len(keys) - d /\ i # 0 /\ i <= Len(keys) - d
      BY <2>1
    <3> QED BY <2>2, <3>1
  <2> QED BY <2>3
<1>11. /\ u[Len(keys)] # Null /\ M[u[Len(keys)]].command = Null
       /\ u[Len(keys)] = IF d = Len(keys) THEN w[Len(keys)] ELSE Len(M)
  <2>1. CASE d = Len(keys)
    BY <1>1, <1>2, <2>1 DEF Grown
  <2>2. CASE d # Len(keys)
    <3>1. Len(keys) - d \in 1..Len(keys) - d /\ d + (Len(keys) - d) = Len(keys)
      BY <1>4, <1>7, <2>2
    <3>2. u[Len(keys)] = Len(N) + (Len(keys) - d) /\ Len(M) = Len(N) + (Len(keys) - d)
      BY <1>1, <1>10, <3>1 DEF Grown
    <3>3. M[Len(N) + (Len(keys) - d)].command = Null
      BY <1>1, <3>1 DEF Grown
    <3>4. Len(N) + (Len(keys) - d) \in Nat
      BY <1>4, <1>7
    <3> QED BY <2>2, <3>2, <3>3, <3>4, NoAddressAssumption
  <2> QED BY <2>1, <2>2
<1> QED BY <1>6, <1>10, <1>11 DEF d, M, u, w

\* bind leaves the commands of other keys alone.
LEMMA BindCommands ==
  ASSUME NEW N, TreeOK(N), NEW keys \in Seq(Keys), keys # <<>>, NEW others \in Seq(Keys), others # keys
  PROVE  CommandOf(BindOf(N, keys), others) = CommandOf(N, others)
<1> DEFINE d == DepthOf(N, keys)
<1> DEFINE w == WayOf(N, keys)
<1> DEFINE last == w[d]
<1> DEFINE M == BindOf(N, keys)
<1> DEFINE u == WayOf(M, others)
<1> DEFINE v == WayOf(N, others)
<1> DEFINE l == Len(others)
<1>1. Grown(N, keys, M, d, last)
  BY BindIs
<1>2. TreeWay(N, others, v) /\ TreeWay(M, others, u)
  <2>1. TreeOK(M)
    BY BindTree
  <2> QED BY <2>1, WayFacts
<1>3. l \in Nat /\ l \in 0..l /\ Len(keys) \in Nat /\ Len(N) \in Nat /\ DOMAIN N = 1..Len(N)
  BY DEF TreeOK, LinksOK
<1>4. (v[l] # Null => u[l] = v[l]) /\ (u[l] \in 1..Len(N) => u[l] = v[l])
  BY <1>3, BindWays
<1>5. d = Len(keys) => v[l] # last
  <2>1. ASSUME d = Len(keys), v[l] = last PROVE FALSE
    <3>1. Len(keys) \in 0..Len(keys) /\ w[Len(keys)] # Null
      <4>1. d \in 0..d /\ \A i \in 0..d: w[i] # Null
        BY <1>3, <2>1, DepthIs
      <4> QED BY <1>3, <2>1, <4>1
    <3>2. Len(keys) = l /\ \A h \in 1..Len(keys): keys[h] = others[h]
      BY <1>3, <2>1, <3>1, WayUnique
    <3> QED BY <3>2, SeqEqual
  <2> QED BY <2>1
<1>6. /\ CommandOf(M, others) = IF u[l] = Null THEN Null ELSE M[u[l]].command
      /\ CommandOf(N, others) = IF v[l] = Null THEN Null ELSE N[v[l]].command
  BY DEF CommandOf, FoundOf
<1> HIDE DEF d, w, M, u, v, l
<1>7. CASE v[l] # Null
  <2>1. u[l] = v[l] /\ v[l] \in 1..Len(N)
    BY <1>2, <1>3, <1>4, <1>7 DEF TreeWay, l
  <2>2. M[v[l]].command = N[v[l]].command
    <3>1. CASE v[l] # last
      BY <1>1, <2>1, <3>1 DEF Grown
    <3>2. CASE v[l] = last
      <4>1. d < Len(keys)
        BY <1>1, <1>3, <1>5, <3>2 DEF Grown
      <4> QED BY <1>1, <3>2, <4>1 DEF Grown
    <3> QED BY <3>1, <3>2
  <2> QED BY <1>6, <1>7, <2>1, <2>2 DEF M
<1>8. CASE v[l] = Null
  <2>1. CASE u[l] = Null
    BY <1>6, <1>8, <2>1 DEF M
  <2>2. CASE u[l] # Null
    <3>1. u[l] \notin 1..Len(N)
      BY <1>4, <1>8, <2>2
    <3>2. u[l] \in DOMAIN M
      BY <1>2, <1>3, <2>2 DEF TreeWay, l
    <3>3. DOMAIN M = 1..Len(N) + (Len(keys) - d) /\ d \in 0..Len(keys)
      BY <1>1 DEF Grown
    <3>4. u[l] - Len(N) \in 1..Len(keys) - d /\ Len(N) + (u[l] - Len(N)) = u[l]
      BY <1>3, <3>1, <3>2, <3>3
    <3>5. M[Len(N) + (u[l] - Len(N))].command = Null
      BY <1>1, <3>4 DEF Grown
    <3> QED BY <1>6, <1>8, <2>2, <3>4, <3>5 DEF M
  <2> QED BY <2>1, <2>2
<1> QED BY <1>7, <1>8 DEF M

-----------------------------------------------------------------------------
(* unbind in the tree of bindings. *)

DeletedOf(N, keys) ==
  LET way == WayOf(N, keys)
      Only(n) == Cardinality({k \in Keys: N[n].bindings[k] # Null}) = 1
  IN {i \in 2..Len(keys): \A j \in i..Len(keys) - 1: Only(way[j])}
GoneOf(N, keys) == {WayOf(N, keys)[i]: i \in DeletedOf(N, keys)}
UnbindOf(N, keys, frees) ==
  LET Gone == GoneOf(N, keys)
      Parents == {WayOf(N, keys)[i - 1]: i \in DeletedOf(N, keys)}
  IN [n \in DOMAIN N |->
        CASE n \in Gone -> Freed
          [] n \notin Gone /\ n \in Parents ->
               [N[n] EXCEPT !.bindings =
                  [k \in Keys |-> IF @[k] \in Gone THEN Null ELSE @[k]]]
          [] n \notin Gone \cup Parents /\ n = FoundOf(N, keys) /\ frees -> [N[n] EXCEPT !.command = Null]
          [] OTHER -> N[n]]
LostIn(N, keys) ==
  {i \in DeletedOf(N, keys):
     \/ i < Len(keys) /\ N[WayOf(N, keys)[i]].command # Null
     \/ i = Len(keys) /\ \E k \in Keys: N[WayOf(N, keys)[i]].bindings[k] # Null}

\* UnbindNodes is what unbind makes of the nodes of a state.
LEMMA UnbindDef ==
  ASSUME NEW keys
  PROVE  UnbindNodes(keys) = UnbindOf(nodes, keys, Frees(keys)) /\ Deleted(keys) = DeletedOf(nodes, keys)
<1>1. Deleted(keys) = DeletedOf(nodes, keys)
  BY WayDef DEF Deleted, DeletedOf
<1>2. Way(keys) = WayOf(nodes, keys) /\ Found(keys) = FoundOf(nodes, keys)
  BY WayDef, FoundDef
<1> QED BY <1>1, <1>2 DEF UnbindNodes, UnbindOf, GoneOf, Cleared

\* When the keys are found there is a node for each of them.
LEMMA NodesOnWay ==
  ASSUME NEW N, TreeOK(N), NEW keys \in Seq(Keys), FoundOf(N, keys) # Null
  PROVE  \A i \in 0..Len(keys): WayOf(N, keys)[i] # Null
<1>1. ASSUME NEW i \in 0..Len(keys), WayOf(N, keys)[i] = Null PROVE FALSE
  <2>1. Len(keys) \in i..Len(keys)
    OBVIOUS
  <2> QED BY <1>1, <2>1, WayEnds DEF FoundOf
<1> QED BY <1>1

\* What unbind makes of the nodes.
Pruned(N, keys, frees, M, gone) ==
  /\ M \in Seq(Nodes \cup {Freed}) /\ Len(M) = Len(N)
  /\ \A n \in gone: n \in 1..Len(N) /\ n # Root /\ N[n] # Freed /\ M[n] = Freed
  /\ \A n \in 1..Len(N): n \notin gone =>
       /\ M[n] # Freed <=> N[n] # Freed
       /\ N[n] # Freed =>
            /\ \A k \in Keys: M[n].bindings[k] = IF N[n].bindings[k] \in gone THEN Null ELSE N[n].bindings[k]
            /\ M[n].command = IF n = FoundOf(N, keys) /\ frees THEN Null ELSE N[n].command
  /\ IF Len(keys) = 1 THEN gone = {} ELSE FoundOf(N, keys) \in gone

\* What unbind makes of the nodes is what Pruned says.
LEMMA UnbindIs ==
  ASSUME NEW N, TreeOK(N), NEW keys \in Seq(Keys), keys # <<>>, FoundOf(N, keys) # Null,
         NEW frees \in BOOLEAN
  PROVE  Pruned(N, keys, frees, UnbindOf(N, keys, frees), GoneOf(N, keys))
<1> DEFINE w == WayOf(N, keys)
<1> DEFINE found == FoundOf(N, keys)
<1> DEFINE D == DeletedOf(N, keys)
<1> DEFINE gone == GoneOf(N, keys)
<1> DEFINE parents == {w[i - 1]: i \in D}
<1> DEFINE M == UnbindOf(N, keys, frees)
<1> DEFINE Cut(n) == [N[n] EXCEPT !.bindings = [k \in Keys |-> IF @[k] \in gone THEN Null ELSE @[k]]]
<1> DEFINE Cleaned(n) == [N[n] EXCEPT !.command = Null]
<1> DEFINE Becomes(n) ==
        CASE n \in gone -> Freed
          [] n \notin gone /\ n \in parents -> Cut(n)
          [] n \notin gone \cup parents /\ n = found /\ frees -> Cleaned(n)
          [] OTHER -> N[n]
<1>1. M = [n \in DOMAIN N |-> Becomes(n)]
  BY DEF UnbindOf
<1>2. TreeWay(N, keys, w)
  BY WayFacts
<1>3. \A i \in 0..Len(keys): w[i] # Null
  BY NodesOnWay
<1>4. D \subseteq 2..Len(keys) /\ (Len(keys) > 1 => Len(keys) \in D)
  BY DEF DeletedOf
<1>5. gone = {w[i]: i \in D} /\ found = w[Len(keys)]
  BY DEF GoneOf, FoundOf
<1>6. Len(keys) \in Nat \ {0} /\ N \in Seq(Nodes \cup {Freed}) /\ DOMAIN N = 1..Len(N) /\ Len(N) \in Nat \ {0}
  BY DEF TreeOK, LinksOK
<1>7. IF Len(keys) = 1 THEN gone = {} ELSE found \in gone
  <2>1. CASE Len(keys) = 1
    <3>1. D = {}
      <4> HIDE DEF D
      <4>1. \A i \in D: i >= 2 /\ i <= 1
        BY <1>4, <2>1
      <4>2. \A i \in D: FALSE
        <5>1. \A i \in D: i \in Int
          BY <1>4
        <5> QED BY <4>1, <5>1
      <4> QED BY <4>2
    <3> HIDE DEF D, gone, found, w
    <3> QED BY <1>5, <2>1, <3>1
  <2>2. CASE Len(keys) # 1
    <3>1. Len(keys) \in D
      <4> DEFINE l == Len(keys)
      <4>1. l \in Nat /\ l # 0 /\ l # 1
        BY <1>6, <2>2
      <4>2. l > 1
        <5> HIDE DEF l
        <5> QED BY <4>1
      <4> QED BY <1>4, <4>2
    <3> HIDE DEF D, gone, found, w
    <3> QED BY <1>5, <2>2, <3>1
  <2> QED BY <2>1, <2>2
<1>8. \A n \in gone: n \in 1..Len(N) /\ n # Root /\ N[n] # Freed
  <2> HIDE DEF D, gone, found, w
  <2>1. ASSUME NEW i \in D PROVE w[i] \in 1..Len(N) /\ w[i] # Root /\ N[w[i]] # Freed
    <3>1. i \in 0..Len(keys) /\ i >= 2
      BY <1>4, <1>6
    <3>2. w[i] \in 1..Len(N) /\ N[w[i]] # Freed /\ w[i] >= i + 1
      BY <1>2, <1>3, <1>6, <3>1 DEF TreeWay
    <3> QED BY <3>1, <3>2 DEF Root
  <2> QED BY <1>5, <2>1
<1>9. \A n \in parents: n \in 1..Len(N) /\ N[n] # Freed
  <2>1. ASSUME NEW i \in D PROVE w[i - 1] \in 1..Len(N) /\ N[w[i - 1]] # Freed
    <3> HIDE DEF D, gone, found, w
    <3>1. i - 1 \in 0..Len(keys)
      BY <1>4, <1>6
    <3> QED BY <1>2, <1>3, <1>6, <3>1 DEF TreeWay
  <2> HIDE DEF D, w
  <2> QED BY <2>1
<1>10. \A n \in 1..Len(N), k \in Keys: N[n] # Freed /\ N[n].bindings[k] \in gone => n \in parents
  <2>1. ASSUME NEW n \in 1..Len(N), NEW k \in Keys, NEW i \in D, N[n] # Freed, N[n].bindings[k] = w[i]
        PROVE  n = w[i - 1]
    <3> HIDE DEF D, gone, found, w
    <3>1. i \in 1..Len(keys) /\ i - 1 \in 0..Len(keys) /\ i \in 0..Len(keys)
      BY <1>4, <1>6
    <3>2. w[i] # Null /\ w[i] = N[w[i - 1]].bindings[keys[i]] /\ keys[i] \in Keys /\ w[i - 1] \in DOMAIN N /\ N[w[i - 1]] # Freed
      BY <1>2, <1>3, <3>1 DEF TreeWay
    <3> QED BY <1>6, <2>1, <3>2 DEF TreeOK, ParentsOK
  <2> HIDE DEF D, w
  <2>2. ASSUME NEW n \in 1..Len(N), NEW k \in Keys, N[n] # Freed, N[n].bindings[k] \in gone
        PROVE  n \in parents
    <3>1. PICK i \in D: N[n].bindings[k] = w[i]
      BY <1>5, <2>2
    <3> QED BY <2>1, <2>2, <3>1
  <2> QED BY <2>2
<1>11. found \in parents => Len(keys) > 1
  <2>1. D # {} => Len(keys) > 1
    <3>1. ASSUME NEW i \in D PROVE Len(keys) > 1
      <4> HIDE DEF D
      <4>1. i \in 2..Len(keys)
        BY <1>4
      <4> QED BY <1>6, <4>1
    <3> HIDE DEF D
    <3> QED BY <3>1
  <2> HIDE DEF D, w, found
  <2> QED BY <2>1
<1>12. \A n \in 1..Len(N): N[n] # Freed => N[n] \in Nodes
  BY <1>6, NodeIs
<1>13. \A n \in 1..Len(N): N[n] # Freed =>
         /\ Cut(n) \in Nodes /\ Cut(n).command = N[n].command
         /\ Cut(n).bindings = [k \in Keys |-> IF N[n].bindings[k] \in gone THEN Null ELSE N[n].bindings[k]]
         /\ Cleaned(n) \in Nodes /\ Cleaned(n).command = Null /\ Cleaned(n).bindings = N[n].bindings
  <2> HIDE DEF gone
  <2>1. ASSUME NEW n \in 1..Len(N), N[n] # Freed
        PROVE  /\ Cut(n) \in Nodes /\ Cut(n).command = N[n].command
               /\ Cut(n).bindings = [k \in Keys |-> IF N[n].bindings[k] \in gone THEN Null ELSE N[n].bindings[k]]
               /\ Cleaned(n) \in Nodes /\ Cleaned(n).command = Null /\ Cleaned(n).bindings = N[n].bindings
    <3>1. N[n] \in [bindings: [Keys -> Nat \cup {Null}], command: Nat \cup {Null}]
      BY <1>12, <2>1 DEF Nodes
    <3> DEFINE b == [k \in Keys |-> IF N[n].bindings[k] \in gone THEN Null ELSE N[n].bindings[k]]
    <3>2. b \in [Keys -> Nat \cup {Null}]
      BY <3>1
    <3>3. Cut(n) = [N[n] EXCEPT !.bindings = b]
      BY <3>1
    <3>4. Cut(n) \in Nodes /\ Cut(n).command = N[n].command /\ Cut(n).bindings = b
      <4> HIDE DEF b
      <4> QED BY <3>1, <3>2, <3>3 DEF Nodes
    <3>5. Cleaned(n) \in Nodes /\ Cleaned(n).command = Null /\ Cleaned(n).bindings = N[n].bindings
      BY <3>1 DEF Nodes
    <3> QED BY <3>4, <3>5
  <2> QED BY <2>1
<1>14. \A n \in DOMAIN N: M[n] = Becomes(n)
  BY <1>1
<1>15. Freed \notin Nodes
  BY NoAddressAssumption
<1>16. \A n \in 1..Len(N): n \notin gone /\ N[n] # Freed /\ n \notin parents =>
         \A k \in Keys: N[n].bindings[k] \notin gone
  BY <1>10
<1> HIDE DEF Cut, Cleaned, M, D, gone, found, parents, w
<1>17. ASSUME NEW n \in 1..Len(N)
       PROVE  /\ n \in gone => M[n] = Freed
              /\ M[n] \in Nodes \cup {Freed}
              /\ n \notin gone =>
                   /\ M[n] # Freed <=> N[n] # Freed
                   /\ N[n] # Freed =>
                        /\ \A k \in Keys: M[n].bindings[k] = IF N[n].bindings[k] \in gone THEN Null ELSE N[n].bindings[k]
                        /\ M[n].command = IF n = found /\ frees THEN Null ELSE N[n].command
  <2>0. n \in DOMAIN N /\ N[n] \in Nodes \cup {Freed}
    BY <1>6
  <2>1. CASE n \in gone
    BY <1>14, <2>0, <2>1
  <2>2. CASE n \notin gone /\ n \in parents
    <3>1. M[n] = Cut(n) /\ N[n] # Freed
      BY <1>9, <1>14, <2>0, <2>2
    <3>2. n # found
      <4>1. n = found => Len(keys) > 1
        BY <1>11, <2>2
      <4>2. ASSUME NEW l \in Nat, l > 1 PROVE l # 1
        BY <4>2
      <4>3. Len(keys) \in Nat
        BY <1>6
      <4> QED BY <1>7, <2>2, <4>1, <4>2, <4>3
    <3>3. /\ M[n] \in Nodes /\ M[n].command = N[n].command
          /\ M[n].bindings = [k \in Keys |-> IF N[n].bindings[k] \in gone THEN Null ELSE N[n].bindings[k]]
      BY <1>13, <3>1
    <3> QED BY <1>15, <2>2, <3>1, <3>2, <3>3
  <2>3. CASE n \notin gone /\ n \notin parents /\ n = found /\ frees
    <3>1. M[n] = Cleaned(n)
      BY <1>14, <2>0, <2>3
    <3>2. N[n] # Freed
      <4>1. Len(keys) \in 0..Len(keys)
        BY <1>6
      <4> QED BY <1>2, <1>3, <1>5, <2>3, <4>1 DEF TreeWay
    <3> QED BY <1>13, <1>15, <1>16, <2>3, <3>1, <3>2
  <2>4. CASE n \notin gone /\ n \notin parents /\ ~(n = found /\ frees)
    <3>1. M[n] = N[n]
      BY <1>14, <2>0, <2>4
    <3> QED BY <1>16, <2>0, <2>4, <3>1
  <2> QED BY <2>1, <2>2, <2>3, <2>4
<1>18. M \in Seq(Nodes \cup {Freed}) /\ Len(M) = Len(N)
  <2>1. M \in [1..Len(N) -> Nodes \cup {Freed}]
    BY <1>1, <1>6, <1>17
  <2> QED BY <1>6, <2>1, FunctionIsSeq
<1>19. \A n \in gone: n \in 1..Len(N) /\ n # Root /\ N[n] # Freed /\ M[n] = Freed
  BY <1>8, <1>17
<1>20. Pruned(N, keys, frees, M, gone)
  BY <1>7, <1>17, <1>18, <1>19 DEF Pruned, found
<1> QED BY <1>20 DEF M, gone

\* unbind keeps the tree.
LEMMA UnbindTree ==
  ASSUME NEW N, TreeOK(N), NEW keys \in Seq(Keys), keys # <<>>, FoundOf(N, keys) # Null,
         NEW frees \in BOOLEAN
  PROVE  TreeOK(UnbindOf(N, keys, frees))
<1> DEFINE gone == GoneOf(N, keys)
<1> DEFINE M == UnbindOf(N, keys, frees)
<1>1. Pruned(N, keys, frees, M, gone)
  BY UnbindIs
<1>2. N \in Seq(Nodes \cup {Freed}) /\ DOMAIN N = 1..Len(N) /\ Len(N) \in Nat \ {0} /\ N[Root] # Freed
  BY DEF TreeOK, LinksOK
<1> HIDE DEF gone, M
<1>3. M \in Seq(Nodes \cup {Freed}) /\ Len(M) = Len(N) /\ DOMAIN M = 1..Len(N)
  BY <1>1 DEF Pruned
<1>4. M # <<>> /\ M[Root] # Freed
  BY <1>1, <1>2, <1>3 DEF Pruned, Root
<1>5. \A n \in 1..Len(N), k \in Keys: M[n] # Freed /\ M[n].bindings[k] # Null =>
        N[n] # Freed /\ M[n].bindings[k] = N[n].bindings[k] /\ N[n].bindings[k] \notin gone
  BY <1>1 DEF Pruned
<1>6. LinksOK(M)
  <2>1. ASSUME NEW n \in DOMAIN M, NEW k \in Keys, M[n] # Freed, M[n].bindings[k] # Null
        PROVE  M[n].bindings[k] \in n + 1..Len(M) /\ M[M[n].bindings[k]] # Freed
    <3>1. N[n] # Freed /\ M[n].bindings[k] = N[n].bindings[k] /\ N[n].bindings[k] \notin gone
      BY <1>3, <1>5, <2>1
    <3>2. N[n].bindings[k] \in n + 1..Len(N) /\ N[N[n].bindings[k]] # Freed
      BY <1>2, <1>3, <2>1, <3>1 DEF TreeOK, LinksOK
    <3>3. N[n].bindings[k] \in 1..Len(N)
      BY <1>2, <1>3, <2>1, <3>2
    <3>4. M[N[n].bindings[k]] # Freed
      BY <1>1, <3>1, <3>2, <3>3 DEF Pruned
    <3> QED BY <1>3, <3>1, <3>2, <3>4
  <2> QED BY <1>3, <2>1 DEF LinksOK
<1>7. ParentsOK(M)
  <2>1. ASSUME NEW n \in DOMAIN M, NEW m \in DOMAIN M, NEW k \in Keys, NEW j \in Keys,
               M[n] # Freed, M[m] # Freed, M[n].bindings[k] # Null, M[m].bindings[j] = M[n].bindings[k]
        PROVE  m = n /\ j = k
    <3>1. N[n] # Freed /\ M[n].bindings[k] = N[n].bindings[k]
      BY <1>3, <1>5, <2>1
    <3>2. N[m] # Freed /\ M[m].bindings[j] = N[m].bindings[j]
      BY <1>3, <1>5, <2>1
    <3> QED BY <1>2, <1>3, <2>1, <3>1, <3>2 DEF TreeOK, ParentsOK
  <2> QED BY <2>1 DEF ParentsOK
<1> QED BY <1>4, <1>6, <1>7 DEF TreeOK, M

\* Nothing hangs on the nodes that unbind deletes, but the next of them, and none
\* before the last has a command: unless something is lost.
LEMMA NothingLost ==
  ASSUME NEW N, TreeOK(N), NEW keys \in Seq(Keys), keys # <<>>, FoundOf(N, keys) # Null,
         LostIn(N, keys) = {}, NEW i \in DeletedOf(N, keys)
  PROVE  LET w == WayOf(N, keys) IN
         /\ i \in 2..Len(keys)
         /\ i < Len(keys) => /\ N[w[i]].command = Null /\ i + 1 \in DeletedOf(N, keys)
                             /\ \A k \in Keys: N[w[i]].bindings[k] # Null => N[w[i]].bindings[k] = w[i + 1]
         /\ i = Len(keys) => \A k \in Keys: N[w[i]].bindings[k] = Null
<1> DEFINE w == WayOf(N, keys)
<1> DEFINE Only(n) == Cardinality({k \in Keys: N[n].bindings[k] # Null}) = 1
<1> DEFINE D == DeletedOf(N, keys)
<1>1. i \in 2..Len(keys) /\ \A j \in i..Len(keys) - 1: Only(w[j])
  BY DEF DeletedOf
<1>2. Len(keys) \in Nat
  OBVIOUS
<1>3. /\ i < Len(keys) => N[w[i]].command = Null
      /\ i = Len(keys) => \A k \in Keys: N[w[i]].bindings[k] = Null
  BY DEF LostIn
<1>4. ASSUME i < Len(keys) PROVE i + 1 \in D
  <2>1. i + 1 \in 2..Len(keys) /\ \A j \in i + 1..Len(keys) - 1: j \in i..Len(keys) - 1
    BY <1>1, <1>2, <1>4
  <2>2. \A j \in i + 1..Len(keys) - 1: Only(w[j])
    BY <1>1, <2>1
  <2> QED BY <2>1, <2>2 DEF DeletedOf
<1>5. ASSUME i < Len(keys), NEW k \in Keys, N[w[i]].bindings[k] # Null
      PROVE  N[w[i]].bindings[k] = w[i + 1]
  <2> DEFINE S == {l \in Keys: N[w[i]].bindings[l] # Null}
  <2>1. i \in i..Len(keys) - 1 /\ i + 1 \in 1..Len(keys) /\ (i + 1) - 1 = i /\ i + 1 \in 0..Len(keys)
    BY <1>1, <1>2, <1>5
  <2>2. Cardinality(S) = 1
    BY <1>1, <2>1
  <2>3. IsFiniteSet(S)
    BY KeysAssumption, FS_Subset
  <2>4. PICK x: S = {x}
    BY <2>2, <2>3, FS_Singleton
  <2>5. w[i + 1] # Null
    BY <2>1, NodesOnWay
  <2>6. w[i + 1] = N[w[i]].bindings[keys[i + 1]] /\ keys[i + 1] \in Keys
    <3>1. TreeWay(N, keys, w)
      BY WayFacts
    <3> HIDE DEF w
    <3> QED BY <2>1, <2>5, <3>1 DEF TreeWay
  <2>7. keys[i + 1] \in S /\ k \in S
    BY <1>5, <2>5, <2>6
  <2> QED BY <2>4, <2>6, <2>7
<1> QED BY <1>1, <1>3, <1>4, <1>5

\* When unbind loses nothing, a way leads where it did, except to the deleted nodes,
\* and to these only the way along its own keys has led.
LEMMA UnbindWays ==
  ASSUME NEW N, TreeOK(N), NEW keys \in Seq(Keys), keys # <<>>, FoundOf(N, keys) # Null,
         NEW frees \in BOOLEAN, NEW others \in Seq(Keys), LostIn(N, keys) = {} \/ Len(keys) = 1
  PROVE  LET v == WayOf(N, others)
             gone == GoneOf(N, keys)
             u == WayOf(UnbindOf(N, keys, frees), others) IN
         \A i \in 0..Len(others): u[i] = IF v[i] \in gone THEN Null ELSE v[i]
<1> DEFINE gone == GoneOf(N, keys)
<1> DEFINE M == UnbindOf(N, keys, frees)
<1> DEFINE v == WayOf(N, others)
<1> DEFINE u == WayOf(M, others)
<1> DEFINE w == WayOf(N, keys)
<1>1. Pruned(N, keys, frees, M, gone)
  BY UnbindIs
<1>2. TreeWay(N, others, v) /\ TreeWay(M, others, u)
  <2>1. TreeOK(M)
    BY UnbindTree
  <2> QED BY <2>1, WayFacts
<1>3. /\ Len(others) \in Nat /\ Len(keys) \in Nat /\ DOMAIN N = 1..Len(N) /\ Len(N) \in Nat
      /\ \A i \in 1..Len(others): others[i] \in Keys
  BY DEF TreeOK, LinksOK
<1>4. \A n \in gone, k \in Keys: N[n].bindings[k] # Null => N[n].bindings[k] \in gone
  <2>1. CASE Len(keys) = 1
    <3> HIDE DEF gone, M
    <3> QED BY <1>1, <2>1 DEF Pruned
  <2>2. CASE LostIn(N, keys) = {}
    <3>1. SUFFICES ASSUME NEW i \in DeletedOf(N, keys), NEW k \in Keys, N[w[i]].bindings[k] # Null
                   PROVE  N[w[i]].bindings[k] \in gone
      BY DEF GoneOf
    <3>2. /\ i \in 2..Len(keys)
          /\ i < Len(keys) => i + 1 \in DeletedOf(N, keys) /\ N[w[i]].bindings[k] = w[i + 1]
          /\ i # Len(keys)
      BY <2>2, <3>1, NothingLost
    <3>3. i < Len(keys)
      BY <1>3, <3>2
    <3> QED BY <3>2, <3>3 DEF GoneOf
  <2> QED BY <2>1, <2>2
<1>5. FoundOf(N, keys) = w[Len(keys)] /\ Null \notin gone
  <2> HIDE DEF gone, M
  <2>1. Null \notin gone
    BY <1>1, <1>3, NoAddressAssumption DEF Pruned
  <2> QED BY <2>1 DEF FoundOf
<1> HIDE DEF gone, M, v, u, w
<1> DEFINE T == {i \in Nat: u[i] = IF v[i] \in gone THEN Null ELSE v[i]}
<1>6. 0 \in T
  BY <1>1, <1>2 DEF TreeWay, Pruned
<1>7. \A n \in 0..Len(others) - 1: n \in T => n + 1 \in T
  <2>1. ASSUME NEW n \in 0..Len(others) - 1, n \in T PROVE n + 1 \in T
    <3>1. n + 1 \in 1..Len(others) /\ (n + 1) - 1 = n /\ n \in 0..Len(others) /\ others[n + 1] \in Keys
      BY <1>3
    <3>2. /\ v[n + 1] = IF v[n] = Null THEN Null ELSE N[v[n]].bindings[others[n + 1]]
          /\ u[n + 1] = IF u[n] = Null THEN Null ELSE M[u[n]].bindings[others[n + 1]]
          /\ v[n] # Null => v[n] \in 1..Len(N) /\ N[v[n]] # Freed
      <4>1. /\ v[n + 1] = IF v[(n + 1) - 1] = Null THEN Null ELSE N[v[(n + 1) - 1]].bindings[others[n + 1]]
            /\ u[n + 1] = IF u[(n + 1) - 1] = Null THEN Null ELSE M[u[(n + 1) - 1]].bindings[others[n + 1]]
        BY <1>2, <3>1 DEF TreeWay
      <4>2. v[n] # Null => v[n] \in 1..Len(N) /\ N[v[n]] # Freed
        BY <1>2, <1>3, <3>1 DEF TreeWay
      <4> QED BY <3>1, <4>1, <4>2
    <3>3. u[n] = IF v[n] \in gone THEN Null ELSE v[n]
      BY <2>1
    <3>4. CASE v[n] = Null
      BY <1>5, <3>1, <3>2, <3>3, <3>4
    <3>5. CASE v[n] \in gone
      <4>1. v[n + 1] = Null \/ v[n + 1] \in gone
        BY <1>4, <1>5, <3>1, <3>2, <3>5
      <4> QED BY <1>5, <3>1, <3>2, <3>3, <3>5, <4>1
    <3>6. CASE v[n] # Null /\ v[n] \notin gone
      <4>1. u[n] = v[n] /\ u[n + 1] = M[v[n]].bindings[others[n + 1]] /\ v[n + 1] = N[v[n]].bindings[others[n + 1]]
        BY <3>2, <3>3, <3>6
      <4>2. M[v[n]].bindings[others[n + 1]] =
              IF N[v[n]].bindings[others[n + 1]] \in gone THEN Null ELSE N[v[n]].bindings[others[n + 1]]
        BY <1>1, <3>1, <3>2, <3>6 DEF Pruned
      <4> QED BY <3>1, <4>1, <4>2
    <3> QED BY <3>4, <3>5, <3>6
  <2> QED BY <2>1
<1>8. \A i \in 0..Len(others): i \in T
  <2> HIDE DEF T
  <2> QED BY <1>3, <1>6, <1>7, Induction
<1> QED BY <1>8 DEF gone, M, v, u

\* unbind takes the command of its own keys, when it frees it or deletes the node, and
\* leaves those of other keys alone, when it loses nothing.
LEMMA UnbindCommands ==
  ASSUME NEW N, TreeOK(N), NEW keys \in Seq(Keys), keys # <<>>, FoundOf(N, keys) # Null,
         NEW frees \in BOOLEAN, NEW others \in Seq(Keys), LostIn(N, keys) = {}
  PROVE  CommandOf(UnbindOf(N, keys, frees), others) =
           IF others # keys THEN CommandOf(N, others)
           ELSE IF Len(keys) > 1 \/ frees THEN Null ELSE CommandOf(N, keys)
<1> DEFINE gone == GoneOf(N, keys)
<1> DEFINE M == UnbindOf(N, keys, frees)
<1> DEFINE v == WayOf(N, others)
<1> DEFINE u == WayOf(M, others)
<1> DEFINE w == WayOf(N, keys)
<1> DEFINE l == Len(others)
<1>1. Pruned(N, keys, frees, M, gone)
  BY UnbindIs
<1>2. TreeWay(N, others, v)
  BY WayFacts
<1>3. l \in Nat /\ l \in 0..l /\ Len(keys) \in Nat \ {0} /\ DOMAIN N = 1..Len(N) /\ Len(N) \in Nat
  BY DEF TreeOK, LinksOK
<1>4. u[l] = IF v[l] \in gone THEN Null ELSE v[l]
  BY <1>3, UnbindWays
<1>5. /\ CommandOf(M, others) = IF u[l] = Null THEN Null ELSE M[u[l]].command
      /\ CommandOf(N, others) = IF v[l] = Null THEN Null ELSE N[v[l]].command
      /\ FoundOf(N, keys) = w[Len(keys)]
  BY DEF CommandOf, FoundOf
<1>6. v[l] # Null => v[l] \in 1..Len(N) /\ N[v[l]] # Freed
  <2> HIDE DEF v, w, u, M, gone
  <2> QED BY <1>2, <1>3 DEF TreeWay
<1>7. v[l] # Null /\ v[l] = w[Len(keys)] => others = keys
  <2>1. ASSUME v[l] # Null, v[l] = w[Len(keys)] PROVE others = keys
    <3>1. Len(keys) \in 0..Len(keys)
      BY <1>3
    <3>2. l = Len(keys) /\ \A h \in 1..l: others[h] = keys[h]
      BY <1>3, <2>1, <3>1, WayUnique
    <3> QED BY <3>2, SeqEqual
  <2> QED BY <2>1
<1>8. ASSUME others # keys, v[l] # Null, v[l] \in gone PROVE N[v[l]].command = Null
  <2>1. PICK i \in DeletedOf(N, keys): v[l] = w[i]
    BY <1>8 DEF GoneOf
  <2>2. i \in 2..Len(keys) /\ (i < Len(keys) => N[w[i]].command = Null)
    BY NothingLost
  <2>3. i # Len(keys)
    BY <1>7, <1>8, <2>1
  <2>4. i < Len(keys)
    BY <1>3, <2>2, <2>3
  <2> QED BY <2>1, <2>2, <2>4
<1> HIDE DEF gone, M, v, u, w, l
<1>9. CASE others # keys
  <2>1. CASE v[l] = Null
    BY <1>4, <1>5, <1>9, <2>1 DEF M
  <2>2. CASE v[l] # Null /\ v[l] \in gone
    BY <1>4, <1>5, <1>8, <1>9, <2>2 DEF M
  <2>3. CASE v[l] # Null /\ v[l] \notin gone
    <3>1. u[l] = v[l] /\ v[l] # FoundOf(N, keys)
      BY <1>4, <1>5, <1>7, <1>9, <2>3
    <3>2. M[v[l]].command = N[v[l]].command
      BY <1>1, <1>6, <2>3, <3>1 DEF Pruned
    <3> QED BY <1>5, <1>9, <2>3, <3>1, <3>2 DEF M
  <2> QED BY <2>1, <2>2, <2>3
<1>10. CASE others = keys
  <2>1. v[l] = FoundOf(N, keys) /\ v[l] # Null
    BY <1>5, <1>10 DEF v, w, l
  <2>2. CASE Len(keys) = 1
    <3>1. v[l] \notin gone /\ u[l] = v[l]
      BY <1>1, <1>4, <2>2 DEF Pruned
    <3>2. M[v[l]].command = IF frees THEN Null ELSE N[v[l]].command
      BY <1>1, <1>6, <2>1, <3>1 DEF Pruned
    <3>3. ~(Len(keys) > 1)
      BY <2>2
    <3>4. v[l] \in Nat /\ CommandOf(N, keys) = N[v[l]].command
      BY <1>3, <1>5, <1>6, <1>10, <2>1
    <3>5. CommandOf(M, others) = M[v[l]].command
      BY <1>5, <2>1, <3>1
    <3> QED BY <1>10, <3>2, <3>3, <3>4, <3>5, <2>1 DEF M
  <2>3. CASE Len(keys) # 1
    <3>1. u[l] = Null
      BY <1>1, <1>4, <2>1, <2>3 DEF Pruned
    <3>2. Len(keys) > 1
      <4> DEFINE m == Len(keys)
      <4>1. m \in Nat /\ m # 0 /\ m # 1
        BY <1>3, <2>3
      <4> HIDE DEF m
      <4>2. m > 1
        BY <4>1
      <4> QED BY <4>2 DEF m
    <3> QED BY <1>5, <1>10, <3>1, <3>2 DEF M
  <2> QED BY <2>2, <2>3
<1> QED BY <1>9, <1>10

-----------------------------------------------------------------------------
(* The pointers to commands, by where they are. *)

NPtr(N, n) == Pointer(<<"node", n, 1>>, N[n].command, TRUE)
TPtr(U, t) == Pointer(<<"type", t, 1>>, U[t], TRUE)
KPtr(H, a, i) == Pointer(<<"kid", a, i>>, H[a].kids[i], Counts(H[a].text))
FPtr(s, i) == Pointer(<<"frame", Len(s) + 1 - i, 1>>, s[i].call, FALSE)
NPOf(N, S) == {NPtr(N, n): n \in {x \in S: N[x] # Freed /\ N[x].command # Null}}
NP(N) == NPOf(N, DOMAIN N)
TPOf(U, S) == {TPtr(U, t): t \in {x \in S: U[x] # Null}}
TP(U) == TPOf(U, Types)
KPOf(H, a) == {KPtr(H, a, i): i \in DOMAIN H[a].kids}
KP(H) == UNION {KPOf(H, a): a \in {b \in 1..Len(H): H[b] # Freed}}
FP(s) == {FPtr(s, i): i \in {j \in DOMAIN s: s[j].fn = "conf"}}
Held(N, U, H, s) == NP(N) \cup TP(U) \cup KP(H) \cup FP(s)

\* The pointers of a state, here and in the next one, as functions of its variables.
LEMMA PointersDef ==
  /\ HeldPointers = Held(nodes, unbound, heap, stack)
  /\ HeldPointers' = Held(nodes', unbound', heap', stack')
  /\ Pointers = Held(nodes, unbound, heap, stack) \cup releases
  /\ Pointers' = Held(nodes', unbound', heap', stack') \cup releases'
  /\ \A S: NodePointers(S) = NPOf(nodes, S)
  /\ \A S: TypePointers(S) = TPOf(unbound, S)
  /\ \A a, i: KidPointer(a, i) = KPtr(heap, a, i)
  /\ FramePointer(1) = FPtr(stack, 1)
  /\ \A a: Counted(a) = {p \in Pointers: p.counted /\ p.call = a}
<1>1. HeldPointers = Held(nodes, unbound, heap, stack)
  <2>1. NodePointers(DOMAIN nodes) = NP(nodes)
    BY DEF NP, NPOf, NPtr, NodePointers, NodePointer
  <2>2. TypePointers(Types) = TP(unbound)
    BY DEF TP, TPOf, TPtr, TypePointers, TypePointer
  <2>3. (UNION {{KidPointer(a, i): i \in DOMAIN heap[a].kids}: a \in {b \in Addresses: Live(b)}}) = KP(heap)
    BY DEF KP, KPOf, KPtr, KidPointer, Addresses, Live
  <2>4. {FramePointer(i): i \in {j \in DOMAIN stack: stack[j].fn = "conf"}} = FP(stack)
    BY DEF FP, FPtr, FramePointer
  <2> DEFINE A == NodePointers(DOMAIN nodes)
  <2> DEFINE B == TypePointers(Types)
  <2> DEFINE C == UNION {{KidPointer(a, i): i \in DOMAIN heap[a].kids}: a \in {b \in Addresses: Live(b)}}
  <2> DEFINE D == {FramePointer(i): i \in {j \in DOMAIN stack: stack[j].fn = "conf"}}
  <2>5. HeldPointers = (A \cup B \cup C \cup D)
    BY DEF HeldPointers
  <2> HIDE DEF A, B, C, D
  <2>6. A = NP(nodes) /\ B = TP(unbound) /\ C = KP(heap) /\ D = FP(stack)
    BY <2>1, <2>2, <2>3, <2>4 DEF A, B, C, D
  <2> QED BY <2>5, <2>6 DEF Held
<1>2. HeldPointers' = Held(nodes', unbound', heap', stack')
  <2>1. NodePointers(DOMAIN nodes)' = NP(nodes')
    BY DEF NP, NPOf, NPtr, NodePointers, NodePointer
  <2>2. TypePointers(Types)' = TP(unbound')
    BY DEF TP, TPOf, TPtr, TypePointers, TypePointer
  <2>3. (UNION {{KidPointer(a, i): i \in DOMAIN heap[a].kids}: a \in {b \in Addresses: Live(b)}})' = KP(heap')
    BY DEF KP, KPOf, KPtr, KidPointer, Addresses, Live
  <2>4. {FramePointer(i): i \in {j \in DOMAIN stack: stack[j].fn = "conf"}}' = FP(stack')
    BY DEF FP, FPtr, FramePointer
  <2> DEFINE A == NodePointers(DOMAIN nodes)
  <2> DEFINE B == TypePointers(Types)
  <2> DEFINE C == UNION {{KidPointer(a, i): i \in DOMAIN heap[a].kids}: a \in {b \in Addresses: Live(b)}}
  <2> DEFINE D == {FramePointer(i): i \in {j \in DOMAIN stack: stack[j].fn = "conf"}}
  <2>5. HeldPointers' = (A \cup B \cup C \cup D)'
    BY DEF HeldPointers
  <2> HIDE DEF A, B, C, D
  <2>6. A' = NP(nodes') /\ B' = TP(unbound') /\ C' = KP(heap') /\ D' = FP(stack')
    BY <2>1, <2>2, <2>3, <2>4 DEF A, B, C, D
  <2> QED BY <2>5, <2>6 DEF Held
<1>3. \A S: NodePointers(S) = NPOf(nodes, S)
  BY DEF NPOf, NPtr, NodePointers, NodePointer
<1>4. \A S: TypePointers(S) = TPOf(unbound, S)
  BY DEF TPOf, TPtr, TypePointers, TypePointer
<1>5. \A a, i: KidPointer(a, i) = KPtr(heap, a, i)
  BY DEF KPtr, KidPointer
<1>6. FramePointer(1) = FPtr(stack, 1)
  BY DEF FPtr, FramePointer
<1> QED BY <1>1, <1>2, <1>3, <1>4, <1>5, <1>6 DEF Pointers, Counted

\* What a pointer is, of each kind.
LEMMA NPtrIs ==
  ASSUME NEW N, NEW n
  PROVE  NPtr(N, n).from = <<"node", n, 1>> /\ NPtr(N, n).call = N[n].command /\ NPtr(N, n).counted
BY DEF NPtr, Pointer

\* The pointer of a type is counted.
LEMMA TPtrIs ==
  ASSUME NEW U, NEW t
  PROVE  TPtr(U, t).from = <<"type", t, 1>> /\ TPtr(U, t).call = U[t] /\ TPtr(U, t).counted
BY DEF TPtr, Pointer

\* The pointer of a command to one in it is counted if that is bind or unbound.
LEMMA KPtrIs ==
  ASSUME NEW H, NEW a, NEW i
  PROVE  /\ KPtr(H, a, i).from = <<"kid", a, i>> /\ KPtr(H, a, i).call = H[a].kids[i]
         /\ KPtr(H, a, i).counted = Counts(H[a].text)
BY DEF KPtr, Pointer

\* The pointer of a frame is not counted, and its place is the height of the frame.
LEMMA FPtrIs ==
  ASSUME NEW s, NEW i
  PROVE  FPtr(s, i).from = <<"frame", Len(s) + 1 - i, 1>> /\ FPtr(s, i).call = s[i].call /\ ~FPtr(s, i).counted
BY DEF FPtr, Pointer

\* Every pointer says of which kind it is: no two of different kinds are the same.
LEMMA KindIs ==
  /\ \A N: \A S: \A p \in NPOf(N, S): p.from[1] = "node"
  /\ \A U: \A S: \A p \in TPOf(U, S): p.from[1] = "type"
  /\ \A H: \A p \in KP(H): p.from[1] = "kid"
  /\ \A s: \A p \in FP(s): p.from[1] = "frame"
<1>1. ASSUME NEW N, NEW S, NEW p \in NPOf(N, S) PROVE p.from[1] = "node"
  <2>1. PICK n: p = NPtr(N, n)
    BY DEF NPOf
  <2>2. p.from = <<"node", n, 1>>
    BY <2>1, NPtrIs
  <2> QED BY <2>2
<1>2. ASSUME NEW U, NEW S, NEW p \in TPOf(U, S) PROVE p.from[1] = "type"
  <2>1. PICK t: p = TPtr(U, t)
    BY DEF TPOf
  <2>2. p.from = <<"type", t, 1>>
    BY <2>1, TPtrIs
  <2> QED BY <2>2
<1>3. ASSUME NEW H, NEW p \in KP(H) PROVE p.from[1] = "kid"
  <2>1. PICK a, i: p = KPtr(H, a, i)
    BY DEF KP, KPOf
  <2>2. p.from = <<"kid", a, i>>
    BY <2>1, KPtrIs
  <2> QED BY <2>2
<1>4. ASSUME NEW s, NEW p \in FP(s) PROVE p.from[1] = "frame"
  <2>1. PICK i: p = FPtr(s, i)
    BY DEF FP
  <2>2. p.from = <<"frame", Len(s) + 1 - i, 1>>
    BY <2>1, FPtrIs
  <2> QED BY <2>2
<1> QED BY <1>1, <1>2, <1>3, <1>4

\* A pointer of another command is another pointer.
LEMMA KidsApart ==
  ASSUME NEW H, NEW G, NEW a, NEW b, NEW p \in KPOf(H, a), NEW q \in KPOf(G, b), a # b
  PROVE  p # q
<1>1. p.from[2] = a
  <2>1. PICK i: p = KPtr(H, a, i)
    BY DEF KPOf
  <2>2. p.from = <<"kid", a, i>>
    BY <2>1, KPtrIs
  <2> QED BY <2>2
<1>2. q.from[2] = b
  <2>1. PICK i: q = KPtr(G, b, i)
    BY DEF KPOf
  <2>2. q.from = <<"kid", b, i>>
    BY <2>1, KPtrIs
  <2> QED BY <2>2
<1> QED BY <1>1, <1>2

Without(H, a) == [H EXCEPT ![a] = Freed]
Recount(H, a, c) == [H EXCEPT ![a].refcount = c]

\* The pointers in a command go with it.
LEMMA KidsFreed ==
  ASSUME NEW H, H \in Seq(Objects \cup {Freed}), NEW a \in 1..Len(H), H[a] # Freed,
         NEW G, G = Without(H, a)
  PROVE  /\ G \in Seq(Objects \cup {Freed}) /\ Len(G) = Len(H) /\ G[a] = Freed
         /\ \A b \in 1..Len(H): b # a => G[b] = H[b]
         /\ KP(G) = KP(H) \ KPOf(H, a) /\ KPOf(H, a) \subseteq KP(H)
<1>1. G \in Seq(Objects \cup {Freed}) /\ Len(G) = Len(H) /\ G[a] = Freed
  BY DEF Without
<1>2. \A b \in 1..Len(H): b # a => G[b] = H[b]
  BY DEF Without
<1>3. KPOf(H, a) \subseteq KP(H)
  BY DEF KP
<1>4. \A b \in 1..Len(H): b # a => KPOf(G, b) = KPOf(H, b)
  BY <1>2 DEF KPOf, KPtr
<1>5. ASSUME NEW p \in KP(G) PROVE p \in KP(H) \ KPOf(H, a)
  <2>1. PICK b \in 1..Len(H): G[b] # Freed /\ p \in KPOf(G, b)
    BY <1>1, <1>5 DEF KP
  <2>2. b # a
    BY <1>1, <2>1
  <2>3. p \in KPOf(H, b) /\ H[b] # Freed
    BY <1>2, <1>4, <2>1, <2>2
  <2>4. p \notin KPOf(H, a)
    BY <2>2, <2>3, KidsApart
  <2> QED BY <2>3, <2>4 DEF KP
<1>6. ASSUME NEW p \in KP(H), p \notin KPOf(H, a) PROVE p \in KP(G)
  <2>1. PICK b \in 1..Len(H): H[b] # Freed /\ p \in KPOf(H, b)
    BY <1>6 DEF KP
  <2>2. b # a
    BY <1>6, <2>1
  <2>3. p \in KPOf(G, b) /\ G[b] # Freed /\ b \in 1..Len(G)
    BY <1>1, <1>2, <1>4, <2>1, <2>2
  <2> QED BY <2>3 DEF KP
<1>7. KP(G) = KP(H) \ KPOf(H, a)
  BY <1>5, <1>6
<1> QED BY <1>1, <1>2, <1>3, <1>7

\* A count does not matter to the pointers in commands.
LEMMA KidsCounted ==
  ASSUME NEW H, H \in Seq(Objects \cup {Freed}), NEW a \in 1..Len(H), H[a] # Freed, NEW c \in Int,
         NEW G, G = Recount(H, a, c)
  PROVE  /\ G \in Seq(Objects \cup {Freed}) /\ Len(G) = Len(H)
         /\ G[a] # Freed /\ G[a].refcount = c /\ G[a].text = H[a].text /\ G[a].kids = H[a].kids
         /\ \A b \in 1..Len(H): b # a => G[b] = H[b]
         /\ KP(G) = KP(H)
<1> DEFINE o == [H[a] EXCEPT !.refcount = c]
<1>1. H[a] \in Objects
  OBVIOUS
<1>2. o \in Objects /\ o.refcount = c /\ o.text = H[a].text /\ o.kids = H[a].kids
  BY <1>1 DEF Objects
<1>3. o # Freed
  BY <1>2, NoAddressAssumption
<1>4. G = [H EXCEPT ![a] = o]
  BY DEF Recount
<1> HIDE DEF o
<1>5. G \in Seq(Objects \cup {Freed}) /\ Len(G) = Len(H) /\ G[a] = o
  BY <1>2, <1>4
<1>6. \A b \in 1..Len(H): b # a => G[b] = H[b]
  BY <1>4
<1>7. \A b \in 1..Len(H): KPOf(G, b) = KPOf(H, b) /\ (G[b] # Freed <=> H[b] # Freed)
  <2>1. \A b \in 1..Len(H): b # a => KPOf(G, b) = KPOf(H, b)
    BY <1>6 DEF KPOf, KPtr
  <2>2. KPOf(G, a) = KPOf(H, a)
    BY <1>2, <1>5 DEF KPOf, KPtr
  <2> QED BY <1>3, <1>5, <1>6, <2>1, <2>2
<1>8. KP(G) = KP(H)
  BY <1>5, <1>7 DEF KP
<1> QED BY <1>2, <1>3, <1>4, <1>5, <1>6, <1>8

\* The pointers of the stack, when a frame is taken off.
LEMMA FramesTail ==
  ASSUME NEW S, NEW s \in Seq(S), s # <<>>
  PROVE  /\ FP(s) = IF s[1].fn = "conf" THEN FP(Tail(s)) \cup {FPtr(s, 1)} ELSE FP(Tail(s))
         /\ FPtr(s, 1) \notin FP(Tail(s))
<1> DEFINE t == Tail(s)
<1>1. t \in Seq(S) /\ Len(t) = Len(s) - 1 /\ Len(s) \in Nat \ {0} /\ DOMAIN s = 1..Len(s) /\ DOMAIN t = 1..Len(s) - 1
      /\ \A i \in 1..Len(s) - 1: t[i] = s[i + 1]
  BY Popped
<1> HIDE DEF t
<1>2. ASSUME NEW i \in DOMAIN t PROVE FPtr(t, i) = FPtr(s, i + 1) /\ t[i] = s[i + 1] /\ i + 1 \in DOMAIN s /\ i + 1 # 1
  <2>1. t[i] = s[i + 1] /\ Len(t) + 1 - i = Len(s) + 1 - (i + 1) /\ i + 1 \in DOMAIN s /\ i + 1 # 1
    BY <1>1
  <2> QED BY <2>1 DEF FPtr
<1>3. ASSUME NEW p \in FP(t) PROVE p \in FP(s) /\ p # FPtr(s, 1)
  <2>1. PICK i \in DOMAIN t: t[i].fn = "conf" /\ p = FPtr(t, i)
    BY <1>3 DEF FP
  <2>2. p = FPtr(s, i + 1) /\ s[i + 1].fn = "conf" /\ i + 1 \in DOMAIN s
    BY <1>2, <2>1
  <2>3. p.from[2] = Len(s) + 1 - (i + 1) /\ FPtr(s, 1).from[2] = Len(s) + 1 - 1
    <3>1. p.from = <<"frame", Len(s) + 1 - (i + 1), 1>> /\ FPtr(s, 1).from = <<"frame", Len(s) + 1 - 1, 1>>
      BY <2>2, FPtrIs
    <3> QED BY <3>1
  <2>4. Len(s) + 1 - (i + 1) # Len(s) + 1 - 1
    BY <1>1, <2>1
  <2> QED BY <2>2, <2>3, <2>4 DEF FP
<1>4. ASSUME NEW i \in DOMAIN s, i # 1, s[i].fn = "conf" PROVE FPtr(s, i) \in FP(t)
  <2>1. i - 1 \in DOMAIN t /\ (i - 1) + 1 = i
    BY <1>1, <1>4
  <2>2. FPtr(t, i - 1) = FPtr(s, i) /\ t[i - 1].fn = "conf"
    BY <1>2, <1>4, <2>1
  <2> QED BY <2>1, <2>2 DEF FP
<1>5. 1 \in DOMAIN s
  BY <1>1
<1>6. ASSUME NEW p \in FP(s) PROVE p \in FP(t) \/ (s[1].fn = "conf" /\ p = FPtr(s, 1))
  <2>1. PICK i \in DOMAIN s: s[i].fn = "conf" /\ p = FPtr(s, i)
    BY <1>6 DEF FP
  <2> QED BY <1>4, <2>1
<1>7. s[1].fn = "conf" => FPtr(s, 1) \in FP(s)
  BY <1>5 DEF FP
<1>8. FPtr(s, 1) \notin FP(t)
  BY <1>3
<1> QED BY <1>3, <1>6, <1>7, <1>8 DEF t

\* A frame on top adds a pointer if it reads a line, and takes none away.
LEMMA FramesPush ==
  ASSUME NEW S, NEW s \in Seq(S), NEW f \in S
  PROVE  LET t == <<f>> \o s IN
         /\ f.fn # "conf" => FP(t) = FP(s)
         /\ f.fn = "conf" => FP(t) = FP(s) \cup {FPtr(t, 1)} /\ FPtr(t, 1) \notin FP(s)
         /\ FPtr(t, 1) = Pointer(<<"frame", Len(s) + 1, 1>>, f.call, FALSE)
<1> DEFINE t == <<f>> \o s
<1>1. t \in Seq(S) /\ t # <<>> /\ t[1] = f /\ Tail(t) = s /\ Len(t) = Len(s) + 1
  BY Pushed
<1> HIDE DEF t
<1>2. /\ FP(t) = IF t[1].fn = "conf" THEN FP(s) \cup {FPtr(t, 1)} ELSE FP(s)
      /\ FPtr(t, 1) \notin FP(s)
  BY <1>1, FramesTail
<1>3. FPtr(t, 1) = Pointer(<<"frame", Len(s) + 1, 1>>, f.call, FALSE)
  <2>1. Len(t) + 1 - 1 = Len(s) + 1
    BY <1>1
  <2> QED BY <1>1, <2>1 DEF FPtr
<1> QED BY <1>1, <1>2, <1>3 DEF t

\* The frame on top has no pointer, and the one put in its place has none.
LEMMA FramesReplace ==
  ASSUME NEW S, NEW s \in Seq(S), s # <<>>, s[1].fn # "conf", NEW f \in S, f.fn # "conf"
  PROVE  FP(<<f>> \o Tail(s)) = FP(s)
<1>1. Tail(s) \in Seq(S)
  BY Popped
<1>2. FP(<<f>> \o Tail(s)) = FP(Tail(s))
  BY <1>1, FramesPush
<1> QED BY <1>2, FramesTail

\* The pointers of the unbound commands, when one is taken away, or put there.
LEMMA TypePointersCleared ==
  ASSUME NEW U, DOMAIN U = Types, NEW t \in Types
  PROVE  LET V == [U EXCEPT ![t] = Null] IN
         /\ TP(U) = TP(V) \cup TPOf(U, {t}) /\ TP(V) \cap TPOf(U, {t}) = {}
<1> DEFINE V == [U EXCEPT ![t] = Null]
<1>1. V[t] = Null /\ \A x \in Types: x # t => V[x] = U[x] /\ TPtr(V, x) = TPtr(U, x)
  BY DEF TPtr
<1> HIDE DEF V
<1>2. ASSUME NEW p \in TP(V) PROVE p \in TP(U) /\ p \notin TPOf(U, {t})
  <2>1. PICK x \in Types: V[x] # Null /\ p = TPtr(V, x)
    BY <1>2 DEF TP, TPOf
  <2>2. x # t /\ U[x] # Null /\ p = TPtr(U, x)
    BY <1>1, <2>1
  <2>3. p.from[2] = x
    BY <2>2, TPtrIs
  <2>4. p # TPtr(U, t)
    <3>1. TPtr(U, t).from[2] = t
      BY TPtrIs
    <3> QED BY <2>2, <2>3, <3>1
  <2> QED BY <2>2, <2>4 DEF TP, TPOf
<1>3. ASSUME NEW p \in TP(U) PROVE p \in TP(V) \/ p \in TPOf(U, {t})
  <2>1. PICK x \in Types: U[x] # Null /\ p = TPtr(U, x)
    BY <1>3 DEF TP, TPOf
  <2> QED BY <1>1, <2>1 DEF TP, TPOf
<1>4. TPOf(U, {t}) \subseteq TP(U)
  BY DEF TP, TPOf
<1> QED BY <1>2, <1>3, <1>4 DEF V

\* A command that is stored for a type adds one pointer, which was not there.
LEMMA TypePointersStored ==
  ASSUME NEW U, DOMAIN U = Types, NEW t \in Types, U[t] = Null, NEW a, a # Null
  PROVE  LET V == [U EXCEPT ![t] = a] IN
         /\ TP(V) = TP(U) \cup {TPtr(V, t)} /\ TPtr(V, t) \notin TP(U)
         /\ V[t] = a /\ \A x \in Types: x # t => V[x] = U[x]
<1> DEFINE V == [U EXCEPT ![t] = a]
<1>1. V[t] = a /\ \A x \in Types: x # t => V[x] = U[x] /\ TPtr(V, x) = TPtr(U, x)
  BY DEF TPtr
<1> HIDE DEF V
<1>2. ASSUME NEW p \in TP(V) PROVE p \in TP(U) \cup {TPtr(V, t)}
  <2>1. PICK x \in Types: V[x] # Null /\ p = TPtr(V, x)
    BY <1>2 DEF TP, TPOf
  <2> QED BY <1>1, <2>1 DEF TP, TPOf
<1>3. ASSUME NEW p \in TP(U) PROVE p \in TP(V) /\ p # TPtr(V, t)
  <2>1. PICK x \in Types: U[x] # Null /\ p = TPtr(U, x)
    BY <1>3 DEF TP, TPOf
  <2>2. x # t /\ p = TPtr(V, x) /\ V[x] # Null
    BY <1>1, <2>1
  <2>3. p.from[2] = x
    BY <2>1, TPtrIs
  <2>4. TPtr(V, t).from[2] = t
    BY TPtrIs
  <2> QED BY <2>2, <2>3, <2>4 DEF TP, TPOf
<1>4. TPtr(V, t) \in TP(V)
  BY <1>1 DEF TP, TPOf
<1> QED BY <1>1, <1>2, <1>3, <1>4 DEF V

\* The pointers of the nodes.
LEMMA NodePointersApart ==
  ASSUME NEW N, NEW M, NEW n, NEW m, n # m
  PROVE  NPtr(N, n) # NPtr(M, m)
<1>1. NPtr(N, n).from = <<"node", n, 1>> /\ NPtr(M, m).from = <<"node", m, 1>>
  BY NPtrIs
<1>2. NPtr(N, n).from[2] = n /\ NPtr(M, m).from[2] = m
  BY <1>1
<1> QED BY <1>2

\* Some nodes lose their commands or are freed, the other ones keep what they have.
LEMMA NodePointersMoved ==
  ASSUME NEW N, NEW M, NEW S, S \subseteq DOMAIN N,
         \A n \in DOMAIN M: M[n] # Freed /\ M[n].command # Null =>
           n \in DOMAIN N /\ N[n] # Freed /\ M[n].command = N[n].command,
         \A n \in DOMAIN N: N[n] # Freed /\ N[n].command # Null /\ n \notin S =>
           n \in DOMAIN M /\ M[n] # Freed /\ M[n].command = N[n].command
  PROVE  /\ NP(M) \subseteq NP(N) /\ NPOf(N, S) \subseteq NP(N)
         /\ NP(N) = NP(M) \cup NPOf(N, S)
         /\ (\A n \in S: n \in DOMAIN M => M[n] = Freed \/ M[n].command = Null) => NP(M) \cap NPOf(N, S) = {}
<1>1. ASSUME NEW p \in NP(M)
      PROVE  \E n \in DOMAIN N: /\ n \in DOMAIN M /\ M[n] # Freed /\ M[n].command # Null
                                /\ N[n] # Freed /\ N[n].command # Null /\ p = NPtr(N, n)
  <2>1. PICK n \in DOMAIN M: M[n] # Freed /\ M[n].command # Null /\ p = NPtr(M, n)
    BY <1>1 DEF NP, NPOf
  <2>2. n \in DOMAIN N /\ N[n] # Freed /\ M[n].command = N[n].command
    BY <2>1
  <2> QED BY <2>1, <2>2 DEF NPtr
<1>2. NP(M) \subseteq NP(N)
  BY <1>1 DEF NP, NPOf
<1>3. NPOf(N, S) \subseteq NP(N)
  BY DEF NP, NPOf
<1>4. ASSUME NEW p \in NP(N) PROVE p \in NP(M) \cup NPOf(N, S)
  <2>1. PICK n \in DOMAIN N: N[n] # Freed /\ N[n].command # Null /\ p = NPtr(N, n)
    BY <1>4 DEF NP, NPOf
  <2>2. CASE n \in S
    BY <2>1, <2>2 DEF NPOf
  <2>3. CASE n \notin S
    <3>1. n \in DOMAIN M /\ M[n] # Freed /\ M[n].command = N[n].command
      BY <2>1, <2>3
    <3>2. p = NPtr(M, n)
      BY <2>1, <3>1 DEF NPtr
    <3> QED BY <2>1, <3>1, <3>2 DEF NP, NPOf
  <2> QED BY <2>2, <2>3
<1>5. ASSUME \A n \in S: n \in DOMAIN M => M[n] = Freed \/ M[n].command = Null,
             NEW p \in NP(M), p \in NPOf(N, S)
      PROVE  FALSE
  <2>1. PICK n \in DOMAIN N: n \in DOMAIN M /\ M[n] # Freed /\ M[n].command # Null /\ p = NPtr(N, n)
    BY <1>1, <1>5
  <2>2. PICK m \in S: p = NPtr(N, m)
    BY <1>5 DEF NPOf
  <2>3. n = m
    BY <2>1, <2>2, NodePointersApart
  <2> QED BY <1>5, <2>1, <2>2, <2>3
<1> QED BY <1>2, <1>3, <1>4, <1>5

\* A command that is stored in a node adds one pointer, which was not there.
LEMMA NodePointersStored ==
  ASSUME NEW N, N \in Seq(Nodes \cup {Freed}), NEW n \in DOMAIN N, N[n] # Freed, N[n].command = Null,
         NEW a \in Nat
  PROVE  LET M == [N EXCEPT ![n].command = a] IN
         /\ M \in Seq(Nodes \cup {Freed}) /\ Len(M) = Len(N) /\ M[n] # Freed /\ M[n].command = a
         /\ M[n].bindings = N[n].bindings /\ \A m \in DOMAIN N: m # n => M[m] = N[m]
         /\ NP(M) = NP(N) \cup {NPtr(M, n)} /\ NPtr(M, n) \notin NP(N)
<1> DEFINE o == [N[n] EXCEPT !.command = a]
<1> DEFINE M == [N EXCEPT ![n] = o]
<1>1. N[n] \in Nodes
  BY NodeIs
<1>2. o \in Nodes /\ o.command = a /\ o.bindings = N[n].bindings
  BY <1>1 DEF Nodes
<1>3. o # Freed /\ a # Null
  BY <1>2, NoAddressAssumption
<1>4. M = [N EXCEPT ![n].command = a]
  OBVIOUS
<1> HIDE DEF o
<1>5. M \in Seq(Nodes \cup {Freed}) /\ Len(M) = Len(N) /\ M[n] = o /\ DOMAIN M = DOMAIN N
  BY <1>2
<1>6. \A m \in DOMAIN N: m # n => M[m] = N[m] /\ NPtr(M, m) = NPtr(N, m)
  BY DEF NPtr
<1> HIDE DEF M
<1>7. ASSUME NEW p \in NP(M) PROVE p \in NP(N) \cup {NPtr(M, n)}
  <2>1. PICK m \in DOMAIN M: M[m] # Freed /\ M[m].command # Null /\ p = NPtr(M, m)
    BY <1>7 DEF NP, NPOf
  <2> QED BY <1>5, <1>6, <2>1 DEF NP, NPOf
<1>8. ASSUME NEW p \in NP(N) PROVE p \in NP(M) /\ p # NPtr(M, n)
  <2>1. PICK m \in DOMAIN N: N[m] # Freed /\ N[m].command # Null /\ p = NPtr(N, m)
    BY <1>8 DEF NP, NPOf
  <2>2. m # n
    BY <2>1
  <2>3. p # NPtr(M, n)
    BY <2>1, <2>2, NodePointersApart
  <2> QED BY <1>5, <1>6, <2>1, <2>2, <2>3 DEF NP, NPOf
<1>9. NPtr(M, n) \in NP(M)
  BY <1>2, <1>3, <1>5 DEF NP, NPOf
<1> QED BY <1>2, <1>3, <1>4, <1>5, <1>6, <1>7, <1>8, <1>9

\* bind takes the pointer out of the node that it finds.
LEMMA BindPointers ==
  ASSUME NEW N, TreeOK(N), NEW keys \in Seq(Keys), keys # <<>>
  PROVE  LET M == BindOf(N, keys)
             S == {FoundOf(N, keys)} \ {Null} IN
         NP(N) = NP(M) \cup NPOf(N, S) /\ NP(M) \cap NPOf(N, S) = {}
<1> DEFINE d == DepthOf(N, keys)
<1> DEFINE last == WayOf(N, keys)[d]
<1> DEFINE M == BindOf(N, keys)
<1> DEFINE f == FoundOf(N, keys)
<1> DEFINE S == {f} \ {Null}
<1>1. Grown(N, keys, M, d, last)
  BY BindIs
<1>2. /\ N \in Seq(Nodes \cup {Freed}) /\ DOMAIN N = 1..Len(N) /\ Len(N) \in Nat /\ Len(keys) \in Nat /\ Len(keys) \in 0..Len(keys)
  BY DEF TreeOK, LinksOK
<1>3. f # Null => f \in DOMAIN N
  <2>1. TreeWay(N, keys, WayOf(N, keys))
    BY WayFacts
  <2> QED BY <1>2, <2>1 DEF TreeWay, FoundOf
<1>4. f # Null <=> d = Len(keys)
  <2>1. CASE d = Len(keys)
    BY <1>2, <2>1, DepthIs DEF FoundOf
  <2>2. CASE d # Len(keys)
    <3>1. d \in 0..Len(keys) /\ \A i \in d + 1..Len(keys): WayOf(N, keys)[i] = Null
      BY DepthIs
    <3>2. Len(keys) \in d + 1..Len(keys)
      BY <1>2, <2>2, <3>1
    <3> QED BY <2>2, <3>1, <3>2 DEF FoundOf
  <2> QED BY <2>1, <2>2
<1>5. d = Len(keys) => f = last
  BY DEF FoundOf
<1> HIDE DEF d, last, M, f
<1>6. DOMAIN M = 1..Len(N) + (Len(keys) - d) /\ d \in 0..Len(keys)
  BY <1>1 DEF Grown
<1>7. S \subseteq DOMAIN N
  BY <1>3
<1>8. \A n \in DOMAIN M: M[n] # Freed /\ M[n].command # Null =>
           n \in DOMAIN N /\ N[n] # Freed /\ M[n].command = N[n].command
  <2>1. ASSUME NEW n \in DOMAIN M, M[n] # Freed, M[n].command # Null
        PROVE  n \in DOMAIN N /\ N[n] # Freed /\ M[n].command = N[n].command
    <3>1. CASE n \in 1..Len(N) /\ n # last
      BY <1>1, <1>2, <2>1, <3>1 DEF Grown
    <3>2. CASE n = last
      <4>1. d # Len(keys)
        BY <1>1, <2>1, <3>2 DEF Grown
      <4>2. d < Len(keys)
        BY <1>2, <1>6, <4>1
      <4> QED BY <1>1, <1>2, <3>2, <4>2 DEF Grown
    <3>3. CASE n \notin 1..Len(N)
      <4>1. n - Len(N) \in 1..Len(keys) - d /\ Len(N) + (n - Len(N)) = n
        BY <1>2, <1>6, <2>1, <3>3
      <4>2. M[Len(N) + (n - Len(N))].command = Null
        BY <1>1, <4>1 DEF Grown
      <4> QED BY <2>1, <4>1, <4>2
    <3> QED BY <3>1, <3>2, <3>3
  <2> QED BY <2>1
<1>9. \A n \in DOMAIN N: N[n] # Freed /\ N[n].command # Null /\ n \notin S =>
           n \in DOMAIN M /\ M[n] # Freed /\ M[n].command = N[n].command
  <2>1. ASSUME NEW n \in DOMAIN N, N[n] # Freed, N[n].command # Null, n \notin S
        PROVE  n \in DOMAIN M /\ M[n] # Freed /\ M[n].command = N[n].command
    <3>1. n \in DOMAIN M
      BY <1>2, <1>6
    <3>2. CASE n # last
      BY <1>1, <1>2, <2>1, <3>1, <3>2 DEF Grown
    <3>3. CASE n = last
      <4>1. d # Len(keys)
        BY <1>4, <1>5, <2>1, <3>3
      <4>2. d < Len(keys)
        BY <1>2, <1>6, <4>1
      <4> QED BY <1>1, <1>2, <3>1, <3>3, <4>2 DEF Grown
    <3> QED BY <3>2, <3>3
  <2> QED BY <2>1
<1>10. \A n \in S: n \in DOMAIN M => M[n] = Freed \/ M[n].command = Null
  <2>1. ASSUME f # Null PROVE M[f].command = Null
    BY <1>1, <1>4, <1>5, <2>1 DEF Grown
  <2> QED BY <2>1
<1> HIDE DEF S
<1>11. NP(N) = NP(M) \cup NPOf(N, S) /\ NP(M) \cap NPOf(N, S) = {}
  BY <1>7, <1>8, <1>9, <1>10, NodePointersMoved
<1> QED BY <1>11 DEF M, S, f

\* unbind takes the pointer out of the node that it finds, unless it only counts it
\* down, and others with the nodes, when it loses something.
LEMMA UnbindPointers ==
  ASSUME NEW N, TreeOK(N), NEW keys \in Seq(Keys), keys # <<>>, FoundOf(N, keys) # Null,
         NEW frees \in BOOLEAN
  PROVE  LET M == UnbindOf(N, keys, frees)
             R == NPOf(N, {FoundOf(N, keys)}) IN
         /\ NP(M) \subseteq NP(N) /\ R \subseteq NP(N)
         /\ LostIn(N, keys) = {} => NP(N) = NP(M) \cup R
         /\ Len(keys) > 1 \/ frees \/ CommandOf(N, keys) = Null => NP(M) \cap R = {}
<1> DEFINE gone == GoneOf(N, keys)
<1> DEFINE M == UnbindOf(N, keys, frees)
<1> DEFINE f == FoundOf(N, keys)
<1> DEFINE R == NPOf(N, {f})
<1>1. Pruned(N, keys, frees, M, gone)
  BY UnbindIs
<1>2. /\ N \in Seq(Nodes \cup {Freed}) /\ DOMAIN N = 1..Len(N) /\ Len(N) \in Nat /\ Len(keys) \in Nat \ {0} /\ Len(keys) \in 0..Len(keys)
  BY DEF TreeOK, LinksOK
<1>3. f \in DOMAIN N /\ N[f] # Freed
  <2>1. TreeWay(N, keys, WayOf(N, keys))
    BY WayFacts
  <2> QED BY <1>2, <2>1 DEF TreeWay, FoundOf
<1>4. CommandOf(N, keys) = N[f].command
  BY DEF CommandOf
<1>5. LostIn(N, keys) = {} => \A n \in gone: n = f \/ N[n].command = Null
  <2>1. ASSUME LostIn(N, keys) = {}, NEW i \in DeletedOf(N, keys)
        PROVE  WayOf(N, keys)[i] = f \/ N[WayOf(N, keys)[i]].command = Null
    <3>1. i \in 2..Len(keys) /\ (i < Len(keys) => N[WayOf(N, keys)[i]].command = Null)
      BY <2>1, NothingLost
    <3>2. CASE i < Len(keys)
      BY <3>1, <3>2
    <3>3. CASE i = Len(keys)
      BY <3>3 DEF FoundOf
    <3>4. i < Len(keys) \/ i = Len(keys)
      BY <1>2, <3>1
    <3> QED BY <3>2, <3>3, <3>4
  <2> QED BY <2>1 DEF GoneOf
<1> HIDE DEF gone, M, f
<1>6. DOMAIN M = 1..Len(N)
  BY <1>1 DEF Pruned
<1>7. \A n \in DOMAIN M: M[n] # Freed /\ M[n].command # Null =>
           n \in DOMAIN N /\ N[n] # Freed /\ M[n].command = N[n].command
  <2>1. ASSUME NEW n \in DOMAIN M, M[n] # Freed, M[n].command # Null
        PROVE  n \in DOMAIN N /\ N[n] # Freed /\ M[n].command = N[n].command
    <3>1. n \notin gone
      BY <1>1, <2>1 DEF Pruned
    <3>2. n \in 1..Len(N) /\ N[n] # Freed
      BY <1>1, <1>6, <2>1, <3>1 DEF Pruned
    <3>3. M[n].command = IF n = f /\ frees THEN Null ELSE N[n].command
      BY <1>1, <3>1, <3>2 DEF Pruned, f
    <3> QED BY <1>2, <2>1, <3>2, <3>3
  <2> QED BY <2>1
<1>8. \A n \in DOMAIN N: N[n] # Freed /\ n \notin gone /\ n # f =>
           n \in DOMAIN M /\ M[n] # Freed /\ M[n].command = N[n].command
  <2>1. ASSUME NEW n \in DOMAIN N, N[n] # Freed, n \notin gone, n # f
        PROVE  n \in DOMAIN M /\ M[n] # Freed /\ M[n].command = N[n].command
    BY <1>1, <1>2, <1>6, <2>1 DEF Pruned, f
  <2> QED BY <2>1
<1>9. gone \subseteq DOMAIN N /\ \A n \in gone: M[n] = Freed
  BY <1>1, <1>2 DEF Pruned
<1>10. NP(M) \subseteq NP(N) /\ R \subseteq NP(N)
  <2>1. {f} \cup gone \subseteq DOMAIN N
    BY <1>3, <1>9
  <2>2. NP(M) \subseteq NP(N) /\ NPOf(N, {f} \cup gone) \subseteq NP(N)
    <3> DEFINE S == {f} \cup gone
    <3>1. \A n \in DOMAIN N: N[n] # Freed /\ N[n].command # Null /\ n \notin S =>
           n \in DOMAIN M /\ M[n] # Freed /\ M[n].command = N[n].command
      BY <1>8
    <3> HIDE DEF S
    <3> QED BY <1>7, <2>1, <3>1, NodePointersMoved DEF S
  <2>3. R \subseteq NPOf(N, {f} \cup gone)
    BY DEF NPOf
  <2> QED BY <2>2, <2>3
<1>11. ASSUME LostIn(N, keys) = {} PROVE NP(N) = NP(M) \cup R
  <2>1. \A n \in DOMAIN N: N[n] # Freed /\ N[n].command # Null /\ n \notin {f} =>
           n \in DOMAIN M /\ M[n] # Freed /\ M[n].command = N[n].command
    BY <1>5, <1>8, <1>11
  <2>2. {f} \subseteq DOMAIN N
    BY <1>3
  <2> QED BY <1>7, <2>1, <2>2, NodePointersMoved
<1>12. ASSUME Len(keys) > 1 \/ frees \/ CommandOf(N, keys) = Null PROVE NP(M) \cap R = {}
  <2>1. M[f] = Freed \/ M[f].command = Null
    <3>1. CASE f \in gone
      BY <1>9, <3>1
    <3>2. CASE f \notin gone
      <4>1. Len(keys) = 1
        BY <1>1, <3>2 DEF Pruned, f
      <4>2. ~(Len(keys) > 1)
        BY <4>1
      <4>3. M[f].command = IF frees THEN Null ELSE N[f].command
        BY <1>1, <1>2, <1>3, <3>2 DEF Pruned, f
      <4> QED BY <1>4, <1>12, <4>2, <4>3
    <3> QED BY <3>1, <3>2
  <2>2. ASSUME NEW p \in NP(M), p \in R PROVE FALSE
    <3>1. PICK n \in DOMAIN M: M[n] # Freed /\ M[n].command # Null /\ p = NPtr(M, n)
      BY <2>2 DEF NP, NPOf
    <3>2. p = NPtr(N, f)
      BY <2>2 DEF NPOf
    <3>3. n = f
      BY <3>1, <3>2, NodePointersApart
    <3> QED BY <2>1, <3>1, <3>3
  <2> QED BY <2>2
<1> QED BY <1>10, <1>11, <1>12 DEF M, f

-----------------------------------------------------------------------------
(* The counts. *)

CountedIn(P, a) == {p \in P: p.counted /\ p.call = a}

\* What holds of the heap H and the pointers P also after unbind has left a pointer
\* behind: nothing is lost that has no count, and no count becomes negative.
Sound(H, P) ==
  /\ IsFiniteSet(P)
  /\ \A p \in P: p.call \in 1..Len(H)
  /\ \A p, q \in P: p.call = q.call /\ ~p.counted => p = q
  /\ \A p \in P: p.counted /\ H[p.call] # Freed => H[p.call].refcount >= 1
  /\ \A a \in 1..Len(H): H[a] # Freed => H[a].refcount >= 0
\* What holds unless it has: no pointer leads to what has been freed.
Safe(H, P) ==
  /\ \A p \in P: H[p.call] # Freed
  /\ \A a \in 1..Len(H): H[a] # Freed => H[a].refcount >= Cardinality(CountedIn(P, a))
\* What holds unless it has lost something, too.
Exact(H, P) ==
  \A a \in 1..Len(H): H[a] # Freed =>
    /\ H[a].refcount = Cardinality(CountedIn(P, a))
    /\ IsLost(H[a].text) \/ \E p \in P: p.call = a

\* Fewer pointers.
LEMMA Fewer ==
  ASSUME NEW H, NEW P, NEW Q, Q \subseteq P, Sound(H, P), H \in Seq(Objects \cup {Freed})
  PROVE  Sound(H, Q) /\ (Safe(H, P) => Safe(H, Q))
<1>1. IsFiniteSet(P) /\ IsFiniteSet(Q)
  BY FS_Subset DEF Sound
<1>2. Sound(H, Q)
  BY <1>1 DEF Sound
<1>3. ASSUME Safe(H, P), NEW a \in 1..Len(H), H[a] # Freed PROVE H[a].refcount >= Cardinality(CountedIn(Q, a))
  <2>1. CountedIn(Q, a) \subseteq CountedIn(P, a) /\ CountedIn(P, a) \subseteq P
    BY DEF CountedIn
  <2>2. IsFiniteSet(CountedIn(P, a)) /\ IsFiniteSet(CountedIn(Q, a))
    BY <1>1, <2>1, FS_Subset
  <2>3. Cardinality(CountedIn(Q, a)) <= Cardinality(CountedIn(P, a))
    BY <2>1, <2>2, FS_Subset
  <2>4. Cardinality(CountedIn(Q, a)) \in Nat /\ Cardinality(CountedIn(P, a)) \in Nat
    BY <2>2, FS_CardinalityType
  <2>5. H[a].refcount \in Int
    <3>1. H[a] \in Objects
      BY <1>3
    <3> QED BY <3>1 DEF Objects
  <2>6. H[a].refcount >= Cardinality(CountedIn(P, a))
    BY <1>3 DEF Safe
  <2> QED BY <2>3, <2>4, <2>5, <2>6
<1> QED BY <1>2, <1>3 DEF Safe

\* The pointers to one object, of a finite set of pointers.
LEMMA CountedType ==
  ASSUME NEW P, IsFiniteSet(P), NEW a
  PROVE  IsFiniteSet(CountedIn(P, a)) /\ Cardinality(CountedIn(P, a)) \in Nat
<1>1. CountedIn(P, a) \subseteq P
  BY DEF CountedIn
<1>2. IsFiniteSet(CountedIn(P, a))
  BY <1>1, FS_Subset
<1> QED BY <1>2, FS_CardinalityType

\* The count goes down with the pointer.
LEMMA CountedDown ==
  ASSUME NEW H, H \in Seq(Objects \cup {Freed}), NEW P, Sound(H, P), NEW r \in P,
         H[r.call] # Freed, r.counted, H[r.call].refcount # 1,
         NEW G, G = Recount(H, r.call, H[r.call].refcount - 1)
  PROVE  /\ Sound(G, P)
         /\ Safe(H, P) => Safe(G, P \ {r})
         /\ Safe(H, P) /\ Exact(H, P) => Exact(G, P \ {r})
<1> DEFINE a == r.call
<1> DEFINE c == H[a].refcount
<1>1. a \in 1..Len(H) /\ c >= 1 /\ c # 1
  BY DEF Sound
<1>2. c \in Int
  <2>1. H[a] \in Objects
    BY <1>1
  <2> QED BY <2>1 DEF Objects
<1>3. c - 1 \in Int /\ c - 1 >= 1
  BY <1>1, <1>2
<1>4. /\ G \in Seq(Objects \cup {Freed}) /\ Len(G) = Len(H)
      /\ G[a] # Freed /\ G[a].refcount = c - 1
      /\ \A b \in 1..Len(H): b # a => G[b] = H[b]
  <2> DEFINE k == c - 1
  <2>1. k \in Int /\ a \in 1..Len(H) /\ H[a] # Freed
    BY <1>1, <1>3
  <2>2. G = Recount(H, a, k)
    OBVIOUS
  <2> HIDE DEF k, a
  <2>3. /\ G \in Seq(Objects \cup {Freed}) /\ Len(G) = Len(H)
        /\ G[a] # Freed /\ G[a].refcount = k
        /\ \A b \in 1..Len(H): b # a => G[b] = H[b]
    BY <2>1, <2>2, KidsCounted
  <2> QED BY <2>3 DEF k
<1> HIDE DEF a
<1>5. Sound(G, P)
  <2>1. \A p \in P: p.counted /\ G[p.call] # Freed => G[p.call].refcount >= 1
    <3>1. ASSUME NEW p \in P, p.counted, G[p.call] # Freed PROVE G[p.call].refcount >= 1
      <4>1. CASE p.call = a
        BY <1>3, <1>4, <4>1
      <4>2. CASE p.call # a
        BY <1>4, <3>1, <4>2 DEF Sound
      <4> QED BY <4>1, <4>2
    <3> QED BY <3>1
  <2>2. \A b \in 1..Len(G): G[b] # Freed => G[b].refcount >= 0
    <3>1. ASSUME NEW b \in 1..Len(G), G[b] # Freed PROVE G[b].refcount >= 0
      <4>1. CASE b = a
        BY <1>2, <1>3, <1>4, <4>1
      <4>2. CASE b # a
        BY <1>4, <3>1, <4>2 DEF Sound
      <4> QED BY <4>1, <4>2
    <3> QED BY <3>1
  <2> QED BY <1>4, <2>1, <2>2 DEF Sound
<1>6. IsFiniteSet(P)
  BY DEF Sound
<1>7. CountedIn(P \ {r}, a) = CountedIn(P, a) \ {r} /\ r \in CountedIn(P, a)
  BY DEF CountedIn, a
<1>8. \A b: b # a => CountedIn(P \ {r}, b) = CountedIn(P, b)
  BY DEF CountedIn, a
<1>9. Cardinality(CountedIn(P \ {r}, a)) = Cardinality(CountedIn(P, a)) - 1 /\ Cardinality(CountedIn(P, a)) \in Nat
  BY <1>6, <1>7, CountedType, FS_RemoveElement
<1>10. ASSUME Safe(H, P) PROVE Safe(G, P \ {r})
  <2>1. \A p \in P \ {r}: G[p.call] # Freed
    BY <1>4, <1>10 DEF Safe, Sound
  <2>2. \A b \in 1..Len(G): G[b] # Freed => G[b].refcount >= Cardinality(CountedIn(P \ {r}, b))
    <3>1. ASSUME NEW b \in 1..Len(G), G[b] # Freed PROVE G[b].refcount >= Cardinality(CountedIn(P \ {r}, b))
      <4>1. CASE b = a
        <5>1. c >= Cardinality(CountedIn(P, a))
          BY <1>1, <1>10 DEF Safe, a
        <5> HIDE DEF c
        <5> QED BY <1>2, <1>4, <1>9, <4>1, <5>1
      <4>2. CASE b # a
        BY <1>4, <1>8, <1>10, <3>1, <4>2 DEF Safe
      <4> QED BY <4>1, <4>2
    <3> QED BY <3>1
  <2> QED BY <2>1, <2>2 DEF Safe
<1>11. ASSUME Safe(H, P), Exact(H, P) PROVE Exact(G, P \ {r})
  <2>1. ASSUME NEW b \in 1..Len(G), G[b] # Freed
        PROVE  /\ G[b].refcount = Cardinality(CountedIn(P \ {r}, b))
               /\ IsLost(G[b].text) \/ \E p \in P \ {r}: p.call = b
    <3>1. CASE b = a
      <4>1. c = Cardinality(CountedIn(P, a))
        BY <1>1, <1>11 DEF Exact, a
      <4>2. G[a].refcount = Cardinality(CountedIn(P \ {r}, a))
        <5> HIDE DEF c
        <5> QED BY <1>4, <1>9, <4>1
      <4>3. CountedIn(P \ {r}, a) # {}
        <5>1. Cardinality(CountedIn(P \ {r}, a)) # 0
          BY <1>2, <1>3, <1>4, <4>2
        <5> QED BY <5>1, FS_EmptySet
      <4>4. \E p \in P \ {r}: p.call = a
        BY <4>3 DEF CountedIn
      <4> QED BY <3>1, <4>2, <4>4
    <3>2. CASE b # a
      <4>1. /\ H[b] # Freed /\ H[b].refcount = Cardinality(CountedIn(P, b))
            /\ IsLost(H[b].text) \/ \E p \in P: p.call = b
            /\ G[b] = H[b]
        BY <1>4, <1>11, <2>1, <3>2 DEF Exact
      <4>2. IsLost(G[b].text) \/ \E p \in P \ {r}: p.call = b
        BY <3>2, <4>1 DEF a
      <4> QED BY <1>8, <3>2, <4>1, <4>2
    <3> QED BY <3>1, <3>2
  <2> QED BY <2>1 DEF Exact
<1> QED BY <1>5, <1>10, <1>11 DEF a

OnlyOne(P, r) == \A p \in P: p.call = r.call => p = r

\* The last pointer goes, and the command with it.
LEMMA LastGone ==
  ASSUME NEW H, H \in Seq(Objects \cup {Freed}), NEW P, Sound(H, P), NEW r \in P,
         H[r.call] # Freed, r.counted => H[r.call].refcount = 1,
         NEW G, G = Without(H, r.call)
  PROVE  /\ Sound(G, P)
         /\ Safe(H, P) => Safe(G, P \ {r}) /\ OnlyOne(P, r)
         /\ Safe(H, P) /\ Exact(H, P) => Exact(G, P \ {r})
<1> DEFINE a == r.call
<1>1. a \in 1..Len(H)
  BY DEF Sound
<1>2. Len(G) = Len(H) /\ G[a] = Freed /\ \A b \in 1..Len(H): b # a => G[b] = H[b]
  BY <1>1, KidsFreed
<1> HIDE DEF a
<1>3. Sound(G, P)
  BY <1>2 DEF Sound
<1>4. IsFiniteSet(P)
  BY DEF Sound
<1>5. \A b: b # a => CountedIn(P \ {r}, b) = CountedIn(P, b)
  BY DEF CountedIn, a
<1>6. ASSUME Safe(H, P), NEW p \in P, p.call = a PROVE p = r
  <2>1. CASE ~r.counted
    BY <1>6, <2>1 DEF Sound, a
  <2>2. CASE ~p.counted
    BY <1>6, <2>2 DEF Sound, a
  <2>3. CASE r.counted /\ p.counted
    <3>1. H[a].refcount = 1 /\ H[a].refcount >= Cardinality(CountedIn(P, a))
      BY <1>1, <1>6, <2>3 DEF Safe, a
    <3>2. {p, r} \subseteq CountedIn(P, a)
      BY <1>6, <2>3 DEF CountedIn, a
    <3>3. IsFiniteSet(CountedIn(P, a)) /\ Cardinality(CountedIn(P, a)) \in Nat
      BY <1>4, CountedType
    <3>4. Cardinality(CountedIn(P, a)) = 0 \/ Cardinality(CountedIn(P, a)) = 1
      BY <3>1, <3>3
    <3>5. CountedIn(P, a) # {}
      BY <3>2
    <3>6. Cardinality(CountedIn(P, a)) # 0
      BY <3>3, <3>5, FS_EmptySet
    <3>7. PICK x: CountedIn(P, a) = {x}
      BY <3>3, <3>4, <3>6, FS_Singleton
    <3> QED BY <3>2, <3>7
  <2> QED BY <2>1, <2>2, <2>3
<1>7. ASSUME Safe(H, P) PROVE Safe(G, P \ {r})
  <2>1. \A p \in P \ {r}: G[p.call] # Freed
    BY <1>2, <1>6, <1>7 DEF Safe, Sound
  <2>2. \A b \in 1..Len(G): G[b] # Freed => b # a
    BY <1>2
  <2> QED BY <1>2, <1>5, <1>7, <2>1, <2>2 DEF Safe
<1>8. ASSUME Safe(H, P), Exact(H, P) PROVE Exact(G, P \ {r})
  <2>1. ASSUME NEW b \in 1..Len(G), G[b] # Freed
        PROVE  /\ G[b].refcount = Cardinality(CountedIn(P \ {r}, b))
               /\ IsLost(G[b].text) \/ \E p \in P \ {r}: p.call = b
    <3>1. b # a /\ G[b] = H[b]
      BY <1>2, <2>1
    <3>2. H[b].refcount = Cardinality(CountedIn(P, b)) /\ (IsLost(H[b].text) \/ \E p \in P: p.call = b)
      BY <1>2, <1>8, <2>1, <3>1 DEF Exact
    <3>3. IsLost(G[b].text) \/ \E p \in P \ {r}: p.call = b
      BY <3>1, <3>2 DEF a
    <3> QED BY <1>5, <3>1, <3>2, <3>3
  <2> QED BY <2>1 DEF Exact
<1> QED BY <1>3, <1>6, <1>7, <1>8 DEF a, OnlyOne

\* One pointer more to a command that has a counted one, and its count goes up.
LEMMA CountedUp ==
  ASSUME NEW H, H \in Seq(Objects \cup {Freed}), NEW P, Sound(H, P), NEW p, p \notin P, p.counted,
         p.call \in 1..Len(H), H[p.call] # Freed, \E q \in P: q.counted /\ q.call = p.call,
         NEW G, G = Recount(H, p.call, H[p.call].refcount + 1)
  PROVE  /\ Sound(G, P \cup {p})
         /\ Safe(H, P) => Safe(G, P \cup {p})
         /\ Exact(H, P) => Exact(G, P \cup {p})
<1> DEFINE a == p.call
<1> DEFINE c == H[a].refcount
<1> DEFINE Q == P \cup {p}
<1>1. c \in Int /\ c >= 0
  <2>1. H[a] \in Objects
    OBVIOUS
  <2> QED BY <2>1 DEF Objects, Sound
<1>2. c + 1 \in Int /\ c + 1 >= 1
  BY <1>1
<1>3. /\ G \in Seq(Objects \cup {Freed}) /\ Len(G) = Len(H)
      /\ G[a] # Freed /\ G[a].refcount = c + 1
      /\ \A b \in 1..Len(H): b # a => G[b] = H[b]
  <2> DEFINE k == c + 1
  <2>1. k \in Int /\ a \in 1..Len(H) /\ H[a] # Freed
    BY <1>2
  <2>2. G = Recount(H, a, k)
    OBVIOUS
  <2> HIDE DEF k, a
  <2>3. /\ G \in Seq(Objects \cup {Freed}) /\ Len(G) = Len(H)
        /\ G[a] # Freed /\ G[a].refcount = k
        /\ \A b \in 1..Len(H): b # a => G[b] = H[b]
    BY <2>1, <2>2, KidsCounted
  <2> QED BY <2>3 DEF k
<1> HIDE DEF a
<1>4. IsFiniteSet(P) /\ IsFiniteSet(Q)
  BY FS_AddElement DEF Sound
<1>5. Sound(G, Q)
  <2>1. \A q \in Q: q.call \in 1..Len(G)
    BY <1>3 DEF Sound
  <2>2. \A q, r \in Q: q.call = r.call /\ ~q.counted => q = r
    <3>1. ASSUME NEW q \in P, ~q.counted, q.call = a PROVE FALSE
      BY <3>1 DEF Sound, a
    <3> QED BY <3>1 DEF Sound, a
  <2>3. \A q \in Q: q.counted /\ G[q.call] # Freed => G[q.call].refcount >= 1
    <3>1. ASSUME NEW q \in Q, q.counted, G[q.call] # Freed PROVE G[q.call].refcount >= 1
      <4>1. CASE q.call = a
        BY <1>2, <1>3, <4>1
      <4>2. CASE q.call # a
        BY <1>3, <3>1, <4>2 DEF Sound, a
      <4> QED BY <4>1, <4>2
    <3> QED BY <3>1
  <2>4. \A b \in 1..Len(G): G[b] # Freed => G[b].refcount >= 0
    <3>1. ASSUME NEW b \in 1..Len(G), G[b] # Freed PROVE G[b].refcount >= 0
      <4>1. CASE b = a
        BY <1>1, <1>3, <4>1
      <4>2. CASE b # a
        BY <1>3, <3>1, <4>2 DEF Sound
      <4> QED BY <4>1, <4>2
    <3> QED BY <3>1
  <2> HIDE DEF Q
  <2> QED BY <1>4, <2>1, <2>2, <2>3, <2>4 DEF Sound
<1>6. CountedIn(Q, a) = CountedIn(P, a) \cup {p} /\ p \notin CountedIn(P, a)
  BY DEF CountedIn, a
<1>7. \A b: b # a => CountedIn(Q, b) = CountedIn(P, b)
  BY DEF CountedIn, a
<1>8. Cardinality(CountedIn(Q, a)) = Cardinality(CountedIn(P, a)) + 1 /\ Cardinality(CountedIn(P, a)) \in Nat
  BY <1>4, <1>6, CountedType, FS_AddElement
<1>0. a \in 1..Len(H) /\ H[a] # Freed
  BY DEF a
<1>9. ASSUME Safe(H, P) PROVE Safe(G, Q)
  <2>1. \A q \in Q: G[q.call] # Freed
    BY <1>3, <1>9 DEF Safe, Sound, a
  <2>2. ASSUME NEW b \in 1..Len(G), G[b] # Freed PROVE G[b].refcount >= Cardinality(CountedIn(Q, b))
    <3>1. CASE b = a
      <4>1. c >= Cardinality(CountedIn(P, a))
        BY <1>0, <1>9 DEF Safe
      <4> HIDE DEF c, Q
      <4> QED BY <1>1, <1>3, <1>8, <3>1, <4>1
    <3>2. CASE b # a
      <4> HIDE DEF Q
      <4> QED BY <1>3, <1>7, <1>9, <2>2, <3>2 DEF Safe
    <3> QED BY <3>1, <3>2
  <2> HIDE DEF Q
  <2> QED BY <2>1, <2>2 DEF Safe
<1>10. ASSUME Exact(H, P) PROVE Exact(G, Q)
  <2>1. ASSUME NEW b \in 1..Len(G), G[b] # Freed
        PROVE  /\ G[b].refcount = Cardinality(CountedIn(Q, b))
               /\ IsLost(G[b].text) \/ \E q \in Q: q.call = b
    <3>1. CASE b = a
      <4>1. c = Cardinality(CountedIn(P, a))
        BY <1>0, <1>10 DEF Exact
      <4>2. \E q \in Q: q.call = a
        BY DEF a
      <4> HIDE DEF c, Q
      <4> QED BY <1>1, <1>3, <1>8, <3>1, <4>1, <4>2
    <3>2. CASE b # a
      <4>1. /\ H[b].refcount = Cardinality(CountedIn(P, b)) /\ G[b] = H[b]
            /\ IsLost(H[b].text) \/ \E q \in P: q.call = b
        BY <1>3, <1>10, <2>1, <3>2 DEF Exact
      <4>2. IsLost(G[b].text) \/ \E q \in Q: q.call = b
        BY <4>1
      <4> HIDE DEF Q
      <4> QED BY <1>7, <3>2, <4>1, <4>2
    <3> QED BY <3>1, <3>2
  <2> HIDE DEF Q
  <2> QED BY <2>1 DEF Exact
<1> QED BY <1>5, <1>9, <1>10 DEF a

-----------------------------------------------------------------------------
(* What the parser allocates. *)

\* The values of a function of a finite set are finite.
LEMMA FiniteImage ==
  ASSUME NEW S, IsFiniteSet(S), NEW f, DOMAIN f = S, f = [x \in S |-> f[x]]
  PROVE  IsFiniteSet({f[x]: x \in S})
<1> DEFINE T == {f[x]: x \in S}
<1>1. f \in [S -> T]
  OBVIOUS
<1>2. \A t \in T: \E x \in S: f[x] = t
  OBVIOUS
<1> HIDE DEF T
<1>3. f \in Surjection(S, T)
  BY <1>1, <1>2 DEF Surjection
<1>4. IsFiniteSet(T)
  BY <1>3, FS_Surjection
<1> QED BY <1>4 DEF T

\* The commands at some addresses have finitely many pointers to those in them.
LEMMA FiniteKids ==
  ASSUME NEW H, NEW m \in Nat, NEW n \in Nat,
         \A a \in m..n: H[a].kids \in Seq(Nat)
  PROVE  IsFiniteSet(UNION {KPOf(H, a): a \in m..n})
<1>1. ASSUME NEW a \in m..n PROVE IsFiniteSet(KPOf(H, a))
  <2> DEFINE D == DOMAIN H[a].kids
  <2> DEFINE f == [i \in D |-> KPtr(H, a, i)]
  <2>1. IsFiniteSet(D)
    <3>1. H[a].kids \in Seq(Nat)
      OBVIOUS
    <3>2. D = 1..Len(H[a].kids) /\ Len(H[a].kids) \in Nat
      BY <3>1
    <3> QED BY <3>2, FS_Interval
  <2>2. KPOf(H, a) = {f[i]: i \in D}
    BY DEF KPOf
  <2>3. DOMAIN f = D /\ f = [i \in D |-> f[i]]
    OBVIOUS
  <2> HIDE DEF f, D
  <2> QED BY <2>1, <2>2, <2>3, FiniteImage
<1> DEFINE g == [a \in m..n |-> KPOf(H, a)]
<1>2. {KPOf(H, a): a \in m..n} = {g[a]: a \in m..n}
  OBVIOUS
<1>3. DOMAIN g = m..n /\ g = [a \in m..n |-> g[a]] /\ IsFiniteSet(m..n)
  BY FS_Interval
<1>4. \A K \in {KPOf(H, a): a \in m..n}: IsFiniteSet(K)
  BY <1>1
<1> HIDE DEF g
<1>5. IsFiniteSet({g[a]: a \in m..n})
  BY <1>3, FiniteImage
<1> QED BY <1>2, <1>4, <1>5, FS_UNION

\* The objects of a line behind the address base: those of a command come after it,
\* and each is in one command only, which counts it or does not, unless it is lost.
Allocated(line, base, X) ==
  /\ X \in Seq(Objects) /\ X # <<>> /\ X[1].text = line /\ X[1].refcount = 0
  /\ \A i \in 1..Len(X):
       /\ Len(X[i].kids) = Len(Program[X[i].text].subs)
       /\ \A j \in 1..Len(X[i].kids): \E k \in i + 1..Len(X):
            /\ X[i].kids[j] = base + k
            /\ X[k].text = Program[X[i].text].subs[j] /\ ~IsLost(X[k].text)
            /\ X[k].refcount = InitialCount(X[i].text)
            /\ \A g \in 1..Len(X): \A h \in 1..Len(X[g].kids):
                 X[g].kids[h] = base + k => g = i /\ h = j
  /\ \A k \in 2..Len(X):
       \/ IsLost(X[k].text) /\ X[k].refcount = 0
       \/ \E i \in 1..Len(X): \E j \in 1..Len(X[i].kids): X[i].kids[j] = base + k

\* What the parser allocates is what Allocated says: one tree, behind what is there.
LEMMA ParsedIs ==
  ASSUME NEW line \in Lines, NEW base \in Nat
  PROVE  Allocated(line, base, Parsed(line, base))
<1> DEFINE T == Tree[line]
<1> DEFINE X == Parsed(line, base)
<1> DEFINE n == Len(T)
<1> DEFINE Count(i) ==
             IF i = 1 \/ IsLost(T[i].text) THEN 0 ELSE InitialCount(T[Parent(T, i)].text)
<1> DEFINE Moved(i) == [j \in DOMAIN T[i].kids |-> base + T[i].kids[j]]
<1>1. IsTree(line, T)
  BY TreeAssumption
<1>2. X = [i \in DOMAIN T |-> Object(T[i].text, Moved(i), Count(i))]
  BY DEF Parsed
<1> HIDE DEF T, X
<1>3. T \in Seq([text: Texts, kids: Seq(Nat)]) /\ T # <<>> /\ T[1].text = line
  BY <1>1 DEF IsTree
<1>4. DOMAIN T = 1..n /\ n \in Nat \ {0} /\ \A i \in 1..n: T[i].text \in Texts /\ T[i].kids \in Seq(Nat)
  <2>1. DOMAIN T = 1..n /\ n \in Nat \ {0}
    BY <1>3
  <2>2. ASSUME NEW i \in 1..n PROVE T[i] \in [text: Texts, kids: Seq(Nat)]
    BY <1>3, ElementOfSeq
  <2> QED BY <2>1, <2>2
<1>5. \A i \in 1..n: /\ DOMAIN T[i].kids = 1..Len(T[i].kids) /\ Len(T[i].kids) \in Nat
                     /\ \A j \in 1..Len(T[i].kids): T[i].kids[j] \in Nat
  BY <1>4
<1>6. \A i \in 1..n: /\ Moved(i) \in Seq(Nat) /\ Len(Moved(i)) = Len(T[i].kids)
                     /\ \A j \in 1..Len(T[i].kids): Moved(i)[j] = base + T[i].kids[j]
  <2>1. ASSUME NEW i \in 1..n
        PROVE  /\ Moved(i) \in Seq(Nat) /\ Len(Moved(i)) = Len(T[i].kids)
               /\ \A j \in 1..Len(T[i].kids): Moved(i)[j] = base + T[i].kids[j]
    <3>1. Moved(i) \in [1..Len(T[i].kids) -> Nat] /\ Len(T[i].kids) \in Nat
      BY <1>5
    <3>2. \A j \in 1..Len(T[i].kids): Moved(i)[j] = base + T[i].kids[j]
      BY <1>5
    <3> HIDE DEF Moved
    <3> QED BY <3>1, <3>2, FunctionIsSeq
  <2> QED BY <2>1
<1>7. \A i: Count(i) \in Int
  BY DEF InitialCount
<1> HIDE DEF Moved, Count, n
<1>8. \A i \in 1..n: /\ X[i] \in Objects /\ X[i].text = T[i].text /\ X[i].kids = Moved(i) /\ X[i].refcount = Count(i)
  BY <1>2, <1>4, <1>6, <1>7 DEF Object, Objects
<1>9. X \in Seq(Objects) /\ Len(X) = n
  <2>1. X \in [1..n -> Objects]
    BY <1>2, <1>4, <1>8
  <2> QED BY <1>4, <2>1, FunctionIsSeq
<1>10. \A i \in 1..n: \A j \in 1..Len(T[i].kids):
         /\ T[i].kids[j] \in i + 1..n
         /\ T[T[i].kids[j]].text = Program[T[i].text].subs[j]
         /\ ~IsLost(T[T[i].kids[j]].text)
         /\ \A g \in 1..n: \A h \in 1..Len(T[g].kids): T[g].kids[h] = T[i].kids[j] => g = i /\ h = j
  <2>1. ASSUME NEW i \in 1..n, NEW j \in 1..Len(T[i].kids)
        PROVE  /\ T[i].kids[j] \in i + 1..n
               /\ T[T[i].kids[j]].text = Program[T[i].text].subs[j]
               /\ ~IsLost(T[T[i].kids[j]].text)
               /\ \A g \in DOMAIN T: \A h \in DOMAIN T[g].kids: T[g].kids[h] = T[i].kids[j] => g = i /\ h = j
    <3>1. i \in DOMAIN T /\ j \in DOMAIN T[i].kids
      BY <1>4, <1>5
    <3> QED BY <1>1, <3>1 DEF IsTree, n
  <2>2. ASSUME NEW i \in 1..n, NEW j \in 1..Len(T[i].kids), NEW g \in 1..n, NEW h \in 1..Len(T[g].kids),
               T[g].kids[h] = T[i].kids[j]
        PROVE  g = i /\ h = j
    <3>1. g \in DOMAIN T /\ h \in DOMAIN T[g].kids
      BY <1>4, <1>5
    <3> QED BY <2>1, <2>2, <3>1
  <2> QED BY <2>1, <2>2
<1>11. \A i \in 1..n: Len(T[i].kids) = Len(Program[T[i].text].subs)
  BY <1>1, <1>4 DEF IsTree
<1>12. \A k \in 2..n: IsLost(T[k].text) \/ \E i \in 1..n: \E j \in 1..Len(T[i].kids): T[i].kids[j] = k
  <2>1. ASSUME NEW k \in 2..n, ~IsLost(T[k].text)
        PROVE  \E i \in 1..n: \E j \in 1..Len(T[i].kids): T[i].kids[j] = k
    <3>1. PICK i \in DOMAIN T: Inside(T, i, k)
      BY <1>1, <2>1 DEF IsTree, n
    <3>2. PICK j \in DOMAIN T[i].kids: T[i].kids[j] = k
      BY <3>1 DEF Inside
    <3> QED BY <1>4, <1>5, <3>2
  <2> QED BY <2>1
<1>13. ASSUME NEW i \in 1..n, NEW j \in 1..Len(T[i].kids) PROVE Count(T[i].kids[j]) = InitialCount(T[i].text)
  <2> DEFINE k == T[i].kids[j]
  <2>1. k \in i + 1..n
    BY <1>10
  <2>2. k # 1
    BY <1>4, <2>1
  <2>3. Inside(T, i, k)
    BY <1>5 DEF Inside
  <2>4. Parent(T, k) \in DOMAIN T /\ Inside(T, Parent(T, k), k)
    BY <1>4, <2>3 DEF Parent
  <2>5. PICK h \in DOMAIN T[Parent(T, k)].kids: T[Parent(T, k)].kids[h] = k
    BY <2>4 DEF Inside
  <2>6. Parent(T, k) = i
    <3>1. Parent(T, k) \in 1..n /\ h \in 1..Len(T[Parent(T, k)].kids)
      BY <1>4, <1>5, <2>4, <2>5
    <3> QED BY <1>10, <2>5, <3>1
  <2>7. ~IsLost(T[k].text)
    BY <1>10
  <2> QED BY <2>2, <2>6, <2>7 DEF Count
<1>14. X # <<>> /\ X[1].text = line /\ X[1].refcount = 0
  BY <1>3, <1>4, <1>8, <1>9 DEF Count
<1>15. ASSUME NEW i \in 1..n, NEW j \in 1..Len(X[i].kids)
       PROVE  \E k \in i + 1..n:
                /\ X[i].kids[j] = base + k
                /\ X[k].text = Program[X[i].text].subs[j] /\ ~IsLost(X[k].text)
                /\ X[k].refcount = InitialCount(X[i].text)
                /\ \A g \in 1..n: \A h \in 1..Len(X[g].kids): X[g].kids[h] = base + k => g = i /\ h = j
  <2> DEFINE k == T[i].kids[j]
  <2>1. j \in 1..Len(T[i].kids)
    BY <1>6, <1>8
  <2>2. k \in i + 1..n /\ k \in 1..n /\ k \in Nat
    BY <1>4, <1>10, <2>1
  <2>3. X[i].kids[j] = base + k
    BY <1>6, <1>8, <2>1
  <2>4. X[k].text = Program[X[i].text].subs[j] /\ ~IsLost(X[k].text)
    <3>1. X[k].text = T[k].text /\ X[i].text = T[i].text
      BY <1>8, <2>2
    <3>2. T[k].text = Program[T[i].text].subs[j] /\ ~IsLost(T[k].text)
      BY <1>10, <2>1
    <3> HIDE DEF k
    <3> QED BY <3>1, <3>2
  <2>5. X[k].refcount = InitialCount(X[i].text)
    BY <1>8, <1>13, <2>1, <2>2
  <2>6. ASSUME NEW g \in 1..n, NEW h \in 1..Len(X[g].kids), X[g].kids[h] = base + k PROVE g = i /\ h = j
    <3>1. h \in 1..Len(T[g].kids) /\ X[g].kids[h] = base + T[g].kids[h]
      BY <1>6, <1>8
    <3>2. T[g].kids[h] \in Nat
      BY <1>5, <3>1
    <3>3. T[g].kids[h] = k
      <4> HIDE DEF k
      <4> QED BY <2>2, <2>6, <3>1, <3>2
    <3>4. T[g].kids[h] = T[i].kids[j]
      BY <3>3
    <3>5. \A e \in 1..n: \A f \in 1..Len(T[e].kids): T[e].kids[f] = T[i].kids[j] => e = i /\ f = j
      BY <1>10, <2>1
    <3> HIDE DEF k
    <3>6. h \in 1..Len(T[g].kids)
      BY <3>1
    <3> QED BY ONLY <3>4, <3>5, <3>6, g \in 1..n
  <2>7. \A g \in 1..n: \A h \in 1..Len(X[g].kids): X[g].kids[h] = base + k => g = i /\ h = j
    BY <2>6
  <2> HIDE DEF k
  <2> QED BY <2>2, <2>3, <2>4, <2>5, <2>7
<1>16. ASSUME NEW k \in 2..n, ~(IsLost(X[k].text) /\ X[k].refcount = 0)
       PROVE  \E i \in 1..n: \E j \in 1..Len(X[i].kids): X[i].kids[j] = base + k
  <2>3. ~IsLost(T[k].text)
    <3>1. k \in 1..n /\ X[k].text = T[k].text /\ X[k].refcount = Count(k)
      BY <1>4, <1>8
    <3> QED BY <1>16, <3>1 DEF Count
  <2>0. PICK i \in 1..n: \E j \in 1..Len(T[i].kids): T[i].kids[j] = k
    BY <1>12, <2>3
  <2>1. PICK j \in 1..Len(T[i].kids): T[i].kids[j] = k
    BY <2>0
  <2>2. j \in 1..Len(X[i].kids) /\ X[i].kids[j] = base + k
    BY <1>6, <1>8, <2>1
  <2> QED BY <2>2
<1>17. \A i \in 1..n: Len(X[i].kids) = Len(Program[X[i].text].subs)
  BY <1>6, <1>8, <1>11
<1>18. Len(X) = n
  BY <1>9
<1>19. Allocated(line, base, X)
  <2>1. 1..n = 1..Len(X) /\ \A i: i + 1..n = i + 1..Len(X)
    BY <1>18
  <2>2. ASSUME NEW i \in 1..Len(X)
        PROVE  /\ Len(X[i].kids) = Len(Program[X[i].text].subs)
               /\ \A j \in 1..Len(X[i].kids): \E k \in i + 1..Len(X):
                    /\ X[i].kids[j] = base + k
                    /\ X[k].text = Program[X[i].text].subs[j] /\ ~IsLost(X[k].text)
                    /\ X[k].refcount = InitialCount(X[i].text)
                    /\ \A g \in 1..Len(X): \A h \in 1..Len(X[g].kids):
                         X[g].kids[h] = base + k => g = i /\ h = j
    <3>1. Len(X[i].kids) = Len(Program[X[i].text].subs)
      BY <1>17, <2>1
    <3>2. ASSUME NEW j \in 1..Len(X[i].kids)
          PROVE  \E k \in i + 1..Len(X):
                    /\ X[i].kids[j] = base + k
                    /\ X[k].text = Program[X[i].text].subs[j] /\ ~IsLost(X[k].text)
                    /\ X[k].refcount = InitialCount(X[i].text)
                    /\ \A g \in 1..Len(X): \A h \in 1..Len(X[g].kids):
                         X[g].kids[h] = base + k => g = i /\ h = j
      <4>1. i \in 1..n
        BY <2>1
      <4>2. PICK k \in i + 1..n:
                /\ X[i].kids[j] = base + k
                /\ X[k].text = Program[X[i].text].subs[j] /\ ~IsLost(X[k].text)
                /\ X[k].refcount = InitialCount(X[i].text)
                /\ \A g \in 1..n: \A h \in 1..Len(X[g].kids): X[g].kids[h] = base + k => g = i /\ h = j
        BY <1>15, <4>1
      <4>3. k \in i + 1..Len(X)
        BY <2>1, <4>2
      <4>4. \A g \in 1..Len(X): \A h \in 1..Len(X[g].kids): X[g].kids[h] = base + k => g = i /\ h = j
        BY <2>1, <4>2
      <4> QED BY <4>2, <4>3, <4>4
    <3> QED BY <3>1, <3>2
  <2>3. \A k \in 2..Len(X):
          \/ IsLost(X[k].text) /\ X[k].refcount = 0
          \/ \E i \in 1..Len(X): \E j \in 1..Len(X[i].kids): X[i].kids[j] = base + k
    BY <1>16, <1>18
  <2> QED BY <1>9, <1>14, <2>2, <2>3 DEF Allocated
<1> QED BY <1>19 DEF X

\* The pointers in the commands of a line: one to each but the first, counted or not,
\* and none to those that are lost.
NewKids(K, base, X) ==
  /\ IsFiniteSet(K)
  /\ \A p \in K:
       /\ p.call \in base + 2..base + Len(X)
       /\ p.counted => X[p.call - base].refcount = 1
       /\ ~p.counted => X[p.call - base].refcount = 0
       /\ \A q \in K: q.call = p.call => q = p
  /\ \A a \in base + 2..base + Len(X):
       \/ \E p \in K: p.call = a
       \/ IsLost(X[a - base].text) /\ X[a - base].refcount = 0

\* The heap G is the heap H, and behind it X.
Appended(H, X, G) ==
  /\ G \in Seq(Objects \cup {Freed}) /\ Len(G) = Len(H) + Len(X) /\ Len(X) \in Nat \ {0}
  /\ \A a \in 1..Len(H): G[a] = H[a]
  /\ \A i \in 1..Len(X): G[Len(H) + i] = X[i] /\ X[i] \in Objects /\ X[i] # Freed
KidsBehind(H, X, G) == UNION {KPOf(G, a): a \in Len(H) + 1..Len(H) + Len(X)}

\* The commands of a line are put behind the others.
LEMMA AllocatedKids ==
  ASSUME NEW H, H \in Seq(Objects \cup {Freed}), NEW line, NEW X, Allocated(line, Len(H), X),
         NEW G, G = H \o X
  PROVE  /\ Appended(H, X, G) /\ NewKids(KidsBehind(H, X, G), Len(H), X)
         /\ KP(G) = KP(H) \cup KidsBehind(H, X, G)
<1> DEFINE b == Len(H)
<1> DEFINE n == Len(X)
<1> DEFINE K == UNION {KPOf(G, a): a \in b + 1..b + n}
<1>1. X \in Seq(Objects) /\ X # <<>> /\ b \in Nat /\ n \in Nat \ {0}
  BY DEF Allocated
<1>2. X \in Seq(Objects \cup {Freed})
  BY <1>1
<1>3. G \in Seq(Objects \cup {Freed}) /\ Len(G) = b + n
  BY <1>2, Joined
<1>4. \A a \in 1..b: G[a] = H[a]
  BY <1>2, Joined
<1>5. \A i \in 1..n: G[b + i] = X[i]
  BY <1>2, Joined
<1>6. \A i \in 1..n: X[i] \in Objects /\ X[i] # Freed
  <2>1. ASSUME NEW i \in 1..n PROVE X[i] \in Objects
    BY <1>1, ElementOfSeq
  <2> QED BY <2>1, NoAddressAssumption
<1>7. \A i \in 1..n: X[i].kids \in Seq(Nat) /\ DOMAIN X[i].kids = 1..Len(X[i].kids)
  BY <1>6 DEF Objects
<1>8. \A a \in b + 1..b + n: a - b \in 1..n /\ G[a] = X[a - b] /\ G[a] # Freed /\ a = b + (a - b)
  <2>1. ASSUME NEW a \in b + 1..b + n PROVE a - b \in 1..n /\ a = b + (a - b)
    BY <1>1
  <2> HIDE DEF b, n
  <2> QED BY <1>5, <1>6, <2>1
<1>9. \A a \in 1..b + n: a \in 1..b \/ a \in b + 1..b + n
  BY <1>1
<1>10. 1..b \subseteq 1..b + n /\ b + 1..b + n \subseteq 1..b + n
  BY <1>1
<1>11. KP(G) = KP(H) \cup K
  <2> HIDE DEF b, n
  <2>1. ASSUME NEW p \in KP(G) PROVE p \in KP(H) \cup K
    <3>1. PICK a \in 1..b + n: G[a] # Freed /\ p \in KPOf(G, a)
      BY <1>3, <2>1 DEF KP
    <3>2. CASE a \in 1..b
      <4>1. KPOf(G, a) = KPOf(H, a) /\ H[a] # Freed
        BY <1>4, <3>1, <3>2 DEF KPOf, KPtr
      <4> QED BY <3>1, <3>2, <4>1 DEF KP, b
    <3>3. CASE a \in b + 1..b + n
      BY <3>1, <3>3
    <3> QED BY <1>9, <3>2, <3>3
  <2>2. ASSUME NEW p \in KP(H) PROVE p \in KP(G)
    <3>1. PICK a \in 1..b: H[a] # Freed /\ p \in KPOf(H, a)
      BY <2>2 DEF KP, b
    <3>2. KPOf(G, a) = KPOf(H, a) /\ G[a] # Freed
      BY <1>4, <3>1 DEF KPOf, KPtr
    <3> QED BY <1>3, <1>10, <3>1, <3>2 DEF KP
  <2>3. ASSUME NEW p \in K PROVE p \in KP(G)
    <3>1. PICK a \in b + 1..b + n: p \in KPOf(G, a)
      BY <2>3
    <3> QED BY <1>3, <1>8, <1>10, <3>1 DEF KP
  <2> QED BY <2>1, <2>2, <2>3
<1>12. IsFiniteSet(K)
  <2>1. \A a \in b + 1..b + n: G[a].kids \in Seq(Nat)
    <3> HIDE DEF b, n
    <3> QED BY <1>7, <1>8
  <2> DEFINE first == b + 1
  <2> DEFINE last == b + n
  <2>2. first \in Nat /\ last \in Nat
    BY <1>1
  <2>3. \A a \in first..last: G[a].kids \in Seq(Nat)
    BY <2>1
  <2> HIDE DEF first, last
  <2>4. \A F: (\A a \in first..last: F[a].kids \in Seq(Nat))
               => IsFiniteSet(UNION {KPOf(F, a): a \in first..last})
    BY <2>2, FiniteKids
  <2>5. IsFiniteSet(UNION {KPOf(G, a): a \in first..last})
    BY <2>3, <2>4
  <2> QED BY <2>5 DEF first, last
<1>13. \A i \in 1..n: \A j \in 1..Len(X[i].kids): \E k \in i + 1..n:
         /\ X[i].kids[j] = b + k
         /\ X[k].refcount = InitialCount(X[i].text)
         /\ \A g \in 1..n: \A h \in 1..Len(X[g].kids): X[g].kids[h] = b + k => g = i /\ h = j
  BY DEF Allocated
<1>14. \A k \in 2..n: \/ IsLost(X[k].text) /\ X[k].refcount = 0
                   \/ \E i \in 1..n: \E j \in 1..Len(X[i].kids): X[i].kids[j] = b + k
  BY DEF Allocated
<1> HIDE DEF b, n
<1>15. \A p \in K: \E i \in 1..n: \E j \in 1..Len(X[i].kids):
         p = KPtr(G, b + i, j) /\ p.call = X[i].kids[j] /\ p.counted = Counts(X[i].text)
  <2>1. ASSUME NEW p \in K
        PROVE  \E i \in 1..n: \E j \in 1..Len(X[i].kids):
                 p = KPtr(G, b + i, j) /\ p.call = X[i].kids[j] /\ p.counted = Counts(X[i].text)
    <3>1. PICK a \in b + 1..b + n: p \in KPOf(G, a)
      BY <2>1
    <3>2. PICK j \in DOMAIN G[a].kids: p = KPtr(G, a, j)
      BY <3>1 DEF KPOf
    <3>3. j \in 1..Len(X[a - b].kids) /\ a - b \in 1..n /\ a = b + (a - b) /\ G[a] = X[a - b]
      BY <1>7, <1>8, <3>2
    <3>4. p.call = X[a - b].kids[j] /\ p.counted = Counts(X[a - b].text)
      <4>1. p.call = G[a].kids[j] /\ p.counted = Counts(G[a].text)
        BY <3>2 DEF KPtr, Pointer
      <4> QED BY <3>3, <4>1
    <3>5. p = KPtr(G, b + (a - b), j)
      BY <3>2, <3>3
    <3> QED BY <3>3, <3>4, <3>5
  <2> QED BY <2>1
<1>16. ASSUME NEW p \in K
       PROVE  /\ p.call \in b + 2..b + n
              /\ p.counted => X[p.call - b].refcount = 1
              /\ ~p.counted => X[p.call - b].refcount = 0
              /\ \A q \in K: q.call = p.call => q = p
  <2>0. PICK i \in 1..n: \E j \in 1..Len(X[i].kids):
          p = KPtr(G, b + i, j) /\ p.call = X[i].kids[j] /\ p.counted = Counts(X[i].text)
    BY <1>15
  <2>1. PICK j \in 1..Len(X[i].kids):
          p = KPtr(G, b + i, j) /\ p.call = X[i].kids[j] /\ p.counted = Counts(X[i].text)
    BY <2>0
  <2>2. PICK k \in i + 1..n:
         /\ X[i].kids[j] = b + k
         /\ X[k].refcount = InitialCount(X[i].text)
         /\ \A g \in 1..n: \A h \in 1..Len(X[g].kids): X[g].kids[h] = b + k => g = i /\ h = j
    BY <1>13
  <2>3. p.call = b + k
    BY <2>1, <2>2
  <2>4. k \in Nat /\ k >= 2 /\ k <= n /\ b + k \in b + 2..b + n /\ (b + k) - b = k
    BY <1>1 DEF b, n
  <2>5. \A q \in K: q.call = p.call => q = p
    <3>1. ASSUME NEW q \in K, q.call = p.call PROVE q = p
      <4>0. PICK g \in 1..n: \E h \in 1..Len(X[g].kids): q = KPtr(G, b + g, h) /\ q.call = X[g].kids[h]
        BY <1>15
      <4>1. PICK h \in 1..Len(X[g].kids): q = KPtr(G, b + g, h) /\ q.call = X[g].kids[h]
        BY <4>0
      <4>2. g = i /\ h = j
        BY <2>2, <2>3, <3>1, <4>1
      <4> QED BY <2>1, <4>1, <4>2
    <3> QED BY <3>1
  <2> QED BY <2>1, <2>2, <2>3, <2>4, <2>5 DEF InitialCount
<1>17. ASSUME NEW a \in b + 2..b + n, ~(IsLost(X[a - b].text) /\ X[a - b].refcount = 0)
       PROVE  \E p \in K: p.call = a
  <2>1. a - b \in 2..n /\ a - b \in 1..n /\ b + (a - b) = a
    BY <1>1 DEF b, n
  <2>2. PICK i \in 1..n: \E j \in 1..Len(X[i].kids): X[i].kids[j] = b + (a - b)
    BY <1>14, <1>17, <2>1
  <2>3. PICK j \in 1..Len(X[i].kids): X[i].kids[j] = b + (a - b)
    BY <2>2
  <2>4. b + i \in b + 1..b + n /\ (b + i) - b = i
    BY <1>1 DEF b, n
  <2>5. j \in DOMAIN G[b + i].kids /\ G[b + i] = X[i]
    BY <1>5, <1>7, <2>3 DEF b, n
  <2>6. KPtr(G, b + i, j).call = a
    <3>1. KPtr(G, b + i, j).call = G[b + i].kids[j]
      BY DEF KPtr, Pointer
    <3> QED BY <2>1, <2>3, <2>5, <3>1
  <2>7. KPtr(G, b + i, j) \in KPOf(G, b + i)
    BY <2>5 DEF KPOf
  <2>8. KPtr(G, b + i, j) \in K
    BY <2>4, <2>7
  <2> QED BY <2>6, <2>8
<1> HIDE DEF K
<1>18. NewKids(K, b, X)
  BY <1>12, <1>16, <1>17 DEF NewKids, n
<1> QED BY <1>1, <1>3, <1>4, <1>5, <1>6, <1>11, <1>18 DEF b, n, K, KidsBehind, Appended

\* The counts of what the parser allocates, with the pointer of the one who reads the
\* line.
LEMMA CountedNew ==
  ASSUME NEW H, H \in Seq(Objects \cup {Freed}), NEW line, NEW X, Allocated(line, Len(H), X),
         NEW G, Appended(H, X, G), NEW K, NewKids(K, Len(H), X),
         NEW P, Sound(H, P), NEW f, ~f.counted, f.call = Len(H) + 1,
         NEW Q, Q = P \cup {f} \cup K
  PROVE  /\ Sound(G, Q)
         /\ Safe(H, P) => Safe(G, Q)
         /\ Exact(H, P) => Exact(G, Q)
<1> DEFINE b == Len(H)
<1> DEFINE n == Len(X)
<1>0. /\ G \in Seq(Objects \cup {Freed}) /\ Len(G) = Len(H) + Len(X) /\ Len(X) \in Nat \ {0}
      /\ \A a \in 1..Len(H): G[a] = H[a]
      /\ \A i \in 1..Len(X): G[Len(H) + i] = X[i] /\ X[i] \in Objects /\ X[i] # Freed
  BY DEF Appended
<1>1. b \in Nat /\ n \in Nat \ {0} /\ Len(G) = b + n
  BY <1>0
<1>2. \A p \in P: p.call \in 1..b
  BY DEF Sound
<1>3. \A p \in K: p.call \in b + 2..b + n
  BY DEF NewKids
<1>4. f.call = b + 1
  OBVIOUS
<1>5. \A p, q \in P: p.call = q.call /\ ~p.counted => p = q
  BY DEF Sound
<1>6. \A p, q \in K: p.call = q.call => p = q
  BY DEF NewKids
<1>7. \A a \in 1..b: G[a] = H[a]
  BY <1>0
<1>8. G[b + 1] # Freed /\ G[b + 1].refcount = 0
  BY <1>0, <1>1 DEF Allocated
<1>9. \A p \in K: /\ G[p.call] # Freed
                  /\ p.counted => G[p.call].refcount = 1
                  /\ ~p.counted => G[p.call].refcount = 0
  <2>1. ASSUME NEW p \in K
        PROVE  /\ G[p.call] # Freed
               /\ p.counted => G[p.call].refcount = 1
               /\ ~p.counted => G[p.call].refcount = 0
    <3>1. p.call - b \in 1..n /\ b + (p.call - b) = p.call
      BY <1>1, <1>3
    <3>2. G[p.call] = X[p.call - b] /\ X[p.call - b] # Freed
      BY <1>0, <3>1
    <3> QED BY <3>2 DEF NewKids
  <2> QED BY <2>1
<1>10. \A a \in b + 2..b + n:
          (\E p \in K: p.call = a) \/ (IsLost(G[a].text) /\ G[a].refcount = 0)
  <2>1. ASSUME NEW a \in b + 2..b + n PROVE G[a] = X[a - b]
    <3>1. a - b \in 1..n /\ b + (a - b) = a
      BY <1>1
    <3> QED BY <1>0, <3>1
  <2> HIDE DEF b, n
  <2>2. ASSUME NEW a \in b + 2..b + n PROVE G[a] = X[a - b]
    BY <2>1, <2>2
  <2>3. ASSUME NEW a \in b + 2..b + n
        PROVE  (\E p \in K: p.call = a) \/ (IsLost(X[a - b].text) /\ X[a - b].refcount = 0)
    BY DEF NewKids, b, n
  <2> QED BY <2>2, <2>3
<1>11. IsFiniteSet(Q)
  <2>1. IsFiniteSet(P) /\ IsFiniteSet(K) /\ IsFiniteSet({f})
    BY FS_Singleton DEF Sound, NewKids
  <2> QED BY <2>1, FS_Union
<1>12. \A p \in Q: p \in P \/ p = f \/ p \in K
  OBVIOUS
<1>13. \A a \in 1..Len(G): a \in 1..b \/ a = b + 1 \/ a \in b + 2..b + n
  BY <1>1
<1>14. /\ 1..b \subseteq 1..Len(G) /\ b + 1 \in 1..Len(G) /\ b + 2..b + n \subseteq 1..Len(G)
       /\ \A x \in 1..b: x # b + 1 /\ x \notin b + 2..b + n
       /\ b + 1 \notin b + 2..b + n
  BY <1>1
<1>15. \A a \in 1..b: H[a] # Freed => H[a].refcount >= 0
  BY DEF Sound
<1>16. \A p \in P: p.counted /\ H[p.call] # Freed => H[p.call].refcount >= 1
  BY DEF Sound
<1> HIDE DEF b, n
<1>17. Sound(G, Q)
  <2>1. \A p \in Q: p.call \in 1..Len(G)
    BY <1>2, <1>3, <1>4, <1>12, <1>14
  <2>2. ASSUME NEW p \in Q, NEW q \in Q, p.call = q.call, ~p.counted PROVE p = q
    <3>1. CASE p \in P
      <4>1. q \in P
        BY <1>2, <1>3, <1>4, <1>12, <1>14, <2>2, <3>1
      <4> QED BY <1>5, <2>2, <3>1, <4>1
    <3>2. CASE p = f
      <4>1. q = f
        BY <1>2, <1>3, <1>4, <1>12, <1>14, <2>2, <3>2
      <4> QED BY <3>2, <4>1
    <3>3. CASE p \in K
      <4>1. q \in K
        BY <1>2, <1>3, <1>4, <1>12, <1>14, <2>2, <3>3
      <4> QED BY <1>6, <2>2, <3>3, <4>1
    <3> QED BY <1>12, <3>1, <3>2, <3>3
  <2>3. ASSUME NEW p \in Q, p.counted, G[p.call] # Freed PROVE G[p.call].refcount >= 1
    <3>1. CASE p \in P
      BY <1>2, <1>7, <1>16, <2>3, <3>1
    <3>2. CASE p \in K
      <4>1. G[p.call].refcount = 1
        BY <1>9, <2>3, <3>2
      <4> QED BY <4>1
    <3> QED BY <1>12, <2>3, <3>1, <3>2
  <2>4. ASSUME NEW a \in 1..Len(G), G[a] # Freed PROVE G[a].refcount >= 0
    <3>1. CASE a \in 1..b
      BY <1>7, <1>15, <2>4, <3>1
    <3>2. CASE a = b + 1
      <4>1. G[a].refcount = 0
        BY <1>8, <3>2
      <4> QED BY <4>1
    <3>3. CASE a \in b + 2..b + n
      <4>1. G[a].refcount = 0 \/ G[a].refcount = 1
        BY <1>9, <1>10, <3>3
      <4> QED BY <4>1
    <3> QED BY <1>13, <3>1, <3>2, <3>3
  <2> QED BY <1>11, <2>1, <2>2, <2>3, <2>4 DEF Sound
<1>18. \A a \in 1..b: CountedIn(Q, a) = CountedIn(P, a)
  BY <1>3, <1>4, <1>12, <1>14 DEF CountedIn
<1>19. CountedIn(Q, b + 1) = {}
  <2>1. ASSUME NEW p \in Q, p.call = b + 1 PROVE p = f
    BY <1>2, <1>3, <1>12, <1>14, <2>1
  <2> QED BY <2>1 DEF CountedIn
<1>20. ASSUME NEW a \in b + 2..b + n, NEW p \in K, p.call = a
       PROVE  G[a].refcount = Cardinality(CountedIn(Q, a))
  <2>1. p.call = a
    BY <1>20
  <2>2. \A q \in Q: q.call = a => q = p
    <3>1. ASSUME NEW q \in Q, q.call = a PROVE q = p
      <4>1. q \in K
        BY <1>2, <1>4, <1>12, <1>14, <3>1
      <4> QED BY <1>6, <2>1, <3>1, <4>1
    <3> QED BY <3>1
  <2>3. CASE p.counted
    <3>1. CountedIn(Q, a) = {p}
      BY <2>1, <2>2, <2>3 DEF CountedIn
    <3>2. Cardinality(CountedIn(Q, a)) = 1
      BY <3>1, FS_Singleton
    <3>3. G[a].refcount = 1
      BY <1>9, <2>1, <2>3
    <3> QED BY <3>2, <3>3
  <2>4. CASE ~p.counted
    <3>1. CountedIn(Q, a) = {}
      BY <2>1, <2>2, <2>4 DEF CountedIn
    <3>2. Cardinality(CountedIn(Q, a)) = 0
      BY <3>1, FS_EmptySet
    <3>3. G[a].refcount = 0
      BY <1>9, <2>1, <2>4
    <3> QED BY <3>2, <3>3
  <2> QED BY <2>3, <2>4
<1>21. ASSUME NEW a \in b + 2..b + n, ~\E p \in K: p.call = a
       PROVE  G[a].refcount = Cardinality(CountedIn(Q, a))
  <2>1. CountedIn(Q, a) = {}
    BY <1>2, <1>4, <1>12, <1>14, <1>21 DEF CountedIn
  <2>2. Cardinality(CountedIn(Q, a)) = 0
    BY <2>1, FS_EmptySet
  <2> QED BY <1>10, <1>21, <2>2
<1>22. G[b + 1].refcount = Cardinality(CountedIn(Q, b + 1))
  <2>1. Cardinality(CountedIn(Q, b + 1)) = 0
    BY <1>19, FS_EmptySet
  <2> QED BY <1>8, <2>1
<1>23. \A a \in b + 1..b + n: G[a].refcount = Cardinality(CountedIn(Q, a)) /\ G[a].refcount \in {0, 1}
  <2>1. ASSUME NEW a \in b + 1..b + n PROVE a = b + 1 \/ a \in b + 2..b + n
    BY <1>1 DEF b, n
  <2>2. ASSUME NEW a \in b + 2..b + n PROVE G[a].refcount \in {0, 1}
    <3>1. G[a].refcount = 0 \/ G[a].refcount = 1
      BY <1>9, <1>10
    <3> QED BY <3>1
  <2> QED BY <1>8, <1>20, <1>22, <1>21, <2>1, <2>2
<1>24. \A a \in 1..Len(G): a \in 1..b \/ a \in b + 1..b + n
  BY <1>1 DEF b, n
<1>25. ASSUME Safe(H, P) PROVE Safe(G, Q)
  <2>1. \A p \in Q: G[p.call] # Freed
    <3>1. \A p \in P: G[p.call] # Freed
      BY <1>2, <1>7, <1>25 DEF Safe
    <3> QED BY <1>4, <1>8, <1>9, <1>12, <3>1
  <2>2. \A a \in 1..b: H[a] # Freed => H[a].refcount >= Cardinality(CountedIn(P, a))
    BY <1>25 DEF Safe, b
  <2>3. \A a \in 1..b: G[a] # Freed => G[a].refcount >= Cardinality(CountedIn(Q, a))
    BY <1>7, <1>18, <2>2
  <2>4. ASSUME NEW a \in b + 1..b + n PROVE G[a].refcount >= Cardinality(CountedIn(Q, a))
    <3>1. G[a].refcount = Cardinality(CountedIn(Q, a)) /\ G[a].refcount \in {0, 1}
      BY <1>23
    <3> QED BY <3>1
  <2> QED BY <1>24, <2>1, <2>3, <2>4 DEF Safe
<1>26. ASSUME Exact(H, P) PROVE Exact(G, Q)
  <2>1. \A a \in 1..b: H[a] # Freed => /\ H[a].refcount = Cardinality(CountedIn(P, a))
                                       /\ IsLost(H[a].text) \/ \E p \in P: p.call = a
    BY <1>26 DEF Exact, b
  <2>2. \A a \in 1..b: G[a] # Freed => /\ G[a].refcount = Cardinality(CountedIn(Q, a))
                                       /\ IsLost(G[a].text) \/ \E p \in Q: p.call = a
    BY <1>7, <1>18, <2>1
  <2>3. ASSUME NEW a \in b + 1..b + n PROVE IsLost(G[a].text) \/ \E p \in Q: p.call = a
    <3>1. a = b + 1 \/ a \in b + 2..b + n
      BY <1>1 DEF b, n
    <3>2. f \in Q /\ K \subseteq Q
      OBVIOUS
    <3> QED BY <1>4, <1>10, <3>1, <3>2
  <2>4. ASSUME NEW a \in 1..Len(G), G[a] # Freed
        PROVE  /\ G[a].refcount = Cardinality(CountedIn(Q, a))
               /\ IsLost(G[a].text) \/ \E p \in Q: p.call = a
    <3>1. CASE a \in 1..b
      BY <2>2, <2>4, <3>1
    <3>2. CASE a \in b + 1..b + n
      <4>1. G[a].refcount = Cardinality(CountedIn(Q, a))
        BY <1>23, <3>2
      <4> QED BY <2>3, <3>2, <4>1
    <3> QED BY <1>24, <3>1, <3>2
  <2> QED BY <2>4 DEF Exact
<1> QED BY <1>17, <1>25, <1>26
=============================================================================
