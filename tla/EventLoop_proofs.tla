-------------------------- MODULE EventLoop_proofs --------------------------
(***************************************************************************)
(* Theorems about EventLoop, for every terminal, every termkey and every   *)
(* size of the input buffer.                                               *)
(***************************************************************************)
EXTENDS EventLoop, SequenceTheorems, TLAPS

-----------------------------------------------------------------------------
\* Division with remainder.
LEMMA Division ==
  ASSUME NEW n \in Nat, NEW d \in Nat \ {0}
  PROVE  n \div d \in Int /\ n % d \in 0..d - 1 /\ n = d * (n \div d) + (n % d)
BY SMTT(30)

\* A larger factor makes a product larger by a whole divisor.
LEMMA ProductGrows ==
  ASSUME NEW d \in Nat \ {0}, NEW q \in Int, NEW p \in Int, q < p
  PROVE  d * q + d <= d * p
<1>1. PICK e \in Nat: p = q + 1 + e
  BY p = q + 1 + (p - q - 1)
<1>2. d * p = d * q + d + d * e
  BY <1>1
<1>3. d * e \in Nat /\ d * q \in Int
  BY <1>1
<1> QED BY <1>2, <1>3

\* Two divisions of one number have the same remainder.
LEMMA RemainderUnique ==
  ASSUME NEW d \in Nat \ {0}, NEW q \in Int, NEW p \in Int,
         NEW r \in 0..d - 1, NEW t \in 0..d - 1, d * q + r = d * p + t
  PROVE  r = t
<1>1. d * q \in Int /\ d * p \in Int
  OBVIOUS
<1>2. CASE q < p BY <1>1, <1>2, ProductGrows
<1>3. CASE p < q BY <1>1, <1>3, ProductGrows
<1>4. CASE p = q BY <1>1, <1>4
<1> QED BY <1>2, <1>3, <1>4

\* A remainder is no larger than the number.
LEMMA RemainderAtMost ==
  ASSUME NEW n \in Nat, NEW d \in Nat \ {0}
  PROVE  n % d <= n
<1> DEFINE q == n \div d
           r == n % d
<1>1. q \in Int /\ r \in 0..d - 1 /\ n = d * q + r
  BY Division
<1> HIDE DEF q, r
<1>2. d * q \in Int /\ d * 0 = 0
  BY <1>1
<1>3. ~(q < 0)
  BY <1>1, <1>2, ProductGrows
<1>4. CASE q = 0 BY <1>1, <1>2, <1>4 DEF r
<1>5. CASE 0 < q BY <1>1, <1>2, <1>5, ProductGrows DEF r
<1> QED BY <1>1, <1>3, <1>4, <1>5

\* A number below the divisor is its own remainder.
LEMMA RemainderOfSmall ==
  ASSUME NEW d \in Nat \ {0}, NEW n \in 0..d - 1
  PROVE  n % d = n
<1> DEFINE q == n \div d
           r == n % d
<1>1. n \in Nat
  OBVIOUS
<1>2. q \in Int /\ r \in 0..d - 1 /\ n = d * q + r
  BY <1>1, Division
<1> HIDE DEF q, r
<1>3. d * 0 = 0
  OBVIOUS
<1>4. d * q + r = d * 0 + n
  BY <1>1, <1>2, <1>3
<1>5. r = n
  BY <1>2, <1>4, RemainderUnique
<1> QED BY <1>5 DEF r

\* Counting modulo d: one more, or round to zero.
LEMMA RemainderOfNext ==
  ASSUME NEW n \in Nat, NEW d \in Nat \ {0}
  PROVE  (n + 1) % d = IF (n % d) + 1 < d THEN (n % d) + 1 ELSE 0
<1> DEFINE q == n \div d
           r == n % d
           p == (n + 1) \div d
           t == (n + 1) % d
<1>1. q \in Int /\ r \in 0..d - 1 /\ n = d * q + r
  BY Division
<1>2. p \in Int /\ t \in 0..d - 1 /\ n + 1 = d * p + t
  BY Division
<1> HIDE DEF q, r, p, t
<1>3. d * q \in Int /\ d * p \in Int /\ d * (q + 1) = d * q + d
  BY <1>1, <1>2
<1>4. CASE r + 1 < d
  <2>1. d * q + (r + 1) = d * p + t /\ r + 1 \in 0..d - 1
    BY <1>1, <1>2, <1>3, <1>4
  <2>2. r + 1 = t
    BY <2>1, <1>1, <1>2, RemainderUnique
  <2> QED BY <2>2, <1>4 DEF r, t
<1>5. CASE ~(r + 1 < d)
  <2>1. r + 1 = d
    BY <1>1, <1>5
  <2>2. d * (q + 1) + 0 = d * p + t
    BY <1>1, <1>2, <1>3, <2>1
  <2>3. 0 \in 0..d - 1 /\ q + 1 \in Int
    BY <1>1
  <2>4. 0 = t
    BY <2>2, <2>3, <1>2, RemainderUnique
  <2> QED BY <2>4, <1>5 DEF r, t
<1> QED BY <1>4, <1>5

\* What the input buffer keeps of a sequence is a sequence of the remaining length.
LEMMA KeptLength ==
  ASSUME NEW s \in Seq(Bytes)
  PROVE  /\ Pipe!Kept(s) \in Seq(Bytes)
         /\ Len(Pipe!Kept(s)) = Len(s) % InputBufferSize
         /\ \A i \in 1..Len(s) % InputBufferSize:
              Pipe!Kept(s)[i] = s[Len(s) - (Len(s) % InputBufferSize) + i]
<1> DEFINE r == Len(s) % InputBufferSize
           m == Len(s) - r + 1
<1>1. Len(s) \in Nat /\ r \in 0..InputBufferSize - 1
  BY Division, SizeAssumption
<1>2. r <= Len(s)
  BY <1>1, RemainderAtMost, SizeAssumption
<1> HIDE DEF r
<1>3. \A i \in m..Len(s): s[i] \in Bytes
  BY <1>1, <1>2, ElementOfSeq
<1>4. m \in Int /\ Len(s) - m + 1 = r
  BY <1>1
<1>5. /\ SubSeq(s, m, Len(s)) \in Seq(Bytes)
      /\ Len(SubSeq(s, m, Len(s))) = IF m <= Len(s) THEN Len(s) - m + 1 ELSE 0
      /\ \A i \in 1..Len(s) - m + 1: SubSeq(s, m, Len(s))[i] = s[m + i - 1]
  BY <1>1, <1>3, <1>4, SubSeqProperties
<1>6. Pipe!Kept(s) = SubSeq(s, m, Len(s))
  BY DEF Pipe!Kept, r
<1> QED BY <1>1, <1>4, <1>5, <1>6 DEF r

\* What is left of a sequence behind any of its elements is a sequence.
LEMMA SuffixIsSeq ==
  ASSUME NEW S, NEW s \in Seq(S), NEW n \in 1..Len(s)
  PROVE  SubSeq(s, n + 1, Len(s)) \in Seq(S)
<1>1. \A i \in n + 1..Len(s): s[i] \in S
  BY ElementOfSeq
<1> QED BY <1>1, SubSeqProperties

-----------------------------------------------------------------------------
\* The variables of main() and the context start with values of their types.
LEMMA LoopTypeInit == Init => TypeOK
<1> SUFFICES ASSUME Init PROVE TypeOK
  OBVIOUS
<1>1. output \in 0..MaxOutput /\ Len(input) < InputBufferSize
  BY SizeAssumption, OutputAssumption DEF Init
<1>2. revents \in [stdin: SUBSET {"IN", "HUP"}, program: SUBSET {"IN", "HUP"}]
  BY DEF Init, Nothing
<1>3. pending \in Seq(Bytes) /\ input \in Seq(Bytes) /\ since \in Seq(Bytes)
  BY DEF Init
<1>4. termkey \in Seq(Bytes \cup {Nul}) /\ keys \in Seq(Keys)
  BY DEF Init
<1>5. pc \in Stops /\ c \in Bytes \cup {Nul} /\ others \in BOOLEAN /\ prompt \in BOOLEAN
  BY DEF Init, Stops
<1>6. /\ stdin \in {"open", "hup", "eof"}
      /\ program \in {"running", "dead"}
      /\ exit \in {"no", "program", "signal"}
  BY DEF Init
<1> QED BY <1>1, <1>2, <1>3, <1>4, <1>5, <1>6, Zenon DEF TypeOK

\* One step per action: what each assigns has the type of its variable.
LEMMA LoopTypeStep ==
  ASSUME TypeOK, [Next]_vars
  PROVE  TypeOK'
<1> USE DEF TypeOK, Stops
<1>1. CASE UNCHANGED vars
  BY <1>1 DEF vars, terminal, pty, parser, history
<1>2. ASSUME NEW k \in Keys, Press(k) PROVE TypeOK'
  <2>1. pending \o Codes[k] \in Seq(Bytes)
    BY CodesAssumption, ConcatProperties
  <2> QED BY <1>2, <2>1 DEF Press, pty, parser
<1>3. ASSUME NEW b \in Bytes, TypeByte(b) PROVE TypeOK'
  BY <1>3 DEF TypeByte, pty, parser, history
<1>4. CASE EndOfInput BY <1>4 DEF EndOfInput, pty, parser, history
<1>5. CASE Signal BY <1>5 DEF Signal, terminal, pty, parser, history
<1>6. CASE ProgramWrites
  BY <1>6, OutputAssumption DEF ProgramWrites, terminal, parser, history
<1>7. CASE ProgramDies BY <1>7 DEF ProgramDies, terminal, parser, history
<1>8. CASE OthersChange BY <1>8 DEF OthersChange, terminal, parser, history
<1>9. CASE PollInterrupted
  BY <1>9 DEF PollInterrupted, Nothing, terminal, pty, parser, history
<1>10. CASE PollReturns
  BY <1>10 DEF PollReturns, StdinReady, ProgramReady, terminal, pty, parser, history
<1>11. CASE ShowOutput
  BY <1>11, OutputAssumption DEF ShowOutput, Nothing, terminal, parser, history
<1>12. CASE InputReady
  BY <1>12 DEF InputReady, Nothing, terminal, pty, parser, history
<1>13. CASE StdinClosed
  BY <1>13 DEF StdinClosed, Nothing, terminal, pty, parser, history
<1>14. CASE ProgramWaitedFor
  BY <1>14 DEF ProgramWaitedFor, terminal, pty, parser, history
<1>15. CASE CheckProgram
  BY <1>15 DEF CheckProgram, Nothing, terminal, pty, parser, history
<1>16. CASE ReadByte
  <2>1. Head(pending) \in Bytes /\ Tail(pending) \in Seq(Bytes)
    BY <1>16, HeadTailProperties DEF ReadByte
  <2>2. input' \in Seq(Bytes) /\ Len(input') < InputBufferSize
    BY <1>16, <2>1, SizeAssumption DEF ReadByte
  <2> QED BY <1>16, <2>1, <2>2 DEF ReadByte, pty
<1>17. CASE ReadNothing BY <1>17 DEF ReadNothing, terminal, pty, parser, history
<1>18. CASE EscapeFollowed BY <1>18 DEF EscapeFollowed, terminal, pty, parser, history
<1>19. CASE EscapeAlone BY <1>19 DEF EscapeAlone, terminal, pty, history
<1>20. CASE PushByte
  <2> DEFINE bytes == Append(termkey, c)
  <2>1. bytes \in Seq(Bytes \cup {Nul}) /\ Len(bytes) \in Nat
    OBVIOUS
  <2>2. \A n \in 1..Len(bytes):
          SubSeq(bytes, n + 1, Len(bytes)) \in Seq(Bytes \cup {Nul})
    BY <2>1, SuffixIsSeq
  <2>3. termkey' \in Seq(Bytes \cup {Nul})
    BY <1>20, <2>1, <2>2 DEF PushByte
  <2> QED BY <1>20, <2>3 DEF PushByte, terminal, pty, history
<1>21. CASE HandleKey
  <2>1. keys' \in Seq(Keys)
    BY <1>21, HeadTailProperties DEF HandleKey
  <2> QED BY <1>21, <2>1, SizeAssumption DEF HandleKey, terminal, pty
<1> QED
  BY <1>1, <1>2, <1>3, <1>4, <1>5, <1>6, <1>7, <1>8, <1>9, <1>10, <1>11, <1>12, <1>13,
     <1>14, <1>15, <1>16, <1>17, <1>18, <1>19, <1>20, <1>21
  DEF Next, Step, Loop, Environment

\* Type correctness: no operation of the loop puts anything into its variables
\* that their declarations in main() and context_t do not allow.
THEOREM LoopTypeCorrect == Spec => []TypeOK
<1>1. Init => TypeOK
  BY LoopTypeInit
<1>2. TypeOK /\ [Next]_vars => TypeOK'
  BY LoopTypeStep
<1> QED BY <1>1, <1>2, PTL DEF Spec

-----------------------------------------------------------------------------
\* One more byte in the input buffer: what it keeps grows, or wraps to nothing.
LEMMA KeptAppend ==
  ASSUME NEW s \in Seq(Bytes), NEW b \in Bytes
  PROVE  Pipe!Kept(Append(s, b)) =
           IF Len(Pipe!Kept(s)) + 1 < InputBufferSize THEN Append(Pipe!Kept(s), b) ELSE <<>>
<1> DEFINE r == Len(s) % InputBufferSize
           t == Append(s, b)
           u == Len(t) % InputBufferSize
<1>1. /\ t \in Seq(Bytes)
      /\ Len(t) = Len(s) + 1
      /\ \A i \in 1..Len(s): t[i] = s[i]
      /\ t[Len(s) + 1] = b
  BY AppendProperties
<1>2. Len(s) \in Nat /\ r \in 0..InputBufferSize - 1 /\ r <= Len(s)
  <2>1. Len(s) \in Nat /\ InputBufferSize \in Nat \ {0}
    BY SizeAssumption, LenProperties
  <2>2. r \in 0..InputBufferSize - 1
    BY <2>1, Division
  <2>3. r <= Len(s)
    BY <2>1, RemainderAtMost
  <2> QED BY <2>1, <2>2, <2>3
<1>3. u = IF r + 1 < InputBufferSize THEN r + 1 ELSE 0
  <2>1. (Len(s) + 1) % InputBufferSize = IF r + 1 < InputBufferSize THEN r + 1 ELSE 0
    BY <1>2, RemainderOfNext, SizeAssumption
  <2> HIDE DEF r
  <2> QED BY <2>1, <1>1
<1>4. /\ Pipe!Kept(s) \in Seq(Bytes)
      /\ Len(Pipe!Kept(s)) = r
      /\ \A i \in 1..r: Pipe!Kept(s)[i] = s[Len(s) - r + i]
  BY KeptLength
<1>5. /\ Pipe!Kept(t) \in Seq(Bytes)
      /\ Len(Pipe!Kept(t)) = u
      /\ \A i \in 1..u: Pipe!Kept(t)[i] = t[Len(t) - u + i]
  BY <1>1, KeptLength
<1> HIDE DEF r, t, u
<1>6. CASE r + 1 < InputBufferSize
  <2> DEFINE k == Append(Pipe!Kept(s), b)
  <2>1. /\ k \in Seq(Bytes) /\ Len(k) = r + 1
        /\ \A i \in 1..r: k[i] = Pipe!Kept(s)[i]
        /\ k[r + 1] = b
    BY <1>4, AppendProperties
  <2> HIDE DEF k
  <2>2. ASSUME NEW i \in 1..r + 1 PROVE Pipe!Kept(t)[i] = k[i]
    <3>1. Pipe!Kept(t)[i] = t[Len(s) - r + i]
      BY <1>1, <1>2, <1>3, <1>5, <1>6
    <3>2. CASE i = r + 1
      BY <3>1, <3>2, <2>1, <1>1, <1>2
    <3>3. CASE i \in 1..r
      <4>1. Len(s) - r + i \in 1..Len(s)
        BY <3>3, <1>2
      <4> QED BY <3>1, <3>3, <4>1, <2>1, <1>1, <1>4
    <3> QED BY <3>2, <3>3, <1>2
  <2>3. Pipe!Kept(t) = k
    <3>1. Len(Pipe!Kept(t)) = Len(k) /\ Len(Pipe!Kept(t)) = r + 1
      BY <2>1, <1>3, <1>5, <1>6
    <3> QED BY <2>1, <2>2, <3>1, <1>5, SeqEqual
  <2> QED BY <2>3, <1>4, <1>6 DEF k, t
<1>7. CASE ~(r + 1 < InputBufferSize)
  <2>1. Len(Pipe!Kept(t)) = 0
    BY <1>3, <1>5, <1>7
  <2>2. Pipe!Kept(t) = <<>>
    BY <2>1, <1>5, EmptySeq
  <2> QED BY <2>2, <1>4, <1>7 DEF t
<1> QED BY <1>6, <1>7

\* The buffer of an empty input is empty.
LEMMA KeptEmpty == Pipe!Kept(<<>>) = <<>>
<1>1. <<>> \in Seq(Bytes) /\ Len(<<>>) = 0
  BY EmptySeq
<1>2. 0 % InputBufferSize = 0
  <2>1. 0 \in Nat /\ InputBufferSize \in Nat \ {0}
    BY SizeAssumption
  <2>2. 0 % InputBufferSize \in 0..InputBufferSize - 1
    BY <2>1, Division
  <2>3. 0 % InputBufferSize <= 0
    BY <2>1, RemainderAtMost
  <2> QED BY <2>1, <2>2, <2>3
<1>3. Pipe!Kept(<<>>) \in Seq(Bytes) /\ Len(Pipe!Kept(<<>>)) = 0
  BY <1>1, <1>2, KeptLength
<1> QED BY <1>3, EmptySeq

-----------------------------------------------------------------------------
\* The inductive invariant.  A byte that is being examined has been read since
\* the last key; and what a snapshot says of a pty that was hung up stays true,
\* because nobody can write to it or open it again.
ByteRead == pc \in {"escape", "push", "handle"} => since # <<>>

SnapshotStable ==
  pc = "check" /\ "HUP" \in revents.program
    => ~PtyHeld /\ ("IN" \notin revents.program => output = 0)

LoopInv == TypeOK /\ InputIsSinceLastKey /\ ByteRead /\ SnapshotStable

\* Initially nothing is read, kept or polled.
LEMMA LoopInvInit == Init => InputIsSinceLastKey /\ ByteRead /\ SnapshotStable
BY KeptEmpty DEF Init, InputIsSinceLastKey, ByteRead, SnapshotStable

\* Only reading a byte and handling a key change the input buffer, and both
\* change the bytes read since the last key in the same way.
LEMMA InputStep ==
  ASSUME TypeOK, InputIsSinceLastKey, [Next]_vars
  PROVE  InputIsSinceLastKey'
<1> USE DEF InputIsSinceLastKey
<1>1. CASE ReadByte
  <2>1. Head(pending) \in Bytes /\ since \in Seq(Bytes)
    BY <1>1, HeadTailProperties DEF ReadByte, TypeOK
  <2>2. since' = Append(since, Head(pending))
    BY <1>1 DEF ReadByte
  <2>3. input' = IF Len(input) + 1 < InputBufferSize THEN Append(input, Head(pending)) ELSE <<>>
    BY <1>1 DEF ReadByte
  <2> QED BY <2>1, <2>2, <2>3, KeptAppend
<1>2. CASE HandleKey
  BY <1>2, KeptEmpty DEF HandleKey
<1>3. CASE UNCHANGED <<input, since>>
  BY <1>3
<1> QED
  BY <1>1, <1>2, <1>3
  DEF Next, Step, Loop, Environment, Press, TypeByte, EndOfInput, Signal, ProgramWrites,
      ProgramDies, OthersChange, PollInterrupted, PollReturns, ShowOutput, InputReady,
      StdinClosed, ProgramWaitedFor, CheckProgram, ReadNothing, EscapeFollowed,
      EscapeAlone, PushByte, vars, parser, history

\* A byte is examined only after it has been read.
LEMMA ByteReadStep ==
  ASSUME TypeOK, ByteRead, [Next]_vars
  PROVE  ByteRead'
<1> USE DEF ByteRead
<1>1. CASE ReadByte
  <2>1. Head(pending) \in Bytes /\ since \in Seq(Bytes)
    BY <1>1, HeadTailProperties DEF ReadByte, TypeOK
  <2>2. Append(since, Head(pending)) # <<>>
    BY <2>1, AppendProperties
  <2> QED BY <1>1, <2>2 DEF ReadByte
<1>2. CASE HandleKey
  BY <1>2 DEF HandleKey
<1>3. CASE EscapeFollowed \/ EscapeAlone \/ PushByte
  BY <1>3 DEF EscapeFollowed, EscapeAlone, PushByte, parser, history
<1>4. CASE since' = since /\ (pc' = pc \/ pc' \in {"poll", "check", "read", "wait"})
  BY <1>4
<1> QED
  BY <1>1, <1>2, <1>3, <1>4
  DEF Next, Step, Loop, Environment, Press, TypeByte, EndOfInput, Signal, ProgramWrites,
      ProgramDies, OthersChange, PollInterrupted, PollReturns, ShowOutput, InputReady,
      StdinClosed, ProgramWaitedFor, CheckProgram, ReadNothing, vars, history

\* A pty that nobody holds stays so: its hang-up and its silence are final.
LEMMA SnapshotStep ==
  ASSUME TypeOK, SnapshotStable, [Next]_vars
  PROVE  SnapshotStable'
<1> USE DEF SnapshotStable, PtyHeld
<1>1. CASE PollReturns
  <2>1. output' = output /\ program' = program /\ others' = others
        /\ revents'.program = ProgramReady
    BY <1>1 DEF PollReturns, pty
  <2> QED BY <2>1 DEF ProgramReady, TypeOK
<1>2. CASE PollInterrupted
  BY <1>2 DEF PollInterrupted, Nothing
<1>3. CASE ProgramWrites
  BY <1>3 DEF ProgramWrites
<1>4. CASE ProgramDies
  BY <1>4 DEF ProgramDies
<1>5. CASE OthersChange
  BY <1>5 DEF OthersChange
<1>6. CASE pc' # "check"
  BY <1>6
<1>7. CASE UNCHANGED <<pc, revents, pty>>
  BY <1>7 DEF pty
<1> QED
  BY <1>1, <1>2, <1>3, <1>4, <1>5, <1>6, <1>7
  DEF Next, Step, Loop, Environment, Press, TypeByte, EndOfInput, Signal,
      ShowOutput, InputReady, StdinClosed, ProgramWaitedFor, CheckProgram, ReadByte,
      ReadNothing, EscapeFollowed, EscapeAlone, PushByte, HandleKey, vars

\* The input buffer is what was read since the last key (pass writes no byte of
\* another key), for every size of the buffer, every termkey and every timing.
THEOREM InputCorrect == Spec => []InputIsSinceLastKey
<1>1. Init => InputIsSinceLastKey
  BY LoopInvInit
<1>2. TypeOK /\ InputIsSinceLastKey /\ [Next]_vars => InputIsSinceLastKey'
  BY InputStep
<1> QED BY <1>1, <1>2, LoopTypeCorrect, PTL DEF Spec

\* The loop ends with the program only when the screen is complete, unless a
\* signal has ended poll(): its snapshot can be old, but not wrong about this.
THEOREM ExitCorrect == Spec => ExitShowsAllOutput
<1>1. Init => SnapshotStable
  BY LoopInvInit
<1>2. TypeOK /\ SnapshotStable /\ [Next]_vars => SnapshotStable'
  BY SnapshotStep
<1>3. TypeOK /\ SnapshotStable /\ [Next]_vars
        => [exit' = "program" /\ pc = "check" /\ revents # Nothing => output = 0]_vars
  <2> SUFFICES ASSUME TypeOK, SnapshotStable, Next,
                      exit' = "program", pc = "check", revents # Nothing
               PROVE  output = 0
    OBVIOUS
  <2>1. CheckProgram
    <3>1. exit = "no"
      BY DEF Next, Step, Runs
    <3> QED
      BY <3>1
      DEF Next, Step, Loop, Environment, Press, TypeByte, EndOfInput, Signal, ProgramWrites,
          ProgramDies, OthersChange, PollInterrupted, PollReturns, ShowOutput, InputReady,
          StdinClosed, ProgramWaitedFor, ReadByte, ReadNothing, EscapeFollowed,
          EscapeAlone, PushByte, HandleKey, pty
  <2>2. revents.stdin = {} /\ "IN" \notin revents.program
    BY <2>1 DEF CheckProgram
  <2>3. revents.program # {}
    BY <2>2 DEF TypeOK, Nothing
  <2>4. "HUP" \in revents.program
    BY <2>2, <2>3 DEF TypeOK
  <2> QED BY <2>2, <2>4 DEF SnapshotStable
<1> QED BY <1>1, <1>2, <1>3, LoopTypeCorrect, PTL DEF Spec, ExitShowsAllOutput

-----------------------------------------------------------------------------
\* Initially the pipe is empty.
LEMMA PipeInit == Init => Pipe!ByteInit
<1> SUFFICES ASSUME Init PROVE Pipe!ByteInit
  OBVIOUS
<1>1. ~Handling /\ since = <<>> /\ pending = <<>>
  BY DEF Init, Handling
<1>2. <<>> \o <<>> = <<>>
  BY EmptySeq, ConcatEmptySeq
<1> QED BY <1>1, <1>2 DEF Pipe!ByteInit, PipeQueue, PipeDelivered

\* What the terminal sends is sent.
LEMMA SendStep ==
  ASSUME TypeOK, NEW s \in Seq(Bytes), pending' = pending \o s, UNCHANGED <<pc, parser, since>>
  PROVE  Pipe!Send(s)
<1>1. since \o (pending \o s) = (since \o pending) \o s
  <2>1. since \in Seq(Bytes) /\ pending \in Seq(Bytes)
    BY DEF TypeOK
  <2> QED BY <2>1, ConcatAssociative
<1>2. PipeQueue' = PipeQueue \o s
  BY <1>1 DEF PipeQueue, Handling
<1>3. PipeDelivered' = PipeDelivered
  BY DEF PipeDelivered, Handling, parser
<1> QED BY <1>2, <1>3 DEF Pipe!Send

\* A byte that is read stays in the pipe.
LEMMA ReadStep ==
  ASSUME TypeOK, ReadByte
  PROVE  UNCHANGED Pipe!bytes
<1>1. Head(pending) \in Bytes /\ Tail(pending) \in Seq(Bytes) /\ <<Head(pending)>> \in Seq(Bytes)
  BY HeadTailProperties DEF ReadByte, TypeOK
<1>2. pending = <<Head(pending)>> \o Tail(pending)
  <2> DEFINE t == <<Head(pending)>> \o Tail(pending)
  <2>1. /\ t \in Seq(Bytes)
        /\ Len(t) = 1 + Len(Tail(pending))
        /\ \A i \in 1..1 + Len(Tail(pending)):
             t[i] = IF i <= 1 THEN <<Head(pending)>>[i] ELSE Tail(pending)[i - 1]
    BY <1>1, ConcatProperties
  <2> HIDE DEF t
  <2>2. /\ Len(Tail(pending)) = Len(pending) - 1
        /\ \A i \in 1..Len(Tail(pending)): Tail(pending)[i] = pending[i + 1]
        /\ Len(pending) \in Nat /\ pending \in Seq(Bytes)
    BY HeadTailProperties, LenProperties DEF ReadByte, TypeOK
  <2>3. ASSUME NEW i \in 1..Len(t) PROVE t[i] = pending[i]
    <3>1. CASE i = 1
      BY <2>1, <2>2, <3>1
    <3>2. CASE i # 1
      BY <2>1, <2>2, <3>2
    <3> QED BY <3>1, <3>2
  <2>4. t = pending
    BY <2>1, <2>2, <2>3, SeqEqual
  <2> QED BY <2>4 DEF t
<1>3. since' = since \o <<Head(pending)>>
  BY <1>1, AppendIsConcat DEF ReadByte, TypeOK
<1>4. (since \o <<Head(pending)>>) \o Tail(pending) = since \o pending
  BY <1>1, <1>2, ConcatAssociative DEF TypeOK
<1>5. ~Handling /\ ~Handling' /\ pending' = Tail(pending)
  BY DEF ReadByte, Handling
<1> QED BY <1>3, <1>4, <1>5 DEF Pipe!bytes, PipeQueue, PipeDelivered

\* When handle_key() is called, all bytes read since the last key are delivered,
\* and the input buffer is what it keeps of them.
LEMMA DeliverStep ==
  ASSUME LoopInv, pc \in {"escape", "push"}, pc' = "handle", UNCHANGED <<pending, since, input>>
  PROVE  \E n \in 1..Len(PipeQueue): Pipe!Deliver(n)
<1> DEFINE n == Len(since)
           q == since \o pending
<1>1. since \in Seq(Bytes) /\ pending \in Seq(Bytes) /\ since # <<>>
  BY DEF LoopInv, TypeOK, ByteRead
<1>2. n \in Nat /\ n >= 1 /\ Len(pending) \in Nat
  BY <1>1, EmptySeq, LenProperties
<1>3. /\ q \in Seq(Bytes)
      /\ Len(q) = n + Len(pending)
      /\ \A i \in 1..n + Len(pending): q[i] = IF i <= n THEN since[i] ELSE pending[i - n]
  BY <1>1, ConcatProperties
<1>4. PipeQueue = q /\ PipeDelivered = {} /\ PipeQueue' = pending
      /\ PipeDelivered' = {[key |-> key', raw |-> input]}
  BY DEF PipeQueue, PipeDelivered, Handling
<1> HIDE DEF n, q
<1>5. SubSeq(q, 1, n) = since
  <2>1. \A i \in 1..n: q[i] \in Bytes
    BY <1>2, <1>3, ElementOfSeq
  <2>2. /\ SubSeq(q, 1, n) \in Seq(Bytes)
        /\ Len(SubSeq(q, 1, n)) = n
        /\ \A i \in 1..n: SubSeq(q, 1, n)[i] = q[i]
    BY <1>2, <2>1, SubSeqProperties
  <2>3. \A i \in 1..n: SubSeq(q, 1, n)[i] = since[i]
    BY <1>2, <1>3, <2>2
  <2> QED BY <1>1, <2>2, <2>3, SeqEqual DEF n
<1>6. SubSeq(q, n + 1, Len(q)) = pending
  <2>1. \A i \in n + 1..Len(q): q[i] \in Bytes
    BY <1>2, <1>3, ElementOfSeq
  <2>2. /\ SubSeq(q, n + 1, Len(q)) \in Seq(Bytes)
        /\ Len(SubSeq(q, n + 1, Len(q))) = Len(pending)
        /\ \A i \in 1..Len(pending): SubSeq(q, n + 1, Len(q))[i] = q[n + i]
    BY <1>2, <1>3, <2>1, SubSeqProperties
  <2>3. \A i \in 1..Len(pending): SubSeq(q, n + 1, Len(q))[i] = pending[i]
    BY <1>2, <1>3, <2>2
  <2> QED BY <1>1, <2>2, <2>3, SeqEqual
<1>7. input = Pipe!Kept(SubSeq(q, 1, n))
  BY <1>5 DEF LoopInv, InputIsSinceLastKey
<1>8. Pipe!Deliver(n)
  BY <1>4, <1>6, <1>7 DEF Pipe!Deliver
<1>9. n \in 1..Len(PipeQueue)
  BY <1>2, <1>3, <1>4
<1> QED BY <1>8, <1>9

\* handle_key() has returned.
LEMMA ReturnStep ==
  ASSUME TypeOK, HandleKey
  PROVE  Pipe!Return
<1>1. <<>> \o pending = pending
  BY ConcatEmptySeq DEF TypeOK
<1>2. Handling /\ ~Handling' /\ since' = <<>> /\ pending' = pending
  BY DEF HandleKey, Handling, terminal
<1> QED BY <1>1, <1>2 DEF Pipe!Return, PipeQueue, PipeDelivered

\* Every other step leaves the pipe alone.
LEMMA StutterStep ==
  ASSUME UNCHANGED <<pending, since, key, input>>, pc # "handle", pc' # "handle"
  PROVE  UNCHANGED Pipe!bytes
BY DEF Pipe!bytes, PipeQueue, PipeDelivered, Handling

\* So does a step that happens while a key is handled.
LEMMA StillStep ==
  ASSUME UNCHANGED <<pc, pending, since, key, input>>
  PROVE  UNCHANGED Pipe!bytes
BY DEF Pipe!bytes, PipeQueue, PipeDelivered, Handling

\* The loop implements the pipe of bytes: whatever the terminal sends and
\* whenever, no byte is lost (but for the wrap), doubled or reordered on its way
\* to the input of a key.
THEOREM PipeCorrect == Spec => PipesBytes
<1>1. Init => LoopInv
  <2>1. Init => TypeOK
    BY LoopTypeInit
  <2> QED BY <2>1, LoopInvInit DEF LoopInv
<1>2. LoopInv /\ [Next]_vars => LoopInv'
  BY LoopTypeStep, InputStep, ByteReadStep, SnapshotStep DEF LoopInv
<1>3. LoopInv /\ [Next]_vars => [Pipe!ByteNext]_Pipe!bytes
  <2> SUFFICES ASSUME LoopInv, [Next]_vars
               PROVE  Pipe!ByteNext \/ UNCHANGED Pipe!bytes
    OBVIOUS
  <2> USE DEF LoopInv
  <2>1. ASSUME NEW k \in Keys, Press(k) PROVE Pipe!ByteNext
    <3>1. Codes[k] \in Seq(Bytes)
      BY CodesAssumption
    <3>2. Pipe!Send(Codes[k])
      BY <2>1, <3>1, SendStep DEF Press
    <3> QED BY <3>2 DEF Pipe!ByteNext
  <2>2. ASSUME NEW b \in Bytes, TypeByte(b) PROVE Pipe!ByteNext
    <3>1. <<b>> \in Seq(Bytes) /\ Append(pending, b) = pending \o <<b>>
      BY AppendIsConcat DEF TypeOK
    <3>2. Pipe!Send(<<b>>)
      BY <2>2, <3>1, SendStep DEF TypeByte, history
    <3> QED BY <3>2 DEF Pipe!ByteNext
  <2>3. CASE ReadByte
    BY <2>3, ReadStep
  <2>4. CASE HandleKey
    BY <2>4, ReturnStep DEF Pipe!ByteNext
  <2>5. CASE EscapeAlone \/ (PushByte /\ pc' = "handle")
    <3>1. pc \in {"escape", "push"} /\ pc' = "handle" /\ UNCHANGED <<pending, since, input>>
      BY <2>5 DEF EscapeAlone, PushByte, terminal, history
    <3> QED BY <3>1, DeliverStep DEF Pipe!ByteNext
  <2>6. CASE PushByte /\ pc' # "handle"
    <3>1. pc # "handle" /\ UNCHANGED <<pending, since, key, input>>
      BY <2>6 DEF PushByte, terminal, history
    <3> QED BY <2>6, <3>1, StutterStep
  <2>7. CASE \/ PollInterrupted \/ PollReturns \/ ShowOutput \/ InputReady \/ StdinClosed
             \/ CheckProgram \/ ReadNothing \/ EscapeFollowed
    <3>1. pc # "handle" /\ pc' # "handle" /\ UNCHANGED <<pending, since, key, input>>
      BY <2>7
      DEF PollInterrupted, PollReturns, ShowOutput, InputReady, StdinClosed, CheckProgram,
          ReadNothing, EscapeFollowed, terminal, parser, history
    <3> QED BY <3>1, StutterStep
  <2>8. CASE \/ EndOfInput \/ Signal \/ ProgramWrites \/ ProgramDies \/ OthersChange
             \/ ProgramWaitedFor \/ UNCHANGED vars
    <3>1. UNCHANGED <<pc, pending, since, key, input>>
      BY <2>8
      DEF EndOfInput, Signal, ProgramWrites, ProgramDies, OthersChange, ProgramWaitedFor,
          vars, terminal, parser, history
    <3> QED BY <3>1, StillStep
  <2> QED
    BY <2>1, <2>2, <2>3, <2>4, <2>5, <2>6, <2>7, <2>8 DEF Next, Step, Loop, Environment
<1> QED BY <1>1, <1>2, <1>3, PipeInit, PTL DEF Spec, PipesBytes, Pipe!ByteSpec

-----------------------------------------------------------------------------
(***************************************************************************)
(* The pipe of keys.  With a prompt terminal the bytes in the pipe are     *)
(* those of the keys pressed, one after the other: there are places to cut *)
(* them.  What has been read since the last key is the beginning of the    *)
(* first key, termkey holds the same bytes, and it holds all of them only  *)
(* when the key is about to be handled - or is an Escape that was read     *)
(* when the input had ended, and is taken for the start of a sequence.     *)
(***************************************************************************)

\* The bytes of k are in q from m to n.
Block(q, m, n, k) ==
  n = m + Len(Codes[k]) /\ \A j \in 1..Len(Codes[k]): q[m + j] = Codes[k][j]

\* The bytes of ks are in q, in order, and nothing else is.
Typed(ks, q) ==
  \E cut \in [0..Len(ks) -> 0..Len(q)]:
    /\ cut[0] = 0 /\ cut[Len(ks)] = Len(q)
    /\ \A i, j \in 0..Len(ks): i <= j => cut[i] <= cut[j]
    /\ \A i \in 1..Len(ks): Block(q, cut[i - 1], cut[i], ks[i])

\* No key, no byte.
LEMMA TypedNothing ==
  /\ Typed(<<>>, <<>>)
  /\ \A q \in Seq(Bytes): Typed(<<>>, q) => q = <<>>
<1>1. Len(<<>>) = 0 /\ 0..0 = {0}
  BY EmptySeq
<1>2. Typed(<<>>, <<>>)
  <2> DEFINE cut == [i \in {0} |-> 0]
  <2>1. cut \in [0..Len(<<>>) -> 0..Len(<<>>)] /\ cut[0] = 0
    BY <1>1
  <2>2. \A i, j \in 0..Len(<<>>): i = 0 /\ j = 0
    BY <1>1
  <2>3. 1..Len(<<>>) = {}
    BY <1>1
  <2> HIDE DEF cut
  <2>4. cut[Len(<<>>)] = Len(<<>>)
    BY <1>1, <2>1
  <2>5. \A i, j \in 0..Len(<<>>): i <= j => cut[i] <= cut[j]
    BY <2>1, <2>2
  <2> QED BY <2>1, <2>3, <2>4, <2>5 DEF Typed
<1>3. ASSUME NEW q \in Seq(Bytes), Typed(<<>>, q) PROVE q = <<>>
  <2>1. PICK cut \in [0..Len(<<>>) -> 0..Len(q)]: cut[0] = 0 /\ cut[Len(<<>>)] = Len(q)
    BY <1>3 DEF Typed
  <2>2. Len(q) = 0
    BY <1>1, <2>1
  <2> QED BY <2>2, EmptySeq
<1> QED BY <1>2, <1>3

\* The first bytes are those of the first key.
LEMMA TypedFirst ==
  ASSUME NEW ks \in Seq(Keys), NEW q \in Seq(Bytes), Typed(ks, q), ks # <<>>
  PROVE  /\ ks[1] \in Keys
         /\ Len(Codes[ks[1]]) \in 1..Len(q)
         /\ \A j \in 1..Len(Codes[ks[1]]): q[j] = Codes[ks[1]][j]
<1>1. Len(ks) \in Nat /\ Len(ks) >= 1 /\ Len(q) \in Nat
  BY EmptySeq, LenProperties
<1>2. ks[1] \in Keys
  BY <1>1, ElementOfSeq
<1>3. Len(Codes[ks[1]]) \in Nat \ {0}
  BY <1>2, CodesAssumption, SizeAssumption
<1>4. PICK cut \in [0..Len(ks) -> 0..Len(q)]:
        /\ cut[0] = 0
        /\ \A i \in 1..Len(ks): Block(q, cut[i - 1], cut[i], ks[i])
  BY DEF Typed
<1>5. Block(q, cut[1 - 1], cut[1], ks[1]) /\ 1 - 1 = 0
  BY <1>1, <1>4
<1>6. Block(q, 0, cut[1], ks[1]) /\ cut[1] \in 0..Len(q)
  BY <1>1, <1>4, <1>5
<1> DEFINE n == Len(Codes[ks[1]])
<1>7. cut[1] = 0 + n /\ \A j \in 1..n: q[0 + j] = Codes[ks[1]][j]
  BY <1>6 DEF Block
<1> HIDE DEF n
<1>8. n \in Nat \ {0}
  BY <1>3 DEF n
<1>9. n \in 1..Len(q)
  BY <1>1, <1>6, <1>7, <1>8
<1>10. \A j \in 1..n: q[j] = Codes[ks[1]][j]
  <2>1. \A j \in 1..n: 0 + j = j
    BY <1>8
  <2> QED BY <1>7, <2>1
<1> QED BY <1>2, <1>9, <1>10 DEF n

\* Without them, the others are left.
LEMMA TypedTail ==
  ASSUME NEW ks \in Seq(Keys), NEW q \in Seq(Bytes), Typed(ks, q), ks # <<>>
  PROVE  Typed(Tail(ks), SubSeq(q, Len(Codes[ks[1]]) + 1, Len(q)))
<1> DEFINE n == Len(Codes[ks[1]])
           l == Len(ks) - 1
           rest == SubSeq(q, n + 1, Len(q))
           left == Tail(ks)
<1>1. n \in 1..Len(q) /\ Len(q) \in Nat /\ ks[1] \in Keys
  BY TypedFirst, LenProperties
<1>2. /\ left \in Seq(Keys) /\ Len(left) = l /\ l \in Nat
      /\ \A i \in 1..l: left[i] = ks[i + 1]
  <2>1. Len(ks) \in Nat /\ Len(ks) >= 1
    BY EmptySeq, LenProperties
  <2> QED BY <2>1, HeadTailProperties
<1>3. Len(rest) = Len(q) - n /\ \A j \in 1..Len(q) - n: rest[j] = q[n + j]
  <2>1. \A i \in n + 1..Len(q): q[i] \in Bytes
    BY <1>1, ElementOfSeq
  <2> HIDE DEF n
  <2>2. /\ Len(rest) = IF n + 1 <= Len(q) THEN Len(q) - (n + 1) + 1 ELSE 0
        /\ \A i \in 1..Len(q) - (n + 1) + 1: rest[i] = q[n + 1 + i - 1]
    BY <1>1, <2>1, SubSeqProperties
  <2> HIDE DEF rest
  <2>3. Len(rest) = Len(q) - n
    BY <1>1, <2>2
  <2>4. \A j \in 1..Len(q) - n: n + 1 + j - 1 = n + j /\ j \in 1..Len(q) - (n + 1) + 1
    BY <1>1
  <2> QED BY <2>2, <2>3, <2>4
<1>4. PICK cut \in [0..Len(ks) -> 0..Len(q)]:
        /\ cut[0] = 0 /\ cut[Len(ks)] = Len(q)
        /\ \A i, j \in 0..Len(ks): i <= j => cut[i] <= cut[j]
        /\ \A i \in 1..Len(ks): Block(q, cut[i - 1], cut[i], ks[i])
  BY DEF Typed
<1>5. cut[1] = n
  <2>1. 1 \in 1..Len(ks) /\ 1 - 1 = 0
    BY <1>2
  <2>2. Block(q, 0, cut[1], ks[1])
    BY <1>4, <2>1
  <2> QED BY <1>1, <2>2 DEF Block
<1> HIDE DEF n, rest, left
<1> DEFINE new == [i \in 0..l |-> cut[i + 1] - n]
<1>6. \A i \in 0..l: i + 1 \in 1..Len(ks) /\ i + 1 \in 0..Len(ks) /\ cut[i + 1] \in n..Len(q)
  <2> TAKE i \in 0..l
  <2>1. i + 1 \in 1..Len(ks) /\ i + 1 \in 0..Len(ks) /\ 1 \in 0..Len(ks) /\ 1 <= i + 1
    BY <1>2
  <2>2. cut[1] <= cut[i + 1] /\ cut[i + 1] \in 0..Len(q)
    BY <1>4, <2>1
  <2> QED BY <1>1, <1>5, <2>1, <2>2
<1>7. new \in [0..l -> 0..Len(rest)]
  <2>1. \A i \in 0..l: cut[i + 1] - n \in 0..Len(rest)
    BY <1>1, <1>3, <1>6
  <2> QED BY <2>1
<1>8. \A i \in 0..l: new[i] = cut[i + 1] - n
  OBVIOUS
<1> HIDE DEF new
<1>9. new[0] = 0 /\ new[l] = Len(rest)
  <2>1. 0 \in 0..l /\ l \in 0..l /\ 0 + 1 = 1 /\ l + 1 = Len(ks)
    BY <1>2
  <2>2. new[0] = cut[1] - n /\ new[l] = cut[Len(ks)] - n
    BY <1>8, <2>1
  <2> QED BY <1>1, <1>3, <1>4, <1>5, <2>2
<1>10. ASSUME NEW i \in 0..l, NEW j \in 0..l, i <= j PROVE new[i] <= new[j]
  <2>1. cut[i + 1] <= cut[j + 1]
    BY <1>2, <1>4, <1>6, <1>10
  <2> QED BY <1>1, <1>6, <1>8, <2>1
<1>11. ASSUME NEW i \in 1..l PROVE Block(rest, new[i - 1], new[i], left[i])
  <2>1. /\ i \in 0..l /\ i - 1 \in 0..l /\ i + 1 \in 1..Len(ks) /\ i + 1 \in 0..Len(ks)
        /\ (i - 1) + 1 = i /\ (i + 1) - 1 = i /\ i \in 0..Len(ks)
    BY <1>2
  <2>2. new[i] = cut[i + 1] - n /\ new[i - 1] = cut[i] - n
    BY <1>8, <2>1
  <2>3. Block(q, cut[i], cut[i + 1], ks[i + 1]) /\ left[i] = ks[i + 1] /\ ks[i + 1] \in Keys
    <3>1. Block(q, cut[(i + 1) - 1], cut[i + 1], ks[i + 1])
      BY <1>4, <2>1
    <3>2. ks[i + 1] \in Keys
      BY <2>1, ElementOfSeq
    <3> QED BY <1>2, <2>1, <3>1, <3>2
  <2> DEFINE k == ks[i + 1]
             d == Len(Codes[k])
  <2>4. d \in Nat
    BY <2>3, CodesAssumption, SizeAssumption
  <2>5. cut[i + 1] = cut[i] + d /\ \A j \in 1..d: q[cut[i] + j] = Codes[k][j]
    BY <2>3 DEF Block
  <2>6. left[i] = k
    BY <2>3
  <2> HIDE DEF k, d
  <2>7. cut[i] \in n..Len(q) /\ cut[i + 1] \in n..Len(q)
    <3>1. cut[(i - 1) + 1] \in n..Len(q) /\ cut[i + 1] \in n..Len(q)
      BY <1>6, <2>1
    <3> QED BY <2>1, <3>1
  <2>8. new[i] = new[i - 1] + d
    BY <1>1, <2>2, <2>4, <2>5, <2>7
  <2>9. ASSUME NEW j \in 1..d PROVE rest[new[i - 1] + j] = Codes[k][j]
    <3>1. new[i - 1] + j \in 1..Len(q) - n /\ n + (new[i - 1] + j) = cut[i] + j
      <4>1. cut[i] - n + j \in 1..Len(q) - n /\ n + (cut[i] - n + j) = cut[i] + j
        BY <1>1, <2>4, <2>5, <2>7
      <4> QED BY <2>2, <4>1
    <3>2. rest[new[i - 1] + j] = q[n + (new[i - 1] + j)]
      BY <1>3, <3>1
    <3> QED BY <2>5, <3>1, <3>2
  <2> QED BY <2>6, <2>8, <2>9 DEF Block, d
<1>12. Typed(left, rest)
  <2>1. new \in [0..Len(left) -> 0..Len(rest)]
    BY <1>2, <1>7
  <2>2. new[Len(left)] = Len(rest) /\ \A i, j \in 0..Len(left): i <= j => new[i] <= new[j]
    BY <1>2, <1>9, <1>10
  <2>3. \A i \in 1..Len(left): Block(rest, new[i - 1], new[i], left[i])
    BY <1>2, <1>11
  <2> QED BY <1>9, <2>1, <2>2, <2>3 DEF Typed
<1> QED BY <1>12 DEF left, rest, n

\* One more key, and its bytes behind the others.
LEMMA TypedPress ==
  ASSUME NEW ks \in Seq(Keys), NEW q \in Seq(Bytes), Typed(ks, q), NEW k \in Keys
  PROVE  Typed(Append(ks, k), q \o Codes[k])
<1> DEFINE l == Len(ks)
           m == Len(q)
           d == Len(Codes[k])
           more == Append(ks, k)
           all == q \o Codes[k]
<1>1. Codes[k] \in Seq(Bytes) /\ d \in Nat /\ l \in Nat /\ m \in Nat
  BY CodesAssumption, LenProperties
<1>2. /\ more \in Seq(Keys) /\ Len(more) = l + 1
      /\ \A i \in 1..l: more[i] = ks[i]
      /\ more[l + 1] = k
  BY AppendProperties
<1>3. /\ all \in Seq(Bytes) /\ Len(all) = m + d
      /\ \A i \in 1..m + d: all[i] = IF i <= m THEN q[i] ELSE Codes[k][i - m]
  BY <1>1, ConcatProperties
<1>4. PICK cut \in [0..l -> 0..m]:
        /\ cut[0] = 0 /\ cut[l] = m
        /\ \A i, j \in 0..l: i <= j => cut[i] <= cut[j]
        /\ \A i \in 1..l: Block(q, cut[i - 1], cut[i], ks[i])
  BY DEF Typed
<1> HIDE DEF l, m, d, more, all
<1> DEFINE new == [i \in 0..l + 1 |-> IF i = l + 1 THEN m + d ELSE cut[i]]
<1>5. \A i \in 0..l: i # l + 1 /\ i \in 0..l + 1 /\ new[i] = cut[i] /\ cut[i] \in 0..m
  BY <1>1, <1>4
<1>6. l + 1 \in 0..l + 1 /\ new[l + 1] = m + d
  BY <1>1
<1>7. new \in [0..l + 1 -> 0..m + d]
  <2>1. \A i \in 0..l + 1: (IF i = l + 1 THEN m + d ELSE cut[i]) \in 0..m + d
    <3> TAKE i \in 0..l + 1
    <3>1. CASE i = l + 1 BY <1>1, <3>1
    <3>2. CASE i # l + 1
      <4>1. i \in 0..l
        BY <1>1, <3>2
      <4> QED BY <1>1, <1>5, <3>2, <4>1
    <3> QED BY <3>1, <3>2
  <2> QED BY <2>1
<1> HIDE DEF new
<1>8. new[0] = 0
  BY <1>1, <1>4, <1>5
<1>9. ASSUME NEW i \in 0..l + 1, NEW j \in 0..l + 1, i <= j PROVE new[i] <= new[j]
  <2>1. CASE j = l + 1
    BY <1>6, <1>7, <2>1, <1>1
  <2>2. CASE j # l + 1
    <3>1. i \in 0..l /\ j \in 0..l
      BY <1>1, <1>9, <2>2
    <3>2. cut[i] <= cut[j]
      BY <1>4, <1>9, <3>1
    <3> QED BY <1>5, <3>1, <3>2
  <2> QED BY <2>1, <2>2
<1>10. ASSUME NEW i \in 1..l + 1 PROVE Block(all, new[i - 1], new[i], more[i])
  <2>1. CASE i = l + 1
    <3>1. i - 1 = l /\ l \in 0..l
      BY <1>1, <2>1
    <3>2. new[i - 1] = m /\ new[i] = m + d /\ more[i] = k
      BY <1>2, <1>4, <1>5, <1>6, <2>1, <3>1
    <3>3. ASSUME NEW j \in 1..d PROVE all[m + j] = Codes[k][j]
      <4>1. m + j \in 1..m + d /\ ~(m + j <= m) /\ (m + j) - m = j
        BY <1>1
      <4> QED BY <1>3, <4>1
    <3> QED BY <3>2, <3>3 DEF Block, d
  <2>2. CASE i # l + 1
    <3>1. i \in 1..l /\ i \in 0..l /\ i - 1 \in 0..l
      BY <1>1, <2>2
    <3>2. new[i - 1] = cut[i - 1] /\ new[i] = cut[i] /\ more[i] = ks[i] /\ ks[i] \in Keys
      BY <1>2, <1>5, <3>1, ElementOfSeq DEF l
    <3> DEFINE e == Len(Codes[ks[i]])
    <3>3. e \in Nat
      BY <3>2, CodesAssumption, SizeAssumption
    <3>4. cut[i] = cut[i - 1] + e /\ \A j \in 1..e: q[cut[i - 1] + j] = Codes[ks[i]][j]
      BY <1>4, <3>1 DEF Block
    <3> HIDE DEF e
    <3>5. ASSUME NEW j \in 1..e PROVE all[cut[i - 1] + j] = Codes[ks[i]][j]
      <4>1. cut[i - 1] + j \in 1..m
        BY <1>1, <1>5, <3>1, <3>3, <3>4
      <4>2. all[cut[i - 1] + j] = q[cut[i - 1] + j]
        <5>1. cut[i - 1] + j \in 1..m + d /\ cut[i - 1] + j <= m
          BY <1>1, <4>1
        <5> QED BY <1>3, <5>1
      <4> QED BY <3>4, <4>2
    <3> QED BY <3>2, <3>4, <3>5 DEF Block, e
  <2> QED BY <2>1, <2>2
<1>11. Typed(more, all)
  <2>1. new \in [0..Len(more) -> 0..Len(all)]
    BY <1>2, <1>3, <1>7
  <2>2. new[Len(more)] = Len(all) /\ \A i, j \in 0..Len(more): i <= j => new[i] <= new[j]
    BY <1>2, <1>3, <1>6, <1>9
  <2>3. \A i \in 1..Len(more): Block(all, new[i - 1], new[i], more[i])
    BY <1>2, <1>10
  <2> QED BY <1>8, <2>1, <2>2, <2>3 DEF Typed
<1> QED BY <1>11 DEF more, all

\* The Escape of a terminal whose input has ended: read as the start of a sequence.
Stuck == stdin = "eof" /\ pending = <<>> /\ keys[1] = Escape

\* How far the first key has been read, and what termkey holds of it.
Parsing ==
  /\ since # <<>> =>
       /\ keys # <<>>
       /\ Len(since) <= Len(Codes[keys[1]])
       /\ Len(since) = Len(Codes[keys[1]]) =>
            pc = "escape" \/ (pc = "push" /\ keys[1] # Escape) \/ Stuck
  /\ pc \in {"escape", "push"} => since = Append(termkey, c)
  /\ pc \notin {"escape", "push"} => since = termkey
  /\ pc = "escape" => c = Esc

PromptInv ==
  /\ ~prompt => keys = <<>>
  /\ prompt =>
       /\ Typed(PipeKeys, PipeQueue)
       /\ \A i \in 1..Len(keys) - 1: keys[i] # Escape
       /\ pc = "handle" => keys # <<>> /\ termkey = <<>>
       /\ pc # "handle" => Parsing

\* The loop's invariant and this one.
KeysInv == LoopInv /\ PromptInv

\* Initially nothing is typed.
LEMMA PromptInit == Init => PromptInv
<1> SUFFICES ASSUME Init PROVE PromptInv
  OBVIOUS
<1>1. pc = "poll" /\ since = <<>> /\ pending = <<>> /\ keys = <<>> /\ termkey = <<>>
  BY DEF Init
<1>2. PipeKeys = <<>> /\ PipeQueue = <<>>
  <2>1. <<>> \o <<>> = <<>>
    BY EmptySeq, ConcatEmptySeq
  <2> QED BY <1>1, <2>1 DEF PipeKeys, PipeQueue, Handling
<1>3. \A i \in 1..Len(keys) - 1: keys[i] # Escape
  <2>1. Len(keys) = 0
    BY <1>1, EmptySeq
  <2> QED BY <2>1
<1>4. Typed(PipeKeys, PipeQueue)
  BY <1>2, TypedNothing
<1> QED BY <1>1, <1>3, <1>4 DEF PromptInv, Parsing

\* The two parts of a sequence that was put together.
LEMMA ConcatParts ==
  ASSUME NEW S, NEW s \in Seq(S), NEW t \in Seq(S)
  PROVE  /\ s \o t \in Seq(S)
         /\ Len(s \o t) = Len(s) + Len(t)
         /\ \A i \in 1..Len(s): (s \o t)[i] = s[i]
         /\ SubSeq(s \o t, Len(s) + 1, Len(s \o t)) = t
<1> DEFINE n == Len(s)
           q == s \o t
<1>1. n \in Nat /\ Len(t) \in Nat
  BY LenProperties
<1>2. /\ q \in Seq(S)
      /\ Len(q) = n + Len(t)
      /\ \A i \in 1..n + Len(t): q[i] = IF i <= n THEN s[i] ELSE t[i - n]
  BY ConcatProperties
<1> HIDE DEF n, q
<1>3. \A i \in 1..n: q[i] = s[i]
  BY <1>1, <1>2
<1>4. SubSeq(q, n + 1, Len(q)) = t
  <2>1. \A i \in n + 1..Len(q): q[i] \in S
    BY <1>1, <1>2, ElementOfSeq
  <2>2. /\ SubSeq(q, n + 1, Len(q)) \in Seq(S)
        /\ Len(SubSeq(q, n + 1, Len(q))) = Len(t)
        /\ \A i \in 1..Len(t): SubSeq(q, n + 1, Len(q))[i] = q[n + i]
    BY <1>1, <1>2, <2>1, SubSeqProperties
  <2>3. \A i \in 1..Len(t): SubSeq(q, n + 1, Len(q))[i] = t[i]
    BY <1>1, <1>2, <2>2
  <2> QED BY <2>2, <2>3, SeqEqual
<1> QED BY <1>2, <1>3, <1>4 DEF n, q

\* What has been read is the beginning of the first key.
LEMMA FirstKey ==
  ASSUME KeysInv, prompt, pc # "handle", since # <<>>
  PROVE  /\ keys \in Seq(Keys) /\ keys # <<>> /\ keys[1] \in Keys
         /\ Codes[keys[1]] \in Seq(Bytes)
         /\ Len(since) \in 1..Len(Codes[keys[1]])
         /\ Len(Codes[keys[1]]) \in 1..Len(since) + Len(pending)
         /\ \A j \in 1..Len(since): since[j] = Codes[keys[1]][j]
         /\ Typed(Tail(keys), SubSeq(PipeQueue, Len(Codes[keys[1]]) + 1, Len(PipeQueue)))
<1>1. since \in Seq(Bytes) /\ pending \in Seq(Bytes) /\ keys \in Seq(Keys)
  BY DEF KeysInv, LoopInv, TypeOK
<1>2. PipeQueue = since \o pending /\ PipeKeys = keys
  BY DEF PipeQueue, PipeKeys, Handling
<1>3. keys # <<>> /\ Len(since) <= Len(Codes[keys[1]]) /\ Typed(keys, PipeQueue)
  BY <1>2 DEF KeysInv, PromptInv, Parsing
<1>4. /\ PipeQueue \in Seq(Bytes) /\ Len(PipeQueue) = Len(since) + Len(pending)
      /\ \A i \in 1..Len(since): PipeQueue[i] = since[i]
  BY <1>1, <1>2, ConcatParts
<1>5. /\ keys[1] \in Keys
      /\ Len(Codes[keys[1]]) \in 1..Len(PipeQueue)
      /\ \A j \in 1..Len(Codes[keys[1]]): PipeQueue[j] = Codes[keys[1]][j]
  BY <1>1, <1>3, <1>4, TypedFirst
<1>6. Len(since) \in Nat \ {0}
  BY <1>1, EmptySeq, LenProperties
<1>7. Len(since) \in 1..Len(Codes[keys[1]])
  BY <1>3, <1>5, <1>6
<1>8. \A j \in 1..Len(since): since[j] = Codes[keys[1]][j]
  <2>1. \A j \in 1..Len(since): j \in 1..Len(Codes[keys[1]])
    BY <1>7, <1>5
  <2> QED BY <1>4, <1>5, <2>1
<1>9. Typed(Tail(keys), SubSeq(PipeQueue, Len(Codes[keys[1]]) + 1, Len(PipeQueue)))
  BY <1>1, <1>3, <1>4, TypedTail
<1> QED BY <1>1, <1>3, <1>4, <1>5, <1>7, <1>8, <1>9, CodesAssumption

\* When the first key has been read to its end, what has been read are its bytes, the
\* input buffer has not wrapped, and the bytes of the other keys are still to be read.
LEMMA WholeKey ==
  ASSUME KeysInv, prompt, pc # "handle", since # <<>>, Len(since) = Len(Codes[keys[1]])
  PROVE  since = Codes[keys[1]] /\ input = since /\ Typed(Tail(keys), pending)
<1>1. since = Codes[keys[1]]
  BY FirstKey, SeqEqual DEF KeysInv, LoopInv, TypeOK
<1>2. SubSeq(PipeQueue, Len(since) + 1, Len(PipeQueue)) = pending
  <2>1. since \in Seq(Bytes) /\ pending \in Seq(Bytes) /\ PipeQueue = since \o pending
    BY DEF PipeQueue, Handling, KeysInv, LoopInv, TypeOK
  <2> QED BY <2>1, ConcatParts
<1>3. input = since
  <2> DEFINE r == Len(since) % InputBufferSize
             d == InputBufferSize
  <2>1. Len(since) \in 1..d - 1 /\ d \in Nat \ {0}
    BY <1>1, FirstKey, CodesAssumption, SizeAssumption
  <2>2. Len(since) \in Nat
    BY <2>1
  <2>3. r = Len(since)
    <3>1. Len(since) \in 0..d - 1
      BY <2>1
    <3> QED BY <2>1, <3>1, RemainderOfSmall
  <2>4. Pipe!Kept(since) = SubSeq(since, Len(since) - r + 1, Len(since))
    BY DEF Pipe!Kept
  <2> HIDE DEF r
  <2>5. Len(since) - r + 1 = 1
    BY <2>2, <2>3
  <2>6. SubSeq(since, 1, Len(since)) = since
    <3>1. since \in Seq(Bytes)
      BY DEF KeysInv, LoopInv, TypeOK
    <3>2. \A i \in 1..Len(since): since[i] \in Bytes
      BY <3>1, ElementOfSeq
    <3>3. /\ SubSeq(since, 1, Len(since)) \in Seq(Bytes)
          /\ Len(SubSeq(since, 1, Len(since))) = Len(since)
          /\ \A i \in 1..Len(since): SubSeq(since, 1, Len(since))[i] = since[i]
      BY <2>2, <3>2, SubSeqProperties
    <3> QED BY <3>1, <3>3, SeqEqual
  <2>7. input = Pipe!Kept(since)
    BY DEF KeysInv, LoopInv, InputIsSinceLastKey
  <2> QED BY <2>4, <2>5, <2>6, <2>7
<1>4. Typed(Tail(keys), pending)
  BY <1>1, <1>2, FirstKey
<1> QED BY <1>1, <1>3, <1>4

-----------------------------------------------------------------------------
\* One step of the concrete loop, seen from the pipe of keys.
KeyMove == Pipe!KeyNext \/ UNCHANGED Pipe!vars

\* A terminal that is not prompt keeps no keys: its bytes are only counted.
LEMMA NotPromptStep ==
  ASSUME KeysInv, [Next]_vars, ~prompt
  PROVE  PromptInv' /\ UNCHANGED <<prompt, keys>>
<1>1. keys = <<>>
  BY DEF KeysInv, PromptInv
<1>2. prompt' = prompt /\ keys' = keys
  BY <1>1
  DEF Next, Step, Loop, Environment, Press, TypeByte, EndOfInput, Signal, ProgramWrites,
      ProgramDies, OthersChange, PollInterrupted, PollReturns, ShowOutput, InputReady,
      StdinClosed, ProgramWaitedFor, CheckProgram, ReadByte, ReadNothing, EscapeFollowed,
      EscapeAlone, PushByte, HandleKey, vars, history
<1> QED BY <1>1, <1>2 DEF PromptInv

\* A key is pressed.
LEMMA PressStep ==
  ASSUME KeysInv, NEW k \in Keys, Press(k)
  PROVE  PromptInv' /\ Pipe!Press(k)
<1>1. keys \in Seq(Keys) /\ pending \in Seq(Bytes) /\ Codes[k] \in Seq(Bytes) /\ TypeOK
  BY CodesAssumption DEF KeysInv, LoopInv, TypeOK
<1>2. /\ prompt /\ prompt' = prompt /\ stdin = "open" /\ pc' = pc /\ since' = since
      /\ pending' = pending \o Codes[k] /\ keys' = Append(keys, k) /\ termkey' = termkey /\ c' = c
      /\ key' = key /\ input' = input
  BY DEF Press, MayType, parser
<1>3. /\ Len(keys') = Len(keys) + 1 /\ Len(keys) \in Nat
      /\ \A i \in 1..Len(keys): keys'[i] = keys[i]
      /\ keys # <<>> => Len(keys) >= 1 /\ Tail(keys') = Append(Tail(keys), k)
  <2>1. /\ Len(keys') = Len(keys) + 1 /\ Len(keys) \in Nat
        /\ \A i \in 1..Len(keys): keys'[i] = keys[i]
    BY <1>1, <1>2, AppendProperties, LenProperties
  <2>2. ASSUME keys # <<>> PROVE Len(keys) >= 1 /\ Tail(keys') = Append(Tail(keys), k)
    BY <1>1, <1>2, <2>2
  <2> QED BY <2>1, <2>2
<1>4. pc = "handle" => keys # <<>>
  BY <1>2 DEF KeysInv, PromptInv
<1>5. PipeKeys' = Append(PipeKeys, k) /\ PipeKeys \in Seq(Keys)
  <2>1. CASE Handling
    <3>1. keys # <<>> /\ keys' # <<>> /\ Handling'
      BY <1>2, <1>3, <1>4, <2>1, EmptySeq DEF Handling
    <3>2. Tail(keys) \in Seq(Keys)
      BY <1>1, <3>1, HeadTailProperties
    <3> QED BY <1>3, <2>1, <3>1, <3>2 DEF PipeKeys
  <2>2. CASE ~Handling
    BY <1>1, <1>2, <2>2 DEF PipeKeys, Handling
  <2> QED BY <2>1, <2>2
<1>6. Pipe!Send(Codes[k])
  BY <1>1, <1>2, SendStep DEF parser
<1>7. PipeQueue' = PipeQueue \o Codes[k]
  BY <1>6 DEF Pipe!Send
<1>8. PipeQueue \in Seq(Bytes)
  BY ConcatParts DEF PipeQueue, KeysInv, LoopInv, TypeOK
<1>9. Typed(PipeKeys', PipeQueue')
  <2>1. Typed(PipeKeys, PipeQueue)
    BY <1>2 DEF KeysInv, PromptInv
  <2> QED BY <1>5, <1>7, <1>8, <2>1, TypedPress
<1>10. \A i \in 1..Len(keys') - 1: keys'[i] # Escape
  <2>1. \A i \in 1..Len(keys) - 1: keys[i] # Escape
    BY <1>2 DEF KeysInv, PromptInv
  <2>2. keys # <<>> => keys[Len(keys)] # Escape
    BY DEF Press
  <2> QED BY <1>3, <2>1, <2>2, EmptySeq
<1>11. pc = "handle" => keys' # <<>> /\ termkey' = <<>>
  BY <1>2, <1>3, EmptySeq DEF KeysInv, PromptInv
<1>12. ASSUME pc # "handle" PROVE Parsing'
  <2>1. Parsing
    BY <1>2, <1>12 DEF KeysInv, PromptInv
  <2>2. since # <<>> => keys # <<>> /\ keys'[1] = keys[1] /\ keys' # <<>>
    BY <1>3, <2>1, EmptySeq DEF Parsing
  <2>3. ~Stuck
    BY <1>2 DEF Stuck
  <2> QED BY <1>2, <2>1, <2>2, <2>3 DEF Parsing
<1>13. PromptInv'
  BY <1>2, <1>9, <1>10, <1>11, <1>12 DEF PromptInv
<1> QED BY <1>2, <1>5, <1>6, <1>13 DEF Pipe!Press

\* What the keys and the pipe of keys do when only the place in the loop changes.
LEMMA RestStep ==
  ASSUME KeysInv, prompt,
         UNCHANGED <<prompt, pending, key, input, c, termkey, since, keys>>,
         \/ pc' = pc
         \/ pc \in {"poll", "check", "read", "wait"} /\ pc' \in {"poll", "check", "read", "wait"},
         stdin' = stdin \/ stdin = "open"
  PROVE  PromptInv' /\ UNCHANGED Pipe!vars
<1>1. UNCHANGED <<PipeKeys, PipeQueue, PipeDelivered>>
  BY DEF PipeKeys, PipeQueue, PipeDelivered, Handling
<1>2. Typed(PipeKeys', PipeQueue')
  BY <1>1 DEF KeysInv, PromptInv
<1>3. Stuck => Stuck'
  BY DEF Stuck
<1>4. Parsing => Parsing'
  BY <1>3 DEF Parsing
<1>5. PromptInv'
  BY <1>2, <1>4 DEF PromptInv, KeysInv
<1> QED BY <1>1, <1>5 DEF Pipe!vars, Pipe!bytes

\* An Escape is the last key: behind it nothing is typed.
LEMMA EscapeIsLast ==
  ASSUME KeysInv, prompt, pc # "handle", since # <<>>, Len(since) = Len(Codes[keys[1]]),
         keys[1] = Escape
  PROVE  pending = <<>>
<1>1. keys \in Seq(Keys) /\ keys # <<>> /\ Typed(Tail(keys), pending)
  BY FirstKey, WholeKey
<1>2. Len(keys) = 1
  <2>1. Len(keys) \in Nat /\ Len(keys) >= 1
    BY <1>1, EmptySeq, LenProperties
  <2>2. \A i \in 1..Len(keys) - 1: keys[i] # Escape
    BY DEF KeysInv, PromptInv
  <2>3. ~(Len(keys) > 1)
    <3> SUFFICES ASSUME Len(keys) > 1 PROVE FALSE
      OBVIOUS
    <3>1. 1 \in 1..Len(keys) - 1
      BY <2>1
    <3> QED BY <2>2, <3>1
  <2> DEFINE l == Len(keys)
  <2>4. l \in Nat /\ l >= 1 /\ ~(l > 1)
    BY <2>1, <2>3
  <2> HIDE DEF l
  <2>5. l = 1
    BY <2>4
  <2> QED BY <2>5 DEF l
<1>3. Tail(keys) = <<>>
  <2>1. Tail(keys) \in Seq(Keys) /\ Len(Tail(keys)) = 0
    BY <1>1, <1>2, HeadTailProperties
  <2> QED BY <2>1, EmptySeq
<1> QED BY <1>1, <1>3, TypedNothing DEF KeysInv, LoopInv, TypeOK

\* Another byte is there, or reads as if it were.
LEMMA FollowedStep ==
  ASSUME KeysInv, prompt, EscapeFollowed
  PROVE  PromptInv' /\ UNCHANGED Pipe!vars
<1>1. /\ pc = "escape" /\ pc' = "push" /\ UNCHANGED <<prompt, stdin, pending, key, input, c, termkey, since, keys>>
      /\ pending # <<>> \/ stdin = "eof"
  BY DEF EscapeFollowed, StdinReady, terminal, parser, history
<1>2. UNCHANGED <<PipeKeys, PipeQueue, PipeDelivered>>
  BY <1>1 DEF PipeKeys, PipeQueue, PipeDelivered, Handling
<1>3. Parsing
  BY <1>1 DEF KeysInv, PromptInv
<1>4. since # <<>> /\ Len(since) = Len(Codes[keys[1]]) /\ keys[1] = Escape => Stuck'
  BY <1>1, EscapeIsLast DEF Stuck
<1>5. Parsing'
  BY <1>1, <1>3, <1>4 DEF Parsing
<1>6. PromptInv'
  BY <1>1, <1>2, <1>5 DEF KeysInv, PromptInv
<1> QED BY <1>1, <1>2, <1>6 DEF Pipe!vars, Pipe!bytes

\* A byte is read: the first key's next one.
LEMMA ReadKeyStep ==
  ASSUME KeysInv, prompt, ReadByte
  PROVE  PromptInv' /\ UNCHANGED Pipe!vars
<1>1. TypeOK /\ since \in Seq(Bytes) /\ pending \in Seq(Bytes) /\ keys \in Seq(Keys)
  BY DEF KeysInv, LoopInv, TypeOK
<1>2. /\ pc = "read" /\ pc' \in {"escape", "push"} /\ pending # <<>>
      /\ UNCHANGED <<prompt, stdin, termkey, key, keys>>
      /\ c' = Head(pending) /\ since' = Append(since, Head(pending))
      /\ pc' = "escape" => c' = Esc
      /\ c' = Esc => pc' = "escape"
  BY DEF ReadByte
<1>3. UNCHANGED Pipe!bytes
  BY <1>1, ReadStep
<1>4. PipeKeys = keys /\ PipeKeys' = keys
  BY <1>2 DEF PipeKeys, Handling
<1>5. Typed(keys, PipeQueue) /\ PipeQueue = since \o pending
  BY <1>2 DEF KeysInv, PromptInv, PipeKeys, PipeQueue, Handling
<1>6. /\ PipeQueue \in Seq(Bytes) /\ Len(PipeQueue) = Len(since) + Len(pending)
      /\ Len(since) \in Nat /\ Len(pending) \in Nat \ {0}
  BY <1>1, <1>2, <1>5, ConcatParts, EmptySeq, LenProperties
<1>7. keys # <<>>
  <2>1. PipeQueue # <<>>
    BY <1>6, EmptySeq
  <2> QED BY <1>5, <1>6, <2>1, TypedNothing
<1>8. Len(Codes[keys[1]]) \in Nat /\ Len(since) < Len(Codes[keys[1]])
  <2>1. Len(Codes[keys[1]]) \in 1..Len(PipeQueue)
    BY <1>1, <1>5, <1>6, <1>7, TypedFirst
  <2>2. CASE since = <<>>
    BY <2>1, <2>2, EmptySeq
  <2>3. CASE since # <<>>
    <3>1. Parsing /\ ~Stuck
      BY <1>2 DEF KeysInv, PromptInv, Stuck
    <3> QED BY <1>2, <1>6, <2>1, <2>3, <3>1 DEF Parsing
  <2> QED BY <2>2, <2>3
<1>9. Len(since') = Len(since) + 1 /\ since' # <<>>
  <2>1. Head(pending) \in Bytes
    BY <1>1, <1>2, HeadTailProperties
  <2> QED BY <1>1, <1>2, <2>1, AppendProperties
<1>10. since = termkey
  BY <1>2 DEF KeysInv, PromptInv, Parsing
<1>11. Parsing'
  <2>1. Len(since') <= Len(Codes[keys[1]])
    BY <1>6, <1>8, <1>9
  <2>2. ASSUME Len(since') = Len(Codes[keys[1]]), keys[1] = Escape PROVE pc' = "escape"
    <3>1. Codes[keys[1]] = <<Esc>>
      BY <2>2, CodesAssumption
    <3>2. PipeQueue[1] = Esc
      <4>1. /\ Len(Codes[keys[1]]) = 1 /\ Codes[keys[1]][1] = Esc
        BY <3>1
      <4>2. \A j \in 1..Len(Codes[keys[1]]): PipeQueue[j] = Codes[keys[1]][j]
        BY <1>1, <1>5, <1>6, <1>7, TypedFirst
      <4>3. 1 \in 1..Len(Codes[keys[1]])
        BY <4>1
      <4> QED BY <4>1, <4>2, <4>3
    <3>3. Len(since) = 0
      <4>1. Len(Codes[keys[1]]) = 1
        BY <3>1
      <4>2. Len(since) + 1 = 1
        BY <1>9, <2>2, <4>1
      <4> QED BY <1>6, <4>2
    <3>4. since = <<>>
      BY <1>1, <3>3, EmptySeq
    <3>5. PipeQueue = pending
      BY <1>1, <1>5, <3>4, ConcatEmptySeq
    <3> QED BY <1>1, <1>2, <3>2, <3>5
  <2> QED BY <1>2, <1>7, <1>9, <1>10, <2>1, <2>2 DEF Parsing
<1>12. Typed(PipeKeys', PipeQueue')
  BY <1>3, <1>4, <1>5 DEF Pipe!bytes
<1>13. PromptInv'
  BY <1>2, <1>11, <1>12 DEF KeysInv, PromptInv
<1> QED BY <1>2, <1>3, <1>4, <1>13 DEF Pipe!vars

\* The first key, whole, goes to handle_key().
LEMMA KeyDelivered ==
  ASSUME KeysInv, prompt, pc \in {"escape", "push"}, pc' = "handle",
         UNCHANGED <<prompt, pending, since, input, keys>>,
         since # <<>>, Len(since) = Len(Codes[keys[1]]), key' = keys[1], termkey' = <<>>
  PROVE  PromptInv' /\ Pipe!KeyNext
<1>1. PICK n \in 1..Len(PipeQueue): Pipe!Deliver(n)
  BY DeliverStep DEF KeysInv
<1>2. keys # <<>> /\ keys \in Seq(Keys)
  BY FirstKey
<1>3. since = Codes[keys[1]] /\ input = since /\ Typed(Tail(keys), pending)
  BY WholeKey
<1>4. /\ PipeKeys = keys /\ PipeKeys' = Tail(keys) /\ PipeQueue' = pending
      /\ PipeDelivered' = {[key |-> keys[1], raw |-> Codes[keys[1]]]}
  BY <1>2, <1>3 DEF PipeKeys, PipeQueue, PipeDelivered, Handling
<1>5. Head(keys) = keys[1]
  BY <1>2, HeadTailProperties
<1>6. Pipe!DeliverKey(n)
  BY <1>1, <1>2, <1>4, <1>5 DEF Pipe!DeliverKey
<1>7. PromptInv'
  BY <1>2, <1>3, <1>4 DEF KeysInv, PromptInv
<1> QED BY <1>6, <1>7 DEF Pipe!KeyNext

\* An Escape that nothing follows is the key of that name.
LEMMA AloneStep ==
  ASSUME KeysInv, prompt, EscapeAlone
  PROVE  PromptInv' /\ Pipe!KeyNext
<1>1. /\ pc = "escape" /\ pc' = "handle" /\ key' = Escape /\ termkey' = termkey
      /\ UNCHANGED <<prompt, pending, since, input, keys>>
      /\ pending = <<>> /\ stdin # "eof"
  BY DEF EscapeAlone, StdinReady, terminal, history
<1>2. since # <<>> /\ since \in Seq(Bytes) /\ Parsing
  BY <1>1 DEF KeysInv, LoopInv, ByteRead, PromptInv, TypeOK
<1>3. since = Append(termkey, c) /\ c = Esc
  BY <1>1, <1>2 DEF Parsing
<1>4. Len(since) = Len(Codes[keys[1]])
  <2>1. Len(pending) = 0
    BY <1>1, EmptySeq
  <2> QED BY <1>1, <1>2, <2>1, FirstKey, LenProperties
<1>5. since = Codes[keys[1]] /\ keys[1] \in Keys
  BY <1>1, <1>2, <1>4, FirstKey, WholeKey
<1>6. since[Len(since)] = Esc
  <2>1. termkey \in Seq(Bytes \cup {Nul}) /\ c \in Bytes \cup {Nul}
    BY DEF KeysInv, LoopInv, TypeOK
  <2>2. Len(since) = Len(termkey) + 1 /\ Append(termkey, c)[Len(termkey) + 1] = c
    BY <1>3, <2>1, AppendProperties
  <2> QED BY <1>3, <2>2
<1>7. keys[1] = Escape
  BY <1>5, <1>6, DecodeAssumption
<1>8. termkey = <<>>
  <2>1. termkey \in Seq(Bytes \cup {Nul}) /\ c \in Bytes \cup {Nul}
    BY DEF KeysInv, LoopInv, TypeOK
  <2>2. Len(since) = Len(termkey) + 1
    BY <1>3, <2>1, AppendProperties
  <2>3. Len(since) = 1
    <3>1. since = <<Esc>>
      BY <1>5, <1>7, CodesAssumption
    <3> QED BY <3>1
  <2>4. Len(termkey) = 0
    <3>1. Len(termkey) \in Nat
      BY <2>1, LenProperties
    <3>2. Len(termkey) + 1 = 1
      BY <2>2, <2>3
    <3> QED BY <3>1, <3>2
  <2> QED BY <2>1, <2>4, EmptySeq
<1> QED BY <1>1, <1>2, <1>4, <1>7, <1>8, KeyDelivered

\* termkey gets a byte: the first key's last one makes the key, any other makes none.
LEMMA PushKeyStep ==
  ASSUME KeysInv, prompt, PushByte
  PROVE  PromptInv' /\ KeyMove
<1> DEFINE k == keys[1]
<1>1. /\ pc = "push" /\ c' = Nul
      /\ UNCHANGED <<prompt, stdin, pending, since, input, keys>>
  BY DEF PushByte, terminal, history
<1>2. since # <<>> /\ since \in Seq(Bytes) /\ Len(since) \in Nat /\ Parsing
  BY <1>1, LenProperties DEF KeysInv, LoopInv, ByteRead, PromptInv, TypeOK
<1>3. since = Append(termkey, c)
  BY <1>1, <1>2 DEF Parsing
<1>4. /\ keys # <<>> /\ k \in Keys /\ Codes[k] \in Seq(Bytes)
      /\ Len(since) \in 1..Len(Codes[k]) /\ Len(Codes[k]) \in Nat
      /\ \A j \in 1..Len(since): since[j] = Codes[k][j]
  BY <1>1, <1>2, FirstKey, LenProperties
<1>5. IF Decode(since) \in 1..Len(since)
      THEN /\ key' = Remap(Name(SubSeq(since, 1, Decode(since))))
           /\ termkey' = SubSeq(since, Decode(since) + 1, Len(since))
           /\ pc' = "handle"
      ELSE /\ termkey' = since
           /\ pc' = "poll"
           /\ key' = key
  BY <1>3 DEF PushByte
<1> HIDE DEF k
<1>6. CASE Len(since) = Len(Codes[k]) /\ k # Escape
  <2>1. since = Codes[k]
    BY <1>1, <1>2, <1>6, WholeKey DEF k
  <2>2. Decode(since) = Len(since) /\ Remap(Name(since)) = k
    BY <1>4, <1>6, <2>1, DecodeAssumption
  <2>3. Decode(since) \in 1..Len(since)
    BY <1>2, <1>4, <2>2
  <2>4. pc' = "handle" /\ key' = Remap(Name(SubSeq(since, 1, Len(since))))
        /\ termkey' = SubSeq(since, Len(since) + 1, Len(since))
    BY <1>5, <2>2, <2>3
  <2>5. SubSeq(since, 1, Len(since)) = since
    <3>1. \A i \in 1..Len(since): since[i] \in Bytes
      BY <1>2, ElementOfSeq
    <3>2. /\ SubSeq(since, 1, Len(since)) \in Seq(Bytes)
          /\ Len(SubSeq(since, 1, Len(since))) = Len(since)
          /\ \A i \in 1..Len(since): SubSeq(since, 1, Len(since))[i] = since[i]
      BY <1>2, <3>1, SubSeqProperties
    <3> QED BY <1>2, <3>2, SeqEqual
  <2>6. SubSeq(since, Len(since) + 1, Len(since)) = <<>>
    <3>1. \A i \in Len(since) + 1..Len(since): since[i] \in Bytes
      BY <1>2
    <3>2. /\ SubSeq(since, Len(since) + 1, Len(since)) \in Seq(Bytes)
          /\ Len(SubSeq(since, Len(since) + 1, Len(since))) = 0
      BY <1>2, <3>1, SubSeqProperties
    <3> QED BY <3>2, EmptySeq
  <2>7. key' = k /\ termkey' = <<>>
    BY <2>2, <2>4, <2>5, <2>6
  <2> QED BY <1>1, <1>2, <1>6, <2>4, <2>7, KeyDelivered DEF k, KeyMove
<1>7. CASE Len(since) # Len(Codes[k]) \/ k = Escape
  <2>1. Decode(since) = 0
    <3>1. CASE k = Escape
      <4>1. Codes[k] = <<Esc>>
        BY <3>1, CodesAssumption
      <4>2. Len(Codes[k]) = 1
        BY <4>1
      <4>3. Len(since) = Len(Codes[k])
        BY <1>2, <1>4, <4>2
      <4>4. since = <<Esc>>
        BY <1>1, <1>2, <4>1, <4>3, WholeKey DEF k
      <4> QED BY <4>4, DecodeAssumption
    <3>2. CASE k # Escape
      <4>1. Len(since) \in 1..Len(Codes[k]) - 1
        BY <1>2, <1>4, <1>7, <3>2
      <4>2. since = SubSeq(Codes[k], 1, Len(since))
        <5>1. \A i \in 1..Len(since): Codes[k][i] \in Bytes
          BY <1>2, <1>4, ElementOfSeq
        <5>2. /\ SubSeq(Codes[k], 1, Len(since)) \in Seq(Bytes)
              /\ Len(SubSeq(Codes[k], 1, Len(since))) = Len(since)
              /\ \A i \in 1..Len(since): SubSeq(Codes[k], 1, Len(since))[i] = Codes[k][i]
          BY <1>2, <5>1, SubSeqProperties
        <5> QED BY <1>2, <1>4, <5>2, SeqEqual
      <4>3. Decode(SubSeq(Codes[k], 1, Len(since))) = 0
        BY <1>4, <3>2, <4>1, DecodeAssumption
      <4> QED BY <4>2, <4>3
    <3> QED BY <3>1, <3>2
  <2>2. termkey' = since /\ pc' = "poll" /\ key' = key
    BY <1>2, <1>5, <2>1
  <2>3. UNCHANGED <<PipeKeys, PipeQueue, PipeDelivered>>
    BY <1>1, <2>2 DEF PipeKeys, PipeQueue, PipeDelivered, Handling
  <2>4. Len(since) = Len(Codes[k]) => Stuck
    BY <1>1, <1>2, <1>7 DEF Parsing, k
  <2>5. Stuck => Stuck'
    BY <1>1 DEF Stuck
  <2>6. Parsing'
    BY <1>1, <1>2, <2>2, <2>4, <2>5 DEF Parsing, k
  <2>7. PromptInv'
    BY <1>1, <2>2, <2>3, <2>6 DEF KeysInv, PromptInv
  <2> QED BY <1>1, <2>3, <2>7 DEF Pipe!vars, Pipe!bytes, KeyMove
<1> QED BY <1>6, <1>7

\* handle_key() returns: the next key is the first one, and nothing of it is read.
LEMMA ReturnKeyStep ==
  ASSUME KeysInv, prompt, HandleKey
  PROVE  PromptInv' /\ KeyMove
<1>1. /\ pc = "handle" /\ pc' = "poll" /\ since' = <<>> /\ termkey' = termkey
      /\ keys' = (IF keys = <<>> THEN <<>> ELSE Tail(keys))
      /\ UNCHANGED <<prompt, stdin, pending>>
  BY DEF HandleKey, terminal
<1>2. keys # <<>> /\ termkey = <<>> /\ Typed(PipeKeys, PipeQueue)
      /\ \A i \in 1..Len(keys) - 1: keys[i] # Escape
  BY <1>1 DEF KeysInv, PromptInv
<1>3. keys \in Seq(Keys) /\ Len(keys) \in Nat
  BY LenProperties DEF KeysInv, LoopInv, TypeOK
<1>4. keys' = Tail(keys)
  BY <1>1, <1>2
<1>5. PipeKeys = Tail(keys) /\ PipeKeys' = Tail(keys)
  BY <1>1, <1>2, <1>4 DEF PipeKeys, Handling
<1>6. Pipe!Return
  BY ReturnStep DEF KeysInv, LoopInv
<1>7. Typed(PipeKeys', PipeQueue')
  BY <1>2, <1>5, <1>6 DEF Pipe!Return
<1>8. \A i \in 1..Len(keys') - 1: keys'[i] # Escape
  <2>1. Len(Tail(keys)) = Len(keys) - 1 /\ \A i \in 1..Len(Tail(keys)): Tail(keys)[i] = keys[i + 1]
    BY <1>2, <1>3, HeadTailProperties
  <2>2. ASSUME NEW i \in 1..Len(keys) - 1 - 1 PROVE Tail(keys)[i] # Escape
    <3>1. i \in 1..Len(keys) - 1 /\ i + 1 \in 1..Len(keys) - 1
      BY <1>3
    <3> QED BY <1>2, <2>1, <3>1
  <2> QED BY <1>4, <2>1, <2>2
<1>9. Parsing'
  BY <1>1, <1>2 DEF Parsing
<1>10. PromptInv'
  BY <1>1, <1>7, <1>8, <1>9 DEF PromptInv
<1> QED BY <1>1, <1>5, <1>6, <1>10 DEF Pipe!KeyNext, KeyMove

\* Every step of a prompt terminal's loop is a step of the pipe of keys, or none.
LEMMA PromptStep ==
  ASSUME KeysInv, [Next]_vars, prompt
  PROVE  PromptInv' /\ KeyMove
<1>1. ASSUME NEW k \in Keys, Press(k) PROVE PromptInv' /\ KeyMove
  BY <1>1, PressStep DEF Pipe!KeyNext, KeyMove
<1>2. CASE ReadByte
  BY <1>2, ReadKeyStep DEF KeyMove
<1>3. CASE EscapeFollowed
  BY <1>3, FollowedStep DEF KeyMove
<1>4. CASE EscapeAlone
  BY <1>4, AloneStep DEF KeyMove
<1>5. CASE PushByte
  BY <1>5, PushKeyStep
<1>6. CASE HandleKey
  BY <1>6, ReturnKeyStep
<1>7. CASE \/ PollInterrupted \/ PollReturns \/ ShowOutput \/ InputReady \/ StdinClosed
           \/ CheckProgram \/ ReadNothing
  <2>1. /\ UNCHANGED <<prompt, pending, key, input, c, termkey, since, keys>>
        /\ pc \in {"poll", "check", "read", "wait"} /\ pc' \in {"poll", "check", "read", "wait"}
        /\ stdin' = stdin
    BY <1>7
    DEF PollInterrupted, PollReturns, ShowOutput, InputReady, StdinClosed, CheckProgram,
        ReadNothing, terminal, parser, history
  <2> QED BY <2>1, RestStep DEF KeyMove
<1>8. CASE EndOfInput \/ Signal \/ ProgramWrites \/ ProgramDies \/ OthersChange
             \/ ProgramWaitedFor \/ UNCHANGED vars
  <2>1. /\ UNCHANGED <<prompt, pending, key, input, c, termkey, since, keys>>
        /\ pc' = pc /\ (stdin' = stdin \/ stdin = "open")
    BY <1>8
    DEF EndOfInput, Signal, ProgramWrites, ProgramDies, OthersChange, ProgramWaitedFor, vars,
        terminal, parser, history
  <2> QED BY <2>1, RestStep DEF KeyMove
<1>9. ASSUME NEW b \in Bytes, TypeByte(b) PROVE FALSE
  BY <1>9 DEF TypeByte
<1> QED BY <1>1, <1>2, <1>3, <1>4, <1>5, <1>6, <1>7, <1>8, <1>9
        DEF Next, Step, Loop, Environment

\* Every step of the loop of any other terminal is a step of the pipe of bytes, and
\* so of the pipe of keys, which asks no more of it.
LEMMA AnyStep ==
  ASSUME KeysInv, [Next]_vars, ~prompt
  PROVE  KeyMove
<1>1. UNCHANGED <<prompt, keys>>
  BY NotPromptStep
<1>2. keys = <<>>
  BY DEF KeysInv, PromptInv
<1>3. UNCHANGED PipeKeys
  BY <1>1, <1>2 DEF PipeKeys
<1>4. LoopInv /\ TypeOK
  BY DEF KeysInv, LoopInv
<1>5. UNCHANGED Pipe!bytes => KeyMove
  BY <1>1, <1>3 DEF KeyMove, Pipe!vars
<1>6. ASSUME NEW b \in Bytes, TypeByte(b) PROVE KeyMove
  <2>1. <<b>> \in Seq(Bytes) /\ Append(pending, b) = pending \o <<b>>
    BY <1>4, AppendIsConcat DEF TypeOK
  <2>2. Pipe!Send(<<b>>)
    BY <1>4, <1>6, <2>1, SendStep DEF TypeByte, history
  <2> QED BY <1>1, <1>3, <2>2 DEF Pipe!TypeByte, Pipe!KeyNext, KeyMove
<1>7. CASE ReadByte
  BY <1>4, <1>5, <1>7, ReadStep
<1>8. CASE HandleKey
  BY <1>1, <1>3, <1>4, <1>8, ReturnStep DEF Pipe!KeyNext, KeyMove
<1>9. CASE EscapeAlone \/ (PushByte /\ pc' = "handle")
  <2>1. pc \in {"escape", "push"} /\ pc' = "handle" /\ UNCHANGED <<pending, since, input>>
    BY <1>9 DEF EscapeAlone, PushByte, terminal, history
  <2>2. PICK n \in 1..Len(PipeQueue): Pipe!Deliver(n)
    BY <1>4, <2>1, DeliverStep
  <2>3. Pipe!DeliverKey(n)
    BY <1>1, <1>3, <2>2 DEF Pipe!DeliverKey
  <2> QED BY <2>3 DEF Pipe!KeyNext, KeyMove
<1>10. CASE PushByte /\ pc' # "handle"
  <2>1. pc # "handle" /\ UNCHANGED <<pending, since, key, input>>
    BY <1>10 DEF PushByte, terminal, history
  <2> QED BY <1>5, <1>10, <2>1, StutterStep
<1>11. CASE \/ PollInterrupted \/ PollReturns \/ ShowOutput \/ InputReady \/ StdinClosed
            \/ CheckProgram \/ ReadNothing \/ EscapeFollowed
  <2>1. pc # "handle" /\ pc' # "handle" /\ UNCHANGED <<pending, since, key, input>>
    BY <1>11
    DEF PollInterrupted, PollReturns, ShowOutput, InputReady, StdinClosed, CheckProgram,
        ReadNothing, EscapeFollowed, terminal, parser, history
  <2> QED BY <1>5, <2>1, StutterStep
<1>12. CASE EndOfInput \/ Signal \/ ProgramWrites \/ ProgramDies \/ OthersChange
              \/ ProgramWaitedFor \/ UNCHANGED vars
  <2>1. UNCHANGED <<pc, pending, since, key, input>>
    BY <1>12
    DEF EndOfInput, Signal, ProgramWrites, ProgramDies, OthersChange, ProgramWaitedFor, vars,
        terminal, parser, history
  <2> QED BY <1>5, <2>1, StillStep
<1>13. ASSUME NEW k \in Keys, Press(k) PROVE FALSE
  BY <1>13 DEF Press
<1> QED BY <1>6, <1>7, <1>8, <1>9, <1>10, <1>11, <1>12, <1>13
        DEF Next, Step, Loop, Environment

\* The loop implements the pipe of keys: if the bytes of a key come together and
\* nothing right after a lone Escape, the keys that reach handle_key() are the keys
\* of the keyboard, in their order, and each has its own bytes as its input.
THEOREM KeyPipeCorrect == Spec => PipesKeys
<1>1. Init => KeysInv
  <2>1. Init => TypeOK
    BY LoopTypeInit
  <2> QED BY <2>1, LoopInvInit, PromptInit DEF LoopInv, KeysInv
<1>2. KeysInv /\ [Next]_vars => KeysInv'
  <2>1. LoopInv /\ [Next]_vars => LoopInv'
    BY LoopTypeStep, InputStep, ByteReadStep, SnapshotStep DEF LoopInv
  <2> QED BY <2>1, PromptStep, NotPromptStep DEF KeysInv
<1>3. KeysInv /\ [Next]_vars => [Pipe!KeyNext]_Pipe!vars
  BY PromptStep, AnyStep DEF KeyMove
<1>4. Init => Pipe!KeyInit
  <2>1. Init => prompt \in BOOLEAN /\ PipeKeys = <<>>
    BY DEF Init, PipeKeys, Handling
  <2> QED BY <2>1, PipeInit DEF Pipe!KeyInit
<1> QED BY <1>1, <1>2, <1>3, <1>4, PTL DEF Spec, PipesKeys, Pipe!KeySpec
=============================================================================
