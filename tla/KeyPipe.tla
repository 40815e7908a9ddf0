------------------------------ MODULE KeyPipe ------------------------------
(***************************************************************************)
(* What main()'s loop promises.  ByteSpec: the bytes of the terminal reach *)
(* handle_key() in order, each in exactly one key's input.  KeySpec: and   *)
(* if the terminal sends the bytes of a key together and nothing right     *)
(* after a lone Escape (`prompt'), the keys handled are the keys pressed.  *)
(*                                                                         *)
(* The one loss is the input buffer's: when InputBufferSize bytes come     *)
(* without completing a key, only those since its last wrap are kept.      *)
(***************************************************************************)
EXTENDS Integers, Sequences

CONSTANTS
  Keys,             \* the keys the user can press
  Bytes,            \* what a terminal can send
  Codes,            \* the bytes it sends for each key
  InputBufferSize   \* the range of input_len

VARIABLES
  queue,      \* the bytes sent and not handled
  delivered,  \* {}, or the key being handled with the input that belongs to it
  prompt,     \* whether the terminal and the user keep to the timing
  keys        \* the keys pressed and not handled, if prompt

bytes == <<queue, delivered>>
vars  == <<bytes, prompt, keys>>

-----------------------------------------------------------------------------
Send(s) == queue' = queue \o s /\ UNCHANGED delivered

\* What the input buffer holds after the bytes s: all, or those since the wrap.
Kept(s) == SubSeq(s, Len(s) - (Len(s) % InputBufferSize) + 1, Len(s))

\* A key goes to handle_key() with the next n bytes as its input.
Deliver(n) ==
  /\ delivered = {}
  /\ queue' = SubSeq(queue, n + 1, Len(queue))
  /\ \E d \in delivered': d.raw = Kept(SubSeq(queue, 1, n)) /\ delivered' = {d}

\* handle_key() returns.
Return == delivered # {} /\ delivered' = {} /\ UNCHANGED queue

ByteInit == queue = <<>> /\ delivered = {}

ByteNext ==
  \/ \E k \in Keys: Send(Codes[k])
  \/ \E b \in Bytes: Send(<<b>>)
  \/ \E n \in 1..Len(queue): Deliver(n)
  \/ Return

ByteSpec == ByteInit /\ [][ByteNext]_bytes

-----------------------------------------------------------------------------
Press(k) ==
  /\ prompt
  /\ Send(Codes[k])
  /\ keys' = Append(keys, k)
  /\ UNCHANGED prompt

TypeByte(b) ==
  /\ ~prompt
  /\ Send(<<b>>)
  /\ UNCHANGED <<prompt, keys>>

\* The next key with its own bytes, if the terminal is prompt.
DeliverKey(n) ==
  /\ Deliver(n)
  /\ IF prompt
     THEN /\ keys # <<>>
          /\ delivered' = {[key |-> Head(keys), raw |-> Codes[Head(keys)]]}
          /\ keys' = Tail(keys)
     ELSE UNCHANGED keys
  /\ UNCHANGED prompt

KeyInit == ByteInit /\ prompt \in BOOLEAN /\ keys = <<>>

KeyNext ==
  \/ \E k \in Keys: Press(k)
  \/ \E b \in Bytes: TypeByte(b)
  \/ \E n \in 1..Len(queue): DeliverKey(n)
  \/ Return /\ UNCHANGED <<prompt, keys>>

KeySpec == KeyInit /\ [][KeyNext]_vars
=============================================================================
