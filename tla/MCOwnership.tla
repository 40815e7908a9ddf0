----------------------------- MODULE MCOwnership -----------------------------
(***************************************************************************)
(* A few lines that bind, unbind and replace one another's commands.       *)
(***************************************************************************)
EXTENDS Ownership, SequencesExt

MCKeyType == [a |-> "char", b |-> "sym"]

Plain(op) == [op |-> op, keys |-> <<>>, types |-> <<>>, subs |-> <<>>]
With(op, subs) == [Plain(op) EXCEPT !.subs = subs]
Bind(keys, text) == [With("bind", <<text>>) EXCEPT !.keys = keys]
Unbind(keys) == [Plain("unbind") EXCEPT !.keys = keys]
Unbound(types, text) == [With("unbound", <<text>>) EXCEPT !.types = types]

A == <<"a">>
AA == <<"a", "a">>
AAB == <<"a", "a", "b">>
BB == <<"b", "b">>

MCProgram == [
  write |-> Plain("other"),
  pass |-> Plain("pass"),
  readline |-> Plain("evaluate"),
  rehandle |-> Plain("rehandle"),
  alone |-> Plain("lost"),
  bindA |-> Bind(A, "write"),
  bindAA |-> Bind(AA, "readline"),
  bindAAB |-> Bind(AAB, "write"),
  bindBB |-> Bind(BB, "readline"),
  unbindA |-> Unbind(A),
  unbindAA |-> Unbind(AA),
  unbindAAB |-> Unbind(AAB),
  cut |-> With("group", <<"rehandle", "rehandle", "unbindAAB">>),
  unboundAny |-> Unbound(<<"char", "sym">>, "cut"),
  unboundPass |-> Unbound(<<"sym">>, "pass"),
  group |-> With("group", <<"bindA", "write">>),
  rebindA |-> Bind(A, "group"),
  binder |-> Bind(A, "bindBB"),
  both |-> With("group", <<"unboundAny", "unboundPass">>) ]
MCTexts == DOMAIN MCProgram
MCLines == {"bindA", "bindAA", "bindAAB", "bindBB", "unbindA", "unbindAA", "unbindAAB", "unboundAny",
            "rebindA", "binder", "both"}
\* Their commands are written as groups of one.
MCBraced == {"bindAAB", "bindBB"}

\* What the parser allocates for a line: the command, then those in it, then what it
\* loses.
Flat[text \in MCTexts] ==
  FoldLeft(LAMBDA tree, sub:
             LET base == Len(tree)
                 Moved(c) == [c EXCEPT !.kids = [j \in DOMAIN @ |-> base + @[j]]]
             IN [tree EXCEPT ![1].kids = Append(@, base + 1)]
                  \o [i \in DOMAIN Flat[sub] |-> Moved(Flat[sub][i])],
           << [text |-> text, kids |-> <<>>] >>, MCProgram[text].subs)
    \o (IF text \in MCBraced THEN << [text |-> "alone", kids |-> <<>>] >> ELSE <<>>)
MCTree == [line \in MCLines |-> Flat[line]]
=============================================================================
