------------------------------ MODULE MCChains ------------------------------
(***************************************************************************)
(* KeyDispatch under a configuration written to make the commands meet:    *)
(* mask inside a chain, rehandle from a chain and from itself, mode -p,    *)
(* groups on commands that fail, counts in front of all of them, commands  *)
(* that unbind keys of chains that are open, and readline -! lines that    *)
(* bind, unbind and fail.  exec may also make the configuration itself     *)
(* fail.                                                                   *)
(***************************************************************************)
EXTENDS KeyDispatch

ChainModes == {"global", "default", "test"}
ChainKeys == {"A", "B", "E", "R", "X", "2"}

ChainKeyInfo ==
  [k \in ChainKeys |-> [type |-> "unicode", modified |-> FALSE,
                        digit |-> IF k = "2" THEN 2 ELSE -1]]

Mode(m)        == [op |-> "mode", mode |-> m]
Bind(ks, c)    == [op |-> "bind", keys |-> ks, call |-> c]
Unbind(ks)     == [op |-> "unbind", keys |-> ks]
Group(cs, ss)  == [op |-> "group", calls |-> cs, seps |-> ss]
Unbound(c)     == [op |-> "unbound", types |-> {"unicode"}, call |-> c]
Other(results) == [op |-> "other", results |-> results]

\* The configuration, as a user would write it:
\*   exec check && ...                mode test
\*   mode default; repeat on          bind R   mode -p
\*   bind A   mask                    bind B   unbound char pass
\*   bind A B { write x && mode test }  bind B B { exec f || rehandle }
\*   bind B   { exec f && mode -p || mode test ; pass }   unbound char ignore
\*   bind R   { mode test ; rehandle || pass }
\*   bind E   readline -!             bind X A B { exec f || unbind X A ; rehandle }
\*                                    bind X A B X pass
ChainProgram ==
  [mode_global  |-> Mode("global"),
   mode_default |-> Mode("default"),
   mode_test    |-> Mode("test"),
   mode_p       |-> [op |-> "previous"],
   repeat_on    |-> [op |-> "repeat", on |-> TRUE],
   mask         |-> [op |-> "mask"],
   pass         |-> [op |-> "pass"],
   ignore       |-> [op |-> "ignore"],
   rehandle     |-> [op |-> "rehandle"],
   write        |-> Other({TRUE}),
   exec         |-> Other({TRUE, FALSE}),
   no_command   |-> Other({FALSE}),
   evaluate     |-> [op |-> "evaluate",
                     lines |-> {<<"mode_test", "bind_BA">>, <<"rehandle", "pass">>,
                                <<"no_command">>}],
   write_then_test |-> Group(<<"write", "mode_test">>, <<"&&">>),
   switch          |-> Group(<<"exec", "mode_p", "mode_test", "pass">>, <<"&&", "||", ";">>),
   in_test         |-> Group(<<"mode_test", "rehandle", "pass">>, <<";", "||">>),
   exec_or_again   |-> Group(<<"exec", "rehandle">>, <<"||">>),
   cut_off         |-> Group(<<"exec", "unbind_XA", "rehandle">>, <<"||", ";">>),
   unbind_XA       |-> Unbind(<<"X", "A">>),
   unbound_pass    |-> Unbound("pass"),
   unbound_ignore  |-> Unbound("ignore"),
   bind_A  |-> Bind(<<"A">>, "mask"),
   bind_AB |-> Bind(<<"A", "B">>, "write_then_test"),
   bind_B  |-> Bind(<<"B">>, "switch"),
   bind_R  |-> Bind(<<"R">>, "in_test"),
   bind_X  |-> Bind(<<"X">>, "rehandle"),
   bind_E  |-> Bind(<<"E">>, "evaluate"),
   bind_test_R  |-> Bind(<<"R">>, "mode_p"),
   bind_test_B  |-> Bind(<<"B">>, "unbound_pass"),
   bind_test_BB |-> Bind(<<"B", "B">>, "exec_or_again"),
   bind_BA |-> Bind(<<"B", "A">>, "write"),
   bind_XAB  |-> Bind(<<"X", "A", "B">>, "cut_off"),
   bind_XABX |-> Bind(<<"X", "A", "B", "X">>, "pass")]

ChainCalls == DOMAIN ChainProgram

ChainOptions ==
  <<[opt |-> "conf", files |-> << <<"mode_global">> >>],
    [opt |-> "conf", files |-> <<
       <<"exec", "mode_default", "repeat_on", "bind_A", "bind_AB", "bind_B", "bind_R",
         "bind_E",
         "mode_test", "bind_test_R", "bind_test_B", "bind_test_BB",
         "bind_XAB", "bind_XABX",
         "unbound_ignore">> >>]>>

\* The same, with `bind X rehandle' in the mode that repeats.
RunawayOptions == Append(ChainOptions, [opt |-> "conf", files |-> << <<"bind_X">> >>])

\* Lines are typed from keys, never from configurations, as FlatLoadsReturn supposes.
ASSUME ChainsAreFlat == Flat(ChainCalls \ {"evaluate"})

\* Keys unbind from bindings, never as unbound keys, as ChainCorrect supposes.
ASSUME ChainsNeverUnbind == NeverUnbinds({"pass", "ignore"})

-----------------------------------------------------------------------------
\* Every key is handled to the end, unless readline -! is waiting for the user again
\* and again, or a node is used that unbind has freed.
EveryKeyIsHandled ==
  (input # NoKey) ~> (ctl \in {AtPoll, Fault} \/ Calling("evaluate"))

-----------------------------------------------------------------------------
\* tkremap.c:227: that the global mode is the current one when a key is looked up
\* "should actually never happen".
GlobalIsNeverCurrent == LookingUp => current_mode # Global

\* cmd_unbound.c:57: "command_pass equals empty unbound[] field", so a key that breaks
\* a chain in a mode with nothing unbound is passed.
BrokenChainIsPassed ==
  Handled /\ ~pressed.mask
    /\ pressed.chain # NoNode /\ ~HasBinding(pressed.chain, pressed.key)
    /\ unbound[pressed.mode]["unicode"] = NoCall
  => effects = <<[kind |-> "raw", call |-> NoCall]>>

=============================================================================
