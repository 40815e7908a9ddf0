------------------------------- MODULE MCLoad -------------------------------
(***************************************************************************)
(* KeyDispatch with keys that read configurations: load, with candidates   *)
(* that fail half-way, readline -!, with lines that fail, and both with a  *)
(* configuration that itself reads one.                                    *)
(***************************************************************************)
EXTENDS KeyDispatch

LoadModes == {"global", "default", "test"}
LoadKeys == {"F", "M", "E", "N", "L", "B"}

LoadKeyInfo == [k \in LoadKeys |-> [type |-> "unicode", modified |-> FALSE, digit |-> -1]]

Mode(m)       == [op |-> "mode", mode |-> m]
Bind(ks, c)   == [op |-> "bind", keys |-> ks, call |-> c]
Group(cs, ss) == [op |-> "group", calls |-> cs, seps |-> ss]
Load(files)   == [op |-> "load", files |-> files]
Other(results) == [op |-> "other", results |-> results]

\*   bind F  load flat       bind M  { load missing || mode -p }
\*   bind E  readline -!     bind N  load nested
\*   bind L  readline -!, where the user types `load flat'
\* flat.conf, and a flat.conf that comes before it in load's search:
\*   mode test ; bind B mode -p ; exec x        mode test ; bind B B pass
LoadProgram ==
  [mode_default |-> Mode("default"),
   mode_test    |-> Mode("test"),
   mode_p       |-> [op |-> "previous"],
   pass         |-> [op |-> "pass"],
   exec         |-> Other({TRUE, FALSE}),
   no_command   |-> Other({FALSE}),
   flat         |-> Load(<< <<"mode_test", "bind_B", "exec">>, <<"mode_test", "bind_BB">> >>),
   missing      |-> Load(<<>>),
   nested       |-> Load(<< <<"mode_default", "flat", "bind_B">> >>),
   missing_or_p |-> Group(<<"missing", "mode_p">>, <<"||">>),
   evaluate     |-> [op |-> "evaluate",
                     lines |-> {<<"mode_test", "bind_B">>, <<"missing", "bind_B">>, <<"no_command">>}],
   evaluate_load |-> [op |-> "evaluate", lines |-> {<<"flat">>}],
   bind_B  |-> Bind(<<"B">>, "mode_p"),
   bind_BB |-> Bind(<<"B", "B">>, "pass"),
   bind_F  |-> Bind(<<"F">>, "flat"),
   bind_M  |-> Bind(<<"M">>, "missing_or_p"),
   bind_E  |-> Bind(<<"E">>, "evaluate"),
   bind_N  |-> Bind(<<"N">>, "nested"),
   bind_L  |-> Bind(<<"L">>, "evaluate_load")]

LoadCalls == DOMAIN LoadProgram

LoadOptions ==
  <<[opt |-> "conf", files |-> <<
       <<"mode_test", "mode_default", "bind_F", "bind_M", "bind_E", "bind_N", "bind_L">> >>]>>

-----------------------------------------------------------------------------
\* The keys whose configurations read another one.
NestingKeys == {"N", "L"}

\* Only a nested configuration makes the program crash: a file that fails half-way, a
\* file that is missing, a line that is typed again and again do not.
OnlyNestedLoadsCrash == ctl = Crashed => pressed.key \in NestingKeys

\* Every key is handled to the end, unless its configuration crashes or the user is
\* asked for a line again and again.
EveryKeyIsHandled ==
  (input # NoKey) ~> (ctl \in {AtPoll, Crashed} \/ Calling("evaluate"))
=============================================================================
