---------------------------- MODULE MCProcesses ----------------------------
(***************************************************************************)
(* Every command, with a limit of one or two processes besides tkremap.    *)
(***************************************************************************)
EXTENDS Processes

ExecCommand(background, in, out) ==
  [op |-> "exec", background |-> background, in |-> in, out |-> out]
Suspends == [op |-> "suspend"]
Writes == [op |-> "write"]
Signals(signal) == [op |-> "signal", signal |-> signal]
SetsMethod(how) == [op |-> "redraw_method", method |-> how]
ReadsLine(confirm, refresh) == [op |-> "readline", confirm |-> confirm, refresh |-> refresh]
Foreground(out) == ExecCommand(FALSE, "inherited", out)
Background(in) == ExecCommand(TRUE, in, "inherited")

With(children, commands) == [children |-> children, commands |-> commands]
MCConfigurations == {
  With({"child"}, {Suspends, SetsMethod("keys"), SetsMethod("srmcup")}),
  With({"child"}, {Suspends, Signals("STOP"), Signals("CONT")}),
  With({"child"}, {Suspends, Foreground("inherited")}),
  With({"child"}, {Writes, Foreground("pty"), Background("file")}),
  With({}, {ReadsLine(FALSE, TRUE)}),
  With({"child"}, {ReadsLine(TRUE, FALSE), Background("inherited")}),
  With({"child", "other"}, {Foreground("inherited")}) }
=============================================================================
