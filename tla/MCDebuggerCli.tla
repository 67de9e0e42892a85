---------------------------- MODULE MCDebuggerCli ----------------------------
(***************************************************************************)
(* Model for DebuggerCli: $HOME is /home/u; the debugger starts there or   *)
(* in /tmp, where a directory literally named `~` holds an init file of   *)
(* its own, and /tmp/cmds is an init file that may be named relatively.   *)
(***************************************************************************)
EXTENDS DebuggerCli

MCHome  == <<"home", "u">>
MCCwds  == {<<"home", "u">>, <<"tmp">>}

MCFileLines ==
  (<<"home", "u", ".wasminspect_init">> :> <<"bt", "help">>)
  @@ (<<"tmp", "~", ".wasminspect_init">> :> <<"process">>)
  @@ (<<"tmp", "cmds">> :> <<"thread", "bogus">>)

MCFiles == DOMAIN MCFileLines

MCInitSources == {NoSource, [abs |-> FALSE, parts |-> <<"cmds">>]}

(* thread.rs returns Ok(None) or an error; the other commands are not in  *)
(* the source tree and may also end the REPL (CommandResult::Exit).       *)
MCCmdResults == ("thread" :> {"none", "err"}) @@ ("process" :> {"none", "exit", "err"})

MCAliases == "bt" :> "thread"
=============================================================================
