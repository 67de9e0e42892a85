----------------------------- MODULE DebuggerCli -----------------------------
(***************************************************************************)
(* The command-line debugger's start-up and REPL: run_loop of              *)
(* crates/debugger/src/lib.rs (the init file, then Process::run_loop) and  *)
(* Process::run_step / run_loop / dispatch_command of process.rs.          *)
(*                                                                         *)
(* A command line is abstracted to its command name (the arguments only    *)
(* matter to the command itself), the empty line is "".  A path is a      *)
(* record: whether it is absolute, and its components.  File::open         *)
(* resolves a relative path against the working directory, component by   *)
(* component; nothing expands `~`, which is an ordinary component.         *)
(***************************************************************************)
EXTENDS Integers, Sequences, SequencesExt

CONSTANTS
  Home,         \* the components of $HOME
  Cwds,         \* working directories the debugger may be started in
  Files,        \* the files that exist: their absolute component sequences
  FileLines,    \* the lines of each file of Files
  InitSources,  \* the init_source argument: NoSource or a path
  NoSource,
  Commands,     \* names of the registered commands
  CmdResults,   \* what cmd.run may return for each: "none", "exit", "err"
  Aliases,      \* the alias a name stands for: a function to command lines
  RemoteApi,    \* cfg!(feature = "remote-api")
  Inputs,       \* lines the user may type
  MaxInputs     \* lines read per session

InitName == ".wasminspect_init"

(* The path run_loop opens when no init_source is given.                   *)
DefaultInit == [abs |-> FALSE, parts |-> <<"~", InitName>>]

(* The file File::open(p) opens from working directory cwd.                *)
Resolve(p, cwd) == IF p.abs THEN p.parts ELSE cwd \o p.parts

VARIABLES
  phase,     \* "start", "init", "repl", "exited" (Ok), "failed" (Err)
  cwd,       \* the working directory
  source,    \* the init_source argument
  pending,   \* the init lines not yet dispatched
  initRan,   \* the init lines dispatched, in order
  lastLine,  \* run_loop's last_line: the last non-empty line, or ""
  typed,     \* the lines the user typed, in order (history)
  ran        \* the line the last step dispatched, or "" for none

vars == <<phase, cwd, source, pending, initRan, lastLine, typed, ran>>

(***************************************************************************)
(* dispatch_command: the outcomes of dispatching a line.  A command's own  *)
(* error is printed and becomes None; an alias expands (alias.run may     *)
(* fail, and its error is returned with `?`) and is dispatched again.      *)
(***************************************************************************)
RECURSIVE Dispatch(_)
Dispatch(line) ==
  IF line \in Commands
    THEN {IF r = "err" THEN "none" ELSE r : r \in CmdResults[line]}
  ELSE IF line \in DOMAIN Aliases
    THEN {"err"} \cup Dispatch(Aliases[line])
  ELSE IF line = "help" THEN {"none"}
  ELSE IF RemoteApi /\ line = "start-server" THEN {"exit"}
  ELSE {"none"}

-----------------------------------------------------------------------------
(* run_loop, lib.rs 85-101: open the init file (the default one when no    *)
(* init_source was given) and read its lines; a missing default file is   *)
(* no init file, a missing given file ends run_loop with an error.         *)
OpenInit ==
  /\ phase = "start"
  /\ LET path == Resolve(IF source = NoSource THEN DefaultInit ELSE source, cwd)
     IN  IF path \in Files
           THEN phase' = "init" /\ pending' = FileLines[path]
         ELSE IF source = NoSource
           THEN phase' = "init" /\ pending' = <<>>
         ELSE phase' = "failed" /\ UNCHANGED pending
  /\ UNCHANGED <<cwd, source, initRan, lastLine, typed, ran>>

(* lib.rs 102-104: each init line is dispatched; its Err ends run_loop     *)
(* (`?`), its result is dropped, an Exit included.                         *)
RunInitLine ==
  /\ phase = "init"
  /\ pending # <<>>
  /\ \E o \in Dispatch(Head(pending)) :
       /\ phase' = IF o = "err" THEN "failed" ELSE "init"
       /\ pending' = Tail(pending)
       /\ initRan' = Append(initRan, Head(pending))
       /\ ran' = Head(pending)
  /\ UNCHANGED <<cwd, source, lastLine, typed>>

(* Mutant: the REPL starts before every init line was dispatched.          *)
StartReplEarly ==
  /\ phase = "init"
  /\ phase' = "repl"
  /\ UNCHANGED <<cwd, source, pending, initRan, lastLine, typed, ran>>

(* lib.rs 106: Process::run_loop starts with no last line.                 *)
StartRepl ==
  /\ phase = "init"
  /\ pending = <<>>
  /\ phase' = "repl"
  /\ UNCHANGED <<cwd, source, pending, initRan, lastLine, typed, ran>>

(* Mutant: an empty line is remembered as the last line.                  *)
ReadLineKeepsEmpty ==
  /\ phase = "repl"
  /\ Len(typed) < MaxInputs
  /\ \E l \in Inputs :
       LET cmd == IF l = "" THEN lastLine ELSE l
       IN  /\ lastLine' = l
           /\ typed' = Append(typed, l)
           /\ ran' = cmd
           /\ IF cmd = "" THEN phase' = "repl"
              ELSE \E o \in Dispatch(cmd) :
                     phase' = CASE o = "exit" -> "exited"
                                [] o = "err"  -> "failed"
                                [] OTHER      -> "repl"
  /\ UNCHANGED <<cwd, source, pending, initRan>>

(* run_step with an input line: a non-empty line becomes the last line     *)
(* and is dispatched, an empty one repeats the last line (or does          *)
(* nothing); Some(result) ends run_loop, an Err ends it with the error.   *)
ReadLine ==
  /\ phase = "repl"
  /\ Len(typed) < MaxInputs
  /\ \E l \in Inputs :
       LET cmd == IF l = "" THEN lastLine ELSE l
       IN  /\ lastLine' = cmd
           /\ typed' = Append(typed, l)
           /\ ran' = cmd
           /\ IF cmd = "" THEN phase' = "repl"
              ELSE \E o \in Dispatch(cmd) :
                     phase' = CASE o = "exit" -> "exited"
                                [] o = "err"  -> "failed"
                                [] OTHER      -> "repl"
  /\ UNCHANGED <<cwd, source, pending, initRan>>

(* run_step with end of input or an interrupt: Some(Exit).                 *)
ReadEof ==
  /\ phase = "repl"
  /\ phase' = "exited"
  /\ ran' = ""
  /\ UNCHANGED <<cwd, source, pending, initRan, lastLine, typed>>

Init ==
  /\ phase = "start"
  /\ cwd \in Cwds
  /\ source \in InitSources
  /\ pending = <<>>
  /\ initRan = <<>>
  /\ lastLine = ""
  /\ typed = <<>>
  /\ ran = ""

Next == OpenInit \/ RunInitLine \/ StartRepl \/ ReadLine \/ ReadEof

Spec == Init /\ [][Next]_vars

-----------------------------------------------------------------------------
TypeOK ==
  /\ phase \in {"start", "init", "repl", "exited", "failed"}
  /\ cwd \in Cwds
  /\ Len(typed) <= MaxInputs
  /\ lastLine \in Inputs \cup {""}
  /\ phase \in {"repl", "exited"} => pending = <<>>

(* The last non-empty line of a history, or "".                            *)
LastTyped(h) ==
  LET ne == SelectSeq(h, LAMBDA l : l # "")
  IN  IF ne = <<>> THEN "" ELSE Last(ne)

(***************************************************************************)
(* An empty input line re-runs the last non-empty line the user typed in  *)
(* this REPL, however many empty lines came in between, and runs nothing  *)
(* when there was none (Process::run_step's last_line).                    *)
(***************************************************************************)
RepeatsLastCommand ==
  [][phase = "repl" /\ Len(typed') = Len(typed) + 1 /\ Last(typed') = "" =>
       ran' = LastTyped(typed)]_vars

(***************************************************************************)
(* spec.md 6: the debugger reads the init file $HOME/.wasminspect_init     *)
(* when no other one is given and it exists; when the REPL starts, its    *)
(* lines have been run, in order.                                          *)
(***************************************************************************)
InitFileRead ==
  (phase = "repl" /\ source = NoSource /\ (Home \o <<InitName>>) \in Files)
    => initRan = FileLines[Home \o <<InitName>>]
=============================================================================
