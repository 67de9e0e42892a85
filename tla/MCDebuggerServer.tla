-------------------------- MODULE MCDebuggerServer --------------------------
(***************************************************************************)
(* Model for DebuggerServer: two connections, each of whose clients sends  *)
(* up to MaxMsgs messages; the request kinds and the REPL mode are set per *)
(* run in the .cfg files.                                                  *)
(***************************************************************************)
EXTENDS DebuggerServer
=============================================================================
