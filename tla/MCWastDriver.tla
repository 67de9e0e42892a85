---------------------------- MODULE MCWastDriver ----------------------------
(***************************************************************************)
(* Model for WastDriver: every script of up to MaxLen directives drawn     *)
(* from one or two of each kind, over one module id and one register name. *)
(***************************************************************************)
EXTENDS WastDriver, SequencesExt

CONSTANTS M1, MaxLen

MCDirs ==
  { Dir("module"), [Dir("module") EXCEPT !.id = M1],
    [Dir("module") EXCEPT !.imports = {"spec"}],
    [Dir("quote_module") EXCEPT !.id = M1],
    [Dir("register") EXCEPT !.name = "spec"],
    [Dir("register") EXCEPT !.name = "spec", !.id = M1],
    Dir("invoke"), [Dir("invoke") EXCEPT !.id = M1],
    [Dir("assert_return") EXCEPT !.expect = <<0>>],
    [Dir("assert_return") EXCEPT !.exec = "get", !.id = M1, !.expect = <<0>>],
    [Dir("assert_return") EXCEPT !.exec = "module"],
    [Dir("assert_trap") EXCEPT !.msg = "unreachable"],
    [Dir("assert_trap") EXCEPT !.exec = "module", !.msg = "unreachable"],
    [Dir("assert_exhaustion") EXCEPT !.msg = "exhausted"],
    Dir("assert_exception"),
    Dir("assert_malformed"), [Dir("assert_malformed") EXCEPT !.quote = TRUE],
    [Dir("assert_unlinkable") EXCEPT !.imports = {"spec"}, !.msg = "unknown import"],
    [Dir("assert_invalid") EXCEPT !.msg = "type mismatch"],
    [Dir("assert_invalid") EXCEPT !.quote = TRUE] }

MCIds == {M1}

MCScripts == BoundedSeq(MCDirs, MaxLen)
=============================================================================
