----------------------------- MODULE MCWasmExec -----------------------------
(***************************************************************************)
(* Model for WasmExec: a handful of validated modules, each exercising a   *)
(* part of the control machine, run from every listed argument.            *)
(* Function indices are 1-based positions in funcs (the code's             *)
(* FuncAddr::new_unsafe(module, index) resolved through the Store).        *)
(***************************************************************************)
EXTENDS WasmExec

Op(o)      == [op |-> o]
Blk(o, ty) == [op |-> o, ty |-> ty]
BrI(o, d)  == [op |-> o, depth |-> d]
Tbl(t, d)  == [op |-> "br_table", table |-> t, default |-> d]
CallI(f)   == [op |-> "call", f |-> f]
Loc(o, i)  == [op |-> o, local |-> i]
I32(v)     == [op |-> "i32.const", value |-> v]

Empty      == [kind |-> "empty", params |-> 0, results |-> 0]
ValT       == [kind |-> "val", params |-> 0, results |-> 1]
FT(p, r)   == [kind |-> "func", params |-> p, results |-> r]

Def(p, r, l, code) ==
  [kind |-> "defined", params |-> p, results |-> r, locals |-> l, code |-> code]
Host(p, r) ==
  [kind |-> "host", params |-> p, results |-> r, locals |-> 0, code |-> <<>>]

(* Count the argument down to zero: br_if out of a block, br back to a loop. *)
CountDown ==
  << Def(1, 1, 0,
      << Blk("block", Empty), Blk("loop", Empty),
           Loc("local.get", 0), Op("i32.eqz"), BrI("br_if", 1),
           Loc("local.get", 0), I32(1), Op("i32.sub"), Loc("local.set", 0),
           BrI("br", 0),
         Op("end"), Op("end"),
         Loc("local.get", 0), Op("end") >>) >>

(* Nested ifs with elses, an if with a result, and the false scans.        *)
Branches ==
  << Def(1, 1, 1,
      << Loc("local.get", 0),
         Blk("if", Empty),
           Loc("local.get", 0),
           Blk("if", Empty), Op("nop"), Op("else"), Op("nop"), Op("end"),
           I32(1), Loc("local.set", 1),
         Op("else"),
           I32(2), Loc("local.set", 1),
         Op("end"),
         Loc("local.get", 1), Loc("local.get", 0),
         Blk("if", ValT), I32(3), Op("else"), I32(4), Op("end"),
         Op("i32.add"), Op("end") >>) >>

(* A call, a br_if to the Return label, `return`, and a host function.     *)
Calls ==
  << Def(1, 1, 0, << Loc("local.get", 0), CallI(2), CallI(3), Op("end") >>),
     Def(1, 1, 0,
      << Blk("block", Empty),
           Loc("local.get", 0), Loc("local.get", 0), BrI("br_if", 1), Op("drop"),
         Op("end"),
         I32(5), Op("return"), Op("end") >>),
     Host(1, 1) >>

(* Recursion: the sum 0 + 1 + ... + x.                                     *)
Recursion ==
  << Def(1, 1, 0,
      << Loc("local.get", 0),
         Blk("if", ValT),
           Loc("local.get", 0), I32(1), Op("i32.sub"), CallI(1),
           Loc("local.get", 0), Op("i32.add"),
         Op("else"), I32(0), Op("end"),
         Op("end") >>) >>

(* br_table out of a block with params, a loop carrying a value, select,   *)
(* local.tee, and a false if without else around `unreachable`.           *)
Tables ==
  << Def(1, 1, 0,
      << I32(5),
         Blk("block", FT(1, 1)),
           Loc("local.get", 0), Tbl(<<0, 1>>, 0),
         Op("end"),
         Loc("local.get", 0),
         Blk("loop", FT(1, 1)),
           I32(1), Op("i32.sub"), Loc("local.tee", 0), Loc("local.get", 0),
           BrI("br_if", 0),
         Op("end"),
         Loc("local.get", 0), Op("select"),
         I32(0), Blk("if", Empty), Op("unreachable"), Op("end"),
         Op("end") >>) >>

(* A taken `unreachable`.                                                  *)
Trapping ==
  << Def(0, 0, 0,
      << I32(1), Blk("if", Empty), Op("unreachable"), Op("end"), Op("end") >>) >>

(* Source lines: six instructions to a line, so that a source-level step  *)
(* spans several instructions and a recursive call returns to its line.  *)
MCLineOf(f, i) == <<f, i \div 6>>

(* Two results through a `return` and the entry function's End.          *)
Pair ==
  << Def(1, 2, 0, << Loc("local.get", 0), CallI(2), Op("end") >>),
     Def(1, 2, 0, << Loc("local.get", 0), Loc("local.get", 0), I32(1), Op("i32.add"),
                     Op("return"), Op("end") >>) >>

(* Break before the third instruction of the entry function.               *)
MCBreakInsts == {<<1, 2>>}

(* The results of each program by the Wasm semantics, worked out by hand   *)
(* for words of W bits: CountDown counts to 0; Branches gives 2 + 4 for 0  *)
(* and 1 + 3 otherwise; Calls returns whatever the host function does;     *)
(* Recursion is 0 + 1 + ... + x; Tables keeps the 5 only when br_table     *)
(* leaves the function, else the loop ends on 0 and select picks it;      *)
(* Pair is x, x + 1.                                                       *)
Prog(fs, A, R(_)) == [funcs |-> fs, args |-> A, ref |-> [a \in A |-> R(a[1])]]
Wrap(v) == v % (2 ^ W)

MCPrograms ==
  { Prog(CountDown, {<<0>>, <<1>>, <<2>>}, LAMBDA x : {<<0>>}),
    Prog(Branches,  {<<0>>, <<1>>}, LAMBDA x : {IF x = 0 THEN <<6>> ELSE <<4>>}),
    Prog(Calls,     {<<0>>, <<1>>}, LAMBDA x : {<<h>> : h \in HostValues}),
    Prog(Recursion, {<<0>>, <<1>>, <<2>>}, LAMBDA x : {<<Wrap((x * (x + 1)) \div 2)>>}),
    Prog(Tables,    {<<0>>, <<1>>, <<2>>}, LAMBDA x : {IF x = 1 THEN <<5>> ELSE <<0>>}),
    Prog(Pair,      {<<0>>, <<7>>}, LAMBDA x : {<<x, Wrap(x + 1)>>}),
    [funcs |-> Trapping, args |-> {<<>>}, ref |-> [a \in {<<>>} |-> {}]] }
=============================================================================
