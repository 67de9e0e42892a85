----------------------------- MODULE MCWasmTable -----------------------------
(***************************************************************************)
(* Model for WasmTable: two funcref tables, a two-entry element segment (a function and a null),   *)
(* two functions of different types, 4-bit i32 words and 8-bit usize.     *)
(***************************************************************************)
EXTENDS WasmTable

CONSTANTS f1, f2

MCFuncs    == {f1, f2}
MCFuncType == [f \in MCFuncs |-> IF f = f1 THEN 0 ELSE 1]
(* Segment 0 holds ref.func f2 and ref.null; the global starts at a       *)
(* constant 0 or at the imported global's 1.                               *)
MCElemExprs   == << [op |-> "ref.func", f |-> f2], [op |-> "ref.null"] >>
MCGlobalInits == { [op |-> "i32.const", value |-> 0], [op |-> "global.get", index |-> 0] }

(* Table 0 starts with a null between two functions, table 1 with one    *)
(* slot; both start empty in the other initial state.                     *)
MCInitTables ==
  { [t \in {0, 1} |-> IF t = 0 THEN <<f1, Null, f2>> ELSE <<f2>>],
    [t \in {0, 1} |-> <<>>] }
=============================================================================
