------------------------------ MODULE WasmCode ------------------------------
(***************************************************************************)
(* The decoded instruction stream of a defined function and the two        *)
(* forward scans the Executor runs over it (crates/vm/src/executor.rs):    *)
(*   - IfScan: the skip of a false `if` to its `else` or `end`;            *)
(*   - BranchScan: the continuation of a `br` to a Block or If label.      *)
(* Instruction indices are 0-based, as InstIndex is in the code: the       *)
(* instruction at index i is code[i + 1].                                  *)
(*                                                                         *)
(* The module also gives the reference definition of a function's block   *)
(* structure (OpenBlocks, MatchingEnd, MatchingElse) that the scans and    *)
(* the Executor's label stack are checked against.                        *)
(***************************************************************************)
EXTENDS Integers, Sequences, SequencesExt

(* Opcodes that open a structured block: pushes a label when executed.     *)
Openers == {"block", "loop", "if"}

(* The instruction at 0-based index i of code.                             *)
At(code, i) == code[i + 1]

(***************************************************************************)
(* The scan of `If` when the condition is zero (executor.rs 235-257):      *)
(* starting at idx (already past the `if`) with depth 1, an `end`          *)
(* decrements the depth, a nested opener increments it, an `else` at       *)
(* depth 1 stops just past the `else`, and depth 0 stops ON the `end`,     *)
(* which is then executed and pops the If label.                          *)
(***************************************************************************)
(* Mutant: any `else` stops the scan, whatever the depth.                  *)
RECURSIVE IfScanAnyElse(_, _, _)
IfScanAnyElse(code, idx, depth) ==
  LET op == At(code, idx).op
      d  == CASE op = "end"      -> depth - 1
              [] op \in Openers  -> depth + 1
              [] OTHER           -> depth
  IN  IF op = "else" THEN idx + 1
      ELSE IF d = 0 THEN idx
      ELSE IfScanAnyElse(code, idx + 1, d)

RECURSIVE IfScan(_, _, _)
IfScan(code, idx, depth) ==
  LET op == At(code, idx).op
      d  == CASE op = "end"      -> depth - 1
              [] op \in Openers  -> depth + 1
              [] OTHER           -> depth
  IN  IF op = "else" /\ depth = 1 THEN idx + 1
      ELSE IF d = 0 THEN idx
      ELSE IfScan(code, idx + 1, d)

(***************************************************************************)
(* The continuation of a branch to a Block or If label (executor.rs        *)
(* 890-906): starting at idx (past the branch) with depth + 1 open         *)
(* labels, every instruction is stepped over, including the `end` that    *)
(* brings the depth to 0.                                                  *)
(***************************************************************************)
(* Mutant: the scan stops on the target's `end` instead of past it.        *)
RECURSIVE BranchScanOnEnd(_, _, _)
BranchScanOnEnd(code, idx, depth) ==
  LET op == At(code, idx).op
      d  == CASE op = "end"      -> depth - 1
              [] op \in Openers  -> depth + 1
              [] OTHER           -> depth
  IN  IF d = 0 THEN idx ELSE BranchScanOnEnd(code, idx + 1, d)

RECURSIVE BranchScan(_, _, _)
BranchScan(code, idx, depth) ==
  LET op == At(code, idx).op
      d  == CASE op = "end"      -> depth - 1
              [] op \in Openers  -> depth + 1
              [] OTHER           -> depth
  IN  IF d = 0 THEN idx + 1 ELSE BranchScan(code, idx + 1, d)

-----------------------------------------------------------------------------
(***************************************************************************)
(* Reference definitions of the block structure, written from the Wasm     *)
(* structured-control rules rather than from the scans.                    *)
(***************************************************************************)

(* The 0-based indices of the openers enclosing instruction i, outermost   *)
(* first: the blocks entered and not yet closed by an `end` before i.     *)
RECURSIVE OpenBlocks(_, _)
OpenBlocks(code, i) ==
  IF i = 0 THEN <<>>
  ELSE LET prev == OpenBlocks(code, i - 1)
           op   == At(code, i - 1).op
       IN  CASE op \in Openers -> Append(prev, i - 1)
             [] op = "end" /\ prev # <<>> -> Front(prev)
             [] OTHER -> prev

(* The index of the `end` that closes the opener at index j.               *)
MatchingEnd(code, j) ==
  CHOOSE k \in j + 1 .. Len(code) - 1 :
    /\ At(code, k).op = "end"
    /\ Len(OpenBlocks(code, k)) = Len(OpenBlocks(code, j)) + 1
    /\ \A m \in j + 1 .. k - 1 :
         Len(OpenBlocks(code, m)) > Len(OpenBlocks(code, j))

(* The `else` of the `if` at index j, or -1 when it has none.              *)
MatchingElse(code, j) ==
  LET E == {k \in j + 1 .. MatchingEnd(code, j) - 1 :
              /\ At(code, k).op = "else"
              /\ OpenBlocks(code, k) = Append(OpenBlocks(code, j), j)}
  IN  IF E = {} THEN -1 ELSE CHOOSE k \in E : TRUE

(* A well-nested body: every opener is closed, `else` only appears once    *)
(* directly inside an `if`, and the final `end` closes the function.      *)
WellNested(code) ==
  /\ Len(code) > 0
  /\ At(code, Len(code) - 1).op = "end"
  /\ OpenBlocks(code, Len(code) - 1) = <<>>
  /\ \A i \in 0 .. Len(code) - 2 :
       At(code, i).op = "end" => OpenBlocks(code, i) # <<>>
  /\ \A i \in 0 .. Len(code) - 1 :
       At(code, i).op = "else" =>
         LET ob == OpenBlocks(code, i)
         IN  /\ ob # <<>>
             /\ At(code, Last(ob)).op = "if"
             /\ \A k \in Last(ob) + 1 .. i - 1 :
                  ~(At(code, k).op = "else" /\ OpenBlocks(code, k) = ob)
=============================================================================
