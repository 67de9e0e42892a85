--------------------------- MODULE MCWasmOperators ---------------------------
(***************************************************************************)
(* Checks the Executor's pure operators against their references over      *)
(* bounded inputs.  A state is one test case, and it never changes:       *)
(*   - the two forward scans of WasmCode, on every well-nested function    *)
(*     body of up to MaxLen instructions built from the structured opcodes *)
(*     and `nop` (which stands for every other instruction: the scans only *)
(*     look at the opcode), against the reference block structure;        *)
(*   - the integer numeric instructions of WasmNumeric, each with every    *)
(*     first operand (the invariant ranges over the second), against the  *)
(*     WebAssembly numerics (spec.md 4.3, the Wasm specification's iadd,   *)
(*     idiv_s, ishl, irotl, iclz, ...) stated on bit vectors, most         *)
(*     significant bit first.                                              *)
(***************************************************************************)
EXTENDS WasmCode, WasmNumeric, FiniteSets

CONSTANTS
  MaxLen,   \* longest body, final `end` included
  ScanOps   \* opcodes the bodies are built from

ASSUME MaxLen \in Nat \ {0}

Bodies ==
  UNION { {c \in [1 .. n -> {[op |-> o] : o \in ScanOps}] : WellNested(c)}
          : n \in 1 .. MaxLen }

NoInst == [t |-> "none", name |-> "none"]

(* The bit vector of an n-bit pattern, and the pattern of a bit vector.   *)
BitsOf(n, i) == [k \in 1 .. n |-> (i \div 2^(n - k)) % 2]
ValOf(bs)    == FoldLeft(LAMBDA acc, b : 2 * acc + b, 0, bs)
Zeros(k)     == [j \in 1 .. k |-> 0]
Copies(k, b) == [j \in 1 .. k |-> b]

(* signed_N: the top bit weighs -2^(N-1).                                  *)
RefSigned(bs) == ValOf(bs) - bs[1] * 2^Len(bs)

(* trunc: the floor, moved one toward zero when inexact and negative.      *)
RefTrunc(x, y) == LET f == x \div y IN IF f < 0 /\ f * y # x THEN f + 1 ELSE f

Ones(bs) == {k \in 1 .. Len(bs) : bs[k] = 1}

(* The result of instruction i on operands a and b by the Wasm numerics.   *)
RefNumeric(i, a, b) ==
  LET n  == Width(i.t)
      m  == InWidth(i)
      ba == BitsOf(m, a)
      bb == BitsOf(m, b)
      k  == b % n
      ja == RefSigned(ba)
      jb == RefSigned(bb)
      ToU(j) == j % 2^n
      Bit(bs) == [j \in 1 .. m |-> bs[j]]
      Cmp(r) == Ok(IF r THEN 1 ELSE 0)
      SignExt(w) == ValOf(Copies(n - w, ba[m - w + 1]) \o SubSeq(ba, m - w + 1, m))
  IN  CASE i.name = "eqz"    -> Cmp(a = 0)
        [] i.name = "eq"     -> Cmp(a = b)
        [] i.name = "ne"     -> Cmp(a # b)
        [] i.name = "lt_u"   -> Cmp(a < b)
        [] i.name = "gt_u"   -> Cmp(a > b)
        [] i.name = "le_u"   -> Cmp(a <= b)
        [] i.name = "ge_u"   -> Cmp(a >= b)
        [] i.name = "lt_s"   -> Cmp(ja < jb)
        [] i.name = "gt_s"   -> Cmp(ja > jb)
        [] i.name = "le_s"   -> Cmp(ja <= jb)
        [] i.name = "ge_s"   -> Cmp(ja >= jb)
        [] i.name = "add"    -> Ok((a + b) % 2^n)
        [] i.name = "sub"    -> Ok((a - b + 2^n) % 2^n)
        [] i.name = "mul"    -> Ok((a * b) % 2^n)
        [] i.name = "div_u"  -> IF b = 0 THEN Fail("DivideByZero") ELSE Ok(a \div b)
        [] i.name = "rem_u"  -> IF b = 0 THEN Fail("DivideByZero") ELSE Ok(a % b)
        [] i.name = "div_s"  -> IF jb = 0 THEN Fail("DivideByZero")
                                ELSE IF RefTrunc(ja, jb) = 2^(n - 1) THEN Fail("Overflow")
                                ELSE Ok(ToU(RefTrunc(ja, jb)))
        [] i.name = "rem_s"  -> IF jb = 0 THEN Fail("DivideByZero")
                                ELSE Ok(ToU(ja - jb * RefTrunc(ja, jb)))
        [] i.name = "and"    -> Ok(ValOf([j \in 1 .. n |-> ba[j] * bb[j]]))
        [] i.name = "or"     -> Ok(ValOf([j \in 1 .. n |-> IF ba[j] + bb[j] > 0 THEN 1 ELSE 0]))
        [] i.name = "xor"    -> Ok(ValOf([j \in 1 .. n |-> (ba[j] + bb[j]) % 2]))
        [] i.name = "shl"    -> Ok(ValOf(SubSeq(ba, k + 1, n) \o Zeros(k)))
        [] i.name = "shr_u"  -> Ok(ValOf(Zeros(k) \o SubSeq(ba, 1, n - k)))
        [] i.name = "shr_s"  -> Ok(ValOf(Copies(k, ba[1]) \o SubSeq(ba, 1, n - k)))
        [] i.name = "rotl"   -> Ok(ValOf(SubSeq(ba, k + 1, n) \o SubSeq(ba, 1, k)))
        [] i.name = "rotr"   -> Ok(ValOf(SubSeq(ba, n - k + 1, n) \o SubSeq(ba, 1, n - k)))
        [] i.name = "clz"    -> Ok(IF Ones(ba) = {} THEN n
                                   ELSE CHOOSE j \in 0 .. n - 1 : j + 1 \in Ones(ba)
                                                               /\ \A l \in 1 .. j : l \notin Ones(ba))
        [] i.name = "ctz"    -> Ok(IF Ones(ba) = {} THEN n
                                   ELSE CHOOSE j \in 0 .. n - 1 : n - j \in Ones(ba)
                                                               /\ \A l \in n - j + 1 .. n : l \notin Ones(ba))
        [] i.name = "popcnt" -> Ok(Cardinality(Ones(ba)))
        [] i.name = "extend8_s"    -> Ok(SignExt(W \div 4))
        [] i.name = "extend16_s"   -> Ok(SignExt(W \div 2))
        [] i.name = "extend32_s"   -> Ok(SignExt(W))
        [] i.name = "extend_i32_s" -> Ok(SignExt(W))
        [] i.name = "extend_i32_u" -> Ok(a)
        [] i.name = "wrap_i64"     -> Ok(ValOf(SubSeq(ba, W + 1, 2 * W)))

VARIABLES
  code,   \* the body of a scan case, <<>> in a numeric case
  inst,   \* the instruction of a numeric case, NoInst in a scan case
  lhs     \* its first operand

vars == <<code, inst, lhs>>

Init ==
  \/ /\ code \in Bodies
     /\ inst = NoInst
     /\ lhs = 0
  \/ /\ code = <<>>
     /\ inst \in Insts
     /\ lhs \in Word(InWidth(inst))

Next == UNCHANGED vars

Spec == Init /\ [][Next]_vars

(***************************************************************************)
(* A false `if` (executor.rs 235-257) resumes just past its own `else`,    *)
(* or on its own `end` when it has none, whatever blocks, loops, ifs and   *)
(* elses are nested inside its then-branch.                                *)
(***************************************************************************)
IfScanFindsOwnElse ==
  \A j \in 0 .. Len(code) - 1 :
    At(code, j).op = "if" =>
      IfScan(code, j + 1, 1) =
        IF MatchingElse(code, j) # -1 THEN MatchingElse(code, j) + 1
                                      ELSE MatchingEnd(code, j)

(***************************************************************************)
(* A branch taken at any point inside a block or if (executor.rs 890-906), *)
(* to the label d levels out, resumes just past that block's own `end`.   *)
(***************************************************************************)
BranchScanLeavesTarget ==
  \A j \in 0 .. Len(code) - 1 :
    At(code, j).op \in {"block", "if"} =>
      \A i \in j + 1 .. MatchingEnd(code, j) :
        LET d == Len(OpenBlocks(code, i)) - Len(OpenBlocks(code, j)) - 1
        IN  BranchScan(code, i, d + 1) = MatchingEnd(code, j) + 1
(***************************************************************************)
(* Every integer numeric instruction (relop, binop, try_binop, testop,     *)
(* unop over the closures of execute_inst, with their i32/u32 readings,   *)
(* wrapping stores and `b as u32` shift counts) gives the value, or the   *)
(* trap, that the WebAssembly numerics prescribe, on every operand pair.  *)
(***************************************************************************)
NumericMatchesWasm ==
  inst \in Insts =>
  \A rhs \in (IF Binary(inst) THEN Word(InWidth(inst)) ELSE {0}) :
    ExecNumeric(inst, lhs, rhs) = RefNumeric(inst, lhs, rhs)
=============================================================================
