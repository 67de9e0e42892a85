----------------------------- MODULE WasmNumeric -----------------------------
(***************************************************************************)
(* The integer numeric instructions of execute_inst (executor.rs 683-705,  *)
(* 727-763, 795-801, 817-821) through the helpers testop, relop, binop,   *)
(* try_binop and unop (911-957), as pure operators on the bit patterns a  *)
(* Value holds.  Each instruction is translated with the Rust types of    *)
(* its closure: the pattern is read `as i32` or `as u32` by pop_as, the   *)
(* result stored back with wrapping.                                       *)
(*                                                                         *)
(* An i32 is W bits wide and an i64 2W bits.  With W a power of two and    *)
(* at least 4, 2W divides 2^W, as 64 divides 2^32, so `b as u32` followed *)
(* by the shift-count mask behaves as on the real widths.  The             *)
(* sign-extension widths 8, 16 and 32 become W/4, W/2 and W.               *)
(***************************************************************************)
EXTENDS Integers, Sequences, Bitwise

CONSTANT W
ASSUME W \in {4, 8, 16, 32}

Width(t) == IF t = "i32" THEN W ELSE 2 * W
Word(n)  == 0 .. 2^n - 1

Ok(v)    == [trap |-> "none", v |-> v]
Fail(t)  == [trap |-> t, v |-> 0]

-----------------------------------------------------------------------------
(* Rust's integer semantics.                                               *)

(* An n-bit pattern read `as i<n>`; an integer stored `as u<n>`.          *)
Signed(n, x) == IF x < 2^(n - 1) THEN x ELSE x - 2^n
Bits(n, i)   == i % 2^n

(* The shift and rotate amount: the i64 closures pass `b as u32`.          *)
Amount(t, b) == IF t = "i32" THEN b ELSE b % 2^W

(* wrapping_shl/shr mask the amount with BITS - 1; shr on i32 is          *)
(* arithmetic; rotate_left/right rotate by the amount mod BITS.           *)
WrappingShl(n, a, s)  == Bits(n, a * 2^(s % n))
WrappingShrU(n, a, s) == a \div 2^(s % n)
WrappingShrS(n, a, s) == Bits(n, Signed(n, a) \div 2^(s % n))
RotateLeft(n, a, s)   == LET k == s % n IN Bits(n, a * 2^k) + a \div 2^(n - k)
RotateRight(n, a, s)  == LET k == s % n IN a \div 2^k + Bits(n, a * 2^(n - k))

RECURSIVE LeadingZeros(_, _), TrailingZeros(_, _), CountOnes(_, _)
LeadingZeros(n, x)  == IF n = 0 \/ x >= 2^(n - 1) THEN 0
                       ELSE 1 + LeadingZeros(n - 1, x)
TrailingZeros(n, x) == IF n = 0 \/ x % 2 = 1 THEN 0
                       ELSE 1 + TrailingZeros(n - 1, x \div 2)
CountOnes(n, x)     == IF n = 0 THEN 0 ELSE (x % 2) + CountOnes(n - 1, x \div 2)

(* Rust's `/` on integers rounds toward zero.                              *)
Quot(x, y) == LET q == (IF x < 0 THEN -x ELSE x) \div (IF y < 0 THEN -y ELSE y)
              IN  IF (x < 0) = (y < 0) THEN q ELSE -q

(* value.rs try_wrapping_div / try_wrapping_rem (spec.md 4.3): a zero      *)
(* divisor traps, a signed INT_MIN / -1 overflows, the remainder of it is  *)
(* 0 (wrapping_rem).                                                       *)
TryWrappingDiv(sgn, n, a, b) ==
  LET x == IF sgn THEN Signed(n, a) ELSE a
      y == IF sgn THEN Signed(n, b) ELSE b
  IN  IF y = 0 THEN Fail("DivideByZero")
      ELSE IF sgn /\ x = -(2^(n - 1)) /\ y = -1 THEN Fail("Overflow")
      ELSE Ok(Bits(n, Quot(x, y)))

TryWrappingRem(sgn, n, a, b) ==
  LET x == IF sgn THEN Signed(n, a) ELSE a
      y == IF sgn THEN Signed(n, b) ELSE b
  IN  IF y = 0 THEN Fail("DivideByZero") ELSE Ok(Bits(n, x - y * Quot(x, y)))

(* value.rs extend_with_width: the low m bits read as signed.              *)
ExtendWithWidth(n, x, m) == Bits(n, Signed(m, x % 2^m))

-----------------------------------------------------------------------------
(* The instructions, by helper.                                            *)

TestNames == {"eqz"}
RelNames  == {"eq", "ne", "lt_s", "lt_u", "gt_s", "gt_u", "le_s", "le_u",
              "ge_s", "ge_u"}
UnNames   == {"clz", "ctz", "popcnt", "extend8_s", "extend16_s"}
BinNames  == {"add", "sub", "mul", "and", "or", "xor", "shl", "shr_s",
              "shr_u", "rotl", "rotr"}
TryNames  == {"div_s", "div_u", "rem_s", "rem_u"}

Insts ==
  {[t |-> t, name |-> x] : t \in {"i32", "i64"},
                           x \in TestNames \cup RelNames \cup UnNames
                                 \cup BinNames \cup TryNames}
  \cup {[t |-> "i64", name |-> "extend32_s"],
        [t |-> "i32", name |-> "wrap_i64"],
        [t |-> "i64", name |-> "extend_i32_s"],
        [t |-> "i64", name |-> "extend_i32_u"]}

Binary(i)  == i.name \in RelNames \cup BinNames \cup TryNames
(* The width of the operands: a conversion reads the other type.          *)
InWidth(i) == CASE i.name = "wrap_i64"     -> 2 * W
                [] i.name \in {"extend_i32_s", "extend_i32_u"} -> W
                [] OTHER -> Width(i.t)

(* Mutant: every comparison closure typed i32/i64, the _u ones included.   *)
RelopAllSigned(t, name, a, b) ==
  LET n == Width(t)
      x == Signed(n, a)
      y == Signed(n, b)
      r == CASE name = "eq" -> x = y
             [] name = "ne" -> x # y
             [] name \in {"lt_s", "lt_u"} -> x < y
             [] name \in {"gt_s", "gt_u"} -> x > y
             [] name \in {"le_s", "le_u"} -> x <= y
             [] name \in {"ge_s", "ge_u"} -> x >= y
  IN  Ok(IF r THEN 1 ELSE 0)

(* relop: the _u comparisons read u32/u64, all others i32/i64.             *)
Relop(t, name, a, b) ==
  LET n == Width(t)
      x == IF name \in {"lt_u", "gt_u", "le_u", "ge_u"} THEN a ELSE Signed(n, a)
      y == IF name \in {"lt_u", "gt_u", "le_u", "ge_u"} THEN b ELSE Signed(n, b)
      r == CASE name = "eq" -> x = y
             [] name = "ne" -> x # y
             [] name \in {"lt_s", "lt_u"} -> x < y
             [] name \in {"gt_s", "gt_u"} -> x > y
             [] name \in {"le_s", "le_u"} -> x <= y
             [] name \in {"ge_s", "ge_u"} -> x >= y
  IN  Ok(IF r THEN 1 ELSE 0)

(* binop: i32.add reads u32, the other arithmetic i32/i64; the bitwise     *)
(* operators act on the two's-complement patterns.                        *)
Binop(t, name, a, b) ==
  LET n == Width(t)
      s == Amount(t, b)
  IN  Ok(CASE name = "add"   -> IF t = "i32" THEN Bits(n, a + b)
                                ELSE Bits(n, Signed(n, a) + Signed(n, b))
           [] name = "sub"   -> Bits(n, Signed(n, a) - Signed(n, b))
           [] name = "mul"   -> Bits(n, Signed(n, a) * Signed(n, b))
           [] name = "and"   -> a & b
           [] name = "or"    -> a | b
           [] name = "xor"   -> a ^^ b
           [] name = "shl"   -> WrappingShl(n, a, s)
           [] name = "shr_s" -> WrappingShrS(n, a, s)
           [] name = "shr_u" -> WrappingShrU(n, a, s)
           [] name = "rotl"  -> RotateLeft(n, a, s)
           [] name = "rotr"  -> RotateRight(n, a, s))

(* try_binop: the closure's Err becomes Trap::Value.                       *)
TryBinop(t, name, a, b) ==
  LET n == Width(t)
  IN  CASE name = "div_s" -> TryWrappingDiv(TRUE, n, a, b)
        [] name = "div_u" -> TryWrappingDiv(FALSE, n, a, b)
        [] name = "rem_s" -> TryWrappingRem(TRUE, n, a, b)
        [] name = "rem_u" -> TryWrappingRem(FALSE, n, a, b)

(* testop and unop, the conversions included.                              *)
Unop(t, name, x) ==
  LET n == Width(t)
  IN  Ok(CASE name = "eqz"          -> IF x = 0 THEN 1 ELSE 0
           [] name = "clz"          -> LeadingZeros(n, x)
           [] name = "ctz"          -> TrailingZeros(n, x)
           [] name = "popcnt"       -> CountOnes(n, x)
           [] name = "extend8_s"    -> ExtendWithWidth(n, x, W \div 4)
           [] name = "extend16_s"   -> ExtendWithWidth(n, x, W \div 2)
           [] name = "extend32_s"   -> ExtendWithWidth(n, x, W)
           [] name = "wrap_i64"     -> Bits(W, x)
           [] name = "extend_i32_s" -> Bits(2 * W, Signed(W, x))
           [] name = "extend_i32_u" -> x)

(* execute_inst on a numeric instruction with operands a (and b).          *)
ExecNumeric(i, a, b) ==
  CASE i.name \in RelNames -> Relop(i.t, i.name, a, b)
    [] i.name \in BinNames -> Binop(i.t, i.name, a, b)
    [] i.name \in TryNames -> TryBinop(i.t, i.name, a, b)
    [] OTHER               -> Unop(i.t, i.name, a)
=============================================================================
