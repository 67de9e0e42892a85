------------------------------ MODULE WasmTable ------------------------------
(***************************************************************************)
(* The table, reference, global and call_indirect instructions of the      *)
(* Executor (crates/vm/src/executor.rs 317-347, 379-495, 643-658) over the *)
(* module's tables, element segment 0 and one mutable global.  As in      *)
(* WasmMemory, each step is one execute_step whose operands are the values *)
(* validated code leaves on the stack, chosen from small sets; what the    *)
(* instruction pushes is kept in `pushed`, and the function a             *)
(* call_indirect invokes in `called`.                                      *)
(*                                                                         *)
(* i32 operands are W-bit unsigned patterns and `as usize` sign-extends    *)
(* them to UsizeBits bits.  TableInstance and ElementInstance (table.rs,   *)
(* elem.rs) are not part of the source tree and follow spec.md 3 and 4.2:  *)
(* get_at/set_at fail past the end, validate_region checks                 *)
(* `offset + len <= len` exactly, grow stays within the declared maximum,  *)
(* a dropped segment is empty.                                             *)
(***************************************************************************)
EXTENDS Integers, Sequences, SequencesExt

CONSTANTS
  W, UsizeBits,
  TableIds,     \* the module's tables (all funcref)
  TableMax,     \* their declared maximum
  InitTables,   \* the contents the tables may be instantiated with
  ElemExprs,    \* the constant expressions of (passive) element segment 0
  GlobalInits,  \* the constant expressions the global may be initialised by
  Imported,     \* the value of the imported global a global.get expression reads
  Funcs,        \* the module's functions, as model values
  FuncType,     \* the type index of each function's signature
  Types,        \* type indices a call_indirect may declare
  Null,         \* RefVal::NullRef(FuncRef)
  Idxs,         \* i32 operands used as table and segment offsets
  Lens,         \* i32 operands used as lengths and grow deltas
  GlobalVals,   \* values global.set may store
  BreakFuncs,   \* functions the Interceptor's invoke_func reports as Breakpoint
  MaxSteps      \* instructions executed per run

Mod   == 2 ^ W
USize == 2 ^ UsizeBits
Refs  == Funcs \cup {Null}

VARIABLES
  tables,   \* the references of each table
  elem,     \* the references of element segment 0 (<<>> once dropped)
  global,   \* the value of the global
  pushed,   \* what the last instruction pushed (an i32 or a reference)
  called,   \* the function the last call_indirect invoked, or Null
  status,   \* "running", "break" (invoke_func reported Breakpoint), "trap"
  trap,     \* the Trap that ended the run, or "none"
  steps,    \* instructions executed
  last      \* the instruction executed last, with its operands

vars == <<tables, elem, global, pushed, called, status, trap, steps, last>>

(* `x as usize` for an i32 x: a two's-complement sign extension.           *)
AsUsize(x) == IF x >= Mod \div 2 THEN x - Mod + USize ELSE x

(***************************************************************************)
(* eval_const_expr (executor.rs 1146-1174), which the Linker runs on the   *)
(* initialiser of a global and on every item of an element segment: a     *)
(* constant is its value (the float ones as bits), ref.null the null      *)
(* reference, ref.func the module's function, global.get the current      *)
(* value of the (imported) global it names.                                *)
(***************************************************************************)
EvalConstExpr(e) ==
  CASE e.op \in {"i32.const", "i64.const", "f32.const", "f64.const"} -> e.value
    [] e.op = "ref.null"   -> Null
    [] e.op = "ref.func"   -> e.f
    [] e.op = "global.get" -> Imported

-----------------------------------------------------------------------------
(* TableInstance / ElementInstance (spec.md 3): region checks and access.  *)
InRegion(rs, offset, len) == offset + len <= Len(rs)
Slice(rs, offset, len) == SubSeq(rs, offset + 1, offset + len)
Put(rs, offset, vals) ==
  [i \in 1 .. Len(rs) |->
     IF i > offset /\ i <= offset + Len(vals) THEN vals[i - offset] ELSE rs[i]]

-----------------------------------------------------------------------------
(* The end of one execute_step: a trap, or the Signal of the instruction.  *)
Trap(why) ==
  /\ status' = "trap"
  /\ trap' = why
  /\ UNCHANGED <<tables, elem, global, pushed, called>>

Done(ts, es, p, sig) ==
  /\ tables' = ts
  /\ elem' = es
  /\ pushed' = p
  /\ status' = IF sig = "Breakpoint" THEN "break" ELSE "running"
  /\ UNCHANGED <<trap, global, called>>

Exec(inst, A) ==
  /\ status = "running"
  /\ steps < MaxSteps
  /\ steps' = steps + 1
  /\ last' = inst
  /\ A

(* An executed instruction: the opcode, the table(s) it names, and its    *)
(* operands d (destination / index), s (source / reference), n (length).  *)
Inst(op, t, u, d, s, n) == [op |-> op, t |-> t, u |-> u, d |-> d, s |-> s, n |-> n]

-----------------------------------------------------------------------------
(* table.get: pop the index, get_at(index as usize), push the reference.   *)
TableGet ==
  \E t \in TableIds, i \in Idxs :
    Exec(Inst("table.get", t, t, i, Null, 0),
         IF AsUsize(i) >= Len(tables[t]) THEN Trap("Table")
         ELSE Done(tables, elem, tables[t][AsUsize(i) + 1], "Next"))

(* table.set: pop the reference, then the index, set_at.                   *)
TableSet ==
  \E t \in TableIds, i \in Idxs, r \in Refs :
    Exec(Inst("table.set", t, t, i, r, 0),
         IF AsUsize(i) >= Len(tables[t]) THEN Trap("Table")
         ELSE Done([tables EXCEPT ![t] = Put(@, AsUsize(i), <<r>>)], elem, pushed, "Next"))

(* table.size: buffer_len as i32.                                          *)
TableSize ==
  \E t \in TableIds :
    Exec(Inst("table.size", t, t, 0, Null, 0),
         Done(tables, elem, Len(tables[t]) % Mod, "Next"))

(* Mutant: grow without the declared maximum.                            *)
TableGrowUnbounded ==
  \E t \in TableIds, g \in Lens, r \in Refs :
    LET sz == Len(tables[t])  n == AsUsize(g)
    IN  Exec(Inst("table.grow", t, t, 0, r, g),
             Done([tables EXCEPT ![t] = @ \o [k \in 1 .. n |-> r]], elem, sz % Mod, "Next"))

(* table.grow: the size is read first, then n and the initial reference   *)
(* are popped and grow(n as usize, ref) either appends n copies or fails  *)
(* and pushes -1.                                                          *)
TableGrow ==
  \E t \in TableIds, g \in Lens, r \in Refs :
    LET sz == Len(tables[t])  n == AsUsize(g)
    IN  Exec(Inst("table.grow", t, t, 0, r, g),
             IF sz + n <= TableMax
               THEN Done([tables EXCEPT ![t] = @ \o [k \in 1 .. n |-> r]], elem,
                         sz % Mod, "Next")
               ELSE Done(tables, elem, Mod - 1, "Next"))

(* table.fill: pop n, the reference, the index; validate, then set_at     *)
(* each slot.                                                              *)
TableFill ==
  \E t \in TableIds, d \in Idxs, r \in Refs, n \in Lens :
    LET dd == AsUsize(d)  nn == AsUsize(n)
    IN  Exec(Inst("table.fill", t, t, d, r, n),
             IF ~InRegion(tables[t], dd, nn) THEN Trap("Table")
             ELSE Done([tables EXCEPT ![t] = Put(@, dd, [k \in 1 .. nn |-> r])],
                       elem, pushed, "Next"))

(* table.copy: pop n, src, dst; get_at every source slot (the first one   *)
(* past the end traps), validate both regions, then set_at them.           *)
TableCopy ==
  \E t \in TableIds, u \in TableIds, d \in Idxs, s \in Idxs, n \in Lens :
    LET dd == AsUsize(d)  ss == AsUsize(s)  nn == AsUsize(n)
    IN  Exec(Inst("table.copy", t, u, d, s, n),
             IF ~InRegion(tables[u], ss, nn) THEN Trap("Table")
             ELSE IF ~InRegion(tables[t], dd, nn) THEN Trap("Table")
             ELSE Done([tables EXCEPT ![t] = Put(@, dd, Slice(tables[u], ss, nn))],
                       elem, pushed, "Next"))

(* Mutant: the segment region is not validated before the copy loop, so  *)
(* the loop writes slots until elem.get_at fails.                          *)
TableInitUnchecked ==
  \E t \in TableIds, d \in Idxs, s \in Idxs, n \in Lens :
    LET dd == AsUsize(d)  ss == AsUsize(s)  nn == AsUsize(n)
        k  == IF ss >= Len(elem) THEN 0 ELSE Len(elem) - ss
    IN  Exec(Inst("table.init", t, t, d, s, n),
             IF ~InRegion(tables[t], dd, nn) THEN Trap("Table")
             ELSE IF ~InRegion(elem, ss, nn)
               THEN /\ tables' = [tables EXCEPT ![t] = Put(@, dd, Slice(elem, ss, k))]
                    /\ status' = "trap" /\ trap' = "Element"
                    /\ UNCHANGED <<elem, global, pushed, called>>
             ELSE Done([tables EXCEPT ![t] = Put(@, dd, Slice(elem, ss, nn))],
                       elem, pushed, "Next"))

(* table.init: pop n, src, dst; validate the table region, then the       *)
(* segment region (empty once dropped), then copy slot by slot.            *)
TableInit ==
  \E t \in TableIds, d \in Idxs, s \in Idxs, n \in Lens :
    LET dd == AsUsize(d)  ss == AsUsize(s)  nn == AsUsize(n)
    IN  Exec(Inst("table.init", t, t, d, s, n),
             IF ~InRegion(tables[t], dd, nn) THEN Trap("Table")
             ELSE IF ~InRegion(elem, ss, nn) THEN Trap("Element")
             ELSE Done([tables EXCEPT ![t] = Put(@, dd, Slice(elem, ss, nn))],
                       elem, pushed, "Next"))

(* elem.drop: drop_elem empties the segment.                              *)
ElemDrop == Exec(Inst("elem.drop", 0, 0, 0, Null, 0), Done(tables, <<>>, pushed, "Next"))

(* ref.null, ref.is_null, ref.func.                                        *)
RefNull == Exec(Inst("ref.null", 0, 0, 0, Null, 0), Done(tables, elem, Null, "Next"))

RefIsNull ==
  \E r \in Refs :
    Exec(Inst("ref.is_null", 0, 0, 0, r, 0),
         Done(tables, elem, IF r = Null THEN 1 ELSE 0, "Next"))

RefFunc ==
  \E f \in Funcs :
    Exec(Inst("ref.func", 0, 0, 0, f, 0), Done(tables, elem, f, "Next"))

(* global.get pushes the global's value; global.set pops one into it.      *)
GlobalGet == Exec(Inst("global.get", 0, 0, 0, Null, 0), Done(tables, elem, global, "Next"))

GlobalSet ==
  \E v \in GlobalVals :
    Exec(Inst("global.set", 0, 0, v, Null, 0),
         /\ global' = v
         /\ status' = "running"
         /\ UNCHANGED <<tables, elem, pushed, called, trap>>)

(* Mutant: the callee is invoked without comparing its signature.         *)
CallIndirectUnchecked ==
  \E t \in TableIds, ty \in Types, i \in Idxs :
    LET ii == AsUsize(i)
    IN  Exec(Inst("call_indirect", t, t, i, ty, 0),
             IF ii >= Len(tables[t]) THEN Trap("Table")
             ELSE LET f == tables[t][ii + 1]
                  IN  IF f = Null THEN Trap("UndefinedFunc")
                      ELSE /\ called' = f
                           /\ status' = IF f \in BreakFuncs THEN "break" ELSE "running"
                           /\ UNCHANGED <<tables, elem, global, pushed, trap>>)

(* call_indirect: pop the index, get_at it in the named table, trap on a   *)
(* null reference, compare the callee's type with the declared one, and   *)
(* invoke it; the Interceptor's invoke_func hook gives the Signal.         *)
CallIndirect ==
  \E t \in TableIds, ty \in Types, i \in Idxs :
    LET ii == AsUsize(i)
    IN  Exec(Inst("call_indirect", t, t, i, ty, 0),
             IF ii >= Len(tables[t]) THEN Trap("Table")
             ELSE LET f == tables[t][ii + 1]
                  IN  IF f = Null THEN Trap("UndefinedFunc")
                      ELSE IF FuncType[f] # ty THEN Trap("IndirectCallTypeMismatch")
                      ELSE /\ called' = f
                           /\ status' = IF f \in BreakFuncs THEN "break" ELSE "running"
                           /\ UNCHANGED <<tables, elem, global, pushed, trap>>)

(* The host calls execute_step again after a Breakpoint.                   *)
Continue ==
  /\ status = "break"
  /\ status' = "running"
  /\ UNCHANGED <<tables, elem, global, pushed, called, trap, steps, last>>

-----------------------------------------------------------------------------
Init ==
  /\ tables \in InitTables
  /\ elem = [i \in 1 .. Len(ElemExprs) |-> EvalConstExpr(ElemExprs[i])]
  /\ global \in {EvalConstExpr(g) : g \in GlobalInits}
  /\ pushed = 0
  /\ called = Null
  /\ status = "running"
  /\ trap = "none"
  /\ steps = 0
  /\ last = Inst("none", 0, 0, 0, Null, 0)

Next ==
  \/ TableGet \/ TableSet \/ TableSize \/ TableGrow
  \/ TableFill \/ TableCopy \/ TableInit \/ ElemDrop
  \/ RefNull \/ RefIsNull \/ RefFunc \/ GlobalGet \/ GlobalSet
  \/ CallIndirect \/ Continue

Spec == Init /\ [][Next]_vars

-----------------------------------------------------------------------------
(***************************************************************************)
(* Properties.  The reference is the Wasm semantics of spec.md 4.2: every  *)
(* i32 operand is a u32, a region [o, o + n) is in bounds iff              *)
(* o + n <= length, and fill/copy/init pre-validate, then perform.         *)
(***************************************************************************)
TypeOK ==
  /\ tables \in [TableIds -> Seq(Refs)]
  /\ \A t \in TableIds : Len(tables[t]) <= TableMax
  /\ elem \in Seq(Refs)
  /\ global \in {EvalConstExpr(g) : g \in GlobalInits} \cup GlobalVals
  /\ pushed \in (0 .. Mod - 1) \cup Refs
  /\ called \in Refs
  /\ status \in {"running", "break", "trap"}
  /\ steps \in 0 .. MaxSteps

(* A step that executed an instruction (Continue does not).                *)
Executed == steps' = steps + 1

TableOps == {"table.get", "table.set", "table.size", "table.grow",
             "table.fill", "table.copy", "table.init"}

(***************************************************************************)
(* Every table instruction does what Wasm prescribes, given the tables and *)
(* the segment as earlier instructions left them: it traps exactly when   *)
(* one of its regions is out of bounds, and then no table changed at all; *)
(* otherwise the destination slots hold the reference(s) the instruction  *)
(* names (for copy, what the source held before, even when the regions    *)
(* overlap), every other slot is kept, and get/size/grow push the slot,   *)
(* the length, and the length before the grow (or -1).                    *)
(***************************************************************************)
TableOpsMatchWasm ==
  [][Executed /\ last'.op \in TableOps =>
       LET op == last'.op  t == last'.t  u == last'.u
           d == last'.d  s == last'.s  n == last'.n
           T == tables[t]
           src(i) == CASE op = "table.fill" -> s
                       [] op = "table.copy" -> tables[u][i - d + s]
                       [] op = "table.init" -> elem[i - d + s]
                       [] OTHER             -> s
           width == IF op = "table.set" THEN 1 ELSE n
           fits == CASE op \in {"table.get", "table.set"} -> d < Len(T)
                     [] op = "table.fill" -> d + n <= Len(T)
                     [] op = "table.copy" -> d + n <= Len(T) /\ s + n <= Len(tables[u])
                     [] op = "table.init" -> d + n <= Len(T) /\ s + n <= Len(elem)
                     [] OTHER -> TRUE
           grows == op = "table.grow" /\ Len(T) + n <= TableMax
       IN  IF ~fits
             THEN status' = "trap" /\ tables' = tables
           ELSE /\ status' # "trap"
                /\ \A v \in TableIds \ {t} : tables'[v] = tables[v]
                /\ Len(tables'[t]) = Len(T) + (IF grows THEN n ELSE 0)
                /\ \A i \in 1 .. Len(tables'[t]) :
                     tables'[t][i] =
                       IF i > Len(T) THEN s
                       ELSE IF op \in {"table.set", "table.fill", "table.copy", "table.init"}
                               /\ d < i /\ i <= d + width
                              THEN src(i) ELSE T[i]
                /\ op = "table.get"  => pushed' = T[d + 1]
                /\ op = "table.size" => pushed' = Len(T)
                /\ op = "table.grow" => pushed' = IF grows THEN Len(T) ELSE Mod - 1]_vars

(***************************************************************************)
(* call_indirect invokes exactly the function the table holds at the      *)
(* index when that slot is in range, not null, and of the declared type,  *)
(* and otherwise traps without invoking anything (spec.md 4.1, 8.2).       *)
(***************************************************************************)
CallIndirectMatchesWasm ==
  [][Executed /\ last'.op = "call_indirect" =>
       LET T == tables[last'.t]  i == last'.d
           ok == i < Len(T) /\ T[i + 1] # Null /\ FuncType[T[i + 1]] = last'.s
       IN  IF ok THEN status' # "trap" /\ called' = T[i + 1]
                 ELSE status' = "trap" /\ called' = called]_vars
=============================================================================
