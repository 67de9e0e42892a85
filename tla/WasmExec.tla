------------------------------ MODULE WasmExec ------------------------------
(***************************************************************************)
(* The Executor of crates/vm/src/executor.rs: the program counter and the  *)
(* single Stack of operand values, Labels and Activations (call frames),   *)
(* driven one instruction per execute_step under an Interceptor that may   *)
(* report a breakpoint before an instruction or on entry to a function.    *)
(*                                                                         *)
(* Values are i32 only, kept modulo 2^W; floats, memories, tables and      *)
(* globals belong to other modules. The module (its function index space)  *)
(* is the variable `funcs`, fixed by Init: execution never changes it.     *)
(* A trap ends the run: the executor is dropped by its caller, so the      *)
(* stack left behind by a trap is only read by the End check of            *)
(* execute_inst (executor.rs 837-841).                                     *)
(***************************************************************************)
EXTENDS WasmCode, FiniteSets

CONSTANTS
  W,           \* bit width the i32 values are kept in
  Programs,    \* loadable modules: [funcs |-> <<function>>, args |-> {<<arg>>},
               \*   ref |-> the results the Wasm semantics allows for each args]
  BreakInsts,  \* instruction breakpoints, as <<function, index>> pairs
  BreakFuncs,  \* function breakpoints
  HostValues,  \* values a host function may return
  LineOf(_, _) \* source line of the instruction at <<function, index>>

ASSUME W \in Nat \ {0}

Mod == 2 ^ W

VARIABLES
  funcs,    \* function index space of the loaded module
  pc,       \* ProgramCounter: [fn |-> function, idx |-> 0-based InstIndex]
  stack,    \* Stack: sequence of value, label and frame entries
  status,   \* "running", "break" (suspended by a Breakpoint), "end", "trap"
  trap,     \* the Trap that ended the run, or "none"
  step,     \* the thread step command in progress, or NoStep
  entryArgs,\* the arguments the entry function was called with
  results   \* the ReturnValResult pop_result handed the host, or NoResult

vars == <<funcs, pc, stack, status, trap, step, entryArgs, results>>

NoResult == [ok |-> FALSE, vals |-> <<>>, why |-> "none"]

(* No step command is running: the executor runs freely or is suspended.  *)
NoStep == [style |-> "none"]

(* The saved return PC of the entry frame (ret_pc = None).                 *)
NoPC == [fn |-> 0, idx |-> 0]

Value(v)           == [t |-> "v", v |-> v]
Label(k, a, start) == [t |-> "l", k |-> k, arity |-> a, start |-> start]
Frame(f, ls, ret)  == [t |-> "f", fn |-> f, locals |-> ls, ret |-> ret]

Code       == funcs[pc.fn].code
Cur        == At(Code, pc.idx)
Inc(p)     == [p EXCEPT !.idx = @ + 1]

-----------------------------------------------------------------------------
(***************************************************************************)
(* Stack primitives (crates/vm/src/stack.rs, described in spec.md 3).      *)
(***************************************************************************)
TrailingValues(s) == Len(s) - SelectLastInSeq(s, LAMBDA e : e.t # "v")
CanPop(s, n)      == n <= TrailingValues(s)
TopValues(s, n)   == SubSeq(s, Len(s) - n + 1, Len(s))
DropTop(s, n)     == SubSeq(s, 1, Len(s) - n)
TopIs(s, kind)    == s # <<>> /\ Last(s).t = kind
FrameIndex(s)     == SelectLastInSeq(s, LAMBDA e : e.t = "f")
CurrentFrame(s)   == s[FrameIndex(s)]
IsOverTopLevel(s) == FrameIndex(s) = 0
(* The frame depth the debugger's step compares (spec.md 4.4).            *)
Depth(s)          == Len(SelectSeq(s, LAMBDA e : e.t = "f"))

(* Index of the label `depth` levels out within the current frame, or 0.   *)
FrameLabelIndex(s, depth) ==
  LET L == {j \in FrameIndex(s) + 1 .. Len(s) : s[j].t = "l"}
      J == {j \in L : Cardinality({m \in L : m > j}) = depth}
  IN  IF J = {} THEN 0 ELSE CHOOSE j \in J : TRUE

IsFuncTopLevel(s) ==
  FrameLabelIndex(s, 0) # 0 /\ s[FrameLabelIndex(s, 0)].k = "Return"

SetLocal(s, i, v) == [s EXCEPT ![FrameIndex(s)].locals[i + 1] = v]

-----------------------------------------------------------------------------
(* The result of executing one instruction: the state reached and the     *)
(* Signal, or the Trap and the stack at the point it was raised.          *)
Ok(s, p, sig)   == [ok |-> TRUE,  stack |-> s, pc |-> p, sig |-> sig, why |-> "none"]
Err(s, p, why)  == [ok |-> FALSE, stack |-> s, pc |-> p, sig |-> "Trap", why |-> why]

(* get_type_arity: <<params, results>> of a block type.                    *)
(* A block type is [kind |-> "empty" | "val" | "func", params, results]:  *)
(* EmptyBlockType, a single value type, or a function type of the module. *)
BlockArity(ty) ==
  CASE ty.kind = "empty" -> <<0, 0>>
    [] ty.kind = "val"   -> <<0, 1>>
    [] OTHER             -> <<ty.params, ty.results>>

(* Block, Loop and If without the condition: pop the params, push the      *)
(* label, push the params back.                                            *)
EnterBlock(s, p, lbl, nparams) ==
  IF ~CanPop(s, nparams) THEN Err(s, p, "Stack")
  ELSE Ok(DropTop(s, nparams) \o <<lbl>> \o TopValues(s, nparams), p, "Next")

BlockOutcome(s, p, ty) ==
  EnterBlock(s, p, Label("Block", BlockArity(ty)[2], 0), BlockArity(ty)[1])

(* Mutant: the loop start saved as the instruction after `loop`.          *)
LoopOutcomeAfterStart(s, p, ty) ==
  EnterBlock(s, p, Label("Loop", BlockArity(ty)[1], p.idx), BlockArity(ty)[1])

LoopOutcome(s, p, ty) ==
  EnterBlock(s, p, Label("Loop", BlockArity(ty)[1], p.idx - 1), BlockArity(ty)[1])

(* Mutant: the condition is read without being popped.                    *)
IfOutcomePeeks(s, p, ty) ==
  IF ~TopIs(s, "v") THEN Err(s, p, "Stack")
  ELSE LET o == EnterBlock(s, p, Label("If", BlockArity(ty)[2], 0), BlockArity(ty)[1])
       IN  IF o.ok /\ Last(s).v = 0
             THEN [o EXCEPT !.pc.idx = IfScan(funcs[p.fn].code, p.idx, 1)]
             ELSE o

IfOutcome(s, p, ty) ==
  IF ~TopIs(s, "v") THEN Err(s, p, "Stack")
  ELSE LET o == EnterBlock(Front(s), p, Label("If", BlockArity(ty)[2], 0),
                           BlockArity(ty)[1])
       IN  IF o.ok /\ Last(s).v = 0
             THEN [o EXCEPT !.pc.idx = IfScan(funcs[p.fn].code, p.idx, 1)]
             ELSE o

(* Mutant: the activation is unwound before the results are taken.        *)
DoReturnLosesResults(s, p) ==
  LET fr == CurrentFrame(s)
  IN  IF FrameIndex(s) = 0 THEN Err(s, p, "Stack")
      ELSE Ok(SubSeq(s, 1, FrameIndex(s) - 1), IF fr.ret # NoPC THEN fr.ret ELSE p, "Next")

(* do_return: pop the results, unwind to the activation, pop it, push the  *)
(* results and resume the caller (the pc is left alone for the entry).    *)
DoReturn(s, p) ==
  LET fr == CurrentFrame(s)
      n  == funcs[p.fn].results
  IN  IF FrameIndex(s) = 0 \/ ~CanPop(s, n) THEN Err(s, p, "Stack")
      ELSE LET s1 == SubSeq(s, 1, FrameIndex(s) - 1) \o TopValues(s, n)
           IN  Ok(s1, IF fr.ret # NoPC THEN fr.ret ELSE p, "Next")

(* branch(depth): keep the target label's arity values, pop depth + 1      *)
(* label scopes, then continue at the loop start, return, or skip past    *)
(* the target's `end`.                                                     *)
Branch(s, p, depth) ==
  LET j == FrameLabelIndex(s, depth)
      L == s[j]
  IN  IF j = 0 \/ ~CanPop(s, L.arity) THEN Err(s, p, "Stack")
      ELSE LET s1 == SubSeq(s, 1, j - 1) \o TopValues(s, L.arity)
           IN  CASE L.k = "Loop"   -> Ok(s1, [p EXCEPT !.idx = L.start], "Next")
                 [] L.k = "Return" -> DoReturn(s1, p)
                 [] OTHER ->
                      Ok(s1, [p EXCEPT !.idx =
                                BranchScan(funcs[p.fn].code, p.idx, depth + 1)],
                         "Next")

(* End of a function body (ret_pc restored, or Signal::End for the entry)  *)
(* or of a block (the operand run above the label is kept).               *)
EndOutcome(s, p) ==
  IF IsFuncTopLevel(s)
    THEN LET fr == CurrentFrame(s)
             n  == funcs[p.fn].results
             s1 == DropTop(s, n)
         IN  IF ~CanPop(s, n) \/ ~TopIs(s1, "l") \/ ~TopIs(Front(s1), "f")
               THEN Err(s, p, "Stack")
             ELSE LET s2 == DropTop(s1, 2) \o TopValues(s, n)
                  IN  IF fr.ret # NoPC THEN Ok(s2, fr.ret, "Next")
                                       ELSE Ok(s2, p, "End")
    ELSE LET n  == TrailingValues(s)
             s1 == DropTop(s, n)
         IN  IF ~TopIs(s1, "l") THEN Err(s1, p, "Stack")
             ELSE Ok(Front(s1) \o TopValues(s, n), p, "Next")

(* Mutant: the frame saves the pc of the `call` itself.                   *)
InvokeSavesCallPC(f, s, p, host) ==
  LET F == funcs[f]
  IN  IF f \notin DOMAIN funcs \/ F.params > TrailingValues(s) \/ F.kind # "defined"
        THEN Err(s, p, "UndefinedFunc")
      ELSE Ok(DropTop(s, F.params)
                \o << Frame(f, [i \in 1 .. F.params |-> TopValues(s, F.params)[i].v]
                                \o [i \in 1 .. F.locals |-> 0], [p EXCEPT !.idx = @ - 1]),
                     Label("Return", F.results, 0) >>,
              [fn |-> f, idx |-> 0], "Next")

(* invoke: pop the callee's params; a defined callee gets a new frame      *)
(* saving the (already advanced) pc and a Return label, and the            *)
(* Interceptor's invoke_func decides the Signal; a host callee's body      *)
(* either fails (host.fail) or returns host.vals as its results.           *)
Invoke(f, s, p, host) ==
  LET F == funcs[f]
      k == IF F.params <= TrailingValues(s) THEN F.params ELSE TrailingValues(s)
  IN  IF f \notin DOMAIN funcs THEN Err(s, p, "UndefinedFunc")
      ELSE IF k < F.params THEN Err(DropTop(s, k), p, "DirectCallTypeMismatch")
      ELSE LET args == [i \in 1 .. F.params |-> TopValues(s, F.params)[i].v]
               s1   == DropTop(s, F.params)
           IN  IF F.kind = "defined"
                 THEN Ok(s1 \o << Frame(f, args \o [i \in 1 .. F.locals |-> 0], p),
                                  Label("Return", F.results, 0) >>,
                         [fn |-> f, idx |-> 0],
                         IF f \in BreakFuncs THEN "Breakpoint" ELSE "Next")
               ELSE IF host.fail THEN Err(s1, p, "HostFunctionError")
               ELSE Ok(s1 \o [i \in 1 .. Len(host.vals) |-> Value(host.vals[i])],
                       p, "Next")

(* What a host body may hand back for function f (nothing when defined).  *)
HostOutcomes(f) ==
  IF funcs[f].kind = "host"
    THEN {[fail |-> FALSE, vals |-> r] : r \in [1 .. funcs[f].results -> HostValues]}
         \cup {[fail |-> TRUE, vals |-> <<>>]}
    ELSE {[fail |-> FALSE, vals |-> <<>>]}

I32Add(a, b) == (a + b) % Mod
(* Mutant: subtraction without the wrap to 32 bits.                        *)
I32SubNoWrap(a, b) == a - b
I32Sub(a, b) == (a - b) % Mod
I32Eqz(a)    == IF a = 0 THEN 1 ELSE 0

(* The numeric operator of an opcode.                                      *)
Apply1(op, a)    == CASE op = "i32.eqz" -> I32Eqz(a)
Apply2(op, a, b) == CASE op = "i32.add" -> I32Add(a, b)
                      [] op = "i32.sub" -> I32Sub(a, b)

(* unop / binop over i32 operands popped with pop_as (rhs first).          *)
Unop(s, p, op) ==
  IF ~TopIs(s, "v") THEN Err(s, p, "Stack")
  ELSE Ok(Append(Front(s), Value(Apply1(op, Last(s).v))), p, "Next")

Binop(s, p, op) ==
  IF ~CanPop(s, 2) THEN Err(DropTop(s, TrailingValues(s)), p, "Stack")
  ELSE LET rhs == s[Len(s)].v
           lhs == s[Len(s) - 1].v
       IN  Ok(Append(DropTop(s, 2), Value(Apply2(op, lhs, rhs))), p, "Next")

SelectOutcome(s, p) ==
  IF ~CanPop(s, 3) THEN Err(DropTop(s, TrailingValues(s)), p, "Stack")
  ELSE LET cond == s[Len(s)].v
           val2 == s[Len(s) - 1]
           val1 == s[Len(s) - 2]
       IN  Ok(Append(DropTop(s, 3), IF cond # 0 THEN val1 ELSE val2), p, "Next")



-----------------------------------------------------------------------------
(***************************************************************************)
(***************************************************************************)
(* The thread step commands (commands/thread.rs 84-113) over the          *)
(* debugger's step(style) (spec.md 4.4): InstIn is one execute_step,      *)
(* InstOver loops until the frame depth is back to at most the depth D it *)
(* started at, Out until it is below D; a Breakpoint reported in between  *)
(* does not end the loop.  step-in and step-over repeat their inst-level  *)
(* step while the next instruction is still on the starting source line.  *)
(* A Trap (the `?`) or End ends the command.                              *)
(***************************************************************************)
StepStyles  == {"step-in", "step-over", "step-out", "step-inst-in", "step-inst-over"}
SourceLevel == {"step-in", "step-over"}

(* Mutant: the arms of the step-in / step-over match swapped.             *)
InstStyleSwapped(style) ==
  CASE style \in {"step-over", "step-inst-in"}    -> "InstIn"
    [] style \in {"step-in", "step-inst-over"}    -> "InstOver"
    [] OTHER                                     -> "Out"

InstStyle(style) ==
  CASE style \in {"step-in", "step-inst-in"}     -> "InstIn"
    [] style \in {"step-over", "step-inst-over"} -> "InstOver"
    [] OTHER                                     -> "Out"

(* Mutant: step-out stops once the depth is back to D, not below it.     *)
InstStepDoneOutInclusive(style, d, s) ==
  CASE style = "InstIn"   -> TRUE
    [] style = "InstOver" -> Depth(s) <= d
    [] style = "Out"      -> Depth(s) <= d

InstStepDone(style, d, s) ==
  CASE style = "InstIn"   -> TRUE
    [] style = "InstOver" -> Depth(s) <= d
    [] style = "Out"      -> Depth(s) < d

StepDone(cmd, s, p) ==
  /\ InstStepDone(InstStyle(cmd.style), cmd.depth, s)
  /\ cmd.style \in SourceLevel => LineOf(p.fn, p.idx) # cmd.line

(* The command after one more execute_step that did not end the run: done, *)
(* or still looping, a finished inst-level step of a source-level command  *)
(* starting the next one at the depth reached.                            *)
StepAfter(cmd, s, p) ==
  IF cmd = NoStep \/ StepDone(cmd, s, p) THEN NoStep
  ELSE IF InstStepDone(InstStyle(cmd.style), cmd.depth, s)
         THEN [cmd EXCEPT !.depth = Depth(s)]
       ELSE cmd

(* execute_step: the Interceptor's execute_inst hook is asked first, the   *)
(* instruction runs (execute_inst advances the pc before dispatching),     *)
(* a stack left without any frame turns the result into Signal::End, and  *)
(* the two Signals are merged: End wins, Next defers to the hook, any      *)
(* other Signal of the instruction wins.                                   *)
(***************************************************************************)
Retire(o) ==
  LET hook == IF <<pc.fn, pc.idx>> \in BreakInsts THEN "Breakpoint" ELSE "Next"
      sig  == IF IsOverTopLevel(o.stack) THEN "End"
              ELSE IF ~o.ok THEN "Trap"
              ELSE IF o.sig = "Next" THEN hook
              ELSE o.sig
  IN  /\ stack' = o.stack
      /\ pc' = o.pc
      /\ step' = IF sig \in {"End", "Trap"} THEN NoStep
                 ELSE StepAfter(step, o.stack, o.pc)
      /\ status' = CASE sig = "End"  -> "end"
                     [] sig = "Trap" -> "trap"
                     [] step # NoStep -> IF step' = NoStep THEN "break"
                                                         ELSE "running"
                     [] sig = "Breakpoint" -> "break"
                     [] OTHER -> "running"
      /\ trap' = IF sig = "Trap" THEN o.why ELSE trap
      /\ UNCHANGED <<funcs, entryArgs, results>>

(* The executor is running and the next instruction has opcode op (an     *)
(* index past the body would be Trap::NoMoreInstruction; validated bodies  *)
(* end with `end`, so it is never reached).                                *)
Fetched(op) ==
  /\ status = "running"
  /\ pc.idx < Len(Code)
  /\ Cur.op = op

(* One execute_step on an instruction with opcode op; the outcome is       *)
(* evaluated once, as execute_inst runs once.                              *)
Step(op, o) == Fetched(op) /\ \E r \in {o} : Retire(r)

P == Inc(pc)

Unreachable == Step("unreachable", Err(stack, P, "Unreachable"))
Nop         == Step("nop", Ok(stack, P, "Next"))
Block       == Step("block", BlockOutcome(stack, P, Cur.ty))
Loop        == Step("loop", LoopOutcome(stack, P, Cur.ty))
If          == Step("if", IfOutcome(stack, P, Cur.ty))
Else        == Step("else", Branch(stack, P, 0))
End         == Step("end", EndOutcome(stack, P))
Br          == Step("br", Branch(stack, P, Cur.depth))
(* Mutant: the br_if condition compared against a value of another type,  *)
(* so every condition counts as non-zero.                                   *)
BrIfAlwaysTaken == Step("br_if",
                     IF ~TopIs(stack, "v") THEN Err(stack, P, "Stack")
                     ELSE Branch(Front(stack), P, Cur.depth))
BrIf        == Step("br_if",
                 IF ~TopIs(stack, "v") THEN Err(stack, P, "Stack")
                 ELSE IF Last(stack).v # 0 THEN Branch(Front(stack), P, Cur.depth)
                 ELSE Ok(Front(stack), P, "Next"))
BrTable     == Step("br_table",
                 IF ~TopIs(stack, "v") THEN Err(stack, P, "Stack")
                 ELSE LET v == Last(stack).v
                      IN  Branch(Front(stack), P,
                                 IF v < Len(Cur.table) THEN Cur.table[v + 1]
                                                       ELSE Cur.default))
Return      == Step("return", DoReturn(stack, P))
Call        == /\ Fetched("call")
               /\ \E h \in HostOutcomes(Cur.f) : \E r \in {Invoke(Cur.f, stack, P, h)} : Retire(r)
Drop        == Step("drop", IF ~TopIs(stack, "v") THEN Err(stack, P, "Stack")
                            ELSE Ok(Front(stack), P, "Next"))
Select      == Step("select", SelectOutcome(stack, P))
LocalGet    == Step("local.get",
                 Ok(Append(stack, Value(CurrentFrame(stack).locals[Cur.local + 1])),
                    P, "Next"))
LocalSet    == Step("local.set",
                 IF ~TopIs(stack, "v") THEN Err(stack, P, "Stack")
                 ELSE Ok(SetLocal(Front(stack), Cur.local, Last(stack).v), P, "Next"))
LocalTee    == Step("local.tee",
                 IF ~TopIs(stack, "v") THEN Err(stack, P, "Stack")
                 ELSE Ok(SetLocal(stack, Cur.local, Last(stack).v), P, "Next"))
Const       == Step("i32.const", Ok(Append(stack, Value(Cur.value)), P, "Next"))
Eqz         == Step("i32.eqz", Unop(stack, P, "i32.eqz"))
Add         == Step("i32.add", Binop(stack, P, "i32.add"))
Sub         == Step("i32.sub", Binop(stack, P, "i32.sub"))

(* The host calls execute_step again after a Breakpoint.                   *)
Continue ==
  /\ status = "break"
  /\ status' = "running"
  /\ UNCHANGED <<funcs, pc, stack, trap, step, entryArgs, results>>

(* A thread step command at the prompt of a suspended executor.  The      *)
(* starting depth, pc and return pc of the current frame (depth0, from,   *)
(* ret) are kept with it only for the properties below.                   *)
StepCommand ==
  /\ status = "break"
  /\ \E style \in StepStyles :
       step' = [style |-> style, depth |-> Depth(stack), depth0 |-> Depth(stack),
                line |-> LineOf(pc.fn, pc.idx),
                from |-> pc, ret |-> CurrentFrame(stack).ret]
  /\ status' = "running"
  /\ UNCHANGED <<funcs, pc, stack, trap, entryArgs, results>>

(***************************************************************************)
(* pop_result (executor.rs 158-168), called by the host after End: one    *)
(* pop_value per return type, last type first, each checked with isa (an  *)
(* i32 always is one here), then the popped values reversed.  A pop that  *)
(* meets no value is ReturnValError::Stack.                               *)
(***************************************************************************)
(* Mutant: the popped values handed back without the final reverse.       *)
PopResultUnreversed(s, n) ==
  IF ~CanPop(s, n) THEN [ok |-> FALSE, vals |-> <<>>, why |-> "Stack"]
  ELSE [ok |-> TRUE, vals |-> [i \in 1 .. n |-> s[Len(s) - i + 1].v], why |-> "none"]

PopResultOf(s, n) ==
  IF ~CanPop(s, n) THEN [ok |-> FALSE, vals |-> <<>>, why |-> "Stack"]
  ELSE [ok |-> TRUE, vals |-> Reverse([i \in 1 .. n |-> s[Len(s) - i + 1].v]),
        why |-> "none"]

PopResult ==
  /\ status = "end"
  /\ results = NoResult
  /\ results' = PopResultOf(stack, funcs[1].results)
  /\ stack' = DropTop(stack, IF CanPop(stack, funcs[1].results)
                              THEN funcs[1].results ELSE TrailingValues(stack))
  /\ UNCHANGED <<funcs, pc, status, trap, step, entryArgs>>

-----------------------------------------------------------------------------
(* Executor::new: the entry frame (no return PC) under its Return label.   *)
Init ==
  \E prog \in Programs, args \in UNION {P0.args : P0 \in Programs} :
    /\ args \in prog.args
    /\ funcs = prog.funcs
    /\ pc = [fn |-> 1, idx |-> 0]
    /\ stack = << Frame(1, args \o [i \in 1 .. prog.funcs[1].locals |-> 0], NoPC),
                  Label("Return", prog.funcs[1].results, 0) >>
    /\ status = "running"
    /\ trap = "none"
    /\ step = NoStep
    /\ entryArgs = args
    /\ results = NoResult

ExecuteStep ==
  \/ Unreachable \/ Nop \/ Block \/ Loop \/ If \/ Else \/ End
  \/ Br \/ BrIf \/ BrTable \/ Return \/ Call
  \/ Drop \/ Select \/ LocalGet \/ LocalSet \/ LocalTee
  \/ Const \/ Eqz \/ Add \/ Sub

Next == ExecuteStep \/ Continue \/ StepCommand \/ PopResult

(* The run loop keeps calling execute_step until End or a trap; resuming   *)
(* from a breakpoint is the user's choice and is not assumed.              *)
Spec == Init /\ [][Next]_vars /\ WF_vars(ExecuteStep)

-----------------------------------------------------------------------------
(***************************************************************************)
(* Properties.                                                             *)
(***************************************************************************)
Entry == [t : {"v"}, v : 0 .. Mod - 1]
          \cup [t : {"l"}, k : {"Block", "Loop", "If", "Return"},
                arity : Nat, start : Nat]
          \cup [t : {"f"}, fn : DOMAIN funcs, locals : Seq(0 .. Mod - 1),
                ret : [fn : Nat, idx : Nat]]

TypeOK ==
  /\ pc \in [fn : DOMAIN funcs, idx : Nat]
  /\ stack \in Seq(Entry)
  /\ status \in {"running", "break", "end", "trap"}
  /\ \/ step = NoStep
     \/ step.style \in StepStyles /\ step.depth \in 1 .. Len(stack)
  /\ results \in [ok : BOOLEAN, vals : Seq(0 .. Mod - 1), why : {"none", "Stack"}]

(* Indices of the frames on the stack, bottom first.                       *)
Frames == SetToSortSeq({j \in 1 .. Len(stack) : stack[j].t = "f"}, <)

(* The pc a frame is at: the current pc for the innermost frame, else the  *)
(* return pc saved by the frame above it.                                  *)
FramePC(m) == IF m = Len(Frames) THEN pc ELSE stack[Frames[m + 1]].ret

(* The labels of the m-th frame, bottom first.                             *)
FrameLabels(m) ==
  LET hi == IF m = Len(Frames) THEN Len(stack) ELSE Frames[m + 1] - 1
  IN  SelectSeq(SubSeq(stack, Frames[m] + 1, hi), LAMBDA e : e.t = "l")

(* The label the opener at index j of code pushes.                         *)
LabelOf(code, j) ==
  LET ins == At(code, j)
  IN  CASE ins.op = "block" -> Label("Block", BlockArity(ins.ty)[2], 0)
        [] ins.op = "if"    -> Label("If", BlockArity(ins.ty)[2], 0)
        [] ins.op = "loop"  -> Label("Loop", BlockArity(ins.ty)[1], j)

(***************************************************************************)
(* At every instruction boundary, each activation's labels are exactly its *)
(* Return label followed by one label per block, loop and if enclosing the *)
(* instruction that activation will execute next, with the arity and loop  *)
(* start the opener declares.  The Executor never builds this from the     *)
(* code: it follows from the scans of If and branch, the number of labels  *)
(* a branch pops, the loop start it jumps to and the pc a call saves.      *)
(***************************************************************************)
LabelsMatchCode ==
  status \in {"running", "break"} =>
    \A m \in 1 .. Len(Frames) :
      LET f  == stack[Frames[m]].fn
          ob == OpenBlocks(funcs[f].code, FramePC(m).idx)
      IN  /\ stack[Frames[m] + 1] = Label("Return", funcs[f].results, 0)
          /\ FrameLabels(m) = << Label("Return", funcs[f].results, 0) >>
                \o [i \in 1 .. Len(ob) |-> LabelOf(funcs[f].code, ob[i])]

(***************************************************************************)
(* Every suspended caller resumes right after the `call` of the function   *)
(* whose frame sits above it, and only the entry frame has no return pc:   *)
(* invoke saves the pc after execute_inst advanced it, and returns         *)
(* (End, return, a branch to the Return label) restore it.                 *)
(***************************************************************************)
ReturnAddressesFollowCalls ==
  status \in {"running", "break"} =>
    /\ Frames # <<>>
    /\ stack[Frames[1]].ret = NoPC
    /\ \A m \in 2 .. Len(Frames) :
         LET r == stack[Frames[m]].ret
         IN  /\ r.fn = stack[Frames[m - 1]].fn
             /\ r.idx >= 1
             /\ At(funcs[r.fn].code, r.idx - 1) = [op |-> "call", f |-> stack[Frames[m]].fn]

(***************************************************************************)
(* Validated code never traps on the stack: the only traps of these        *)
(* programs are `unreachable` and a failing host function.                 *)
(***************************************************************************)
NoStackTrap ==
  status = "trap" => trap \in {"Unreachable", "HostFunctionError"}

(***************************************************************************)
(* Driven by the run loop, every run of the executor stops: at End, at a   *)
(* trap, or at a breakpoint.                                               *)
(***************************************************************************)
RunStops == (status = "running") ~> (status # "running")

(***************************************************************************)
(* A Breakpoint suspends the step before the instruction it was reported   *)
(* for (spec.md 4.3 and 7: the pre-hook converts a trap into a breakpoint  *)
(* "only by not executing the offending instruction"): a suspended         *)
(* executor is at an instruction breakpoint or at the entry of a function  *)
(* breakpoint.                                                             *)
(***************************************************************************)
BreakBeforeInstruction ==
  status = "break" =>
    \/ <<pc.fn, pc.idx>> \in BreakInsts
    \/ pc.idx = 0 /\ pc.fn \in BreakFuncs

(***************************************************************************)
(* A run that ends hands the host, through pop_result, exactly the results *)
(* the Wasm semantics gives the entry function on its arguments, in the   *)
(* declared order, and leaves nothing behind on the stack: the whole chain *)
(* of blocks, branches, calls, returns, End and the reversal in            *)
(* pop_result, whatever breakpoints and step commands interrupted it.      *)
(***************************************************************************)
ReturnsWasmResults ==
  results # NoResult =>
    \E prog \in Programs :
      /\ prog.funcs = funcs
      /\ entryArgs \in prog.args
      /\ results.ok
      /\ results.vals \in prog.ref[entryArgs]
      /\ stack = <<>>

(***************************************************************************)
(* step-inst-over on a `call` treats the callee as one atomic advance      *)
(* (spec.md 4.4): when the command hands the prompt back, the caller is    *)
(* at the instruction after the call, at its own depth, however many      *)
(* steps, nested calls and ignored breakpoints the callee took.  It rests  *)
(* on the pc invoke saves, on every way a function returns restoring it,  *)
(* and on the depth test of the step loop.                                 *)
(***************************************************************************)
StepOverSkipsCall ==
  [][/\ step.style = "step-inst-over"
     /\ status' = "break"
     /\ At(funcs[step.from.fn].code, step.from.idx).op = "call"
     => pc' = Inc(step.from) /\ Depth(stack') = step.depth]_vars

(***************************************************************************)
(* step-over (thread.rs 84-99) never stops inside a function the line     *)
(* called, even when the callee's code shares the line (a recursive call) *)
(* and the loop runs many inst-level steps: when it hands the prompt      *)
(* back, the frame depth is at most the depth it started at.              *)
(***************************************************************************)
StepOverStaysOut ==
  [][step.style = "step-over" /\ status' = "break" => Depth(stack') <= step.depth0]_vars

(***************************************************************************)
(* step-out stops in the caller, exactly where the frame it started in    *)
(* was to return to, one frame shallower: not before the frame has gone,  *)
(* and not further out.                                                    *)
(***************************************************************************)
StepOutReturnsToCaller ==
  [][step.style = "step-out" /\ status' = "break"
     => pc' = step.ret /\ Depth(stack') = step.depth - 1]_vars

-----------------------------------------------------------------------------
(***************************************************************************)
(* Refinement of the call-and-return specification WasmCalls: the          *)
(* activations are the frames on the stack, each at the pc it will run    *)
(* next (FramePC), and a suspended breakpoint is still a running program. *)
(***************************************************************************)
AbsActs == [m \in 1 .. Len(Frames) |->
              [fn |-> stack[Frames[m]].fn, idx |-> FramePC(m).idx]]

AbsStatus == IF status = "break" THEN "running" ELSE status

CallStack == INSTANCE WasmCalls WITH acts <- AbsActs, astatus <- AbsStatus

(***************************************************************************)
(* Every run of the Executor is a run of WasmCalls: a step changes the     *)
(* frames only by pushing the function a `call` names (the caller resuming *)
(* right after it) or by popping the top frame at an instruction that can  *)
(* leave a function, and End comes exactly when the entry frame goes.      *)
(***************************************************************************)
CallsRefined == CallStack!ASpec
=============================================================================
