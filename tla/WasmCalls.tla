------------------------------ MODULE WasmCalls ------------------------------
(***************************************************************************)
(* Abstract specification of call and return (spec.md 4.1, 4.3): the      *)
(* activations of a run as a stack of <<function, pc>> pairs, the pc of a *)
(* suspended caller being where it resumes.  Within the running function  *)
(* any instruction may move the pc anywhere in its body; only `call`      *)
(* pushes an activation (the named defined function, at its first         *)
(* instruction, the caller resuming after the call), and only an          *)
(* instruction that can leave a function (end, return, a branch) pops the  *)
(* top one, the caller then resuming where it was suspended.  Labels and  *)
(* operand values are not visible at this level.                          *)
(***************************************************************************)
EXTENDS WasmCode

VARIABLES
  funcs,    \* the function index space, fixed by the loaded module
  acts,     \* the activations, entry first: [fn |-> f, idx |-> pc]
  astatus   \* "running", "end" (the entry function returned), "trap"

avars == <<funcs, acts, astatus>>

(* The instructions that may leave the current function.                   *)
ExitOps == {"end", "return", "br", "br_if", "br_table"}

Top    == acts[Len(acts)]
TopOp  == At(funcs[Top.fn].code, Top.idx)
SetTop(i) == [acts EXCEPT ![Len(acts)].idx = i]

Running == astatus = "running" /\ acts # <<>>

(* Any non-call instruction moves the pc within the body.                  *)
Move ==
  /\ Running
  /\ TopOp.op # "call"
  /\ \E i \in 0 .. Len(funcs[Top.fn].code) - 1 : acts' = SetTop(i)
  /\ UNCHANGED <<funcs, astatus>>

(* A call of a defined function pushes it; of a host function, returns.   *)
CallDefined ==
  /\ Running
  /\ TopOp.op = "call"
  /\ funcs[TopOp.f].kind = "defined"
  /\ acts' = Append(SetTop(Top.idx + 1), [fn |-> TopOp.f, idx |-> 0])
  /\ UNCHANGED <<funcs, astatus>>

CallHost ==
  /\ Running
  /\ TopOp.op = "call"
  /\ funcs[TopOp.f].kind = "host"
  /\ acts' = SetTop(Top.idx + 1)
  /\ UNCHANGED <<funcs, astatus>>

(* A callee leaves: its caller resumes where it was suspended.            *)
Leave ==
  /\ Running
  /\ Len(acts) > 1
  /\ TopOp.op \in ExitOps
  /\ acts' = Front(acts)
  /\ UNCHANGED <<funcs, astatus>>

(* The entry function leaves: the run ends.                                *)
Finish ==
  /\ Running
  /\ Len(acts) = 1
  /\ TopOp.op \in ExitOps
  /\ acts' = <<>>
  /\ astatus' = "end"
  /\ UNCHANGED funcs

(* An instruction traps after the pc moved past it; the run is over.      *)
Fail ==
  /\ Running
  /\ acts' = SetTop(Top.idx + 1)
  /\ astatus' = "trap"
  /\ UNCHANGED funcs

AInit ==
  /\ acts = << [fn |-> 1, idx |-> 0] >>
  /\ astatus = "running"

ANext == Move \/ CallDefined \/ CallHost \/ Leave \/ Finish \/ Fail

ASpec == AInit /\ [][ANext]_avars
=============================================================================
