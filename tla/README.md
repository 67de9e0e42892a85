# TLA+ models of wasminspect

This directory holds TLA+ models of the wasminspect WebAssembly interpreter and debugger. Each model is checked with TLC. Every module is translated from the Rust source under `src/`. `PROJECT.json` gives the source lines behind each definition (`map`), and it lists the runs, the mutants, the findings and the hazards.

## The system and its parts

- **Executor** (`crates/vm/src/executor.rs`). `execute_step` runs one instruction of the current function:
  1. It fetches the instruction at the program counter.
  2. It calls the Interceptor's `execute_inst` hook.
  3. It runs `execute_inst`.
  4. It merges the hook's Signal with the instruction's result.

  Control flow is kept on one stack of values, labels and call frames. `stack.rs` is not in the tree, so the stack is modelled from `spec.md` §3.
  - A false `if`, and a branch to a block, find their target by scanning forward through the instruction stream.
  - `invoke` pushes a frame holding the return pc. A host function is called inline.
  - Memory instructions go through `mem_addr`, `load`, `store`, and the `validate_region` checks of the memory instance.
- **Executor, other instructions.** Table, reference and global instructions and `call_indirect` (executor.rs 317-347, 379-495, 643-665) work like the memory ones: they pre-validate a region, then write it. The integer numeric instructions go through `testop`/`relop`/`binop`/`try_binop`/`unop` (911-957). Each uses a closure whose Rust types decide the signedness.
- **Debugger** (`crates/debugger`).
  - `lib.rs` `run_loop` first dispatches the lines of an init file. That file is `init_source`, or `~/.wasminspect_init` when none is given.
  - It then enters `Process::run_loop`.
  - `Process::run_step` reads one line. An empty line repeats the last non-empty one. `dispatch_command` resolves commands, aliases, `help` and `start-server`.
  - `run_step` reads with a timeout; `run_loop` has none.
  - The `thread` step commands (`commands/thread.rs`) drive the executor from the prompt. `step-inst-in`, `step-inst-over` and `step-out` are one call of `debugger.step(style)`. `step-in` and `step-over` repeat the inst-level step while the next instruction stays on the starting source line. `debugger.step` is not in the tree: spec.md 4.4 says InstOver loops `execute_step` until the frame depth is back to at most its starting depth, and Out until it is below.
- **Debugger server** (`crates/debugger-server`). `socket.rs` serves one WebSocket connection at a time, guarded by the process-wide tokio mutex `CONNECTION_LOCK`.
  - Each connection spawns a debugger thread. Unless `WASMINSPECT_SERVER_NO_INTERACTIVE` is set, that thread first runs a REPL on the server terminal. The REPL polls `connection_finished` every 500 ms.
  - The thread then serves the requests the reader task forwards over a channel, until it receives `None`.
  - `debugger_proxy.rs` answers the requests. A `CallExported` that stops at a breakpoint enters `run_loop` and waits for the user to type "process continue".
  - The two files come from different revisions. `socket.rs` calls a 5-argument `handle_request` and uses `ProcessRef` and `Interactive`, which the debugger crate in the tree does not export. The `debugger_proxy.rs` in the tree has a 3-argument `handle_request`. `DebuggerServer` takes the connection handling from `socket.rs` and the request handling from `debugger_proxy.rs`. The REPL's `Interactive::run_step` is not in the tree; the model takes its results from the `match` in `socket.rs` 170-181.
  - The reader task can leave in three ways:
    - the stream ends: the epilogue sets the flag, sends `None` and joins the thread;
    - a read error: it sends `None` and returns;
    - a failed forward: it returns.
- **Spec-test driver** (`crates/wast-spec`). `WastContext::run_buffer` runs the directives of a `.wast` script in order against a `WasmInstance`. `module` validates, instantiates and runs the start function, and only then makes the module current and binds its id. `register` names a module for later imports. The assertions run a call, a global read or a module and compare the outcome with the expected values or message. A failed directive returns Err or panics; the script passes when every directive continues.

## Modules

| Module | Models | State ↔ code |
|---|---|---|
| `WasmCalls` | The abstract specification of calls (spec.md 4.1, 4.3): a stack of activations `<<function, pc>>`. `call` pushes the callee. Only an instruction that can leave a function pops one. Labels and operands are invisible at this level. | `WasmExec` refines it: `AbsActs` maps each frame of `stack` to its function and pc (the current pc for the top frame, the saved `ret_pc` of the frame above for the others). `AbsStatus` maps `status`. |
| `WasmTable` | `table.get/set/size/grow/fill/copy/init`, `elem.drop`, `ref.null/is_null/func`, `global.get/set` and `call_indirect`, with the same pre-hook merge as `execute_step`. | `tables`, `elem` and `global` are the store's instances. `pushed` is the value left on the stack. `called` is the function `call_indirect` invoked. Element segment 0 and the global are initialised by `EvalConstExpr` (`eval_const_expr`) from constant expressions (`ref.func`, `ref.null`, `i32.const`, `global.get` of an imported global), as the Linker does. Operands are W-bit words reinterpreted `as usize` on a `UsizeBits` host, as in `WasmMemory`. |
| `WasmNumeric` | The integer numeric instructions (executor.rs 683-705, 727-763, 795-801, 817-821) and their helpers, as pure operators. The division and sign-extension helpers of `value.rs`, which is not in the tree, are taken from spec.md 4.3. | Values are bit patterns. i32 is `W` bits and i64 is `2W`. `Signed` is `pop_as` of a signed type, `Bits` the wrapping store, and `Amount` the `b as u32` of the i64 shifts. |
| `DebuggerCli` | `lib.rs` `run_loop` (the init file) and `process.rs` `run_step`/`run_loop`/`dispatch_command`. | `phase` says where `run_loop` is. `pending`/`initRan` are the init lines. `lastLine` is `last_line`. `typed` is the input history and `ran` the line last dispatched. A path is a record of components, resolved against `cwd` as `File::open` does. `Dispatch` is recursive over aliases. |
| `WasmCode` | The two forward scans: `IfScan` (executor.rs 235-257) and `BranchScan` (`branch`, 890-906). It also holds the reference block structure (`OpenBlocks`, `MatchingEnd`, `MatchingElse`, `WellNested`). | Pure operators over an instruction sequence. |
| `WasmExec` | `execute_step` and `execute_inst` for control instructions, calls (defined and host), locals, `drop`, `select`, `i32.const`, `i32.eqz`, `i32.add`, `i32.sub`. Also covers `invoke`, `do_return` and the End check. | `pc` is the ProgramCounter. `stack` is the Stack: values, labels (`Block`/`Loop`/`If`/`Return`) and frames (locals, `ret_pc`). `status` is the last Signal; `trap` is the Trap. `PopResult` is the host's `pop_result` after End, into `results`; `entryArgs` are the entry function's arguments. There is one action per instruction kind. The pre-hook (`BreakInsts`, `BreakFuncs` = the `execute_inst` and `invoke_func` hooks) is merged the way lines 186-194 merge it. `StepCommand` is a `thread` step command typed at a suspended executor. `step` holds the command in progress: its style, the depth D of the current inst-level step, and the starting line. Each `execute_step` under a command keeps the executor running, past any Breakpoint, until the command is done; then the prompt comes back (`status = "break"`). `LineOf` is the source map. |
| `WasmMemory` | Every load and store: i32, i64, f32 and f64 at full width, the narrow `load_extend` forms (8/16/32-bit, signed and unsigned) and the narrow `store_with_width` forms, `memory.size`, `memory.grow`, `memory.fill`, `memory.copy`, `memory.init`, `data.drop`, `mem_addr`, and the `after_store` hook. | `mem` is memory 0 as a byte sequence. `data` is data segment 0. `pushed` is the value left on the stack. Addresses and operands are words of `W = ByteBits*WordBytes` bits, and host sizes are `UsizeBits` wide. This keeps the 32/64-bit reinterpretations (`as u32`, `as usize`, `checked_add`) with small numbers. |
| `DebuggerServer` | `CONNECTION_LOCK`, the reader loop and its three exits, the debugger thread's REPL phase and message loop, `connection_finished`, `join`, and `_handle_request`, with requests abstracted to kinds. | `lock` is the mutex holder. `conn[c]` is where the connection task is. `dbg[c]` is where its thread is. `queue[c]` is the channel. `accepted`/`answered` are the requests forwarded and answered. The actions split into three groups: `Client` (what the peer does), `User` (the terminal) and `Server` (tasks and threads). |
| `WastDriver` | The `.wast` spec-test driver (`crates/wast-spec/src/lib.rs`): `WastContext::new`, `module`, every directive arm of `run_buffer`, `get_instance`, `get`, `invoke` and `perform_execute`. | `script`/`pc` are the directives and the next one. `verdict` says whether `run_buffer` is running or returned Ok, an Err or panicked. `loaded`, `current`, `byname` and `registered` are the store's module count, `current`, `module_index_by_name` and `register_name`. `trapped` holds the store indices of instances whose start function trapped: they stay in the store. `out` is what the VM did at the last directive; the VM is the environment, except that a module links iff its imports were registered. `refDefined`/`refAny`/`refRegistered` and `Holds` are the script's meaning under the .wast format, kept beside the driver to judge its verdict. |

`MCWasmOperators`, `MCWasmExec`, `MCWasmMemory`, `MCWasmTable`, `MCDebuggerCli`, `MCDebuggerServer` and `MCWastDriver` instantiate the modules for TLC.

- `MCWasmOperators` checks the pure operators. A state is one test case: a function body for the scans, or an instruction with its first operand for the numerics. The reference semantics lives there: the Wasm numerics on bit vectors (`BitsOf`, `ValOf`, `RefNumeric`).

## Runs

| Run | Checks | Result |
|---|---|---|
| operator_check | On every well-nested body of up to 9 block/loop/if/else/end/nop instructions, the false-if scan stops past its own `else` or on its own `end`, and the branch scan resumes just past the target's `end`. Every integer numeric instruction, on every operand pair, gives the value or the trap of the Wasm numerics (`NumericMatchesWasm`). | pass |
| exec_control | Over seven programs (a counting loop, nested ifs with else, calls with a host function and `return`, recursion, `br_table` and a loop with params, a trap, and a function with two results), run from every argument: the label stack always equals the Wasm labels of the enclosing blocks (`LabelsMatchCode`), every saved return pc is the instruction after its call, the results `pop_result` hands the host after End are exactly the ones the Wasm semantics gives the entry function on its arguments, in order, with nothing left on the stack (`ReturnsWasmResults`, against results worked out by hand in `MCWasmExec`), the stack never underflows, and every run stops. The executor also refines `WasmCalls` (`CallsRefined`). From every suspension the user may type any step command. `step-inst-over` on a `call` comes back at the next instruction, at the same depth, whatever the callee did (`StepOverSkipsCall`). `step-over` never stops deeper than it started, even through a recursive call on the same line (`StepOverStaysOut`). `step-out` stops at the return address of the frame it started in, one frame up (`StepOutReturnsToCaller`). | pass |
| break_prehook | A breakpoint from the pre-hook is reported before the instruction runs. | **violation**: the instruction has already run (finding). |
| memory_ops | Every sequence of 3 memory instructions on memories of 1 and 4 pages. Loads and stores trap exactly when `base+offset+width` exceeds the memory. `memory.copy` has memmove semantics. `memory.grow` pushes the previous size (or −1) and respects the maximum. A load right after a store to the same address, no wider than it, reads back the stored low bytes, sign- or zero-extended into the load's type (`LoadAfterStoreMatchesWasm`). | pass |
| bulk_bounds | fill/copy/init trap exactly when the unsigned region exceeds the memory. | **violation**: sign extension of `as usize` (finding). |
| table_ops | Every sequence of 3 table, reference, global and `call_indirect` instructions on two tables (a filled one and an empty one). Each instruction matches the Wasm semantics: a trap exactly when a region does not fit, with the tables unchanged; otherwise the right slots are written and the right value pushed (`TableOpsMatchWasm`). `call_indirect` traps on a bad index, a null slot or a type mismatch, and otherwise calls the slot's function (`CallIndirectMatchesWasm`). | pass |
| cli_repl | An empty line re-runs the last non-empty line typed, however many empty lines come between, and runs nothing when there was none (`RepeatsLastCommand`). The REPL starts only after every init line has run. | pass |
| init_file | When no init file is given and `$HOME/.wasminspect_init` exists, its lines have run when the REPL starts (spec.md 6). | **violation**: the path `~/.wasminspect_init` is opened literally, relative to the working directory (finding). |
| server_sessions | Two connections, two requests each, with request kinds plain, breakpoint and Import (panics). A debugger thread that returns normally has answered every request it was sent, in order (`DrainedOnReturn`). The server is started in either mode (`interactive` is chosen once, as the environment variable is fixed for the process). Requests may stop at breakpoints. A connection whose client closed always joins and releases the lock (`SessionReleased`). In non-interactive mode every forwarded request is eventually answered, or its thread ends (`HeadlessRpcAnswered`). Both hold only under the stated assumption `UserResumes`: the user at the terminal eventually leaves every `run_loop` entered at a breakpoint. Nothing in the code bounds that wait, so it is an antecedent of the properties, not fairness of the spec. | pass |
| repl_blocks_rpc | Every forwarded request is answered, whatever the mode (`RpcAnswered`). | **violation**: in interactive mode the REPL never looks at requests (finding). |
| second_session | At most one debugger thread lives, and it belongs to the lock holder. | **violation**: a read error frees the lock with the thread alive (finding). |
| wast_driver | Every script of up to 3 directives from a set of 20 (each kind, with and without a module id, importing a registered name or not). A module whose start function trapped is loaded into the store, but `module()` returns through `?` before it sets `current` or binds the id: neither ever names such an instance (`TrappedNeverCurrent`). The driver stops with an Err or a panic only at a directive that does not hold (`NoFalseAlarm`): its current module, ids and registered names agree with the script's meaning, also after a module whose start function trapped. The converse fails by design and is recorded as a hazard: `assert_return` compares with `zip`, so a missing result passes, and `assert_invalid`/`assert_malformed` do not check the message. | pass |

Every property of a passing run has a mutant in `PROJECT.json`: a plausible bug in the mapped code that TLC finds.

## Bounds

- **WasmExec.** Words are 3 bits, which is enough to show wrapping in `i32.sub`. The seven programs together fire every action. Arguments go up to 2 (and 7 for the two-result function, whose second result wraps), so loops run more than once and recursion is two deep. Source lines are six instructions long, so a source-level step spans several instructions and the recursive function's call and its return share a line.
- **WasmMemory.**
  - Words are 4 one-bit bytes (4 bits), and pages are 4 bytes.
  - A 16-byte memory is the "above 2 GiB" case in miniature: operands of 8 or more are negative as signed values.
  - The operands include 0, 1, 3 and 15, and offsets include 16, which covers the edges of the bounds checks.
  - `UsizeBits = 8` keeps the host wider than a word, as on a 64-bit host.
  - i64 and f64 values are 8 one-bit bytes. The stored patterns 9 and 150 set the top bit of 1-, 2- and 4-byte prefixes in different combinations, so each narrow signed load is seen both positive and negative.
- **DebuggerServer.** Two connections are enough for lock contention and for a second session. Two messages each are enough for queuing and ordering.
- **WasmCode.** Bodies of up to 9 instructions reach three levels of nesting, with `else` at different depths.
- **WasmNumeric.** `W = 4`, so i32 values are 4 bits and i64 values 8 bits. W is a power of two with 2W dividing 2^W, as 64 divides 2^32. That keeps the `b as u32` truncation of the i64 shift counts as harmless as it is on the real widths. Every operand pair is checked, so `INT_MIN / -1`, zero divisors, shift counts of W or more, and top-bit operands all occur.
- **WasmTable.** Words of 4 bits on an 8-bit host. There are two tables with a maximum of 3, one filled and one empty, plus a 2-element segment built from `ref.func f2` and `ref.null`. The global starts either at `i32.const 0` or at the imported value 1, so both initialiser arms are explored. Indices and lengths {0,1,2,15} and {0,1,3,15} reach every edge of the region checks. 15 is -1 as a word, so the `as usize` of `call_indirect` (executor.rs 324) is exercised. But with a maximum of 3, below 2^(W-1), a negative index is out of range under both the sign-extending and the unsigned reading. So the bound cannot tell the two readings apart, and this run does not check that divergence. Two function types and a null slot give every `call_indirect` trap. Three instructions per run are enough for an init after a drop, or a call after a set or a grow.
- **WastDriver.** Scripts of up to 3 directives: enough for a module, a register and a module importing the registered name, or a module whose start traps followed by a directive that uses the current module. One id, one name, one return value and two trap messages give every branch of every arm.
- **DebuggerCli.** The debugger can start in `$HOME` or elsewhere. A directory literally named `~` holds a file, so the tilde question is decided by what the code opens. An init file has an alias line and `help`. There are up to 4 input lines, including empty ones, an alias, and a command that may fail or exit.

## Fairness

- **WasmExec.** It assumes weak fairness of `ExecuteStep`, because the run loop keeps stepping. Resuming from a breakpoint, with `process continue` or a step command, is left to the user and is not assumed.
- **DebuggerServer.**
  - It assumes strong fairness of `Acquire`, because tokio's mutex serves waiters in FIFO order.
  - It assumes weak fairness of the epilogue's `Join`, of the REPL's 500 ms check (`ReplNotice`), and of the thread's `Recv` and `Handle`.
  - Nothing is assumed of the user (`ReplExit`, `BreakDone`) or of the client. The liveness properties that need the user to resume a breakpoint state `UserResumes` (weak fairness of `BreakDone`) as their antecedent.

## Not modelled

- The float instructions and `trunc`/`convert`/`reinterpret`. The float operators transform IEEE data. (The float loads and stores are modelled: they move bit patterns.)
- Module loading and the Store/Linker (not in the tree).
- `debugger.step` and `next_line_info` are not in the tree. The step loop is modelled from spec.md 4.4, and the line of an instruction is a constant map. A step that reaches End or a trap ends the command; what the prompt prints then is not modelled.
- `crates/cli/src/debugger.rs`. It is a stale revision that does not compile against `executor.rs`: it calls `execute_step` with one argument, and its `Signal` match has no `Breakpoint` arm.
- `thread info`/`backtrace`, which only format output.
- `disassemble` and `socket_handshake`, which are formatting and header checks.
- `spectest.rs`, a table of host functions and globals (pure data), and the parts of the wast driver that convert text and values: parsing and encoding the script, `const_expr`, and `val_matches` on floats and NaN patterns. Values are a small abstract set.

## Plan for later sittings

1. A run with a loop that stays on one source line, showing that step-over never returns (the liveness hazard at `thread.rs` 91), if a run can be freed.
2. A run showing the `zip` truncation of `assert_return` (wast-spec lib.rs 115) as a violation of the converse of `NoFalseAlarm`, if a run can be freed.
3. The proxy's `Init`/`CallExported` error paths in `DebuggerServer`, where a failed `load_module` leaves the store reset.
4. `try_unop` and the float-to-integer truncation traps, if an abstraction of the float domain small enough for TLC can be found.
