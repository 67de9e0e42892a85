----------------------------- MODULE WastDriver -----------------------------
(***************************************************************************)
(* The .wast spec-test driver of crates/wast-spec/src/lib.rs: WastContext  *)
(* runs the directives of a script in order (run_buffer), keeping the      *)
(* module index of the current module and of each named one; a directive   *)
(* either continues, returns Err through `?` / bail!, or panics.           *)
(*                                                                         *)
(* The VM is the environment: whether a module validates, which trap its   *)
(* start function or an invocation ends with, and what values it returns  *)
(* are chosen from small sets.  Linking is the exception: a module links  *)
(* iff every name it imports was registered (spectest is always there).  *)
(* A message is a model value, and `contains` is equality of the message  *)
(* with the one the error carries.  Beside the driver the module keeps     *)
(* the script's meaning under the .wast format (`ref*`), so that the       *)
(* driver's verdict can be compared with it.                               *)
(***************************************************************************)
EXTENDS Integers, Sequences

CONSTANTS
  Ids,          \* module ids ($name) a script may use
  NoId,         \* a directive that names no module
  Names,        \* names a module may be registered and imported under
  Vals,         \* values a function may return
  MaxResults,   \* results a function may return
  TrapMsgs,     \* the messages of traps (unreachable, call stack exhausted)
  InvalidMsgs,  \* the messages of validation errors
  LinkMsg,      \* the message of a link error (unknown import)
  Scripts       \* the scripts run_buffer may be given

(* A directive: its kind and the parts of it the driver looks at.          *)
Dir(k) == [k |-> k, id |-> NoId, exec |-> "invoke", imports |-> {},
           expect |-> <<>>, msg |-> "none", quote |-> FALSE, name |-> "none"]

Results == UNION {[1 .. n -> Vals] : n \in 0 .. MaxResults}

VARIABLES
  script,    \* the directives
  pc,        \* the next directive
  verdict,   \* "running", "ok" (run_buffer returned Ok), "err", "panic"
  loaded,    \* modules instantiated into the store
  current,   \* WastContext.current: a module index, 0 for None
  byname,    \* module_index_by_name: an index per id, 0 when unbound
  registered, \* names given to modules by register_name
  trapped,   \* store indices of instances whose start function trapped
  out,       \* what the VM did at the last directive
  refDefined, \* ids bound by the .wast meaning of the script so far
  refAny,     \* whether some module was defined so far
  refRegistered

vars == <<script, pc, verdict, loaded, current, byname, registered, trapped, out,
          refDefined, refAny, refRegistered>>

D == script[pc]

-----------------------------------------------------------------------------
(* What the VM does: a module fails validation, traps in its start        *)
(* function, or instantiates; a call traps or returns values; a global is  *)
(* there or not; a quoted module's text may not parse.                     *)
Outcome(st, m, v) == [st |-> st, msg |-> m, vals |-> v]
None == Outcome("none", "none", <<>>)

Fates == {Outcome("invalid", m, <<>>) : m \in InvalidMsgs}
         \cup {Outcome("trap", m, <<>>) : m \in TrapMsgs}
         \cup {Outcome("done", "none", <<>>)}
Calls == {Outcome("done", "none", r) : r \in Results}
         \cup {Outcome("trap", m, <<>>) : m \in TrapMsgs}
Gets  == {Outcome("done", "none", <<v>>) : v \in Vals}
         \cup {Outcome("missing", "no global", <<>>)}

ModuleKinds == {"module", "assert_malformed", "assert_unlinkable", "assert_invalid"}

VM(d) ==
  CASE d.k = "quote_module" -> Fates \cup {Outcome("unparsed", "parse", <<>>)}
    [] d.k \in ModuleKinds \/ d.exec = "module" -> Fates
    [] d.k = "register" -> {None}
    [] d.exec = "get" /\ d.k # "assert_exhaustion" -> Gets
    [] OTHER -> Calls

(* A module links iff every name it imports was registered.               *)
Links(d) == d.imports \subseteq registered

(* WastContext::module: Ok, and whether the store gained an instance.      *)
ModOk(d, o) == o.st = "done" /\ Links(d)
Loads(d, o) == o.st \in {"trap", "done"} /\ Links(d)
StartTraps(d, o) == o.st = "trap" /\ Links(d)
ErrMsg(d, o) == IF o.st # "invalid" /\ ~Links(d) THEN LinkMsg ELSE o.msg

(* get_instance: Err for an unknown id, panic!() when no module is current. *)
NotFound(id)  == id # NoId /\ byname[id] = 0
NoCurrent(id) == id = NoId /\ current = 0

(* The end of a directive: continue with the next one, or stop.           *)
Finish(v) ==
  /\ pc' = pc + 1
  /\ verdict' = IF v # "continue" THEN v
                ELSE IF pc = Len(script) THEN "ok" ELSE "running"

(* Mutant: self.current is set as soon as the module is loaded, before    *)
(* its start function runs.                                                *)
ModuleEffectCurrentBeforeStart(id, d, o) ==
  /\ loaded' = IF Loads(d, o) THEN loaded + 1 ELSE loaded
  /\ trapped' = IF StartTraps(d, o) THEN trapped \cup {loaded + 1} ELSE trapped
  /\ current' = IF Loads(d, o) THEN loaded + 1 ELSE current
  /\ byname' = IF ModOk(d, o) /\ id # NoId THEN [byname EXCEPT ![id] = loaded + 1] ELSE byname

(* Mutant: self.current is set inside the `if let Some(module_name)`.      *)
ModuleEffectNamedOnly(id, d, o) ==
  /\ loaded' = IF Loads(d, o) THEN loaded + 1 ELSE loaded
  /\ trapped' = IF StartTraps(d, o) THEN trapped \cup {loaded + 1} ELSE trapped
  /\ current' = IF ModOk(d, o) /\ id # NoId THEN loaded + 1 ELSE current
  /\ byname' = IF ModOk(d, o) /\ id # NoId THEN [byname EXCEPT ![id] = loaded + 1] ELSE byname

(* WastContext::module: validate, load_module_from_module (an instance     *)
(* whose start function traps stays in the store), then make the module   *)
(* current and bind its id.                                                *)
ModuleEffect(id, d, o) ==
  /\ loaded' = IF Loads(d, o) THEN loaded + 1 ELSE loaded
  /\ trapped' = IF StartTraps(d, o) THEN trapped \cup {loaded + 1} ELSE trapped
  /\ current' = IF ModOk(d, o) THEN loaded + 1 ELSE current
  /\ byname' = IF ModOk(d, o) /\ id # NoId THEN [byname EXCEPT ![id] = loaded + 1] ELSE byname

(* perform_execute: "outer" is an Err of the outer Result, "err" an        *)
(* Ok(Err) and "vals" an Ok(Ok(values)).  invoke resolves the module       *)
(* itself, so an unknown id becomes an Ok(Err); get uses `?`; a module is  *)
(* validated with `?` and its instantiation error is an Ok(Err).           *)
ExecClass(d, o) ==
  CASE d.exec \in {"invoke", "get"} /\ NoCurrent(d.id) -> "panic"
    [] d.exec = "invoke" /\ NotFound(d.id) -> "err"
    [] d.exec = "get" /\ NotFound(d.id)    -> "outer"
    [] d.exec = "module" /\ o.st = "invalid" -> "outer"
    [] d.exec = "module" -> IF ModOk(d, o) THEN "vals" ELSE "err"
    [] o.st = "done"     -> "vals"
    [] d.exec = "get"    -> "outer"
    [] OTHER             -> "err"

ExecMsg(d, o) == IF d.exec = "invoke" /\ NotFound(d.id) THEN "not found" ELSE ErrMsg(d, o)

(* A module perform_execute loads is never made current.                   *)
ExecEffect(d, o) ==
  /\ loaded' = IF d.exec = "module" /\ Loads(d, o) THEN loaded + 1 ELSE loaded
  /\ trapped' = IF d.exec = "module" /\ StartTraps(d, o) THEN trapped \cup {loaded + 1}
                ELSE trapped
  /\ UNCHANGED <<current, byname>>

(* values.iter().zip(results): compared pairwise up to the shorter one.    *)
ZipMatches(vals, expect) ==
  \A i \in 1 .. Len(vals) : i <= Len(expect) => vals[i] = expect[i]

-----------------------------------------------------------------------------
(***************************************************************************)
(* The meaning of a directive under the .wast format: a module directive  *)
(* holds when the module validates, its imports were registered and its   *)
(* start function returns; an assertion holds when what it asserts is     *)
(* what the VM did (assert_return: the same values, as many as expected).  *)
(***************************************************************************)
RefResolves(id) == IF id = NoId THEN refAny ELSE id \in refDefined
RefLinks(d)     == d.imports \subseteq refRegistered
RefRuns(d, o)   == IF d.exec = "module" THEN RefLinks(d) /\ o.st # "invalid"
                   ELSE RefResolves(d.id)

Holds(d, o) ==
  CASE d.k \in {"module", "quote_module"} -> o.st = "done" /\ RefLinks(d)
    [] d.k = "register"          -> RefResolves(d.id)
    [] d.k = "invoke"            -> RefResolves(d.id) /\ o.st = "done"
    [] d.k = "assert_return"     -> RefRuns(d, o) /\ o.st = "done" /\ o.vals = d.expect
    [] d.k \in {"assert_trap", "assert_exhaustion"} ->
                                    RefRuns(d, o) /\ o.st = "trap" /\ o.msg = d.msg
    [] d.k = "assert_malformed"  -> o.st = "invalid"
    [] d.k = "assert_unlinkable" -> o.st # "invalid" /\ ~RefLinks(d) /\ d.msg = LinkMsg
    [] d.k = "assert_invalid"    -> o.st = "invalid" /\ o.msg = d.msg
    [] d.k = "assert_exception"  -> FALSE

(* The bindings of a directive that holds.                                 *)
RefStep(d, o) ==
  LET ok == Holds(d, o)
  IN  /\ refDefined' = IF ok /\ d.k \in {"module", "quote_module"} /\ d.id # NoId
                         THEN refDefined \cup {d.id} ELSE refDefined
      /\ refAny' = (refAny \/ (ok /\ d.k \in {"module", "quote_module"}))
      /\ refRegistered' = IF ok /\ d.k = "register"
                            THEN refRegistered \cup {d.name} ELSE refRegistered

-----------------------------------------------------------------------------
(* The next directive is of kind k; the VM does o at it.                   *)
Begin(k)    == verdict = "running" /\ D.k = k /\ UNCHANGED script
Observe(o)  == out' = o /\ RefStep(D, o)

(* Module / QuoteModule: `self.module(id, bytes)?` (a quoted module is     *)
(* parsed first, and a parse error is returned with `?`).                  *)
Module ==
  /\ Begin("module")
  /\ \E o \in VM(D) :
       /\ Observe(o)
       /\ ModuleEffect(D.id, D, o)
       /\ Finish(IF ModOk(D, o) THEN "continue" ELSE "err")
  /\ UNCHANGED registered

QuoteModule ==
  /\ Begin("quote_module")
  /\ \E o \in VM(D) :
       /\ Observe(o)
       /\ ModuleEffect(D.id, D, o)
       /\ Finish(IF ModOk(D, o) THEN "continue" ELSE "err")
  /\ UNCHANGED registered

(* Register: get_instance(module)?, then register_name.                    *)
Register ==
  /\ Begin("register")
  /\ \E o \in VM(D) :
       /\ Observe(o)
       /\ Finish(CASE NoCurrent(D.id) -> "panic"
                    [] NotFound(D.id)  -> "err"
                    [] OTHER           -> "continue")
       /\ registered' = IF NoCurrent(D.id) \/ NotFound(D.id) THEN registered
                        ELSE registered \cup {D.name}
  /\ UNCHANGED <<loaded, current, byname, trapped>>

(* Invoke: self.invoke(...)?: a trap, like an unknown id, is an Err.       *)
Invoke ==
  /\ Begin("invoke")
  /\ \E o \in VM(D) :
       /\ Observe(o)
       /\ Finish(CASE NoCurrent(D.id) -> "panic"
                    [] NotFound(D.id) \/ o.st = "trap" -> "err"
                    [] OTHER -> "continue")
  /\ UNCHANGED <<loaded, current, byname, trapped, registered>>

(* AssertReturn: values are checked with val_matches over the zip; an     *)
(* Err of either kind panics.                                              *)
AssertReturn ==
  /\ Begin("assert_return")
  /\ \E o \in VM(D) :
       /\ Observe(o)
       /\ ExecEffect(D, o)
       /\ Finish(IF ExecClass(D, o) # "vals" THEN "panic"
                 ELSE IF ZipMatches(o.vals, D.expect) THEN "continue" ELSE "err")
  /\ UNCHANGED registered

(* AssertTrap: only an Ok(Err) whose text contains the message passes.     *)
AssertTrap ==
  /\ Begin("assert_trap")
  /\ \E o \in VM(D) :
       /\ Observe(o)
       /\ ExecEffect(D, o)
       /\ Finish(IF ExecClass(D, o) = "err" /\ ExecMsg(D, o) = D.msg
                   THEN "continue" ELSE "panic")
  /\ UNCHANGED registered

(* AssertException: values panic, an Ok(Err) reaches todo!(), an Err      *)
(* panics.                                                                 *)
AssertException ==
  /\ Begin("assert_exception")
  /\ \E o \in VM(D) :
       /\ Observe(o)
       /\ ExecEffect(D, o)
       /\ Finish("panic")
  /\ UNCHANGED registered

(* AssertExhaustion: self.invoke directly; its Err must carry the message.*)
AssertExhaustion ==
  /\ Begin("assert_exhaustion")
  /\ \E o \in VM(D) :
       /\ Observe(o)
       /\ Finish(CASE NoCurrent(D.id) -> "panic"
                    [] NotFound(D.id)  -> IF "not found" = D.msg THEN "continue" ELSE "panic"
                    [] o.st = "trap"   -> IF o.msg = D.msg THEN "continue" ELSE "panic"
                    [] OTHER           -> "panic")
  /\ UNCHANGED <<loaded, current, byname, trapped, registered>>

(* AssertMalformed: a quoted module is skipped; otherwise self.module(None)*)
(* must fail, for any reason.                                              *)
AssertMalformed ==
  /\ Begin("assert_malformed")
  /\ IF D.quote
       THEN /\ Observe(None)
            /\ Finish("continue")
            /\ UNCHANGED <<loaded, current, byname, trapped>>
       ELSE \E o \in VM(D) :
              /\ Observe(o)
              /\ ModuleEffect(NoId, D, o)
              /\ Finish(IF ModOk(D, o) THEN "panic" ELSE "continue")
  /\ UNCHANGED registered

(* AssertUnlinkable: self.module(None) must fail with the message.         *)
AssertUnlinkable ==
  /\ Begin("assert_unlinkable")
  /\ \E o \in VM(D) :
       /\ Observe(o)
       /\ ModuleEffect(NoId, D, o)
       /\ Finish(IF ~ModOk(D, o) /\ ErrMsg(D, o) = D.msg THEN "continue" ELSE "panic")
  /\ UNCHANGED registered

(* AssertInvalid: a quoted module is skipped; self.module(None) must fail; *)
(* a different message is only printed.                                    *)
AssertInvalid ==
  /\ Begin("assert_invalid")
  /\ IF D.quote
       THEN /\ Observe(None)
            /\ Finish("continue")
            /\ UNCHANGED <<loaded, current, byname, trapped>>
       ELSE \E o \in VM(D) :
              /\ Observe(o)
              /\ ModuleEffect(NoId, D, o)
              /\ Finish(IF ModOk(D, o) THEN "panic" ELSE "continue")
  /\ UNCHANGED registered

-----------------------------------------------------------------------------
(* WastContext::new: only spectest is loaded.                              *)
Init ==
  /\ script \in Scripts
  /\ pc = 1
  /\ verdict = IF script = <<>> THEN "ok" ELSE "running"
  /\ loaded = 0
  /\ current = 0
  /\ byname = [i \in Ids |-> 0]
  /\ registered = {}
  /\ trapped = {}
  /\ out = None
  /\ refDefined = {}
  /\ refAny = FALSE
  /\ refRegistered = {}

Next ==
  \/ Module \/ QuoteModule \/ Register \/ Invoke
  \/ AssertReturn \/ AssertTrap \/ AssertException \/ AssertExhaustion
  \/ AssertMalformed \/ AssertUnlinkable \/ AssertInvalid

Spec == Init /\ [][Next]_vars

-----------------------------------------------------------------------------
(***************************************************************************)
(* A module whose start function trapped stays in the store, but module() *)
(* returns through `?` before `self.current` and module_index_by_name are *)
(* set: neither the current module nor any id ever names such an instance,*)
(* so a later directive without an id acts on the previous module.         *)
(***************************************************************************)
TrappedNeverCurrent ==
  /\ current \notin trapped
  /\ \A id \in Ids : byname[id] \notin trapped

(***************************************************************************)
(* No false alarm: run_buffer stops with an Err or a panic only at a       *)
(* directive that does not hold under the .wast format, so a script whose *)
(* directives all hold runs to Ok.  It takes the driver's own bookkeeping *)
(* (the current module, the ids, the registered names) to agree with the  *)
(* script's meaning across directives.                                     *)
(***************************************************************************)
NoFalseAlarm ==
  [][verdict = "running" /\ verdict' \in {"err", "panic"} => ~Holds(D, out')]_vars
=============================================================================
