----------------------------- MODULE WasmMemory -----------------------------
(***************************************************************************)
(* The memory instructions of the Executor (crates/vm/src/executor.rs      *)
(* 497-641, 1044-1142) over the module's memory 0 and data segment 0.      *)
(* Each step is one execute_step on a memory instruction whose operands    *)
(* are the i32 values validated code leaves on the stack, chosen from      *)
(* small sets; the value the instruction pushes is kept in `pushed`.       *)
(*                                                                         *)
(* Widths are scaled down together: a byte has ByteBits bits, an i32 has   *)
(* WordBytes bytes (W = ByteBits * WordBytes bits, so the u32 address      *)
(* space has 2^W bytes), a usize has UsizeBits > W bits, and a page has    *)
(* PageSize bytes.  i32 operands are kept as their unsigned W-bit          *)
(* pattern.  MemoryInstance and DataInstance (memory.rs, data.rs) are not  *)
(* part of the source tree and follow spec.md 3 and 4.2: region checks     *)
(* `offset + len <= len(bytes)` in exact arithmetic, grow within the       *)
(* declared maximum.                                                      *)
(***************************************************************************)
EXTENDS Integers, Sequences, SequencesExt

CONSTANTS
  ByteBits, WordBytes, UsizeBits,
  PageSize,     \* bytes per page
  MaxPages,     \* the memory's declared maximum
  InitPages,    \* page counts the memory may be instantiated with
  InitData,     \* the bytes of data segment 0
  Memory64,     \* config.features.memory64
  Addrs,        \* i32 operands used as addresses
  Lens,         \* i32 operands used as lengths and page deltas
  Vals,         \* i32 and f32 bit patterns stored
  Vals64,       \* i64 and f64 bit patterns stored
  Offsets,      \* memarg offsets (u64 immediates)
  WatchAddrs,   \* addresses whose store the Interceptor reports as Breakpoint
  MaxSteps      \* instructions executed per run

W      == ByteBits * WordBytes
Mod    == 2 ^ W
ByteMod == 2 ^ ByteBits
USize  == 2 ^ UsizeBits
Bytes  == 0 .. ByteMod - 1

VARIABLES
  mem,      \* the bytes of memory 0
  data,     \* the bytes of data segment 0 (<<>> once dropped)
  pushed,   \* the bit pattern the last instruction pushed (0 before any)
  status,   \* "running", "break" (after_store reported Breakpoint), "trap"
  trap,     \* the Trap that ended the run, or "none"
  steps,    \* instructions executed
  last      \* the instruction executed last, with its operands

vars == <<mem, data, pushed, status, trap, steps, last>>

(* Little-endian encoding of an i32 into `width` bytes and its decoding.   *)
LE(v, width) == [i \in 1 .. width |-> (v \div 2 ^ (ByteBits * (i - 1))) % ByteMod]
FromLE(bs) == FoldLeft(LAMBDA acc, b : acc * ByteMod + b, 0, Reverse(bs))

(* The byte count of a value type: i64 and f64 are two words wide.        *)
TypeBytes(t) == IF t \in {"i32", "f32"} THEN WordBytes ELSE 2 * WordBytes

(* extend_into: a `bits`-wide pattern read as signed or unsigned, as the   *)
(* pattern of a wider type of `tbits` bits.                                *)
ExtendInto(v, bits, tbits, signed) ==
  IF signed /\ v >= 2 ^ (bits - 1) THEN v - 2 ^ bits + 2 ^ tbits ELSE v

(* `x as usize` for an i32 x: a two's-complement sign extension.           *)
AsUsize(x) == IF x >= Mod \div 2 THEN x - Mod + USize ELSE x

-----------------------------------------------------------------------------
(* MemoryInstance (memory.rs, spec.md 3): region checks, byte access.      *)
InRegion(bs, offset, len) == offset + len <= Len(bs)
Read(bs, offset, len) == SubSeq(bs, offset + 1, offset + len)
Write(bs, offset, vals) ==
  [i \in 1 .. Len(bs) |->
     IF i > offset /\ i <= offset + Len(vals) THEN vals[i - offset] ELSE bs[i]]

(* Mutant: the effective address computed with a wrapping add.           *)
MemAddrWrapping(base, offset) ==
  IF Memory64 THEN (offset + base) % USize ELSE (offset + base) % Mod

(* mem_addr: base + offset in the memory's address width, or overflow.     *)
MemAddr(base, offset) ==
  IF Memory64
    THEN IF offset + base < USize THEN offset + base ELSE -1
    ELSE IF offset >= Mod \/ offset + base >= Mod THEN -1 ELSE offset + base

-----------------------------------------------------------------------------
(* The end of one execute_step: a trap, or the Signal of the instruction.  *)
Trap(why) ==
  /\ status' = "trap"
  /\ trap' = why
  /\ UNCHANGED <<mem, data, pushed>>

Done(m, d, p, sig) ==
  /\ mem' = m
  /\ data' = d
  /\ pushed' = p
  /\ status' = IF sig = "Breakpoint" THEN "break" ELSE "running"
  /\ UNCHANGED trap

Exec(inst, A) ==
  /\ status = "running"
  /\ steps < MaxSteps
  /\ steps' = steps + 1
  /\ last' = inst
  /\ A

Inst(op, n, s, d) == [op |-> op, n |-> n, s |-> s, d |-> d]

(* The loads of execute_inst as (type, byte width, signedness): `load`     *)
(* reads a whole value, `load_extend::<T, U>` a narrower T extended into U. *)
(* The widths 1, 2 and 4 are the byte counts of i8, i16 and i32.           *)
LoadKinds ==
  {[t |-> t, n |-> TypeBytes(t), sx |-> FALSE] : t \in {"i32", "i64", "f32", "f64"}}
  \cup {[t |-> "i32", n |-> n, sx |-> sx] : n \in {1, 2}, sx \in BOOLEAN}
  \cup {[t |-> "i64", n |-> n, sx |-> sx] : n \in {1, 2, 4}, sx \in BOOLEAN}

(* The stores: `store` writes a whole value, `store_with_width` the first  *)
(* 1, 2 (or, of an i64, 4) of its little-endian bytes.                     *)
StoreKinds ==
  {[t |-> t, n |-> TypeBytes(t)] : t \in {"i32", "i64", "f32", "f64"}}
  \cup {[t |-> "i32", n |-> n] : n \in {1, 2}}
  \cup {[t |-> "i64", n |-> n] : n \in {1, 2, 4}}

StoreVals(t) == IF TypeBytes(t) = WordBytes THEN Vals ELSE Vals64

(* For a load or store, `last` records the kind, the base, the offset and  *)
(* the value stored.                                                       *)
Access(op, k, b, o, v) ==
  [op |-> op, n |-> k.n, s |-> b, d |-> o, t |-> k.t,
   sx |-> op = "load" /\ k.sx, v |-> v]

(* Mutant: a u32 extended into an i64 as if it were an i32.              *)
LoadOutcomeU32AsI32(k, base, offset) ==
  LET a == MemAddr(base, offset)
  IN  IF a < 0 THEN Trap("MemoryAddrOverflow")
      ELSE IF ~InRegion(mem, a, k.n) THEN Trap("Memory")
      ELSE LET v == FromLE(Read(mem, a, k.n))
           IN  Done(mem, data,
                    ExtendInto(v, k.n * ByteBits, TypeBytes(k.t) * ByteBits,
                               k.sx \/ k.n = WordBytes), "Next")

(* load / load_extend: pop the base, mem_addr, load_as, extend_into, push. *)
LoadOutcome(k, base, offset) ==
  LET a == MemAddr(base, offset)
  IN  IF a < 0 THEN Trap("MemoryAddrOverflow")
      ELSE IF ~InRegion(mem, a, k.n) THEN Trap("Memory")
      ELSE LET v == FromLE(Read(mem, a, k.n))
           IN  Done(mem, data,
                    ExtendInto(v, k.n * ByteBits, TypeBytes(k.t) * ByteBits, k.sx),
                    "Next")

(* store / store_with_width: pop the value and the base, mem_addr, write   *)
(* the first `width` little-endian bytes, then the Interceptor's           *)
(* after_store hook.                                                       *)
StoreOutcome(val, base, offset, width) ==
  LET a == MemAddr(base, offset)
  IN  IF a < 0 THEN Trap("MemoryAddrOverflow")
      ELSE IF ~InRegion(mem, a, width) THEN Trap("Memory")
      ELSE Done(Write(mem, a, LE(val, width)), data, pushed,
                IF a \in WatchAddrs THEN "Breakpoint" ELSE "Next")

Load  == \E k \in LoadKinds, b \in Addrs, o \in Offsets :
           Exec(Access("load", k, b, o, 0), LoadOutcome(k, b, o))
Store == \E k \in StoreKinds, b \in Addrs, o \in Offsets : \E v \in StoreVals(k.t) :
           Exec(Access("store", k, b, o, v), StoreOutcome(v, b, o, k.n))

MemorySize == Exec(Inst("memory.size", 0, 0, 0),
                   Done(mem, data, (Len(mem) \div PageSize) % Mod, "Next"))

(* Mutant: the size pushed is read after the grow.                        *)
MemoryGrowSizeAfter ==
  \E g \in Lens :
    LET size == Len(mem) \div PageSize
        n    == AsUsize(g)
    IN  Exec(Inst("memory.grow", g, 0, 0),
             IF size + n <= MaxPages
               THEN Done(mem \o [i \in 1 .. n * PageSize |-> 0], data, (size + n) % Mod, "Next")
               ELSE Done(mem, data, Mod - 1, "Next"))

(* Mutant: grow without the declared maximum.                            *)
MemoryGrowUnbounded ==
  \E g \in Lens :
    LET size == Len(mem) \div PageSize
    IN  Exec(Inst("memory.grow", g, 0, 0),
             Done(mem \o [i \in 1 .. g * PageSize |-> 0], data, size % Mod, "Next"))

(* memory.grow: the size is read before grow(grow_page as usize); the      *)
(* new pages are zero; a failed grow pushes -1.                            *)
MemoryGrow ==
  \E g \in Lens :
    LET size == Len(mem) \div PageSize
        n    == AsUsize(g)
    IN  Exec(Inst("memory.grow", g, 0, 0),
             IF size + n <= MaxPages
               THEN Done(mem \o [i \in 1 .. n * PageSize |-> 0], data, size % Mod, "Next")
               ELSE Done(mem, data, Mod - 1, "Next"))

(* memory.fill: pop n, val, offset; validate, then write n copies of the   *)
(* low byte of val.                                                        *)
MemoryFill ==
  \E n \in Lens, v \in Vals, d \in Addrs :
    Exec(Inst("memory.fill", n, v, d),
         IF ~InRegion(mem, AsUsize(d), AsUsize(n)) THEN Trap("Memory")
         ELSE Done(Write(mem, AsUsize(d), [i \in 1 .. AsUsize(n) |-> LE(v, 1)[1]]),
                   data, pushed, "Next"))

(* Mutant: the copy moves one byte at a time, front to back.             *)
RECURSIVE ForwardCopy(_, _, _, _)
ForwardCopy(bs, s, d, n) ==
  IF n = 0 THEN bs
  ELSE ForwardCopy(Write(bs, d, Read(bs, s, 1)), s + 1, d + 1, n - 1)

MemoryCopyForward ==
  \E n \in Lens, s \in Addrs, d \in Addrs :
    Exec(Inst("memory.copy", n, s, d),
         IF ~InRegion(mem, AsUsize(s), AsUsize(n)) THEN Trap("Memory")
         ELSE IF ~InRegion(mem, AsUsize(d), AsUsize(n)) THEN Trap("Memory")
         ELSE Done(ForwardCopy(mem, AsUsize(s), AsUsize(d), AsUsize(n)),
                   data, pushed, "Next"))

(* memory.copy: pop n, src, dst; validate src, read all n bytes, validate  *)
(* dst, then write them.                                                   *)
MemoryCopy ==
  \E n \in Lens, s \in Addrs, d \in Addrs :
    Exec(Inst("memory.copy", n, s, d),
         IF ~InRegion(mem, AsUsize(s), AsUsize(n)) THEN Trap("Memory")
         ELSE IF ~InRegion(mem, AsUsize(d), AsUsize(n)) THEN Trap("Memory")
         ELSE Done(Write(mem, AsUsize(d), Read(mem, AsUsize(s), AsUsize(n))),
                   data, pushed, "Next"))

(* memory.init: pop n, src, dst; validate the memory region, then the      *)
(* segment region (empty once dropped), then copy the slice.              *)
MemoryInit ==
  \E n \in Lens, s \in Addrs, d \in Addrs :
    Exec(Inst("memory.init", n, s, d),
         IF ~InRegion(mem, AsUsize(d), AsUsize(n)) THEN Trap("Memory")
         ELSE IF ~InRegion(data, AsUsize(s), AsUsize(n)) THEN Trap("Data")
         ELSE Done(Write(mem, AsUsize(d), Read(data, AsUsize(s), AsUsize(n))),
                   data, pushed, "Next"))

(* data.drop: drop_bytes empties the segment.                             *)
DataDrop == Exec(Inst("data.drop", 0, 0, 0), Done(mem, <<>>, pushed, "Next"))

(* The host calls execute_step again after a Breakpoint.                   *)
Continue ==
  /\ status = "break"
  /\ status' = "running"
  /\ UNCHANGED <<mem, data, pushed, trap, steps, last>>

-----------------------------------------------------------------------------
Init ==
  /\ \E p \in InitPages : mem = [i \in 1 .. p * PageSize |-> 0]
  /\ data = InitData
  /\ pushed = 0
  /\ status = "running"
  /\ trap = "none"
  /\ steps = 0
  /\ last = Inst("none", 0, 0, 0)

Next ==
  \/ Load \/ Store
  \/ MemorySize \/ MemoryGrow \/ MemoryFill \/ MemoryCopy \/ MemoryInit \/ DataDrop
  \/ Continue

Spec == Init /\ [][Next]_vars

-----------------------------------------------------------------------------
(***************************************************************************)
(* Properties.  The reference is the Wasm semantics of spec.md 4.2: every  *)
(* i32 operand is an unsigned u32, an access [a, a + len) is in bounds iff *)
(* a + len <= page_count * page size in exact arithmetic.                  *)
(***************************************************************************)
TypeOK ==
  /\ mem \in Seq(Bytes)
  /\ Len(mem) % PageSize = 0 /\ Len(mem) \div PageSize <= MaxPages
  /\ data \in Seq(Bytes)
  /\ pushed \in 0 .. 2 ^ (2 * W) - 1
  /\ status \in {"running", "break", "trap"}
  /\ steps \in 0 .. MaxSteps

(* A step that executed an instruction (Continue does not).                *)
Executed == steps' = steps + 1

(***************************************************************************)
(* memory.copy has memmove semantics: when it completes, the destination   *)
(* holds the bytes the source held before the copy, even where the two     *)
(* regions overlap, and no byte outside the destination changed.          *)
(***************************************************************************)
CopyIsMemmove ==
  [][Executed /\ last'.op = "memory.copy" /\ status' # "trap" =>
       LET n == last'.n  s == last'.s  d == last'.d
       IN  /\ Read(mem', d, n) = Read(mem, s, n)
           /\ \A i \in 1 .. Len(mem) : (i <= d \/ i > d + n) => mem'[i] = mem[i]]_vars

(***************************************************************************)
(* A load or store (mem_addr, then the region check of load_as / store)    *)
(* traps exactly when its effective address base + offset, taken as an    *)
(* unsigned sum, leaves less than `width` bytes of memory: an address that *)
(* overflows 32 bits never wraps around into memory.                       *)
(***************************************************************************)
AccessBoundsMatchWasm ==
  [][Executed /\ last'.op \in {"load", "store"} =>
       ((status' = "trap") <=> (last'.s + last'.d + last'.n > Len(mem)))]_vars

(***************************************************************************)
(* A load right after a store to the same effective address, no wider than *)
(* it, pushes the low bytes of the stored value: in little-endian order    *)
(* the first n bytes written are the value's n low bytes, and the load_s   *)
(* forms extend them with their top bit into the full width of the loaded  *)
(* type (i64.load32_u and i64.load32_s differ only there).                 *)
(***************************************************************************)
LoadAfterStoreMatchesWasm ==
  [][Executed /\ last'.op = "load" /\ last.op = "store" /\ status' # "trap"
     /\ last'.s + last'.d = last.s + last.d /\ last'.n <= last.n =>
       LET bits  == last'.n * ByteBits
           low   == last.v % 2 ^ bits
           neg   == last'.sx /\ low >= 2 ^ (bits - 1)
       IN  pushed' = (IF neg THEN low - 2 ^ bits ELSE low)
                       % 2 ^ (TypeBytes(last'.t) * ByteBits)]_vars

(***************************************************************************)
(* memory.grow by g pages (g a u32) pushes the page count from before the  *)
(* grow and adds g zeroed pages when the maximum allows it, and otherwise  *)
(* pushes -1 and leaves the memory alone; the bytes already in memory are  *)
(* kept either way.                                                        *)
(***************************************************************************)
GrowReportsPreviousSize ==
  [][Executed /\ last'.op = "memory.grow" =>
       LET old == Len(mem) \div PageSize
       IN  /\ SubSeq(mem', 1, Len(mem)) = mem
           /\ IF old + last'.n <= MaxPages
                THEN /\ pushed' = old
                     /\ Len(mem') = Len(mem) + last'.n * PageSize
                     /\ \A i \in Len(mem) + 1 .. Len(mem') : mem'[i] = 0
                ELSE /\ pushed' = Mod - 1
                     /\ mem' = mem]_vars

(***************************************************************************)
(* memory.fill, memory.copy and memory.init trap exactly when one of their *)
(* regions, with the i32 operands read as u32, is out of bounds (spec.md   *)
(* 4.2: the effective address is an unsigned base).                        *)
(***************************************************************************)
BulkBoundsMatchWasm ==
  [][Executed /\ last'.op \in {"memory.fill", "memory.copy", "memory.init"} =>
       LET n == last'.n  s == last'.s  d == last'.d
           ok == /\ d + n <= Len(mem)
                 /\ last'.op = "memory.copy" => s + n <= Len(mem)
                 /\ last'.op = "memory.init" => s + n <= Len(data)
       IN  (status' = "trap") <=> ~ok]_vars
=============================================================================
