---------------------------- MODULE MCWasmMemory ----------------------------
(***************************************************************************)
(* Model for WasmMemory: 1-bit bytes and 4-byte i32s, so the u32 address   *)
(* space has 16 bytes and a memory of 4 pages of 4 bytes fills it, as      *)
(* 65536 pages of 64 KiB fill the real one; a usize has 8 bits.            *)
(***************************************************************************)
EXTENDS WasmMemory

(* Data segment 0: the bytes 1, 0, 1.                                      *)
MCInitData == <<1, 0, 1>>
=============================================================================
