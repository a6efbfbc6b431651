---------------------------- MODULE StagedPrintf ----------------------------
(***************************************************************************)
(* The staged printf of log_instr.c.  At translation qemu_log_gen_printf  *)
(* reserves slot ndx = printf_used_ptr++ and generates code that, when    *)
(* the TB runs, stores the format into fmts[ndx] and ORs 1ULL << ndx into *)
(* the 64-bit valid_entries; qemu_log_gen_printf_flush generates a call   *)
(* to helper_qemu_log_printf_dump, which renders the valid slots, lowest  *)
(* bit first, into the current entry, clearing each bit with             *)
(* `valid ^= (1 << ndx)`.                                                 *)
(*                                                                         *)
(* valid_entries is kept as the set of its set bits (TLC's integers are   *)
(* 32-bit).  A TB is translated, then run, possibly several times; a      *)
(* guest instruction of it may raise an exception and leave the TB.      *)
(* Argument stores are folded into the format store: both are plain      *)
(* stores to env that cannot fault.                                      *)
(***************************************************************************)
EXTENDS Integers, Sequences, FiniteSets, SequencesExt, FiniteSetsExt

CONSTANTS
    Depth,          \* QEMU_LOG_PRINTF_BUF_DEPTH
    FlushBarrier,   \* QEMU_LOG_PRINTF_FLUSH_BARRIER
    MaxGen,         \* bound: gen_printf calls in all
    MaxInsns,       \* bound: guest instructions translated in all
    MaxRuns,        \* bound: TB executions in all
    MaxToggles,     \* bound: changes of the logging state
    MaxCode         \* bound: ops of one TB

ASSUME /\ Depth \in 1 .. 64 /\ FlushBarrier \in 1 .. Depth
       /\ {MaxGen, MaxInsns, MaxRuns, MaxToggles, MaxCode} \subseteq Nat

Bits == 0 .. 63

VARIABLES
    logging,    \* qemu_log_instr_enabled (and qemu_base_logging_enabled at translation)
    used,       \* base->printf_used_ptr of the TB being translated
    code,       \* the generated ops of the current TB
    pcOp,       \* 0: not running; i > 0: the TB runs and op i is next
    closed,     \* translation of the current TB has ended
    valid,      \* valid_entries, as the set of its set bits
    lastDump,   \* history: the last dump with logging on
    nGen, nInsn, nRun, nToggle

vars == <<logging, used, code, pcOp, closed, valid, lastDump,
          nGen, nInsn, nRun, nToggle>>

NoDump == [valid |-> {}, out |-> <<>>, rest |-> {}]

(* qemu_log_printf_create_globals binds valid_entries, zero in a new CPU. *)
Init ==
    /\ logging \in BOOLEAN
    /\ used = 0 /\ code = <<>> /\ pcOp = 0 /\ closed = FALSE
    /\ valid = {}
    /\ lastDump = NoDump
    /\ nGen = 0 /\ nInsn = 0 /\ nRun = 0 /\ nToggle = 0

-----------------------------------------------------------------------------
(* Translation. *)

Translating == pcOp = 0 /\ ~closed /\ Len(code) < MaxCode

BetweenTBs == pcOp = 0 /\ closed

(* Mutant of GenPrintf: the assert on the slot index is compiled out.   *)
GenPrintfNoDepthCheck ==
    /\ Translating /\ logging
    /\ nGen < MaxGen
    /\ code' = Append(code, [op |-> "stage", ndx |-> used])
    /\ used' = used + 1
    /\ nGen' = nGen + 1
    /\ UNCHANGED <<closed, logging, pcOp, valid, lastDump, nInsn, nRun, nToggle>>

(* qemu_log_gen_printf: does nothing unless logging; asserts the slot is  *)
(* in range, which the translator guarantees by flushing in time.        *)
GenPrintf ==
    /\ Translating /\ logging
    /\ used < Depth
    /\ nGen < MaxGen
    /\ code' = Append(code, [op |-> "stage", ndx |-> used])
    /\ used' = used + 1
    /\ nGen' = nGen + 1
    /\ UNCHANGED <<closed, logging, pcOp, valid, lastDump, nInsn, nRun, nToggle>>

(* qemu_log_gen_printf_flush: generate the dump when forced, or when      *)
(* slots are in use and the flush is early or the barrier is reached.     *)
GenPrintfFlush(early, force) ==
    /\ Translating
    /\ force \/ (used # 0 /\ (early \/ used >= FlushBarrier))
    /\ code' = Append(code, [op |-> "dump"])
    /\ used' = 0
    /\ UNCHANGED <<closed, logging, pcOp, valid, lastDump, nGen, nInsn, nRun, nToggle>>

(* A guest instruction; it may raise an exception when it runs. *)
GenInsn ==
    /\ Translating
    /\ nInsn < MaxInsns
    /\ code' = Append(code, [op |-> "insn"])
    /\ nInsn' = nInsn + 1
    /\ UNCHANGED <<closed, logging, used, pcOp, valid, lastDump, nGen, nRun, nToggle>>

-----------------------------------------------------------------------------
(* Execution. *)

(* The bits of (uint64_t)(1 << ndx) for the int shift of printf_dump.     *)
(* x86-64 and AArch64 hosts shift a 32-bit value by ndx mod 32, and a     *)
(* result with bit 31 set is a negative int, sign-extended to 64 bits.   *)
IntShiftBits(ndx) ==
    LET m == ndx % 32 IN IF m = 31 THEN 31 .. 63 ELSE {m}

(* Mutant of DumpLoop: the highest bit is rendered first. *)
RECURSIVE DumpLoopMsbFirst(_, _, _)
DumpLoopMsbFirst(v, out, fuel) ==
    IF v = {} \/ fuel = 0 THEN [out |-> out, rest |-> v]
    ELSE LET ndx == Max(v)
         IN  DumpLoopMsbFirst(SymDiff(v, IntShiftBits(ndx)), Append(out, ndx), fuel - 1)

(* The loop of helper_qemu_log_printf_dump: render slot ctz64(valid),     *)
(* clear it with the int shift, repeat while valid # 0.  `out` is what    *)
(* was rendered so far; `fuel` bounds the iterations, and bits left in    *)
(* `rest` mean the loop had not ended.                                    *)
RECURSIVE DumpLoop(_, _, _)
DumpLoop(v, out, fuel) ==
    IF v = {} \/ fuel = 0 THEN [out |-> out, rest |-> v]
    ELSE LET ndx == Min(v)
         IN  DumpLoop(SymDiff(v, IntShiftBits(ndx)), Append(out, ndx), fuel - 1)

(* The next op of the running TB, and where the TB goes after it. *)
Op == code[pcOp]
Advance == pcOp' = IF pcOp = Len(code) THEN 0 ELSE pcOp + 1

(* The generated stores of the format and the OR into valid_entries. *)
ExecStage ==
    /\ pcOp > 0 /\ Op.op = "stage"
    /\ valid' = valid \cup {Op.ndx}
    /\ Advance
    /\ UNCHANGED <<closed, logging, used, code, lastDump, nGen, nInsn, nRun, nToggle>>

(* helper_qemu_log_printf_dump: take and clear valid_entries; render     *)
(* only when logging is enabled.  A loop that renders each staged slot   *)
(* once ends within Depth iterations; Depth + 1 shows one that does not.  *)
HelperQemuLogPrintfDump ==
    /\ pcOp > 0 /\ Op.op = "dump"
    /\ valid' = {}
    /\ lastDump' = IF logging
                   THEN [valid |-> valid] @@ DumpLoop(valid, <<>>, Depth + 1)
                   ELSE lastDump
    /\ Advance
    /\ UNCHANGED <<closed, logging, used, code, nGen, nInsn, nRun, nToggle>>

ExecInsn ==
    /\ pcOp > 0 /\ Op.op = "insn"
    /\ Advance
    /\ UNCHANGED <<closed, logging, used, code, valid, lastDump,
                   nGen, nInsn, nRun, nToggle>>

(* The instruction raises an exception: cpu_loop_exit leaves the TB. *)
Exception ==
    /\ pcOp > 0 /\ Op.op = "insn"
    /\ pcOp' = 0
    /\ UNCHANGED <<closed, logging, used, code, valid, lastDump,
                   nGen, nInsn, nRun, nToggle>>

(* The translated TB is run (again), from its first op. *)
RunTB ==
    /\ BetweenTBs
    /\ nRun < MaxRuns
    /\ pcOp' = 1
    /\ nRun' = nRun + 1
    /\ UNCHANGED <<closed, logging, used, code, valid, lastDump, nGen, nInsn, nToggle>>

(* The translator ends the TB. *)
EndTB ==
    /\ pcOp = 0 /\ ~closed /\ code # <<>>
    /\ closed' = TRUE
    /\ UNCHANGED <<logging, used, code, pcOp, valid, lastDump,
                   nGen, nInsn, nRun, nToggle>>

(* A new TB is translated with a new DisasContextBase. *)
NewTB ==
    /\ BetweenTBs
    /\ code' = <<>> /\ used' = 0 /\ closed' = FALSE
    /\ UNCHANGED <<logging, pcOp, valid, lastDump, nGen, nInsn, nRun, nToggle>>

(* The trace controller turns logging on or off between TBs. *)
ToggleLogging ==
    /\ BetweenTBs
    /\ nToggle < MaxToggles
    /\ logging' = ~logging
    /\ nToggle' = nToggle + 1
    /\ UNCHANGED <<closed, used, code, pcOp, valid, lastDump, nGen, nInsn, nRun>>

Next ==
    \/ GenPrintf
    \/ \E early, force \in BOOLEAN : GenPrintfFlush(early, force)
    \/ GenInsn
    \/ ExecStage
    \/ HelperQemuLogPrintfDump
    \/ ExecInsn
    \/ Exception
    \/ EndTB
    \/ RunTB
    \/ NewTB
    \/ ToggleLogging

Spec == Init /\ [][Next]_vars

-----------------------------------------------------------------------------
(* Properties. *)

TypeOK ==
    /\ logging \in BOOLEAN
    /\ used \in 0 .. Depth
    /\ valid \subseteq Bits
    /\ lastDump.rest \subseteq Bits

(* Spec P8: a dump renders every slot valid when it ran, each once and    *)
(* lowest bit first, and ends with valid_entries clear; no bit beyond the *)
(* staged slots is rendered, so no fmts[ndx] past the array is read.      *)
DumpRendersValidOnce ==
    /\ ToSet(lastDump.out) = lastDump.valid
    /\ \A i \in 1 .. Len(lastDump.out) - 1 : lastDump.out[i] < lastDump.out[i + 1]
    /\ lastDump.rest = {}
=============================================================================
