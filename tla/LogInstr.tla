------------------------------ MODULE LogInstr ------------------------------
(***************************************************************************)
(* The per-CPU instruction trace controller of accel/tcg/log_instr.c.      *)
(*                                                                         *)
(* Each CPU keeps a cpu_log_instr_state_t: its log level and whether it is *)
(* active, the deferred-start flag `starting`, `force_drop`, the BUFFERED *)
(* flag, a ring of entries with head and tail, a filter list and its       *)
(* statistics.  The CPU thread appends to the entry at `ring_head` and     *)
(* commits it; level changes are queued with async_safe_run_on_cpu and run *)
(* later, in FIFO order, on the owning CPU in exclusive context.          *)
(*                                                                         *)
(* The per-CPU state is one record per CPU, so that the code's sequences  *)
(* of helper calls (emit_stop_event; do_instr_commit; reset_log_buffer;   *)
(* emit_start_event) are compositions of operators on that record.  The   *)
(* field `out` is the backend: the entries handed to emit_instr, in order.*)
(***************************************************************************)
EXTENDS Integers, Sequences, FiniteSets, SequencesExt

CONSTANTS
    CPUs,           \* the emulated CPUs
    Addrs,          \* abstract guest addresses (pc and memory addresses)
    ResetPC,        \* the pc value memset() leaves in a reset entry
    ResetMode,      \* the cpu mode enum value 0 memset() leaves in next_cpu_mode
    Regions,        \* debug_regions: NoRegions (a NULL GArray) or the set of addresses its ranges cover
    NoRegions,      \* model value standing for debug_regions == NULL
    StartupFilters, \* the reset_filters list, applied to every CPU at creation
    RingSize,       \* instr_info->len (MIN_ENTRY_BUFFER_SIZE in the code, scaled down)
    BootFlags,      \* the possible -d flags at CPU creation: subsets of {"INSTR", "INSTR_U"}
    RequestLevels,  \* the levels the monitor and the guest helpers ask for
    Features,       \* the optional operations exercised by a run
    BufferedArgs,   \* the `enable` values the target passes to the buffered-mode helper
    MaxCommits,     \* bound: entries published per CPU
    MaxRequests,    \* bound: explicit level requests (monitor and helpers) in total
    MaxQueue,       \* bound: length of a CPU's pending-work queue
    MaxRecords,     \* bound: register and memory records appended to one entry
    MaxEvents,      \* bound: target and FLUSH events appended to one entry
    MaxModeSwitches \* bound: CPU mode changes in total

Modes       == {"USER", "KERNEL"}
Levels      == {"NONE", "USER", "ALL"}
FilterKinds == {"MEM_REGIONS", "EVENTS"}
EventKinds  == {"START", "STOP", "FLUSH", "REGDUMP", "USER_EVT"}
AllFeatures == {"monitor", "helpers", "modeswitch", "drop", "filters",
                "buffered", "flush", "resize", "entrydata"}

ASSUME /\ RingSize \in Nat /\ RingSize >= 2
       /\ ResetPC \in Addrs /\ ResetMode \in Modes
       /\ Regions = NoRegions \/ Regions \subseteq Addrs
       /\ StartupFilters \in Seq(FilterKinds)
       /\ BootFlags \subseteq SUBSET {"INSTR", "INSTR_U"}
       /\ RequestLevels \subseteq Levels
       /\ Features \subseteq AllFeatures
       /\ BufferedArgs \subseteq BOOLEAN
       /\ {MaxCommits, MaxRequests, MaxQueue, MaxRecords, MaxEvents,
           MaxModeSwitches} \subseteq Nat

VARIABLES
    logflags,   \* the CPU_LOG_INSTR / CPU_LOG_INSTR_U bits of qemu_loglevel
    log,        \* log[c]: CPU c's cpu_log_instr_state_t, plus the backend stream
    work,       \* work[c]: the async_safe_run_on_cpu queue of CPU c
    cpuMode,    \* cpuMode[c]: what cpu_in_user_mode(env) reports
    tbExit,     \* tbExit[c]: CPU c queued work itself and must leave its TB
    requested,  \* history: the level last asked for explicitly on CPU c
    nreq,       \* history: number of explicit requests made
    nmode       \* history: number of CPU mode changes made

vars == <<logflags, log, work, cpuMode, tbExit, requested, nreq, nmode>>

Slots == 0 .. RingSize - 1

(* cpu_log_entry_t: flags HAS_INSTR_DATA and MODE_SWITCH, next_cpu_mode,   *)
(* pc, the register and memory records and the events.  `info` stands for *)
(* the asid, the INTR_TRAP/INTR_ASYNC flags and fields and the text buffer:*)
(* of each stamp only whether tracing was enabled when it was made is kept.*)
(* `n` is a history field: the commit that published the entry (0 = none).*)
EmptyEntry ==
    [instr |-> FALSE, ms |-> FALSE, nm |-> ResetMode, pc |-> ResetPC,
     regs |-> 0, mem |-> <<>>, evts |-> <<>>, info |-> {}, n |-> 0]

Cur(s) == s.ring[s.head]

(* Mutant of ResetLogBuffer: the entry data is not cleared. *)
ResetLogBufferKeepInfo(s) ==
    [s EXCEPT !.ring[s.head] = [EmptyEntry EXCEPT !.info = s.ring[s.head].info],
              !.forceDrop = FALSE, !.starting = FALSE]

(* Mutant of ResetLogBuffer: `starting` is not cleared. *)
ResetLogBufferKeepStarting(s) ==
    [s EXCEPT !.ring[s.head] = EmptyEntry, !.forceDrop = FALSE]

(* reset_log_buffer(cpulog, entry) applied to the current entry.  Freeing *)
(* the REGDUMP arrays is part of emptying `evts`.                         *)
ResetLogBuffer(s) ==
    [s EXCEPT !.ring[s.head] = EmptyEntry, !.forceDrop = FALSE,
              !.starting = FALSE]

(* entry_mem_regions_filter: a NULL debug_regions matches everything; an  *)
(* allocated one matches when a range holds the pc or a memory address.   *)
EntryMemRegionsFilter(e) ==
    \/ Regions = NoRegions
    \/ /\ Regions # NoRegions
       /\ \/ e.pc \in Regions
          \/ \E j \in DOMAIN e.mem : e.mem[j] \in Regions

(* entry_event_filter *)
EntryEventFilter(e) == Len(e.evts) > 0

TraceFilter(f, e) ==
    IF f = "MEM_REGIONS" THEN EntryMemRegionsFilter(e) ELSE EntryEventFilter(e)

(* What the backend receives of an entry. *)
Emitted(e, n) == [n |-> n, instr |-> e.instr, evts |-> e.evts, info |-> e.info]

(* Mutant of DoInstrCommit: the head advances without wrapping. *)
DoInstrCommitNoWrap(s) ==
    LET e == Cur(s)
        k == s.n + 1
        h == s.head + 1
    IN  IF s.forceDrop \/ \E i \in DOMAIN s.filters : ~TraceFilter(s.filters[i], e)
        THEN s
        ELSE IF s.buffered
        THEN [s EXCEPT !.ring[s.head].n = k, !.n = k, !.head = h,
                       !.tail    = IF s.tail = h THEN (s.tail + 1) % RingSize
                                                 ELSE s.tail,
                       !.evicted = IF s.tail = h THEN @ \cup {s.ring[h].n}
                                                 ELSE @]
        ELSE [s EXCEPT !.out = Append(@, Emitted(e, k)), !.n = k,
                       !.stats.emitted = @ + 1]

(* Mutant of DoInstrCommit: the tail is not pushed when the head meets it.*)
DoInstrCommitNoPush(s) ==
    LET e == Cur(s)
        k == s.n + 1
    IN  IF s.forceDrop \/ \E i \in DOMAIN s.filters : ~TraceFilter(s.filters[i], e)
        THEN s
        ELSE IF s.buffered
        THEN [s EXCEPT !.ring[s.head].n = k, !.n = k,
                       !.head = (s.head + 1) % RingSize]
        ELSE [s EXCEPT !.out = Append(@, Emitted(e, k)), !.n = k,
                       !.stats.emitted = @ + 1]

(* do_instr_commit: force_drop and the filters discard the entry; in      *)
(* buffered mode the head advances, pushing the tail when it catches it;  *)
(* otherwise the entry goes to the backend.                               *)
DoInstrCommit(s) ==
    LET e == Cur(s)
        k == s.n + 1
        h == (s.head + 1) % RingSize
    IN  IF s.forceDrop \/ \E i \in DOMAIN s.filters : ~TraceFilter(s.filters[i], e)
        THEN s
        ELSE IF s.buffered
        THEN [s EXCEPT !.ring[s.head].n = k, !.n = k, !.head = h,
                       !.tail    = IF s.tail = h THEN (s.tail + 1) % RingSize
                                                 ELSE s.tail,
                       !.evicted = IF s.tail = h THEN @ \cup {s.ring[h].n}
                                                 ELSE @]
        ELSE [s EXCEPT !.out = Append(@, Emitted(e, k)), !.n = k,
                       !.stats.emitted = @ + 1]

(* qemu_log_instr_commit: commit, then reset whatever slot is now current. *)
InstrCommit(s) == ResetLogBuffer(DoInstrCommit(s))

AppendEvent(s, ev) == [s EXCEPT !.ring[s.head].evts = Append(@, ev)]

(* emit_start_event + emit_regdump_event: the START event clears          *)
(* HAS_INSTR_DATA and sets the entry's pc; cpu_log_instr_event_regdump    *)
(* may fail, and then no REGDUMP is appended.                             *)
EmitStart(s, pc, regdumpOk) ==
    LET s1 == [s EXCEPT !.starting = TRUE, !.ring[s.head].instr = FALSE,
                        !.ring[s.head].pc = pc, !.stats.start = @ + 1]
        s2 == AppendEvent(s1, "START")
    IN  IF regdumpOk THEN AppendEvent(s2, "REGDUMP") ELSE s2

(* The activity a level has: USER reads the mode switch held by the entry *)
(* if there is one, else the CPU's mode.                                  *)
NextLevelActive(s, level, mode) ==
    CASE level = "NONE" -> FALSE
      [] level = "ALL"  -> TRUE
      [] level = "USER" -> IF Cur(s).ms THEN Cur(s).nm = "USER" ELSE mode = "USER"

(* Mutant of DoCpuLoglevelSwitch: the STOP event is not committed before *)
(* the buffer is reset.                                                   *)
DoCpuLoglevelSwitchStopUncommitted(s, level, pc, mode, regdumpOk) ==
    LET nextActive == NextLevelActive(s, level, mode)
        s1 == [s EXCEPT !.loglevel = level, !.active = nextActive]
        stopped == ResetLogBuffer([AppendEvent(s1, "STOP")
                                     EXCEPT !.stats.stop = @ + 1])
        abandoned == s.active /\ s.starting
        s2 == IF ~s.active THEN s1
              ELSE IF s.starting THEN ResetLogBuffer(s1) ELSE stopped
    IN  IF level = s.loglevel /\ nextActive = s.active THEN s1
        ELSE IF nextActive /\ ~abandoned THEN EmitStart(s2, pc, regdumpOk)
        ELSE s2

(* Mutant of DoCpuLoglevelSwitch: the no-op check is missing. *)
DoCpuLoglevelSwitchNoNoOpCheck(s, level, pc, mode, regdumpOk) ==
    LET nextActive == NextLevelActive(s, level, mode)
        s1 == [s EXCEPT !.loglevel = level, !.active = nextActive]
        stopped == InstrCommit([AppendEvent(s1, "STOP")
                                  EXCEPT !.stats.stop = @ + 1])
        abandoned == s.active /\ s.starting
        s2 == IF ~s.active THEN s1
              ELSE IF s.starting THEN ResetLogBuffer(s1) ELSE stopped
    IN  IF nextActive /\ ~abandoned THEN EmitStart(s2, pc, regdumpOk)
        ELSE s2

(* do_cpu_loglevel_switch.  A no-op when neither level nor activity       *)
(* change.  Leaving an active level either abandons a pending start       *)
(* (reset, then `goto done`, which also skips the start below) or emits   *)
(* a STOP and commits it.  Entering an active level defers the START.     *)
DoCpuLoglevelSwitch(s, level, pc, mode, regdumpOk) ==
    LET nextActive == NextLevelActive(s, level, mode)
        s1 == [s EXCEPT !.loglevel = level, !.active = nextActive]
        stopped == InstrCommit([AppendEvent(s1, "STOP")
                                  EXCEPT !.stats.stop = @ + 1])
        abandoned == s.active /\ s.starting
        s2 == IF ~s.active THEN s1
              ELSE IF s.starting THEN ResetLogBuffer(s1) ELSE stopped
    IN  IF level = s.loglevel /\ nextActive = s.active THEN s1
        ELSE IF nextActive /\ ~abandoned THEN EmitStart(s2, pc, regdumpOk)
        ELSE s2

(* Mutant of CheckEnabled: loglevel_active is not consulted. *)
CheckEnabledFlagOnly(c) == "INSTR" \in logflags

(* qemu_log_instr_check_enabled *)
CheckEnabled(c) == "INSTR" \in logflags /\ log[c].active

(* A work item of async_safe_run_on_cpu: do_cpu_loglevel_switch ("switch")*)
(* or do_global_loglevel_switch ("global"), with qemu_log_next_level_arg_t.*)
Work(fn, level, global, pc) == [fn |-> fn, level |-> level, global |-> global, pc |-> pc]

(* qemu_log_instr_add_filter: duplicates are ignored. *)
AddFilter(fs, f) ==
    IF \E i \in DOMAIN fs : fs[i] = f THEN fs ELSE Append(fs, f)

RECURSIVE AddFilters(_, _)
AddFilters(fs, rs) ==
    IF rs = <<>> THEN fs ELSE AddFilters(AddFilter(fs, Head(rs)), Tail(rs))

(* The boot-time level: CPU_LOG_INSTR_U selects USER, CPU_LOG_INSTR ALL.  *)
BootLevel(flags) ==
    CASE "INSTR_U" \in flags -> "USER"
      [] "INSTR" \in flags   -> "ALL"
      [] OTHER               -> "NONE"

(* qemu_log_instr_init, run when the CPU is created (in reset, kernel     *)
(* mode): the ring and level; if instruction logging is on, the switch is *)
(* applied at once; then the startup filters; then the stats are zeroed.  *)
QemuLogInstrInit(flags, pc, regdumpOk) ==
    LET s0 == [loglevel |-> "NONE", active |-> FALSE, starting |-> FALSE,
               forceDrop |-> FALSE, buffered |-> FALSE,
               ring |-> [i \in Slots |-> EmptyEntry], head |-> 0, tail |-> 0,
               filters |-> <<>>,
               stats |-> [emitted |-> 0, start |-> 0, stop |-> 0],
               out |-> <<>>, n |-> 0, evicted |-> {}]
        s1 == IF flags # {}
              THEN DoCpuLoglevelSwitch(s0, BootLevel(flags), pc, "KERNEL", regdumpOk)
              ELSE s0
        s2 == [s1 EXCEPT !.filters = AddFilters(@, StartupFilters)]
    IN  [s2 EXCEPT !.stats = [emitted |-> 0, start |-> 0, stop |-> 0]]

Init ==
    /\ logflags \in BootFlags
    /\ \E pc \in [CPUs -> Addrs], ok \in [CPUs -> BOOLEAN] :
          log = [c \in CPUs |-> QemuLogInstrInit(logflags, pc[c], ok[c])]
    /\ work = [c \in CPUs |-> <<>>]
    /\ cpuMode = [c \in CPUs |-> "KERNEL"]
    /\ tbExit = [c \in CPUs |-> FALSE]
    /\ requested = [c \in CPUs |-> BootLevel(logflags)]
    /\ nreq = 0
    /\ nmode = 0

-----------------------------------------------------------------------------
(* Explicit level requests: the monitor and the guest's helpers. *)

Enqueue(c, w) == work' = [work EXCEPT ![c] = Append(@, w)]

CanRequest(cs) ==
    /\ nreq < MaxRequests
    /\ \A c \in cs : Len(work[c]) < MaxQueue

Requested(cs, level) ==
    /\ requested' = [c \in CPUs |-> IF c \in cs THEN level ELSE requested[c]]
    /\ nreq' = nreq + 1

(* Mutant of GlobalSwitch: like do_qemu_log_instr_start, it skips CPUs   *)
(* already active at the level.                                          *)
GlobalSwitchSkipActive(level) ==
    /\ "monitor" \in Features
    /\ CanRequest(CPUs)
    /\ work' = [c \in CPUs |->
                  IF log[c].loglevel = level /\ log[c].active THEN work[c]
                  ELSE Append(work[c], Work("global", level, TRUE, ResetPC))]
    /\ Requested(CPUs, level)
    /\ UNCHANGED <<logflags, log, cpuMode, tbExit, nmode>>

(* qemu_log_instr_global_switch: queue do_global_loglevel_switch on every *)
(* CPU; INSTR_U selects USER, INSTR selects ALL, neither selects NONE.    *)
GlobalSwitch(level) ==
    /\ "monitor" \in Features
    /\ CanRequest(CPUs)
    /\ work' = [c \in CPUs |-> Append(work[c], Work("global", level, TRUE, ResetPC))]
    /\ Requested(CPUs, level)
    /\ UNCHANGED <<logflags, log, cpuMode, tbExit, nmode>>

(* do_qemu_log_instr_start for the CPUs `cs`: enable CPU_LOG_INSTR, then  *)
(* bail on a CPU already active at that level, else queue the switch.     *)
(* helper_qemu_log_instr_start / _user_start act on their own CPU with the *)
(* instruction's pc; the _allcpu_ variants loop over all CPUs, global.    *)
QemuLogInstrStart(cs, level, pc, global) ==
    /\ "helpers" \in Features
    /\ CanRequest(cs)
    /\ logflags' = logflags \cup {"INSTR"}
    /\ work' = [c \in CPUs |->
                  IF c \in cs /\ ~(log[c].loglevel = level /\ log[c].active)
                  THEN Append(work[c], Work("switch", level, global, pc))
                  ELSE work[c]]
    /\ Requested(cs, level)
    /\ UNCHANGED <<log, cpuMode, tbExit, nmode>>

(* qemu_log_instr_set_buffer_size with a size of at least               *)
(* MIN_ENTRY_BUFFER_SIZE (a smaller one is ignored): queue                 *)
(* do_log_buffer_resize on every CPU.  The model's ring keeps RingSize     *)
(* slots, so only the reset the resize performs is modelled; the work      *)
(* item's level, global and pc fields are unused.                          *)
QemuLogInstrSetBufferSize ==
    /\ "resize" \in Features
    /\ CanRequest(CPUs)
    /\ work' = [c \in CPUs |-> Append(work[c], Work("resize", "NONE", FALSE, ResetPC))]
    /\ nreq' = nreq + 1
    /\ UNCHANGED <<logflags, log, cpuMode, tbExit, requested, nmode>>

(* do_qemu_log_instr_stop: queue a switch to NONE. *)
QemuLogInstrStop(cs, pc, global) ==
    /\ "helpers" \in Features
    /\ CanRequest(cs)
    /\ work' = [c \in CPUs |->
                  IF c \in cs THEN Append(work[c], Work("switch", "NONE", global, pc))
                  ELSE work[c]]
    /\ Requested(cs, "NONE")
    /\ UNCHANGED <<logflags, log, cpuMode, tbExit, nmode>>

-----------------------------------------------------------------------------
(* Steps of the CPU thread. *)

UpdateLog(c, s) == log' = [log EXCEPT ![c] = s]

(* Mutant of QemuLogInstrModeSwitch: the comparison with loglevel_active *)
(* is inverted.                                                           *)
QemuLogInstrModeSwitchInverted(c, mode, pc) ==
    LET s == log[c]
        s1 == [s EXCEPT !.ring[s.head].ms = TRUE, !.ring[s.head].nm = mode]
        switch == /\ "INSTR" \in logflags
                  /\ s.loglevel = "USER"
                  /\ (mode = "USER") = s.active
    IN  /\ "modeswitch" \in Features
        /\ Len(work[c]) < MaxQueue
        /\ nmode < MaxModeSwitches
        /\ nmode' = nmode + 1
        /\ UpdateLog(c, s1)
        /\ cpuMode' = [cpuMode EXCEPT ![c] = mode]
        /\ IF switch
           THEN /\ Enqueue(c, Work("switch", s.loglevel, FALSE, pc))
                /\ tbExit' = [tbExit EXCEPT ![c] = TRUE]
           ELSE UNCHANGED <<work, tbExit>>
        /\ UNCHANGED <<logflags, requested, nreq>>

(* qemu_log_instr_mode_switch, with the CPU's mode change it records.     *)
(* Only user-only logging reacts, by queueing a switch to the same level  *)
(* when the activity of the new mode differs from loglevel_active; the    *)
(* caller then leaves the TB.                                             *)
QemuLogInstrModeSwitch(c, mode, pc) ==
    LET s == log[c]
        s1 == [s EXCEPT !.ring[s.head].ms = TRUE, !.ring[s.head].nm = mode]
        switch == /\ "INSTR" \in logflags
                  /\ s.loglevel = "USER"
                  /\ (mode = "USER") # s.active
    IN  /\ "modeswitch" \in Features
        /\ Len(work[c]) < MaxQueue
        /\ nmode < MaxModeSwitches
        /\ nmode' = nmode + 1
        /\ UpdateLog(c, s1)
        /\ cpuMode' = [cpuMode EXCEPT ![c] = mode]
        /\ IF switch
           THEN /\ Enqueue(c, Work("switch", s.loglevel, FALSE, pc))
                /\ tbExit' = [tbExit EXCEPT ![c] = TRUE]
           ELSE UNCHANGED <<work, tbExit>>
        /\ UNCHANGED <<logflags, requested, nreq>>

CpuStep(c, s) ==
    /\ UpdateLog(c, s)
    /\ UNCHANGED <<logflags, work, cpuMode, tbExit, requested, nreq, nmode>>

(* qemu_log_instr: a new instruction of a TB translated with logging on.  *)
QemuLogInstr(c, pc) ==
    /\ CheckEnabled(c)
    /\ ~tbExit[c]
    /\ log[c].n < MaxCommits
    /\ CpuStep(c, [log[c] EXCEPT !.ring[log[c].head].pc = pc,
                                 !.ring[log[c].head].instr = TRUE])

(* helper_qemu_log_instr_reg (and _cap, cap_int): append a register record.*)
HelperQemuLogInstrReg(c) ==
    /\ CheckEnabled(c)
    /\ Cur(log[c]).regs < MaxRecords
    /\ CpuStep(c, [log[c] EXCEPT !.ring[log[c].head].regs = @ + 1])

(* qemu_log_instr_mem_int (and _mem_cap, reached by ld/st_int and      *)
(* ld/st_cap): append a memory record to the current entry.  Of the       *)
(* record only the address is kept, which the MEM_REGIONS filter reads.   *)
QemuLogInstrMemInt(s, addr) == [s EXCEPT !.ring[s.head].mem = Append(@, addr)]

(* helper_qemu_log_instr_load64/store64/load32/store32: a memory record   *)
(* when logging is enabled.                                               *)
HelperQemuLogInstrMem(c, addr) ==
    /\ CheckEnabled(c)
    /\ Len(Cur(log[c]).mem) < MaxRecords
    /\ CpuStep(c, QemuLogInstrMemInt(log[c], addr))

(* qemu_log_instr_event: a target event, appended whether or not enabled. *)
QemuLogInstrEvent(c) ==
    /\ Len(Cur(log[c]).evts) < MaxEvents
    /\ CpuStep(c, AppendEvent(log[c], "USER_EVT"))

(* A stamp of entry data on the current entry, made whether or not        *)
(* tracing is enabled: none of these collectors calls check_enabled.     *)
StampInfo(c) ==
    /\ "entrydata" \in Features
    /\ CpuStep(c, [log[c] EXCEPT !.ring[log[c].head].info = @ \cup {CheckEnabled(c)}])

(* qemu_log_instr_asid, qemu_log_instr_exception and qemu_log_instr_     *)
(* interrupt: set the asid, or an INTR flag with its code and vector.    *)
QemuLogInstrIntr(c) == StampInfo(c)

(* qemu_log_instr_extra: append printf'd text to the entry's txt_buffer. *)
QemuLogInstrExtra(c) == StampInfo(c)

(* qemu_log_instr_drop *)
QemuLogInstrDrop(c) ==
    /\ "drop" \in Features
    /\ CpuStep(c, [log[c] EXCEPT !.forceDrop = TRUE])

(* helper_qemu_log_instr_commit, in a TB translated with logging on. *)
QemuLogInstrCommit(c) ==
    /\ CheckEnabled(c)
    /\ log[c].n < MaxCommits
    /\ CpuStep(c, InstrCommit(log[c]))

(* Mutant of QemuLogInstrFlush: the tail is left where it was. *)
QemuLogInstrFlushKeepTail(c) ==
    LET curr == log[c].tail
        s1 == AppendEvent(log[c], "FLUSH")
        s2 == IF ~CheckEnabled(c) THEN InstrCommit(s1) ELSE s1
        k  == (s2.head - curr + RingSize) % RingSize
        drained == [i \in 1 .. k |->
                      LET e == s2.ring[(curr + i - 1) % RingSize] IN Emitted(e, e.n)]
    IN  /\ "flush" \in Features
        /\ Len(Cur(log[c]).evts) < MaxEvents
        /\ log[c].n < MaxCommits
        /\ CpuStep(c, IF ~s2.buffered THEN s2
                      ELSE [s2 EXCEPT !.out = @ \o drained,
                                      !.stats.emitted = @ + k])

(* qemu_log_instr_flush.  `curr` is the tail read on entry; when logging  *)
(* is off the FLUSH entry is committed first; in buffered mode the slots  *)
(* from curr up to the head go to the backend and the tail joins the head.*)
QemuLogInstrFlush(c) ==
    LET curr == log[c].tail
        s1 == AppendEvent(log[c], "FLUSH")
        s2 == IF ~CheckEnabled(c) THEN InstrCommit(s1) ELSE s1
        k  == (s2.head - curr + RingSize) % RingSize
        drained == [i \in 1 .. k |->
                      LET e == s2.ring[(curr + i - 1) % RingSize] IN Emitted(e, e.n)]
    IN  /\ "flush" \in Features
        /\ Len(Cur(log[c]).evts) < MaxEvents
        /\ log[c].n < MaxCommits
        /\ CpuStep(c, IF ~s2.buffered THEN s2
                      ELSE [s2 EXCEPT !.out = @ \o drained,
                                      !.stats.emitted = @ + k,
                                      !.tail = s2.head])

(* helper_qemu_log_instr_buffered_mode *)
HelperQemuLogInstrBufferedMode(c, enable) ==
    /\ "buffered" \in Features
    /\ CpuStep(c, [log[c] EXCEPT !.buffered = enable])

(* qemu_log_instr_add_filter, called by the target on its own CPU. *)
QemuLogInstrAddFilter(c, f) ==
    /\ "filters" \in Features
    /\ CpuStep(c, [log[c] EXCEPT !.filters = AddFilter(@, f)])

(* qemu_log_instr_allcpu_add_filter: add_filter on every CPU from the     *)
(* calling thread, taken here as one step (hazard at line 1505).          *)
(* qemu_log_instr_add_startup_filter takes this path once first_cpu is    *)
(* set, and so does qemu_log_instr_set_cli_filters for "events".          *)
QemuLogInstrAllcpuAddFilter(f) ==
    /\ "filters" \in Features
    /\ log' = [c \in CPUs |-> [log[c] EXCEPT !.filters = AddFilter(@, f)]]
    /\ UNCHANGED <<logflags, work, cpuMode, tbExit, requested, nreq, nmode>>

(* The loop of qemu_log_instr_remove_filter: the first copy of f is      *)
(* removed by g_array_remove_index_fast, which moves the last filter into *)
(* its place; a filter not in the list leaves it as it is.               *)
RemoveFilter(fs, f) ==
    IF \E i \in DOMAIN fs : fs[i] = f
    THEN LET i == CHOOSE i \in DOMAIN fs : fs[i] = f /\ \A j \in 1 .. i - 1 : fs[j] # f
         IN  SubSeq([fs EXCEPT ![i] = fs[Len(fs)]], 1, Len(fs) - 1)
    ELSE fs

(* qemu_log_instr_remove_filter, called by the target on its own CPU. *)
QemuLogInstrRemoveFilter(c, f) ==
    /\ "filters" \in Features
    /\ CpuStep(c, [log[c] EXCEPT !.filters = RemoveFilter(@, f)])

(* qemu_log_instr_allcpu_remove_filter: remove_filter on every CPU. *)
QemuLogInstrAllcpuRemoveFilter(f) ==
    /\ "filters" \in Features
    /\ log' = [c \in CPUs |-> [log[c] EXCEPT !.filters = RemoveFilter(@, f)]]
    /\ UNCHANGED <<logflags, work, cpuMode, tbExit, requested, nreq, nmode>>

(* qemu_log_instr_set_cli_filters("events") once the CPUs exist: the one  *)
(* name it accepts goes through qemu_log_instr_add_startup_filter, which  *)
(* finds first_cpu set and adds the EVENTS filter to every CPU.  Before   *)
(* the CPUs exist the filter joins reset_filters (StartupFilters, Init).  *)
QemuLogInstrSetCliFilters == QemuLogInstrAllcpuAddFilter("EVENTS")

(* do_log_buffer_resize: g_array_set_size, head = tail = 0, then         *)
(* qemu_log_entry_init and reset_log_buffer on every slot, which also     *)
(* clears force_drop and starting.                                        *)
DoLogBufferResize(s) ==
    [s EXCEPT !.ring = [i \in Slots |-> EmptyEntry], !.head = 0, !.tail = 0,
              !.forceDrop = FALSE, !.starting = FALSE]

(* The CPU runs its queued work in exclusive context: do_global_loglevel_ *)
(* switch first enables CPU_LOG_INSTR unless the level is NONE; both use  *)
(* cpu_get_recent_pc when the request is global.                          *)
RunWork(c) ==
    LET w == Head(work[c])
    IN  /\ work[c] # <<>>
        /\ logflags' = IF w.fn = "global" /\ w.level # "NONE"
                       THEN logflags \cup {"INSTR"} ELSE logflags
        /\ \/ /\ w.fn = "resize"
              /\ UpdateLog(c, DoLogBufferResize(log[c]))
           \/ /\ w.fn # "resize"
              /\ \E recentPc \in Addrs, regdumpOk \in BOOLEAN :
                    UpdateLog(c, DoCpuLoglevelSwitch(log[c], w.level,
                                                     IF w.global THEN recentPc ELSE w.pc,
                                                     cpuMode[c], regdumpOk))
        /\ work' = [work EXCEPT ![c] = Tail(@)]
        /\ tbExit' = [tbExit EXCEPT ![c] = Len(work[c]) > 1 /\ @]
        /\ UNCHANGED <<cpuMode, requested, nreq, nmode>>

Next ==
    \/ \E level \in RequestLevels : GlobalSwitch(level)
    \/ \E c \in CPUs, level \in RequestLevels \ {"NONE"}, pc \in Addrs :
          QemuLogInstrStart({c}, level, pc, FALSE)
    \/ \E level \in RequestLevels \ {"NONE"} : QemuLogInstrStart(CPUs, level, ResetPC, TRUE)
    \/ \E c \in CPUs, pc \in Addrs : QemuLogInstrStop({c}, pc, FALSE)
    \/ QemuLogInstrStop(CPUs, ResetPC, TRUE)
    \/ QemuLogInstrSetBufferSize
    \/ \E c \in CPUs :
          \/ \E m \in Modes, pc \in Addrs : QemuLogInstrModeSwitch(c, m, pc)
          \/ \E pc \in Addrs : QemuLogInstr(c, pc)
          \/ HelperQemuLogInstrReg(c)
          \/ \E a \in Addrs : HelperQemuLogInstrMem(c, a)
          \/ QemuLogInstrEvent(c)
          \/ QemuLogInstrIntr(c)
          \/ QemuLogInstrExtra(c)
          \/ QemuLogInstrDrop(c)
          \/ QemuLogInstrCommit(c)
          \/ QemuLogInstrFlush(c)
          \/ \E b \in BufferedArgs : HelperQemuLogInstrBufferedMode(c, b)
          \/ \E f \in FilterKinds : QemuLogInstrAddFilter(c, f)
          \/ \E f \in FilterKinds : QemuLogInstrRemoveFilter(c, f)
          \/ RunWork(c)
    \/ \E f \in FilterKinds : QemuLogInstrAllcpuAddFilter(f)
    \/ \E f \in FilterKinds : QemuLogInstrAllcpuRemoveFilter(f)
    \/ QemuLogInstrSetCliFilters

Spec == Init /\ [][Next]_vars

(* async_safe_run_on_cpu queues the work and kicks the CPU out of cpu_exec;*)
(* the vCPU thread runs its queued work before it executes guest code     *)
(* again, so work that stays queued is eventually run.  Nothing obliges   *)
(* the guest or the monitor to take any other step.                      *)
FairSpec == Spec /\ \A c \in CPUs : WF_vars(RunWork(c))

-----------------------------------------------------------------------------
(* Properties. *)

Entry ==
    [instr: BOOLEAN, ms: BOOLEAN, nm: Modes, pc: Addrs, regs: 0 .. MaxRecords,
     mem: Seq(Addrs), evts: Seq(EventKinds), info: SUBSET BOOLEAN, n: Nat]

TypeOK ==
    /\ logflags \subseteq {"INSTR", "INSTR_U"}
    /\ \A c \in CPUs :
         /\ log[c].loglevel \in Levels
         /\ {log[c].active, log[c].starting, log[c].forceDrop, log[c].buffered}
              \subseteq BOOLEAN
         /\ log[c].ring \in [Slots -> Entry]
         /\ {log[c].head, log[c].tail} \subseteq Slots
         /\ log[c].filters \in Seq(FilterKinds)
         /\ log[c].stats \in [emitted: Nat, start: Nat, stop: Nat]
         /\ log[c].out \in Seq([n: Nat, instr: BOOLEAN, evts: Seq(EventKinds),
                                  info: SUBSET BOOLEAN])
         /\ log[c].evicted \subseteq Nat
    /\ work \in [CPUs -> Seq([fn: {"switch", "global", "resize"}, level: Levels,
                              global: BOOLEAN, pc: Addrs])]
    /\ cpuMode \in [CPUs -> Modes]
    /\ tbExit \in [CPUs -> BOOLEAN]

(* The START and STOP events of an emitted entry, and of a backend stream *)
(* up to its i-th entry.                                                  *)
StateEvents(o) == SelectSeq(o.evts, LAMBDA ev : ev \in {"START", "STOP"})

StateStream(out, i) == FlattenSeq([j \in 1 .. i |-> StateEvents(out[j])])

(* Trace slices are well formed: in what each CPU hands to the backend,   *)
(* START and STOP alternate and the first is a START.  This is what the   *)
(* deferred start (`starting`, reset_log_buffer on a stop before the      *)
(* first commit) and the STOP commit of do_cpu_loglevel_switch are for.   *)
SlicesWellBracketed ==
    \A c \in CPUs :
        LET ss == StateStream(log[c].out, Len(log[c].out))
        IN  \A j \in DOMAIN ss : ss[j] = IF j % 2 = 1 THEN "START" ELSE "STOP"

(* No instruction reaches the backend outside a trace slice: every entry  *)
(* with HAS_INSTR_DATA carries the START or follows an emitted START that *)
(* no STOP has closed yet.                                                *)
NoInstrOutsideSlice ==
    \A c \in CPUs : \A i \in DOMAIN log[c].out :
        LET pre == StateStream(log[c].out, i - 1)
        IN  log[c].out[i].instr =>
                \/ \E j \in DOMAIN log[c].out[i].evts : log[c].out[i].evts[j] = "START"
                \/ pre # <<>> /\ Last(pre) = "START"

(* User-only filtering follows the CPU mode: once a CPU has run all its   *)
(* queued switches, it is active exactly when its level is ALL, or USER   *)
(* while the CPU is in user mode, although qemu_log_instr_mode_switch     *)
(* decides from a loglevel_active that queued switches may still change.  *)
ActiveMatchesLevel ==
    \A c \in CPUs :
        work[c] = <<>> =>
            log[c].active = (log[c].loglevel = "ALL"
                             \/ (log[c].loglevel = "USER" /\ cpuMode[c] = "USER"))

(* A CPU's level is the one last asked for by the monitor or a helper     *)
(* once its queued switches have run: no switch queued from a stale view  *)
(* of the level undoes a later request.                                   *)
LevelFollowsRequests ==
    \A c \in CPUs : work[c] = <<>> => log[c].loglevel = requested[c]

(* A level the monitor or a helper asks for eventually becomes the CPU's  *)
(* level, unless a later request replaces it: no queued switch is lost,  *)
(* and no request is skipped because of the level at the time it was    *)
(* made while switches queued before it had not yet run.                 *)
LevelReachesRequest ==
    \A c \in CPUs, l \in Levels :
        (requested[c] = l) ~> (log[c].loglevel = l \/ requested[c] # l)

(* The backend receives each CPU's entries in commit order (section 5 of  *)
(* the spec: commit order equals emission order).                        *)
EmissionInCommitOrder ==
    \A c \in CPUs : \A i \in 1 .. Len(log[c].out) - 1 :
        log[c].out[i].n < log[c].out[i + 1].n

(* A pending start is a START waiting in the current entry (section 3 of *)
(* the spec): while `starting` is set the CPU is tracing and its current  *)
(* entry holds the START event that do_cpu_loglevel_switch put there, so  *)
(* the next commit opens the slice.  Every path that empties the entry    *)
(* (commit, drop, the abandoned start, the resize) must clear `starting`  *)
(* through reset_log_buffer, or the next slice opens without a START.     *)
StartingHoldsStart ==
    \A c \in CPUs :
        log[c].starting =>
            /\ log[c].active
            /\ \E j \in DOMAIN Cur(log[c]).evts : Cur(log[c]).evts[j] = "START"

(* Spec 4.2 asks every collector to be a no-op while check_enabled is    *)
(* false; asid, exception, interrupt and extra are not, so data stamped   *)
(* while a CPU does not trace stays in its current entry.  It may reach   *)
(* the backend only in the entry that opens the next slice (with the      *)
(* deferred START) or in a FLUSH entry committed while tracing is off,    *)
(* never in an entry in the middle of a slice: every commit, the STOP,    *)
(* the abandoned start and the resize must empty the entry.               *)
UntracedDataOnlyAtSliceStartOrFlush ==
    \A c \in CPUs : \A i \in DOMAIN log[c].out :
        FALSE \in log[c].out[i].info =>
            \E j \in DOMAIN log[c].out[i].evts : log[c].out[i].evts[j] \in {"START", "FLUSH"}

(* A step that runs a queued level switch on CPU c. *)
SwitchStep(c) ==
    /\ work[c] # <<>>
    /\ Head(work[c]).fn \in {"switch", "global"}
    /\ Len(work'[c]) < Len(work[c])

(* Spec P6 and P7: a switch that changes neither level nor activity adds  *)
(* no event and leaves `starting` alone, and a switch commits or emits    *)
(* only when it closes a slice that has already opened: leaving a level   *)
(* whose START is still pending (the `starting` case of do_cpu_loglevel_  *)
(* switch) discards it without a commit.                                  *)
SwitchIsSilent ==
    [][\A c \in CPUs :
          SwitchStep(c) =>
              LET s == log[c]
                  t == log'[c]
                  noop == t.loglevel = s.loglevel /\ t.active = s.active
              IN  /\ noop => t.ring = s.ring /\ t.starting = s.starting
                  /\ (t.n # s.n \/ t.out # s.out) =>
                        s.active /\ ~s.starting /\ ~noop]_vars

(* The commits held in the ring between tail and head. *)
InRing(s) ==
    {s.ring[(s.tail + i) % RingSize].n :
        i \in 0 .. ((s.head - s.tail + RingSize) % RingSize) - 1}

(* Entries are lost only by the documented overflow policy: every         *)
(* committed entry has been emitted, is still between tail and head, or   *)
(* was the oldest one when the head caught the tail.                      *)
NoSilentLoss ==
    \A c \in CPUs : \A k \in 1 .. log[c].n :
        \/ \E i \in DOMAIN log[c].out : log[c].out[i].n = k
        \/ k \in InRing(log[c])
        \/ k \in log[c].evicted

(* The commits held in the ring from tail to head, oldest first. *)
RingSeq(s) ==
    [i \in 1 .. (s.head - s.tail + RingSize) % RingSize |->
        s.ring[(s.tail + i - 1) % RingSize].n]

TB == INSTANCE TraceBuffer
        WITH Capacity  <- RingSize - 1,
             buffered  <- [c \in CPUs |-> log[c].buffered],
             pending   <- [c \in CPUs |-> RingSeq(log[c])],
             emitted   <- [c \in CPUs |-> [i \in DOMAIN log[c].out |-> log[c].out[i].n]],
             committed <- [c \in CPUs |-> log[c].n]

(* The ring, head and tail of do_instr_commit and qemu_log_instr_flush,   *)
(* with the BUFFERED flag, implement the bounded drop-oldest FIFO of      *)
(* TraceBuffer: every step of the controller is a step of it or leaves    *)
(* it unchanged.                                                          *)
TraceBufferRefined == TB!Spec

=============================================================================
