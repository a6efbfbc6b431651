# TLA+ models of the instruction trace core (`accel/tcg/log_instr.c`)

This directory holds TLA+ models of the per-CPU instruction trace core in
`src/accel/tcg/log_instr.c`. It also holds the TLC configurations that check
them. Every definition is translated from that file. `PROJECT.json` gives, for
each definition, the source lines it stands for (`map`). It also lists every
run, mutant, finding and hazard.

## 1. The system

### Parts

| Part | Code | State | Operations |
|---|---|---|---|
| Trace controller | `do_cpu_loglevel_switch`, `qemu_log_instr_mode_switch`, `qemu_log_instr_check_enabled`, `qemu_log_instr_init` | `loglevel` (NONE/USER/ALL), `loglevel_active`, `starting` | level switch (in exclusive context), mode switch, boot-time switch |
| Global switch and helpers | `qemu_log_instr_global_switch`, `do_global_loglevel_switch`, `do_qemu_log_instr_start/stop`, `helper_qemu_log_instr_{,user_,allcpu_,allcpu_user_}start`, `_stop`, `_allcpu_stop` | the process-wide `CPU_LOG_INSTR` bit; the per-CPU queue of `async_safe_run_on_cpu` work | queue a switch on one or all CPUs |
| Ring buffer | `reset_log_buffer`, `do_instr_commit`, `qemu_log_instr_commit`, `qemu_log_instr_drop`, `qemu_log_instr_flush`, `helper_qemu_log_instr_buffered_mode` | `instr_info` (the ring), `ring_head`, `ring_tail`, `force_drop`, flag `BUFFERED` | commit, drop, flush, switch buffering on or off |
| Filter pipeline | `qemu_log_instr_add_filter`, `_remove_filter`, `_allcpu_*`, `_add_startup_filter`, `entry_mem_regions_filter`, `entry_event_filter` | per-CPU `filters` list; `reset_filters` | add, remove, evaluate on commit |
| Collector API | `qemu_log_instr`, `_reg`, `_cap`, `_mem_*`, `_event`, `_asid`, `_exception`, `_interrupt`, `_extra` | the current entry `ring[ring_head]` | append data to the current entry |
| Statistics | `QEMU_LOG_INSTR_INC_STAT`, `dump_debug_stats` | `entries_emitted`, `trace_start`, `trace_stop` | incremented by commit, flush and switch |
| Backend | `trace_backend->emit_instr`, `sync`, `emit_debug` | outside this repository | receives committed entries |
| Ring resize | `qemu_log_instr_set_buffer_size`, `do_log_buffer_resize` | ring length | reinitialise every slot in exclusive context |
| Staged printf | `qemu_log_gen_printf`, `_gen_printf_flush`, `helper_qemu_log_printf_dump` | `qemu_log_printf_buf` (`valid_entries` bitmap, args, fmts) | stage at translation, render at run time |

The file also contains, after the C code, a C++ catch test of 128-bit printing. The
repository also has `src/target/arm/gdbstub64.c` and two meson files. None of
these touch the trace core.

### How the parts interact

- **Level changes go through a FIFO.** The monitor, the guest's start/stop
  helpers and `qemu_log_instr_mode_switch` do not change the level. Each one
  queues a `do_cpu_loglevel_switch` (or `do_global_loglevel_switch`) with
  `async_safe_run_on_cpu`.
- **Queued switches run later.** The owning CPU runs them in order, in
  exclusive context, once it has left its translation block.
- **The CPU thread builds and publishes entries.**
  - It appends to the current entry, `ring[ring_head]`.
  - `commit` runs the filters. In streaming mode it hands the entry to the
    backend. In buffered mode it advances the head.
  - `commit` then resets the slot that is now current.
- **START is deferred.** A switch that turns tracing on writes a START event
  (and a REGDUMP) into the current entry and sets `starting`. That entry is
  published by the next commit. A stop that arrives before then discards it.
- **STOP is emitted at once.** A switch that turns tracing off appends STOP and
  commits immediately.

### Hard behaviours

- **Stale decisions.** A request is decided from the state at the moment it is
  queued, and applied later:
  - `mode_switch` reads `loglevel` and `loglevel_active`;
  - `do_qemu_log_instr_start` bails out when the level and activity already
    match.
- **Abandoning a START.** A START can be abandoned in three ways: by a later
  switch (the `starting` path), by `force_drop`, or by a filter.
- **Ring overflow.** When the head catches the tail, the tail is pushed. A flush
  reads the tail before it may commit.
- **Buffering toggled at run time.** The `BUFFERED` flag can be switched at run
  time without draining the ring.
- **Boot.** `qemu_log_instr_init` applies a switch and then zeroes the stats.

### Correctness properties

All of these concern what the backend receives:

- START and STOP alternate (slices are well bracketed).
- No instruction is emitted outside a slice.
- Entries are emitted in commit order.
- No entry is lost except by the overflow policy.
- The per-CPU level follows the last request.
- `loglevel_active` follows the CPU mode under user-only tracing.
- A requested level is eventually reached.
- While a START is pending (`starting`), the current entry holds it.
- A switch that changes nothing, or abandons a pending START, emits nothing
  (spec P6, P7). This is checked only where no resize runs (`user2`): a
  resize clears `starting` while the START it held is lost, and a later stop
  then commits a lone STOP, which is the `resizestart` finding.
- Entry data stamped while tracing is off surfaces only with the next START
  or with a FLUSH.
- The ring implements a bounded drop-oldest FIFO.
- A printf dump renders each staged slot once, in bit order.

## 2. Modules

### `LogInstr.tla`: the trace controller, ring and filters of one or more CPUs

**State.**

| Variable | Code |
|---|---|
| `log[c]` | one record for each `cpu_log_instr_state_t`: `loglevel`, `active` (`loglevel_active`), `starting`, `forceDrop`, `buffered` (the flag), `ring`, `head`, `tail`, `filters`, `stats` |
| `log[c].out` | the entries handed to `emit_instr`, in order; the backend's view |
| `log[c].n`, `log[c].evicted` | history: number of commits made, and commits overwritten by overflow |
| `logflags` | the `CPU_LOG_INSTR` / `CPU_LOG_INSTR_U` bits |
| `work[c]` | the `async_safe_run_on_cpu` queue, FIFO |
| `cpuMode[c]` | what `cpu_in_user_mode` returns |
| `tbExit[c]` | the CPU queued work itself and must leave its TB before it logs another instruction |
| `requested`, `nreq`, `nmode` | history and bounds |

**Entries.** An entry keeps the two flags the core reads (`HAS_INSTR_DATA`,
`MODE_SWITCH`), `next_cpu_mode`, `pc`, the number of register records, the
memory addresses and the events. Events are kept as kinds (START, STOP, FLUSH,
REGDUMP, target event). Register values, instruction bytes, asid and
interrupt data are left out, because no part of the core reads them back.

**Actions.** There is one action per entry point, and the helpers of the code
are operators:
- `ResetLogBuffer`, `DoInstrCommit`, `InstrCommit`, `EmitStart`,
  `NextLevelActive` and `DoCpuLoglevelSwitch` compose exactly as the C calls
  do. For example, the STOP path is `InstrCommit` of `AppendEvent(s1, "STOP")`,
  and `goto done` is an ordered IF chain.
- Every action models its whole handler. For example, `QemuLogInstrFlush`
  appends FLUSH, commits if disabled, drains and moves the tail, all in one
  step. This is because the CPU thread runs it without interruption.
- `RunWork(c)` runs the head of the queue. The `global` variant sets
  `CPU_LOG_INSTR` first, and takes `cpu_get_recent_pc` as a
  nondeterministic address.
- The result of `cpu_log_instr_event_regdump` is a nondeterministic boolean.
- Filters: `QemuLogInstrAddFilter` and `QemuLogInstrRemoveFilter` act on one
  CPU, as the target's calls do. `QemuLogInstrAllcpuAddFilter` and
  `...AllcpuRemoveFilter` apply `AddFilter` and `RemoveFilter` to every CPU in
  one step. `QemuLogInstrSetCliFilters` is `set_cli_filters("events")` after
  the CPUs exist, which `add_startup_filter` turns into an `allcpu` add.
- Entry data: `QemuLogInstrIntr` (asid, exception, interrupt) and
  `QemuLogInstrExtra` are `StampInfo`, which adds to the entry's `info`
  whether tracing is enabled, because none of them checks it.
- Memory records: `QemuLogInstrMemInt` is the append of
  `qemu_log_instr_mem_int`; `HelperQemuLogInstrMem` is the load/store helper
  that calls it when logging is enabled.

**Ring resize.** `QemuLogInstrSetBufferSize` queues a `"resize"` work item
on every CPU, like `qemu_log_instr_set_buffer_size`. `RunWork` runs it as
`DoLogBufferResize`: head and tail go to 0, and every slot is reset. The reset
also clears `force_drop` and `starting`, because `reset_log_buffer` does. The
model's ring keeps `RingSize` slots, so the new size itself is not modelled.
The capacity is a constant that the runs vary.

**Fairness.** `FairSpec` is `Spec` with weak fairness on `RunWork(c)` for each
CPU. `async_safe_run_on_cpu` queues the work and kicks the CPU out of
`cpu_exec`, and the vCPU thread runs its queued work before it executes guest
code again. So work that stays runnable is eventually run. Nothing obliges the
guest or the monitor to commit, flush or make requests, so those actions get
no fairness.

**Refinement.** `TB == INSTANCE TraceBuffer WITH ...` maps the ring to the
abstract FIFO:
- `pending` is the commit numbers from tail to head (`RingSeq`);
- `emitted` is the numbers in `out`;
- `committed` is `n`;
- `Capacity` is `RingSize - 1`.

`TraceBufferRefined == TB!Spec` is checked as a property.

**Mutants.** The operators named `...NoWrap`, `...NoPush`,
`...StopUncommitted`, `...FlagOnly`, `...SkipActive`,
`...Inverted`, `...KeepTail`, `...KeepStarting`, `...KeepInfo` and `...NoNoOpCheck` are the mutants of `PROJECT.json`. Each one is a
plausible bug in the operator of the same stem. The specification never uses
them.

### `TraceBuffer.tla`: what the ring promises

This is an abstract specification of spec sections 4.1 and 4.3. Its state is
per CPU:
- the `BUFFERED` flag;
- the FIFO of commit numbers held for the next flush, at most `Capacity` of
  them, with the oldest dropped on overflow;
- the numbers handed to the backend;
- the number of commits so far.

Its actions:
- `Commit`, which emits at once in streaming mode (only when nothing is held);
- `Flush`, with or without committing the FLUSH entry first, which emits the
  whole FIFO;
- `SetBuffered`, which may leave buffered mode only when nothing is held.

### `StagedPrintf.tla`: the staged printf of one CPU

**State.**

| Variable | Code |
|---|---|
| `used` | `base->printf_used_ptr` of the TB being translated |
| `code`, `pcOp`, `closed` | the ops generated for the current TB (stage slot `ndx`, dump, guest instruction), the next op while it runs, and whether translation ended |
| `valid` | `valid_entries`, as the set of its set bits, since TLC's integers are 32-bit |
| `logging` | `qemu_base_logging_enabled` at translation and `qemu_log_instr_enabled` at run time |
| `lastDump` | history: the last dump rendered with logging on: the bits it took, the slots it rendered in order, and the bits left when its fuel ran out |

**Actions.**
- `GenPrintf` is `qemu_log_gen_printf`. Its guard `used < Depth` is the assert.
- `GenPrintfFlush(early, force)` is `qemu_log_gen_printf_flush`. The
  translator's choice of `early` and `force` is the input.
- `ExecStage` is the generated store of the format and the OR of
  `1ULL << ndx`. Argument stores are folded into it, because they are plain
  stores to `env`.
- `HelperQemuLogPrintfDump` takes and clears `valid_entries`. It renders only
  when logging is enabled. `DumpLoop` is its `while (valid)` loop, with
  `IntShiftBits(ndx)` giving the bits of `(uint64_t)(1 << ndx)` for a 32-bit
  int on x86-64 and AArch64: the shift count is taken mod 32, and bit 31 is
  sign-extended to bits 31..63. `DumpLoop` carries what it has rendered as
  an accumulator, so TLC's evaluation stays shallow. It gets `Depth + 1`
  iterations of fuel: a loop that renders each staged slot once ends within
  `Depth`, and bits left over after that show a loop that does not end.
- The environment, QEMU's translator and `cpu_exec`, is outside this
  repository:
  - `GenInsn`, `EndTB`, `NewTB` and `RunTB`;
  - `ExecInsn`, and `Exception`, where `cpu_loop_exit` leaves the TB;
  - `ToggleLogging`, between TBs.

### MC modules

- `MCLogInstr.tla` extends `LogInstr` for TLC. It defines:
  - the empty startup filter list, `MCNoStartupFilters`;
  - a CPU symmetry set, used only by the two-CPU safety run.
- `MCStagedPrintf.tla` extends `StagedPrintf`. It defines the search
  constraint `FlushOnlyWhenFull` of the depth-32 run.

## 3. Runs

Every `MCLogInstr` run has one CPU `c1`, except `user2`, which has two. `ResetMode` is USER, the enum
value 0 of `next_cpu_mode`; it is unobservable, because `nm` is only read when
`ms` is set.

### Passing runs

| Run | Checks | What it shows |
|---|---|---|
| `all` | `SlicesWellBracketed`, `NoInstrOutsideSlice`, `StartingHoldsStart` | Streaming ALL-level tracing, with the monitor and the helpers starting and stopping it. Instructions, records, target events, flushes and filter additions and removals (per CPU, `allcpu` and the CLI filter) come in between. A pending START is never lost from the current entry while `starting` is set. |
| `user2` | `SlicesWellBracketed`, `NoInstrOutsideSlice`, `ActiveMatchesLevel`, `StartingHoldsStart`, `SwitchIsSilent` | Two CPUs with user-only logging and guest helpers. One CPU's start sets the process-wide `CPU_LOG_INSTR` bit that the other's `check_enabled` and mode switches read. The bit alone never makes a CPU log. Queued USER switches that find the level unchanged emit nothing. |
| `live` | `LevelReachesRequest`, `UntracedDataOnlyAtSliceStartOrFlush` under `FairSpec` | Global switches to NONE, USER and ALL, with ring resizes queued in between. The target stamps entry data, whether it traces or not. Every level asked for is reached unless a later request replaces it. Untraced entry data reaches the backend only with the next START. |
| `ringrefine` | `TypeOK`, `EmissionInCommitOrder`, `TraceBufferRefined` | Buffered mode with a 3-slot ring and 5 commits, so the ring overflows, drops and flushes. The ring implements `TraceBuffer` (746k states). |
| `printf` | `TypeOK`, `DumpRendersValidOnce` (spec P8) | Staging areas of depth 4 across flushes, exceptions, re-runs and logging toggles. Every dump renders each valid slot once, lowest first, and ends with `valid_entries` clear. |

### Violation runs

Each violation run checks one property. The findings in `PROJECT.json` explain
each one.

| Run | Property | What TLC finds |
|---|---|---|
| `stale` | `LevelFollowsRequests` | `mode_switch` queues a USER switch behind a monitor stop and undoes it. |
| `relevel` | `NoInstrOutsideSlice` | USER then ALL before the first commit. The `goto done` skips the START, but `loglevel_active` stays true. |
| `flushloss` | `NoSilentLoss` | A flush with tracing off, on a full ring, emits nothing and moves the tail to the head. |
| `toggleorder` | `EmissionInCommitOrder` | Entries stranded by switching buffering off are emitted after later ones. |
| `startbail` | `LevelReachesRequest` | Under `FairSpec`: a guest stop is queued, then a guest start bails on the stale "already active at ALL", and the stop leaves tracing off for good. |
| `resizestart` | `NoInstrOutsideSlice` | A resize queued behind a monitor start erases the deferred START. The next instruction is emitted outside any slice. |
| `printfshift` | `DumpRendersValidOnce` | Depth 32: clearing slot 31 with `1 << 31` sets bits 32..63, and the dump loop re-renders slots and does not end. |

### Bounds and why they are enough

- **Ring size.** `RingSize` is 2 or 3 instead of 65536. Overflow needs the head
  to catch the tail. With 3 slots the ring holds 2 entries, and with the 5
  commits of `ringrefine` it wraps and overflows twice.
- **Commits.** `MaxCommits` (2 to 5) bounds commits on a CPU. A slice needs
  the START commit, one instruction commit and the STOP commit, so 3 is the
  least that shows a slice ended and restarted.
- **Requests and queue.** `MaxRequests` (2 or 3) bounds the explicit level
  requests, and `MaxQueue` (2) bounds the queue. Two queued switches are what
  every stale-state interleaving above needs.
- **Entry contents.** `MaxRecords` bounds register and memory records per
  entry, and `MaxEvents` bounds target and FLUSH events per entry. Both are 0
  or 1, because one record already makes the EVENTS and MEM_REGIONS predicates
  flip.
- **Mode switches.** `MaxModeSwitches` is 3 in `user2`: kernel, user,
  kernel, shared by the two CPUs.
- **Addresses.** `Addrs` is `{a1}`. With `debug_regions` NULL, no property
  tells two addresses apart.
- **`Features`.** Each run enables only the operations its question needs, to
  keep its state space within minutes.
- **Two CPUs.** `user2` has two CPUs under symmetry, with `MaxCommits` 2 and
  `MaxRequests` 2. That is enough for one CPU to start while the other is in
  user-only mode.
- **Staged printf.** The `printf` run has `Depth` 4 and `FlushBarrier` 3, up to
  5 `gen_printf` calls, 3 guest instructions, 5 ops per TB, 4 TB runs and 2
  logging toggles. So a TB can fill the area, be cut short, and be re-run.
  `printfshift` takes `Depth` = `FlushBarrier` = 32, the least depth at which
  slot 31 exists. It uses the constraint `FlushOnlyWhenFull` to leave out the
  orders that flush earlier.
- **Coverage.** Between them, the passing runs fire every disjunct of both
  `Next` relations.

### Deadlock

Every cfg says `CHECK_DEADLOCK FALSE`. The only states with no successor are
those where the model's bounds are used up. The program itself can always take
another step, such as a commit, an instruction or a request.

### Fairness

`live` and `startbail` check `FairSpec`, which has weak fairness on `RunWork`
only (see section 2). The other runs check safety under `Spec`.

## 4. Not modelled, and why

- **The new ring size.** A resize's reset is modelled, but not the change of
  length. It drops the buffered entries by design (spec 4.1), so the runs that
  check `NoSilentLoss` and the refinement leave resize out.
- **The printf renderer.** `g_string_append_printf_union_args` is string
  processing. A rendered slot is its index. The arguments' typed stores are
  folded into the format store.
- **TB framing.** Whether a translator emits `gen_printf_flush(early)` before
  every instruction that may fault is outside this repository. So is whether a
  TB translated with tracing on can run after a stop (the hazard at line
  1444).
- **The contents of entry data.** The asid, the interrupt code, vector and
  fault address, and the text of `extra` are left out. The model keeps only
  whether tracing was enabled when each stamp was made (`info`). The REGDUMP
  builders `event_create_regdump` and `event_dump_reg*` fill the payload of the
  REGDUMP event, which the model keeps as a kind.
- **Filter names.** `set_cli_filters` splits a string; only "events" is a
  name, and the model takes that path (`QemuLogInstrSetCliFilters`). Before the
  CPUs exist its effect is the `StartupFilters` constant, which `Init`
  applies; the runs leave it empty.
- **Backends, sync and counters.** These live outside this repository, or only
  forward calls to it.
- **Concurrency across CPUs.** The `allcpu` filter functions change other
  CPUs' filter arrays outside exclusive context. This data race is below the
  level of the model, whose filter changes are atomic. It is listed as a
  hazard.
- **The AArch64 gdb stub.** `aarch64_cpu_gdb_read_register` and
  `_write_register` dispatch a register number to `CPUARMState` accessors
  (`arm_get_xreg`, `pstate_read`/`pstate_write`) that are not in this
  repository, and spec section 1 names the GDB stub an external collaborator.
  They hold no state of their own and run serialised by the gdbstub, so there
  is no interleaving or protocol for TLC to explore.
- **The remaining files.** The meson files and the C++ test code have no
  runtime state.

## 5. Plan

1. Sitting 1 (done). The `LogInstr` core, its runs, and seven findings.
2. Sitting 2 (done):
   - weak fairness and the `live` and `startbail` runs;
   - the `TraceBuffer` refinement;
   - ring resize;
   - the two-CPU run;
   - the `StagedPrintf` module;
   - four more findings.
3. Sitting 3 (done):
   - `StartingHoldsStart` (spec section 3: `starting` implies the START is
     in the current entry) and the action property `SwitchIsSilent` (spec P6,
     P7), with their mutants;
   - the `allcpu` and CLI filter operations, and the load/store helpers;
   - the gdb stub's reason for staying out of the model.
4. Sitting 4 (done):
   - `DumpLoop` with an accumulator: the deep recursion had overflowed TLC's
     stack on some schedules of the `printfshift` run;
   - `asid`, `exception`, `interrupt` and `extra` as stamps of entry data,
     and the invariant `UntracedDataOnlyAtSliceStartOrFlush` about the
     collectors that ignore `check_enabled` (spec 4.2);
   - review: `FiltersDistinct` (it restated the duplicate check of
     `qemu_log_instr_add_filter`) and `NoDuplicateEmission` (implied by the
     strict order of `EmissionInCommitOrder`) were dropped; `SwitchIsSilent`
     left the `live` run, where a resize lets a stop commit a STOP whose START
     was never emitted, so `~starting` there does not mean the slice opened.
5. Next:
   - An abstract `TraceSlices` specification of the backend stream (slices
     opened by START and closed by STOP), refined by the runs that keep slices
     well bracketed.
   - Global and `allcpu` helpers on two CPUs under a view that drops the
     history fields.
   - The printf dump composed with the entry commit: spec 4.6 says rendering
     happens when the entry is committed.

### Disagreements seen while modelling that no run checks

Each is listed as a hazard in `PROJECT.json`:
- `qemu_log_instr_drop` on the entry that carries the deferred START loses the
  START (line 279).
- The boot-time switch counts `trace_start` before `qemu_log_instr_init`
  zeroes the stats (line 565).
- A guest stop on a CPU created without `-d instr` reaches
  `log_assert(CPU_LOG_INSTR)` (line 322).
- An allocated but empty `debug_regions` rejects every entry, where spec P10
  says every entry passes (line 1588).
- A staged printf cut short by an exception is rendered by a later dump
  (line 1083).
- `asid`, `exception`, `interrupt`, `event` and `extra` stamp the entry while
  tracing is off, although spec 4.2 asks them to be no-ops (line 821). The
  `live` run checks where such data can surface: only in the entry that opens
  the next slice, or in a FLUSH entry.
