# Verification of the DIMM RAS data collection drivers and tools

This directory holds TLA+ models of the repository: two out-of-tree EDAC drivers
(`boradwell-edac-driver/sb_edac.c`, `skylake-edac-driver/skx_*.c`) whose kernel
threads poll the corrected-error counters of every memory rank and log what is
new, and a Python tool (`mem_inspector/`) that samples performance counters,
temperatures and error counts on a schedule. There are no tests in the
repository; the models are written from the code, and the texts that violations
are measured against are its comments.

## 1. Inventory

| Component | State | Operations | Talks to |
|---|---|---|---|
| Broadwell/Haswell polling thread, `sb_rd_err_log()` | `prev_err` per channel, `cpus_per_core`, loop position | start, check for stop, read four dwords, difference, two MSR reads, log, sleep | walks `sbridge_edac_list` without a lock; PCI config space, MSRs of a processor it picks; stopped by `kthread_stop()` |
| Broadwell device discovery, `sbridge_probe()` / `sbridge_remove()` | `sbridge_edac_list`, `pdev[]` per controller, PCI reference counts, `mci` registrations | search per table entry, create controller, store, enable, bind, register, put all | PCI core, EDAC core |
| Broadwell life cycle, `sbridge_init()` / `sbridge_exit()` | the thread's task, the list | probe, create thread; stop thread, remove | both above |
| Broadwell DIMM configuration and address decoding | mode bits in `pvt`, `dimm_info` sizes | `get_dimm_config()`, `knl_get_dimm_capacity()`, `get_memory_error_data()`, `get_memory_error_data_from_mce()`, `sbridge_mce_output_error()` | PCI config space, EDAC; its notifier registration is commented out |
| Skylake polling thread, `skx_rd_err_log()` | `prev` per channel | as the Broadwell one, with `prev` stored earlier | as above |
| Skylake life cycle, units, ADXL | `dev_edac_list`, `adxl_values`, `adxl_msg`, debugfs file | `skx_init()`, `get_all_munits()`, `skx_register_mci()`, `skx_adxl_get()`, `skx_remove()`, `skx_exit()` | PCI, EDAC, ACPI, debugfs |
| Skylake DIMM configuration and address decoding | `dimms[]`, the shared buffers of a decode | `skx_get_dimm_config()`; SAD, TAD, RIR, MAD stages; report | PCI config space, EDAC; called from the debugfs file |
| Metric scheduler, `bin/mem_inspector.py` | set of asyncio tasks, filter of printed values | `run`, `exec_task`, `cmd`, `csv_output` | the metric functions below |
| PMON counters, `libs/pmon/` | hardware control and counter registers | `set_event`, two-part `get`, `measure`, `read_bw`, `read_pmoncntr`, ... | one of three register drivers |
| Syslog parser, `bin/syslog_parse.py` | current error dictionary | one step per line | log lines of another version of the drivers |
| hwmon reader, demos, constants, logger, service files | none | - | pure I/O and examples |

What is hard: hardware that keeps counting while the thread reads it; processors
that come and go between the choice of a processor and its use; a thread that
ends by itself; unload while the thread walks the list; a search over devices
that moves references from step to step and may fail at any of them; loads
after loads that did not end well; fixed-size arrays and 15-bit counters at
their limits; decoders that take an address apart by shifts, divisions and
exclusive ors at four stages, where an error of one bit is silent; in the tool,
tasks that share one hardware counter and a counter read in two halves.
`PROJECT.json` lists each hazard at its line with the property that covers it.

What makes each component correct:

- polling: every corrected error is in exactly one log line; the address logged
  belongs to the controller logged; the thread ends when it is told to;
- discovery: one reference per holder at every moment, the right devices in every
  controller, nothing left after a failure or removal;
- life cycles: no thread without a list, no list or buffer freed under a thread or
  a debugfs file, nothing left after a failed init;
- decoding: no two addresses have one place, the places are the DIMMs that were
  reported to EDAC, and a report is of the address it was asked for, or, where firmware
  translates, of nothing but that and of what was written at the same time;
- scheduler: every entry of the table keeps exactly one task and is called again and
  again; the file has the latest values;
- PMON: a measured value is the number of events in its window, or -1 where the registers are missing.

## 2. Modules

| Module | Models | Kind |
|---|---|---|
| `ErrorLedger` | what a counter poller promises | abstract specification |
| `PollThread` | a polling thread as a driver's init and exit see it | abstract specification |
| `CeHardware` | counters, address registers, processors | what both threads read |
| `SbPoll` | `sb_rd_err_log()` | state machine over `CeHardware`, refines `ErrorLedger` and `PollThread` |
| `SkxPoll` | `skx_rd_err_log()` | the same for Skylake |
| `SbTables` | the PCI tables and bindings of Sandy Bridge, Ivy Bridge, Haswell, Broadwell and Knights Landing | constants of the code |
| `SbProbe` | `sbridge_probe()`, `sbridge_get_all_devices()`, `sbridge_get_onedevice()`, binding, registration, `sbridge_remove()` | state machine |
| `SbDriver` | `sbridge_init()`, `sbridge_exit()`, the thread (`INSTANCE PollThread`), loads and unloads | state machine |
| `SbDimm` | `get_dimm_config()`, `__populate_dimms()`, `knl_get_dimm_capacity()` | registration as a state machine, sizes as operators |
| `SbDecode` | the decoder and the handler of machine checks, over `SbDimm` | operators, and the handler as an action |
| `SbFirmware` | - (what the driver trusts firmware to have programmed) | a predicate on machines, and an assumption |
| `SkxProbe` | the search of `skx_init()`, `skx_register_mci()`, `skx_remove()` | actions |
| `SkxDriver` | `skx_init()` and `skx_exit()` around `SkxProbe`, ADXL, debugfs, the thread (`INSTANCE PollThread`) | state machine |
| `SkxDimm` | `skx_get_dimm_config()`, `skx_get_dimm_info()`, `skx_mad_decode()` | registration as a state machine, the MAD stage as operators |
| `SkxDecode` | SAD, TAD and RIR stages, concurrent writes of the debugfs file, over `SkxDimm` | state machine |
| `SkxFirmware` | - (what the driver trusts firmware to have programmed) | a predicate on machines, and an assumption |
| `MetricsService` | one task per table entry, for ever | abstract specification |
| `PmonCounters` | counter registers, `set_event()`, the two-part read | actions |
| `MetricsScheduler` | `run()`, `exec_task()`, the commands, `csv_output()`, over `PmonCounters` | state machine, refines `MetricsService` |
| `SbPollProofs`, `SbProbeProofs`, `SbDriverProofs`, `SkxPollProofs`, `SkxDriverProofs`, `SkxDecodeProofs`, `SbDecodeProofs`, `MetricsProofs` | - | theorems |
| `MCSbPoll`, `MCSbProbe`, `MCSbDecode`, `MCSkxPoll`, `MCSkxDriver`, `MCSkxDecode`, `MCMetrics` | topologies, machines and tables | constants for TLC |

Names ending in `Mutant` are plausible mistakes in the code; nothing but the
mutation tests of `PROJECT.json` uses them.

### CeHardware and SbPoll

State: the hardware of `CeHardware` (`hw` the counters, `errs` a history of what really
occurred, `ha_addr` the channel whose address each home agent's MCi_ADDR holds,
`online` the processors) and the thread (`pc`, its locals under the code's names,
`prev_err`, and `reported`, the sum of all its log lines). A rank's counter, the
address register and the processors change at any time between two steps of the
thread.

The loops over controllers and channels visit the channels that have a counter
device in a fixed order, so a channel is a number; `SourceId` and `Dom` give its
controller's socket and home agent. One action is one access to shared state:

| Action | Code |
|---|---|
| `Start` | counts sockets and processors (3063-3074), or is stopped before it first runs |
| `CheckStop` | `while (!kthread_should_stop())` (3076) |
| `ReadDword` | one of the four `pci_read_config_dword` (3083-3085) |
| `Quiet`, `HasErrors` | differences and scan (3087-3104) |
| `ReadStatus`, `ReadAddr`, `ReadFails` | `rdmsrl_on_cpu` and `return err` (3116-3147) |
| `Log` | the line and the `memcpy` to `prev_err` (3149-3157), both on the thread's own state |
| `Wake` | `msleep` returns (3160) |
| `Hardware` (`CorrectError`, `Offline`, `Online`), `StopRequest` | memory controllers, hotplug, `sbridge_exit()` |

Counters count modulo `CounterMod` (2^15 in the hardware) and differences are
taken modulo `2 * CounterMod`, as a u16 does; the comparison of an unsigned value
with zero is never true and so is not in `NewErr`. `MaxErrors` bounds the
behaviours. The value of MCi_STATUS is printed and otherwise unused: only its
read, which may fail, is modelled. Of an address only the channel it belongs to
is kept; whether a home agent replaces an address it holds is left open.

### SkxPoll

The Skylake thread differs in two places that matter: it stores the counters it read
in `prev` while it takes the differences (`Diff`, skx_base.c:307-314), before the MSR
reads that may end it, and it picks the address register by `lmc`. So the log and
`prev` agree only up to the differences carried to the line being made (`Carried`),
and these are lost when an MSR read fails. The `memset()` through the uninitialised
`ch` (skx_base.c:285) is not modelled: for an index of a channel it clears what
`kzalloc()` has cleared, for any other it writes outside the model's state.

### SbTables and SbProbe

A machine is a type of processor and a sequence of PCI devices. One
action is one outcome of one call of `sbridge_get_onedevice()` together with what
the loop in `sbridge_get_all_devices()` does with it (next device, next entry, stop, put all), or of one
call of `sbridge_register_mci()`. Every failure point of the code is a branch:
allocation, `pci_enable_device()`, a required device missing, the binding, the
registration. `refs` counts the references the driver holds. Each of the five
bindings is the set of roles it must have found and the roles it knows; a device
in no known role fails it. Knights Landing has several entries of one id and all
its buses in one controller; the search forgets the reference on the last device of
such an id when it turns to the next one (sb_edac.c:2526), and that on a socket's device
where the bus has no controller to hold it (2451); the history `left` remembers both. What the code cannot see of a controller that holds more devices than
its array is long is in `Seen`: the store lands in the part of the allocation
behind the array, which `kcalloc(13, 8)` leaves zeroed up to 16 pointers, and no
loop reaches it. Left out is the check for a duplicated device (2461-2467), which
only fires when a slot is already filled, and slots are filled in order. Where one
bus has a second home agent and another has none, the code's search does not
end (2448); the machines' sockets agree about it.

### SbDriver

Composes the parts over any number of loads. `mod` is where the module is
in its init and exit, `list` the controllers and whether each has an `mci`,
`registered` what EDAC holds (it outlives the module), `task` the thread. The probe
is one step, because `SbProbe` shows that it registers all it lists or leaves
nothing (`AllOrNothing`); a load that fails there changes nothing and is no action. The
thread's steps are those of `PollThread`, and `SbPoll` is shown to implement
`PollThread` (`LivesAsThread`); an entry is a controller here and a (controller,
channel) pair there. `StartFails` returns without `sbridge_remove()`, as the code
does. A thread that has returned loses its task (`Reap`); `kthread_stop()` on it then
reads freed memory, and `ExitFreed` allows both outcomes that do not crash: it finds
a completion that is done, or waits for ever.

### SbDimm and SbDecode

Registers are records of their fields; addresses are numbers of cache lines. The
bit positions at which the hardware interleaves, hashes and counts its limits are
constants, so that the memory of a small machine has some hundred lines and the
shape of the arithmetic is the code's. A stage of the decoder yields the set of its
results: empty where the code returns an error, else of one member; so a decode
is a chain of comprehensions, and an early return is an empty set. What
`is_cur_addr_mirrored` says is set and read in one call, and so a field of the result. An index is
an `int`: `IntRem` cuts the address, or the page of the channel address, to one before the remainder
is taken (2180, 2289), and the remainder has its sign. From 128 GiB on (`IntLines`, 2^31 lines) a channel index
of three ways may then be negative, which `TadResult` refuses as the code does (2205), or another channel's; a negative index of
`rir_offset` reads a register in front of its row, any rank (`RankAt`). All
sockets share one SAD, as on the boards; a register read that fails ends the
registration (`Config`).

`Handle(m)` is one call of `sbridge_mce_check_error()` for a memory error with a
physical address, for either way of decoding: by all the tables (`Decode`) or, if only the page is known,
by bank and channel of the machine check and one TAD rule (`FromMce`). `HandleKnl`
is Knights Landing, which has no decoder; its DIMMs do not tell their size, which
`knl_get_dimm_capacity()` works out from the SAD and TAD tables and the routes.

`MemoryMapped` says that memory and DIMMs fit each other, which depends on the tables as
much as on the decoder. `Plain` names the machines for which the code can get it right at all (of those with
too large numbers for an `int`, `SnbWideThree` and `SnbWideRanks`, it cannot), and
`SbFirmware` says when tables fit (`Consistent`), in terms of the parts of memory: a part
is a chunk, one of the controllers the SAD sends it to, the TAD rule for it, and a way of that rule.

- `Reached`, `Decoded`: all eight entries of a chunk's rule name controllers that are there, each of
  them has a TAD rule for it whose offset is not above it, and RIR rules that reach its end;
- `OneMode`, `InTurn`: A7 mode is one of the machine; the entries of one controller agree in the
  digits by which the sockets or home agents take turns, and bits that are mixed in lie above those;
- `Apart`: of the parts that go to the same channels those of one rule take the same turn, and
  those of different rules different blocks of the channel;
- `Paired`, `Filled`, `Whole`: channels of a group have the same ranks, the lines of the ranks are as many as the DIMMs
  have, and all together as many as memory.

Of Knights Landing, which has only sizes, it asks less (`KnlConsistent`):

- `KnlRegions`: the SAD regions follow each other and have all of memory;
- `KnlTables`: no line is in two TAD rules of a memory controller, and the rules inside a region that is not
  EDRAM have all its lines or none;
- `KnlWays`: a region has as many ways as there are channels of the controllers that have it, and a
  multiple of that many lines;
- `KnlDimms`: one controller, and a DIMM in each channel that takes part.

A machine whose SAD names packages that are not local need not be any of it: the driver refuses it.

None of it mentions the decoder but by the rules that apply to a chunk as a whole: what becomes of the bits below a
chunk is for the proof. Two exclusions of `Plain` were found by that proof, when a lemma would not hold:

- three channels in turn below sockets told by exclusive-ored bits. The channel is the address
  modulo 3, the address in the channel a division by 3 times the sockets; a block of six or more lines can lie
  across bit 16 of the address, where the socket's bits change, and then two lines of it
  have one channel and one address. `SnbSix(1)` is such a machine; the code asks itself in that
  place whether it should use `CHN_IDX_OFFSET()` (sb_edac.c:2188);
- channels mirrored and in lockstep: of the four that have a line the mask names three.

### SkxProbe and SkxDriver

As in `SbProbe` the machine is a sequence of PCI devices and `refs` counts
references. `BusMapped` is one device of `skx_get_all_bus_mappings()`; `UnitStored`,
`UnitRoute`, `UnitFails` and `UnitDone` are the outcomes of one call in the loop
over `skx_all_munits`; `RegisterOK` and `RegisterFails` are one `skx_register_mci()`.
EDAC refuses a number it already has, which is how an abandoned load spoils the next.

`SkxDriver` adds what `skx_init()` does behind the search, in order: the buffers
for translated addresses if there is an NVDIMM (`AdxlGet`: not there, out of memory for the
first or the second buffer, done), the debugfs file, the thread; and `skx_exit()`:
stop, remove the file, put the buffers, remove the sockets. `pc` is the position in
both. A failed `kthread_create()` returns without `skx_remove()` (`StartFails`), and the
load is `abandoned`: its references, registrations and file stay, its list goes with the module's
data. `Ends` leaves out, as the code does, an exit that waits for a task that is
gone ("hung"). An open debugfs file pins the module, so no injection runs while `skx_exit()` does.

### SkxDimm and SkxDecode

The stages are sets of results as in `SbDecode`, at scaled bit positions; only the MAD
stage keeps the real ones, with an address as the set of its bits, because its
tables name up to 17 row bits. `skx_get_dimm_attr()` returns -EINVAL for a field
out of range and the callers use it as a number; so does `Attr`, into a u8 (`U8`) and into
a size, which is undefined where the sum it shifts by is negative (`Garbage`). An address comes to the decoder by a write of the debugfs file; each write
is a process, and `met` remembers the others that ran between its begin and its end.

What the writes share is read and written without a lock, so one action is one access to it:

| Action | Code |
|---|---|
| `Fill` | firmware sets one component of `adxl_values` (118) |
| `TakeValues` | one of the four components that go to `res` (123-126) |
| `SkipAbsent`, `IsPresent` | a component is tested for ~0 (129) |
| `MakeText` | it is read again and appended to `adxl_msg` (132) |
| `Message` | one piece of `adxl_msg`, or one field of `res`, goes to `skx_msg` (548-560) |
| `Report` | EDAC reads one piece of `skx_msg`; with the last one goes the place in `res` |

A component holds the address whose translation it has a part of. So places and messages that are mixed from
the addresses of several writes are states of the model, as are pieces left by a write that is over. A text is a sequence of pieces with an end; the
letters are left out, and with them what is left of a longer piece behind a shorter one, or of a write that ends
in the middle of another's piece: nothing is promised of the message of a write that was not alone.
That `MSG_SIZE` is enough for all pieces is assumed. A translation without a socket finds no `mci`; one with a socket
but without a controller indexes in front of `imc[]` (465), and either outcome is allowed (`HasMci`, `NotTranslated`).

No two addresses have one place only if the tables of the stages fit each other, and the
driver does not test that. `SkxFirmware` says what fits means (`Consistent`), table by table:
sockets have names of their own and rules reach all of memory (`Named`, `Reached`); of the
addresses the SAD sends to a channel, those that lie alike in the blocks of a TAD interleave
take the same way through it (`InTurn`: the way taken out is known from the channel); TAD
rules lead to separate parts of the channel, and the finer interleave is the inner one (`TadFits`);
RIR rules rise, reach what the TAD leads to, and name different ranks or different parts of a
rank (`RirFits`); and the ranks of a channel have as many places as it has addresses, from
zero on (`Filled`). None of these says anything of the result of a decode. TLC evaluates it for
every machine of `MCSkxDecode` that the driver itself decodes for.

### PmonCounters, MetricsScheduler

Coroutines switch only where they `await`, so a task that stands between two
instructions of one stretch holds the loop (`current`), while the hardware counts
between any two and the file with a device's registers comes and goes. Without that file `get()`
returns -1 (`ReadMissing`) and `set()` returns without a write (pmon_driver_linuxkernel.py:53-59, 82-88), and neither raises:
each operation of `PmonCounters` makes the writes of a set `W` of its measurements, the ones whose file was
there, and the history `reached` remembers whether all of a measurement's were. `task[c, n]` is where the n-th task of entry c is; `Renew` is the part of
`run()` behind `asyncio.wait()`: all tasks that are done, raised or not, are started
again. A command is one of: readers that take all registers without an `await`;
`read_bw`, which measures over a sleep and does not stop its counters; `read_pmoncntr`,
which does; those that print nothing because `write_metric` has no branch for them; and
those that raise (`read_pcicfg` always, with a NameError, the others where a file that is there cannot be
opened or read, or a sensor cannot). `csv_output()` compares with `filter`, keeps the value and prints,
in that order, so a print that raises loses the line. Entries of one name or one
command are excluded (`TablesAssumption`): `main()` has none.

## 3. Runs

| Run | Shows | Bounds |
|---|---|---|
| `sb_poll` | `TypeOK`, `Ledger`, `AddressFromOwnHomeAgent`, `KeepsLedger` and `LivesAsThread` (refinements), `EveryErrorReported`, `StopEnds` | 2 sockets with one channel each, 2 ranks, counters modulo 3, at most 2 errors per rank including those counted before the module was loaded, 5 processors of which one is hot-pluggable |
| `sb_poll_wrap` | violation of `LinesAreErrors`: a wrapped counter | up to 4 errors, modulo 3 |
| `sb_poll_cpu` | violation of `CpuOnSocket`: no hyper-threading | 2 processors on 2 sockets |
| `sb_probe` | `TypeOK`, `RefsExact`, `Complete`, `AllOrNothing`, `ProbeEnds` | fifteen machines of five processors, all failures |
| `sb_probe_put` | violation of `AllPut`: 14 devices in 13 slots | one server socket |
| `sb_driver` | `TypeOK`, `NoUseAfterFree`, `UnloadUnregisters`, `UnloadEnds` | up to 4 controllers (two sockets with two each), any number of loads |
| `sb_driver_stop` | violation of `ExitUnregisters`: stopping a task that is gone | 1 controller |
| `sb_decode` | `TypeOK`, `MemoryMapped`, `ReportsPlace` | twenty-three machines of up to 2048 lines, every line, up to a few hundred machine checks each, an int of 11 bits (`IntLines` 1024) |
| `skx_poll` | `TypeOK`, `Accounted`, `AddressFromOwnHomeAgent`, `KeepsLedger` and `LivesAsThread` (refinements), `EveryErrorReported` | as `sb_poll` |
| `skx_driver` | `TypeOK`, `RefsExact`, `SocketsWhole`, `NoUseAfterFree`, `FreedOnce`, `LeavesNothing`, `Ends` | seven machines of up to two sockets, any number of loads, `MaxRefs` 2 |
| `skx_decode` | `TypeOK`, `MadExact`, `OneToOne`, `OwnPlace` | twelve machines of up to 192 addresses, every address; two writes at once on two of them, one of which has a translation of four components, one of them absent for one of the addresses |
| `metrics` | `TypeOK`, `CsvCurrent`, `CountsExact`, `Serves` (refinement with its fairness) | four tables of two entries, two tasks per entry, counters of two halves of 2 values, 2 events per window |

Why the bounds are enough.

*Polling.* The loop treats channels alike and couples
them only through a home agent, a processor and the order of visits; two channels
on two sockets show each coupling, two ranks show a scan and an odd and an even
counter. One dword per channel would hide errors between dwords only if ranks of
different dwords interacted, and they do not: `hw` still changes between the read
of a rank and its line, and between two channels. In `sb_poll` and `skx_poll` the counters cannot
wrap (`MaxErrors < CounterMod`), as in the theorems; `sb_poll_wrap` is the other
case. The hot-pluggable processor is the one the MSR reads of socket 1 go to, so a
read can fail before, between and after, and the topology has a spare processor so
that taking it away does not change the quotient.

*Discovery and life cycle.* The machines of `sb_probe` cover a socket with one controller,
with two, with IMC1 devices but no HA1, with a required device missing, without
the VT-d device, with exactly as many devices as slots, no device at all, a socket's devices without
its home agent, the shared and optional
devices of the other processors, and Knights Landing with fewer and with more devices than
entries. Those of `skx_driver` are one and two sockets, a hidden device, channels on a bus
of no socket, cores whose routes agree, disagree or are all zero, and no socket.
`MaxRefs` keeps the devices that a load leaks (the `edev` of a channel, or all of an
abandoned one) from making the states infinite: 2 allows a load after one that leaked.

*Decoding.* In `MCSbDecode` a chunk of 128 lines is the unit of all limits, XOR bits
are 4 to 6, hash pairs at 4 and 6, open pages at 5, the hole ends at line 512 and an int goes up to 1023, so
that every bit position lies below the size of memory and at a different place from the
others. The machines interleave over one, two and four sockets, home agents and
channels, three channels by themselves and below two sockets, swapped (A7), exclusive-ored and hashed bits, with holes,
lockstep, mirroring in full and in a range, several ranks and slots with and without
gaps, a rule that is out of use, registers that make the registration fail, and more lines than an int has
numbers, over three channels and in one channel of two ranks. In
`MCSkxDecode` the four granularities are bits 1, 2, 3 and 5 and a chunk has 16 addresses;
there are one to three ways of controllers, channels and ranks, each channel exactly filled, both page modes, NVDIMMs, two nodes one
behind the other and by turns. What a decoder does at one bit it does at another: the
scaled positions keep the order of the real ones, and each range spans more than one
period of every interleave in it. Every line is decoded: `OneToOne` and
`MemoryMapped` speak of all of memory. Two writes at once, of one address each, are enough to mix every
component and every piece of a text; the component absent for one of them makes texts of different length.

*Metrics.* Two entries show every pair of commands that share a counter; two tasks per entry
would show one entry started twice; halves of two values overflow within `MaxCount`. The file with the registers
may be missing at any access, for any of the counters.

The four violation runs stop at their first counterexample.

Fairness. A runnable kernel thread gets to run, `msleep()` returns, and an init or exit that
has begun goes on: `WF_vars(Thread)`, `WF_vars(Probe)`, in `SbDriver` `WF_vars(ThreadStep)` and
`WF_vars(Remove)`, in `SkxDriver` `WF_vars(ThreadStep)`, `WF_vars(InitGoesOn)` and
`WF_vars(ExitGoesOn)`. In `MetricsScheduler` `WF_vars(Renew)` and `SF_vars(Task(t))` for every
task: asyncio's loop takes its ready handles in their order and sleeps end, so a
task that is ready again and again runs, though others hold the loop in between.
None is assumed of the hardware, of hotplug, loading or unloading, nor of a task's outcome.
`CHECK_DEADLOCK FALSE` everywhere but in `Metrics.cfg`: a stopped or failed thread, a
removed or failed module, and a finished decode take no more steps.

The properties in words:

- `SbPoll`, `SkxPoll`: the log and `prev_err` agree, and the log never
  exceeds what occurred (`Ledger`; `Accounted` with what is carried); every line carries something new,
  nothing twice and nothing invented (`KeepsLedger`); an address in a line was latched by the
  line's own home agent whenever the processor chosen is on its socket
  (`AddressFromOwnHomeAgent`; `sb_poll_cpu` shows that the choice may be wrong); once
  errors cease the log catches up unless the thread has ended (`EveryErrorReported`);
  a stop request ends it (`StopEnds`).
- `SbProbe`: a device has one reference for each controller that holds it and one while the search
  stands on it, and one more only if it is in `left` (`RefsExact`); a search that found all it needed has a controller per home agent,
  with exactly its own and its socket's devices (`Complete`); success registers all, anything
  else leaves nothing (`AllOrNothing`).
- `SkxDriver`: the same for references over any number of loads, but for the `edev`s, which nothing
  puts (`RefsExact`); behind the search no pointer that is followed later is NULL or wrong, and the
  route is the one all cores agree on (`SocketsWhole`); the thread and the debugfs
  file never see a part or a freed list (`NoUseAfterFree`); a buffer is freed twice only
  where `skx_adxl_get()` lacked memory for the second (`FreedOnce`); only a failed
  `kthread_create()` leaves anything behind, and then no load comes up again (`LeavesNothing`).
- `SbDecode`: every line of memory has a channel set and an address there that no other line has, and the
  lines that decode to a DIMM are as many as the size given to EDAC (`MemoryMapped`; for
  Knights Landing the sizes add up to the memory mapped); a truthful machine check is reported for the
  place the registers map its line to, whichever way it is decoded (`ReportsPlace`). Both leave out what an `int`
  cannot index from 128 GiB on (`Plain`, `Narrow`).
- `SkxDecode`: no two addresses have one place and no place below one that is used is free
  (`OneToOne`); row, column and bank of a place determine it within its rank (`MadExact`); a
  report has the place of the address written, or, of a translation by firmware, each part of it
  that of the address written or of one whose write ran at the same time; and the message is whole and of
  the address written if no other write ran then (`OwnPlace`).
- `MetricsScheduler`: one task per entry, called for ever, whatever it raises (`Serves`); a finished
  measurement is -1 just if the file was missing when it was read, and else, if its own writes were made and no
  other command wrote the counter's configuration, the number of events of its window: up to where the counter was
  stopped, or up to the first part of the read with 2^32 more for each overflow before the second
  (`CountsExact`); the last printed line of an item has the latest values unless
  printing it failed (`CsvCurrent`).

## 4. Proofs

`SbPollProofs`, for every number of channels, ranks, sockets, processors and every
counter width:

- `TypeCorrect`: `Spec => []TypeOK`.
- `LedgerHolds`: `MaxErrors < CounterMod` implies `Spec => []Ledger`. `Ledger` is not
  inductive: a line prints `curr_err`, which the thread has carried since its reads.
  `LedgerInv` adds that the counters are the errors, and that every counter already
  read in this visit lies between `prev_err` and what has occurred.
- `PollImplementsLedger`: under the same assumption `Spec => KeepsLedger`. Initial
  states map to initial states; `CorrectError` maps to `Occur`, `Log` to `Report`,
  everything else to stuttering (`StepRefines`, from `LedgerInv`).
- `AddressHolds`: `Spec => []AddressFromOwnHomeAgent`, with no assumption on wraps.
  `AddressInv` adds that a channel with something new has had an error, that an
  agent with an error has latched an address, and that what an agent holds is of one
  of its own channels.
- `PollIsPollThread`: `Spec => LivesAsThread`, from `TypeOK` alone.

`SkxPollProofs` proves the same five for the Skylake thread (`AccountHolds` for
`Accounted`). Because `prev` is ahead of the log between `Diff` and `Log`, `AccountInv`
rests on `Carried`, what the thread holds in its hand, and adds that what it has read in
this visit lies between `prev` and what has occurred.

`SbDriverProofs`, for every number of controllers: `TypeCorrect`,
`ListOutlivesThread` (`[]NoUseAfterFree`) and
`UnloadIsClean` (`UnloadUnregisters`), all from `DriverInv`: the list is whole from the
probe to the end of `kthread_stop()`, a living thread means the module is live or
stopping, and EDAC holds exactly the listed controllers that have an `mci`. The
first needs it because the property says nothing of the time in which there is
no thread, and the last because `Free` empties the list without a look at
`registered`.

`SkxDriverProofs`, for every machine and any number of loads: `TypeCorrect`, `RefsHold` (`[]RefsExact`),
`BuffersHold` (`[]FreedOnce`) and `NothingLeft` (`[]LeavesNothing`), all from `DriverInv`:

- `ProbeTypes`, `DriverTypes`, `Control`: types, and what is known at each position;
- `Placed`, `Unique`: a device that a slot holds is of the slot's kind and on the
  socket's bus, and no device is in two slots. Without these a device put
  twice, or once for two holders, would not be noticed;
- `RefsExact` itself;
- `Buffers`: which states of the two buffers each position allows;
- `KeptOrLost`: EDAC holds only what the list has and the file is there only where
  `skx_exit()` will remove it, or a load was abandoned, controller 0 is EDAC's for good and
  no later load gets past it.

Its second part adds to the same invariant what `SocketsHold` (`[]SocketsWhole`) and
`NoUseAfterFreeHolds` (`[]NoUseAfterFree`) rest on (`WholeInv`):

- `SlotsCounted`: `ndev` is the number of slots that are filled. The driver only compares counts
  (skx_base.c:821), so that no slot is empty behind the search is a matter of cardinalities: no more
  slots than sockets can be filled for a unit, and so as many means all;
- `RoutesKept`: the route kept is the one of the cores seen so far;
- `McsKept`: each socket has the controllers whose turn was, so all two of them once the thread runs;
- `WalkInList`: the thread's place is in the list, which nobody changes under it.

`SbProbeProofs`, for every machine of every processor: `TypeCorrect`, `RefsHold` (`RefsExact`),
`AllOrNothingHolds` (`AllOrNothing`) and `CompleteHolds` (`Complete`), all from `ProbeInv`:

- `Types`, `Progress`: types, and what is known at each position;
- `Walk`: what the search has behind it. It goes on from a device of its entry, a bus whose
  second home agent is behind it has its second controller, only a bus with one ever has, and a lost
  device is behind it. This is
  why no device is stored twice in a controller;
- `Gathered`: a controller for each home agent behind the search, and in each all of its share;
- `Stores`: a controller has only its share, each device once;
- `Counted`: the references are those of the holders, of the search and of what was lost.

Knights Landing has several entries of one id, so its `Complete` needs the order of devices (`Taken`): the devices
stored are the ones whose rank among those of their id is at most the number of entries passed.

The code does not do all this on every machine, and the theorems name the machines:

- `SocketsAgree`: if a bus has a second home agent, so has every bus with devices of a second controller.
  Else the skip of sb_edac.c:2443 leaves `*prev` where it is, 2448 sends the search round, and each round
  puts that device again;
- `Fits`: a controller's devices fit the `pdev` array. With 14 devices in 13 slots the last is never put:
  that is what `sb_probe_put` shows;
- `MemoryOnOneBus`: the memory controllers of a Knights Landing are on one bus, as `sbridge_get_onedevice()`
  supposes where it keeps all of them in one controller.

Every machine of `sb_probe` satisfies these, the one of `sb_probe_put` all but `Fits`, and
`RefsHold` needs `Fits` only once the devices have been released.

`SkxDecodeProofs`, for any number of writes at once and registers of any contents: `TypeCorrect`, `OwnPlaceHolds` (`[]OwnPlace`),
`MadHolds` (`[]MadExact`), and for registers that describe a memory `OneToOneHolds` (`[]OneToOne`), from `DecodeInv`:

- `Types`, `FileLast`: nobody writes before the DIMMs are known;
- `Learnt`: a slot holds nothing yet or what its registers say. `MadExact` compares the
  size given to EDAC with the bits a decode uses, and both come from there;
- `Loops`: what is known at each position of a write;
- `Meeting`: of two writes that both run each has met the other;
- `Private`: without firmware translation a write's result is its own, whoever else runs;
- `Translation`: with it, the components that a write has filled itself may be filled again by others, but only by
  ones it has met, so until it has read them all they are of its own address or of a met write's;
- `Undisturbed`: of a write that has met no other, `adxl_msg` so far is the components behind it that are present
  (`Making`), then all of them and the end (`Complete`), and `skx_msg` and what EDAC has read are pieces of that.

`MadHolds` follows from `MadAlike`, which is stronger: two addresses of any number of bits have the
same row, column and bank just if they agree in every bit below the rank's size, for
both page modes, with and without bank xor and for every number of rows in the table.

`OneToOneHolds` undoes the stages from the last to the first. `skx_do_interleave()` keeps the block of a
number and its place within one of the ways, so two numbers with one result are equal if they took
the same way (`Kept`, `Back`, `WayBack`). A rank address and the rank give the RIR rule and the way
(`RirApart`, with the spans of `Bounds`); the address on the channel gives the TAD rule (`TadBounds`), and
its two interleaves are taken back with the inner one first (`TadBack`). That is where the two orders of the code differ:
when channels go first each stage keeps the low bits of what it is given (`TurnedBack`), otherwise both keep those
of the address itself, which is enough only if the inner interleave is the finer one or the outer has one way
(`StraightEnd`, on powers of two that divide each other). So no two addresses have one place
(`PlacesApart`), and by the least rule that reaches it each has one (`Placed`). No place below is
free by the pigeonhole principle: a one-to-one map from the addresses of a channel into as many places takes all of them
(`RanksFull`); only this part needs `Filled`.

`SbDecodeProofs`, for every machine of a processor the driver knows: `TypeCorrect` and
`ReportsPlaceHolds` (`[]ReportsPlace`) from `DecodeInv`, and for registers that describe a memory
`MemoryMappedHolds` (`[]MemoryMapped`). `DecodeInv` adds that a report of a
decode is made only of a configured machine in a mirror mode it has. The step for
a machine check compares the two ways the driver finds a place. By all tables each stage has at
most one result, of its type (`SadFacts`, `TadResultFacts`, `RankedFacts`, and `PlaceFacts` for the
whole); by page alone the home agent and the channel are the machine check's (`FromMceFacts`). A truthful
check names the ones the SAD found, both ways take the first TAD rule that reaches the
line, and "mirrored" is the first rule of a machine that mirrors a range in one and the other
(`PageReport`, `LineReport`); so they report the same channels. Where an `int` holds the numbers (`Narrow`) the
remainder of the code is that of the whole number (`IntFacts`); a `Plain` machine has only such lines
(`NarrowLine`). That sizes are
natural numbers, which `TypeOK` says, is a fact about sums over sets (`SumType`): a fold has its
type because a smallest set for which it has not would have a smaller one.

`MemoryMappedHolds` rests on `Learnt`, that a live driver has the modes and sizes of
each controller's registers, and refused none. A line is in one part (`LineHasPart`), and there it has a block in the channel and
keeps its bits below `shiftup` (`AtFacts`); the decoder gives it the part's channels at that address
(`ResultOfLine`, `PlaceOfLine`). Conversely, by `OneLine`, two lines at one address in the same channels are the same:

- their parts are of one TAD rule, with one offset and one turn, for those of different rules go to different blocks,
  and the address gives block and low bits (`SamePart`, with `Apart`);
- what the block leaves of the address is a few positions next to each other (`Near`). Unless three channels take
  turns these do not cross a multiple of four, so the lines agree in every digit above, in the chunk and in
  whatever is mixed in (`AboveBlock`, with `InTurn`);
- so the sockets' and home agents' digits are the same, as both lines came to one controller (`SameTurn`), and the
  channel's, since a hash moves both alike (`SameHash`, `SameWay`);
- of three positions, for three channels, the line modulo 3 is the channel and tells them apart (`SameOfThree`).

So the lines of memory have different addresses (`KeysDiffer`), each one of the `Cells` that ranks have (`KeyIsCell`). As many cells as
lines (`Whole`) leave none without a line, by the pigeonhole principle (`CellHasLine`); hence the lines of a DIMM are
those of its slot (`DimmLines`), as many as its registers say (`Filled`), which is the size that
`__populate_dimms()` computes (`FillsOfFit`).

Knights Landing has no place for a line, so its half of `MemoryMapped` is about sums: the sizes by channel, each a sum over regions of a
sum over TAD rules divided by the ways, against the lines of memory. A sum over a set cannot be taken apart by induction here,
but it can be counted: whenever a finite set falls into f[x] elements for each x, the sum of f is its number of
elements (`SumIsCount`; again by a smallest set for which it is not). So the proof makes three sets. The lines of
the TAD rules in a region are those of the region or none (`SizeOfRegion`); a region's share of a channel becomes
so many slices `<<region, <<channel, number>>>>` (`Slices`); all of them (`Bricks`) counted by channel give the sizes
(`ChannelCount`), and counted by region the memory that is not EDRAM (`BricksCount`), as no line is in two regions (`RegionsApart`).

`MetricsProofs`, for every set of tables, counters and register sizes: `TypeCorrect`; `ServesSafely`
(`Spec` implies the safety part of the service: initial states and steps map),
from `OneTask`, one task for every entry; `CsvHolds` (`[]CsvCurrent`) from `CsvInv`, which also has what the
filter remembers; and `CountsHold` (`CountsExact`) from `Places`, where a measurement stands for each
position of its task, and `AllRight`, the arithmetic: a counter whose configuration nobody else wrote, and
all of whose own writes were made, has the events since the window was opened, or since then up to the stop; the low part
read is that of the events at that time, and both parts together differ from it by the carries between them.

The assumptions are those of the modules, and each is one the code or the hardware makes true:
sizes are natural numbers and the topology is one the source ids describe
(`SizeAssumption`, `TopologyAssumption`); a PCI device is at one place and a
socket has one device for each slot (`MachinesAssumption` of `SkxProbe`); a machine is of a type the tables
have and its devices are a sequence (`MachinesAssumption` of `SbProbe`); register fields are numbers of their width,
and a route leads to a channel (`MachinesAssumption` of `SkxDecode`); the tables of a machine
that the driver decodes for fit each other (`FirmwareAssumption` of `SkxFirmware`, which only `OneToOneHolds` uses); addresses are natural numbers
(`AddressesAssumption`, `ErrorsAssumption`), and bit positions too (`ScaleAssumption`, `GranularityAssumption`); a
translation has at least the four components that `skx_adxl_get()` insists on, and an index for each (`AdxlAssumption`); firmware
programs targets and ranks that are there, on Knights Landing at least one controller, rules that grow and
tables that fit each other unless the driver refuses them, and on the others, where `Plain`, tables that describe a memory (`FirmwareAssumption` of `SbFirmware`; the driver trusts these registers
untested, and only `ReportsPlaceHolds`, `TypeCorrect` and `MemoryMappedHolds` use it); bounds are
natural numbers (`MaxRefsAssumption`, `CopiesAssumption`, `MaxMcAssumption`); no two entries of a
table share a name or a command (`TablesAssumption`); a window has fewer events than a counter has values
(`SizeAssumption` of `PmonCounters`). `MaxErrors < CounterMod` is needed: `sb_poll_wrap`
is the counterexample without it.

Only model-checked:

- liveness, which is out of this prover's reach: `EveryErrorReported`, `StopEnds`, `ProbeEnds`,
  `UnloadEnds`, `Ends`, and the fairness part of `Serves`.

## 5. Findings

1. A wrapped counter is logged with 32768 errors too many (sb_edac.c:3091, and
   skx_base.c:310).
2. The processor for the MSR reads is not on the controller's socket unless
   hyper-threading is on and all processors are online (sb_edac.c:3070-3072, 3110).
3. Server parts have 14 devices per controller and 13 slots (sb_edac.c:747, 2469).
4. Unloading after the thread ended by itself calls `kthread_stop()` on a task that is
   gone (sb_edac.c:3795).

What the models do as the code does, without a text in the repository that says otherwise, and so
not counted as findings:

- a probe that found nothing at all returns 0, and the thread polls an empty list (sb_edac.c:2531);
- `haswell_get_tohm()` cuts the last 32 MiB off memory, whose errors are refused (1123); `ReportsPlace`
  allows only that;
- without the optional DDRIO0 device DDR4 sizes are halved (1669-1671), `Known` excludes it from
  `MemoryMapped`, as it excludes channels mirrored and in lockstep, three channels below exclusive-ored sockets (2189) and mirroring of an address range, for which no TAD offset is right for what follows
  (`ReportsPlace` has it);
- channel and rank indices are put into an `int` before their remainder is taken (2180, 2289): from 128 GiB on an error
  of one of three channels in turn is refused or goes to another channel, and one of a channel with closed pages may be of
  any rank; `MemoryMapped` and `ReportsPlace` leave these lines out, `SnbWideThree` and `SnbWideRanks` have them;
- `get_intlv_mode_str()` (933) and Haswell (2111) take the XOR interleave for mode 0, Sandy Bridge for
  mode 1 (2078): modelled as coded, one-to-one either way;
- a Knights Landing error of channel 15 is reported as channel 18 (3283); a channel that any CHA routes counts for every
  region of its controller (1605), which the machines' regions, over all channels or none, do not show;
- a failed `kthread_create()` returns without removing anything (sb_edac.c:3773, skx_base.c:870);
- `skx_adxl_get()` frees a buffer on an error path and keeps the pointer (skx_common.c:87);
- places and messages translated by firmware may be mixed from the addresses of several writes, as `adxl_values`, `adxl_msg`
  and `skx_msg` are shared without a lock (skx_common.c:118-136, 548); `OwnPlace` says of what at most;
- a translation without a controller indexes in front of `imc[]` (skx_common.c:465);
- the Skylake thread stores the counters before the reads that may end it (skx_base.c:313);
- a value whose line could not be printed counts as printed (mem_inspector.py:60); `read_pcicfg` always raises;
- without a device's file a counter reads -1 and is not programmed, and no error comes of it (pmon_driver_linuxkernel.py:53,
  82): -1 is printed as a count.

## 6. Not modelled

- The syslog parser: it reads three-line messages that neither driver in this tree prints, so there
  is nothing to compose it with, and by itself it is text handling.
- hwmon reader, demos, constants, logger and service files: I/O and examples.
- The emulated and the socket register driver: constants and a wire.
- `get_memory_layout()` but for TOLM and TOHM: it prints the registers.
- The retry registers of the Skylake driver (`skx_show_retry_rd_err_log()`): nothing calls it.
- The `memset()` through an uninitialised index (skx_base.c:285), see above.
- The letters of a message, see above, and `MSG_SIZE`.
- Row and column tables read beyond their ends: `skx_get_dimm_attr()` allows 18 row bits and 12 column bits,
  the tables have 17 and 10 entries (skx_base.c:695); what is read then is the linker's choice. The machines stay within.
- Whether slot 0, whose page mode the RIR stage takes for the channel (skx_base.c:610), is the slot of the
  address: modelled and not judged, as ranks are told apart either way.
- TAD rules whose channel granularity does not fit their socket granularity: not one-to-one in the
  hardware's own terms, and so no machine has them.
- Machine checks during unload, and several at once on Broadwell: nothing registers the notifier.
