# TLA+ models of ai-ran-npu-kernels

The repository runs a 5G NR physical uplink (PUSCH) on an Ascend NPU: a library
of about fifty device operators, each with a program of its own, and *chains*,
host programs that drive them together. This directory holds TLA+ models of the
host programs, of the order in which the kernels use a core's buffers and of the
way from a radio profile to a running chain, the TLC configurations that check
them and TLAPS proofs about them. `PROJECT.json` maps every definition to the
lines it models and lists runs, mutants, findings, hazards and theorems.

## 1. The system

Everything runs around one pattern: a single host thread issues commands to one
ACL stream. A kernel launch and an `aclrtMemcpyAsync` are only queued; the
device executes them later, in launch order. A blocking `aclrtMemcpy` or
`aclrtMemset` acts at once. `aclrtSynchronizeStream` waits until nothing is
queued. Device buffers are shared by everything in the chain, by every slot of
a transport block and sometimes across blocks. What is hard to get right is
therefore not the concurrency of threads but the order in which two programs,
host and device, touch the same memory, and what is left behind when one of
their steps fails.

| part (directory) | state | operations | interacts by |
|---|---|---|---|
| precoder runtime (`mimo/pusch_codebook_precode`) | LRU cache: per resource key, last use, four device arrays; clock, entry count | `RuntimeInit`, `Launch` (hit, or miss with `Configure`), `RuntimeDestroy` | blocking uploads and a queued launch on the caller's stream |
| MIMO DMRS runtime (`mimo/mimo_dmrs_gen`) | pinned host staging area, device copies of it, physical output | `Create`, `Enqueue`, `Destroy` | rewrites the staging area at once, queues copies that read it |
| fused MIMO transmitter (`chain/pusch_mimo_tx_chain`) | device buffers, IQ of all slots, output file and receipt | `RunImpl`: prefix, slot loop, download, files | both runtimes above, runtime configuration, kernels |
| fused MIMO receiver (`chain/pusch_mimo_rx_chain`) | device buffers, LLRs of all slots, output file and receipt | `Run`: set-up, slot loop, decoder, checks, files | DMRS runtime, runtime configuration, kernels |
| SISO receiver (`chain/pusch_siso_rx_chain`) | arena of buffers, read pointer and timing offset on the device, cached cell | `rx_acquire`, `rx_slot`, `rx_tb`, report, timing, `main` with `--loop` | kernels, feedback from one slot to the next |
| SISO transmitter (`chain/pusch_siso_tx_chain`) | arena of buffers, IQ on the host | `tx_tb`, `tx_slot`, profiling, `main` | kernels, DMRS seeds uploaded per slot |
| runtime configuration (`common/*.cpp, *.h`) | none (pure) | load, validate, derive the operators' configuration | called by the receiver in every slot, by the transmitter once; every operator validates what it gets again |
| profile and grant compilers (`common/*.py`) | none (pure) | merge radio and grant, plan, measure against the registry of operators, pack | JSON files in, a file of 192 bytes out |
| operator programs (`*/*/main.cpp`, 51) | device buffers of one operator | upload, fill, run, download and compare, case by case; benchmark | their own kernel; two of them a runtime |
| staged loopback (`chain/pusch_mimo_loopback`) | device buffers of a stage; files and receipts of the stages | twelve `*_stage.cpp`, `run.sh`, `loopback.cpp` | processes that hand each other artifacts |
| contract harness, detector adapter (`chain/`) | none | test harness, descriptor | - |
| kernels (53): `channel_est/`, `equalization/`, `fec/`, `mapping/`, `mimo/`, `ofdm/`, `sync/` | tiles on chip; `win_slice` also its read pointer in device memory | one launch each | device buffers; inside, pipes ordered by event flags and core barriers; some kernels' cores meet at `SyncAll` |

What makes each part correct:

- *precoder runtime*: a kernel multiplies by the weights of the configuration
  it was launched with, although a later miss may overwrite a resource while
  the kernel is still queued; a hit finds a complete plan; one configuration
  occupies one resource.
- *DMRS runtime*: the staging area is not rewritten under queued copies.
- *chains*: every kernel reads what the program order says, of its own slot,
  block and cell; blocking copies never touch a buffer a queued operation uses;
  accumulators start from zero; a receipt vouches for what was really written;
  the run ends.
- *operator programs and stages*: memory a kernel accumulates in is cleared
  between launches, a launch finds its inputs there and not freed, and what is
  read back was computed.
- *configuration*: both ends of the link derive the same slot; what the
  compilers let through the loader takes, what the registry calls eligible the
  operators take, and no operator refuses when the slots are already running.
- *kernels*: five pipes and the scalar unit of a core share its buffers, several
  cores the device's arrays; no one reads what has not arrived or overwrites what is still needed, the scalar unit
  decides on data that is there, nothing hangs, and no event flag is left set.

`PROJECT.json` lists the hazards one by one, each at its line, with the
properties that guard against it or the reason there is none yet.

## 2. Modules

| module | models | role |
|---|---|---|
| `LaunchFifo` | - | what a caller of the precoder runtime may count on: a FIFO of launches, each executed with its own plan |
| `PrecodeRuntime` | `pusch_codebook_precode_runtime.{cpp,h}` | the cache, its caller, the stream and the kernel that loads a plan array by array; refines `LaunchFifo` |
| `PrecodeRuntimeProofs` | - | theorems about `PrecodeRuntime` |
| `MimoTxChain` | `pusch_mimo_tx_chain/tx_chain.cpp`, `mimo_dmrs_gen_runtime.cpp` | host and device of the MIMO transmitter, with failures, files and receipt |
| `MimoTxChainProofs` | - | theorems about it, for any number of slots |
| `DeviceStream` | the stream as all chains use it | the engine: programs of launches, copies and synchronisations, and a device that runs behind |
| `DeviceStreamProofs` | - | theorems about all programs, disciplined as a whole or on some buffers |
| `HostPrograms` | the ACL calls of the operator programs and stages | their vocabulary: calls, benchmark loops |
| `SisoMains` | `main.cpp` of the SISO and synchronisation operators | command sequences for `DeviceStream` |
| `MimoMains` | `main.cpp` of the MIMO operators | the same |
| `LoopbackStages` | `pusch_mimo_loopback/*_stage.cpp` | the same |
| `OperatorRuns` | - | these programs on the engine, among others nothing is known of, and what a launch and a download must find |
| `OperatorRunsProofs` | - | theorems about all operator programs and stages, for every loop count |
| `MCDeviceStream` | - | instance: every disciplined program of four commands over two buffers, every operator program and every stage |
| `SisoRxChain` | `pusch_siso_rx_chain/rx_chain.cpp` | programs of the SISO receiver, over `DeviceStream` |
| `SisoRxChainProofs` | - | theorems about it, for any number of slots and blocks |
| `SisoTxChain` | `pusch_siso_tx_chain/tx_chain.cpp` | programs of the SISO transmitter, over `DeviceStream` |
| `SisoTxChainProofs` | - | theorem about it, for any number of slots |
| `MimoRxChain` | `pusch_mimo_rx_chain/rx_chain.cpp`, slot number of `pusch_mimo_runtime_config.cpp`, `mimo_dmrs_gen_runtime.cpp` | programs of the MIMO receiver, over `DeviceStream` |
| `RuntimeConfig` | `mimo_config_compiler.py`, `mimo_profile_compiler.py`, `mimo_operator_capabilities.json`, `pusch_mimo_runtime_config.cpp`, `LoadConfig`, `ResolveConfig` and the operators' `ValidateConfig` | the way of a radio profile and a grant to a running chain |
| `GrantJobs` | `radio_profile_generator.py`, `pusch_grants/full_band.json` | radios, grants and jobs for the runs, and what the generator's radios may count on |
| `MimoRxRun` | `Run` of the MIMO receiver | `MimoRxChain` and `RuntimeConfig` together: the commands, held where `Run` loads or checks |
| `MimoRxRunProofs` | - | theorems about the receiver and its run, for any number of slots, and about its configuration, for every set of jobs |
| `MCMimoRxRun`, `MCTxProfile` | - | instances: all jobs (an assumption makes TLC evaluate the programs once); the transmitter's |
| `MCSisoRxChain` | - | instance of the SISO receiver, with the same assumption |
| `KernelOps` | AscendC, as the kernels use it (external) | the instructions of a kernel: copies, matrix and vector work, scalar accesses, event flags, barriers, queues, loops, `SyncAll` |
| `KernelPipes` | the AI cores (external) | the engine: a core's scalar unit issues a kernel's instructions, each pipe performs its own in order |
| `KernelEvents` | - | what events and `PIPE_ALL` order in a kernel's text, with no device in it |
| `KernelPipesProofs` | - | theorems about all kernels whose text orders its conflicts |
| `FecKernels`, `MapKernels` | all kernels of `fec/` and `mapping/` | programs of `KernelPipes` |
| `MimoKernels` | DMRS, precoder, grid map, MIMO LS estimator, packing; the SISO equaliser | the same |
| `SyncKernels` | slicing, resampling, frequency offset and DMRS of `sync/` | the same |
| `CubeKernels` | the four OFDM kernels | the same |
| `MatrixKernels` | SISO LS and LMMSE estimator, detector, downlink precoder | the same |
| `SearchKernels` | PSS, SSS and PBCH correlators, acquisition, SSB FFT, timing tracker | the same |
| `MCKernels` | - | 77 instances of the 53 kernels, the exceptions, and the order of each text, computed |

**State against code.** In `PrecodeRuntime`, `useClock`, `entries`, `key` and
`lastUsed` are `use_clock`, `cache_entries`, the `cached_*` fields with
`configured`, and `last_used`; `content` says, array by array, whose plan the
device memory holds, which is what the code cannot see. `Launch` is split where
the device may run in between: `LaunchHit`, or `LaunchMiss` (choice of the
victim), four `UploadPart` (one blocking copy each, any of which may fail,
`UploadFails`) and `LaunchConfigured`. `window` is not in the code: it is the
caller's obligation, that it launches at most `Capacity` different
configurations between two synchronisations of its stream. The fused
transmitter uses two per slot and the operator's own main five; the real
capacity is 16.

In `MimoTxChain` a buffer holds its provenance, the set of (source, slot) pairs
that went into it. `QueueOp` issues one launch of `RunImpl` after another
(`Program`), `QueueFails` is any refused call, `SlotBoundary` the
synchronisation at the end of a slot, `Execute` the device. The six phases are
the stretches of `RunImpl` between its early exits.

The other three chains are *programs* of `DeviceStream`: `SlotKernels`,
`Acquire`, `TxSlot`, `Decode` and so on are the command sequences the functions
of the code issue, each command with the buffers it reads and writes, and
`Program(c)` is what `main` or `Run` issues for one choice `c` of the
environment: environment variables, what acquisition reports, which blocks
decode badly, how the checks on the decoded bits come out. Those outcomes are
chosen in `Init`, so every branch is explored. A buffer holds the index of the
command that wrote it last, from which the properties read slot, block and
cell. Kernels appear by what they read and write; files and host vectors the
chain writes are buffers too.

In `RuntimeConfig` a *job* is what somebody asks for: a radio, a grant, a rank,
how the registry is used and which executable loads the result. `stage` is how
far it came, from `Merge` (`_validate_and_merge`), `Compile` (`compile_profile`),
`Evaluate` (`evaluate_capabilities`, `--require-eligible`) and `Pack`
(`to_runtime_config`) to `Load` (`LoadMimoRuntimeConfigFromEnv`), `Resolve`
(`LoadConfig`, `ResolveConfig`, `DerivePuschMimoConfig`), `Prepare` (the
operators asked before the loop), `EnterSlots` and `StartDecoder` (those asked in
it and behind it); `refusal` is the stage it was refused in. Every stage goes on
or refuses, nothing else, so the run's outcome is a function of the job; TLC's
part is to go through the jobs, and what could go wrong is that two stages,
written apart in two languages, disagree. `plan` and `config` are the resolved
plan and the packed record, each field as the later stages see it. An array that
must be increasing is a set, a bit mask the set of its bits, a gain is one of
four classes (the smallest positive doubles are zero as float32). In `MimoRxRun`
the same stages gate the receiver's commands: the front end of slot 0 is queued
when the DMRS generator is asked.

The operator programs and stages are command sequences too, written with the
calls of `HostPrograms`. Blocking copies in a row are one command over the set
of their buffers, real and imaginary planes are one buffer, `aclrtFree` is a
copy that overwrites. A program whose environment decides (which case files
exist, what a comparison found, the counts `WARMUP` and `TIMED`) is a set of
sequences; cases, warm-up launches, timed runs and launches behind one wait are
cut to `Cases`, `Warmups`, `TimedRuns` and `PerSync`. A failed ACL call exits
on the spot and issues nothing more; it is left out.

A kernel is a *program* of `KernelPipes`: the C++ text of one core, unrolled for
one choice of its data, for instance which code blocks complete a slot. `Load`
is a `DataCopy` into the core (pipe MTE2), `Store` one out of it (MTE3),
`Compute` a vector instruction (V), `LoadL0` a load from L1 to L0 (MTE1),
`Mmad` a product (M), each with the buffers it reads and writes;
`Read` and `Write` are `GetValue` and `SetValue`; `Sync(MTE2_V, 0)` is a
`SetFlag` followed by its `WaitFlag`. Instructions in a row on one pipe with
nothing between them are written as one, and so are the real and imaginary
plane where they are treated alike. In `KernelPipes`, `at` is where in the text
each pipe and the scalar unit go on and `flags` counts each event. The text is
the order the programmer meant, so the properties compare an instruction under
way with the earlier ones that another unit has yet to perform: no hidden
variable, and no value, is needed to see a race. A slot of a `TQue` is a buffer
of its own, taken, passed on and given back by the events that `AllocTensor`,
`EnQue`, `DeQue` and `FreeTensor` leave on the pipes. A kernel of several cores
is the texts of its cores, with buffers of their own and the device's arrays
between them; `SyncAll` is a `PIPE_ALL` on each core and an announcement from
every core to every other. How `Init` lays buffers out over the core's memory
is not modelled: buffers of different names are taken to be apart, those the
code reuses under another type have one name.

**What is assumed of the device.** The repository does not contain ACL. The
models assume what the code relies on: operations on one stream execute in
order, `aclrtSynchronizeStream` returns once the stream is empty, and a blocking
copy or memset is *not* ordered with the stream. The last is the cautious
reading, and the one the SISO receiver's code is written for (it synchronises
before every read). These definitions are marked external in the map.

AscendC is not in the repository either. `KernelPipes` assumes that pipes are in
order (so `PipeBarrier<PIPE_V>` orders nothing new, and does not stop the scalar
unit), that nothing but event flags and `PIPE_ALL` orders two pipes, that flags
count, that `FetchEventID` returns event 0 (no kernel allocates one), that the
queues of a kernel number their events apart from those of its text, that a
copy from device memory to L1 or UB runs on MTE2, from L1 to L0 or to UB on
MTE1, from L0C to UB on V and from UB on MTE3, that `SyncAll` drains the core's
own pipes first, and that the compiler inserts no synchronisation of its own. Issue queues are unbounded, which is the cautious
reading: with the real, finite ones the scalar unit cannot run arbitrarily far
ahead, and some of the races below cannot be reached.

## 3. Runs

| run | question | bounds, and why they are enough | result |
|---|---|---|---|
| `precode_cache` | Is a plan ever overwritten under a queued kernel, a hit ever mixed, one configuration ever cached twice, and is all this invisible to the caller (`LaunchFifo`)? | 4 configurations, 3 resources, 2 queued kernels, 6 launches: fills the cache and evicts twice with a kernel queued and half loaded. The proofs cover all values. | passes, 694k states |
| `mimo_tx` | Own bits and DMRS in every slot, staging area stable, PASS means complete, run ends | 3 slots: a first, an inner and a last one; slots differ in nothing else. Any call may fail. | passes |
| `mimo_tx_profile` | Does the transmitter run what the registry calls eligible, as `run.sh` assumes? | 1, 2, 4 and 16 by 4 and 64 antennas, every rank, the full-band grant | violated, finding 4 |
| `device_stream` | Does the discipline suffice for programs at large? Do the operator programs and stages keep it, clear what accumulates (`StateIsFresh`), launch on inputs that are there (`InputsArePresent`) and read back what was computed (`ResultsAreComputed`)? | all disciplined programs of 4 commands over 2 buffers: a violation needs a launch, a conflicting copy and one command between; 2 cases, 2 warm-ups, 2 timed runs of 2 launches: each loop has a first and a next turn, and nothing else tells its turns apart. The proofs cover all programs and all loop counts. | passes, 32.6k states, with the exceptions below |
| `siso_rx` | No copy races; a block is descrambled under the cell it was estimated with; timing feedback is the previous slot's | 2 slots, 2 blocks (a block after a good one and after a bad one), 2 cells (a re-acquisition finds the same or another), all environment variables; timing scaled to 1 x 1 launches. The proofs cover all values. | passes, 174k states |
| `siso_rx_window` | Does the window stay inside the capture? | the real 23 slots, 20 launches a batch, 8 batches | violated, finding 1 |
| `siso_tx` | Each slot modulated from its own grid and pilots | the real 23 slots, with and without profiling (scaled) | passes |
| `siso_tx_sync` | Is the stream synchronised before the DMRS merge? | as above | violated, finding 2 |
| `mimo_rx` | No copy races; kernels read their own slot only; accumulators start from zero; pilots agree with the transmitter; the receipt vouches for the bits. The loader takes what the compilers let through (`LoaderTakesWhatCompiled`), all that the radio generator writes is accepted (`GeneratedRadiosLoad`), operators refuse no eligible plan (`RegisteredIsExecutable`) and none refuses late (`NothingRefusedLate`) | the real 23 slots, every outcome of the checks on the bits, a grant with slot number 0. Jobs: all 1024 generated radios with each of their ranks; for a 16 by 64 radio every field of grant and radio at the edges of what some stage accepts, alone and one of each together; every use of the registry. The proofs cover any number of slots and all jobs. | passes, 566k states |
| `mimo_rx_grant` | Do the pilots agree for every legal grant? | 2 slots, grants with slot numbers 0 and 5 | violated, finding 3 |
| `kernels` | Do event flags and barriers keep the pipes and cores apart, in every kernel? Does its text alone say so (`TextIsDisciplined`, the hypothesis of the theorems)? | 77 instances of 53 kernels; each ring and queue is gone round at least twice or once more than it has places, loops run two to four times (in the kernels with matrix products some only once), branches that change the synchronisation are taken both ways, and the return on refused metadata, the same in all, is taken in three. Two or three cores where cores exchange data; the PSS and the SSS correlator's products on one core, the SSS exchange on two | passes, 94k states, with the exceptions below |
| `kernel_reload` | Is a received symbol reloaded only after it was used? | `mimo_dmrs_ls`, two receivers, two DMRS symbols, one layer | violated, finding 5 |

`CHECK_DEADLOCK FALSE` is set in every configuration because these programs end
(and `PrecodeRuntime` stops at its clock bound or at an error).
`MaxClock`, `MaxQueued`, `MaxTb`, `MaxLength`, `NumSlots`, `SlotsPerTb`,
`TimedM`, `TimedK`, `Jobs`, `Cases`, `Warmups`, `TimedRuns` and `PerSync` are the only
bounds, with the loop counts that instances of kernels are given in `MCKernels`.

**Fairness.** `KernelPipes` assumes weak fairness of the device as a whole: while
some unit can perform an instruction, one of them will. A device that can do
nothing and has not ended hangs, and `KernelEnds` is violated. `MimoTxChain`
assumes weak
fairness of the host's steps (one thread, no lock) and of the device (what is
queued is executed). The failing steps are not fair: they need not happen. The
run ends on either branch.

### Findings

1. `time_rx_kernels_realchain` launches `win_slice` 200 times more on the live
   read pointer, beyond the end of the capture; `win_slice` has no bounds check,
   and its `safe_window_condition` is nobody's obligation.
2. `merge_dmrs_siso/operator.yaml` describes a synchronisation before the merge
   that the chain no longer has; without it the next slot's upload of DMRS
   seeds is not ordered behind this slot's generator.
3. `DerivePuschMimoConfig` uses slot argument 0 for "the grant's slot number", so
   the receiver numbers slot 0 by the grant and the others from 1, while the
   transmitter numbers all of them from 0. The two agree only for grants with
   slot number 0.
4. With a profile the fused transmitter hands `re_map_batch` a configuration in
   which antennas stand for ports and the precoding mode is `kNonCodebook`, 2.
   `re_map_batch` knows modes 0 and 1 and 1, 2 or 4 ports, so every profile is
   refused before the first slot, whatever its antennas; the precoder, asked
   with the same record in the slots, would refuse it too. `run.sh` always
   compiles and sets a profile. The chain runs without one, on the constants of
   `LegacyConfig`. That no profile gets through is proved
   (`TransmitterPreparesNothing`).
5. `mimo_dmrs_ls` reloads `yreFull` and `yimFull` for the next DMRS symbol with
   no `V_MTE2` before the copy, while V may still have the previous symbol's
   combs to extract. `mimo_data_extract` and `rate_match_mimo` have the event in
   the same place. A symbol is followed by a dozen vector instructions or more
   a layer, so an issue queue shorter than that hides it.

One observation without a run, because no caller in the repository goes on after
an error: `Configure` (`pusch_codebook_precode_runtime.cpp:54-64`) overwrites the
victim's arrays first and its key last, and returns an error from the middle
without clearing `configured`. With `RetryAfterError = TRUE` the next launch of
the old configuration hits a mixed plan and `CachedPlanIsWhole` fails.

### Exceptions

`MCExceptions` names the buffers of a kernel of which a property of `kernels` is
not asked, because the model breaks it; each was confirmed by a run without the
exception. All but the first need a scalar unit that runs far ahead of a pipe.

| kernel | property | what happens |
|---|---|---|
| `scramble_siso`, `descramble_siso` | `ScalarReadsArrive` | the number of slots is read after `MTE2_V`, a wait of the vector pipe; the scalar unit does not wait |
| `mimo_dmrs_ls` | `TilesNotOverwritten` | finding 5; on core 0 also `counts.SetValue` behind a vector instruction that clears the same buffer, with `MTE3_V` between them but no event towards the scalar unit |
| `cfo_dmrs` | `TilesNotOverwritten` | the second symbol is loaded into the lanes of the first without `V_MTE2` |
| `ofdm_mod_batch` | `OperandsArrive` | the next phase loads from L1 what MTE3 copies there, with `MTE3_V` between them; in the first batch a `PIPE_ALL` covers it |
| `mimo_detect_bri`, `precode_zf` | `TilesNotOverwritten` | `SetValue` patches a table behind the `Duplicate` that fills it, with `PipeBarrier<PIPE_V>` between them |
| `pss_correlator` | `TilesNotOverwritten` | windows, references and twiddles are reloaded without `V_MTE2`; staging and output are filled by V and patched by the scalar unit, and staged again behind a store that only MTE2 has waited for |
| `pss_correlator` | `OperandsArrive`, `ScalarReadsArrive` | the scalar unit reads the reference V computes without `V_S`, and MTE3 stores what V fills with only `S_MTE3`; zeros of V go to L1 without `V_MTE3` |
| `detect_io_pack`, not fused | `TilesNotOverwritten` | `rx_in` is reloaded without `V_MTE2`; the fused build of the receiver chain has a barrier |
| `ldpc_decode` | `TilesNotOverwritten`, `OperandsArrive` | MTE2 reloads a message slot, and the messages from device memory, whose pending store only V has waited for |
| `mimo_dmrs_gen`, several unused layers | `TilesNotOverwritten` | V clears a buffer again that MTE3 is still storing as zeros: harmless |

Of the programs of `device_stream` three are excepted. The benchmark of
`ldpc_decode` (`main.cpp:314-332`) issues `aclrtMemset(dPrev)` and a launch two
times, then three times a turn, and waits only behind them. Under the assumption
above the memset does not queue: it acts while launches that use these messages
are queued or running. `ClearedTooEarly` names this buffer of this program, and
`CopiesKeepClear` allows a *fill* of it behind launches: no free, no read back, no
other buffer. With `ClearedTooEarly(p) == {}` TLC finds `CopiesKeepClear` violated by
this program, where the warm-up clears the second time. No other property needs an
exception: a launch does not read what the one before left there. The kernel
takes the old messages of its first iteration as zero
(`ldpc_decode_kernel.cpp:562-565`) and loads later what it stored itself (`:577`,
`:680`), so `prev` is an output of `Decoder` and no input. (`MimoRxChain`, which
clears it just before, counts it among the inputs all the same.) What a memset
can do is wipe messages between two iterations of a launch under way, which
changes what that launch computes; the benchmark compares its results with
nothing and reports a time. The verified launch, before it, is not excepted from
anything.

The benchmark of `mimo_resource_grid_map` skips cases it cannot read and goes on
without any, on buffers nobody uploaded (`Unloaded`, not asked
`InputsArePresent`). A program that is told to launch nothing (`WARMUP=0 TIMED=0`) saves the pattern it filled
the result with, and `ResultsAreComputed` asks only of launches.

The properties of the configuration have their exceptions spelled out too.
`OnlyLoaderChecks` names what the loader alone looks at: the rank the caller
expects, DMRS type, length and CDM groups, which both compilers copy unseen, a
grant with nothing but DMRS symbols, and a gain that is positive as a double and
zero as a float32. `Unregistered` names what the receiver's operators insist on
and the registry does not ask: the first resource block, the DMRS mask, type,
length and CDM groups, and the codeword index.

## 4. Proofs

**`PrecodeRuntimeProofs`**: for every capacity, every set of configurations and
every queue length, assuming that callers stop at the first error
(`RetryAfterError = FALSE`):

- `TypeCorrect`, `QueuedPlansSurvive` (`KernelUsesItsPlan`), `HitsAreWhole`
  (`CachedPlanIsWhole`), `RefinesLaunchFifo` (`ImplementsLaunchFifo`; initial
  states map to initial states, every step to a step or a stutter);
- `CacheIsAMap` (`OneResourcePerConfig`), which needs no such assumption.

The first four are not inductive. The argument is about the LRU order: a
resource that a launch of the current window used is *newer* than every resource
that none used. The window holds fewer than `Capacity` configurations when a miss
is served, they occupy distinct resources, so by counting some resource is
outside; the least recently used one is then outside too, and queued kernels
only use resources inside. The inductive invariant states this order, that
queued kernels use resources of their own configuration with whole plans, and
that the resource being filled is none of theirs. `CacheIsAMap` has an invariant
of its own, `CacheInv`: the entries are counted while a victim is being filled
too, and the configuration being filled is in no other resource.

**`MimoTxChainProofs`**: for any number of slots, with and without a profile and
a receipt:

- `TypeCorrect`; `StagingIsStable` (`StagingStable`); `SlotsKeepTheirSources`
  (`SlotProvenance`); `ReceiptMeansComplete` (`PassMeansComplete`).

`SlotProvenance` speaks of finished slots only. Inductively, what has to be
known is the content of every buffer at every point of a slot: the queue is the
stretch of the slot's program between what the device has done and what the host
has issued, and a buffer holds what the part already done makes of it. The
slots before the current one are in the waveform, those behind it are empty.

**`DeviceStreamProofs`**: for every set of buffers and every set of programs,
finite or not:

- `TypeCorrect`, for all of them;
- `OrderedBuffersGiveProgramOrder`, for all of them: an operation reads in
  program order whatever it reads from a buffer over which, in the program that
  runs, each conflicting launch and copy have a synchronisation between them
  (`OrderedBuffers`);
- `DisciplineAvoidsRaces` (`CopiesDoNotRace`) and `DisciplineGivesProgramOrder`
  (`ProgramOrder`), if this is so of all buffers (`Disciplined`).

The invariant adds to the types that the queue is in issue order and holds
issued launches only (`QueueOrdered`), that no synchronisation and no unqueued
launch lies between a queued launch and the host (`NothingOvertakes`), and that
every buffer holds a *performed* write, the last one if the buffer is ordered or
the write was a copy's: only a launch in an unordered buffer may have come behind
a later write (`LastPerformed`). It is inductive whatever the program does.
Discipline is a property of the program text, with no device in it, and
so are ordered buffers; the chains below are proved by establishing it of their
texts and citing this module.

**`MimoRxRunProofs`**: for any number of slots, every outcome of the checks on
the bits, any set of grants and any set of jobs:

- `RunIsAReceiver`: a run with its configuration is a behaviour of `MimoRxChain`;
- `RunDoesNotRace` (`CopiesDoNotRace`), `SlotsKeepApart` (`OwnSlotOnly`),
  `AccumulatorsAreCleared` (`StartsFromZero`), `ReceiptIsEarned`
  (`ReceiptVouches`);
- `PilotsAgreeFromZero` (`PilotsAgree`), for grants of slot number 0. For others
  it is false, finding 3.

The program is taken apart into a command by slot and number, `At(s, k)`. Two
facts about this text carry everything: it is disciplined (`RunIsDisciplined`),
and the buffers a command of a slot reads were written by an earlier command of
the same slot. With the first, `DeviceStreamProofs` says that an operation finds
the last write before it; with the second, that write lies between the two
commands of the slot, so it is one of them, and which one is read off the text.
`PilotsAgree` and `ReceiptVouches` are about host copies as well, and use that a
slot's synchronisation keeps the next slot's profile out of this slot's
estimator.

**`SisoRxChainProofs`**: for any number of slots, blocks and timed launches,
whatever cells are found and blocks are bad, with or without `--loop`, the
transport block, the timing and a second capture:

- `ReceiverDoesNotRace` (`CopiesDoNotRace`), `BlocksKeepToOneCell`
  (`BlockUnderOneCell`), `WindowsFollowTheTracker` (`FeedbackFromPreviousSlot`).

The only assumptions are `ScopeAssumption`: there is a slot and a block, and no
cell is the one the cache starts with. Here a command's place in the program
depends on which blocks before it were bad, so there is no command by number.
The text is taken apart by halves instead: `Finds(q, n, b, c)` says that command
`n` of text `q` finds what `c` wrote in buffer `b`, `Leaves` what the whole text
leaves there, and lemmas say how both carry over to two texts in a row. By
induction over the turns of `main`, the text issued so far is `Good` (windows
and blocks in it find what the properties ask) and `Ready` for the next turn:
pointer and offset are of one slot, or of the acquisition if there was one; the
pilots are those of the cell now locked, the sign table that of the cell before.

The receiver is disciplined, but not slot by slot: nothing waits between the
first window of a block and the end of its decoder, and the sign table is
uploaded in between. So `Good` also says of each launch that it is waited for and
that until then no copy disturbs it (`Awaited`, `Harmless`): a copy before that wait
does not touch what the launch writes, nor overwrite what it reads, nor pilots,
pointer, offset and LLRs at all, and not the sign table behind a descrambler.
That makes the program disciplined. With the discipline,
`DeviceStreamProofs` turns what a text finds into what a running kernel finds.

**`SisoTxChainProofs`**: for any number of slots and any length of the timing
loops, timed or not:

- `SlotsModulateTheirOwnGrid` (`SlotFromItsOwnGrid`).

This chain is not disciplined: seeds are uploaded and samples downloaded behind
queued kernels. But no host copy touches the scrambled bits, the grids and the
pilots, so these are ordered buffers, and the argument about the text is the one
above. Nothing is claimed of the seeds and the samples.

**`KernelPipesProofs`**: for every set of kernels, of any length and over any
buffers and events:

- `TypeCorrect`: each unit stays within the text, and no event is waited for
  more often than it was set;
- `OperandsOfOrderedText`, `TilesOfOrderedText`, `ScalarReadsOfOrderedText`
  (`OperandsArrive`, `TilesNotOverwritten`, `ScalarReadsArrive`), if the text
  orders every conflict it is not excused (`Exceptions`) for
  (`OrderedByEvents`);
- `FlagsOfBalancedText` (`FlagsConsumed`), if the text waits for every event as
  often as it sets it (`Balanced`).

The hypotheses are about the text, not about runs. An instruction's *causes*
are the previous instruction of its unit, the last one of the scalar unit, the
signal its wait is for (the k-th set for the k-th wait) and what a `PIPE_ALL`
stops for; `before` is any relation made of causes and causes of causes. That a
cause is done when its effect is under way needs more than the types: that a
pipe performs only what the scalar unit is past (`IssuedFirst`), that
everything before a performed `PIPE_ALL` is performed (`BarriersKept`), and
that a flag counts the sets performed less the waits performed (`FlagsCount`):
were the k-th set not performed, fewer than k sets would be, and k waits could
not. The least instruction with something of `before` unperformed would then
have a smaller one, so there is none, and a conflict in `before` is no race.
The run `kernels` computes the order of each of its 77 texts and checks both
hypotheses, so that the theorems hold of them for a reason that does not depend
on the interleavings TLC went through.

**`OperatorRunsProofs`**: for every set of programs made of operator programs,
stages and disciplined programs nothing else is known of, and for any number of
cases, warm-ups, timed runs and launches behind one wait, as long as there is
one of each (`LoopAssumption`, `CasesAssumption`):

- `StateStaysFresh` (`StateIsFresh`), `InputsStayPresent` (`InputsArePresent`),
  `ResultsStayComputed` (`ResultsAreComputed`);
- `OperatorsDoNotRace` (`CopiesKeepClear`), `OperatorsReadInOrder`
  (`ProgramOrder`).

They hold with the exceptions of the run and no others: that the benchmark of
`ldpc_decode` clears its messages behind launches is left out of
`OperatorsDoNotRace` alone.

Some fifty programs with loops in them are more than commands by number can
describe, so the module has a small calculus of *proof outlines*. A state of
knowledge is three sets: the buffers a copy wrote last (`given`), those a launch
wrote last (`made`), and the launches nobody has waited for (`busy`). `Allowed`
says when a command may come: a launch finds every input given or made, and
given anew what it also writes; a copy touches nothing a busy launch uses, unless
it is a fill of the buffers `E` that the program is excepted for; nothing in `E`
is read; a download takes what was made. `Outline(E, O, p, x, y)` says that text
`p` can be annotated with such states from `x` to `y`; `E` is empty for every
program but one. Outlines are put together the way
the programs are: one rule for each call of `HostPrograms` (`Puts`, `Takes`,
`Frees`, `Waits`, `Runs`, `Queues`), `Then` for two texts in a row, and `InTurn`
and `Repeats` for loops, by an invariant that each turn keeps. The induction
over the turns is in these lemmas, once. The benchmark loops have rules of their
own (`Measurement`, `ClearedMeasurement`, `TimedRunsOnce`), and each program then
has a short proof, from its loops' invariants. What the annotations claim is
true of the text (`AnnotationHolds`): so every buffer a command reads is ordered
(`SoundOrders`), `DeviceStreamProofs` gives a launch the last write before it,
and that write is the one the annotation speaks of. Freshness is the demand that
a launch's in-place buffers be *given*: the clearing then lies behind the launch
before. That inputs are there needs no order: a copy found in a buffer has no
performed write behind it, so a free would be the last write before the launch,
which the annotation excludes, or come behind a queued launch that reads the
buffer, which only fills may.

**`MimoRxRunProofs`**, second half: the configuration, for every set of jobs,
whatever radios and grants it holds, with no assumption:

- `OnlyLoaderRefuses` (`LoaderTakesWhatCompiled`), `EligibleIsExecutable`
  (`RegisteredIsExecutable`), `RefusalsAreEarly` (`NothingRefusedLate`);
- `GeneratedIsLoaded` (`GeneratedRadiosLoad`);
- `TransmitterPreparesNothing`, finding 4 for every profile there is;
- `RunIsAConfiguration`: the receiver's run, commands and all, takes its
  configuration the way of `ConfigSpec`; hence `RunRefusesNoMore`, all four for
  `RunSpec`.

The invariant says what a job has behind it at each stage: that it was merged
and compiled, that its plan is the one `compile_profile` made or the evaluated
one (`PlanSound`: the bucket holds the antennas, the strides hold the data, the
adapter flag is set where capacities differ), that the operators' constraints
held if it is called eligible, that `config` is the packed plan, and that every
later check passed; and for a refused job, which check did not. The step to the
loader then compares, field by field, what the compilers established with what
`ValidateMimoRuntimeConfig` asks: that a selected build recomputes the adapter
flag and that ports for every supported rank exist are needed there, and the
only fields left over are those of `OnlyLoaderChecks`.

`GeneratedRadiosLoad` needs more than that no stage contradicts another: that
each accepts. Its invariant (`GeneratedIInv`) adds that the plan is still the
compiler's when the registry is asked. The supported ranks of a radio of any
size are exactly what makes the ports fit its antennas, the build for every rank
covers each of them, and the stride the registry demands, 19200, is the
full-band grant's twelve data symbols aligned to 64.

**Only model-checked**:

- `TextIsDisciplined`, the hypothesis of `KernelPipesProofs`: a statement about 77
  concrete texts, each unrolled to a few turns of its loops. Evaluating it is
  the proof; what is missing is a form of it for every loop count.
- Liveness (`Terminates`, `KernelEnds`), which is outside the prover's reach.

## 5. Not modelled

- What kernels compute. In the chains a kernel is the set of buffers it reads
  and writes; in `KernelPipes` it is its copies, accesses and synchronisation.
- Finite issue queues, and how a kernel's buffers are laid out in the core's
  memory. In the kernels with matrix products, groups, splits and iterations
  are cut to one or two, and what all cores do alike is done by one or two. The
  branches of `OFDM_DEMOD_BATCH` in the SISO demodulator are dead: only the
  batch kernel's file defines it.
- A failed ACL call in an operator program or stage, and their comparisons,
  files and output.
- `rx_loopback` and `profile_kernels` of the SISO receiver, debug dumps, printing.
- An exception in the middle of the MIMO receiver, unless a refused
  configuration is its cause, and the release of buffers while operations are
  queued: what `aclrtFree` does then is not visible here. The run has failed and
  writes nothing afterwards.
- Files an earlier run left behind: a PASS receipt that is not rewritten because
  the next run fails. `PassMeansComplete` and `ReceiptVouches` speak of one run.
- The weight file of the channel estimator. `ce::ValidateOpArgs`
  (`rx_chain.cpp:519`), asked in every slot and nowhere before, refuses weights made
  for other layers or pilots; `EnterSlots` has no such check, so
  `NothingRefusedLate` speaks of configurations and not of weight files.
- That the receiver reads the profile file again in every slot: the file is
  taken not to change. The fused chains without a profile file, the transmitter's
  `--cell-id` and `--rnti`.
- Whether a device really orders a blocking copy behind the stream. The SISO
  transmitter depends on it (`upload_dmrs_cinit`, the download of samples);
  `CopiesDoNotRace` is therefore not claimed for that chain.
- Of the compilers: names, hashes, JSON structure and the packed layout,
  `mimo_profile_generator.py`, `mimo_coverage_matrix.py` and the command line that
  compiles an already merged profile. The contract harness.
- `MimoTxChain` has the slot loop with a profile too, although finding 4 keeps
  the code from it at this commit.
- Of the staged loopback, what lies between the stages: `run.sh`, `loopback.cpp`,
  the Python checks, the artifacts and receipts.

## 6. Plan

In this order:

1. *Staged loopback*, rest: the scripts that run the stages, a stage that fails
   or is re-run over old artifacts; no verdict on stale files.
2. *`win_slice` arithmetic*: integer pointer, Q16 fraction and float32 rounding.
3. *Kernels' inner order*, rest: issue queues of finite length, to tell which
   exceptions a device can show; that a kernel refines "reads its inputs, then
   writes its outputs", the assumption the chain models make; that the texts
   are ordered for every loop count, so that `KernelPipesProofs` applies to
   them.
4. *Index algorithms*: rate matching and its inverse, layer mapping and
   demapping, resource-element mapping, scrambling, against reference
   definitions.
5. *SISO receiver*: `rx_loopback` and `profile_kernels`.
6. *Proofs*: that the kernels' texts are ordered for every loop count, with
   outlines like those of `OperatorRunsProofs`; the lemmas of the index
   algorithms.
