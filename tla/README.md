# A specification of ipu-stack

`ipu-stack` compiles tensor graphs into packages for Graphcore IPU21 devices, loads them and runs
them. This directory holds TLA+ modules of the parts of it that keep state, decide or interact, the
TLC configurations that check them on small instances, and proofs that TLAPS checks for every value
of the constants.

    tlc -workers 2 -config MCStreaming.cfg MCHostExchange     # one run (section 4 lists them)
    tlapm HostExchangeProofs.tla                              # one module of proofs (section 5)

`PROJECT.json` names, for every definition, the lines it was translated from, and lists components,
runs, hazards, findings, theorems and one mutant of the code per property. A range of the source is
named once, at the definition that stands for it; a helper whose lines lie inside its caller's is found
through the caller.

## 1. Inventory

| Part | State | Operations | Interacts with | What makes it correct |
|---|---|---|---|---|
| **Host session** `ipu-driver` `HostSession` | pinned pages, attachments, `streamed_output`, place in a call | `start`, `invoke`, `invoke_streaming_deferred`, `finish`, `collect`, drop | the device, by the HSP mark GS2 and the pages only | one grant per synchronization; no copy under a transfer; run *n* answers with the outputs of invocation *n* |
| **Supervisors** `codegen/src/supervisor`, `host.rs`, `exchange/program/host.rs`, `device/static_runtime.S` | program counter, staging buffer, regions, output | entry and exit sync, requests, transfer, copy, compute | each other and the host | every tile reaches every sync; compute reads complete inputs of its own run |
| **Loader, guard, attachments** `ipu-driver` `Loader`, `ExchangeBufferGuard`, `BufferAttachments` | transport page, buffer registers, attachments, GS1 | `load`, guard new / restore / drop, attach, detach | the boot loader on the tiles; sessions | a batch is not rewritten while it is read; registers restored on every way out; the device never knows of unmapped memory |
| **Tile debug interface** `with_tile_context`, `with_tile_scratch`, `execute_tile_instruction` | run-break bit, context state, scratch registers, DATA | stop, inject, read back, restore | a tile that keeps running and may trap | the tile goes on as if nobody had looked |
| **Host plan** `codegen/src/host.rs` | queues, free ranges of a tile | `plan`, `batch`, `plan_tile`, `DataArena::allocate` | gives session and supervisors their tables | both sides get the same rendezvous; nothing placed is written over; the reservation is enough |
| **Exchange rows** `codegen/src/tile/mod.rs` | shared instruction rows, setup patches | lay out, patch, repeat | supervisors, over repeated invocations | each call of a row sees its own addresses |
| **Exchange scheduling and encoding** `codegen/src/exchange` | reservations of senders and receivers, candidates, recorded orders, row prefixes | prepare, schedule, repair, replay, encode, validate | planner threads; placement | every word arrives; no two uses of a lane collide; a row does what was scheduled |
| **Placement** `codegen/src/place` | free and active ranges, lifetimes, aperture | online, offline and profiled placement | low-level IR; package building | a value is intact when it is read; accesses are legal |
| **Planner, cost estimates, mid-level IR** `codegen/src/planner`, `mid`, `estimate` | states, labels, fragments | catalogue, prune, search, concatenate | layouts, prices, placement | the plan computes the graph, fits, and is the cheapest that does |
| **Low-level IR** `codegen/src/low` | tile graph, copy groups | expansion, five passes, projection | planner, placement, scheduling | passes keep what the host reads and what kernels ask |
| **Layouts and storage geometry** `codegen/src/tensor`, `storage` | pure data; one memo shared by threads | resolve, traverse, pair, cover | everything above | every element has one owner; every copy moves every element |
| **Package building** `codegen/src/package` | memory map of a tile, plans, images | `size_support`, `emit_package`, `build_tile_program_package` | placement, linker, host plan | a built package is sound; what sizing reserved is enough |
| **Application format** `ipu-package` | the package | validate, write, read, image, look-ups | packager, driver, debugger | what is loaded is what was built |
| **ELF linker** `ipu-elf` `link` | sections, symbols, cursors | reach, place, define, relocate | toolchain, packager | every field leads to what it names |
| **Kernel cache** `ipu-elf` `Toolchain::compile` | three files and a lock per kernel | lock, inspect, popc, two dumps, return | other processes, by the directory | a returned path leads to a whole, immutable object |
| **Profiler** `codegen` instrumentation, `ipu-profile`, page of `ipu-cli` | samples, report, common clock | instrument, sample, report, analyse, calibrate | supervisors, driver | the report tells the run |
| **Not modelled** | | device configuration, completion diagnosis, graph input, numeric kernels, CLI, test harnesses, constants, f143, scripts | | section 7 |

Where this code is hard: two programs written apart from each other (session and generated
supervisors) must make the same sequence of synchronizations; the host shares memory with a device
that does not wait; the mark is one bit; tiles have different queues; waits time out; clients may
ask for more runs than the package has; processes die with a cache directory half written; the
debugger stops a tile that may be trapping. In the compiler the hard part is state that was right
when it was decided on: orders replayed at another placement, rows encoded again from an old
prefix, sizes reserved before addresses are known, lifetimes around repeats, aliases decided on a
graph that a pass is changing. `PROJECT.json` lists each hazard at its line with the properties that
would catch it.

## 2. Plan

Done: the host side (`HostExchange`, `HostCalls`, `HostBuffers`, `TileDebug`, `HostDescriptors`,
`KernelCache`, `ExchangeRows`), the compiler (`Planner`, `Placement`, `ExchangeSchedule`,
`PhaseProgram`, `TensorLayout`, `TensorStorage`, `CopyExpansion`, `LowPasses`) and what it writes
(`Linker`, `PackageBuild`, `Application`, `Profiling`, `ProfileAnalysis`); theorems about the seven
modules of the host side, about `TensorLayout` and about `Placement`.

Left: theorems about where operands meet (`OperandsMeet`, on the lemmas of `TensorLayoutProofs`); the
data flow of a placed program, which with `NeededValuesStay` would give the whole of `ValuesSurvive`; a
harness that polls (`ipu-tests/src/completion.rs`) as a client of `TileDebug`.

## 3. Modules

### HostExchange, HostCalls (`MCHostExchange`)

One `HostSession` and the supervisors of the tiles it serves. The session is one thread (`hpc` is
where it is in the call), each tile is one program (`stage[t]` is what it does until its next
synchronization). Between them are only `mark` (GS2) and `page`.

| Model | Code |
|---|---|
| `Start`, `StartAck`, `StartDone` | `start`: wait, `attach`, wait, `acknowledge_device`, wait |
| `InvokeStreaming`, `InvokePrepared`, `PrepareSlice`, `PrepareDone` | `invoke` and its choice by `host_call_reuses_storage`; `prepare`; `invoke_streaming_deferred` |
| `DriveWait`, `StageSlice`, `DriveAck`, `DriveSettle` | one turn of the loop in `drive_handshake`; `StagedSlices` is the `before_ack` of the streaming call |
| `FinishAck`, `FinishWait`, `FinishNothing` | `finish`: the exit of the last output batch is granted outside the loop |
| `CollectSlice`, `CollectDone` | `collect`, from the slice streaming has not captured |
| `TimeOut`, `Drop` | `wait_mark_poll` at its deadline; pages detached before they are unmapped |
| `Boot`, `StartOf`, `Successor`, `Complete` | the order `supervisor::emit` gives: startup sync, initialize batches once, then per invocation input batches, the graph, output batches |
| `Active`, `RaiseRequest`, `IssueTransfer`, `PassBatch` | the wrappers of `exchange/program/host.rs`: requests for other tiles first, then one's own transfer |
| `Proceed` | `static_host_run` after the exit: copy staging to its destination; the graph before the first output batch |
| `EnterBatch`, `LeaveBatch` | the device-wide external synchronization, which consumes the mark |

A slice is copied by one step of its own, so that device steps fall between any two of them, and the
page slot of a tile is one cell: that is what makes an early copy visible. Bytes are abstracted to an
item "call *c*, batch *k*", and compute to the run whose inputs it read, 0 when they were of no
single run. The tables that `host.rs` computes (`Weights`, `Inputs`, `Outputs`, `W`, `I`, `O`,
`XreqOf`) are constants here, bound by what `batch()` guarantees; `PackageBuild` computes them.
External and so modelled from their use: the synchronization hardware and a tile trap.

`HostCalls` is what a client is promised: the *n*-th run answers with the outputs of the *n*-th
inputs, in order, no more often than the package was built for, and nothing after a failure.
`KeepsPromise` says that `HostExchange` implements it (`INSTANCE HostCalls WITH results, failed`).

### HostBuffers

The host memory a device may reach, from mapping to unmapping: the transport page of `Loader::load`
with `ExchangeBufferGuard` and `BufferAttachments` around it, then the pages of sessions. Every step
of a load may fail or time out; values that clean up when they go out of scope are steps of their own, in
the order the language drops them. The boot loader on the tiles is external: it reads the page slot by
slot and clears GS1.

### TileDebug

One diagnostic operation on one context. `hostPc` is the place in `with_tile_context` and
`with_tile_scratch`; a TDI instruction is injected by one step and takes effect in another
(`Execute`), which may come after the driver gave up waiting. The tile is the environment: it may trap
at any time (`MayTrap`), between the read of its state and the stop as well, take a while to stop, and
still hold an instruction of an earlier operation that timed out (`MayBeLate`). Two variables that no
step reads say what that instruction is charged to: `leftover` marks it, and `own` holds m0 and m1
as they would be without this operation.

### HostDescriptors

`plan_tile` for one tile: packets and descriptor tables of its host phases go into the holes the
tensors left. `Allocate` is `DataArena::allocate`: `Best` the candidate with the least slack,
`Remainders` what `swap_remove` and the two pushes leave. `k` and `stage` are the place in the loop
over the phases, `cache` is `packet_cache`, `mem` is what the segments write, byte by byte. What a
packet contains depends on addresses this code only receives, so which packets are equal is any
choice of `Words`; their lengths are fixed, and `Needs` is the `data_bytes` that the first pass
counted and `size_support` reserved.

### ExchangeRows

`layout_exchange_rows`, the setup patches (single words, bulk lists stored by six workers, moving source
bases) and the loop of a structured repeat, run for several invocations. Every row of every phase is
first encoded with any words of the instance, so which phases share a row is decided by the code's
own comparison. Addresses count words. A patch list is stored entry by entry, in any order of the
workers; `at` is the place in the emitted code, step and instruction.

### KernelCache

Processes in `Toolchain::compile` on one key. `pc[p]` is the place in `compile` (or in the caller,
`read`), `file` how much there is of the three files, `holder` the owner of the lock. A tool is two
steps, started and ended, because `pop-objdump` writes into a file created before it runs. `Crash`
is external: the kernel drops the lock of a killed process. Assumed: the tool of a killed process
dies with it, and an ELF object that is cut short does not parse.

### Planner (`MCPlanner`)

The dynamic program over the boundaries of a fixed order of operations: catalogue of
implementations, dominance, connections, search with its two limits, reconstruction and concatenation
of fragments. `PlanIsTheCheapest` compares with an enumeration of all plans. Prices, shard sizes and
the grids a GEMM is offered are data.

### Placement (`MCPlacement`)

Lifetimes, requirements, domains and the three ways of placing a tile (`place/mod.rs`), the address
search (`search.rs`), then two runs of the placed program in which every work item reads and writes
memory: that is what the addresses are for. An event is the position `touch_work` gives it.

| Model | Code |
|---|---|
| `AliasSets`, `UnionOffset` | `DisjointSets`, `collect_repeat_constraints` |
| `Lifetime`, `Placeable` | `analyze_allocations`, its refusals included |
| `SequenceRequest`, `RootRequest`, `AuxiliaryRequest` | `allocation_requests` |
| `OnlineKey`, `OfflineKey`, `SortedBy` | the two `sort_by_key`; ties end in the place in the list, because the sorts are stable |
| `Release`, `Candidates`, `Take`, `Record` | the steps of `Arena::allocate` |
| `Domains`, `Visit`, `GiveUp`, `RecordFound` | `search.rs`; a branch it leaves is a behaviour that gives up |

Ranges, free lists and the history are sets of pairs: the code keeps them sorted and merged, which
is what `MergeRanges` and `Uncovered` say of a set. The assumptions on the programs (`WellFormed`,
`Uniform`) are evaluated in the run `compiler`, and each says what a caller guarantees: free ranges do not
touch and are the host's aperture or lie apart from it, auxiliary storage lives from the start to
readback, alignments are powers of two (stated as: of any two, one divides the other), and the
inputs of an iterated sequence resemble each other. Of the last, `analyze_allocations` looks at the
first iteration only, and leaves the others to whoever builds the Repeat.

### ExchangeSchedule, PhaseProgram (`MCExchangeSchedule`, `MCPhaseProgram`)

`ExchangeSchedule` is a phase from its logical exchanges to offsets: transfers and their coalescing
(`prepare.rs`), the dependencies between overlapping words (`problem.rs`), the greedy scheduler with lazily
refreshed queue and repair, the streams, the portfolio, and the replay at the next placement. `PhaseProgram`
is what the chosen order becomes on each tile: appended transfers, timed controls, the row encoder with
its reused prefix, holds and prefetches, the decoder and the validator; its cases are phases of up to four
transfers between four tiles, in every order.

### TensorLayout, TensorStorage, CopyExpansion (`MCTensor`)

Who owns which element; where it lies in its shard and how a view becomes a traversal, with the
shared `GeometryCache` and its threads; how a group of copies becomes clears, local copies, transfers and packing.
Each is checked by executing the result element by element.

### LowPasses (`MCLowPasses`)

The five passes in the order of `passes::run` over a tile graph with storage views, and the
projection to tiles. The graphs are all sequences over small pools of the operations expansion emits.

### PackageBuild, Application, TileMemory (`MCPackage`)

`size_support`, the placement (any choice of the space left), `emit_package`, the packages of explicit
tile programs, validation, the file, reading it back, the images of the tiles and the transfers of a
session. `TileMemory` is `memory.rs`.

### Linker (`MCLinker`), Profiling and ProfileAnalysis (`MCProfile`)

`link` with reachability, placement into regions, symbols and every kind of field. Instrumentation
of a program, the samples of an execution with a wrapping counter, the report, and what the host
computes from it down to the tables of the page. Kernel calls and local copies are both calls: they
share an interval, which is uniform if symbol and arguments are equal, and only a uniform one is
divided by its number of calls. Queries are asked with each of the filters.

### Composed MC modules

`MCDevice`, `MCCompiler`, `MCLowering` and `MCArtifacts` put several components into one run. The
components share no variable; a behaviour is one of one component, the others keep their first state. They are
runs about one side of the system, not claims about interactions.

## 4. Runs

| Run | Instance | Properties |
|---|---|---|
| `streaming` | 3 tiles; 2 weight, 2 input, 2 output batches with uneven queues, `t1` with no input and raising the requests of `t2`; 2 invocations | `PagesExclusive` `Lockstep` `ComputesFromItsRun` `GrantNotLost` `SessionCompletes` |
| `failures` | input on `t2` only, output on the others; 1 invocation, 2 runs; waits may time out, any tile may trap | `KeepsPromise` `HostReturns` |
| `outputs_only` | no weights, no inputs, 2 output batches, 3 runs: the first synchronization is an output batch, every exit is deferred | `NoTransferOutlivesPages` |
| `inputs_only` | one input batch, no outputs | finding 1 |
| `kernel_cache` | 3 processes, 2 compilations each, failures and kills at every step | `HandsOutWholeObjects` `CompletedIsImmutable` `EveryoneReturns` |
| `kernel_cache_metadata` | 2 processes, failing tools | finding 2 |
| `device` | descriptors: 4 phases, packets of 4, 0, 8, 4 bytes, holes that fit exactly or begin between words, with and without the reservation; buffers: 2 batches of 2 slots, sessions with 3 indices; debug: every operation, old state, trap, failure and late instruction; rows: 3 phases, one in a repeat of 3, 2 invocations | `PlanIntact` `ReservationSuffices`; `TilesGetTheirImages` `BuffersAreRestored` `InvokesOnItsPages` `LoadReturns`; `SuccessIsTransparent` `ReleasesTheContext` `FaultsStay`; `RowsRunAsEncoded` `InvocationIsComplete` |
| `tile_debug_scratch` | the debug component alone, failing instructions | finding 3 |
| `profile_chunks` | the profiled graphs, chunks of three activities | finding 4 |
| `compiler` | plans of small graphs on two tiles under six memory budgets; chains and repeats to place in memories that fit, just fit and do not; phases to schedule and replay | `PlanComputesTheGraph` `PlanIsTheCheapest`; `ValuesSurvive` `AccessesAreLegal`; `ExchangesDeliver` `SelectionIsSound` |
| `lowering` | layouts and queries on up to six tiles, one thread or two racing on tables of 1, 3 or 9 entries; copies of up to 24 elements; graphs from pools | `EveryElementIsOwned` `OperandsMeet` `CopiesMoveEveryElement` `CopiesAreRealized`; `OutputsSurvive` `KernelsKeepTheirContracts` |
| `artifacts` | links that fill, spill and fail; packages of three tiles, two active; profiles on a counter that wraps at 256; phases of up to four transfers between four tiles, appended in every order, validated or not | `ReferencesResolve`; `PackageIsSound` `LoadedAsBuilt`; `ReportTellsTheRun`; `RowsRunTheSchedule` `TransfersArrive` |

Bounds. Three tiles are the smallest device with a tile that raises its own request, one whose
request another raises, and a third that is not concerned. Two batches per call give a first and a
last one; two invocations give the jump back and the end; in `failures` two runs of one invocation
give the call nobody answers. Three processes are one that holds the lock, one that reads what it
was handed and one that waits. In `HostDescriptors` a phase without a packet, a long packet and two
that may be equal are the cases of the loop, and holes begin and end at, before and behind word
boundaries so that both remainders, one or none are left. Two batches and two slots make the page be
rewritten; three indices and two sessions make an index be used again. A row is called in, before and
after a repeat, and a second invocation finds what the first left patched. The compiler's cases are pools
chosen per branch of the code: each pool is enumerated exhaustively, and each refused case is
reached, except those section 7 names. The proofs remove the bounds for what section 5 lists.

Fairness. `FairSpec` of `HostExchange` asks that the host thread is scheduled (`FairHost`), that a tile
keeps executing and that the hardware ends transfers and synchronizations (`FairDevice`); each is
weakly fair, since no step of one disables a step of another for good. A trap is never owed. A
timeout is owed only to a wait that never ends: as long as the mark may still change, other steps of
the host disable it. `HostReturns` assumes the host alone, because its waits have deadlines: the device
may do nothing. In `KernelCache` a process's steps are strongly fair, because the lock is taken from
it again and again by the others and the kernel queues waiters; being killed is not owed.
`LoadReturns` assumes that the loading thread runs, and nothing of the boot loader.

Deadlock. `HostExchange` and `KernelCache` keep TLC's deadlock check: `Closed` and `Done` are the
states in which they may stop, everything else must move on or time out. The other components really
end - a load returns, a package is built - so their runs switch it off.

## 5. Proofs

| Module | Theorems | For every |
|---|---|---|
| `HostExchangeProofs` | `TypeCorrect`, `LockstepHolds`, `PagesAreExclusive`, `PagesOutliveTransfers`, `GrantsAreNotLost`, `EachRunComputesItsOwn`, `PromiseIsKept` | set of tiles, queues, batches, invocations, runs; with time-outs and traps |
| `HostBuffersProofs` | `ImagesReachTheirTiles`, `GuardRestores`, `PagesLeadToTheirStorage` | number of batches, slots, pages, indices, sessions |
| `TileDebugProofs` | `SuccessLeavesNoTrace`, `ContextsAreReleased`, `FaultsAreKept` | operation, old state; with traps, failures and late instructions or without |
| `HostDescriptorsProofs` | `PlanTypes`, `PlanStaysIntact`, `PlanStaysInHoles`, `ReserveIsEnough` | number of phases, packet lengths, holes, reservation |
| `ExchangeRowsProofs` | `RowInvariant`, `RowsRunAsEncodedHolds`, `InvocationIsCompleteHolds` | program of exchanges and repeats, rows, patches, iterations, workers, invocations |
| `TensorLayoutProofs` | `TensorsAreOwned`, `ElementsAreHeld`, `PartitionsCutTheAxis`, `SameDistributionSameShards` | layout, shape without an empty axis, question asked |
| `PlacementProofs` | `EveryAccessIsLegal`, `AllocationsShareNoWord`, `ValuesShareNoWord`, `SpareMemoryHolds`, `NeededValuesStay` | program of a tile, repeats and sequences, ranges, alignments, iterations; all three ways of placing it |
| `KernelCacheProofs` | `CacheTypes`, `ObjectsAreWhole`, `ArtifactsAreImmutable`, `CompilesOnce` | number of processes and compilations |

**Lockstep.** The argument of `HostExchangeProofs` is one inductive invariant, `IInv`: the types,
`Lockstep` and `LoopInv`. `PagesExclusive` is not inductive, because it says nothing of when a copy
loop starts; `Lockstep` is the reason: the phase the host's loop is at *is* the synchronization the
supervisors do next, so an even phase is always outside a batch and a collection comes after the
exit of the last one. `LoopInv` bounds the loops. `Lockstep` in turn needs that `BatchOf(c, p)` and
`Successor` walk through the same batches, which are the lemmas at the head of the module. Assumed:
`O > 0 \/ I = 0`, a graph with inputs has an output. The assumption is not a convenience: without it
they are false (finding 1).

**Data.** The second half of `HostExchangeProofs` stands on `IInv` and follows the bytes. `DataInv` has six parts:
`DeviceData` (what is in the staging buffer, the regions and the output of each tile at each place of
its program), `InputsInPlace` and `OutputsOnPages` (which item a page slot holds at each phase of a call),
`CopiesStaged` (how far a copy loop of the host has come), `OutputsTaken` (what the host has
read of the outputs) and `Told` (what was answered). None of them is inductive alone: a page is
right because the loop that filled it ended, a region because the page was right when the transfer
was issued, an output because all regions were. `DataInv` gives `ComputesFromItsRun`; with it every
step of `HostExchange` is a step of `HostCalls` or leaves `results` and `failed` alone, which is the
refinement `KeepsPromise`. Assumed: `O > 0`. Without outputs, inputs break the lockstep itself; and
a package with neither never meets the device in a "run", so runs beyond its invocations are
answered.

**Buffers.** The invariant of `HostBuffersProofs` has a part for each of two arguments.
`TransportInv` says what the transport page is at each moment - being filled for batch *n*, submitted,
the sentinel, or not yet - and that the boot loader reads only a submitted page; each tile's history is
then `Images(s, n)`. `AttachmentInv` says who holds which index: an index that leads somewhere is held
by an attachment that is dropped before the memory is, on every path, failed ones included.

**Debug.** In `TileDebugProofs` `ContextInv` says that the context does not run while the operation
works on it, so an instruction that ended without a flag had its effect; `Expected` writes down the
registers, DATA and the instruction under way after each step of an operation, as long as nothing
failed. An instruction that an earlier operation left in the interface is in its way until it ends
(`Carried` describes that time): if it has not ended when the first instruction of this operation is
injected, the interface refuses that one and the operation fails. Errors leave `Expected` and go through the release, which
`ContextsAreReleased` is about.

**Descriptors.** The first three follow from an invariant of the arena (`ArenaInv`): its ranges are
apart, lie in holes and have not been written, so an allocation writes only what was blank. The last
one needs `ReserveLeft`: a best fit takes from the front of a range that begins at a word boundary, so
the reservation stays one range, and a request either shortens it by its own size or leaves it
alone; what is left of it is never less than the undeduplicated size of what is left to place. Assumed:
the holes do not overlap, the reservation is one of them, begins at a word and has the size of the
first pass, and packets are whole words.

**Rows.** The invariant of `ExchangeRowsProofs` joins three arguments. `LayoutInv`: each phase has a
block of its own (values and tables), and a block with the row and the offsets that it shares with the
phases of its key and nobody else; all blocks lie apart, so no two data rows overlap and the validator
has nothing to reject. `MemoryInv`: nobody ever writes the offsets, values and tables, nor the words of a
row that no sharer lists (`StaysAsLoaded`, kept by `WritesKeep`); while a list is stored, every entry
is in place or some worker will come to it (`ToStore`: its distance is a multiple of the stride), so a
row is right when all have finished, whatever it held before. `ControlInv` counts the calls from the place
in the code, which gives the patch helpers their iteration. Neither property is inductive: a row is
wrong most of the time. Lists and remainders need induction over numbers: the module derives
it from the well-foundedness of `<` as "every set of natural numbers has a least one", once per use.
`ArithmeticIsExact` is such a lemma: a patch computed from the first word and the first difference is
the listed word in every iteration, modulo the word size. Assumed (`StepsAssumption`,
`RowsAssumption`, `BulkAssumption`): a phase is at one place of the program, the address is the low
bits of a word, a list long enough to be spread gives each worker an entry.

**Layouts.** `TensorsAreOwned` has a short invariant, `PlacedAnswers` (what is placed is what the layouts asked
about give), and a long arithmetic. An axis: the bounds of its shards ascend and end where the next
begins, whatever groups, blocks and paddings there are, so an index lies in one of them
(`PartitionsCutTheAxis`). A tile: its coordinates are digits of its number, packed or with strides, so
the tiles with given coordinates are those whose number has one remainder, and they are as many as the replicas
(`ElementsAreHeld`); with strides that are not regular it is the check of the code that every
coordinate is held. A flat layout: each tile has an interval of elements, cut into rows by the same
digits, and an element has one row. The size: the shards of a tile, rounded up, multiply to what
`tile_elements` says. The folds of the model need no induction theorem: by the least counterexample, a family of
the products of all parts of a finite set exists, and a fold has the value the family gives. Assumed
(`LayoutAssumption`, which TLC evaluates in the run "lowering"): counts are natural numbers and no
axis is empty. The source does not refuse an empty axis at this level; nothing is claimed of such a
tensor.

**Placement.** Three ways lead to addresses - in the order of lifetimes with memory that is freed, in
the order of size with a history, and by search - and the theorems are about whichever succeeded.
`PlacementInv` has a part for each stage. `RequestsInv`: the requests are those of the program, each
once, and what is served so far is `Legal`: every request has a spot that fits a range, spots that must not
share an element do not, and every shard has the address its spot gives it. `SearchInv`: the search keeps only
starts from which a request misses what was placed and must be apart. `BoundInv`: in the end all are
served, and a sequence is a first address and the stride of its region. With `Uniform` that is enough for
`EveryAccessIsLegal`.

It is not enough for values. Two allocations may use the same word at different times, and that the online
order frees only what is dead is a fact about the order: requests are sorted by their first event, so
what ended before this request began is met by no later one. `LivingInv` says so at each moment: requests are ordered, free ranges share no word with each
other or with an active allocation, each allocation is active or ended before the last one began (offline: it is
in the history), and of allocations that live at the same time none share a word. `SpareInv` adds that a
run never writes the words reported unused nor auxiliary storage. With these `NeededValuesStay` is a theorem about each step of the two runs: what an upload, an
operation, a step of a Repeat or a readback writes spares every value whose lifetime includes its
event. The lemmas under it are of general use: alignments of which one divides the other, sorting by
keys as counting (`SortedBy`), merged and uncovered ranges, and alias groups as a fold, whose value is
given by a family of prefixes. Assumed: `MemoryAssumption`, `ProgramsAssumption` and
`SequencesAssumption` (section 3).

`ValuesSurvive` also says that what is read was written: that a program's reads, with the arguments
of its Repeats, are of values it wrote or was given and within their lifetimes. That is the program's
part, not the placement's, and stays with TLC.

**Cache.** What makes the invariant inductive is the order of the files (`MetadataIsLast`): the
metadata is the last of the three and never goes away, a hit needs it, so a miss happens only while
nobody was ever handed a path.

**Only model-checked.** Liveness under fairness (`SessionCompletes`, `HostReturns`,
`EveryoneReturns`, `LoadReturns`), which the prover does not handle. `OperandsMeet`, of which
`SameDistributionSameShards` proves the part about equal distributions; broadcasts, grids and products stay with
TLC. `ValuesSurvive`, of which `SpareMemoryHolds` proves one conjunct and `NeededValuesStay` what the
others ask of the placement. The rest of the compiler and the artifacts: `PhaseProgram` and `TensorStorage`, with
`CopyExpansion` on it, declare recursive operators, which the prover cannot reason about; `Planner`,
`ExchangeSchedule`, `LowPasses`, `PackageBuild`, `Linker` and `ProfileAnalysis` compute by
folds over whole graphs and images, and TLC compares the results with reference definitions over pools
of inputs.

## 6. Findings

1. `finish` grants the deferred exit only to a call with outputs (`ipu-driver/src/lib.rs:1548`), but
   `plan` (`codegen/src/host.rs:155`) gives a `run` with inputs and no outputs an odd number of
   phases as well. The exit of its last input batch is never granted, and the next `run` stages into
   the pages while the device is inside that batch. Run `inputs_only`.
2. A kernel artifact whose metadata dump failed leaves a partial `kernel.json`, which is a hit for
   every later `compile` (`ipu-elf/src/lib.rs:110`), although the comment at the lock says that no
   process inspects partially generated files. Run `kernel_cache_metadata`. The object is not
   affected, and that is proved.
3. `with_tile_scratch` promises at line 797 of `ipu-driver/src/lib.rs` to preserve the registers
   "including failures", but restores them, the last one first, with a `try_for_each` (line 818) that
   ends at the first instruction that fails. TLC's trace: a debugger reads a word of a running context,
   which is stopped and has m0 and m1 saved; the word is read through them; the instruction that
   puts m1 back ends with an error flag, so nothing puts m0 back; the run break is restored, the
   exception cleared, and the context runs with the word in m0, although no instruction on m0 failed.
   Run `tile_debug_scratch`. An error is always reported in that case, and that is proved.
4. `write` promises at line 156 of `ipu-cli/src/profile_report.rs` that "each chunk is bounded by event
   count, except an indivisible single stream", but compares the count only after it added a stream, so
   that several streams may exceed the bound together: two and three activities make a chunk of five
   where three is the bound. Run `profile_chunks`. What holds, and `ReportTellsTheRun` says, is that a
   chunk without its last stream is below the bound.

Met on the way, of no effect today: `output_binding` of `ipu-package` adds four bytes to the base of
packages of tile programs and has no caller; an exchange step with an empty program would make the
memory map refuse a request of no bytes; windows of equal native order that start inside a matrix are
excluded by every caller but not by `realize.rs`; `calibrate_profiles` also records the remainders
of repeats, although its comment names kernels and local copies only.

## 7. Not modelled

Components with status `not_modelled` in `PROJECT.json` are there with the reason: no state of their
own (graph input, constants, f143), pure I/O or fixed register lists (configuration, CLI), clients of
modelled parts (test harnesses, completion diagnosis), or numerics out of TLC's reach (kernels).
Inside the modelled parts:

- `HostExchange`: bytes, the command word (written, read by nobody on the device), jitter of the
  host's writes (an interleaving like any other), the `poll` callback, errors of register access, a
  client that goes on with a session after an error, and `invoke_deferred`, which has no caller and
  prepares a call without asking `host_call_reuses_storage`.
- `HostBuffers`: the bytes of a frame, the autoloader. `TileDebug`: registers that are only read. A
  fault that arrives between the read of the state and the stop is resumed as if it were the stop; the model
  lets it happen, the repository promises nothing about it, and no property mentions it.
- `KernelCache`: an edit of the kernel's source between the digest and the compiler.
- `HostDescriptors`: the code segments and their cursor, what a packet contains, the checked 32-bit
  additions and a packet too long for its descriptor.
- `ExchangeRows`: conflicts of a row with the data of its own exchange, checkpoints, lowering of
  copies and kernels.
- `Planner`: repeats and in-place operations, the passes of the mid-level IR that only tests call,
  `analyze_with_budget`; the stage "failed" is never reached by the instances.
- `Placement`: the optional placement profile. `ExchangeSchedule`, `PhaseProgram`: bit fields of
  instructions, the cost model of the portfolio.
- `TensorLayout`, `TensorStorage`: owner maps, factor views, partition axes of a packing, the overlap
  test of strided spans. `CopyExpansion`: aliases of output blocks; the order of a mapping is the order
  of its input; regions tied on the search axis stay together; slices asked for are rectangular; the columns a
  cast kernel takes are even, as its `static_assert` asks, and clears are of eight bytes;
  no mapping of the instances is one that `Splittable` refuses.
- `LowPasses`: repeats inside repeats, more than one dimension of a view.
- `PackageBuild`: the placer (a choice, see `Placement`), sizes of code and packets (abstract), strings,
  entry points, configuration writes; refusals that the instances do not reach by design: host code
  or linked code that grew, a file that is cut short, too many descriptors.
- `Linker`: 64-bit fields, 32-bit fields have 30 bits here, some forms of duplicate names; the object
  parser is external.
- `Profiling`, `ProfileAnalysis`: checkpoints (never together with profiling), the overhead of a sample,
  strings, bins and percentiles of the page. All tiles leave a barrier together.
