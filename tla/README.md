# OpenLA500: TLA+ models, model checks and proofs

The repository holds a LoongArch32R processor and the tools that judge it:

- a three-wide out-of-order core written in SpinalHDL
  (`src/spinal/src/main/scala/openla500`), its predecessor's leaf modules ported
  one by one (`OpenLa500*.scala`), and the Verilog generated from it (`rtl/`);
- the tools (`tools/*.py`) that generate, check, package and publish that RTL,
  overlay it on an isolated copy of the official simulation environment, run it
  there, compare two such runs, and keep the evidence.

Both are concurrent, in two ways. In the core everything moves at one clock edge
and the hazards lie in values used a cycle after they were read. The tools are
processes that share files: two of them overlap, one is killed between two
writes, somebody edits a file in between; the hazard is evidence that does not
mean what it says.

In the hardware models one step is one clock edge. Everything combinational in
the cycle is an operator of the current state and of the cycle's inputs,
everything registered is a primed variable, and the choices of a cycle (the
decoded group, the results the functional units present, an interrupt) are the
quantified inputs. In the tool models one step is one access of a run to what it
shares with others; a run can be killed or interrupted between any two. A file's
SHA-256 is its content there, so that a binding by hash compares values.

## Inventory

| component (source) | state | operations | hard behaviour | what makes it correct |
|---|---|---|---|---|
| Reorder buffer (`backend/OooRob.scala`) | ring of entries, pointers with a wrap bit, occupancy, prefetched candidates, payload RAM, registered completions | allocate a group, complete, retire in order, flush | stale completions, payload read one cycle early, redirect one cycle late | in-order retirement, window = pointers, completion by own result |
| Free list, register map, register file (`backend/OooRegisterStructures.scala`) | two free-list views, two maps, ready bits, contents | allocate, release, rename with group bypass, restore on flush | restore against a registered release batch | no register lost or shared, retired values preserved |
| Backend control (`backend/OooBackend.scala`) | memory epochs, retirement batch | accept a rename group, all or nothing | unmasked outputs in the flush cycle, epochs that wrap | epochs count barriers, all resources taken together |
| Recovery (`core/OooCore.scala`, `core/OooCoreSystem.scala`) | pending recovery, epoch, privileged redirect | flush next cycle, refetch, exception entry | external redirect against internal one | every recovery is answered at once |
| Idle (`privileged/OooIdleController.scala`) | sleeping | sleep, redirect, wake | repeated flush | asleep means empty |
| LSQ allocator (`backend/OooLsqAllocator.scala`) | load and store tails and occupancies | allocate with the rename group, release, flush | release racing a flush | never over- or underflows |
| Dispatch queue and window (`backend/OooDispatchQueue.scala`) | ring, compact window | enqueue, partial dequeue, refill | compaction while results wake sources | no loss, no duplicate, order |
| Issue queues and router (`backend/OooIssueQueue.scala`) | age-ordered slots, ready bits, issue register | route prefix, wake, select, dequeue | wakeup in the cycle of the enqueue, registered ready | no lost wakeup, no overflow |
| Store data queue (`backend/OooStoreDataQueue.scala`) | slots, output stage | enqueue with the issue queue, wake, deliver | store entering only one of the two queues | data follows address |
| Load/store queue (`backend/OooLoadStoreQueue.scala`) | load and store rings, scheduled load, request buffer, accepted store, translation | execute, forward, drain, complete, flush | committed stores that outlive a flush, uncached accesses that must happen once | memory order as program order |
| Backend with execution / data cache (`backend/OooBackendWith*.scala`) | translation owner, maintenance arbitration | mask while draining, arbitrate | drain after flush against new allocation | masks complete |
| Execution cluster (`execute/OooExecutionCluster.scala`) | ALU, MUL, DIV pipes, barrier machine | execute, barrier drain, maintenance | barrier against stores in flight, flush in mid-operation | a barrier completes only when memory is idle |
| Commit adapter (`backend/OooCommitAdapter.scala`) | none | classify retired serialising uops | mixed groups | one privileged operation at a time |
| Frontend (`frontend/OooFrontend.scala`, decoder, predecode) | fetch request, response queue, packet queue, drop tokens | fetch, predict, redirect | late responses of a redirected request | no wrong-path packet after a redirect |
| Predictor (`predict/*.scala`) | banked tables, return stack | predict, train | none that affects correctness | hints only |
| L1 caches, L2, MSHRs (`memory/Ooo*.scala`) | arrays, miss registers, writebacks | hit, miss, refill, evict, maintain | eviction against refill, reuse of miss identifiers | a line is in one place and current |
| Shared read router, AXI bridge (`memory/OooSharedReadMshrRouter.scala`, `memory/OooAxiLineBridge.scala`) | outstanding reads, write channel state | route responses by identifier | out-of-order responses | every response to its own requester |
| Address translation, TLB (`privileged/OooAddressTranslationUnit.scala`, `privileged/OooHierarchicalTlb.scala`) | L1 TLBs, shared TLB, lookup pipeline | translate, fill, search, invalidate | maintenance against lookup | no stale translation after maintenance |
| CSR (`privileged/OpenLa500Csr.scala`) | architectural CSRs | read, write, exception entry and return | interrupt against commit | precise exceptions |
| System composition (`core/OooCoreSystem.scala`) | redirect and refetch registers | connects all of the above | order of redirects | |
| Observation (`observe/`), compatibility shells (`compat/`) | trace registers | report commits | | |
| Legacy leaves (`OpenLa500*.scala`) | | | | |
| Validation pipeline (`tools/refactor.py`: golden-export, chiplab-overlay, rtl-smoke) | iteration lock files, reports, publication markers, overlay manifests, exports, workspaces, doctor report | lock, withdraw, export, clone, install, bind, build, simulate, publish | two commands on one iteration, kill between report and marker, workspace edited during a simulation, stale locks | published evidence is whole, is of one state, and is of the RTL it names |
| Identity comparison (`tools/identity_compare.py`) | the locks of two iterations, the comparison report | read anchors and inputs, verify, compare, read again, publish | inputs replaced after they were read, HEAD moves | a comparison that passed compared what still stands |
| Iteration evidence (`tools/refactor.py`: validate-iteration) | the record below `logs/refactor` | judge summary, gates, commands, artifacts, review | commits, merges and checkouts after the review | an accepted review is of this code |
| Scala check (`tools/scala_gate.py`) | gate lock, isolated copy, summary | format, compile, test, audit, fingerprint | edits between tasks of minutes, waivers behind includes, stale lock | a pass is of one source |
| RTL generation (`tools/spinal_generate.py`) | run directories, published RTL, summary | elaborate twice, compare, publish | two generators find one directory fresh | published RTL is reproducible and of the source named |
| core_top gates (`tools/core_top_gate.py`) | packaged RTL, snapshot, replacement spec, lint waiver, summaries | contract, package, lint, port and Yosys checks, refresh, publish check | refresh killed between two files, packaging twice | what is published was generated, packaged once and reviewed |
| Leaf gates and contract comparators (`tools/*_gate.py`, `mul_*`, `div_*`, `lacc_diff.py`) | a summary each | simulate one module against its reference | | |
| Environment tools (`tools/bootstrap_scala_cache.py`, `local_env.py`, `sim_result.py`, `official_source_audit.py`) | none shared | probe, download, parse | | |
| Generated RTL, build files, tests, software | | | | |

The core's components meet at the clock edge: signals of one are inputs of the
next in the same step. The tools meet in files: `spinal_generate` publishes RTL
that `core_top_gate package` reads, whose package is installed as the tracked one,
which `refresh` binds to a spec and a waiver and `lint` and `publish-check` judge;
`chiplab-overlay` exports locked, mixed or official RTL into a workspace that
`rtl-smoke` builds, and `identity_compare` reads the reports of both. All of them
depend on HEAD and a clean worktree, which anyone may change.

## Modules

### Core: rename, retirement, recovery

`OooCoreConfig` declares the geometry as CONSTANTS with the source's
requirements as the assumption `CoreConfigAssumption` (`OooCoreConfig.scala`).
Each component module owns its registers and offers one `...Step` operator, its
clock edge, with the signals other components drive as parameters.

| module | code | state and steps |
|---|---|---|
| `OooFreeList` | `OooFreeList` in `OooRegisterStructures.scala` | ring `freeEntries`, speculative and architectural head and count; `FreeListStep` allocates, takes the registered release batch, restores on flush |
| `OooRegisterMap` | `OooRegisterMap`, same file | `speculative`, `architectural`, `ready`; `RegisterMapStep` renames a group with bypass between its lanes, wakes, retires, restores |
| `OooRob` | `OooRob.scala` | ring, pointers with wrap bit, `occupancy`, registered completions, prefetched candidates; `candidateFresh` is FALSE where the synchronous payload read met the write of its slot |
| `OooIdleController` | `OooIdleController.scala` | `enterPending`, `sleeping` |
| `OooBackend` | `OooBackend.scala`, `OooCore.scala`, `OooCoreSystem.scala` | composes the four in `Cycle`; epochs, the registered release batch, the two redirect registers; `executing` stands for everything between rename and a result |

`BackendNext` chooses the decoded group, the results and the interrupt of a
cycle. `OooBackendProperties` states what the composition promises.
`InOrderRetirement` is the abstract specification: a queue whose uops leave in
order, each with its outcome, and that is discarded in one step when one of them
ends the stream. `RetirementImplemented` is that specification under the
refinement mapping `Window`, which reads the queue off the ring in pointer
order; `squash` is the flush of this cycle.

The registered release batch `retiredFree` is a partial function from the lanes
that retired a destination to the register each releases; it keeps the lanes
because the code gives every lane its own valid bit and slot.

One variable is history, in no register of the code: `registers` says whose
value a physical register holds.

### Memory order

| module | code | state and steps |
|---|---|---|
| `OooLsqAllocator` | `OooLsqAllocator.scala` | tails and occupancies; allocate, release, flush |
| `OooLoadStoreQueue` | `OooLoadStoreQueue.scala` | both rings, the scheduled load and its bypass, the request buffer, the accepted-store sidecar, the translation owner and its cancel token, completion and misalignment registers; `QueueStep` is the edge, made of one operator per register group, each with its branch for a flush |
| `OooMemoryBackend` | `OooBackendWithExecution.scala`, `OooBackendWithDataCache.scala` | what surrounds the queue: reorder buffer as `window`, address unit and store data in any order, a translator that answers at any cycle, a cache that takes one request at a time and may answer late, out of order and after a flush |
| `OooMemoryProperties`, `OooMemoryProofs` | | the promises; proofs of four of them |

An access is a word and a set of bytes. Data is not carried: `ReadsStale`
compares, when a load gets its data, the stores it reads from with the youngest
older store of each byte that memory lacks, and marks the load. `undrained` is
history: the retired stores memory still lacks, with the number of uops retired
since.

The geometry is free: `LsqAllocatorAssumption` asks for rings of some size, with
two store slots at least, so that the slot before the head is not the head;
`WordsAssumption` names the word an empty slot holds; `MemoryAssumption` gives the
environment's constants their types and every access a byte (`{} \notin Masks`: no
size has an empty byte mask).

### Dispatch, issue and writeback

| module | code | state and steps |
|---|---|---|
| `OooDispatchQueue` | `OooDispatchQueue.scala` | ring and window as sequences in program order; `Refill` is what moves up behind the survivors |
| `OooIssueQueue` | `OooIssueQueue.scala`, router included | one queue and one registered ready per port, the two-slot output of the load/store port; `RoutePrefix`, `Selected`, `Staying` (compaction with wakeup), `ReadyNextCycle` |
| `OooStoreDataQueue` | `OooStoreDataQueue.scala` | slots, registered ready, output register |
| `OooDispatchPath` | `OooBackend.scala`, `OooExecutionCluster.scala` | address and operand registers of each port, multiplier stage, divider, barrier unit, memory, registered completions; `Edge` composes all of it |
| `OooDispatchProperties`, `OooDispatchProofs` | | the promises; proofs of all of them |

A uop is a kind, its pointer and three registers. Its destination is given by
its pointer and its sources by distances to older uops (`Shapes`), so that
dependency chains arise without a second model of renaming. Latencies of
divider, barrier machine and memory are choices of every cycle. A flush may come
in any cycle, which is more than the reorder buffer asks for.

The physical register file's read ports are not a resource of the model: a port
conflict between a store's data and a load's second source cannot arise, because
the decoder gives no load a second source (`OooLa32rDecoder.scala`, `needRkd`).

Assumptions, all evaluated by TLC: ports are numbered from 0 and the load/store
port is one of them (`IssueQueueAssumption`); each of the memory port, the CSR,
divide and multiply port is another one and the only one with the unit behind it
(`PortsAssumption`, as `OooBackend.scala` gives out capabilities); a source is a
distance to an older uop (`ShapesAssumption`).

### Liveness of the core

`OooBackendLiveness`, `OooMemoryLiveness` and `OooDispatchLiveness` extend the
three MC modules, put the compositions under a clock (see Fairness) and state
what must eventually happen.

### Validation pipeline

| module | code | state and steps |
|---|---|---|
| `ValidationState` | `refactor.py`: report paths, publication, doctor, source bindings | the shared files, HEAD and installed tools; what a binding asks of them |
| `ValidationLocks` | `acquire_iteration_lock`, `release_validation_locks`, `_acquire_comparison_locks` | locks in order, failure on the first that exists, release from the last, only of its own |
| `ValidationOverlay` | `command_golden_export`, `command_chiplab_overlay` | withdraw, check, export, reset, clone, install, bind, mark, report, publish |
| `ValidationSmoke` | `command_rtl_smoke`, `verify_overlay_integrity` | verify, smoke lock, configure, build, simulate, verify again, publish; abort withdraws and leaves the smoke lock |
| `ValidationCompare` | `identity_compare.py` | anchors, inputs, verification, comparison, both read again, publish |
| `ValidationPipeline` | | the runs side by side, with interrupts, kills, cleared locks, edits, commits, a doctor that is replaced or expires |
| `EvidencePublication` | | abstract: under a name at most one author at a time; evidence appears whole where none stands and disappears only by an author's hand |
| `ValidationProperties`, `ValidationProofs` | | the promises; proofs of all of them |

A run is a record: `pc` names the step it is at, the other fields are its local
variables. `pc = "release"` is the `finally` clause, `"abort"` the clause of
rtl-smoke and identity_compare that withdraws what the run was to publish.

### Gates

| module | code | state and steps |
|---|---|---|
| `GateState` | | repository, tools, dependency cache, OUT_DIRs, RTL as a record of what the gates tell apart: its source, TLBNUM, reset guard, number of annotations |
| `ScalaCheck` | `scala_gate.py` | gate lock, toolchain, copy, four tasks, fingerprints, `finally`, and the audit (verilator_script_policy): which command lines and which files reached through includes may be used |
| `SpinalGeneration` | `spinal_generate.py` | request, manifest, elaborations in fresh copies, comparison, publication |
| `CoreTopGates` | `core_top_gate.py` | the seven gates, one action per access to a shared file |
| `IterationEvidence` | `refactor.py`: validate-iteration | what the record says; commits, merges, checkouts, edits by its author |
| `GatePipeline`, `GateProofs` | | all of it side by side, with kills, interrupts and edits, and the promises; proofs of all but `NoWaiverIsReached` |

## Runs

The code has 32 architectural and 64 physical registers, 32 reorder-buffer
entries, queues of 8 and groups of 3. The runs use the smallest geometry in which
rings wrap, queues fill and a flush meets something in every stage; all index and
pointer arithmetic is modulo the CONSTANTS. Deadlock is checked in every hardware
run: those models never stop, as the clock never does. The commands of the two
tool runs end, so deadlock is not checked there.

| run | bounds | shows |
|---|---|---|
| `rename` | 1 renamed register, 2 free registers, 2 entries, groups of 2, one result per cycle, 1 stale result, 2 recovery epochs | no physical register lost, shared or read before it is written; retired values survive recovery; results of discarded uops complete nothing |
| `retire` | 2 entries, groups of 2, 2 results per cycle; barriers, CSR reads, IDLE, faults, mispredictions | in-order retirement with a payload that was read after its write, epochs that count barriers, refinement of `InOrderRetirement`, sleep only when empty, every uop leaves |
| `mem_order` | 1 load, 2 stores in the queues, full and partial words, at most 3 uops from the oldest undrained store to the youngest | a load that retires has read every byte from the right store |
| `mem_flush` | groups of 2, flush in any cycle, misaligned addresses | retired stores survive, memory takes them once and in order, the allocator agrees with the queues, translations reach their owner, completions are neither lost nor repeated |
| `mem_uncached` | 1 load, 2 stores, LL, SC, barriers, faults, bus errors | an uncached access happens once and only for a uop that retires; barriers separate |
| `mem_drain` | stores only, groups of 2, flush in any cycle, 2 slots | the drain after a flush ends |
| `mem_wrap` | as `mem_order` with 2 loads, 2 entries and a distance of 6 | violation, see below |
| `dispatch_wake` | the four ports with the operations the code gives them, 2 slots per queue, a dispatch queue of 4, 3 live uops, flush in any cycle | one place per uop, no lost wakeup, operands read when their value is there, serializing uops act only as the oldest |
| `dispatch_store` | as above, stores and ALU uops, 4 live uops, 2 store-data slots | both halves of a store, program order of every queue |
| `dispatch_live` | as `dispatch_wake`, divides, ALU uops and stores | every uop leaves the path |
| `validation` | seven scenarios of up to six commands, 2 iterations, 2 OUT_DIRs, 1 work root | the promises of the pipeline and the refinement of `EvidencePublication` |
| `gates` | nine scenarios of up to six tools, 3 sources, 2 elaborations | the promises of the gates and of the record |

Bounds of the hardware runs that are no size of the code, and why they lose
nothing that matters:

- `EventsPerCycle = 2` (memory runs): at most two of the independent inputs of a
  cycle are active; everything the queue does on its own is not counted. The
  races named under hazards are between two events and the queue's own step.
- `Reach` (memory runs): how many uops may be renamed while the oldest undrained
  store waits. In the passing runs it is below `RobEntries`; `mem_wrap` shows
  what happens beyond.
- `StaleResults = 1`: results of discarded uops kept in flight. A second one is
  subject to the same check and meets another entry. `retire` has none: there
  they only multiply states.
- `RecoveryEpochs = 2`: a result outlives at most one flush. The code has 256
  epochs and no unit that keeps a result over a second flush.
- `MemoryEpochs = RobEntries + 1`, the smallest the code's requirement allows
  (`mem_wrap` takes more).
- `CommitWidth = 1` in the dispatch runs: retirement only frees entries there.
- one store word in most memory runs: stores to another word never interact.

The scenarios of `validation` (`MCValidation`) say who is invoked, after whom, at
which of two commits, and how often something may happen from outside (an
interrupt, a kill, an edit, a commit, a doctor that is replaced or expires):

- `InOrder` (1 event): a locked and a mixed iteration, each with overlay and
  smoke run, then the comparison; `Changed` the same at a commit whose
  replacement differs from the locked RTL; `Overtaken` with a smoke run of the
  mixed iteration beside the comparison;
- `SharedWork` (1): two OUT_DIRs in one work root; `SmokeTwice` (1): two smoke
  runs of one overlay, and refused arguments; `Rebuilt` (2): an overlay after a
  smoke run that may have failed; `Standalone` (1): golden-export beside an
  overlay that uses the same export directory.

Every step of every command may fail where it can in the code. One event reaches
each window between two steps of each command; two in `Rebuilt` give the kill of
one run and an edit before the next. Lock files of a killed run are cleared at any
later time, which costs no event.

The scenarios of `gates` (`MCGates`): `ScalaTwice`, `GenerateTwice` and
`PackageTwice` put two tools on one OUT_DIR; `Publication` goes from a new source
to its linted and published package; `RefreshTwice` overlaps two refreshes with a
change of the tracked package; `Unsupported` meets RTL that cannot be packaged;
`Repackage` packages the tracked package once more, installs and refreshes it;
`AuditsTogether` runs the audits side by side; `Record` judges a record while at most
`CommitLimit = 3` commits, merges and checkouts go on and the raw review gets at
most `EventLimit = 1` event. `Elaborations = 2` is the default of the tool. Three
commits give a merge, which is where parents of HEAD are more than one.

### Fairness

A variable `clock` flips at every edge, so that an edge that changes nothing is
told from no edge at all, and that it flips is weakly fair: the clock never
stops. The rest of fairness is stated as formulas over steps of that
clock: what keeps being asked for is answered again and again.

- `FairBackendSpec`: the clock ticks, and a live uop that may issue gets its
  result presented in the end. The functional units and the memory finish; that
  the path to them does is what `dispatch_live` checks.
- `FairMemorySpec`: not every edge is a flush, the cache takes a request that is
  offered to it, and memory answers. A flush is caused by a retirement, which
  needs edges that are none; the cache is ready whenever it has no miss that
  blocks it.
- `FairPathSpec`: the reorder buffer retires a completed head, and address unit,
  store data port, memory, divider and barrier machine serve what keeps being
  asked. The divider is a counter, the others are covered by the memory models or
  are external.

The tools promise no progress: every wait ends in a timeout or in a failure that
a person looks at, and a lock that is left behind stays. So nothing is said of
their liveness.

## Finding

`mem_wrap`: `OooLoadStoreQueue.scala:74` orders accesses by reorder-buffer
pointers with one wrap bit. That is exact for live uops. A retired store keeps
its pointer until the cache takes it, and nothing bounds how many uops are
renamed and retired meanwhile. While the cache refuses the oldest store, a second
store to the same word retires behind it. Between two and three reorder buffers
after the first store, and at least one after the second, comes a load for which
the first looks older again and the second does not: it forwards the overwritten
value. The comment at lines 332-334 says "Hold every younger load until the older
store has a translation, then compare the physical word addresses that the cache
and external memory will actually observe"; the second store is older and is not
compared. The run uses a reorder buffer of 2. With the 32 entries of the code it
takes a store that the cache refuses while more than 64 uops retire, none of them
a barrier, and at most 8 of them stores.

## What the models say beside their properties

Behaviour of the tools that contradicts no doc and no property, but that a reader
of the evidence should know:

- golden-export takes no lock. An overlay of the iteration `standalone` can bind
  the manifest of another export than the one it installed from; what it
  installed is verified against Git all the same (`EligibleMeansLockedCandidate`).
- Two gates that find one OUT_DIR fresh at the same time both write to it. A lint
  or a generation replaces the summary of the other; the summary of a failure
  replaces nothing.
- A refresh that is killed between spec and waiver, or that another one overtakes,
  leaves a spec and a waiver of different RTL. The next lint refuses the waiver
  (`WaiverDescribesItsRtl` is what it relies on); publish-check does not read it.
- Nothing refuses to package a package. The second one is annotated twice; once it
  is installed and a refresh has bound spec and waiver to it, publish-check passes
  it (`PublishedIsGenerated` therefore says where a package comes from, and not how
  often it was packaged).
- publish-check reads the replacement spec before it compares, and not again.
- spinal-generate parses its manifest before it hashes it.

## Proofs

TLAPS checks every proof below, for every value of the constants that satisfies
the named assumptions.

### Reorder buffer (`OooBackendProofs`)

For every geometry that satisfies `CoreConfigAssumption` and every choice of
`Payloads`, `Decoded`, `WritebackWidth` and `StaleResults`:

- `RobWindow`: `BackendSpec => []WindowMatchesPointers`;
- `RobRetiresInOrder`: `BackendSpec => []RetirementInOrder`.

Both follow from `RobInvariant`, the inductive invariant `RobInv`:

- `PointersInv`: pointers are pointers and the allocation pointer is the commit
  pointer advanced by the occupancy;
- `CandidatesInv`: unless the buffer is empty, the prefetched candidates are the
  consecutive positions from the commit pointer;
- `EntriesInv`: the slot of each position below the occupancy is valid and
  carries that position's pointer, and no other slot is valid;
- `FreshInv`: a candidate that is valid and payload-ready was not read in the
  cycle that wrote it.

`WindowMatchesPointers` alone is not inductive: which slots an edge frees depends
on the candidates, which are registers of their own, and what the edge writes
depends on entries carrying the pointer of their slot. `RetirementInOrder` needs
`FreshInv`, because `payloadReady` and the read are separate registers.

The argument: the ring lemmas (`AdvanceRobTwice`, `SlotsDistinct`) say that
positions within one turn add up and do not share slots; `CommittedPrefix` and
`CommittedWithinWindow` that a cycle frees a prefix of the window and no more
than there is; `RobStepWindow` and `RobStepFresh` carry the invariant over an
edge with and without a flush for any accepted group; `CycleRob` shows that
every edge of the composed backend is such an edge.

### Rename, retirement, recovery (`OooBackendProofs`)

`EdgeOf` takes a cycle of the composed backend apart once (`CycleIsEdge`),
`EdgeMovesWindow` says what it does to the window: the committed prefix leaves,
the renamed group joins behind, and what stays keeps its payload. On that:

- `SleepsEmpty`: `BackendSpec => []AsleepMeansEmpty`;
- `RetirementRefines`: `BackendSpec => RetirementImplemented`, every edge is a
  step or a stutter of `InOrderRetirement`. `SerializingInv` is what the step
  simulation needs besides `RobInv`: the bit that makes an entry retire alone
  agrees with its operation, so nothing retires with what refetches or sleeps;
- `CompletionIsOwn`: `BackendSpec => []CompletedByOwnResult`, from the inductive
  `ResultsInv`. `OwedInv` says that an executing uop is live exactly if it has
  the current recovery epoch, that a live one is at its place in the window,
  alone, or just flushed; `StagedInv` that a registered completion belongs to no
  uop that is still executing. The epochs wrap, and the assumption
  `RecoveryEpochs > 1` suffices because a result outlives one flush at most;
- `EpochsCountBarriers`: `BackendSpec => []MemoryEpochCountsBarriers`, inductive
  with the range of the committed epoch. The work is in counting: how barriers
  of a window split into those that retire and those that stay (`BarriersMove`),
  and remainders (`AddToRemainder`), since both counters wrap.

### Registers (`OooRegisterProofs`)

`DecodedAssumption` says that a destination the decoder names is an architectural
register. For every geometry:

- `RegistersExact`: `BackendSpec => []NoRegisterLostOrShared`;
- `ArchitecturalStateHeld`: `BackendSpec => []ArchitecturalStatePreserved`;
- `ReadySourcesHeld`: `BackendSpec => []ReadySourcesHoldResults`.

`NoRegisterLostOrShared` says that two sets partition the registers and does not
say why the next allocation keeps it so. `RegistersInv` does. It reads the ring
of free registers from its architectural head: first the slots the registered
batch has confirmed, then, in the order of the window, the destinations of the
live writers, then what is free. `RingInv` has the pointers of it, `PlacesInv`
that every register but p0 is in one place behind the confirmed slots, in the
architectural map or in the batch, `SpeculativeInv`, outside recovery, that the
destination of the n-th writer is the n-th slot, that what it will release is
the mapping of the last writer before it (`LastWriter`) and that the speculative
map is that of the last writer of all. So a flush has nothing to compute: moving
the head back drops exactly the writers (`FlushRestoresRegisters`).

`EdgeOfFreeList` and the lemmas about `MapAfter` give the new ring and maps,
`RankMoves` how counting lanes and counting writers of the window agree,
`SeenMappings` and `RetiredMappings` the maps seen by a lane behind others of its
group. `EdgeKeepsPlaces` and `EdgeKeepsSpeculation` carry the two views over an
edge; `ArchitecturalPartition` and `SpeculativePartition` get the property from
them, by counting.

`ContentsInv` adds what the registers hold. A retired mapping holds its result
because a complete entry does (`CompleteHeldInv`), and that because a registered
completion carries the destination of the entry it completes (`OwnResultsInv`),
which rests on `ResultsInv`.

### Dispatch (`OooDispatchProofs`)

For any ports and capabilities, any widths and depths of the queues, any shapes
of uops, and divider, barrier machine and memory that end at any cycle, with or
without flushes:

- `UopsNeitherLostNorDuplicated`: `PathSpec => []NothingLostOrDuplicated`;
- `StoreDataNeitherLostNorDuplicated`: `PathSpec => []StoreDataFollowsStore`;
- `NoWakeupIsLost`: `PathSpec => []NoLostWakeup`;
- `OperandsAreThere`: `PathSpec => OperandsHoldResults`, an action property;
- `ProgramOrderIsKept`: `PathSpec => []QueuesHoldProgramOrder`;
- `SerializingUopsAreOldest`: `PathSpec => []SerializingIsOldest`.

All of them follow from one inductive invariant, `DispatchInv`. Its first half,
`WhereInv`, says where uops are:

- `DispatchTypeOK`, and `LiveInv`: the pointers of the reorder buffer run from its
  head without a gap, only live entries are complete, and a uop's source was
  renamed less than a reorder buffer before it;
- `CapacityInv`: what each registered ready still promises. A queue whose ready is
  set has a slot although that bit is one cycle old, because one is reserved; this
  is what the acceptance of a group and `FreeSlot` need;
- `CapableInv`: a uop behind an issue queue is at a port that can execute it;
- `PlacesInv`: a uop is live exactly if it sits somewhere, and sits in one place
  only (`SitAliveInv`, `SitOnceInv`, `SitAllInv`).

`NothingLostOrDuplicated` compares two sets of pointers and their sizes; that is
no induction hypothesis. `Sits(tag, p, k, u)` is: uop u is in slot k of place
`tag` at port p. `Goes` says where an edge takes what sits there. Backwards
(`BackTo`), whatever sits somewhere after an edge came from exactly one place or
was just renamed; forwards (`ForthTo`), whatever sat somewhere is found where it
`Goes` unless it finishes. Each queue has its pair of lemmas (`BackToIssue`,
`ForthFromIssue`, ...), and `PlacesEdge` needs nothing else of an edge. Two
places of one uop are then excluded by running both backwards, and the counting
is done once, in `PlacesCounted`. `CapableInv` is needed because two results can
only meet on one lane if their units are at one port.

The second half, `SaidInv`, is proved over the same two directions:

- `WaitingInv` and `SortedInv`: window and dispatch queue are the end of the
  reorder buffer, and an issue queue is sorted. A uop enters behind all that are
  in its queue because they were in front of the window (`OrderHolds`);
- `NoLostWakeup`, which is inductive: a register that is not ready becomes so in
  the cycle its lane is registered, and that tag reaches the slots, what moves up
  in them and what enters (`WakeEdge`);
- `SerialInv`: what left its issue queue and serializes is the first live uop, as
  `Selected` compared its pointer with the head and nothing before it can retire;
- `UnitInv`: a unit holds uops of its kind; `DataInv`: for the data half what
  `PlacesInv` is for the uop, with what its entry reads (`DataSourceInv`);
- `ReadableInv`: the sources of a uop that is ready in its queue, and of all that
  are on their way to the operands, can be read. An early wakeup announces a
  result that is readable from the next cycle on (`FiredNext`, `SourcesNext`), and
  what is readable stays so until its register is renamed again, which no uop
  that still reads it sees (`SourceNotNew`).

An edge with a flush proves nothing of this step by step: it leaves what the
initial state has (`Emptied`), but for the head pointer, the registered readies
and a barrier that is still dropping.

### Load/store queue (`OooMemoryProofs`)

For any sizes of the two rings, the reorder buffer and the epochs, any words and
masks, any order in which addresses, data, translations and cache answers come,
and flushes at any time:

- `MemoryTypes`: `MemorySpec => []MemoryTypeOK`; besides types it bounds the window
  by the reorder buffer;
- `AllocatorNeverReusesASlot`: `MemorySpec => []AllocatorMatchesQueues`;
- `AnswersReachTheirOwner`: `MemorySpec => []TranslationReachesItsOwner`;
- `CompletionsAreExact`: `MemorySpec => []NoCompletionLostOrRepeated`;
- `DevicesSeeEachAccessOnce`: `MemorySpec => []UncachedAccessesHappenOnce`.

An edge gives every slot its next value by a dozen writes, of which the last one
that applies wins. `StoreEdge`, `LoadEdge`, `FlushEdge`, `RequestForm`,
`GeneratedForm` and the other `...Form` lemmas say once, field by field, what
comes out; no proof after them opens `QueueStep`.

**Rings.** `AllocatorMatchesQueues` says how many slots are occupied and which are
free, and is not inductive: a retirement clears the slots of the uops that leave,
and only where these lie in the ring makes the counts right. `MemoryInv` adds it:

- `LoadRingInv`: the occupied load slots are an arc from `loadBase` to the tail,
  and the load that has `k` loads before it in the window is in the `k`-th slot of it;
- `StoreRingInv`: the same for stores, with two numbers more. Stores are freed
  when memory takes them and not when they retire, so that the window's stores
  come after `d` slots whose uops have left. The first `c` of these, from the head
  on, are committed; the others are stores that ended in an exception, which
  exist only until the flush they asked for;
- `AcceptedInv`, `SentInv`, `BufferInv`, `OwnerStoreInv`: what the sidecar of
  accepted stores, the uncached write under way, the request buffer and the owner
  of a translation hold is the head, or the slot before it. Without them a head
  could be skipped, freed twice, or freed with another store's answer.

`ArcMoves`, `ArcShrinks`, `GroupArc` and `ArcSize` do the arithmetic modulo the
ring's size once for both rings. A flush keeps the `c` committed slots and puts
the tail behind them, if it does not first wait for the answer to an uncached
write (`StoreRingFlush`).

**Completions.** `NoCompletionLostOrRepeated` relates the registered completions to
the uops that wait for them. Its induction, `CompletionInv`, follows one access:
`WindowEdge` says that an access of the window after an edge was there before
(`Follows`) or is new (`Enters`), and `EndsGenerates`, `NothingEnds` that an
edge generates a completion for exactly the access that ends in it.

- `DoneInv`: an access is finished in the queue exactly if the reorder buffer knows
  it (`done`) or a registered completion is on its way there, and never both;
- `OwedInv`: a registered completion is of this epoch and of an access of the
  window; two registers never name the same access;
- `IssueInv`, `LoadSlotInv`, `StoreSlotInv`: in which order the flags of a slot can
  be set, with those of its uop;
- `CopyInv`: the completion of a load is decided on its registered copy, which
  must know what the queue knows. The copy follows an answer only if the answer's
  owner is the load scheduled next. `OwnerInv` says that the owner is the scheduled
  load now, and `ScheduleInv` that no load before it is pending, so that the
  selection, which takes the oldest, stays with it;
- `BufferLoadInv`: a load that waits in the request buffer cannot be completed by a
  forward as well: every older store is translated and covers it in part or not at
  all, and no store that enters is older. Here every access needs a byte, as an
  empty mask is covered by every store.

`CompletionInv` proves `TranslationReachesItsOwner` too, with `OwnerStoreInv`,
`OwnerInv` and `CopyInv`.

**Uncached accesses.** `UncachedInv`: an uncached request in the buffer is that of
the uop at the head of the reorder buffer, whose slot has sent nothing yet and has
not completed. `AccessInv`: a uop that has sent its access is that uop, and its slot
remembers it. With `DoneInv` such a uop is not done, and so neither retires nor asks
for a flush (`AccessStep`).

`CountingLemmas` has what this and the other proofs of rings and orders count with:
the least element of a set of numbers, ranks, and cardinalities of intervals.

### Validation pipeline (`ValidationProofs`)

For any sets of runs, OUT_DIRs, work roots, iterations and scenarios that satisfy
`NoneAssumption` and `CommandAssumption` (a command names existing roots and
iterations, a comparison two different iterations), with any number of
interrupts, kills, cleared locks and outside changes:

- `RunsKeptApart`: `Spec => []OneRunPerIteration`;
- `MarkersAreTrue`: `Spec => []MarkerHashesItsReport`;
- `EvidenceIsWithdrawn`: `Spec => []NothingStandsMeanwhile`;
- `EvidencePublished`: `Spec => PublishesAsPromised`, the pipeline implements
  `EvidencePublication`.

`OneRunPerIteration` speaks of runs past their last lock and is not inductive: it
does not say why a run that takes its last lock is alone. `LockInv` does: the
files a run holds bear its name and none is held twice, a run that is still
acquiring holds the first `Len(held)` of its locks, a run that works holds them
all, one that is over holds none, one that was invoked as golden-export never gets
past its own steps, and one that is about to mark a report wrote it. `LocksCover` shows that every iteration of a command has
a lock below both roots, `LocksExclude` that two working runs of one iteration
would both own one file. `EvidenceInv` adds that a run has no marker from its
withdrawal to its publication.

Between its last lock and the release whatever a run does is an `InnerStep`: it
leaves lock files alone and touches reports and markers under its own name only,
in one of four ways. `OverlayStepIsInner`, `SmokeStepIsInner` and
`CompareStepIsInner` show this of each action; the invariants are carried over
`InnerStep` once (`InnerKeepsLocks`, `InnerKeepsEvidence`), and over each step
that handles locks or comes from outside (`LockStepKeeps`, `OutsideKeeps`).

The refinement maps the author of a name to the run that holds the lock file of
its iteration below OUT_DIR, and what stands to the author of a published report.
`HoldersAreOne` makes that a function of the state, `WorkerIsAuthor` says that a
working run is the author of its name. An `InnerStep` is then a `Withdraw`, a
`Publish` or a stutter (`InnerImplements`); a step that changes the locks of one
run is a `Begin`, a `Leave` or a stutter (`AloneImplements`).

The second argument is about what the evidence says. `ContentsAreKept` is its
inductive invariant: `MemoryInv` (what a run still knows between two of its
steps is true, and what a report says is: `Remembers`, `IsReport`) and
`WorkspaceInv` (at most one run has ever built in a workspace, and from its smoke
lock to its second verification the workspace of a smoke run holds what that run
made, or was edited: `OneBuilder`, `Built`). From it:

- `SmokesAreTrue`: `Spec => []SmokeRanItsOverlay`;
- `EligibleIsLocked`: `Spec => []EligibleMeansLockedCandidate`;
- `ComparisonsAreOfOneState`: `Spec => []ComparisonIsOfOneState`;
- `ComparedStillStand`: `Spec => ComparedReportsStillStand`, an action property.
  `InputsInv` says that a comparison on its way to publication finds its four
  inputs published as it read them, which holds because it owns the locks of
  both iterations; `OnlyMarksPublish` that no other step publishes.

None of the three invariants is inductive: a report is written from what its run
remembers, and what a run remembers is about files that others may edit. The
workspace is where this is decided. An edit can come at any time, so that the
invariant can only say "as built, or edited"; it is the verification after the
simulation that turns this into the truth of the report.

### Gates (`GateProofs`)

For any sets of runs, OUT_DIRs, sources and scenarios, any number of elaborations
of at least 2 (`RunsAreRepeated`), any include relation and any record, through
kills, interrupts and edits:

- `LockIsHeld`: `Spec => []OneScalaRunPerOut`;
- `ScalaPassIsWhole`: `Spec => []ScalaPassIsOfOneSource`;
- `GenerationIsWhole`: `Spec => []GeneratedFromOneSource`;
- `WaiverIsTrue`: `Spec => []WaiverDescribesItsRtl`;
- `PublicationIsTraced`: `Spec => []PublishedIsGenerated`;
- `ReviewIsOfThisCode`: `Spec => []AcceptedReviewIsOfThisCode`.

The assumptions, each of which TLC evaluates:

- `SourcesAssumption`: what a source declares and what Verilator reports of it
  are of the right type;
- `JobsAssumption`: an OUT_DIR serves one kind of evidence, the audits of
  core_top counting as one, and an install takes the RTL of some OUT_DIR. That
  is how `src/Makefile` gives them out (lines 11-65); two tools of one kind on
  one OUT_DIR remain possible, and the runs have them;
- `RepositoryAssumption`: at first only a package is annotated, the RTL the
  replacement spec names was audited, and the waiver lists the warnings of its
  RTL;
- `NoneAssumption`: the value for "nothing there" is no run, no RTL and no
  summary.

`ShapeInvariant` says that a run is at a step of the tool it was invoked for. The
frame lemmas (`ScalaFrames`, `GenerateFrames`, `GateFrames`, `QuietFrames`,
`EditFrames`) say once what a step of each tool leaves alone, `Steps` that there
is no other step. Each invariant is then shown over the few actions that can
disturb it:

- `OneScalaRunPerOut` is inductive with the shape: a lock file names the run that
  took it, and only that run removes it.
- `ScalaInv`: while the tasks run, every result so far is of the source that was
  fingerprinted, unless the copy has been edited, which the audits at the end
  notice. The property speaks of the summary alone.
- `GenerationInvariant`: of two generators that find one OUT_DIR fresh, only the
  one that made the first run directory goes on (`Generating`). Nothing stands
  there until that one publishes, between its publication and its summary the
  RTL is its own, and afterwards it is what the summary says (`GenerationsInv`).
  The property speaks of the last of these three times only.
- `RtlInvariant`: RTL that lies anywhere, or that a gate has read, is elaborated
  or packaged and can be traced (`Known`).
- `AuditInvariant`: from its snapshot on, an audit's run, summary and waiver are
  of one RTL. It holds although the tracked package changes meanwhile, because
  no step after the snapshot reads it again.
- `PublishInv`: what publish-check compares has been found without unreviewed
  warnings; an RTL that was never annotated would have one (`UnmarkedIsWarned`).

`AcceptedReviewIsOfThisCode` needs no induction: everything it asks is asked by
the command in the very state it speaks of. What it takes is that each of the
two ways to be acceptable, HEAD or its direct parent, gives the code of HEAD
(`AcceptableHasHeadsCode`), over any history.

### Only model-checked

- `RetiredLoadsSeeOlderStores` and `BarrierSeparatesAccesses`: neither holds for
  every value of the constants. Both rest on `IsOlder`, which compares pointers and
  is right only as long as `Reach` stays below `RobEntries`. `mem_wrap` shows the
  first one fail beyond that bound; the model's barriers, which do not wait for the
  caches to be idle, would then complete early too. A proof needs the bound as a
  hypothesis and an invariant over `undrained`, which ties what memory lacks to the
  committed slots.
- `RetiredStoresKept`: it is stated with `SelectSeq`, of which the installed provers
  know nothing, over the order of `undrained`. That committed stores are an arc
  from the head and survive a flush in place is proved (`StoreRingInv`).
- `NoWaiverIsReached`: its closure over includes is an induction over data.
- All liveness: fairness and ENABLED are out of the provers' reach.

## Not modelled

Data paths (ALU, multiplier, divider arithmetic, byte lanes), the predictor
(its wrong predictions are mispredictions of any branch), debug and trace
outputs, generated RTL and software. The frontend, the caches and their buses,
address translation, the CSRs and the barrier machine's maintenance sequence
appear as environments that do what the code next to them allows; the hazard of
a flush in the middle of a maintenance operation is listed without a property for
that reason.

Of the tools: the leaf gates and the comparators of multiplier and divider are
one-shot simulations and arithmetic over 32 and 64 bits, without state that
outlives a call or is shared; downloads, probes, parsers of logs, the wording of
reports and the formats of archives and patches are left out. Single fields of a
report are folded into the value they bind. `PROJECT.json` lists every part with
its status.

## What could come next

1. *Barrier machine*: the six states of `OooExecutionCluster.scala` with the
   maintenance sequence of `OooSharedCacheHierarchy.scala` and the translation
   owner that cache operations share with the load/store queue.
2. *Frontend*: request, response and packet queues with drop tokens; abstractly a
   stream of packets that follows the last redirect.
3. *Memory system*: miss registers, L1 and L2, writebacks, shared router and AXI
   bridge; abstractly one memory, word by word.
4. *Translation and privileged state*: TLB maintenance against lookups and fills,
   exception entry against interrupts.
5. *Proofs*: the order of memory (`RetiredLoadsSeeOlderStores`,
   `BarrierSeparatesAccesses`) under `Reach < RobEntries`, from `CompletionInv` and
   an invariant over `undrained`.
