# myCPU in TLA+

A verification development for the RISC-V simulator in `src/`: TLA+ modules for the parts whose
correctness depends on the order in which things happen, TLC configurations that check them on small
instances, and TLAPS proofs of the main results for every value of the constants. `PROJECT.json` lists
components, runs, mutants, hazards, findings and theorems, and maps every definition to the source lines it
stands for.

## 1. Inventory

Paths are relative to `src/src/`.

| Component | State | Operations | What makes it correct |
|---|---|---|---|
| Pipeline `cpu/pipeline` | fetch latch, IF/ID, ID/EX, EX/MEM, MEM/WB, data latch, registers, pc, CSRs | `clock()` (all stages, WB first), `take_trap`, `execute_trap_return`, `reset`, `set_pc` | executes the program as a machine that takes one instruction at a time; stalls end; wrong paths are squashed |
| Predictors, BTB `cpu/pipeline/predictor` | counters, histories, target entries | `predict`, `update`, `check_misprediction`, `switch` | influence speed only |
| Caches `cpu/cache.rs` | sets of lines, replacement pointers | reads, writes, invalidate, flush, reset | invisible to the program, also when the bus refuses an access |
| Bus, RAM, ROM `memory/` | regions and peripherals | byte accesses, wider ones byte by byte | routes each address to one device |
| TLB, MMU `cpu/tlb.rs`, `cpu/mmu.rs` | 32 entries, round-robin pointer; page tables in RAM | lookup, insert, flushes; Sv32 walk that sets A and D | a hit translates as the walk would |
| CSRs and traps `cpu/csr` | m- and s-level CSRs, privilege | read, write, take and return from traps, delegation | a trap saves what its return restores |
| CLINT, PLIC `interrupt/` | mtime, mtimecmp, msip; priorities, pending, enables, thresholds, claims | ticks, MMIO accesses, claim, complete, sync with the sources | no interrupt lost or delivered twice |
| Accelerator doorbell `memory/bus.rs`, engines `peripheral/` | mailbox registers, task counters, engine state | submit, notify, status, DMA | a submitted task is accepted once or reported |
| UART, input, virtio block `peripheral/` | FIFOs, rings, interrupt lines | MMIO accesses, host injection | bounded queues, level interrupts |
| Visualization server `visualize/server.rs`, filter in `frontend/src/hooks/useWebSocket.ts` | CPU, running flag, clock lock, reset sequence, broadcast channel, clients | run loop, commands, connect, disconnect | locks are not awaited in a circle; pause and reset take effect; frontends show no stale state |
| GDB server, difftest `debug/`, `difftest/` | breakpoints; QEMU connection | packet handling | drive the single-cycle `Cpu` (`cpu/core.rs`), which is not in the repository snapshot |
| Decoder, executor, loader, CLI, reports | – | pure functions, I/O | covered by unit tests and riscv-tests |

They meet in three ways. `PipelineCpu` *calls* its caches, MMU and bus synchronously inside `clock()`, so
everything below the pipeline is sequential, and what is hard there is the order of effects within a cycle,
the error exits that leave an operation half done, and copies of the same datum (line and memory, register
and forwarded result, translation and page table). Interrupt sources are *polled* at the start of `clock()`.
The server *shares* the CPU between tokio tasks under two locks and talks to its clients by *messages*; that
is where real concurrency is.

## 2. Modules

| Module | Models | Extends / instantiates |
|---|---|---|
| `FlatMemory` | what memory promises a program: an array of bytes that loads and stores, or refuses | – |
| `Cache` | one set-associative cache and the memory behind it | `FlatMemory` (as `Flat`) |
| `Instructions` | the instruction classes the control signals tell apart | – |
| `Isa` | the machine the pipeline is meant to implement | `Instructions` |
| `Pipeline` | `clock()` | `Instructions`; `Isa` (as `Reference`) |
| `Sv32` | the page-table walk, as operators | – |
| `Translation` | the TLB, the walk and the page tables in RAM and in the D-cache | `Sv32` |
| `Traps` | CSR writes, choice and taking of traps, trap return, as operators on the hart | – |
| `TrapFrames` | epc and cause, and the frames of handlers that nest | `Traps` |
| `Clint`, `Counters` | the timer; the performance-counter CSRs | –; `Clint` |
| `Plic`, `Uart` | the interrupt controller; the serial port | – |
| `Interrupts` | a device's line, PLIC, CLINT, hart and the software that serves it | `Plic`, `Counters`, `Uart`, `TrapFrames` |
| `Engines` | NPU, LPU, GPU, TPU and the doorbell, as operators | – |
| `Decoder` | how the LPU chooses a token | – |
| `VirtioBlock`, `InputDevice` | the disk with its rings; the keyboard | – |
| `Devices` | one of these devices, its driver and the host; for the disk with the PLIC | `Engines`, `Decoder`, `VirtioBlock`, `InputDevice`, `Plic` |
| `Server` | run loop, client tasks, frontend filter | – |
| `MCCache`, `MCPipeline`, `MCTranslation`, `MCInterrupts`, `MCDevices` | instances | the module they are named after |
| `CacheProofs`, `CacheRefinement`, `PipelineProofs`, `TranslationProofs`, `PlicProofs`, `InterruptsProofs`, `DevicesProofs`, `ServerProofs` | theorems | the module they are about; `InterruptsProofs` and `DevicesProofs` also `PlicProofs` |

Operators named `Wrong...` are plausible bugs of the definition that follows them. No action uses them; each
shows that a checked property would notice that bug.

The devices are modules of *operators*, each taking a device's record and returning the new one, because the
simulator calls them synchronously; `Interrupts` and `Devices` own the variables and compose them. In both, an
initial choice (`software`, `user`) says which machine is looked at, so that parts that cannot influence each
other are not multiplied.

### Cache

`sets[s][w]`, `nextVictim`, `mem` are the fields of `Cache` and the RAM behind the bus; `config` is the
`CacheConfig`. One action per public operation, and for reads and writes one per path through the code: hit,
miss with fill, write around, and the access that straddles two lines and goes to the bus. `FillFails`
collects the two `?` in `fill_line`. An operation without a bus argument throws dirty data away, as in the
code. A line is the unit the bus accepts or refuses (`Kind`); a region that ends inside a line is left out,
and so are the statistics.

### Pipeline

One `Cycle` is one call of `clock()`; the `New...` operators are what each stage latches, computed from the
old registers in the code's order (WB's register write is visible to ID, MEM's store to the data read, and
the flush of a trap return to ID and IF). A bubble holds `Nop`, whereas a flush clears the valid bit only,
which is what the code does and what hazard unit and forwarding, which look at no valid bit, depend on.
`replay` marks a copy of an instruction that a stall also keeps in IF/ID: it is derived bookkeeping for the
refinement mapping and nothing reads it in a guard. `Predictions` allows any direction, and as target the
BTB's entry or none, so every predictor is covered. `TakeInterrupt` may happen in any cycle with MIE set.

Abstractions: words wrap at `Modulus` and code and data are addressed by words; the immediate arithmetic is
one addition and one comparison; machine mode; no page faults; every fetch address is mapped.

### Translation

`tlb`, `nextInsert` are the fields of `Tlb`; `ram` holds the page tables, and `line[t]` the D-cache's copy of
table `t`, because the program edits its tables through the cache whereas `translate_sv32()` walks and marks
them on the bus. `Translate` is `translate_with_tlb_components()` where it changes something (TLB miss, walk to
a usable leaf, A and D set, entry inserted round-robin); what it *returns*, also on a hit or a fault, is the
operator `Result`, which the properties ask for every page, mode and access in every state. As in the code a
TLB entry that denies R, W or X counts as a miss and is walked again, one that denies U, SUM or MXR faults, and
a failing write-back of the mark is ignored (`RomTables`). `FlushAll`, `FlushAsid`, `FlushVaddr` are the
methods of the TLB; the pipeline's SFENCE.VMA only uses the first. `seen` and `origin` are history: the mappings
the tables have had since the entries were flushed, and the PTE an entry came from.

The marks are where the code promises little, and `UncachedUsesSeen` says how much. The walk marks a table on the
bus; software looks at it through the D-cache. If the cache holds a copy of the table at the walk, software does
not see the mark, and the write-back of a dirty copy removes it; if the table cannot be written the error is
ignored. `docs/design/ARCHITECTURE.md:659` lists hardware updates of A and D as unfinished. What does hold is that
a page walked to while no copy was cached shows its use in the copy software reads, whatever is loaded, edited and
evicted afterwards, until software stores to this PTE; that is `origin[i].shown`, and it is lost neither by
eviction nor by edits of the other entries of the table.

### Interrupts

`Clock` is what `PipelineCpu::clock()` does before it executes anything: tick the CLINT, let the PLIC sample
the lines (`sync_plic_pending_from_peripherals()`), copy both into `mip`, and take the interrupt if there is
one. The pieces of software that run between clocks:

| `software` | does | checks |
|---|---|---|
| `modes` | any CSR instruction in any mode, page faults, trap returns | `ReturnsNeverRaise` |
| `timer` | moves `mtimecmp` by three stores, as the privileged specification recommends | `TimerNotEarly` |
| `plic-m`, `plic-s` | any store, claim or completion of one context, lines going up and down | `ClaimsBest` |
| `uart` | any access to the UART while bytes arrive | `RxLineCurrent` |
| `driver` | the UART driver: set-up in any order, handler with claim, reads, completion, return | `BytesDelivered` |
| `counters` | sets up a counter and reads it high, low, high | `CountsReadTrue`, `CyclesReadTrue` |
| `nested` | a program and handlers that save a frame and enable interrupts again, with delegated faults | `ReturnsWhereTrapped`, `SupervisorFrameKept` |

Facts of the code that the model keeps and that a reader may not expect: `mret`, `sret` and `uret` are decoded
to the same `TrapReturn`, which goes by mstatus and mepc, so that only a machine-mode handler can return to
where it came from; a word stored to the PLIC's claim register arrives as four byte stores, and each of them
completes something (`StoreClaim`); a VirtIO line is lowered as soon as it has been sampled, the lines of the
other devices set their pending bit in every cycle; `mcycleh` and `minstreth` are words of their own into which
nothing carries, so that a 64-bit cycle count jumps back whenever the low half wraps. `perf.rs` documents it as one
counter in two halves, hence `CountsReadTrue` for the `mhpmcounter`s and `CyclesReadTrue`, which is violated, for
the other two. Both ask it while the reading lasts less than 2^64 - 2^32 counts: later the high half can have come
round, and no program could tell. `Bus::acknowledge_interrupts()` (`bus.rs:958`), which would lower all lines, has no
caller and is left out.

In `nested` a program counter is a *place* in the software (`TrapFrames!Places`). `from` and `delegated` are
history: what the traps not yet returned from had interrupted.

### Devices

A step is one store to a device: the bus runs the device to its end in the same call
(`try_execute_pending()`), so that a status of BUSY can only be left behind by an error. A *command* of an
accelerator is known by what becomes of it (`Kinds`), a request of the disk by whether it succeeds and is
answered. The four engines share their register layout but differ in what counts as done or as an error, in
which stores clear which bits, and in where a list ends that has an unreadable descriptor; those differences are
what `NpuList`, `LpuList`, `TensorList`, `Clear` and `StoreStatus` keep. Word stores are what the bus makes of
them, four byte stores: hence the `word` arguments.

The disk is driven through rings in RAM, through rings of which the available one, its last slot or the used one
is outside of RAM, or through its registers. The driver owes the disk one notification per request (one
notification serves one request). Ring indices wrap at `IndexMod`, 2^16 in the code, which takes any length up to 8
(`QUEUE_RING_MAX`): `UsedFollowsAvail` is claimed for lengths that divide it (`RingsDivide`: 1, 2, 4, 8), as VirtIO
allows. With 3, 5, 6 or 7 the slots of the indices before and after the wrap collide; TLC finds `UsedFollowsAvail`
violated for `QueueNum = 3, IndexMod = 4` (not among the runs: a ring of 3 is no ring VirtIO knows).

The disk's interrupt goes by way of the PLIC. `Clock` is the beginning of `clock()`: the PLIC latches the lines that
are up (`raised`, those of other sources, is any set), the disk's line is *lowered* then, and the handler is entered
if interrupts are on and anything is pending. The handler loads the claim register, which claims nothing; if the
disk is the best source it acknowledges and looks until it has seen all that is used; it stores to the claim
register, and `StoreClaim` completes four times: the claimed source and up to three others that are pending by
then. So a latched bit of the disk can be erased, and nothing raises it again. The code cannot promise that a
request is signalled whatever the priorities are: with another source above the disk TLC finds
`CompletionSignalled` violated in seven states (the other source is claimed, the disk's bit latched, the completion
erases both). `DiskFirst`, no source has a higher priority than the disk's,
is the assumption under which it can: among equals the disk, source 1, is offered first, so that another source is
claimed only while the disk's bit is not set; and the bit is not set before that handler returns, because the disk
works only when it is notified, which the driver does outside of the handler. A device that worked on its own would
need more.

The keyboard's driver enables, looks, and looks again after each acknowledgement while the host presses and
releases. The bus routes the keyboard to no interrupt controller (`sync_plic_pending_from_peripherals()` knows six
names, and this is none of them): its `irq` is a flag the driver polls.

`Decoder` ranks the scores, cuts the list by k or by the share p of the weight, and draws. The pseudo-random number
is any number below `Tickets` (2^32 in the code), taken modulo the weight of the list, and sums saturate at
`Saturation` (2^64 - 1): a token is drawn only if the tokens before it weigh less than `Tickets`, and the share p of a
weight that saturates is smaller than p. `Eligible` says the same without ranking: by how many, or by how much
weight, a token is beaten. In the run `Tickets` and `Saturation` are small enough for the scores to pass both.
Decode registers are stored byte by byte and clamped after each byte, so that the final value may not be the word:
500 stored over 1000 in `TOP_P` leaves 488, 256 stored over 1 in `TOP_K` leaves 257 (`Bytewise`).

### Server

`loop` and `task[c]` are the places at which `run_loop` and a client task may be interrupted by another task:
wherever they await a lock or release one. `clockLock` and `cpuLock` are the two locks held while another is
awaited, the remaining ones are held for one access and are one step. Every websocket command that reads or
changes the CPU is an action: run, pause, step, reset, breakpoints, the ones that only look (`Inspect`) and
those that change registers or memory under the CPU lock (`Intervene`); connecting, leaving and the pause that
the last client's departure causes are steps of their own. `Broadcast` is tokio's channel: it drops the oldest
snapshot of a full receiver, which then gets one `Lagged` error, after which `select!` has no receive branch
until the loop turns, that is until the client's next command (`deaf`). `view` is the snapshot the React hook
has accepted last. `late` and `resumed` are history variables.

## 3. Runs

| Run | Instance | Shows |
|---|---|---|
| `cache_ram` | 1 set, 2 ways, 2-byte lines, 3 RAM lines and an unmapped one; D-cache, I-cache and write-through configurations | `RefinesFlatMemory`: the cache is invisible. `UniqueTag`, `CleanMatchesMemory` |
| `cache_faults` | 2 direct-mapped sets; ROM, RAM, straddled RAM written by another master, nothing | `FailureKeepsView`, `DirtyDataSurvives`, `FlushMakesMemoryCurrent`: what the error exits keep |
| `pipeline_isa` | 3 registers, 5 words, all hazard-free programs of the family, every prediction | `RefinesIsa`, `StallsLastOneCycle`, `Progress` |
| `pipeline_traps` | 6 programs with a handler, an interrupt possible in each cycle | `InFlightFollowsProgram`, `HandlerReturns` |
| `load_use` | programs with a load and its user | **violated**: the load itself becomes the bubble |
| `resume` | as `pipeline_traps` | **violated**: the pc saved is not the first instruction that did not execute |
| `translation` | 2 TLB entries, 2 address spaces over 3 tables (one of them in ROM), 2 pages, superpages and a misaligned one, pages that gain and lose rights | `TranslationsJustified`, `FaultsJustified`, `UncachedUsesSeen` |
| `interrupts` | 3 sources, 3 priorities, 4 ticks, a FIFO of 2, 4 bytes, 2 frames on the stack | the properties in the table of section 2, without `CyclesReadTrue` |
| `counter_halves` | as `interrupts` | **violated** `CyclesReadTrue`: a high half of mcycle or minstret that nothing carries into |
| `devices` | the four engines with lists of up to 2 commands and counters modulo 3, a ring of 2 with indices modulo 4, the disk and another source of the same priority, 2 keys, 3 scores of 3 values | `BusyReportsError`, `ErrorExplained`, `RingAccountsForList`, `IrqHeldUntilCleared`; `UsedFollowsAvail`, `CompletionSignalled`, `RequestsFinish`; `KeysSeen`; `DrawsFromEligible` |
| `server` | 2 clients, 3 connections or commands, channel of 2, 2 cycles | `FreshSnapshots`, `LateClockOnce`, `CommandsFinish` |
| `server_reset` | 1 client | **violated**: the run loop clocks after a reset |

Why the bounds are enough.

* *Cache*: a full set with more lines than ways makes every fill evict, clean and dirty victims included; two
  sets show that a flush which fails in the first keeps the second.
* *Pipeline*: a program is as long as the pipeline is deep, so that every pair of instructions meets at every
  distance; three registers are two that conflict and x0.
* *Translation*: three usable mappings compete for two entries, so that the round-robin pointer wraps over an
  entry in use; one page is edited from nothing to readable by users to writable by the supervisor, which gains
  and loses each kind of right; address space 1 maps the same pages otherwise, from tables whose marking fails.
* *Interrupts*: the clock wraps, four bytes overrun the FIFO, two sources tie and three priorities lie below, at
  and above a threshold. `MCValues` writes all bits or none: what a CSR write keeps or masks is per bit.
* *Devices*: a list of two has a command before and behind one that fails; counters wrap within two lists; two
  requests are under way at once while the index wraps twice; the second source of the PLIC is raised, claimed and
  completed at any time, and would take the disk's bit with it if ties went the other way; three scores leave a
  token on either side of every cut, and the weights are chosen so that the share of top-p is seldom a whole weight.
* *Server*: two clients can hold and await both locks together with the run loop; three events are a
  connection, a run and a reset, or two resets that overlap.

`HazardFree` names what `RefinesIsa` is *not* claimed for: a load followed at once by its user (finding
`load_use`), jumps that link (`ExControlSignals::jal` and `jalr` write rs1, or rs1 plus the immediate, where
`docs/design/ROADMAP.md:194` says "跳转并链接"), CSR instructions whose operand is still in flight, and trap
returns. Self-modifying code is excluded by keeping code and data apart. The family of `pipeline_isa` was
built so that everything else, every stall, both forwarding networks and both kinds of misprediction, occurs.

Fairness.

* *Pipeline*: the run loop and the tests call `clock()` again and again, and it never blocks: `WF_vars(Next)`;
  an interrupt may stay away for ever.
* *Interrupts*: `WF_vars(Clock)` for the same reason, and `WF_vars(UartDriver)`: a clocked hart executes its
  program. Nothing is assumed of the sender of bytes or of other software.
* *Devices*: `WF_vars(InterruptsOn)`: `clock()` is called again and again, and with interrupts on whenever the
  handler is out long enough. `WF_vars(DiskHandler)`: a handler nothing interrupts runs to its end; that it is
  *entered* is not assumed but follows from the PLIC's bits. `SF_vars(NotifyDisk)`: the program that owes a
  notification gets to it although other sources' handlers come in between, again and again. Nothing is assumed of
  engines, the host, other sources or stray stores.
* *Server*: `SF` on each task, because tokio polls every ready task and its mutexes are handed over in the
  order of arrival; users do as they like, so nothing is assumed of `User`. `CHECK_DEADLOCK FALSE` in the
  server's runs: with the budget used up and everything paused the system rests.

## 4. Findings

1. `load_use`: `flush_id_ex` reaches the EX stage too, so the load is dropped together with its slot.
2. `resume`: interrupts save the fetch pc and drop four stages of instructions.
3. `server_reset`: `running` is not read again after the locks have been obtained.
4. `counter_halves`: `perf.rs:240-241` calls mcycle/mcycleh a 64-bit counter split into two registers (likewise
   minstret/minstreth); the code carries into a high half no CSR reads, and `mcycleh` stays what was written to it.

Differences between code and expectation that no run shows are described with the module that keeps them (section
2) and among the hazards. One of them contradicts a document in passing: a JALR that writes its own source register
is latched into ID/EX as well as kept in IF/ID, matches its own copy there, and stalls in every cycle from then on,
where `docs/design/ARCHITECTURE.md:331` speaks of a stall of one cycle; `StallsLastOneCycle` is violated for the
program `jalr x1, 0(x1)`. `HazardFree` leaves jumps that link out anyway, since what they link is wrong, too. And a
snapshot taken between a reset and the advance of its sequence number is dropped by the frontend's filter
(`useWebSocket.ts:60`), so that a paused view may lag until the next command; nothing promises otherwise.

## 5. Proofs

All are checked by TLAPS without omitted steps, for every value of the constants that satisfies the named
assumptions (`...Assumption`, one in each module that declares constants).

**Cache.** `TypeCorrect` goes by one lemma per operator and step. `LinesCachedOnce`: `UniqueTag` is inductive
together with `CachedLinesExist` and `TypeOK`, because a fill installs a tag only after a miss
(`ShapeKeepsUnique`). `CleanLinesCurrent`, from `SoundPolicies` (no write-back policy on a cache that is not a
data cache) and `AllWritable`: the strengthening is `CoherenceInv`, only a write-back cache has dirty lines, and
each step is of one of three shapes: it installs a line, retires lines, or goes around the cache.

What the error exits keep:

* `DirtyDataIsKept` assumes nothing about policies and memory. From `DirtyInv` (a dirty line is one a write-back
  would write) each way survives each step: what it held is in memory, or the way holds newer dirty data.
* `FailuresAreInvisible` and `FlushesReachMemory`, from `SoundPolicies` alone: over memory that refuses,
  coherence still holds of a write-back cache (`WriteBackInv`), because a store only touches the line there; a
  step that fails retires lines or changes nothing that is not shared.

`CacheRefinement!CacheIsInvisible`: a cache over plain RAM, nothing going around it, implements `FlatMemory`;
loads, stores, refusals and maintenance map to the abstract actions.

**Pipeline.** `PipelineTypeCorrect`, and `WrongPathSquashed` from `PathInv`: what is fetched follows what is in
IF/ID or its prediction, and the BTB holds targets of transfers only.

`PipelineImplementsIsa`, for any set of hazard-free programs without interrupts (`Undisturbed`), any prediction
and any eviction from the BTB; the mapped state is that of the machine just before the instruction in EX/MEM. The
invariant is `IsaInv`, and each part of it is one reason why the pipeline is right:

* `Bubbles`, `Copies`: an empty stage holds Nop, and what is latched twice or followed by something squashed is a
  branch or jump, which (not linking) writes nothing;
* `Paths`: each instruction is followed by the one the machine executes next, with the operands forwarded to ID
  (`Resolution`: a stall lasts until they are what the machine will have, `ForwardedToId`);
* `Operands`: what is in EX/MEM was computed from the machine's registers. The newest of EX/MEM, MEM/WB and the
  register file is that value (`ForwardedToEx`), except behind a load, which `HazardFree` excludes;
* `Retired`: what is in MEM/WB precedes what is executed next. MEM/WB has no pc, but `CsrOperand` must know that
  what is there cannot be what a CSR instruction in ID/EX reads unforwarded.

`StallsAreShort` follows from the same invariant: the copy of a stalled branch holds up nothing, and the load it
may wait for has left EX/MEM. Both use every clause of `HazardFree`; the run `load_use` and the JALR of section 4
show what happens without it.

**Translation.** `TranslationTypeCorrect`; then, for any tables and any order of accesses, edits, evictions and
fences:

* `TranslationsAreJustified` and `FaultsAreJustified` from `Remembered`: `seen` contains every mapping of the
  tables as they are, and that of every valid entry.
* `UncachedUsesAreSeen` from `Recorded`: the PTE such an entry came from carries the marks in memory as long as no
  dirty copy is there, and in the copy once there is one. Nothing is proved of tables that were cached at the walk or
  cannot be written: there the marks do get lost.

**Traps and interrupts.**

* `ReturnsOnlyLower`, from `Sound(hart)`: below machine mode mpp is U, because software there cannot write
  mstatus, because supervisor traps, which are taken from U and S only (`Delegated`), leave it alone, and because
  a return resets it.
* `HandlersReturn`, for handlers nested to any depth, from `Nesting`: the saved frames, with the
  one still in the registers, are exactly what the traps not yet returned from have left, innermost first
  (`Aligned`); each but the outermost interrupted an open handler (`Chained`); and where the handler is says
  whether interrupts are enabled, which frame mstatus holds, and which mode runs (`Placed`).
* `SupervisorReturns`, from `FrameInv`: the only traps delegated in `nested` are page faults, so that the
  supervisor is never entered while its own frame is in use.
* `RxLineAlwaysCurrent`, for a FIFO of any size, from `UartSound`: each access restores `RxCurrent` by
  `UpdateIir` or changes neither FIFO nor enables.
* `BestIsClaimed`: the search in bit order (`BestUpTo`, a recursive function) finds the first source of the
  highest priority; by induction over the sources it has looked at (`PlicProofs!BestAmongOffered`, which the proofs
  about the disk use too).
* `TimerIsNeverEarly`, for any width: `Comparator` says what mtimecmp is between the three stores: with its
  high half all ones never before the former deadline, and with the new low half too never before the new one.
* `CountsAreTrue`, of the `mhpmcounter`s and for halves of any width (of mcycle and minstret it is false):
  `Reading` says which counts the halves read so far can have come from, in terms of the counts since the reading
  began; the carry is division with remainder.
* `InterruptsTypeCorrect`, with `HistoryInv` for what the driver accepted and read.

**Devices.**

* `NoKeyMissed`, from `KeysInv`: a ready driver has the interrupt enabled, so that each change raises it.
* `CompletionsSignalled`, for queues of any length, *under* `DiskFirst`, from `SignalInv`: the driver has enabled
  and ranked the sources, the disk raises nothing while the handler is in, and the handler comes to complete only
  with nothing left to look at. A notification changes what is shown as used only by raising the line
  (`NotifySignals`), in each of the places rings can be; `Clock` passes the line on to the PLIC; and a handler that is
  offered another source finds nothing used and not seen, by `DiskGoesFirst`, so that what its completions erase is
  not needed.
* `UsedFollowsAvailable`, for indices that wrap and rings whose length divides them (`RingsDivide`), from `RingsInv`:
  counted from what the driver has seen, the used index never passes the available one, which is at most a ring's
  length ahead; every slot up to the used index was served as published, and no head is in the ring twice
  (`Serviced`, `Apart`).
* `ErrorsAreExplained`, `BusyIsReported`, `IrqIsHeld`, `RingAccounts`, for lists of any length, from `EngineInv`:
  each command keeps what its engine's status and counters say, hence a list does (induction over the fold), and
  the doorbell adds the difference of the counters, congruent modulo their width.
* `EligibleAreDrawn`, for vocabularies of any size, any number of tickets and any saturation: a ranking exists and
  is a permutation, a token's rank is the number of tokens before it, the running total of a ranking is the sum over
  the tokens before (by whatever order the sum is taken), and so the list cut by k or by weight, and again by what a
  ticket reaches, is the set `Eligible` describes.
* `DevicesTypeCorrect`, from the invariants above with `RestInv`.

**Server.**

* `LateOnce`, from `LateInv`: after a late clock `running` is false and the loop is past its own clocking.
* `SnapshotsFresh`, from `Stored` and `Accounts`: resets done and sequence numbers differ by the resets that
  are between the two (`resetSeq + Count(task, Bumping) = cpu.gen`); what a task keeps is blank, everything else
  fresh.
* `ServerTypeCorrect`, from the same.
* `LocksAreOrdered` states no property of a run: who holds the CPU's lock waits for nothing, who holds the clock
  lock for the CPU's at most (`LockInv`), hence no circle. `CommandsFinish` rests on it.

Induction. The library's induction theorems take an operator as parameter, which the provers cannot instantiate.
What is proved about lists and numbers of any size goes instead by the least counterexample: `WFMin` (a theorem
about sets) gives the least element of the set of naturals for which the claim fails. That works for recursive
functions, for the recursion that defines `FoldLeft` and for sums over finite sets.

Only model-checked: liveness (`Progress`, `HandlerReturns`, `BytesDelivered`, `RequestsFinish`,
`CommandsFinish`), which is beyond TLAPS. The violated properties are refuted by TLC.

## 6. Not modelled, and the plan

What could follow:

1. *Composition of pipeline and memory*: page faults in the middle of `clock()`, SFENCE.VMA in ID while an
   older store to a page table is in EX or MEM, instruction fetches that read the bus while new code is dirty in
   the D-cache. The hazards are listed; each of the modules today takes the other's part as one atomic step.
2. *Proofs*: what holds of the pipeline with interrupts in place of `RefinesIsa`, that is which of the
   instructions in flight `flush_pipeline` may lose or let through (run `resume` shows that some are).

Left out for good:

* the GDB server and difftest: they drive the single-cycle `Cpu` of `cpu/core.rs`, which is not in the tree;
* the soft-asynchronous mode of the engines (`soft_async_budget`): nothing outside the
  unit tests turns it on;
* the arithmetic of tensors and pixels, tokenising and embedding, bit-level decoding and execution of single
  instructions: pure functions that unit tests and riscv-tests cover;
* the counters and histories of the five predictors, which `Predictions` abstracts to any choice;
* trap vectors, tval, scratch and user-level trap registers: plain storage;
* statistics, formatting, loading, snapshots to files, command-line handling.
