# A TLA+ development of the RISC-V emulator

This directory models the control logic of the emulator in `src/`: a single
RV64GC hart with M-, S- and U-mode, a PLIC, a CLINT, a 16550 UART and a
virtio-mmio disk, run by one loop that mixes an interpreter (`Cpu::step`) with
compiled blocks (x86-64 code, assembled with dynasm). It boots Linux on OpenSBI; the guest software is
therefore external to the models and appears only as the instructions, CSR
accesses and register accesses it makes.

Contents: 1 Inventory · 2 Plan · 3 Modules · 4 Runs · 5 Fairness · 6 Proofs ·
7 Disagreements found · 8 What is not modelled

## 1 Inventory

One thread runs everything but the reading of the host's stdin, which a second
thread sends, byte by byte, through a channel. So the concurrency that matters
is of four kinds: the *poll* of the run loop, which falls between any two guest
instructions or compiled blocks; *traps*, which nest M-level over S-level; the
*device against its driver*, who share rings in guest memory and a status
register; and *caches* (TLB, compiled blocks), which hold what guest memory said
earlier.

| component | source | state | operations | talks to |
|---|---|---|---|---|
| Run loop | `main.rs` 146–306 | `tick`, `last_clint_tick`, the stdin channel | one iteration: compiled block or `step`, then every 1024 ticks the poll: drain stdin, advance `mtime`, set MTIP/STIP, sample the lines, copy SEIP, `check_interrupts` | everything, by call |
| Hart: traps and privilege | `cpu/mod.rs` 62–197, `cpu/csr.rs`, the system arms of `cpu/execute.rs` | `mode`, `pc`, `mstatus`, `mip`, `mie`, `mideleg`, `medeleg`, `mepc`, `sepc`, causes, vectors | `deliver_trap`, `check_interrupts`, `step`, MRET, SRET, ECALL, CSR writes | run loop (mip), firmware and kernel (CSRs) |
| PLIC | `plic.rs` | priority, enable, threshold, pending, for two contexts | `set_pending`, `best_irq`, claim, complete, register writes | poll (lines in, SEIP out), kernel (MMIO) |
| UART 16550 | `uart.rs` | `rx_buf`, IER, LCR, scratch, the TX matchers | `push_byte`, RBR/THR/IER accesses, `irq_pending` | stdin thread through the poll, kernel, host stdout |
| CLINT and Sstc timers | `clint.rs`, `csr.rs` `stimecmp`, `main.rs` 208–235 | `mtime`, `mtimecmp`, `stimecmp`, MTIP, STIP | the timer part of the poll, register writes | firmware (`mtimecmp`), kernel (`stimecmp`), hart (`mip`) |
| virtio-blk | `virtio_blk.rs` | registers, `last_avail_idx`, `irq_status`, the image file | register stores, `process_queue`, `do_request`, reset | driver (rings in RAM), host file, PLIC line |
| Bus | `bus.rs` | RAM and the devices | `load`, `store`; runs `process_queue` on QueueNotify | all devices |
| MMU and TLB | `cpu/mmu.rs` | 64 direct-mapped entries | `translate` (lookup, walk, A/D update, fill), `flush` | page tables in RAM, `satp`, SFENCE.VMA |
| JIT | `jit.rs` | `blocks`: compiled code by virtual pc | `get`, `compile` (at the first miss of a pc), `invalidate` (when the PPN of `satp` has changed), `len`; the memory callouts | run loop, MMU, RAM |
| Instruction semantics | `cpu/execute.rs` | integer and floating-point registers, LR/SC reservation | one arm per instruction | hart, bus |
| Decoder | `cpu/decode.rs` | none | pure | hart, JIT |
| Loader, device tree, command line | `loader.rs`, `dtb.rs`, `main.rs`, `build.rs` | none after boot | run once | bus |

What makes each correct, and what is hard to test about it:

* **Traps.** Whatever nests and wherever an interrupt falls, the interrupted
  context can be recovered and the return resumes it; MPRV stays in M-mode; the
  priority order lets no S-level interrupt overtake a machine-level one. Hard:
  the interleavings of two levels of handlers with interrupts at every
  instruction.
* **Interrupt path.** A device event is seen by its driver, though the line, the
  pending bit and SEIP are three copies of one fact taken at different times.
* **Timers.** A deadline is signalled, not before its time, and not lost between
  the poll, firmware and kernel, who all write the same bits.
* **Disk.** Requests are served in order and once; a failed one leaves only a
  prefix, with its last sector torn at most; completion interrupts are not lost; a
  reset quiets the device; indices wrap at 2^16 and slots at 256.
* **MMU.** A TLB entry that the guest has fenced agrees with the page table; A and
  D are recorded; the hardware's own writes change nothing else.
* **JIT.** A compiled block is code mapped at its address in the address space in
  use, and what a fetch there would give where the hart may fetch; it
  does to registers, memory and pc what the interpreter does; a fault in the
  middle of it neither repeats nor skips an instruction. Hard: the cache outlives
  traps, mode changes and edits of code and page tables, and each instruction is
  written twice more, once as a decoder of compressed code and once as x86-64.
* **UART output.** The two matchers on the TX stream drop, repeat and miss nothing
  though one withholds bytes and both start with ESC.
* **LR/SC.** No SC succeeds on a value replaced since its LR, though no store
  clears a reservation.
* **Decoder and arithmetic.** Every encoding means one instruction, a reserved word
  none but for a known list, and the immediates survive their scattering; divisions, word forms and AMOs at the
  boundaries of their widths; accesses across pages; views of CSRs.

`PROJECT.json` lists the hazards line by line, each with the properties that
cover it or the reason why none does yet.

## 2 Plan

The order puts first what every guest instruction depends on.

1. *Done.* `Trap`, `Hart`: the trap path. Theorems: type correctness, the
   recoverability of interrupted contexts, returns, MPRV, interrupt priority.
2. *Done.* `Plic`, `IrqPath`: poll, PLIC, UART input and the disk's line,
   handler. Theorems: arbitration, type correctness, no claim without work.
3. *Done.* `BlockService` (abstract), `VirtioBlk` (detailed, refines it).
   Theorems: type correctness, the refinement, completions signalled, reset quiet.
4. *Done.* `Timer`: poll frequency, `mtime`, both timer interfaces. Theorems:
   type correctness, `mtime` never ahead, deadlines signalled.
5. *Done.* `Mmu`: walk, TLB, A/D updates, SFENCE.VMA and satp against a guest
   that edits page tables. Theorems: type correctness, coherence, transparency.
6. *Done.* `Jit`: the run loop's choice between compiled block and `step`, with
   `satp`, mode changes, patched code, remapped pages and SFENCE.VMA. Theorems: type
   correctness, faithfulness of the cache, what a fetch would give, program order.
7. *Done.* `UartTx`: the matchers. `Reservation`: LR/SC with traps, switches and
   stores between. Theorems: the terminal sees everything, queries are answered, no
   update is lost.
8. *Done.* The pure algorithms over small widths: `Words`, `MulDiv`, `Interp`, `Emit`
   (instructions, interpreted and compiled), `Fp`, `FpIsa` (floating point), `Decode`,
   `DecodeRvc`, `EmitRvc`, `Isa` (encodings), `MemAccess`, `CsrFile`; `PlainUnits` and
   `Units` apply them to their inputs. Theorems, for `PlainUnits`: accesses,
   interpreted and compiled; CSR instructions; division and multiplication; AMOs;
   compiled integer instructions against interpreted ones; the decoder against the
   encoding.
9. *Done.* Ring ownership in `VirtioBlk` (`OwnedOnce`, `AllDrained`) and
   `SeipFresh`, as theorems.
10. *Open.* `DecodeExact` (which words are reserved and which of them are accepted) and
    floating point (`FpFollowsIsa`) as theorems; the debug counters of the UART; access to PLIC priorities by
    the guest.

Modules are written to be proved about: no recursive operators, invariants as
conjunctions of named parts, named assumptions on every constant.

## 3 Modules

Naming: an operator that translates a function keeps the function's name
(`deliver_trap`, `best_irq`, `do_request`); an action is named for the operation.
Each definition's lines are in `PROJECT.json` under `map`. Definitions commented
"Faulty variant of ..." are not part of any specification: each is a plausible
bug in the definition next to it, kept beside it because some property must
reject it.

### Trap, Hart

`Trap` holds the bit arithmetic of trap entry and return on a record of the
`mstatus` bits concerned, the choice of the interrupt and the delegation test.
`Hart` is the machine around it. Its actions are: an interrupt found by `step`
(`Interrupt`), an interrupt check by the run loop (`Poll`, which also moves the
bits of `mip` the loop drives), plain code (`Run`), exceptions and ECALL, MRET,
SRET, and one action per CSR write that matters.

* Actions of `step` require `Executing`: no interrupt was deliverable. `Run` does
  not, because a compiled block is entered without asking. CSR and system
  instructions never occur inside a compiled block (`jit.rs` ends a block before
  them) and a fault inside one is precise: the block sets `cpu.pc`, and the
  instruction is executed again by `step`. So those are actions of `step` only.
* The *guest discipline* is explicit: MRET is executed in M-mode and SRET in
  S-mode (the code does not check); the vectors are written before the first
  trap; firmware raises no exception and returns to the `mepc` it was given; the
  kernel saves `sepc` and `sstatus` before it may trap again, and restores them
  with SIE clear; it nests at most `Nest` deep.
* `sframes` and `mframe` are history variables: the contexts interrupted and not
  yet resumed. Properties compare the CSRs and the kernel's stack with them.

### Plic, IrqPath

`Plic` is the controller as operators on a record. `IrqPath` composes it with the
UART's receive side, the disk's interrupt status, `mip.SEIP`, the stdin thread
and channel, the poll, and the kernel's claim/serve/complete loop with one action
per register access, so that a poll can fall between any two. The disk appears
here only as the completion count and status bit; its rings are in `VirtioBlk`.
The device status report a host terminal sends back is not injected here, and
stdin is taken as ready from the start.

### BlockService, VirtioBlk

`BlockService` is the promise: a queue of requests, served in order, once each,
wholly or (when it fails) for a prefix of its buffers and at most a part of the next,
and handed back in that order; a reset forgets. `VirtioBlk` is the code: the two rings in guest memory
with wrapping indices, the registers that matter, `process_queue`, `do_request`
over a chain's data descriptors with host I/O that may fail at each, the
interrupt status, the driver's publishing and its interrupt handler.

* `process_queue` runs inside one store. It is split into one action per
  iteration, and `serving` keeps everything else from moving until it ends, so
  the split adds no behaviour.
* A host transfer fails before it begins or in the middle: the sector it was moving is
  then torn, `Partial`, in the buffer (a read) or in the image (a write), and the
  request reports the error. A part written beyond the end of the image counts as a
  whole sector; a failing disk may refuse to read it.
* Data buffers are one sector each and the image is whole sectors. Chains have at
  least a header and a status descriptor and at most the 16 the code collects.
* The driver resets the device before it sets the queue up again: a write of 0 to
  QueueReady alone does not reset `last_avail_idx`. The used ring's address is
  programmed before the queue is made ready.
* The refinement maps the service's queue to the entries of the available ring
  between `last_avail_idx` and `idx`, and its completions to the used entries the
  driver has not taken.

### Timer

An iteration of the run loop is a guest turn (`ran` becomes the ticks it counts)
and a loop turn (`Tick`, or `Poll` when the new tick is a multiple of `Period`).
A compiled block counts `SBlock` or `MBlock` ticks, an instruction of `step` one.
The kernel sets deadlines through `stimecmp` (Sstc), or through firmware, which
uses `mtimecmp`, MTIE and an injected STIP; each access is an action. `want` is
the deadline the kernel waits for: its handler, called early, keeps `want` and
sets the timer again. `Clint::tick` is never called and is left out.

### Mmu

Memory is the page-table pages, a word named by page and index; a virtual page
number is its three parts; offsets are left out. `Walk` is the loop of
`translate` unrolled for Sv39, the only paged mode `satp` accepts. `Hit` and
`Miss` are the two halves of `translate`, with permissions, A and D write-backs,
fills and the fault causes. `Access` applies `translate` to any of the guest's
requests: a fetch, load or store, an access under MPRV (its mode is the
request's), or the compiler fetching ahead. An access across a page boundary is
two of them.

The guest stores PTEs at any time, writes `satp`, and fences. Two history
variables say what it owes: `stale` becomes "edit" when it changes a *valid* PTE
or gives an address space another table, and "nothing" at SFENCE.VMA; `root` is
the table of each address space used since the fence. An edit of an invalid PTE
takes no fence, because the TLB caches no faults; that this is sound is part of
what `TlbCoherent` checks. A PTE's software bits (RSW and those above the page
number) are one value in `Soft`.

### Jit

One iteration of the loop is `Get` (`jit.get`), then the block's steps
(`RunCompiled`, `RunJump`, `BlockReturn`, `FaultReturn`) or `Step`, `CompileMissed`
after a miss, and `EndIteration` with the flush and the poll's trap. An instruction
is what the compiler tells apart: "alu", "load", "store", "jump", or left to `step`:
"sfence" and "slow". A block is the sequence found in memory when it was compiled, cut as
`compile` cuts it.

* A fetch sees what `check_perms` lets its mode see (`Regimes`): RAM in M-mode and
  without translation, the kernel's pages in S-mode and the user's too with SUM, the
  user's in U-mode. `compile` asks so in the mode of its call. `get` does not ask: a block
  found runs in whatever mode. SUM is left open; a page's U bit is fixed, and NoFrame
  stands for a page that is not executable as for one not mapped.
* The guest patches code and rewrites leaf PTEs by stores, inside blocks and
  outside; it changes `satp` and the mode. `stale` collects the addresses it changed
  behind the cache's back and is emptied by a flush: FENCE.I and SFENCE.VMA do not
  reach the cache (section 7), so `BlocksFaithful` is stated without them.
* `AddrAssumption` says that RAM's physical pages and the guest's virtual pages do
  not overlap. The code relies on it: neither the mode nor the root is in a block's
  key, and `compile` runs after the step, in the mode the step left.
* `due` and `astray` are history: where the program's order stands, and where an
  instruction retired out of it.

### Words, MulDiv, Interp, Emit

`MulDiv` is the M extension, `Interp` is the integer and AMO arms of `execute.rs`;
`Emit` is `jit.rs`'s code for the same instructions as a function on an abstract
x86-64: flags of a comparison, masked shifts, divisions that would raise #DE guarded
by the emitted tests, the order in which registers are read and written. `Words` has
the arithmetic of registers of `XLEN` bits with words of `WLEN`; AND, OR and XOR are
intersection, union and difference of the sets of one bits. Widths are scaled,
not the code: every branch of it tests a sign bit, a zero, an all-ones or the word's
half, which 8 and 4 bits have.

### Fp, FpIsa

`Fp` is the F and D arms of `execute.rs`: boxing, dispatch on funct7, rm and rs2, the
helpers for minimum, maximum and class, casts, fused operations, loads and stores,
`mstatus.FS`. A format is a width and a mantissa; a number is an integer in units of
the least double, so rounding is exact counting. Arithmetic itself is the host's:
one fused multiply-add, a division and a root, rounded to nearest. `FpIsa` does not
repeat it: it says how the results of different instructions fit together.
Which NaN arithmetic returns is not told apart, and which zero `f32::min` returns is
left open, as Rust does.

### Decode, DecodeRvc, EmitRvc, Isa

`Decode` and `DecodeRvc` are the decoders; `EmitRvc` is the second decoder of
compressed code, inside the compiler. `Isa` is the reference: how an instruction is
encoded, which immediates its format can hold, and which instruction, if any, a word
is an encoding of (`Meanings`). `AcceptedAs` in `Units` lists the reserved words that
the decoder does not refuse and what it takes them for. The `match` of the source on an opcode's `funct3` and `funct7` is a row of
operations in the order of `funct3`, in the decoder and in the reference, which have
their rows for themselves. A 32-bit word is a signed integer, as an `i32` is.

### MemAccess, CsrFile

`MemAccess` has loads, stores and fetches of one to eight bytes with their two
translations and the bytes that go through before the bus refuses one, next to the
callouts of compiled code. `CsrFile` has the six CSR instructions over the register
file, a value being the set of its one bits; `Hart` has what traps do to it.

### UartTx, Reservation

Two small machines. `UartTx` is every store to THR through both matchers; the
patterns are constants. `Reservation` is LR, SC and AMOADD of guest threads that
share counters through several virtual addresses, under a kernel that switches
between them at any instruction. Its discipline is the usual one: no access between
a thread's LR and SC, and an SC by the kernel on its way back to user code, which
spends the reservation whether it succeeds or not.

### PlainUnits, Units

`unit` picks an algorithm, which takes an input, returns, and takes the next.
`PlainUnits` has those with theorems: integer instructions interpreted and compiled,
AMOs, division and multiplication, accesses, CSR instructions, encoded instructions.
`Units` adds those that are only checked, words of any kind given to the decoders and
floating point, and the two machines, which run by their own next-state relations. So theorems are about the parts of `Units`
(`PlainSpec`, and `TxSpec` and `ResSpec` of the machines), and the run is about their
union, in which they share no variable but `unit` and `input`.

## 4 Runs

Passing runs, all exhaustive:

| run | module / cfg | what it shows | bounds |
|---|---|---|---|
| `hart` | `HartMC`, `Hart.cfg` | contexts survive, returns are exact, MPRV confined, machine-level interrupts first | `Nest` 2; one address of plain code; two exceptions besides ECALL; `mideleg` none or all S-level bits; `mie` none or {1, 7}; line 7 and injected bit 1 |
| `irq_path` | `IrqPathMC`, `IrqPath.cfg` | claims mean work, SEIP is fresh, completions are reaped, input is read | 2 bytes, 2 completions, 2 maskings |
| `virtio_blk` | `VirtioBlkMC`, `VirtioBlk.cfg` | refinement of `BlockService`, ownership, drain, completion interrupts, reset, progress | ring of 2, indices modulo 4, 2 heads, sectors of 3 values and the torn one, the requests of `MCRequest` |
| `timer` | `TimerMC`, `Timer.cfg` | mtime not ahead, deadlines signalled and served, both interfaces | period 4, blocks of 2 and 4, 2 clock units per tick, clock to 5, deadlines 1 and 2 |
| `mmu` | `MmuMC`, `Mmu.cfg` | TLB entries agree with the tables when no fence is owed; an access cannot tell a hit from a walk | two address spaces that share a table, 3 pages, 2 slots, tables of 2 entries; edits that unmap, remap, make global, make a superpage, aligned or not, and lead out of RAM |
| `jit` | `JitMC`, `Jit.cfg` | cached blocks are mapped code of the address space in use, and instructions retire in order | two RAM pages and two virtual pages of 2 instructions, one the kernel's and one the user's, two roots with the pages in either order and a hole, blocks up to 3 instructions, two initial programs, one edit of code or tables, four jump targets, a vector per mode |
| `algorithms` | `UnitsMC`, `Units.cfg` | interpreter, compiled code, decoders, accesses and CSR views agree with each other and with their references; floating-point results fit together; the TX matchers; LR/SC | 8-bit registers and 4-bit words: all first operands with 16 boundary values; doubles of 3 exponent and 4 mantissa bits, singles of 2 and 1, all with 15 others and 4 addends; all 49152 compressed words; all opcodes, funct3 and funct7, reserved ones included; every operation with 5 register numbers, and immediates with each bit alone, all and none; pages of 8 bytes, 2 virtual, 2 of RAM and one that is not; 5 bytes, 7 sent, a readiness target of 3; 2 threads, 3 addresses, 2 additions per counter |

Why these bounds are enough to meet the interesting cases. `hart`: two nested
S-level traps with an M-level one on top is every combination of levels the code
distinguishes; more nesting repeats the second; the vectors and the code address are
distinct, so a return to the wrong pc shows; interrupt 7 is machine-level and 1 is
delegated, so every branch of `check_interrupts` fires. The theorems remove the
bound on nesting, codes and delegations. `irq_path`: one event in service and one
arriving covers every overlap of two copies of a line; the third would find the same
bits set. `virtio_blk`: the slots wrap twice and the indices once within the state
space, and with two heads the ring is full, half full and empty. `mmu`: two of the
pages share a slot and two do not; the edits reach every branch of the walk and each
of its faults; an identifier is reused for another table, with and without a fence.
`jit`: blocks are cut by the limit, by a hole, by a jump and by a slow instruction,
and run over a page boundary into a frame that is a neighbour under one root and not
under the other; what a block becomes after its first edit does not depend on how
many follow, since each adds to `stale`, and the theorems remove the bound.
`algorithms`: see above for the widths; an access of 8 bytes at every offset of 2
pages meets every split; the formats have zeros, subnormals, normals and infinities
of both signs and NaNs, doubles of both kinds, integers out of range of either word,
and 240 of 256 registers do not hold a boxed single; 7 bytes hold a query after a
partial one, and both patterns overlapped; two threads and an alias are a preempted
LR and SC on the same counter through another address. `timer`: the period has three
residues a block stride can sit on, the clock passes both deadlines and stands
beyond.

Where the code really could stop, deadlock checking would say so; no run turns it
off.

Runs that are expected to find a violation: `small_queue`, `tick_stride`,
`stip_cancel`, `mtime_drift`, `pte_bits`; see section 7.

## 5 Fairness

* `IrqPath`: weak fairness of the poll. The run loop never blocks, and its tick
  reaches multiples of 1024 as long as the residue it sits on allows (see
  `tick_stride`: this is an assumption about guest code and is stated as one).
  Weak fairness of the handler: the hart executes instructions. The kernel ends
  its critical sections (weak: nothing can disable that while interrupts are off)
  and unmasks what it masked (strong: it may be interrupted again and again).
  `HandlerEnds` is a *premise* of the liveness properties: a host that types at
  every poll keeps the handler claiming, and the code promises nothing else.
* `VirtioBlk`: a driver notifies after it publishes (weak); the device's loop
  runs (weak; it is inside one store); the driver's handler proceeds (strong:
  between its steps other code may notify, in which case it is not enabled).
* `Timer`: time passes and the loop iterates (weak); code that has begun a timer
  operation finishes it, and the kernel re-enables interrupts (strong: both are
  interrupted and preempted by compiled blocks, which are also steps of the
  guest). `PollsRegularly` is a premise of `TimerServed`, because the code does
  not guarantee it.
* `Hart`, `Mmu`, `Jit` and `Units` have no liveness properties, so no fairness.

## 6 Proofs

All theorems are checked by TLAPS for every value of the constants that satisfies
the named assumptions of the modules. TLC checked each inductive invariant on the
run's instance first.

* **`Hart_proofs`.** `IInv` = `TypeOK`, `StackShape`, `LevelShape`,
  `TrapStateKept`, `MprvOnlyInMachine`. `TrapStateKept` is not inductive alone:
  the restore of a saved context re-creates the supervisor window from the
  kernel's stack, so the stack must be right (`StackShape`); and a trap from user
  mode must find every older context saved (`LevelShape`). The step lemma has one
  case per action, each split by conjunct. `ReturnRestores` then follows at MRET
  and SRET from the two windows. `MachineComesFirst` assumes
  `StandardDelegation`: `mideleg` is empty or all S-level interrupts, as firmware
  sets it. With an arbitrary delegation the scan order lets a delegated
  interrupt 9 be picked while a machine-level 1 or 5 is pending.
* **`IrqPath_proofs`.** `BestIrqIsBest` is a lemma about arbitration for any set
  of sources and priorities. `ClaimMeansWork` rests on `PendingMeansWork` (the
  disk's pending bit is backed by its status, except between acknowledgement and
  complete), which needs `ServingDisk`, `HandlerMasked` and `DriversOnly`.
  `SeipFresh` is inductive alone.
* **`VirtioBlk_proofs`.** `TypeCorrect`, from `TypeInv`: `TypeOK`, one buffer for each
  data descriptor of an outstanding request (`BufferSized`), and no interrupt or
  handler without a queue (`HandlerQuiet`). `CompletionSignalled` and `ResetQuiets`,
  for any ring size and any requests. `OwnedOnce` and `AllDrained` follow from
  `RingInv`: the entries waiting and those answered are counted by distances of
  wrapping indices (`Pending`, `Unreaped`), their heads are pairwise different
  (`Injective`), and they are the outstanding requests (`Covering`); `Counted` says
  that together they fit in the ring, which is why no slot is overwritten. The
  arithmetic (an index that wraps at `IdxMod` and a slot that wraps at a divisor of
  it) is a series of lemmas about remainders. `Refinement` is that the device
  implements `BlockService`: a publication appends to the service's queue, an
  iteration of `process_queue` serves its head, the handler's removal of a used entry
  removes its first completion, a reset forgets both, and every other step stutters.
  Lemmas about the sequence of entries between two wrapping indices (`EntriesAre` and
  those after it) say what each index's increment does to it. The loop over a
  request's descriptors is a recursive function, `Runs`; `Passed` is its invariant,
  how far it came, whether it stopped there and whether in the middle of a sector
  (`Tears`), and what it comes to, `Served`, is what the service allows: the effect of
  the request's first n sectors, all of them if it succeeds, and if it does not perhaps
  part of the next (`TornStep` and `TornBuf`, for the image and the buffers). The ring theorems and the refinement assume `FullQueue`, and
  `small_queue` shows that they need it.
* **`Timer_proofs`.** `IInv` = `TypeOK`, `NeverAhead`, `SetTimerReturns` and the
  shape of the interface in use. `NeverAhead` needs `mtime * Unit <= last`, an
  argument about integer division stated as a lemma. `DeadlineSignalled` follows
  from what the last poll left in `mip` together with where firmware stands in its
  two handlers.
* **`Mmu_proofs`.** The central lemma, `WalkKept`: a walk that ends at a leaf
  reads valid PTEs only, so it ends at the same leaf in every memory that keeps
  what the valid PTEs say, A and D apart. `Keeps` is therefore the one fact to show
  of each step: hits and misses only add A and D, edits that need no fence change
  invalid PTEs only. `IInv` adds `InUse` (the table in `satp` is the one the
  history has for its identifier), which a fill needs. `Coherence` follows, and from
  it `Transparency`, which compares `translate` with and without a TLB case by
  case; its premise `GlobalsShared` says that global pages are mapped alike in all
  address spaces. Both hold for any tables and any number of entries.
* **`Jit_proofs`.** `BlocksFaithful` needs `CacheInv`: the statement for every
  cached block and every regime at every point of the loop at which no flush is owed.
  Its three arguments are that an edit puts all it changes into `stale`
  (`WrittenKeeps`), that an address names the same frame in every regime that
  may fetch there (`OneFrame`: RAM and virtual pages do not overlap, by `AddrAssumption`,
  and the modes under one root differ in what they may fetch, not in where it is), and that a change of root requests a flush
  before the next `Get` and suppresses the compilation in between. `CacheServesFetches` draws the consequence
  for a hart in any mode: what it may fetch at a cached address is what the block has.
  What it may not fetch it can still run, see section 7. `InOrder` needs
  `OrderInv`, which says where the program's order stands at each point of the loop,
  between the instructions of a block in particular.
* **`Machines_proofs`, the transmit path.** `TxInv` says of each matcher that its
  state is the one proper prefix of its pattern that what was sent ends in (`Tracks`),
  of the terminal that it has what `Shown` defines, up to the bytes held back, which
  lie in no query (`HeldBack`), and `TxAnswered` of the answers. The matchers restart
  at 0 or 1 and never further back; that this misses nothing rests on the patterns'
  ESC being their first byte and no other (the assumption on the patterns, true of
  both in `uart.rs`). `Shown` is a recursive function; what it is for one more byte is
  proved by `Induct`, induction on the naturals with a set for the hypothesis, which
  follows from the well-foundedness of their order. For readiness sequences of any
  length.
* **`Machines_proofs`, the reservation.** `ResInv` = `ResTypeOK`, `OwnReservation`,
  `NoLostUpdate`. A reservation belongs to the thread that runs, stands between its LR
  and SC, and holds what memory holds; this is what the SC on the way out of the
  kernel keeps true.
* **`PlainUnits_proofs`.** The invariant is `OwnInput`: a unit has an input of its own
  or none. What remains are statements about all inputs.
  *Accesses*: `Split` puts byte k of an access where the translation of its own
  address puts it (`Splits`), the refusal falls on the first byte that cannot be had
  (`Outcome`), and no two bytes are in one place even when both pages share a frame
  (`BytesApart`), so the order in which a store writes does not matter. A callout's
  contiguous access is the same where it is not excepted (`Contiguous`), and the bus
  grants or refuses a page as a whole (`WholePages`). This is for any page size, any
  table, RAM of whole pages, and accesses no longer than a page.
  *CSRs*: `WritesOne`, `WritesNamed` and `WritesGuarded` follow the four kinds of
  write; register files may hold anything but the bits the code never stores
  (`ContentsAssumption`).
  *Division and multiplication*: `Truncates` is the division of the integers,
  `Fits` says that only the least number by -1 leaves the range, `SignedValue` and
  `SignedOf` that a word is its residue's number in the range, `UpperHalf` that the
  upper half of a product is one. For all operands of registers of 4 to 64 bits.
  *AMOs*: `BitKnown` says which bits `OfBits` puts into a word and `OfBitsOf` that a
  word is the sum of its bits, both by `Induct` on the number of bits; the low half of
  a result has the low bits of the operands (`AMO*.W` truncates before and after, and
  the theorem says it does not matter). Minimum and maximum go by the number a word
  spells at its own width.
  *Compiled instructions*: `InstructionsAgree` puts together one lemma for each group
  of instructions. The groups differ in what the emitter does: `MOVSXD` is the sign
  extension of the low word (`MovsxdExtends`), which it also is where the interpreter
  truncates operands before the operation (`MovsxdOfLow`); SF different from OF after
  CMP is signed less (`LessIsSigned`); the tests emitted before IDIV leave only
  divisions that do not raise #DE, with the interpreter's results (`IdivGives`); the
  emitter leaves out the alignment check of a target, and targets are even
  (`EvenTargets`); a load's callout extends as the interpreter does (`LoadedAlike`).
  Registers, including x0 as source and destination, are functions, and the two files
  after the instruction are equal, with the next pc. For all instructions, operands
  and pcs.
  `PowerAssumption` states what exponentiation is at the exponents up to the width
  (2^0 = 1 and 2^(k+1) = 2 * 2^k), because the prover computes no power as great as
  2^64.
  *The decoder*: `PackedFields` reads the fields of a packed word, whose sign is the
  upper bit of `funct7`; `ImmediateI` to `ImmediateJ` put the bits of each format's
  immediate together again, a number being the sum of its groups of bits; a lemma
  for each format (`DecodesR` to `DecodesU`) says that if the decoder builds an
  operation from the words with its opcode, `funct3` and `funct7`, it inverts the
  encoding; `RegRowsInvert` to `AmoRowsInvert` say that it does for the rows of the
  reference. `Inversion` is for all registers and for all immediates the format can
  hold (`EncodeAssumption` says only that they are numbers).

Not proved and why: liveness and `ENABLED` (not supported by the prover).
`DecodeExact` goes the other way, from a word of any kind, reserved or not, to what it
decodes to; TLC evaluates it for every opcode, `funct3` and `funct7`.
`RvcAgree` has no parameter to prove for: TLC evaluates it for every one of the 49152
compressed instructions. `FpFollowsIsa` is about rounding by exact counting, over
every number of the instance's formats.

## 7 Disagreements found

Each is shown by a run that checks one property and finds a counterexample.

* `small_queue` — `process_queue` computes ring slots modulo `QUEUE_SIZE`
  (`virtio_blk.rs:193`, `:200`), though `store` accepts a smaller queue. A
  published request is never served.
* `tick_stride` — the poll's condition `tick & 1023 == 0` (`main.rs:199`) can be
  stepped over for ever by compiled blocks that count 8 or 64 after `step` has
  moved `tick` off a multiple of 8.
* `stip_cancel` — a timer cancelled by writing all ones to `stimecmp` leaves STIP
  set (`main.rs:228`).
* `pte_bits` — a hit that sets D writes the PTE back from the TLB
  (`mmu.rs:90`) and so clears the software bits the guest keeps in it. The same
  write-back would bring back a PTE the guest has cleared and not yet fenced.
* `mtime_drift` — `last_clint_tick = now` (`main.rs:217`) drops the part of a tick
  gone by, at every poll that advances `mtime`.

Others were met while modelling. The properties are stated so that they hold of the
code as it is, and say where they stop:

* Compiled code and interpreter differ in four places. A callout translates once and
  hands the whole access to the bus, and `compile` fetches four contiguous bytes, so
  an access or instruction across a page boundary takes its second part from the next
  physical page; callouts ignore MPRV (`Excepted` in `MemAccess`). C.ADD with rd = x0
  is illegal in the interpreter and a no-op in a block (`ReservedHint`). A load of the
  value the callout uses for a fault (all ones) leaves the block and is repeated by
  `step` (`Sentinel`), which is harmless to RAM.
* `fence_i_pending` is never set (`main.rs:190`), so blocks go stale when a guest
  patches code, FENCE.I or not, until the PPN of `satp` changes.
* SFENCE.VMA flushes the TLB and not the blocks (`execute.rs:613-621`), though
  `jit.rs:719`, `cpu/mod.rs:52` and the design of the JIT say that it does.
  `cpu/mod.rs:546` tests that it does not, since permissions alone are supposed to
  change without `satp`; a page that the guest remaps and fences keeps the blocks of its
  former frame. `StepFence` in `Jit` is the code's version: it takes nothing out of
  `stale`.
* `get` (`jit.rs:715`) asks for no permission: a block compiled while S-mode could
  fetch its page is found and run in U-mode too, and after SUM or the page's permissions
  have changed. `BlocksFaithful` is silent about it by intent: it says that the
  instruction is mapped there, not that the hart's mode may fetch it.
* `jit.rs:731` says that a block has at most 64 instructions, the code 128.
* AMOs, LR and SC swallow bus errors: an AMO then reads 0 and stores nothing, and an
  SC whose store fails reports success. A reservation has no width, and an SC that
  page-faults keeps it.
* Floating point leaves the ISA where Rust's casts and helpers do: a NaN converts to
  0 instead of the greatest integer, FCVT.WU does not sign-extend its word
  (`execute.rs:433`), FMIN of +0 and -0 may return +0 (`:15`), FMIN and FMAX pass on
  the NaN they were given, FSGNJ.S reads registers that are not boxed (`:393`), the
  rounding mode is ignored and no flags are raised, and no instruction is illegal
  while FS is off. A comment says all rounding is to nearest (`:367`); conversions to
  integers truncate. `mod.rs:37` still says there is no arithmetic.
* The decoder executes reserved words: shifts with bits set above the amount, JALR with
  any `funct3`, LR with an `rs2`, LR, SC and AMOs of a width other than 2 and 3, though the comment
  at `decode.rs:337` says "funct3=2(W) or 3(D)".
  `AcceptedAs` in `Units` has them all, with what they are taken for, and `DecodeExact`
  says that there are no others.
* S-mode may fetch user pages while SUM is set (`mmu.rs`, `check_perms`).
* CSR accesses are not checked against the mode, but for TVM.
* `rx_drained` of the UART, a debug counter, does not count a last byte 0.

## 8 What is not modelled

* The host's floating-point arithmetic beyond rounding to nearest: NaN payloads,
  exception flags (which the code does not keep either).
* The bytes of the machine code, a block's call frame, and the assembler of
  `jit.rs`: `Emit` says what the emitted sequence does.
* Loader, device tree and command line: run once, keep no state.
* In modelled parts: identification and feature registers of virtio-blk, the
  UART's line control and scratch registers, its debug counters, the PLIC's M-mode
  context (used by no guest), the PLIC's priority registers after set-up,
  `Clint::tick`, the five-level walk (`satp` never holds Sv57), the bus's lookup of
  a device by address.
* `IrqPath.Poll` drains the stdin channel from the start; `stdin_ready`, which holds
  it back until the shell is up, is in `UartTx`.
* `Jit`: an instruction is one slot, so none lies across a page boundary; the four
  bytes `compile` reads there are in `MemAccess` (`CompiledFetch`). User programs write
  no `satp`, fence nothing and return from no trap, though the code would let them.
* Alignment: the code checks none.
