---------------------------------- MODULE Jit ----------------------------------
(***************************************************************************)
(* The block cache under the run loop with --jit: src/src/main.rs 156-196, *)
(* src/src/jit.rs (JitCache, the block prologue and exits), and the arms   *)
(* of execute.rs that request a flush.                                     *)
(*                                                                         *)
(* A block is the sequence of instructions found in memory when it was     *)
(* compiled, kept under its virtual start address.  Nothing of the address *)
(* space, of the mode or of the page's permissions is in the key, and only *)
(* a change of satp's PPN flushes; the module records in `stale' what the  *)
(* guest changed behind the cache's back and says what the cache still     *)
(* guarantees.  A block that is found runs, in whatever mode: what U-mode  *)
(* could not fetch it can nevertheless run once S-mode has had it compiled.*)
(***************************************************************************)
EXTENDS Integers, Sequences, FiniteSets

CONSTANTS
    Addr,       \* the addresses of instruction slots, a finite set of naturals
    Page,       \* Page[a]: the page an address lies in
    Off,        \* Off[a]: its offset in the page
    Frames,     \* page numbers of RAM: a bare fetch sees these pages only
    VPages,     \* page numbers the guest's page tables map
    UserPages,  \* those whose PTEs carry the U bit
    Roots,      \* page-table roots (the PPN field of satp)
    Root0,      \* the one in satp at reset
    NoFrame,    \* "not mapped", or not executable
    Images,     \* the code RAM may hold at the start
    Tables,     \* the page tables the guest may have set up
    Patches,    \* the instructions the guest may write over others
    Targets,    \* where it jumps and returns to
    Vectors,    \* trap vectors: pairs of a mode and an address
    MaxBlock,   \* compile's instruction limit (128 in the code)
    MaxWrites   \* TLC bound: writes of the guest to code or page tables

Modes   == {"M", "S", "U"}
Offsets == {Off[a] : a \in Addr}

\* What the compiler tells apart: straight-line code, an access that can
\* fault, a store, the end of a block, and what is left to the interpreter, of
\* which SFENCE.VMA is told apart.  FENCE and FENCE.I are compiled, to nothing.
Compiled == {"alu", "load", "store", "jump"}
Instr    == Compiled \cup {"sfence", "slow"}
Access   == {"load", "store"}

\* Firmware runs at physical addresses, and the kernel and its processes use
\* virtual addresses outside RAM's physical range; the code relies on it, since
\* a block of one would otherwise be found under the other's address.
ASSUME AddrAssumption ==
    /\ Addr \subseteq Nat
    /\ Page \in [Addr -> Frames \cup VPages]
    /\ Frames \cap VPages = {}
    /\ NoFrame \notin Frames
    /\ DOMAIN Off = Addr
ASSUME UserPagesAssumption == UserPages \subseteq VPages
ASSUME RootsAssumption == Root0 \in Roots
ASSUME ImagesAssumption == Images \subseteq [Frames -> [Offsets -> Instr]]
ASSUME TablesAssumption == Tables \subseteq [Roots -> [VPages -> Frames \cup {NoFrame}]]
ASSUME GuestAssumption == Patches \subseteq Instr /\ Targets \subseteq Addr
ASSUME VectorsAssumption  == Vectors \subseteq Modes \X Addr
ASSUME MaxBlockAssumption == MaxBlock \in Nat \ {0}
ASSUME MaxWritesAssumption == MaxWrites \in Nat

VARIABLES
    loop,     \* where the run loop is
    pc,       \* cpu.pc
    mode,     \* cpu.mode
    satp,     \* cpu.csr.satp: translation mode and root
    mem,      \* the code in RAM, frame by frame
    maps,     \* the guest's page tables, one per root
    blocks,   \* JitCache.blocks
    blk,      \* the running block and how many of its instructions are done
    missed,   \* the pc the loop looked up in vain
    jitInvalidate, \* cpu.jit_invalidate
    \* history
    due,      \* the address the program's order says comes next
    astray,   \* addresses at which another instruction retired than the one due
    stale,    \* addresses whose code or mapping changed since the last flush
    writes    \* how many such changes were made (TLC bound)

edits == <<mem, maps, stale, writes>>
guest == <<mode, satp, jitInvalidate, edits>>
vars == <<loop, pc, blocks, blk, missed, due, astray, guest>>

--------------------------------------------------------------------------------
(* Fetching.  M-mode and satp.MODE = 0 see RAM directly (mmu.rs 56-64);    *)
(* otherwise check_perms asks for the U bit in U-mode, and for its absence *)
(* in S-mode unless SUM is set (168-177).  SUM is left open.               *)

Regimes == {"bare", "S", "SUM", "U"}

InForce(md, sm) ==
    CASE md = "M" \/ sm = "bare" -> {"bare"}
      [] md = "S" /\ sm # "bare" -> {"S", "SUM"}
      [] md = "U" /\ sm # "bare" -> {"U"}

\* The pages a regime may fetch from.
Visible(rg) ==
    CASE rg = "bare" -> Frames
      [] rg = "S"    -> VPages \ UserPages
      [] rg = "SUM"  -> VPages
      [] rg = "U"    -> UserPages

\* The frame address a names in a regime under root r, NoFrame for a fault or
\* a bus error.
FrameOf(rg, r, mp, a) ==
    IF a \notin Addr \/ Page[a] \notin Visible(rg) THEN NoFrame
    ELSE IF rg = "bare" THEN Page[a] ELSE mp[r][Page[a]]

CanFetch(rg, a) == FrameOf(rg, satp.root, maps, a) # NoFrame
Code(rg, a)     == mem[FrameOf(rg, satp.root, maps, a)][Off[a]]

\* compile (jit.rs 729-1528) in the regime of the moment it is called: from p
\* on, as far as code can be fetched and is compiled, through the first jump,
\* and no more than MaxBlock instructions.
Compilable(rg, p, n) ==
    \A i \in 0..(n - 1) :
        /\ CanFetch(rg, p + i)
        /\ Code(rg, p + i) \in Compiled
        /\ i < n - 1 => Code(rg, p + i) # "jump"

BlockLength(rg, p, n) ==
    /\ n \in 0..MaxBlock
    /\ Compilable(rg, p, n)
    /\ n < MaxBlock => ~Compilable(rg, p, n + 1)

--------------------------------------------------------------------------------
NoBlk == [start |-> 0, done |-> 0]              \* between blocks

Init ==
    /\ loop = "top" /\ blocks = [a \in {} |-> <<>>]
    /\ mode = "M" /\ \E v \in Vectors : v[1] = "M" /\ pc = v[2]
    /\ satp = [mode |-> "bare", root |-> Root0]
    /\ mem \in Images /\ maps \in Tables
    /\ blk = NoBlk /\ missed = 0
    /\ jitInvalidate = 0
    /\ due = pc /\ astray = {} /\ stale = {} /\ writes = 0

\* An instruction retired at a, and the program goes on at t.
Retire(a, t) ==
    /\ due' = t
    /\ astray' = IF a = due THEN astray ELSE astray \cup {a}

\* What a store or an AMO does to code: nothing, a patched instruction, or a
\* rewritten leaf PTE.  FENCE.I and SFENCE.VMA, which the guest issues next, do
\* not reach the cache (fence_i_pending is never set; SfenceVma flushes the TLB
\* alone, execute.rs 613-621).
Reaching(f, o) ==
    {a \in Addr : /\ Off[a] = o
                  /\ \E rg \in Regimes : FrameOf(rg, satp.root, maps, a) = f}

Patch ==
    /\ writes < MaxWrites
    /\ \E f \in Frames, o \in Offsets, i \in Patches :
          /\ mem' = [mem EXCEPT ![f] = [@ EXCEPT ![o] = i]]
          /\ stale' = stale \cup Reaching(f, o)
    /\ writes' = writes + 1
    /\ UNCHANGED maps

Remap ==
    /\ writes < MaxWrites
    /\ \E r \in Roots, v \in VPages, f \in Frames \cup {NoFrame} :
          /\ maps' = [maps EXCEPT ![r] = [@ EXCEPT ![v] = f]]
          /\ stale' = IF r = satp.root THEN stale \cup {a \in Addr : Page[a] = v} ELSE stale
    /\ writes' = writes + 1
    /\ UNCHANGED mem

Written == Patch \/ Remap \/ UNCHANGED edits

--------------------------------------------------------------------------------
(* The loop: jit.get (main.rs 156) finds a block or not.                   *)

Get ==
    /\ loop = "top"
    /\ IF pc \in DOMAIN blocks
       THEN /\ loop' = "block"
            /\ blk' = [start |-> pc, done |-> 0]
            /\ UNCHANGED missed
       ELSE /\ loop' = "miss"
            /\ missed' = pc
            /\ UNCHANGED blk
    /\ UNCHANGED <<pc, blocks, due, astray>> /\ UNCHANGED guest

Here == blk.start + blk.done                   \* guest_pc of the next instruction
More == blk.done < Len(blocks[blk.start])
Next1 == blocks[blk.start][blk.done + 1]

\* A compiled instruction other than a jump; cpu.pc does not move.
RunCompiled ==
    /\ loop = "block" /\ More
    /\ Next1 \in {"alu", "load", "store"}
    /\ blk' = [blk EXCEPT !.done = @ + 1]
    /\ Retire(Here, Here + 1)
    /\ IF Next1 = "store" THEN Written ELSE UNCHANGED edits
    /\ UNCHANGED <<loop, pc, mode, satp, blocks, missed, jitInvalidate>>

\* A jump or branch ends the block and returns its target.
RunJump ==
    /\ loop = "block" /\ More /\ Next1 = "jump"
    /\ \E t \in Targets : pc' = t /\ Retire(Here, t)
    /\ loop' = "end" /\ blk' = NoBlk
    /\ UNCHANGED <<blocks, missed>> /\ UNCHANGED guest

\* The block was cut before an unhandled instruction, an unmapped page or at
\* the limit: emit_return(guest_pc).
BlockReturn ==
    /\ loop = "block" /\ ~More
    /\ pc' = Here
    /\ loop' = "end" /\ blk' = NoBlk
    /\ UNCHANGED <<blocks, missed, due, astray>> /\ UNCHANGED guest

\* Faulty variant of FaultReturn: the address of the block is written.
FaultReturn_start ==
    /\ loop = "block" /\ More /\ Next1 \in Access
    /\ pc' = blk.start
    /\ loop' = "again" /\ blk' = NoBlk
    /\ UNCHANGED <<blocks, missed, due, astray>> /\ UNCHANGED guest

\* A callout answered u64::MAX: emit_fault_return writes the instruction's own
\* address to cpu.pc, and the loop steps it (main.rs 160-162).
FaultReturn ==
    /\ loop = "block" /\ More /\ Next1 \in Access
    /\ pc' = Here
    /\ loop' = "again" /\ blk' = NoBlk
    /\ UNCHANGED <<blocks, missed, due, astray>> /\ UNCHANGED guest

--------------------------------------------------------------------------------
(* Cpu::step, at pc p in mode m: p is cpu.pc, or a vector when step took   *)
(* an interrupt first.                                                     *)

Traps(m) == {v \in Vectors : v[1] = "S" => m \in {"S", "U"}}

StepTrap(m) ==
    \E v \in Traps(m) :
        /\ mode' = v[1] /\ pc' = v[2] /\ due' = v[2]
        /\ UNCHANGED <<satp, jitInvalidate, edits, astray>>

\* Retire at p in mode m with the next pc t; e is where the program stood.
StepTo(p, e, t) ==
    /\ pc' = t /\ due' = t
    /\ astray' = IF p = e THEN astray ELSE astray \cup {p}

StepPlain(p, e, m) ==
    /\ StepTo(p, e, p + 1) /\ mode' = m
    /\ Written
    /\ UNCHANGED <<satp, jitInvalidate>>

StepJump(p, e, m) ==
    /\ \E t \in Targets : StepTo(p, e, t)
    /\ mode' = m
    /\ UNCHANGED <<satp, jitInvalidate, edits>>

\* SFENCE.VMA: the TLB is flushed, which no block depends on, and nothing else.
StepFence(p, e, m) ==
    /\ StepTo(p, e, p + 1) /\ mode' = m
    /\ UNCHANGED <<satp, jitInvalidate, edits>>

\* csrrw satp: a flush is requested when the PPN changes, and only then.
StepSatp(p, e, m) ==
    /\ StepTo(p, e, p + 1) /\ mode' = m
    /\ \E sm \in {"bare", "sv39"}, r \in Roots :
          /\ satp' = [mode |-> sm, root |-> r]
          /\ jitInvalidate' = IF r # satp.root THEN 1 ELSE jitInvalidate
    /\ UNCHANGED edits

\* mret and sret.
StepReturn(p, e, m) ==
    /\ \E t \in Targets : StepTo(p, e, t)
    /\ mode' \in (IF m = "M" THEN Modes ELSE {"S", "U"})
    /\ UNCHANGED <<satp, jitInvalidate, edits>>

\* User programs write no satp, fence nothing and return from no trap (the code
\* does not keep them from it).
StepFrom(p, e, m) ==
    \E rg \in InForce(m, satp.mode) :
        \/ ~CanFetch(rg, p) /\ StepTrap(m)
        \/ /\ CanFetch(rg, p)
           /\ \/ Code(rg, p) \in {"alu", "load", "store", "slow"} /\ StepPlain(p, e, m)
              \/ Code(rg, p) \in Access \cup {"sfence", "slow"} /\ StepTrap(m)
              \/ Code(rg, p) = "jump" /\ StepJump(p, e, m)
              \/ Code(rg, p) = "sfence" /\ m # "U" /\ StepFence(p, e, m)
              \/ /\ Code(rg, p) = "slow" /\ m # "U"
                 /\ StepSatp(p, e, m) \/ StepReturn(p, e, m)

Step ==
    /\ loop \in {"miss", "again"}
    /\ \/ StepFrom(pc, due, mode)
       \/ \E v \in Traps(mode) : StepFrom(v[2], v[2], v[1])
    /\ loop' = IF loop = "miss" THEN "compile" ELSE "end"
    /\ UNCHANGED <<blocks, blk, missed>>

\* The cache with the first n instructions from p on; empty blocks are not kept.
NewBlock(rg, p, n) ==
    [a \in DOMAIN blocks \cup {p} |->
        IF a = p THEN [i \in 1..n |-> Code(rg, p + i - 1)] ELSE blocks[a]]

\* Faulty variant of Cached: an empty block is cached, and found for ever.
Cached_empty(rg, p, n) == NewBlock(rg, p, n)
Cached(rg, p, n) == IF n = 0 THEN blocks ELSE NewBlock(rg, p, n)

\* main.rs 171-173: the block at the pc that missed, compiled after the step and
\* so in the mode and address space the step left.
CompileMissed ==
    /\ loop = "compile"
    /\ IF jitInvalidate = 1 THEN UNCHANGED blocks
       ELSE \E rg \in InForce(mode, satp.mode), n \in 0..MaxBlock :
              /\ BlockLength(rg, missed, n)
              /\ blocks' = Cached(rg, missed, n)
    /\ loop' = "end" /\ missed' = 0
    /\ UNCHANGED <<pc, blk, due, astray>> /\ UNCHANGED guest

\* Faulty variant of FlushPending: the request is withdrawn, the blocks stay.
FlushPending_lost ==
    IF jitInvalidate = 1
    THEN UNCHANGED blocks /\ stale' = {} /\ jitInvalidate' = 0
    ELSE UNCHANGED <<blocks, stale, jitInvalidate>>

\* main.rs 180-183.  (Line 190's flush for fence_i_pending never comes.)
FlushPending ==
    IF jitInvalidate = 1
    THEN blocks' = [a \in {} |-> <<>>] /\ stale' = {} /\ jitInvalidate' = 0
    ELSE UNCHANGED <<blocks, stale, jitInvalidate>>

\* The end of the pass; at a poll check_interrupts may take a trap (main.rs 245-249).
EndIteration ==
    /\ loop = "end" /\ loop' = "top"
    /\ FlushPending
    /\ \/ UNCHANGED <<pc, mode, due>>
       \/ \E v \in Traps(mode) : mode' = v[1] /\ pc' = v[2] /\ due' = v[2]
    /\ UNCHANGED <<satp, mem, maps, blk, missed, astray, writes>>

Next ==
    \/ Get \/ RunCompiled \/ RunJump \/ BlockReturn \/ FaultReturn
    \/ Step \/ CompileMissed \/ EndIteration

Spec == Init /\ [][Next]_vars

--------------------------------------------------------------------------------
(* Properties.                                                             *)

Locations == {"top", "block", "miss", "again", "compile", "end"}

TypeOK ==
    /\ loop \in Locations
    /\ pc \in Nat /\ missed \in Nat /\ due \in Nat
    /\ mode \in Modes
    /\ satp \in [mode : {"bare", "sv39"}, root : Roots]
    /\ mem \in [Frames -> [Offsets -> Instr]]
    /\ maps \in [Roots -> [VPages -> Frames \cup {NoFrame}]]
    /\ blocks \in [DOMAIN blocks -> Seq(Compiled)] /\ DOMAIN blocks \subseteq Nat
    /\ \A a \in DOMAIN blocks : Len(blocks[a]) \in 1..MaxBlock
    /\ blk \in [start : Nat, done : Nat]
    /\ jitInvalidate \in {0, 1}
    /\ astray \subseteq Nat /\ stale \subseteq Addr
    /\ writes \in 0..MaxWrites

\* Instruction i of the block at s is one that can be fetched at its address, in
\* some regime of the address space in use.
InPlace(s, i) ==
    \E rg \in Regimes : CanFetch(rg, s + i - 1) /\ blocks[s][i] = Code(rg, s + i - 1)

\* Although the key has neither the root nor the mode in it, and blocks are compiled
\* in the mode and address space the step left, every cached block is code of the
\* address space in use, mapped there and unchanged, except where the guest has
\* patched it or remapped its page since the last flush, with SFENCE.VMA or without
\* (jit.rs 715-722, main.rs 168-183, execute.rs 613-621).  That the hart, in its mode, may fetch it is not promised: jit.get
\* does not ask.
BlocksFaithful ==
    loop \in {"top", "block", "miss", "again"} =>
        \A s \in DOMAIN blocks : \A i \in 1..Len(blocks[s]) :
            s + i - 1 \notin stale => InPlace(s, i)

\* Blocks, cuts, callout faults and interrupts retire the program's instructions
\* in the program's order, each once: after a fault in the middle of a block the
\* step resumes at the access itself, neither at the start of the block nor past
\* it (jit.rs 570-586, main.rs 156-183).
InOrder ==
    /\ astray = {}
    /\ loop \in {"top", "miss", "again"} => pc = due
================================================================================
