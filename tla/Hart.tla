-------------------------------- MODULE Hart --------------------------------
(***************************************************************************)
(* One hart of the emulator as its traps see it: Cpu::deliver_trap,        *)
(* Cpu::check_interrupts and Cpu::step of src/src/cpu/mod.rs, the MRET,    *)
(* SRET and CSR arms of src/src/cpu/execute.rs, the CSR file of            *)
(* src/src/cpu/csr.rs, and the two ways src/src/main.rs runs guest code:   *)
(* the interpreter, which asks for interrupts before every instruction,    *)
(* and compiled blocks, which do not ask until the run loop polls.         *)
(*                                                                         *)
(* The guest is two levels of software.  Firmware runs in M-mode: it boots *)
(* once, then handles M-level traps with interrupts masked and takes no    *)
(* exception.  A kernel runs in S-mode: its handler saves sepc and         *)
(* sstatus to memory before it may trap again, and writes them back before *)
(* SRET.  Both are external code; what they store in CSRs and read back    *)
(* goes through the modelled instructions.                                 *)
(*                                                                         *)
(* sframes and mframe are history: the contexts that S-level and M-level   *)
(* traps interrupted and that have not been resumed yet.  kstack is guest  *)
(* memory: what the kernel's handlers saved.                               *)
(***************************************************************************)
EXTENDS Trap, SequencesExt

CONSTANTS
  Code,        \* addresses guest code runs at outside the trap vectors
  MTvec,       \* mtvec, as firmware wrote it before the first trap
  STvec,       \* stvec, likewise
  Exceptions,  \* codes of the exceptions instructions may raise (ECALL apart)
  Delegations, \* values firmware gives mideleg
  MEnables,    \* values firmware gives mie
  ExcDelegations, \* values firmware gives medeleg
  Lines,       \* bits of mip the run loop drives (of 5, 7, 9)
  Injected,    \* bits of mip firmware drives by csrw mip (of 1, 5)
  Nest,        \* how many S-level traps the kernel lets nest
  NoFrame      \* no M-level trap is being handled

ASSUME CodeAssumption == Code \subseteq Nat /\ Code # {}
ASSUME TvecAssumption == MTvec \in Tvec /\ STvec \in Tvec
ASSUME ExceptionsAssumption == Exceptions \subseteq Nat
ASSUME DelegationsAssumption == \A d \in Delegations : d \subseteq Irq
ASSUME MEnablesAssumption == \A e \in MEnables : e \subseteq Irq
ASSUME ExcDelegationsAssumption == \A d \in ExcDelegations : d \subseteq Nat
ASSUME LinesAssumption == Lines \subseteq {5, 7, 9} /\ Injected \subseteq {1, 5}
ASSUME NestAssumption == Nest \in Nat \ {0}

\* A context a trap interrupts: its mode, its pc and the interrupt enable
\* bit of the level that takes the trap.
Frame == [mode : PrivMode, pc : Nat, ie : Bit]
ASSUME NoFrameAssumption == NoFrame \notin Frame

\* What the kernel's entry code saves: sepc, sstatus.SPP, sstatus.SPIE.
Saved == [epc : Nat, spp : Bit, spie : Bit]

VARIABLES
  mode,     \* Cpu.mode
  pc,       \* Cpu.pc
  mstatus,  \* Csr.mstatus
  mip,      \* Csr.mip
  mie,      \* Csr.mie
  mideleg,  \* Csr.mideleg
  medeleg,  \* Csr.medeleg
  mepc,     \* Csr.mepc
  sepc,     \* Csr.sepc
  mcause,   \* Csr.mcause
  scause,   \* Csr.scause
  kstack,   \* guest memory: contexts the kernel saved, oldest first
  sframes,  \* history: contexts interrupted by S-level traps, oldest first
  mframe    \* history: the context an M-level trap interrupted, or NoFrame

csrs == <<mip, mie, mideleg, medeleg>>
traps == <<mepc, sepc, mcause, scause>>
frames == <<sframes, mframe>>
vars == <<mode, pc, mstatus, csrs, traps, kstack, frames>>

TypeOK ==
  /\ mode \in PrivMode
  /\ pc \in Nat
  /\ mstatus \in MStatus
  /\ mip \in SUBSET Irq
  /\ mie \in SUBSET Irq
  /\ mideleg \in SUBSET Irq
  /\ medeleg \in SUBSET Nat
  /\ mepc \in Nat /\ sepc \in Nat
  /\ mcause \in Cause /\ scause \in Cause
  /\ kstack \in Seq(Saved)
  /\ sframes \in Seq(Frame)
  /\ mframe \in Frame \cup {NoFrame}

\* Cpu::new and Csr::new.
Init ==
  /\ mode = M
  /\ pc \in Code
  /\ mstatus = [MIE |-> 0, MPIE |-> 0, MPP |-> U, SIE |-> 0, SPIE |-> 0,
                SPP |-> 0, MPRV |-> 0, TSR |-> 0]
  /\ mip = {} /\ mie = {} /\ mideleg = {} /\ medeleg = {}
  /\ mepc = 0 /\ sepc = 0
  /\ mcause = [interrupt |-> FALSE, code |-> 0]
  /\ scause = [interrupt |-> FALSE, code |-> 0]
  /\ kstack = <<>> /\ sframes = <<>> /\ mframe = NoFrame

-----------------------------------------------------------------------------
(* The trap path.                                                          *)

\* Cpu::deliver_trap, with the history of what it interrupts.
deliver_trap(cause) ==
  IF Delegated(cause, mode, medeleg, mideleg)
  THEN /\ mstatus' = s_trap_entry(mstatus, mode = S)
       /\ sepc' = pc
       /\ scause' = cause
       /\ pc' = trap_pc(STvec, cause)
       /\ mode' = S
       /\ sframes' = Append(sframes, [mode |-> mode, pc |-> pc, ie |-> mstatus.SIE])
       /\ UNCHANGED <<mepc, mcause, mframe>>
  ELSE /\ mstatus' = trap_entry(mstatus, mode)
       /\ mepc' = pc
       /\ mcause' = cause
       /\ pc' = trap_pc(MTvec, cause)
       /\ mode' = M
       /\ mframe' = [mode |-> mode, pc |-> pc, ie |-> mstatus.MIE]
       /\ UNCHANGED <<sepc, scause, sframes>>

\* The interrupts check_interrupts may deliver when mip is `ip`.
FiringNow(ip) == Firing(mode, mstatus, ip, mie, mideleg)

\* Cpu::check_interrupts delivering one.
TakeInterrupt(ip) ==
  deliver_trap([interrupt |-> TRUE, code |-> Chosen(FiringNow(ip))])

\* step() starts with check_interrupts and returns when one was delivered.
Interrupt ==
  /\ FiringNow(mip) # {}
  /\ TakeInterrupt(mip)
  /\ UNCHANGED <<csrs, kstack>>

\* An instruction of step() runs only when no interrupt was delivered.
Executing == FiringNow(mip) = {}

\* The run loop's poll: the timers and the PLIC set or clear their bits of
\* mip, then check_interrupts runs at once.
Poll ==
  \E high \in SUBSET Lines :
    LET ip == (mip \ Lines) \cup high
    IN  /\ mip' = ip
        /\ IF FiringNow(ip) # {}
           THEN TakeInterrupt(ip)
           ELSE UNCHANGED <<mode, pc, mstatus, traps, frames>>
        /\ UNCHANGED <<mie, mideleg, medeleg, kstack>>

-----------------------------------------------------------------------------
(* Guest code.                                                             *)

\* Plain code: control moves on, by one instruction of step() or by a
\* compiled block that no interrupt check precedes.
Run == /\ pc' \in Code
       /\ UNCHANGED <<mode, mstatus, csrs, traps, kstack, frames>>

\* Discipline: firmware raises no exception, the kernel none before it has
\* saved the trap it is handling or while nesting is at its limit.
MayTrap(cause) ==
  /\ mode # M
  /\ mode = S /\ Delegated(cause, mode, medeleg, mideleg)
       => Len(kstack) = Len(sframes) /\ Len(sframes) < Nest

\* An instruction that faults: decode failure, page fault, access fault.
Exception ==
  /\ Executing
  /\ \E c \in Exceptions :
       LET cause == [interrupt |-> FALSE, code |-> c]
       IN  MayTrap(cause) /\ deliver_trap(cause)
  /\ UNCHANGED <<csrs, kstack>>

\* ECALL: cause 8 from U, 9 from S.
Ecall ==
  /\ Executing
  /\ LET cause == [interrupt |-> FALSE, code |-> 8 + mode]
     IN  MayTrap(cause) /\ deliver_trap(cause)
  /\ UNCHANGED <<csrs, kstack>>

\* MRET; from here on the context of mframe runs again.
Mret ==
  /\ Executing
  /\ mode = M
  /\ mode' = mstatus.MPP
  /\ mstatus' = mret(mstatus)
  /\ pc' = mepc
  /\ mframe' = NoFrame
  /\ UNCHANGED <<csrs, traps, kstack, sframes>>

\* SRET.  With TSR set it is an illegal instruction instead.  The kernel
\* runs it when the newest trap's state is in the CSRs, or to start a context.
Sret ==
  /\ Executing
  /\ mode = S
  /\ sframes # <<>> => Len(kstack) = Len(sframes) - 1
  /\ IF mstatus.TSR = 1
     THEN /\ 2 \notin medeleg
          /\ deliver_trap([interrupt |-> FALSE, code |-> 2])
     ELSE /\ mode' = (IF mstatus.SPP = 1 THEN S ELSE U)
          /\ mstatus' = s_ret(mstatus)
          /\ pc' = sepc
          /\ sframes' = IF sframes = <<>> THEN <<>>
                        ELSE Front(sframes)
          /\ UNCHANGED <<traps, mframe>>
  /\ UNCHANGED <<csrs, kstack>>

-----------------------------------------------------------------------------
(* CSR writes of firmware.                                                 *)

\* Boot: no trap is being handled, so M-mode state may be set up at will.
Booting == mode = M /\ mframe = NoFrame

\* csrw mideleg, medeleg and mie.
WriteDelegation ==
  /\ Executing /\ Booting
  /\ mideleg' \in Delegations
  /\ medeleg' \in ExcDelegations
  /\ UNCHANGED <<mode, pc, mstatus, mip, mie, traps, kstack, frames>>

WriteMie ==
  /\ Executing /\ mode = M
  /\ mie' \in MEnables
  /\ UNCHANGED <<mode, pc, mstatus, mip, mideleg, medeleg, traps, kstack, frames>>

\* csrw mip: every bit is writable from M-mode; firmware injects 1 and 5.
WriteMip ==
  /\ Executing /\ mode = M
  /\ \E i \in Injected : mip' = mip \cup {i} \/ mip' = mip \ {i}
  /\ UNCHANGED <<mode, pc, mstatus, mie, mideleg, medeleg, traps, kstack, frames>>

\* Boot code prepares the context its MRET starts.
WriteBootContext ==
  /\ Executing /\ Booting
  /\ mepc' \in Code
  /\ \E mpp \in PrivMode, mpie \in Bit, tsr \in Bit :
       mstatus' = [mstatus EXCEPT !.MPP = mpp, !.MPIE = mpie, !.TSR = tsr]
  /\ UNCHANGED <<mode, pc, csrs, sepc, mcause, scause, kstack, frames>>

\* Boot code takes its own interrupts (M to M) when it sets MIE.
WriteMIE ==
  /\ Executing /\ Booting
  /\ \E b \in Bit : mstatus' = [mstatus EXCEPT !.MIE = b]
  /\ UNCHANGED <<mode, pc, csrs, traps, kstack, frames>>

\* Firmware sets MPRV to read the interrupted context's memory.
WriteMPRV ==
  /\ Executing /\ mode = M
  /\ \E b \in Bit : mstatus' = [mstatus EXCEPT !.MPRV = b]
  /\ UNCHANGED <<mode, pc, csrs, traps, kstack, frames>>

-----------------------------------------------------------------------------
(* CSR accesses of the kernel.                                             *)

\* Every S-level trap taken so far has its state in memory.
AllSaved == Len(kstack) = Len(sframes)

\* csrr sepc, sstatus: the handler saves the newest trap.
SaveContext ==
  /\ Executing /\ mode = S
  /\ Len(kstack) < Len(sframes)
  /\ kstack' = Append(kstack, [epc |-> sepc, spp |-> mstatus.SPP, spie |-> mstatus.SPIE])
  /\ UNCHANGED <<mode, pc, mstatus, csrs, traps, frames>>

\* csrs/csrc sstatus, SIE: only once the newest trap is saved and while the
\* kernel stack has room for another.
WriteSIE ==
  /\ Executing /\ mode = S
  /\ AllSaved
  /\ \E b \in Bit : /\ b = 1 => Len(sframes) < Nest
                    /\ mstatus' = [mstatus EXCEPT !.SIE = b]
  /\ UNCHANGED <<mode, pc, csrs, traps, kstack, frames>>

\* csrw sepc, sstatus: the handler puts the saved state back, SIE clear.
RestoreContext ==
  /\ Executing /\ mode = S
  /\ AllSaved /\ kstack # <<>>
  /\ mstatus.SIE = 0
  /\ LET top == Last(kstack)
     IN  /\ sepc' = top.epc
         /\ mstatus' = [mstatus EXCEPT !.SPP = top.spp, !.SPIE = top.spie]
  /\ kstack' = Front(kstack)
  /\ UNCHANGED <<mode, pc, csrs, mepc, mcause, scause, frames>>

\* csrw sepc, sstatus: the kernel prepares the first user context.
WriteUserContext ==
  /\ Executing /\ mode = S
  /\ sframes = <<>>
  /\ mstatus.SIE = 0
  /\ sepc' \in Code
  /\ \E spp \in Bit, spie \in Bit :
       mstatus' = [mstatus EXCEPT !.SPP = spp, !.SPIE = spie]
  /\ UNCHANGED <<mode, pc, csrs, mepc, mcause, scause, kstack, frames>>

\* csrs/csrc sip: only SSIP is writable through sip.
WriteSip ==
  /\ Executing /\ mode = S
  /\ mip' = mip \cup {1} \/ mip' = mip \ {1}
  /\ UNCHANGED <<mode, pc, mstatus, mie, mideleg, medeleg, traps, kstack, frames>>

\* csrw sie: the bits of SMask only.
WriteSie ==
  /\ Executing /\ mode = S
  /\ \E e \in MEnables : mie' = (mie \ SMask) \cup (e \cap SMask)
  /\ UNCHANGED <<mode, pc, mstatus, mip, mideleg, medeleg, traps, kstack, frames>>

Next ==
  \/ Interrupt \/ Poll \/ Run \/ Exception \/ Ecall \/ Mret \/ Sret
  \/ WriteDelegation \/ WriteMie \/ WriteMip \/ WriteBootContext
  \/ WriteMIE \/ WriteMPRV
  \/ SaveContext \/ WriteSIE \/ RestoreContext \/ WriteUserContext
  \/ WriteSip \/ WriteSie

Spec == Init /\ [][Next]_vars

-----------------------------------------------------------------------------
(* Properties.                                                             *)

\* The context a saved record or the S-level CSRs stand for is frame f.
Holds(f, epc, spp, spie) ==
  /\ epc = f.pc
  /\ spp = IF f.mode = S THEN 1 ELSE 0
  /\ spie = f.ie

\* Until the kernel has saved it, the newest S-level trap's state stays in
\* sepc and sstatus with S-level interrupts masked: no M-level trap, return
\* or CSR write in between disturbs it (csr.rs trap_entry and mret leave the
\* S-level bits alone, s_trap_entry clears SIE).
SupervisorWindow ==
  Len(kstack) < Len(sframes) =>
    /\ Holds(Last(sframes), sepc, mstatus.SPP, mstatus.SPIE)
    /\ mstatus.SIE = 0

\* While firmware handles a trap the interrupted context stays in mepc and
\* mstatus and nothing can be delivered on top (deliver_trap, csr.rs
\* trap_entry; check_interrupts' M-mode arm).
MachineWindow ==
  mframe # NoFrame =>
    /\ mode = M
    /\ mepc = mframe.pc /\ mstatus.MPP = mframe.mode /\ mstatus.MPIE = mframe.ie
    /\ mstatus.MIE = 0

\* The two windows together: an interrupted context is always recoverable,
\* from the CSRs or from the kernel's stack, however the two levels nest.
TrapStateKept == SupervisorWindow /\ MachineWindow

ReturnStep ==
  /\ mframe # NoFrame /\ mframe' = NoFrame =>
       mode' = mframe.mode /\ pc' = mframe.pc /\ mstatus'.MIE = mframe.ie
  /\ Len(sframes') < Len(sframes) =>
       LET f == Last(sframes)
       IN  mode' = f.mode /\ pc' = f.pc /\ mstatus'.SIE = f.ie

\* A return resumes exactly the context the matching trap interrupted: its
\* mode, its pc and its interrupt enable bit (Mret, Sret, csr.rs mret, s_ret).
ReturnRestores == [][ReturnStep]_vars

SupervisorEntryStep ==
  Len(sframes') > Len(sframes) /\ scause'.interrupt => (mip' \cap mie) \ mideleg = {}

\* Under the delegation firmware sets up, an interrupt goes to S-mode only
\* when no M-level interrupt is pending and enabled (check_interrupts' order).
MachineFirst == [][SupervisorEntryStep]_vars

\* The delegation MachineFirst is about: none, or all S-level interrupts.
StandardDelegation == \A d \in Delegations : d \in {{}, SMask}

\* MPRV reaches no code outside M-mode: every way down clears it (csr.rs
\* mret, the Sret arm), so S- and U-mode accesses use their own translation.
MprvOnlyInMachine == mode # M => mstatus.MPRV = 0

-----------------------------------------------------------------------------
(* The inductive invariant behind them.                                    *)

\* The kernel has saved every interrupted context but perhaps the newest,
\* and saved it right.
StackShape ==
  /\ Len(kstack) <= Len(sframes) /\ Len(sframes) <= Len(kstack) + 1
  /\ \A i \in 1..Len(kstack) :
       Holds(sframes[i], kstack[i].epc, kstack[i].spp, kstack[i].spie)
  /\ \A i \in 1..Len(sframes) : sframes[i].mode \in {U, S}

\* User code runs only with every handler's state saved, and the S level is
\* not in use before boot code has left M-mode.
LevelShape ==
  /\ mode = U => AllSaved
  /\ mframe # NoFrame /\ mframe.mode = U => AllSaved
  /\ Booting => sframes = <<>>
  /\ mframe # NoFrame /\ mframe.mode = M => sframes = <<>>

IInv == TypeOK /\ StackShape /\ LevelShape /\ TrapStateKept /\ MprvOnlyInMachine
=============================================================================
