-------------------------------- MODULE Trap --------------------------------
(***************************************************************************)
(* The trap arithmetic of the hart, as operators: what a trap entry, an    *)
(* MRET and an SRET do to mstatus (src/src/cpu/csr.rs), where a trap goes  *)
(* and which pending interrupt is taken (src/src/cpu/mod.rs).              *)
(*                                                                         *)
(* mstatus is a record of the bits these functions read or write; mip,     *)
(* mie, mideleg and medeleg are the sets of the bit numbers that are 1.    *)
(***************************************************************************)
EXTENDS Integers

U == 0
S == 1
M == 3

\* enum PrivMode { U = 0, S = 1, M = 3 }
PrivMode == {U, S, M}

Bit == {0, 1}

\* The mstatus bits the trap path touches (TSR, MPRV, MPP, SPP, MPIE, SPIE, MIE, SIE).
MStatus == [MIE : Bit, MPIE : Bit, MPP : PrivMode,
            SIE : Bit, SPIE : Bit, SPP : Bit, MPRV : Bit, TSR : Bit]

\* mcause/scause: bit 63 and the code below it.
Cause == [interrupt : BOOLEAN, code : Nat]

\* mtvec/stvec: base and MODE = 1 (vectored).
Tvec == [base : Nat, vectored : BOOLEAN]

\* Faulty variant of PriorityOrder: by number, the S-level ones first.
PriorityByNumber == <<1, 3, 5, 7, 9, 11>>

\* The interrupts check_interrupts scans, highest priority first.
PriorityOrder == <<11, 3, 7, 9, 1, 5>>
Irq == {11, 3, 7, 9, 1, 5}
Rank(i) == CHOOSE k \in 1..6 : PriorityOrder[k] = i

\* The bits sie and sip show of mie and mip (mask 0x222).
SMask == {1, 5, 9}

-----------------------------------------------------------------------------
\* Where a trap goes: vectored mode sends interrupts to base + 4 * code.
trap_pc(tvec, cause) ==
  tvec.base + (IF cause.interrupt /\ tvec.vectored THEN 4 * cause.code ELSE 0)

\* Faulty variants of trap_entry: MPP shifted one bit too far; a clear mask
\* that takes SPP along.
trap_entry_shifted(ms, prev) ==
  [ms EXCEPT !.MPIE = ms.MIE, !.MIE = 0, !.MPP = (2 * prev) % 4]

trap_entry_wide(ms, prev) ==
  [ms EXCEPT !.MPIE = ms.MIE, !.MIE = 0, !.MPP = prev, !.SPP = 0]

\* M-mode entry: MPIE <- MIE, MIE <- 0, MPP <- the mode interrupted.
trap_entry(ms, prev) == [ms EXCEPT !.MPIE = ms.MIE, !.MIE = 0, !.MPP = prev]

\* Faulty variant of mret: MPRV survives.
mret_keeps_mprv(ms) == [ms EXCEPT !.MIE = ms.MPIE, !.MPIE = 1, !.MPP = U]

\* MRET: MIE <- MPIE, MPIE <- 1, MPP <- U; MPRV is cleared unless MPP was M.
mret(ms) == [ms EXCEPT !.MIE = ms.MPIE, !.MPIE = 1, !.MPP = U,
                       !.MPRV = IF ms.MPP = M THEN ms.MPRV ELSE 0]

\* S-mode entry: SPIE <- SIE, SIE <- 0, SPP <- 1 when it came from S.
s_trap_entry(ms, from_smode) ==
  [ms EXCEPT !.SPIE = ms.SIE, !.SIE = 0, !.SPP = IF from_smode THEN 1 ELSE 0]

\* Faulty variant of s_ret: SIE is set, not restored.
s_ret_enables(ms) == [ms EXCEPT !.SIE = 1, !.SPIE = 1, !.SPP = 0, !.MPRV = 0]

\* SRET: SIE <- SPIE, SPIE <- 1, SPP <- U; the Sret arm clears MPRV before it.
s_ret(ms) == [ms EXCEPT !.SIE = ms.SPIE, !.SPIE = 1, !.SPP = 0, !.MPRV = 0]

\* A trap is delegated by its bit of mideleg or medeleg, never out of M-mode.
Delegated(cause, mode, medeleg, mideleg) ==
  /\ cause.code < 64
  /\ cause.code \in (IF cause.interrupt THEN mideleg ELSE medeleg)
  /\ mode # M

\* check_interrupts' can_fire, for an interrupt that is pending and enabled.
CanFire(i, mode, ms, mideleg) ==
  IF mode = M THEN i \notin mideleg /\ ms.MIE = 1
              ELSE i \in mideleg => ms.SIE = 1

\* The interrupts check_interrupts may deliver now, and the one it picks.
Firing(mode, ms, mip, mie, mideleg) ==
  {i \in mip \cap mie \cap Irq : CanFire(i, mode, ms, mideleg)}

Chosen(firing) == CHOOSE i \in firing : \A j \in firing : Rank(i) <= Rank(j)
=============================================================================
