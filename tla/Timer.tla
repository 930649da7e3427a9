-------------------------------- MODULE Timer --------------------------------
(***************************************************************************)
(* The timers and what drives them: the run loop of src/src/main.rs counts *)
(* ticks (1 for an instruction of step(), more for a compiled block) and   *)
(* polls when the count is a multiple of Period (1024).  The poll advances *)
(* mtime by the wall time gone by and sets or clears MTIP and STIP.        *)
(*                                                                         *)
(* The guest programs one deadline at a time.  With Sstc its kernel writes *)
(* stimecmp; without, it asks firmware (SBI SET_TIMER), which writes       *)
(* mtimecmp and, on the M-level interrupt, injects STIP by csrw mip.       *)
(* Kernel and firmware are external code, modelled by their CSR and        *)
(* register accesses; between any two of them the loop may poll.           *)
(***************************************************************************)
EXTENDS Integers

CONSTANTS
  Period,    \* ticks between polls: 1024
  SBlock,    \* ticks a compiled block counts in S- and U-mode: 8
  MBlock,    \* ... and in M-mode: 64
  Unit,      \* wall time of one tick of mtime, in units of the clock: 100 ns
  MaxNow,    \* bound: the wall clock stops here
  Deadline,  \* deadlines the guest programs
  Never      \* the reset value of the compare registers: 2^64 - 1

ASSUME PeriodAssumption == Period \in Nat \ {0} /\ SBlock \in 1..Period /\ MBlock \in 1..Period
ASSUME UnitAssumption == Unit \in Nat \ {0}
ASSUME MaxNowAssumption == MaxNow \in Nat
ASSUME DeadlineAssumption == Deadline \subseteq Nat /\ Never \in Nat
ASSUME NeverAssumption == \A d \in Deadline : d < Never
ASSUME NeverReached == Never > MaxNow

MTI == 7
STI == 5
Bits == {MTI, STI}

VARIABLES
  tick,      \* main.rs tick, modulo Period
  ran,       \* main.rs tick_inc: what the guest's turn counts, 0 in its turn
  now,       \* the host's monotonic clock
  last,      \* main.rs last_clint_tick
  mtime,     \* Clint.mtime
  mtimecmp,  \* Clint.mtimecmp
  stimecmp,  \* Csr.stimecmp
  mip,       \* Csr.mip, the timers' bits
  mie,       \* Csr.mie, likewise
  phase,     \* where the guest is
  back,      \* the kernel phase firmware returns to
  interface, \* how the kernel sets its timer: "sstc" or "sbi"
  want,      \* guest: the deadline the kernel waits for
  sampled    \* history: a poll has seen the compare register last written

clock == <<now, last, mtime>>
guest == <<phase, back, want>>
vars == <<tick, ran, clock, mtimecmp, stimecmp, mip, mie, guest, interface, sampled>>

\* "run" has S-level interrupts enabled, the other kernel phases masked.
Kernel == {"run", "handler", "off", "arm"}
Firmware == {"set_cmp", "clear_stip", "set_mtie", "clear_mtie", "set_stip", "mret"}

TypeOK ==
  /\ tick \in 0..(Period - 1) /\ ran \in {0, 1, SBlock, MBlock}
  /\ now \in Nat /\ last \in Nat /\ mtime \in Nat
  /\ mtimecmp \in Deadline \cup {Never} /\ stimecmp \in Deadline \cup {Never}
  /\ mip \in SUBSET Bits /\ mie \in SUBSET Bits
  /\ phase \in Kernel \cup Firmware /\ back \in Kernel
  /\ interface \in {"sstc", "sbi"}
  /\ want \in Deadline \cup {Never}
  /\ sampled \in BOOLEAN

\* Clint::new, Csr::new; the kernel has booted and uses no timer yet.
Init ==
  /\ tick = 0 /\ ran = 0
  /\ now = 0 /\ last = 0 /\ mtime = 0
  /\ mtimecmp = Never /\ stimecmp = Never
  /\ mip = {} /\ mie = {}
  /\ phase = "run" /\ back = "run"
  /\ interface \in {"sstc", "sbi"}
  /\ want = Never /\ sampled = FALSE

-----------------------------------------------------------------------------
(* Interrupts, when mip is `ip`.                                           *)

\* Firmware runs with MIE clear; below M-mode MTI is always enabled.
MtiNow(ip) == MTI \in ip \cap mie /\ phase \in Kernel

\* STI is delegated and comes after MTI in check_interrupts' order.
StiNow(ip) == STI \in ip \cap mie /\ phase = "run" /\ ~MtiNow(ip)

\* check_interrupts.  The kernel's handler finds its deadline reached, or
\* not: the interrupt may be early, and the deadline is still to come.
check_interrupts(ip) ==
  \/ /\ MtiNow(ip)
     /\ phase' = "clear_mtie" /\ back' = phase /\ UNCHANGED want
  \/ /\ StiNow(ip)
     /\ phase' = "handler"
     /\ want' = IF mtime' >= want THEN Never ELSE want
     /\ UNCHANGED back
  \/ ~MtiNow(ip) /\ ~StiNow(ip) /\ UNCHANGED guest

\* What an instruction of step() finds when it runs.
Executing == ~MtiNow(mip) /\ ~StiNow(mip)

-----------------------------------------------------------------------------
(* The run loop.                                                           *)

\* The host's clock goes on by itself.
Clock ==
  /\ now < MaxNow
  /\ now' = now + 1
  /\ UNCHANGED <<tick, ran, last, mtime, mtimecmp, stimecmp, mip, mie, guest, interface, sampled>>

\* The end of an iteration without a poll.
Tick ==
  /\ ran # 0
  /\ (tick + ran) % Period # 0
  /\ tick' = (tick + ran) % Period
  /\ ran' = 0
  /\ UNCHANGED <<clock, mtimecmp, stimecmp, mip, mie, guest, interface, sampled>>

\* Faulty variants of AdvanceMtime: the difference the wrong way round; the
\* reference point of the clock left where it was.
AdvanceMtime_backwards ==
  /\ mtime' = mtime + (last - now) \div Unit
  /\ last' = now

AdvanceMtime_unmoved ==
  /\ mtime' = mtime + (now - last) \div Unit
  /\ last' = last

\* mtime advances by the whole ticks gone by since it last advanced.
AdvanceMtime ==
  /\ mtime' = mtime + (now - last) \div Unit
  /\ last' = IF (now - last) \div Unit > 0 THEN now ELSE last

\* mip |= 1 << i or mip &= !(1 << i)
set_bit(ip, i, on) == IF on THEN ip \cup {i} ELSE ip \ {i}

\* Faulty variants of UpdateMip: a deadline counts once it is gone by; STIP
\* is managed whatever stimecmp is.
UpdateMip_late ==
  LET ip == set_bit(mip, MTI, mtime' > mtimecmp)
  IN  mip' = IF stimecmp # Never THEN set_bit(ip, STI, mtime' > stimecmp) ELSE ip

UpdateMip_always ==
  mip' = set_bit(set_bit(mip, MTI, mtime' >= mtimecmp), STI, mtime' >= stimecmp)

\* MTIP follows mtimecmp; STIP follows stimecmp unless it is Never.
UpdateMip ==
  LET ip == set_bit(mip, MTI, mtime' >= mtimecmp)
  IN  mip' = IF stimecmp # Never THEN set_bit(ip, STI, mtime' >= stimecmp) ELSE ip

\* The end of an iteration with a poll: time, mip, check_interrupts.
Poll ==
  /\ ran # 0
  /\ (tick + ran) % Period = 0
  /\ tick' = 0 /\ ran' = 0
  /\ AdvanceMtime
  /\ UpdateMip
  /\ check_interrupts(mip')
  /\ sampled' = TRUE
  /\ UNCHANGED <<now, mtimecmp, stimecmp, mie, interface>>

-----------------------------------------------------------------------------
(* The guest's turn.                                                       *)

\* A compiled block: no interrupt check precedes it.
Block ==
  /\ ran = 0
  /\ ran' = IF phase \in Firmware THEN MBlock ELSE SBlock
  /\ UNCHANGED <<tick, clock, mtimecmp, stimecmp, mip, mie, guest, interface, sampled>>

\* step() delivers an interrupt.
Interrupt ==
  /\ ran = 0 /\ ran' = 1
  /\ ~Executing
  /\ UNCHANGED <<tick, clock, mtimecmp, stimecmp, mip, mie, interface, sampled>>
  /\ check_interrupts(mip)

\* step() executes one instruction.
Step == ran = 0 /\ ran' = 1 /\ Executing

\* ... of no interest here.
Plain ==
  /\ Step
  /\ UNCHANGED <<tick, clock, mtimecmp, stimecmp, mip, mie, guest, interface, sampled>>

\* The kernel masks and unmasks S-level interrupts (or SRETs), the latter
\* only with the deadline it waits for set.
Disable ==
  /\ Step /\ phase = "run" /\ phase' = "off"
  /\ UNCHANGED <<tick, clock, mtimecmp, stimecmp, mip, mie, back, want, interface, sampled>>

Enable ==
  /\ Step /\ phase = "off" /\ phase' = "run"
  /\ want = Never \/ STI \in mie
  /\ UNCHANGED <<tick, clock, mtimecmp, stimecmp, mip, mie, back, want, interface, sampled>>

\* The timer handler first clears sie.STIE.
EnterHandler ==
  /\ Step /\ phase = "handler" /\ phase' = "off"
  /\ mie' = mie \ {STI}
  /\ UNCHANGED <<tick, clock, mtimecmp, stimecmp, mip, back, want, interface, sampled>>

\* The kernel, interrupts masked, decides on a deadline or on none and sets
\* sie.STIE to match ...
Arm ==
  /\ Step /\ phase = "off" /\ phase' = "arm"
  /\ want' \in Deadline \cup {Never}
  /\ mie' = set_bit(mie, STI, want' # Never)
  /\ UNCHANGED <<tick, clock, mtimecmp, stimecmp, mip, back, interface, sampled>>

\* ... and writes stimecmp, or calls firmware.
WriteStimecmp ==
  /\ Step /\ phase = "arm" /\ interface = "sstc"
  /\ stimecmp' = want
  /\ phase' = "off" /\ sampled' = FALSE
  /\ UNCHANGED <<tick, clock, mtimecmp, mip, mie, back, want, interface>>

EcallSetTimer ==
  /\ Step /\ phase = "arm" /\ interface = "sbi"
  /\ phase' = "set_cmp" /\ back' = "off"
  /\ UNCHANGED <<tick, clock, mtimecmp, stimecmp, mip, mie, want, interface, sampled>>

\* SET_TIMER: mtimecmp, then mip.STIP is cleared, then mie.MTIE set.
SetCmp ==
  /\ Step /\ phase = "set_cmp" /\ phase' = "clear_stip"
  /\ mtimecmp' = want /\ sampled' = FALSE
  /\ UNCHANGED <<tick, clock, stimecmp, mip, mie, back, want, interface>>

ClearStip ==
  /\ Step /\ phase = "clear_stip" /\ phase' = "set_mtie"
  /\ mip' = mip \ {STI}
  /\ UNCHANGED <<tick, clock, mtimecmp, stimecmp, mie, back, want, interface, sampled>>

SetMtie ==
  /\ Step /\ phase = "set_mtie" /\ phase' = "mret"
  /\ mie' = mie \cup {MTI}
  /\ UNCHANGED <<tick, clock, mtimecmp, stimecmp, mip, back, want, interface, sampled>>

\* The M-level timer interrupt: mie.MTIE is cleared, then mip.STIP set.
ClearMtie ==
  /\ Step /\ phase = "clear_mtie" /\ phase' = "set_stip"
  /\ mie' = mie \ {MTI}
  /\ UNCHANGED <<tick, clock, mtimecmp, stimecmp, mip, back, want, interface, sampled>>

SetStip ==
  /\ Step /\ phase = "set_stip" /\ phase' = "mret"
  /\ mip' = mip \cup {STI}
  /\ UNCHANGED <<tick, clock, mtimecmp, stimecmp, mie, back, want, interface, sampled>>

Mret ==
  /\ Step /\ phase = "mret" /\ phase' = back
  /\ UNCHANGED <<tick, clock, mtimecmp, stimecmp, mip, mie, back, want, interface, sampled>>

\* Code that has begun a timer operation finishes it, a handler called early
\* by setting the timer again.
Finish ==
  \/ Arm /\ want # Never /\ STI \notin mie
  \/ EnterHandler \/ WriteStimecmp \/ EcallSetTimer
  \/ SetCmp \/ ClearStip \/ SetMtie \/ ClearMtie \/ SetStip \/ Mret

Guest == Block \/ Interrupt \/ Plain \/ Disable \/ Enable \/ Arm \/ Finish
Loop == Tick \/ Poll

Next == Clock \/ Guest \/ Loop

\* Time passes, the loop iterates for ever, the kernel and firmware finish
\* what they have begun, however often they are interrupted.
Fairness ==
  /\ WF_vars(Clock) /\ WF_vars(Guest \/ Loop)
  /\ SF_vars(Finish) /\ SF_vars(Enable)

Spec == Init /\ [][Next]_vars /\ Fairness

-----------------------------------------------------------------------------
(* Properties.                                                             *)

\* mtime is never ahead of the wall clock, so no deadline is reached early
\* (main.rs: whole ticks only, counted from the last advance).
NeverAhead == mtime * Unit <= last /\ last <= now

\* The guest is between its decision and the write of the compare register,
\* MTI's handler in between included.
Deciding == phase \in {"arm", "set_cmp"} \/ (phase \in Firmware /\ back = "arm")

\* STIP is set, or firmware is about to set it, or MTIP will make it.
Signalled ==
  \/ STI \in mip /\ phase # "clear_stip"
  \/ phase = "set_stip"
  \/ MTI \in mip /\ (MTI \in mie \/ phase \in {"clear_stip", "set_mtie"})

\* A deadline the kernel waits for, once reached and seen by a poll, is
\* signalled, wherever the poll falls between the accesses of kernel and
\* firmware (main.rs: the STIP that firmware injects survives the poll).
DeadlineSignalled ==
  want # Never /\ STI \in mie /\ ~Deciding /\ sampled /\ mtime >= want => Signalled

\* The loop polls again and again: "CLINT fires every ~1024 guest
\* instructions regardless of privilege mode" (main.rs).
PollsRegularly == []<>(tick = 0)

\* As long as the loop polls, a deadline ends in a timer interrupt at or
\* after it, early ones before it notwithstanding, or the kernel gives it up.
TimerServed == PollsRegularly => (want # Never ~> want = Never)

\* After a poll STIP says whether stimecmp is reached, for a kernel that
\* writes it (main.rs: "only manage STIP from stimecmp when the kernel has
\* explicitly written stimecmp").
StipFollows == interface = "sstc" /\ sampled => (STI \in mip <=> mtime >= stimecmp)

\* mtime is within a tick of the wall clock whenever it has been advanced
\* (main.rs: "timer accuracy constant regardless of emulation speed").
MtimeAccurate == last - mtime * Unit < Unit

-----------------------------------------------------------------------------
(* The inductive invariant behind NeverAhead and DeadlineSignalled.        *)

\* Firmware sets a timer for a kernel that has interrupts masked.
SetTimerReturns == phase \in {"set_cmp", "clear_stip", "set_mtie"} => back = "off"

\* With Sstc firmware has no part, and STIP is what the last poll made it.
SstcShape ==
  /\ MTI \notin mie /\ phase \in Kernel
  /\ phase # "arm" => want \in {Never, stimecmp}
  /\ sampled /\ stimecmp # Never => (STI \in mip <=> mtime >= stimecmp)

\* Without, MTIP is what the last poll made it, and the timer is either on
\* or handed on.
SbiShape ==
  /\ stimecmp = Never
  /\ ~Deciding => want \in {Never, mtimecmp}
  /\ sampled => (MTI \in mip <=> mtime >= mtimecmp)
  /\ want # Never /\ ~Deciding =>
       MTI \in mie \/ STI \in mip \/ phase \in {"clear_stip", "set_mtie", "set_stip"}

IInv ==
  /\ TypeOK /\ NeverAhead /\ SetTimerReturns
  /\ interface = "sstc" => SstcShape
  /\ interface = "sbi" => SbiShape
=============================================================================
