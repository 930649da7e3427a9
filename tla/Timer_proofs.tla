---------------------------- MODULE Timer_proofs ----------------------------
(***************************************************************************)
(* Proofs about Timer, for every period, unit, clock bound and set of      *)
(* deadlines: mtime never runs ahead of the wall clock, and a deadline     *)
(* that a poll has seen reached is signalled.                              *)
(***************************************************************************)
EXTENDS Timer, TLAPS

USE PeriodAssumption, UnitAssumption, MaxNowAssumption, DeadlineAssumption, NeverAssumption

\* Whole units counted from the last advance never exceed the time gone by.
LEMMA WholeUnits ==
  ASSUME NEW a \in Nat, NEW b \in Nat, a <= b, NEW m \in Nat, m * Unit <= a
  PROVE  /\ (b - a) \div Unit \in Nat
         /\ (b - a) \div Unit > 0 => (m + (b - a) \div Unit) * Unit <= b
         /\ ~((b - a) \div Unit > 0) => (b - a) \div Unit = 0
<1> DEFINE q == (b - a) \div Unit
<1>1. q \in Nat /\ q * Unit <= b - a
  OBVIOUS
<1>2. (m + q) * Unit = m * Unit + q * Unit
  BY <1>1
<1> HIDE DEF q
<1>3. (m + q) * Unit <= b
  <2>1. m * Unit \in Nat /\ q * Unit \in Nat
    BY <1>1
  <2> QED  BY <1>1, <1>2, <2>1
<1> QED  BY <1>1, <1>3 DEF q

\* What check_interrupts does, wherever it is called from.
Entry ==
  \/ /\ phase \in Kernel /\ MTI \in mie
     /\ phase' = "clear_mtie" /\ back' = phase /\ want' = want
  \/ /\ phase = "run" /\ phase' = "handler"
     /\ want' \in {Never, want} /\ back' = back
  \/ UNCHANGED <<phase, back, want>>

LEMMA Entries == Interrupt \/ Poll => Entry
<1>1. Interrupt => Entry
  BY DEF Interrupt, check_interrupts, MtiNow, StiNow, guest, Entry
<1>2. Poll => Entry
  BY DEF Poll, check_interrupts, MtiNow, StiNow, guest, Entry
<1> QED  BY <1>1, <1>2

-----------------------------------------------------------------------------
LEMMA TypeInit == Init => TypeOK /\ NeverAhead
<1>1. 0 * Unit = 0
  OBVIOUS
<1>2. Init => NeverAhead
  BY <1>1 DEF Init, NeverAhead
<1>3. ASSUME Init PROVE TypeOK
  <2>1. tick \in 0..(Period - 1) /\ ran \in {0, 1, SBlock, MBlock}
    BY <1>3 DEF Init
  <2>2. /\ now \in Nat /\ last \in Nat /\ mtime \in Nat
        /\ mip \in SUBSET Bits /\ mie \in SUBSET Bits
        /\ phase \in Kernel \cup Firmware /\ back \in Kernel
    BY <1>3 DEF Init, Kernel
  <2>3. /\ mtimecmp \in Deadline \cup {Never} /\ stimecmp \in Deadline \cup {Never}
        /\ want \in Deadline \cup {Never}
        /\ interface \in {"sstc", "sbi"} /\ sampled \in BOOLEAN
    BY <1>3, Zenon DEF Init
  <2> QED  BY <2>1, <2>2, <2>3 DEF TypeOK
<1> QED  BY <1>2, <1>3

\* Whole ticks only, counted from the last advance.
LEMMA PollTime ==
  ASSUME TypeOK, NeverAhead, Poll
  PROVE  mtime' \in Nat /\ last' \in Nat /\ now' = now /\ NeverAhead'
<1>1. /\ (now - last) \div Unit \in Nat
      /\ (now - last) \div Unit > 0 => (mtime + (now - last) \div Unit) * Unit <= now
      /\ ~((now - last) \div Unit > 0) => (now - last) \div Unit = 0
  BY WholeUnits DEF TypeOK, NeverAhead
<1> QED  BY <1>1 DEF Poll, AdvanceMtime, TypeOK, NeverAhead

LEMMA TypeStep == TypeOK /\ NeverAhead /\ [Next]_vars => TypeOK' /\ NeverAhead'
<1> SUFFICES ASSUME TypeOK, NeverAhead, [Next]_vars PROVE TypeOK' /\ NeverAhead'
  OBVIOUS
<1> USE DEF TypeOK, NeverAhead, Kernel, Firmware, Bits
<1>1. CASE Interrupt
  BY <1>1, Entries DEF Interrupt, Entry, clock
<1>2. CASE Disable
  BY <1>2 DEF Disable, Step, clock, guest
<1>3. CASE Enable
  BY <1>3 DEF Enable, Step, clock, guest
<1>4. CASE EnterHandler
  BY <1>4 DEF EnterHandler, Step, clock, guest
<1>5. CASE Arm
  BY <1>5 DEF Arm, set_bit, Step, clock, guest
<1>6. CASE WriteStimecmp
  BY <1>6 DEF WriteStimecmp, Step, clock, guest
<1>7. CASE EcallSetTimer
  BY <1>7 DEF EcallSetTimer, Step, clock, guest
<1>8. CASE SetCmp
  BY <1>8 DEF SetCmp, Step, clock, guest
<1>9. CASE ClearStip
  BY <1>9 DEF ClearStip, Step, clock, guest
<1>10. CASE SetMtie
  BY <1>10 DEF SetMtie, Step, clock, guest
<1>11. CASE ClearMtie
  BY <1>11 DEF ClearMtie, Step, clock, guest
<1>12. CASE SetStip
  BY <1>12 DEF SetStip, Step, clock, guest
<1>13. CASE Mret
  BY <1>13 DEF Mret, Step, clock, guest
<1>14. CASE Clock
  <2>1. now' = now + 1 /\ last' = last /\ last <= now
    BY <1>14 DEF Clock
  <2>2. last' <= now'
    BY <2>1
  <2> QED  BY <1>14, <2>2 DEF Clock, guest
<1>15. CASE Tick \/ Block \/ Plain
  BY <1>15 DEF Tick, Block, Plain, Step, clock, guest
<1>16. CASE Poll
  <2>1. mip' \in SUBSET Bits
    BY <1>16 DEF Poll, UpdateMip, set_bit
  <2>2. mtime' \in Nat /\ last' \in Nat /\ now' = now /\ NeverAhead'
    BY <1>16, PollTime
  <2>3. /\ tick' \in 0..(Period - 1) /\ ran' \in {0, 1, SBlock, MBlock}
        /\ UNCHANGED <<mtimecmp, stimecmp, mie, interface>>
    BY <1>16 DEF Poll
  <2>4. sampled' = TRUE
    BY <1>16, Zenon DEF Poll
  <2>5. /\ phase' \in Kernel \cup Firmware /\ back' \in Kernel
        /\ want' \in Deadline \cup {Never}
    BY <1>16, Entries DEF Entry
  <2> QED  BY <2>1, <2>2, <2>3, <2>4, <2>5
<1>17. CASE UNCHANGED vars
  BY <1>17 DEF vars, clock, guest
<1> QED
  BY <1>1, <1>2, <1>3, <1>4, <1>5, <1>6, <1>7, <1>8, <1>9, <1>10, <1>11, <1>12, <1>13, <1>14, <1>15, <1>16, <1>17
     DEF Next, Guest, Loop, Finish

-----------------------------------------------------------------------------
\* Firmware sets a timer for a kernel that has interrupts masked.
LEMMA SetTimerStep ==
  TypeOK /\ SetTimerReturns /\ [Next]_vars => SetTimerReturns'
<1> SUFFICES ASSUME TypeOK, SetTimerReturns, [Next]_vars
             PROVE  SetTimerReturns'
  OBVIOUS
<1> USE DEF TypeOK, SetTimerReturns, Kernel
<1>1. CASE Interrupt
  BY <1>1, Entries DEF Entry
<1>2. CASE Disable
  BY <1>2 DEF Disable, Step, guest
<1>3. CASE Enable
  BY <1>3 DEF Enable, Step, guest
<1>4. CASE EnterHandler
  BY <1>4 DEF EnterHandler, Step, guest
<1>5. CASE Arm
  BY <1>5 DEF Arm, Step, guest
<1>6. CASE WriteStimecmp
  BY <1>6 DEF WriteStimecmp, Step, guest
<1>7. CASE EcallSetTimer
  BY <1>7 DEF EcallSetTimer, Step, guest
<1>8. CASE SetCmp
  BY <1>8 DEF SetCmp, Step, guest
<1>9. CASE ClearStip
  BY <1>9 DEF ClearStip, Step, guest
<1>10. CASE SetMtie
  BY <1>10 DEF SetMtie, Step, guest
<1>11. CASE ClearMtie
  BY <1>11 DEF ClearMtie, Step, guest
<1>12. CASE SetStip
  BY <1>12 DEF SetStip, Step, guest
<1>13. CASE Mret
  BY <1>13 DEF Mret, Step, guest
<1>14. CASE Clock \/ Tick \/ Block \/ Plain
  BY <1>14 DEF Clock, Tick, Block, Plain, Step, clock, guest
<1>15. CASE UNCHANGED vars
  BY <1>15 DEF vars, clock, guest
<1>16. CASE Poll
  BY <1>16, Entries DEF Entry
<1> QED
  BY <1>1, <1>2, <1>3, <1>4, <1>5, <1>6, <1>7, <1>8, <1>9, <1>10, <1>11, <1>12, <1>13, <1>14, <1>15, <1>16
     DEF Next, Guest, Loop, Finish

\* With Sstc.
LEMMA SstcStep ==
  TypeOK /\ interface = "sstc" /\ SstcShape /\ [Next]_vars => interface' = "sstc" /\ SstcShape'
<1> SUFFICES ASSUME TypeOK, interface = "sstc", SstcShape, [Next]_vars
             PROVE  interface' = "sstc" /\ SstcShape'
  OBVIOUS
<1> USE DEF SstcShape, Kernel, Firmware
<1>1. CASE Interrupt
  BY <1>1, Entries DEF Entry, Interrupt, clock
<1>2. CASE Disable
  BY <1>2 DEF Disable, Step, clock, guest
<1>3. CASE Enable
  BY <1>3 DEF Enable, Step, clock, guest
<1>4. CASE EnterHandler
  BY <1>4 DEF EnterHandler, Step, MTI, STI, clock, guest
<1>5. CASE Arm
  BY <1>5 DEF Arm, set_bit, MTI, STI, Step, clock, guest
<1>6. CASE WriteStimecmp
  BY <1>6 DEF WriteStimecmp, Step, clock, guest
<1>7. CASE EcallSetTimer
  BY <1>7 DEF EcallSetTimer, Step, clock, guest
<1>8. CASE SetCmp
  BY <1>8 DEF SetCmp, Step, clock, guest
<1>9. CASE ClearStip
  BY <1>9 DEF ClearStip, Step, clock, guest
<1>10. CASE SetMtie
  BY <1>10 DEF SetMtie, Step, clock, guest
<1>11. CASE ClearMtie
  BY <1>11 DEF ClearMtie, Step, clock, guest
<1>12. CASE SetStip
  BY <1>12 DEF SetStip, Step, clock, guest
<1>13. CASE Mret
  BY <1>13 DEF Mret, Step, clock, guest
<1>14. CASE Clock \/ Tick \/ Block \/ Plain
  BY <1>14 DEF Clock, Tick, Block, Plain, Step, clock, guest
<1>15. CASE UNCHANGED vars
  BY <1>15 DEF vars, clock, guest
<1>16. CASE Poll
  <2>1. UNCHANGED <<stimecmp, mie, interface>>
    BY <1>16 DEF Poll
  <2>2. stimecmp' # Never => (STI \in mip' <=> mtime' >= stimecmp')
    BY <1>16, <2>1 DEF Poll, UpdateMip, set_bit
  <2> QED  BY <1>16, <2>1, <2>2, Entries DEF Entry
<1> QED
  BY <1>1, <1>2, <1>3, <1>4, <1>5, <1>6, <1>7, <1>8, <1>9, <1>10, <1>11, <1>12, <1>13, <1>14, <1>15, <1>16
     DEF Next, Guest, Loop, Finish

\* With the SBI.
LEMMA SbiStep ==
  TypeOK /\ SetTimerReturns /\ interface = "sbi" /\ SbiShape /\ [Next]_vars => interface' = "sbi" /\ SbiShape'
<1> SUFFICES ASSUME TypeOK, SetTimerReturns, interface = "sbi", SbiShape, [Next]_vars
             PROVE  interface' = "sbi" /\ SbiShape'
  OBVIOUS
<1> USE DEF SetTimerReturns, SbiShape, Deciding, Kernel, Firmware, MTI, STI
<1>1. CASE Interrupt
  BY <1>1, Entries DEF Entry, Interrupt, clock
<1>2. CASE Disable
  BY <1>2 DEF Disable, Step, clock, guest
<1>3. CASE Enable
  BY <1>3 DEF Enable, Step, clock, guest
<1>4. CASE EnterHandler
  BY <1>4 DEF EnterHandler, Step, clock, guest
<1>5. CASE Arm
  BY <1>5 DEF Arm, set_bit, Step, clock, guest
<1>6. CASE WriteStimecmp
  BY <1>6 DEF WriteStimecmp, Step, clock, guest
<1>7. CASE EcallSetTimer
  BY <1>7 DEF EcallSetTimer, Step, clock, guest
<1>8. CASE SetCmp
  BY <1>8 DEF SetCmp, Step, clock, guest
<1>9. CASE ClearStip
  BY <1>9 DEF ClearStip, Step, clock, guest
<1>10. CASE SetMtie
  BY <1>10 DEF SetMtie, Step, clock, guest
<1>11. CASE ClearMtie
  BY <1>11 DEF ClearMtie, Step, clock, guest
<1>12. CASE SetStip
  BY <1>12 DEF SetStip, Step, clock, guest
<1>13. CASE Mret
  BY <1>13 DEF Mret, Step, clock, guest
<1>14. CASE Clock \/ Tick \/ Block \/ Plain
  BY <1>14 DEF Clock, Tick, Block, Plain, Step, clock, guest
<1>15. CASE UNCHANGED vars
  BY <1>15 DEF vars, clock, guest
<1>16. CASE Poll
  <2>1. UNCHANGED <<mtimecmp, stimecmp, mie, interface>> /\ (STI \in mip' <=> STI \in mip)
    BY <1>16 DEF Poll, UpdateMip, set_bit
  <2>2. MTI \in mip' <=> mtime' >= mtimecmp'
    BY <1>16, <2>1 DEF Poll, UpdateMip, set_bit
  <2> QED  BY <1>16, <2>1, <2>2, Entries DEF Entry
<1> QED
  BY <1>1, <1>2, <1>3, <1>4, <1>5, <1>6, <1>7, <1>8, <1>9, <1>10, <1>11, <1>12, <1>13, <1>14, <1>15, <1>16
     DEF Next, Guest, Loop, Finish

-----------------------------------------------------------------------------
LEMMA InitIInv == Init => IInv
<1> SUFFICES ASSUME Init PROVE IInv
  OBVIOUS
<1>1. TypeOK /\ NeverAhead
  BY TypeInit
<1>2. SetTimerReturns
  BY DEF Init, SetTimerReturns
<1>3. SstcShape
  BY DEF Init, SstcShape, Kernel
<1>4. SbiShape
  <2>1. stimecmp = Never /\ want = Never /\ phase = "run" /\ ~sampled
    BY DEF Init
  <2> QED  BY <2>1 DEF SbiShape
<1> QED  BY <1>1, <1>2, <1>3, <1>4 DEF IInv

LEMMA StepIInv == IInv /\ [Next]_vars => IInv'
<1> SUFFICES ASSUME IInv, [Next]_vars PROVE IInv'
  OBVIOUS
<1>1. TypeOK' /\ NeverAhead' /\ SetTimerReturns'
  BY TypeStep, SetTimerStep DEF IInv
<1>2. CASE interface = "sstc"
  BY <1>1, <1>2, SstcStep DEF IInv
<1>3. CASE interface = "sbi"
  BY <1>1, <1>3, SbiStep DEF IInv
<1> QED  BY <1>2, <1>3 DEF IInv, TypeOK

LEMMA IInvImplies == IInv => DeadlineSignalled
<1> SUFFICES ASSUME IInv, want # Never, ~Deciding, sampled, mtime >= want PROVE Signalled
  BY DEF DeadlineSignalled
<1>1. CASE interface = "sstc"
  <2>1. stimecmp = want /\ phase \in Kernel /\ STI \in mip
    BY <1>1 DEF IInv, SstcShape, Deciding
  <2> QED  BY <2>1 DEF Signalled, Kernel
<1>2. CASE interface = "sbi"
  <2>1. mtimecmp = want /\ MTI \in mip
    BY <1>2 DEF IInv, SbiShape
  <2>2. MTI \in mie \/ STI \in mip \/ phase \in {"clear_stip", "set_mtie", "set_stip"}
    BY <1>2 DEF IInv, SbiShape
  <2> QED  BY <2>1, <2>2 DEF Signalled
<1> QED  BY <1>1, <1>2 DEF IInv, TypeOK

LEMMA InvariantHolds == Spec => []IInv
<1> QED  BY InitIInv, StepIInv, PTL DEF Spec

\* No deadline is reached before its time: mtime counts whole ticks of the
\* wall clock (main.rs, the poll).
THEOREM MtimeNeverAhead == Spec => []NeverAhead
<1>1. IInv => NeverAhead
  BY DEF IInv
<1> QED  BY InvariantHolds, <1>1, PTL

\* A deadline a poll has seen reached is signalled, wherever the poll falls
\* between the steps of kernel and firmware, whichever interface is used.
THEOREM DeadlinesSignalled == Spec => []DeadlineSignalled
<1> QED  BY InvariantHolds, IInvImplies, PTL

\* The types hold throughout.
THEOREM TypeCorrect == Spec => []TypeOK
<1>1. IInv => TypeOK
  BY DEF IInv
<1> QED  BY InvariantHolds, <1>1, PTL
=============================================================================
