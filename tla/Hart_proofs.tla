----------------------------- MODULE Hart_proofs -----------------------------
(***************************************************************************)
(* Proofs about Hart, for every set of addresses, vectors, exceptions,     *)
(* delegations and nesting depth the assumptions of Hart allow.            *)
(***************************************************************************)
EXTENDS Hart, SequenceTheorems, TLAPS

\* What the first n elements of a sequence are.
LEMMA Prefix ==
  ASSUME NEW T, NEW s, NEW n \in Nat, \A i \in 1..n : s[i] \in T
  PROVE  /\ SubSeq(s, 1, n) \in Seq(T)
         /\ Len(SubSeq(s, 1, n)) = n
         /\ \A i \in 1..n : SubSeq(s, 1, n)[i] = s[i]
<1>1. /\ SubSeq(s, 1, n) \in Seq(T)
      /\ Len(SubSeq(s, 1, n)) = IF 1 <= n THEN n - 1 + 1 ELSE 0
      /\ \A i \in 1..(n - 1 + 1) : SubSeq(s, 1, n)[i] = s[1 + i - 1]
  BY SubSeqProperties
<1>2. n - 1 + 1 = n /\ (IF 1 <= n THEN n - 1 + 1 ELSE 0) = n
  OBVIOUS
<1>3. \A i \in 1..n : 1 + i - 1 = i
  OBVIOUS
<1> QED
  BY <1>1, <1>2, <1>3, Zenon

\* What Front and Last do to a stack.
LEMMA FrontLast ==
  ASSUME NEW T, NEW s \in Seq(T), s # <<>>
  PROVE  /\ Last(s) \in T
         /\ Last(s) = s[Len(s)]
         /\ Front(s) \in Seq(T)
         /\ Len(Front(s)) = Len(s) - 1
         /\ \A i \in 1..(Len(s) - 1) : Front(s)[i] = s[i]
<1>1. Len(s) - 1 \in Nat /\ \A i \in 1..Len(s) : s[i] \in T
  OBVIOUS
<1>2. PICK n \in Nat : n = Len(s) - 1
  BY <1>1
<1>3. \A i \in 1..n : s[i] \in T
  BY <1>1, <1>2
<1>4. /\ SubSeq(s, 1, n) \in Seq(T)
      /\ Len(SubSeq(s, 1, n)) = n
      /\ \A i \in 1..n : SubSeq(s, 1, n)[i] = s[i]
  BY <1>3, Prefix
<1>5. Last(s) = s[Len(s)] /\ Last(s) \in T
  BY <1>1 DEF Last
<1> QED
  BY <1>2, <1>4, <1>5, Zenon DEF Front

\* The ranks check_interrupts' list gives the six interrupts.
LEMMA RankValues ==
  /\ Rank(11) = 1 /\ Rank(3) = 2 /\ Rank(7) = 3
  /\ Rank(9) = 4 /\ Rank(1) = 5 /\ Rank(5) = 6
<1> DEFINE P == <<11, 3, 7, 9, 1, 5>>
<1>1. /\ P[1] = 11 /\ P[2] = 3 /\ P[3] = 7 /\ P[4] = 9 /\ P[5] = 1 /\ P[6] = 5
  OBVIOUS
<1>2. \A k \in 1..6 : k = 1 \/ k = 2 \/ k = 3 \/ k = 4 \/ k = 5 \/ k = 6
  OBVIOUS
<1> HIDE DEF P
<1>3. \A i, n : n \in 1..6 /\ P[n] = i /\ (\A k \in 1..6 : P[k] = i => k = n)
         => (CHOOSE k \in 1..6 : P[k] = i) = n
  OBVIOUS
<1>4. /\ (CHOOSE k \in 1..6 : P[k] = 11) = 1 /\ (CHOOSE k \in 1..6 : P[k] = 3) = 2
      /\ (CHOOSE k \in 1..6 : P[k] = 7) = 3 /\ (CHOOSE k \in 1..6 : P[k] = 9) = 4
      /\ (CHOOSE k \in 1..6 : P[k] = 1) = 5 /\ (CHOOSE k \in 1..6 : P[k] = 5) = 6
  BY <1>1, <1>2, <1>3, SMTT(30)
<1> QED
  BY <1>4 DEF Rank, PriorityOrder, P

\* check_interrupts delivers one of the deliverable interrupts, and no other
\* deliverable one comes before it in the list.
LEMMA ChosenIsFirst ==
  ASSUME NEW F \in SUBSET Irq, F # {}
  PROVE  /\ Chosen(F) \in F
         /\ \A j \in F : Rank(Chosen(F)) <= Rank(j)
<1>1. \E i \in F : \A j \in F : Rank(i) <= Rank(j)
  <2>1. \A j \in F : j = 11 \/ j = 3 \/ j = 7 \/ j = 9 \/ j = 1 \/ j = 5
    BY DEF Irq
  <2>2. CASE 11 \in F
    BY <2>1, <2>2, RankValues
  <2>3. CASE 11 \notin F /\ 3 \in F
    BY <2>1, <2>3, RankValues
  <2>4. CASE 11 \notin F /\ 3 \notin F /\ 7 \in F
    BY <2>1, <2>4, RankValues
  <2>5. CASE 11 \notin F /\ 3 \notin F /\ 7 \notin F /\ 9 \in F
    BY <2>1, <2>5, RankValues
  <2>6. CASE 11 \notin F /\ 3 \notin F /\ 7 \notin F /\ 9 \notin F /\ 1 \in F
    BY <2>1, <2>6, RankValues
  <2>7. CASE F \cap {11, 3, 7, 9, 1} = {}
    BY <2>1, <2>7, RankValues
  <2> QED
    BY <2>2, <2>3, <2>4, <2>5, <2>6, <2>7
<1> QED
  BY <1>1 DEF Chosen

\* What is delivered is deliverable.
LEMMA ChosenNow ==
  ASSUME NEW ip, FiringNow(ip) # {}
  PROVE  /\ Chosen(FiringNow(ip)) \in Irq \cap mie \cap ip
         /\ CanFire(Chosen(FiringNow(ip)), mode, mstatus, mideleg)
         /\ \A j \in FiringNow(ip) : Rank(Chosen(FiringNow(ip))) <= Rank(j)
<1>1. FiringNow(ip) \in SUBSET Irq
  BY DEF FiringNow, Firing
<1>2. Chosen(FiringNow(ip)) \in FiringNow(ip)
  BY <1>1, ChosenIsFirst
<1> QED
  BY <1>1, <1>2, ChosenIsFirst DEF FiringNow, Firing

-----------------------------------------------------------------------------
(* Type correctness.                                                       *)

LEMMA TrapPcType ==
  ASSUME NEW t \in Tvec, NEW c \in Cause
  PROVE  trap_pc(t, c) \in Nat
<1>1. t.base \in Nat /\ c.code \in Nat
  BY DEF Tvec, Cause
<1>2. 4 * c.code \in Nat
  BY <1>1
<1> QED
  BY <1>1, <1>2 DEF trap_pc

\* deliver_trap keeps the types of everything it writes.
LEMMA DeliverType ==
  ASSUME TypeOK, NEW cause \in Cause, deliver_trap(cause)
  PROVE  /\ mode' \in PrivMode /\ pc' \in Nat /\ mstatus' \in MStatus
         /\ mepc' \in Nat /\ sepc' \in Nat /\ mcause' \in Cause /\ scause' \in Cause
         /\ sframes' \in Seq(Frame) /\ mframe' \in Frame \cup {NoFrame}
<1>1. /\ trap_pc(STvec, cause) \in Nat /\ trap_pc(MTvec, cause) \in Nat
  BY TrapPcType, TvecAssumption
<1>2. /\ s_trap_entry(mstatus, mode = S) \in MStatus
      /\ trap_entry(mstatus, mode) \in MStatus
  BY DEF TypeOK, s_trap_entry, trap_entry, MStatus, Bit
<1>3. /\ [mode |-> mode, pc |-> pc, ie |-> mstatus.SIE] \in Frame
      /\ [mode |-> mode, pc |-> pc, ie |-> mstatus.MIE] \in Frame
  BY DEF TypeOK, Frame, MStatus
<1>4. CASE Delegated(cause, mode, medeleg, mideleg)
  BY <1>1, <1>2, <1>3, <1>4 DEF TypeOK, deliver_trap, PrivMode
<1>5. CASE ~Delegated(cause, mode, medeleg, mideleg)
  BY <1>1, <1>2, <1>3, <1>5 DEF TypeOK, deliver_trap, PrivMode
<1> QED
  BY <1>4, <1>5

LEMMA InterruptCause ==
  ASSUME NEW ip, FiringNow(ip) # {}
  PROVE  [interrupt |-> TRUE, code |-> Chosen(FiringNow(ip))] \in Cause
  BY ChosenNow DEF Irq, Cause

\* The exceptions of guest code have proper causes.
LEMMA ExceptionCause ==
  ASSUME TypeOK
  PROVE  /\ \A c \in Exceptions : [interrupt |-> FALSE, code |-> c] \in Cause
         /\ [interrupt |-> FALSE, code |-> 8 + mode] \in Cause
         /\ [interrupt |-> FALSE, code |-> 2] \in Cause
  BY ExceptionsAssumption DEF Cause, TypeOK, PrivMode, U, S, M

LEMMA TypeStep ==
  ASSUME TypeOK, [Next]_vars
  PROVE  TypeOK'
<1> USE DEF csrs, traps, frames
<1>1. CASE Interrupt
  <2>1. deliver_trap([interrupt |-> TRUE, code |-> Chosen(FiringNow(mip))])
    BY <1>1 DEF Interrupt, TakeInterrupt
  <2> QED
    BY <1>1, <2>1, InterruptCause, DeliverType DEF Interrupt, TypeOK
<1>2. CASE Poll
  <2>1. PICK high \in SUBSET Lines :
          /\ mip' = (mip \ Lines) \cup high
          /\ IF FiringNow((mip \ Lines) \cup high) # {}
             THEN TakeInterrupt((mip \ Lines) \cup high)
             ELSE UNCHANGED <<mode, pc, mstatus, traps, frames>>
          /\ UNCHANGED <<mie, mideleg, medeleg, kstack>>
    BY <1>2 DEF Poll
  <2>2. mip' \in SUBSET Irq
    BY <2>1, LinesAssumption DEF TypeOK, Irq
  <2>3. CASE FiringNow((mip \ Lines) \cup high) # {}
    BY <2>1, <2>2, <2>3, InterruptCause, DeliverType DEF TakeInterrupt, TypeOK
  <2>4. CASE FiringNow((mip \ Lines) \cup high) = {}
    BY <2>1, <2>2, <2>4 DEF TypeOK
  <2> QED
    BY <2>3, <2>4
<1>3. CASE Run
  BY <1>3, CodeAssumption DEF Run, TypeOK
<1>4. CASE Exception
  BY <1>4, ExceptionCause, DeliverType DEF Exception, TypeOK
<1>5. CASE Ecall
  BY <1>5, ExceptionCause, DeliverType DEF Ecall, TypeOK
<1>6. CASE Mret
  <2>1. mret(mstatus) \in MStatus /\ mstatus.MPP \in PrivMode
    BY DEF TypeOK, mret, MStatus, Bit, PrivMode
  <2> QED
    BY <1>6, <2>1 DEF Mret, TypeOK
<1>7. CASE Sret
  <2>1. CASE mstatus.TSR = 1
    BY <1>7, <2>1, ExceptionCause, DeliverType DEF Sret, TypeOK
  <2>2. CASE mstatus.TSR # 1
    <3>1. s_ret(mstatus) \in MStatus
      BY DEF TypeOK, s_ret, MStatus, Bit
    <3>2. sframes' \in Seq(Frame)
      BY <1>7, <2>2, FrontLast DEF Sret, TypeOK
    <3> QED
      BY <1>7, <2>2, <3>1, <3>2 DEF Sret, TypeOK, PrivMode
  <2> QED
    BY <2>1, <2>2
<1>8. CASE WriteDelegation
  BY <1>8, DelegationsAssumption, ExcDelegationsAssumption DEF WriteDelegation, TypeOK
<1>9. CASE WriteMie
  BY <1>9, MEnablesAssumption DEF WriteMie, TypeOK
<1>10. CASE WriteMip
  BY <1>10, LinesAssumption DEF WriteMip, TypeOK, Irq
<1>11. CASE WriteBootContext
  BY <1>11, CodeAssumption DEF WriteBootContext, TypeOK, MStatus
<1>12. CASE WriteMIE
  BY <1>12 DEF WriteMIE, TypeOK, MStatus
<1>13. CASE WriteMPRV
  BY <1>13 DEF WriteMPRV, TypeOK, MStatus
<1>14. CASE SaveContext
  <2>1. [epc |-> sepc, spp |-> mstatus.SPP, spie |-> mstatus.SPIE] \in Saved
    BY DEF TypeOK, MStatus, Saved
  <2> QED
    BY <1>14, <2>1 DEF SaveContext, TypeOK
<1>15. CASE WriteSIE
  BY <1>15 DEF WriteSIE, TypeOK, MStatus
<1>16. CASE RestoreContext
  <2>1. Last(kstack) \in Saved
    BY <1>16, FrontLast DEF RestoreContext, TypeOK
  <2>2. kstack' \in Seq(Saved)
    BY <1>16, FrontLast DEF RestoreContext, TypeOK
  <2> QED
    BY <1>16, <2>1, <2>2 DEF RestoreContext, TypeOK, MStatus, Saved
<1>17. CASE WriteUserContext
  BY <1>17, CodeAssumption DEF WriteUserContext, TypeOK, MStatus
<1>18. CASE WriteSip
  BY <1>18 DEF WriteSip, TypeOK, Irq
<1>19. CASE WriteSie
  BY <1>19, MEnablesAssumption DEF WriteSie, TypeOK
<1>20. CASE UNCHANGED vars
  BY <1>20 DEF vars, TypeOK
<1> QED
  BY <1>1, <1>2, <1>3, <1>4, <1>5, <1>6, <1>7, <1>8, <1>9, <1>10, <1>11, <1>12,
     <1>13, <1>14, <1>15, <1>16, <1>17, <1>18, <1>19, <1>20 DEF Next

LEMMA InitType == Init => TypeOK
  BY CodeAssumption DEF Init, TypeOK, PrivMode, MStatus, Bit, Cause

\* Every variable of the hart keeps its type (all of Hart's code mapping).
THEOREM TypeCorrect == Spec => []TypeOK
<1>1. TypeOK /\ [Next]_vars => TypeOK'
  BY TypeStep
<1> QED
  BY InitType, <1>1, PTL DEF Spec

-----------------------------------------------------------------------------
(* The state a trap saves is kept until it is resumed.                     *)

\* A trap taken when firmware handles none, and delegated only when the
\* kernel has saved all its own, keeps the invariant.
LEMMA DeliverInv ==
  ASSUME IInv, TypeOK', NEW cause \in Cause, deliver_trap(cause),
         kstack' = kstack, mframe = NoFrame,
         Delegated(cause, mode, medeleg, mideleg) => AllSaved
  PROVE  IInv'
<1> USE DEF IInv
<1>1. /\ [mode |-> mode, pc |-> pc, ie |-> mstatus.SIE] \in Frame
      /\ [mode |-> mode, pc |-> pc, ie |-> mstatus.MIE] \in Frame
      /\ Len(kstack) \in Nat /\ Len(sframes) \in Nat
  BY DEF TypeOK, Frame, MStatus
<1>2. CASE Delegated(cause, mode, medeleg, mideleg)
  <2> DEFINE f == [mode |-> mode, pc |-> pc, ie |-> mstatus.SIE]
  <2>1. /\ mstatus' = s_trap_entry(mstatus, mode = S)
        /\ sepc' = pc /\ mode' = S /\ mode # M
        /\ sframes' = Append(sframes, f)
        /\ mframe' = NoFrame
    BY <1>2 DEF deliver_trap, Delegated
  <2>2. AllSaved
    BY <1>2
  <2>3. /\ Len(sframes') = Len(sframes) + 1
        /\ \A i \in 1..Len(sframes) : sframes'[i] = sframes[i]
        /\ sframes'[Len(sframes) + 1] = f
    <3> HIDE DEF f
    <3> QED  BY <1>1, <2>1, AppendProperties DEF TypeOK, f
  <2>4. Last(sframes') = f
    BY <2>3 DEF Last
  <2>5. mode \in {U, S}
    BY <2>1 DEF TypeOK, PrivMode
  <2>6. StackShape'
    <3>1. Len(kstack') <= Len(sframes') /\ Len(sframes') <= Len(kstack') + 1
      BY <1>1, <2>2, <2>3 DEF AllSaved
    <3>2. \A i \in 1..Len(kstack') :
            Holds(sframes'[i], kstack'[i].epc, kstack'[i].spp, kstack'[i].spie)
      BY <1>1, <2>2, <2>3 DEF AllSaved, StackShape
    <3>3. \A i \in 1..Len(sframes') : sframes'[i].mode \in {U, S}
      BY <1>1, <2>3, <2>5 DEF StackShape
    <3> QED
      BY <3>1, <3>2, <3>3 DEF StackShape
  <2>7. SupervisorWindow'
    BY <2>1, <2>4, <2>5 DEF SupervisorWindow, Holds, s_trap_entry, TypeOK, MStatus, U, S
  <2>8. MachineWindow' /\ LevelShape' /\ MprvOnlyInMachine'
    BY <2>1 DEF MachineWindow, LevelShape, Booting, MprvOnlyInMachine,
                s_trap_entry, TypeOK, MStatus, U, S, M
  <2> QED
    BY <2>6, <2>7, <2>8 DEF TrapStateKept
<1>3. CASE ~Delegated(cause, mode, medeleg, mideleg)
  <2> DEFINE f == [mode |-> mode, pc |-> pc, ie |-> mstatus.MIE]
  <2>1. /\ mstatus' = trap_entry(mstatus, mode)
        /\ mepc' = pc /\ mode' = M /\ mframe' = f
        /\ sepc' = sepc /\ sframes' = sframes
    BY <1>3 DEF deliver_trap
  <2>2. f # NoFrame
    BY <1>1, NoFrameAssumption
  <2>3. StackShape'
    BY <2>1 DEF StackShape
  <2>4. SupervisorWindow'
    BY <2>1 DEF TrapStateKept, SupervisorWindow, Holds, trap_entry, TypeOK, MStatus
  <2>5. MachineWindow'
    BY <2>1 DEF MachineWindow, trap_entry, TypeOK, MStatus
  <2>6. LevelShape'
    BY <2>1, <2>2 DEF LevelShape, Booting, AllSaved, U, M
  <2>7. MprvOnlyInMachine'
    BY <2>1 DEF MprvOnlyInMachine
  <2> QED
    BY <2>3, <2>4, <2>5, <2>6, <2>7 DEF TrapStateKept
<1> QED
  BY <1>2, <1>3

\* Nothing can be delivered while firmware handles a trap, and nothing goes
\* to S-mode before the kernel has saved what it is handling.
LEMMA InterruptAllowed ==
  ASSUME IInv, NEW ip, FiringNow(ip) # {},
         NEW cause, cause = [interrupt |-> TRUE, code |-> Chosen(FiringNow(ip))]
  PROVE  /\ mframe = NoFrame
         /\ Delegated(cause, mode, medeleg, mideleg) => AllSaved
<1> DEFINE i == Chosen(FiringNow(ip))
<1>1. CanFire(i, mode, mstatus, mideleg)
  BY ChosenNow
<1> HIDE DEF i
<1>2. mframe = NoFrame
  BY <1>1 DEF IInv, TrapStateKept, MachineWindow, CanFire
<1>3. ASSUME Delegated(cause, mode, medeleg, mideleg)
      PROVE  AllSaved
  <2>1. mode # M /\ i \in mideleg
    BY <1>3 DEF Delegated, i
  <2>2. mstatus.SIE = 1
    BY <1>1, <2>1 DEF CanFire
  <2>3. ~(Len(kstack) < Len(sframes))
    BY <2>2 DEF IInv, TrapStateKept, SupervisorWindow
  <2> QED
    BY <2>3 DEF IInv, StackShape, AllSaved, TypeOK
<1> QED
  BY <1>2, <1>3

\* The exceptions guest code may raise meet the conditions of DeliverInv.
LEMMA ExceptionAllowed ==
  ASSUME IInv, NEW cause, MayTrap(cause)
  PROVE  /\ mframe = NoFrame
         /\ Delegated(cause, mode, medeleg, mideleg) => AllSaved
  BY DEF IInv, MayTrap, AllSaved, TrapStateKept, MachineWindow, LevelShape, TypeOK, PrivMode

LEMMA InvStep ==
  ASSUME IInv, [Next]_vars
  PROVE  IInv'
<1> USE DEF csrs, traps, frames
<1>0. TypeOK /\ TypeOK'
  BY TypeStep DEF IInv
<1>1. CASE Interrupt
  BY <1>0, <1>1, InterruptCause, InterruptAllowed, DeliverInv DEF Interrupt, TakeInterrupt
<1>2. CASE Poll
  <2>1. PICK high \in SUBSET Lines :
          /\ IF FiringNow((mip \ Lines) \cup high) # {}
             THEN TakeInterrupt((mip \ Lines) \cup high)
             ELSE UNCHANGED <<mode, pc, mstatus, traps, frames>>
          /\ UNCHANGED kstack
    BY <1>2 DEF Poll
  <2>2. CASE FiringNow((mip \ Lines) \cup high) # {}
    BY <1>0, <2>1, <2>2, InterruptCause, InterruptAllowed, DeliverInv DEF TakeInterrupt
  <2>3. CASE FiringNow((mip \ Lines) \cup high) = {}
    BY <1>0, <2>1, <2>3 DEF IInv, StackShape, LevelShape, Booting, AllSaved, TrapStateKept,
         SupervisorWindow, MachineWindow, MprvOnlyInMachine
  <2> QED
    BY <2>2, <2>3
<1>3. CASE Run
  BY <1>0, <1>3 DEF Run, IInv, StackShape, LevelShape, Booting, AllSaved, TrapStateKept,
       SupervisorWindow, MachineWindow, MprvOnlyInMachine
<1>4. CASE Exception
  BY <1>0, <1>4, ExceptionCause, ExceptionAllowed, DeliverInv DEF Exception
<1>5. CASE Ecall
  BY <1>0, <1>5, ExceptionCause, ExceptionAllowed, DeliverInv DEF Ecall
<1>6. CASE Mret
  <2> USE <1>0, <1>6 DEF Mret, mret
  <2>1. /\ mstatus'.SPP = mstatus.SPP /\ mstatus'.SPIE = mstatus.SPIE
        /\ mstatus'.SIE = mstatus.SIE
        /\ mstatus.MPP # M => mstatus'.MPRV = 0
    BY DEF TypeOK, MStatus
  <2>2. StackShape'
    BY DEF IInv, StackShape
  <2>3. LevelShape'
    BY DEF IInv, LevelShape, Booting, AllSaved, TrapStateKept, MachineWindow, StackShape,
           TypeOK, U, M
  <2>4. SupervisorWindow'
    BY <2>1 DEF IInv, TrapStateKept, SupervisorWindow
  <2>5. MachineWindow' /\ MprvOnlyInMachine'
    BY <2>1 DEF MachineWindow, MprvOnlyInMachine
  <2> QED
    BY <2>2, <2>3, <2>4, <2>5 DEF IInv, TrapStateKept
<1>7. CASE Sret
  <2>1. CASE mstatus.TSR = 1
    <3>1. mframe = NoFrame
      BY <1>7 DEF Sret, IInv, TrapStateKept, MachineWindow, U, S, M
    <3>2. ~Delegated([interrupt |-> FALSE, code |-> 2], mode, medeleg, mideleg)
      BY <1>7, <2>1 DEF Sret, Delegated
    <3> QED
      BY <1>0, <1>7, <2>1, <3>1, <3>2, ExceptionCause, DeliverInv DEF Sret
  <2>2. CASE mstatus.TSR # 1
    <3>1. mframe = NoFrame
      BY <1>7 DEF Sret, IInv, TrapStateKept, MachineWindow, S, M
    <3>2. /\ mode' \in {U, S} /\ mframe' = NoFrame
          /\ kstack' = kstack /\ mstatus'.MPRV = 0
      BY <1>7, <2>2, <3>1, <1>0 DEF Sret, s_ret, TypeOK, MStatus
    <3>3. CASE sframes = <<>>
      <4>1. sframes' = <<>> /\ Len(kstack) = 0 /\ Len(sframes) = 0
        BY <1>0, <1>7, <2>2, <3>3 DEF Sret, IInv, StackShape, TypeOK
      <4> QED
        BY <1>0, <3>2, <3>3, <4>1 DEF IInv, StackShape, LevelShape, Booting, AllSaved,
             TrapStateKept, SupervisorWindow, MachineWindow, MprvOnlyInMachine, U, S, M
    <3>4. CASE sframes # <<>>
      <4>1. /\ sframes' = Front(sframes)
            /\ Len(kstack) = Len(sframes) - 1
        BY <1>7, <2>2, <3>4 DEF Sret
      <4>2. /\ Len(sframes') = Len(kstack')
            /\ \A i \in 1..(Len(sframes) - 1) : sframes'[i] = sframes[i]
            /\ Len(sframes) \in Nat /\ Len(kstack) \in Nat
        <5>1. sframes \in Seq(Frame) /\ Len(sframes) \in Nat /\ Len(kstack) \in Nat
          BY <1>0 DEF TypeOK
        <5>2. /\ Len(Front(sframes)) = Len(sframes) - 1
              /\ \A i \in 1..(Len(sframes) - 1) : Front(sframes)[i] = sframes[i]
          BY <3>4, <5>1, FrontLast, Zenon
        <5> QED
          BY <3>2, <4>1, <5>1, <5>2
      <4>3. StackShape'
        <5>1. Len(kstack') <= Len(sframes') /\ Len(sframes') <= Len(kstack') + 1
          BY <3>2, <4>2
        <5>2. \A i \in 1..Len(kstack') :
                Holds(sframes'[i], kstack'[i].epc, kstack'[i].spp, kstack'[i].spie)
          BY <3>2, <4>1, <4>2 DEF IInv, StackShape
        <5>3. \A i \in 1..Len(sframes') : sframes'[i].mode \in {U, S}
          BY <3>2, <4>1, <4>2 DEF IInv, StackShape
        <5> QED
          BY <5>1, <5>2, <5>3 DEF StackShape
      <4>4. SupervisorWindow'
        BY <3>2, <4>2 DEF SupervisorWindow
      <4> QED
        BY <1>0, <3>2, <4>2, <4>3, <4>4 DEF IInv, LevelShape, Booting, AllSaved,
             TrapStateKept, MachineWindow, MprvOnlyInMachine, U, S, M
    <3> QED
      BY <3>3, <3>4
  <2> QED
    BY <2>1, <2>2
<1>8. CASE WriteDelegation
  BY <1>0, <1>8 DEF WriteDelegation, IInv, StackShape, LevelShape, Booting, AllSaved,
       TrapStateKept, SupervisorWindow, MachineWindow, MprvOnlyInMachine
<1>9. CASE WriteMie
  BY <1>0, <1>9 DEF WriteMie, IInv, StackShape, LevelShape, Booting, AllSaved,
       TrapStateKept, SupervisorWindow, MachineWindow, MprvOnlyInMachine
<1>10. CASE WriteMip
  BY <1>0, <1>10 DEF WriteMip, IInv, StackShape, LevelShape, Booting, AllSaved,
       TrapStateKept, SupervisorWindow, MachineWindow, MprvOnlyInMachine
<1>11. CASE WriteBootContext
  <2>1. sframes = <<>> /\ mframe' = NoFrame /\ Len(sframes) = 0 /\ Len(kstack) \in Nat
    BY <1>0, <1>11 DEF WriteBootContext, Booting, IInv, LevelShape, TypeOK
  <2> QED
    BY <1>0, <1>11, <2>1 DEF WriteBootContext, IInv, StackShape, LevelShape, Booting, AllSaved,
       TrapStateKept, SupervisorWindow, MachineWindow, MprvOnlyInMachine
<1>12. CASE WriteMIE
  <2>1. sframes = <<>> /\ mframe' = NoFrame /\ Len(sframes) = 0 /\ Len(kstack) \in Nat
    BY <1>0, <1>12 DEF WriteMIE, Booting, IInv, LevelShape, TypeOK
  <2> QED
    BY <1>0, <1>12, <2>1 DEF WriteMIE, IInv, StackShape, LevelShape, Booting, AllSaved,
       TrapStateKept, SupervisorWindow, MachineWindow, MprvOnlyInMachine
<1>13. CASE WriteMPRV
  BY <1>0, <1>13 DEF WriteMPRV, IInv, StackShape, LevelShape, Booting, AllSaved,
       TrapStateKept, SupervisorWindow, MachineWindow, MprvOnlyInMachine, TypeOK, MStatus
<1>14. CASE SaveContext
  <2> DEFINE s == [epc |-> sepc, spp |-> mstatus.SPP, spie |-> mstatus.SPIE]
  <2>1. s \in Saved /\ kstack' = Append(kstack, s) /\ Len(kstack) < Len(sframes)
    BY <1>0, <1>14 DEF SaveContext, TypeOK, MStatus, Saved
  <2>2. UNCHANGED <<mode, mstatus, sepc, mepc, sframes, mframe>>
    BY <1>14 DEF SaveContext
  <2> HIDE DEF s
  <2>3. /\ Len(kstack') = Len(kstack) + 1
        /\ \A i \in 1..Len(kstack) : kstack'[i] = kstack[i]
        /\ kstack'[Len(kstack) + 1] = s
        /\ Len(kstack) \in Nat /\ Len(sframes) \in Nat
    BY <1>0, <2>1, AppendProperties DEF TypeOK
  <2>4. Len(sframes) = Len(kstack) + 1
    BY <2>1, <2>3 DEF IInv, StackShape
  <2>5. Holds(sframes[Len(sframes)], s.epc, s.spp, s.spie)
    BY <2>1 DEF IInv, TrapStateKept, SupervisorWindow, s, Last
  <2>6. StackShape'
    <3>1. \A i \in 1..Len(kstack') :
            Holds(sframes'[i], kstack'[i].epc, kstack'[i].spp, kstack'[i].spie)
      BY <2>2, <2>3, <2>4, <2>5 DEF IInv, StackShape
    <3> QED
      BY <2>2, <2>3, <2>4, <3>1 DEF IInv, StackShape
  <2>7. SupervisorWindow'
    BY <2>2, <2>3, <2>4 DEF SupervisorWindow
  <2> QED
    BY <1>0, <2>2, <2>3, <2>4, <2>6, <2>7 DEF IInv, LevelShape, Booting, AllSaved,
       TrapStateKept, MachineWindow, MprvOnlyInMachine
<1>15. CASE WriteSIE
  <2>1. PICK b \in Bit : mstatus' = [mstatus EXCEPT !.SIE = b]
    BY <1>15 DEF WriteSIE
  <2>2. /\ mstatus'.MIE = mstatus.MIE /\ mstatus'.MPIE = mstatus.MPIE
        /\ mstatus'.MPP = mstatus.MPP /\ mstatus'.MPRV = mstatus.MPRV
    BY <1>0, <2>1 DEF TypeOK, MStatus
  <2>3. ~(Len(kstack') < Len(sframes'))
    BY <1>0, <1>15 DEF WriteSIE, AllSaved, TypeOK
  <2> QED
    BY <1>0, <1>15, <2>2, <2>3 DEF WriteSIE, IInv, StackShape, LevelShape, Booting, AllSaved,
       TrapStateKept, SupervisorWindow, MachineWindow, MprvOnlyInMachine
<1>16. CASE RestoreContext
  <2> DEFINE top == Last(kstack)
  <2>1. /\ AllSaved /\ kstack # <<>> /\ mode = S
        /\ mstatus.SIE = 0
        /\ sepc' = top.epc
        /\ mstatus' = [mstatus EXCEPT !.SPP = top.spp, !.SPIE = top.spie]
        /\ kstack' = Front(kstack)
        /\ UNCHANGED <<mode, mepc, sframes, mframe>>
    BY <1>16 DEF RestoreContext
  <2>2. mframe = NoFrame
    BY <2>1 DEF IInv, TrapStateKept, MachineWindow, S, M
  <2>3. /\ top = kstack[Len(kstack)]
        /\ Len(kstack') = Len(kstack) - 1
        /\ \A i \in 1..(Len(kstack) - 1) : kstack'[i] = kstack[i]
        /\ Len(kstack) \in Nat \ {0} /\ Len(sframes) = Len(kstack)
    <3>1. kstack \in Seq(Saved) /\ Len(kstack) \in Nat \ {0} /\ Len(sframes) = Len(kstack)
      BY <1>0, <2>1 DEF TypeOK, AllSaved
    <3>2. /\ Last(kstack) = kstack[Len(kstack)]
          /\ Len(Front(kstack)) = Len(kstack) - 1
          /\ \A i \in 1..(Len(kstack) - 1) : Front(kstack)[i] = kstack[i]
      BY <2>1, <3>1, FrontLast, Zenon
    <3> QED
      BY <2>1, <3>1, <3>2
  <2>4. Holds(sframes[Len(sframes)], top.epc, top.spp, top.spie)
    BY <2>3 DEF IInv, StackShape
  <2> HIDE DEF top
  <2>5. /\ mstatus'.SPP = top.spp /\ mstatus'.SPIE = top.spie
        /\ mstatus'.SIE = 0 /\ mstatus'.MPRV = mstatus.MPRV
    BY <1>0, <2>1 DEF TypeOK, MStatus
  <2>6. StackShape'
    <3>1. \A i \in 1..Len(kstack') :
            Holds(sframes'[i], kstack'[i].epc, kstack'[i].spp, kstack'[i].spie)
      BY <2>1, <2>3 DEF IInv, StackShape
    <3> QED
      BY <2>1, <2>3, <3>1 DEF IInv, StackShape
  <2>7. SupervisorWindow'
    BY <2>1, <2>4, <2>5 DEF SupervisorWindow, Last
  <2> QED
    BY <1>0, <2>1, <2>2, <2>5, <2>6, <2>7 DEF IInv, LevelShape, Booting, AllSaved,
       TrapStateKept, MachineWindow, MprvOnlyInMachine, U, S, M
<1>17. CASE WriteUserContext
  <2>1. /\ sframes = <<>> /\ sframes' = <<>> /\ kstack' = kstack /\ mode = S /\ mode' = S
        /\ mframe' = mframe /\ mstatus'.MPRV = mstatus.MPRV /\ Len(sframes) = 0
        /\ Len(kstack) \in Nat
    BY <1>0, <1>17 DEF WriteUserContext, TypeOK, MStatus
  <2>2. mframe = NoFrame
    BY <2>1 DEF IInv, TrapStateKept, MachineWindow, S, M
  <2> QED
    BY <1>0, <2>1, <2>2 DEF IInv, StackShape, LevelShape, Booting, AllSaved,
       TrapStateKept, SupervisorWindow, MachineWindow, MprvOnlyInMachine, U, S, M
<1>18. CASE WriteSip
  BY <1>0, <1>18 DEF WriteSip, IInv, StackShape, LevelShape, Booting, AllSaved,
       TrapStateKept, SupervisorWindow, MachineWindow, MprvOnlyInMachine
<1>19. CASE WriteSie
  BY <1>0, <1>19 DEF WriteSie, IInv, StackShape, LevelShape, Booting, AllSaved,
       TrapStateKept, SupervisorWindow, MachineWindow, MprvOnlyInMachine
<1>20. CASE UNCHANGED vars
  BY <1>0, <1>20 DEF vars, IInv, StackShape, LevelShape, Booting, AllSaved,
       TrapStateKept, SupervisorWindow, MachineWindow, MprvOnlyInMachine
<1> QED
  BY <1>1, <1>2, <1>3, <1>4, <1>5, <1>6, <1>7, <1>8, <1>9, <1>10, <1>11, <1>12,
     <1>13, <1>14, <1>15, <1>16, <1>17, <1>18, <1>19, <1>20 DEF Next

LEMMA InitInv == Init => IInv
<1> SUFFICES ASSUME Init PROVE IInv
  OBVIOUS
<1>1. TypeOK
  BY InitType
<1>2. Len(kstack) = 0 /\ Len(sframes) = 0
  BY DEF Init
<1> QED
  BY <1>1, <1>2 DEF Init, IInv, StackShape, LevelShape, AllSaved, TrapStateKept,
       SupervisorWindow, MachineWindow, MprvOnlyInMachine, U, M

\* The inductive invariant holds in every reachable state of the hart (cpu/mod.rs).
THEOREM Invariance == Spec => []IInv
<1>1. IInv /\ [Next]_vars => IInv'
  BY InvStep
<1> QED
  BY InitInv, <1>1, PTL DEF Spec

\* A trapped context stays recoverable, whatever traps nest on top of it.
THEOREM TrapStateSafe == Spec => []TrapStateKept
<1>1. IInv => TrapStateKept
  BY DEF IInv
<1> QED
  BY Invariance, <1>1, PTL

\* MPRV never applies to S- or U-mode code.
THEOREM MprvSafe == Spec => []MprvOnlyInMachine
<1>1. IInv => MprvOnlyInMachine
  BY DEF IInv
<1> QED
  BY Invariance, <1>1, PTL

-----------------------------------------------------------------------------
(* Returns and priorities.                                                 *)

\* deliver_trap never ends an interruption, it starts one.
LEMMA DeliverFrames ==
  ASSUME TypeOK, NEW cause, deliver_trap(cause)
  PROVE  /\ mframe # NoFrame => mframe' # NoFrame
         /\ ~(Len(sframes') < Len(sframes))
         /\ Len(sframes') > Len(sframes) =>
              scause' = cause /\ Delegated(cause, mode, medeleg, mideleg)
<1>1. CASE Delegated(cause, mode, medeleg, mideleg)
  <2>1. [mode |-> mode, pc |-> pc, ie |-> mstatus.SIE] \in Frame
    BY DEF TypeOK, Frame, MStatus
  <2>2. Len(sframes') = Len(sframes) + 1 /\ Len(sframes) \in Nat
    BY <1>1, <2>1, AppendProperties DEF deliver_trap, TypeOK
  <2> QED
    BY <1>1, <2>2 DEF deliver_trap
<1>2. CASE ~Delegated(cause, mode, medeleg, mideleg)
  <2>1. [mode |-> mode, pc |-> pc, ie |-> mstatus.MIE] # NoFrame
    BY NoFrameAssumption DEF TypeOK, Frame, MStatus
  <2>2. ~(Len(sframes) < Len(sframes))
    BY DEF TypeOK
  <2> QED
    BY <1>2, <2>1, <2>2 DEF deliver_trap
<1> QED
  BY <1>1, <1>2

\* What the other steps do to the history of interrupted contexts.
LEMMA StepFrames ==
  ASSUME TypeOK, [Next]_vars
  PROVE  \/ UNCHANGED <<sframes, mframe>>
         \/ Mret \/ Sret
         \/ Interrupt
         \/ \E ip : FiringNow(ip) # {} /\ mip' = ip /\ TakeInterrupt(ip)
         \/ \E cause : ~cause.interrupt /\ deliver_trap(cause)
<1> USE DEF frames
<1>1. CASE Poll
  BY <1>1 DEF Poll
<1>2. CASE Exception \/ Ecall
  BY <1>2 DEF Exception, Ecall
<1>3. CASE Run \/ WriteDelegation \/ WriteMie \/ WriteMip \/ WriteBootContext \/ WriteMIE
  BY <1>3 DEF Run, WriteDelegation, WriteMie, WriteMip, WriteBootContext, WriteMIE
<1>4. CASE WriteMPRV \/ SaveContext \/ WriteSIE \/ RestoreContext \/ WriteUserContext
  BY <1>4 DEF WriteMPRV, SaveContext, WriteSIE, RestoreContext, WriteUserContext
<1>5. CASE WriteSip \/ WriteSie \/ UNCHANGED vars
  BY <1>5 DEF WriteSip, WriteSie, vars
<1> QED
  BY <1>1, <1>2, <1>3, <1>4, <1>5 DEF Next

LEMMA ReturnLemma ==
  ASSUME IInv, [Next]_vars
  PROVE  ReturnStep
<1> USE DEF ReturnStep
<1>0. TypeOK /\ ~(Len(sframes) < Len(sframes))
  BY DEF IInv, TypeOK
<1>1. CASE UNCHANGED <<sframes, mframe>>
  BY <1>0, <1>1
<1>2. CASE Mret
  BY <1>0, <1>2 DEF Mret, mret, IInv, TrapStateKept, MachineWindow, TypeOK, MStatus
<1>3. CASE Sret
  <2>1. CASE mstatus.TSR = 1
    BY <1>0, <1>3, <2>1, DeliverFrames DEF Sret
  <2>2. CASE mstatus.TSR # 1 /\ sframes = <<>>
    BY <1>0, <1>3, <2>2 DEF Sret
  <2>3. CASE mstatus.TSR # 1 /\ sframes # <<>>
    <3>1. Len(kstack) < Len(sframes) /\ Len(sframes) \in Nat \ {0}
      BY <1>0, <1>3, <2>3 DEF Sret, TypeOK
    <3>2. Holds(Last(sframes), sepc, mstatus.SPP, mstatus.SPIE)
      BY <3>1 DEF IInv, TrapStateKept, SupervisorWindow
    <3>3. Last(sframes).mode \in {U, S}
      BY <3>1 DEF IInv, StackShape, Last
    <3>4. /\ mode' = (IF mstatus.SPP = 1 THEN S ELSE U)
          /\ mstatus'.SIE = mstatus.SPIE /\ pc' = sepc /\ mframe' = mframe
      BY <1>0, <1>3, <2>3 DEF Sret, s_ret, TypeOK, MStatus
    <3> QED
      BY <3>2, <3>3, <3>4 DEF Holds, U, S
  <2> QED
    BY <2>1, <2>2, <2>3
<1>4. CASE Interrupt
  BY <1>0, <1>4, DeliverFrames DEF Interrupt, TakeInterrupt
<1>5. CASE \E ip : FiringNow(ip) # {} /\ mip' = ip /\ TakeInterrupt(ip)
  BY <1>0, <1>5, DeliverFrames DEF TakeInterrupt
<1>6. CASE \E cause : ~cause.interrupt /\ deliver_trap(cause)
  BY <1>0, <1>6, DeliverFrames
<1> QED
  BY <1>0, <1>1, <1>2, <1>3, <1>4, <1>5, <1>6, StepFrames

\* Every return resumes the context its trap interrupted.
THEOREM ReturnsRestore == Spec => ReturnRestores
<1>1. IInv /\ [Next]_vars => [ReturnStep]_vars
  BY ReturnLemma
<1> QED
  BY Invariance, <1>1, PTL DEF Spec, ReturnRestores

\* The ranks of the interrupts standard delegation leaves to M-mode are all
\* below those it gives to S-mode.
LEMMA TakenRank ==
  ASSUME TypeOK, mideleg \in {{}, SMask}, NEW ip, FiringNow(ip) # {},
         ip \in SUBSET Irq,
         Delegated([interrupt |-> TRUE, code |-> Chosen(FiringNow(ip))], mode, medeleg, mideleg)
  PROVE  (ip \cap mie) \ mideleg = {}
<1> DEFINE i == Chosen(FiringNow(ip))
<1>1. /\ mode # M
      /\ i \in mideleg
      /\ \A j \in FiringNow(ip) : Rank(i) <= Rank(j)
  BY ChosenNow DEF Delegated
<1> HIDE DEF i
<1>2. mideleg = SMask /\ i \in {1, 5, 9}
  BY <1>1 DEF SMask
<1>3. ASSUME NEW j \in (ip \cap mie) \ mideleg
      PROVE  FALSE
  <2>1. j \in {11, 3, 7}
    BY <1>2 DEF Irq, SMask
  <2>2. j \in FiringNow(ip)
    BY <1>1, <2>1 DEF FiringNow, Firing, CanFire, Irq
  <2>3. Rank(i) <= Rank(j)
    BY <1>1, <2>2
  <2>4. Rank(i) \in {4, 5, 6} /\ Rank(j) \in {1, 2, 3}
    BY <1>2, <2>1, RankValues
  <2> QED
    BY <2>3, <2>4
<1> QED
  BY <1>3

LEMMA EntryLemma ==
  ASSUME TypeOK, TypeOK', mideleg \in {{}, SMask}, [Next]_vars
  PROVE  SupervisorEntryStep
<1> USE DEF SupervisorEntryStep
<1>0. ~(Len(sframes) > Len(sframes))
  BY DEF TypeOK
<1>1. CASE UNCHANGED <<sframes, mframe>>
  BY <1>0, <1>1
<1>2. CASE Mret
  BY <1>0, <1>2 DEF Mret
<1>3. CASE Sret
  <2>1. CASE mstatus.TSR = 1
    BY <1>3, <2>1, DeliverFrames DEF Sret
  <2>2. CASE mstatus.TSR # 1 /\ sframes = <<>>
    BY <1>0, <1>3, <2>2 DEF Sret
  <2>3. CASE mstatus.TSR # 1 /\ sframes # <<>>
    <3>1. sframes \in Seq(Frame) /\ Len(sframes) \in Nat
      BY DEF TypeOK
    <3>2. Len(Front(sframes)) = Len(sframes) - 1
      BY <2>3, <3>1, FrontLast, Zenon
    <3> QED
      BY <1>3, <2>3, <3>1, <3>2 DEF Sret
  <2> QED
    BY <2>1, <2>2, <2>3
<1>4. CASE Interrupt
  <2>1. mip' = mip /\ mip \in SUBSET Irq
    BY <1>4 DEF Interrupt, csrs, TypeOK
  <2> QED
    BY <1>4, <2>1, DeliverFrames, TakenRank DEF Interrupt, TakeInterrupt
<1>5. CASE \E ip : FiringNow(ip) # {} /\ mip' = ip /\ TakeInterrupt(ip)
  <2>1. mip' \in SUBSET Irq
    BY DEF TypeOK
  <2> QED
    BY <1>5, <2>1, DeliverFrames, TakenRank DEF TakeInterrupt
<1>6. CASE \E cause : ~cause.interrupt /\ deliver_trap(cause)
  BY <1>6, DeliverFrames
<1> QED
  BY <1>1, <1>2, <1>3, <1>4, <1>5, <1>6, StepFrames

\* With the delegation firmware sets up, M-level interrupts come first.
THEOREM MachineComesFirst ==
  ASSUME StandardDelegation
  PROVE  Spec => MachineFirst
<1> DEFINE DInv == mideleg \in {{}, SMask}
<1>1. Init => DInv
  BY DEF Init
<1>2. DInv /\ [Next]_vars => DInv'
  BY StandardDelegation DEF Next, vars, csrs, StandardDelegation, Interrupt, Poll, Run, Exception,
     Ecall, Mret, Sret, WriteDelegation, WriteMie, WriteMip, WriteBootContext, WriteMIE, WriteMPRV,
     SaveContext, WriteSIE, RestoreContext, WriteUserContext, WriteSip, WriteSie
<1>3. TypeOK /\ TypeOK' /\ DInv /\ [Next]_vars => [SupervisorEntryStep]_vars
  BY EntryLemma
<1> QED
  BY TypeCorrect, <1>1, <1>2, <1>3, PTL DEF Spec, MachineFirst
=============================================================================
