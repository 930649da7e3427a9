--------------------------- MODULE IrqPath_proofs ---------------------------
(***************************************************************************)
(* Proofs about the PLIC's arbitration and the interrupt path, for every   *)
(* set of sources and every priority, and for queues of every length.      *)
(***************************************************************************)
EXTENDS IrqPath, WellFoundedInduction, TLAPS

-----------------------------------------------------------------------------
(* The arbitration of best_irq.                                            *)

\* A nonempty set of numbers has a least one.
LEMMA LeastNat ==
  ASSUME NEW T \in SUBSET Nat, T # {}
  PROVE  \E n \in T : \A m \in T : n <= m
<1>1. PICK n \in T : \A m \in T : ~(<<m, n>> \in OpToRel(<, Nat))
  BY NatLessThanWellFounded, WFMin
<1>2. \A m \in T : ~(m < n)
  BY <1>1 DEF OpToRel
<1> QED
  BY <1>2

\* Among sources there is one of highest priority and, among its equals,
\* of lowest number.
LEMMA BestExists ==
  ASSUME NEW p \in PlicState, NEW C \in SUBSET Source, C # {}
  PROVE  \E i \in C : \A j \in C : \/ p.priority[i] > p.priority[j]
                                   \/ p.priority[i] = p.priority[j] /\ i <= j
<1>1. /\ \A i \in C : i \in Nat
      /\ \A i \in C : p.priority[i] \in Nat /\ MaxPriority - p.priority[i] \in Nat
  BY SourceAssumption, PriorityAssumption DEF PlicState
<1> DEFINE gap(i) == MaxPriority - p.priority[i]
           G == {gap(i) : i \in C}
<1>2. PICK g \in G : \A h \in G : g <= h
  <2>1. G \in SUBSET Nat /\ G # {}
    BY <1>1
  <2> HIDE DEF G
  <2> QED
    BY <2>1, LeastNat
<1> DEFINE T == {i \in C : gap(i) = g}
<1>3. PICK i \in T : \A j \in T : i <= j
  <2>1. T \in SUBSET Nat /\ T # {}
    BY <1>1, <1>2
  <2> HIDE DEF T
  <2> QED
    BY <2>1, LeastNat
<1>4. ASSUME NEW j \in C
      PROVE  p.priority[i] > p.priority[j] \/ (p.priority[i] = p.priority[j] /\ i <= j)
  <2>1. i \in C /\ gap(i) = g
    BY <1>3
  <2>2. gap(i) <= gap(j)
    BY <1>2, <2>1
  <2>3. p.priority[i] >= p.priority[j]
    BY <1>1, <2>1, <2>2, PriorityAssumption
  <2>4. CASE p.priority[i] = p.priority[j]
    BY <1>3, <2>1, <2>4
  <2>5. CASE p.priority[i] # p.priority[j]
    BY <1>1, <2>1, <2>3, <2>5
  <2> QED
    BY <2>4, <2>5
<1> QED
  BY <1>3, <1>4

\* best_irq answers 0 exactly when nothing is claimable, and otherwise a
\* claimable source that no other one outranks.
THEOREM BestIrqIsBest ==
  ASSUME NEW p \in PlicState, NEW ctx \in Context
  PROVE  /\ best_irq(p, ctx) = 0 <=> Claimable(p, ctx) = {}
         /\ Claimable(p, ctx) # {} =>
              /\ best_irq(p, ctx) \in Claimable(p, ctx)
              /\ \A j \in Claimable(p, ctx) :
                   p.priority[j] <= p.priority[best_irq(p, ctx)]
<1> DEFINE C == Claimable(p, ctx)
           best(i) == \A j \in C : \/ p.priority[i] > p.priority[j]
                                   \/ p.priority[i] = p.priority[j] /\ i <= j
<1>1. C \in SUBSET Source /\ 0 \notin C /\ \A i \in C : p.priority[i] \in Nat
  BY SourceAssumption, PriorityAssumption DEF Claimable, PlicState
<1>2. CASE C = {}
  BY <1>2 DEF best_irq
<1>3. CASE C # {}
  <2>1. \E i \in C : best(i)
    <3> HIDE DEF C
    <3> QED  BY <1>1, <1>3, BestExists
  <2>2. best_irq(p, ctx) = CHOOSE i \in C : best(i)
    BY <1>3 DEF best_irq
  <2>3. best_irq(p, ctx) \in C /\ best(best_irq(p, ctx))
    <3> HIDE DEF C, best
    <3> QED  BY <2>1, <2>2
  <2>4. \A j \in C : p.priority[j] <= p.priority[best_irq(p, ctx)]
    BY <1>1, <2>3
  <2> QED
    BY <1>1, <1>3, <2>3, <2>4
<1> QED
  BY <1>2, <1>3

-----------------------------------------------------------------------------
(* The PLIC's operations keep its type and touch the pending bits only.    *)

LEMMA SetPendingOp ==
  ASSUME NEW p \in PlicState, NEW irq \in Source, NEW b \in BOOLEAN
  PROVE  /\ set_pending(p, irq, b) \in PlicState
         /\ set_pending(p, irq, b).enable = p.enable
         /\ b => set_pending(p, irq, b).pending = p.pending \cup {irq}
         /\ ~b => set_pending(p, irq, b).pending = p.pending \ {irq}
<1>1. CASE b
  BY <1>1 DEF set_pending, PlicState
<1>2. CASE ~b
  BY <1>2 DEF set_pending, PlicState
<1> QED
  BY <1>1, <1>2

LEMMA ClaimOp ==
  ASSUME NEW p \in PlicState
  PROVE  /\ claim(p, 1) \in PlicState /\ claim(p, 1).enable = p.enable
         /\ claim(p, 1).pending = p.pending \ {best_irq(p, 1)}
  BY DEF claim, PlicState

LEMMA CompleteOp ==
  ASSUME NEW p \in PlicState, NEW irq
  PROVE  /\ complete(p, irq) \in PlicState /\ complete(p, irq).enable = p.enable
         /\ complete(p, irq).pending = p.pending \ {irq}
  BY DEF complete, PlicState

LEMMA SetEnableOp ==
  ASSUME NEW p \in PlicState, NEW E \in SUBSET Source
  PROVE  /\ set_enable(p, 1, E) \in PlicState
         /\ set_enable(p, 1, E).enable[1] = E
         /\ set_enable(p, 1, E).pending = p.pending
  BY DEF set_enable, PlicState, Context

LEMMA Sources == DISK \in Source /\ UART \in Source /\ DISK # UART /\ DISK # 0 /\ UART # 0
  BY WiringAssumption DEF DISK, UART

\* The PLIC after the poll has sampled both lines.
LEMMA Sampled ==
  ASSUME TypeOK, NEW b \in BOOLEAN, NEW q,
         q = set_pending(set_pending(plic, UART, b), DISK, irq_status # 0)
  PROVE  /\ q \in PlicState /\ q.enable = plic.enable
         /\ DISK \in q.pending <=> irq_status = 1
<1> DEFINE p1 == set_pending(plic, UART, b)
<1>1. plic \in PlicState /\ irq_status \in {0, 1}
  BY DEF TypeOK
<1>2. p1 \in PlicState /\ p1.enable = plic.enable
  BY <1>1, SetPendingOp, Sources
<1>3. q = set_pending(p1, DISK, irq_status # 0)
  OBVIOUS
<1> HIDE DEF p1
<1>4. /\ q \in PlicState /\ q.enable = p1.enable
      /\ irq_status # 0 => q.pending = p1.pending \cup {DISK}
      /\ irq_status = 0 => q.pending = p1.pending \ {DISK}
  <2>1. CASE irq_status # 0
    <3>1. q = [p1 EXCEPT !.pending = p1.pending \cup {DISK}]
      BY <1>2, <1>3, <2>1 DEF set_pending, PlicState
    <3> QED
      BY <1>2, <2>1, <3>1, Sources DEF PlicState
  <2>2. CASE irq_status = 0
    BY <1>2, <1>3, <2>2, Sources DEF set_pending, PlicState
  <2> QED
    BY <2>1, <2>2
<1> QED
  BY <1>1, <1>2, <1>4

-----------------------------------------------------------------------------
(* The disk's pending bit is never left over.                              *)

LEMMA InvStep ==
  ASSUME IInv, [Next]_vars
  PROVE  IInv'
<1> USE Sources DEF devices, kernel
<1> USE DEF IInv
<1>1. CASE Poll
  <2> DEFINE q == set_pending(set_pending(plic, UART, uart_irq(rx + chan)), DISK, irq_status # 0)
  <2>1. uart_irq(rx + chan) \in BOOLEAN
    BY DEF uart_irq
  <2>2. /\ q \in PlicState /\ q.enable = plic.enable
        /\ DISK \in q.pending <=> irq_status = 1
    BY <2>1, Sampled
  <2>3. /\ plic' = q /\ rx' = rx + chan /\ chan' = 0 /\ dirty' = FALSE
        /\ UNCHANGED <<ier, irq_status, used, cur, status, masks>>
    BY <1>1 DEF Poll
  <2>4. seip' = has_interrupt(q)
    BY <1>1 DEF Poll
  <2>5. \/ sie' = FALSE /\ phase' = "claim" /\ sie
        \/ UNCHANGED <<sie, phase>>
    BY <1>1 DEF Poll, TakeTrap, Deliverable
  <2> HIDE DEF q
  <2>6. TypeOK'
    <3>1. (seip \in BOOLEAN)'
      BY <2>4, Zenon DEF has_interrupt
    <3>2. (sie \in BOOLEAN /\ phase \in Phase)'
      BY <2>5 DEF TypeOK, Phase
    <3>3. rx' = rx + chan /\ chan' = 0 /\ rx \in Nat /\ chan \in Nat
      BY <2>3 DEF TypeOK
    <3>4. (plic \in PlicState /\ dirty \in BOOLEAN)'
      BY <2>2, <2>3, Zenon
    <3>5. (/\ ier \in SUBSET IerBits /\ irq_status \in {0, 1} /\ used \in Nat
           /\ cur \in Source \cup {0} /\ status \in {0, 1} /\ masks \in Nat)'
      BY <2>3 DEF TypeOK
    <3> QED
      BY <3>1, <3>2, <3>3, <3>4, <3>5 DEF TypeOK
  <2>7. DriversOnly' /\ HandlerMasked' /\ PendingMeansWork' /\ ServingDisk'
    BY <2>2, <2>3, <2>5 DEF DriversOnly, HandlerMasked, PendingMeansWork, ServingDisk
  <2> QED
    BY <2>6, <2>7
<1>2. CASE Interrupt
  <2>1. TypeOK'
    BY <1>2 DEF Interrupt, Deliverable, TakeTrap, TypeOK, Phase
  <2>2. phase' = "claim" /\ sie' = FALSE /\ UNCHANGED <<plic, irq_status, cur>>
    BY <1>2 DEF Interrupt, Deliverable, TakeTrap
  <2>3. phase = "run"
    BY <1>2 DEF Interrupt, Deliverable, HandlerMasked
  <2>4. DriversOnly' /\ HandlerMasked' /\ PendingMeansWork' /\ ServingDisk'
    BY <2>2, <2>3 DEF DriversOnly, HandlerMasked, PendingMeansWork, ServingDisk
  <2> QED
    BY <2>1, <2>4
<1>3. CASE StdinSend
  BY <1>3 DEF StdinSend, TypeOK, DriversOnly, HandlerMasked, PendingMeansWork, ServingDisk
<1>4. CASE Notify
  BY <1>4 DEF Notify, TypeOK, DriversOnly, HandlerMasked, PendingMeansWork, ServingDisk
<1>5. CASE WriteIer \/ DisableInterrupts \/ EnableInterrupts
  BY <1>5 DEF WriteIer, DisableInterrupts, EnableInterrupts, TypeOK, DriversOnly, HandlerMasked,
     PendingMeansWork, ServingDisk
<1>6. CASE MaskSource
  <2>1. PICK i \in plic.enable[1] : plic' = set_enable(plic, 1, plic.enable[1] \ {i})
    BY <1>6 DEF MaskSource
  <2>2. plic.enable[1] \ {i} \in SUBSET Source /\ plic \in PlicState
    BY DEF TypeOK, PlicState, Context
  <2>3. /\ plic' \in PlicState /\ plic'.enable[1] = plic.enable[1] \ {i}
        /\ plic'.pending = plic.pending
    BY <2>1, <2>2, SetEnableOp
  <2> QED
    <3>1. TypeOK'
      BY <1>6, <2>3 DEF MaskSource, TypeOK
    <3>2. DriversOnly'
      BY <2>3 DEF DriversOnly
    <3>3. HandlerMasked' /\ PendingMeansWork' /\ ServingDisk'
      BY <1>6, <2>3 DEF MaskSource, HandlerMasked, PendingMeansWork, ServingDisk
    <3> QED
      BY <3>1, <3>2, <3>3
<1>7. CASE UnmaskSource
  <2>1. {DISK, UART} \in SUBSET Source /\ plic \in PlicState
    BY DEF TypeOK
  <2>2. /\ plic' \in PlicState /\ plic'.enable[1] = {DISK, UART}
        /\ plic'.pending = plic.pending
    BY <1>7, <2>1, SetEnableOp DEF UnmaskSource
  <2> QED
    BY <1>7, <2>2 DEF UnmaskSource, TypeOK, DriversOnly, HandlerMasked, PendingMeansWork, ServingDisk
<1>8. CASE Claim
  <2> DEFINE irq == best_irq(plic, 1)
  <2>1. plic \in PlicState /\ 1 \in Context
    BY DEF TypeOK, Context
  <2>2. irq = 0 \/ irq \in Claimable(plic, 1)
    BY <2>1, BestIrqIsBest
  <2>3. irq = 0 \/ (irq \in {DISK, UART} /\ irq \in plic.pending)
    BY <2>2 DEF Claimable, DriversOnly
  <2> HIDE DEF irq
  <2>4. /\ plic' \in PlicState /\ plic'.enable = plic.enable
        /\ plic'.pending = plic.pending \ {irq}
    BY <1>8, <2>1, ClaimOp DEF Claim, irq
  <2>5. /\ cur' = irq /\ phase = "claim"
        /\ sie' = (irq = 0)
        /\ irq = 0 => phase' = "run"
        /\ irq = DISK => phase' = "status"
        /\ irq = UART => phase' = "uart"
        /\ UNCHANGED <<ier, rx, chan, irq_status, used, seip, status, masks>>
        /\ dirty' = TRUE
    BY <1>8 DEF Claim, irq
  <2>6. TypeOK'
    BY <2>3, <2>4, <2>5 DEF TypeOK, Phase
  <2>7. DriversOnly'
    BY <2>4 DEF DriversOnly
  <2>8. HandlerMasked' /\ PendingMeansWork' /\ ServingDisk'
    BY <2>3, <2>4, <2>5 DEF HandlerMasked, PendingMeansWork, ServingDisk
  <2> QED
    BY <2>6, <2>7, <2>8
<1>9. CASE ReadRbr
  BY <1>9 DEF ReadRbr, TypeOK, DriversOnly, HandlerMasked, PendingMeansWork, ServingDisk
<1>10. CASE StopTx
  BY <1>10 DEF StopTx, TypeOK, Phase, DriversOnly, HandlerMasked, PendingMeansWork, ServingDisk
<1>11. CASE ReadStatus
  BY <1>11 DEF ReadStatus, TypeOK, Phase, DriversOnly, HandlerMasked, PendingMeansWork, ServingDisk
<1>12. CASE AckStatus
  BY <1>12 DEF AckStatus, TypeOK, Phase, DriversOnly, HandlerMasked, PendingMeansWork, ServingDisk
<1>13. CASE Reap
  BY <1>13 DEF Reap, TypeOK, Phase, DriversOnly, HandlerMasked, PendingMeansWork, ServingDisk
<1>14. CASE Complete
  <2>1. /\ plic' \in PlicState /\ plic'.enable = plic.enable
        /\ plic'.pending = plic.pending \ {cur}
    BY <1>14, CompleteOp DEF Complete, TypeOK
  <2> QED
    BY <1>14, <2>1 DEF Complete, TypeOK, Phase, DriversOnly, HandlerMasked, PendingMeansWork, ServingDisk
<1>15. CASE UNCHANGED vars
  BY <1>15 DEF vars, TypeOK, DriversOnly, HandlerMasked, PendingMeansWork, ServingDisk
<1> QED
  BY <1>1, <1>2, <1>3, <1>4, <1>5, <1>6, <1>7, <1>8, <1>9, <1>10, <1>11, <1>12, <1>13,
     <1>14, <1>15 DEF Next, Handler

LEMMA InitInv == Init => IInv
<1> SUFFICES ASSUME Init PROVE IInv
  OBVIOUS
<1> USE Sources
<1>1. NewPlic \in PlicState
  BY PriorityAssumption DEF NewPlic, PlicState, Context
<1>2. [i \in Source |-> 1] \in [Source -> 0..MaxPriority]
  BY PriorityAssumption
<1>3. plic \in PlicState /\ plic.enable[1] = {DISK, UART} /\ plic.pending = {}
  BY <1>1, <1>2 DEF Init, PlicState, Context, NewPlic
<1>4. TypeOK
  BY <1>3 DEF Init, TypeOK, Phase
<1> QED
  BY <1>3, <1>4 DEF Init, IInv, DriversOnly, HandlerMasked, PendingMeansWork, ServingDisk

\* The handler is never sent to the disk for an interrupt already served.
THEOREM ClaimsMeanWork == Spec => []ClaimMeansWork
<1>1. IInv /\ [Next]_vars => IInv'
  BY InvStep
<1>2. IInv => ClaimMeansWork
  BY DEF IInv, ServingDisk, ClaimMeansWork
<1> QED
  BY InitInv, <1>1, <1>2, PTL DEF Spec

\* Every variable of the interrupt path keeps its type.
THEOREM TypeCorrect == Spec => []TypeOK
<1>1. IInv /\ [Next]_vars => IInv'
  BY InvStep
<1>2. IInv => TypeOK
  BY DEF IInv
<1> QED
  BY InitInv, <1>1, <1>2, PTL DEF Spec

\* mip.SEIP agrees with the PLIC until the kernel touches it: the poll takes the
\* verdict after it has sampled the lines (main.rs 236-244), and no other step of
\* the loop, the devices or the stdin thread changes either of the two.
THEOREM SeipIsFresh == Spec => []SeipFresh
<1>1. Init => SeipFresh
  BY DEF Init, SeipFresh
<1>2. SeipFresh /\ [Next]_vars => SeipFresh'
  <2> SUFFICES ASSUME SeipFresh, [Next]_vars PROVE SeipFresh'
    OBVIOUS
  <2> USE DEF SeipFresh, devices, kernel
  <2>1. CASE Poll
    BY <2>1 DEF Poll
  <2>2. CASE Interrupt \/ StdinSend \/ Notify \/ WriteIer
    BY <2>2 DEF Interrupt, StdinSend, Notify, WriteIer
  <2>3. CASE DisableInterrupts \/ EnableInterrupts
    BY <2>3 DEF DisableInterrupts, EnableInterrupts
  <2>4. CASE MaskSource \/ UnmaskSource \/ Claim \/ Complete
    BY <2>4 DEF MaskSource, UnmaskSource, Claim, Complete
  <2>5. CASE ReadRbr \/ StopTx \/ ReadStatus \/ AckStatus \/ Reap
    BY <2>5 DEF ReadRbr, StopTx, ReadStatus, AckStatus, Reap
  <2>6. CASE UNCHANGED vars
    BY <2>6 DEF vars
  <2> QED
    BY <2>1, <2>2, <2>3, <2>4, <2>5, <2>6 DEF Next, Handler
<1> QED
  BY <1>1, <1>2, PTL DEF Spec
=============================================================================
