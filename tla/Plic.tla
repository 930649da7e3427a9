-------------------------------- MODULE Plic --------------------------------
(***************************************************************************)
(* The interrupt controller of src/src/plic.rs as operators on its state,  *)
(* a record: priority of each source, the sources each context enables,    *)
(* the threshold of each context and the pending sources.  Context 1 is    *)
(* the hart's S-mode, context 0 its M-mode.  Source 0 does not exist.      *)
(***************************************************************************)
EXTENDS Integers, FiniteSets

CONSTANTS
  Source,      \* the sources that are wired or programmed, of 1..63
  MaxPriority  \* the largest value of a priority register: 2^32 - 1

ASSUME SourceAssumption == Source \subseteq 1..63 /\ Source # {}
ASSUME PriorityAssumption == MaxPriority \in Nat \ {0}

Context == {0, 1}

PlicState == [priority : [Source -> 0..MaxPriority], enable : [Context -> SUBSET Source],
              threshold : [Context -> 0..MaxPriority], pending : SUBSET Source]

\* Plic::new
NewPlic == [priority |-> [i \in Source |-> 0], enable |-> [c \in Context |-> {}],
            threshold |-> [c \in Context |-> 0], pending |-> {}]

\* set_pending: the level of a device line, sampled.
set_pending(p, irq, active) ==
  [p EXCEPT !.pending = IF active THEN @ \cup {irq} ELSE @ \ {irq}]

\* The sources a context may claim.
Claimable(p, ctx) ==
  {i \in p.pending \cap p.enable[ctx] : p.priority[i] > p.threshold[ctx]}

\* best_irq: the highest priority, the lowest number among equals, 0 if none.
best_irq(p, ctx) ==
  LET C == Claimable(p, ctx)
      best(i) == \A j \in C : \/ p.priority[i] > p.priority[j]
                              \/ p.priority[i] = p.priority[j] /\ i <= j
  IN  IF C = {} THEN 0 ELSE CHOOSE i \in C : best(i)

\* Faulty variant of has_interrupt: the M-mode context is asked.
has_interrupt_m(p) == best_irq(p, 0) # 0

\* has_interrupt: what the run loop copies to mip.SEIP.
has_interrupt(p) == best_irq(p, 1) # 0

\* The claim register read: the best source, its pending bit cleared.
claim(p, ctx) == [p EXCEPT !.pending = @ \ {best_irq(p, ctx)}]

\* Faulty variant of complete: the pending bit stays.
complete_ignored(p, irq) == p

\* The complete register written: the source's pending bit is cleared.
complete(p, irq) == [p EXCEPT !.pending = @ \ {irq}]

\* The enable, priority and threshold registers written.
set_enable(p, ctx, irqs) == [p EXCEPT !.enable[ctx] = irqs]
=============================================================================
