------------------------------- MODULE IrqPath -------------------------------
(***************************************************************************)
(* How a device event reaches the guest's driver: the level of the UART    *)
(* and disk lines, sampled into the PLIC by the poll of src/src/main.rs,   *)
(* which then copies the PLIC's verdict to mip.SEIP; the trap; and the     *)
(* guest's handler, which claims, serves the device and completes.         *)
(*                                                                         *)
(* The run loop, the hart and the devices are one thread, but the poll can *)
(* fall between any two guest instructions, so between any two register    *)
(* accesses of the handler.  The only other thread reads the host's stdin  *)
(* and sends the bytes through a channel.  The kernel is external code; it *)
(* is modelled by the register accesses it makes.                          *)
(***************************************************************************)
EXTENDS Plic

CONSTANTS
  MaxRx,      \* bound: bytes in the channel and the UART's RX buffer
  MaxUsed,    \* bound: completions the driver has not reaped
  MaxMasks    \* bound: times the kernel masks a source in the PLIC

ASSUME BoundAssumption == MaxRx \in Nat /\ MaxUsed \in Nat /\ MaxMasks \in Nat
ASSUME WiringAssumption == {1, 10} \subseteq Source

DISK == 1     \* VirtioBlk's source
UART == 10    \* Uart16550's source

\* IER bits: 0 received data available, 1 transmitter empty.
IerBits == {0, 1}

VARIABLES
  plic,        \* Bus.plic
  ier,         \* Uart16550.ier
  rx,          \* Uart16550.rx_buf, as a count
  chan,        \* the stdin channel of main.rs, as a count
  irq_status,  \* VirtioBlk.irq_status, bit 0
  used,        \* guest memory: completions in the used ring not yet reaped
  seip,        \* mip.SEIP
  sie,         \* mstatus.SIE
  phase,       \* where the kernel is
  cur,         \* the source the handler claimed
  status,      \* the interrupt status the disk handler read
  masks,       \* how often the kernel has masked a source
  dirty        \* history: the kernel accessed the PLIC since the last poll

devices == <<ier, rx, chan, irq_status, used>>
kernel == <<phase, cur, status>>
vars == <<plic, devices, seip, sie, kernel, masks, dirty>>

Phase == {"run", "claim", "uart", "status", "ack", "reap", "complete"}

TypeOK ==
  /\ plic \in PlicState
  /\ ier \in SUBSET IerBits
  /\ rx \in Nat /\ chan \in Nat
  /\ irq_status \in {0, 1}
  /\ used \in Nat
  /\ seip \in BOOLEAN /\ sie \in BOOLEAN
  /\ phase \in Phase
  /\ cur \in Source \cup {0}
  /\ status \in {0, 1}
  /\ masks \in Nat
  /\ dirty \in BOOLEAN

\* The kernel has set the PLIC up: priority 1 for both sources, S-mode
\* context enabled, threshold 0; nothing has happened yet.
Init ==
  /\ plic = [NewPlic EXCEPT !.priority = [i \in Source |-> 1],
                            !.enable[1] = {DISK, UART}]
  /\ ier = {} /\ rx = 0 /\ chan = 0 /\ irq_status = 0 /\ used = 0
  /\ seip = FALSE /\ sie = TRUE
  /\ phase = "run" /\ cur = 0 /\ status = 0
  /\ masks = 0 /\ dirty = TRUE

-----------------------------------------------------------------------------
(* The emulator.                                                           *)

\* Faulty variant of uart_irq: received data raises no interrupt.
uart_irq_tx_only(r) == 1 \in ier

\* Uart16550::irq_pending
uart_irq(r) == 1 \in ier \/ (0 \in ier /\ r > 0)

\* What check_interrupts decides here: SEI is delegated and enabled in mie.
Deliverable(ip) == ip /\ sie

\* s_trap_entry and the jump to the handler.
TakeTrap == sie' = FALSE /\ phase' = "claim"

\* Faulty variant of Poll: SEIP is updated before the lines are sampled.
Poll_stale ==
  /\ rx' = rx + chan /\ chan' = 0
  /\ plic' = set_pending(set_pending(plic, UART, uart_irq(rx + chan)), DISK, irq_status # 0)
  /\ seip' = has_interrupt(plic)
  /\ IF Deliverable(has_interrupt(plic)) THEN TakeTrap ELSE UNCHANGED <<sie, phase>>
  /\ dirty' = FALSE
  /\ UNCHANGED <<ier, irq_status, used, cur, status, masks>>

\* The run loop's poll: the channel is drained into rx_buf, the lines are
\* sampled, SEIP follows the PLIC, and check_interrupts runs at once.
Poll ==
  LET r == rx + chan
      p == set_pending(set_pending(plic, UART, uart_irq(r)), DISK, irq_status # 0)
  IN  /\ rx' = r /\ chan' = 0
      /\ plic' = p
      /\ seip' = has_interrupt(p)
      /\ IF Deliverable(has_interrupt(p)) THEN TakeTrap ELSE UNCHANGED <<sie, phase>>
      /\ dirty' = FALSE
      /\ UNCHANGED <<ier, irq_status, used, cur, status, masks>>

\* step() asks for interrupts before the next instruction.
Interrupt ==
  /\ Deliverable(seip)
  /\ TakeTrap
  /\ UNCHANGED <<plic, devices, seip, cur, status, masks, dirty>>

\* The stdin thread sends a byte.
StdinSend ==
  /\ rx + chan < MaxRx
  /\ chan' = chan + 1
  /\ UNCHANGED <<plic, ier, rx, irq_status, used, seip, sie, kernel, masks, dirty>>

-----------------------------------------------------------------------------
(* The kernel outside the handler.                                         *)

\* Faulty variant of Notify: the status counts completions.
Notify_counts ==
  /\ phase \in {"run", "reap"}
  /\ used < MaxUsed
  /\ used' = used + 1
  /\ irq_status' = irq_status + 1
  /\ UNCHANGED <<plic, ier, rx, chan, seip, sie, kernel, masks, dirty>>

\* A store to QueueNotify: process_queue serves a request before the store
\* returns, here from any code, in step() or in a compiled block.
Notify ==
  /\ phase \in {"run", "reap"}
  /\ used < MaxUsed
  /\ used' = used + 1
  /\ irq_status' = 1
  /\ UNCHANGED <<plic, ier, rx, chan, seip, sie, kernel, masks, dirty>>

\* The console driver turns the UART's two interrupts on and off.  Like every
\* store it may be part of a compiled block, which asks for no interrupts.
WriteIer ==
  /\ phase = "run"
  /\ ier' \in SUBSET IerBits
  /\ UNCHANGED <<plic, rx, chan, irq_status, used, seip, sie, kernel, masks, dirty>>

\* local_irq_disable and local_irq_enable.  CSR instructions are never
\* compiled: step() runs them and asks for interrupts first.
DisableInterrupts ==
  /\ phase = "run" /\ ~Deliverable(seip)
  /\ sie /\ sie' = FALSE
  /\ UNCHANGED <<plic, devices, seip, kernel, masks, dirty>>

EnableInterrupts ==
  /\ phase = "run"
  /\ ~sie /\ sie' = TRUE
  /\ UNCHANGED <<plic, devices, seip, kernel, masks, dirty>>

\* The kernel masks and unmasks a source in its context's enable register.
MaskSource ==
  /\ phase = "run"
  /\ masks < MaxMasks /\ masks' = masks + 1
  /\ \E i \in plic.enable[1] : plic' = set_enable(plic, 1, plic.enable[1] \ {i})
  /\ dirty' = TRUE
  /\ UNCHANGED <<devices, seip, sie, kernel>>

UnmaskSource ==
  /\ phase = "run"
  /\ plic.enable[1] # {DISK, UART}
  /\ plic' = set_enable(plic, 1, {DISK, UART})
  /\ dirty' = TRUE
  /\ UNCHANGED <<devices, seip, sie, kernel, masks>>

-----------------------------------------------------------------------------
(* The kernel's handler: claim until there is nothing left, then SRET.     *)

Claim ==
  /\ phase = "claim"
  /\ LET irq == best_irq(plic, 1)
     IN  /\ plic' = claim(plic, 1)
         /\ cur' = irq
         /\ phase' = CASE irq = 0    -> "run"
                       [] irq = DISK -> "status"
                       [] irq = UART -> "uart"
         /\ sie' = (irq = 0)
  /\ dirty' = TRUE
  /\ UNCHANGED <<devices, seip, status, masks>>

\* The UART handler reads RBR while data is ready and its interrupt enabled.
ReadRbr ==
  /\ phase = "uart"
  /\ 0 \in ier /\ rx > 0
  /\ rx' = rx - 1
  /\ UNCHANGED <<plic, ier, chan, irq_status, used, seip, sie, kernel, masks, dirty>>

\* ... then has nothing more to send and turns the THRE interrupt off.
StopTx ==
  /\ phase = "uart"
  /\ ~(0 \in ier /\ rx > 0)
  /\ ier' = ier \ {1}
  /\ phase' = "complete"
  /\ UNCHANGED <<plic, rx, chan, irq_status, used, seip, sie, cur, status, masks, dirty>>

\* The disk handler reads InterruptStatus, writes it to InterruptACK, and
\* reaps the used ring.
ReadStatus ==
  /\ phase = "status"
  /\ status' = irq_status
  /\ phase' = "ack"
  /\ UNCHANGED <<plic, devices, seip, sie, cur, masks, dirty>>

AckStatus ==
  /\ phase = "ack"
  /\ irq_status' = IF status = 1 THEN 0 ELSE irq_status
  /\ phase' = "reap"
  /\ UNCHANGED <<plic, ier, rx, chan, used, seip, sie, cur, status, masks, dirty>>

Reap ==
  /\ phase = "reap"
  /\ used' = IF status = 1 THEN 0 ELSE used
  /\ phase' = "complete"
  /\ UNCHANGED <<plic, ier, rx, chan, irq_status, seip, sie, cur, status, masks, dirty>>

Complete ==
  /\ phase = "complete"
  /\ plic' = complete(plic, cur)
  /\ phase' = "claim"
  /\ cur' = 0
  /\ dirty' = TRUE
  /\ UNCHANGED <<devices, seip, sie, status, masks>>

Handler == Claim \/ ReadRbr \/ StopTx \/ ReadStatus \/ AckStatus \/ Reap \/ Complete

Next ==
  \/ Poll \/ Interrupt \/ StdinSend
  \/ Notify \/ WriteIer \/ DisableInterrupts \/ EnableInterrupts
  \/ MaskSource \/ UnmaskSource
  \/ Handler

\* The run loop polls again and again; the hart executes the handler; the
\* kernel ends its critical sections and, though interrupted meanwhile,
\* unmasks what it masked.
Fairness ==
  /\ WF_vars(Poll)
  /\ WF_vars(Handler)
  /\ WF_vars(EnableInterrupts) /\ SF_vars(UnmaskSource)

Spec == Init /\ [][Next]_vars /\ Fairness

-----------------------------------------------------------------------------
(* Properties.                                                             *)

\* When the handler claims the disk's source there is a completion to
\* acknowledge: the pending bit the poll sampled is never left over from an
\* interrupt already served (plic.rs clears it at claim and at complete).
ClaimMeansWork == phase = "status" => irq_status = 1

\* Until the kernel touches the PLIC again, mip.SEIP says what the PLIC says:
\* the poll samples the lines before it asks has_interrupt (main.rs).
SeipFresh == ~dirty => (seip <=> has_interrupt(plic))

\* The handler always comes to its end.  A host that types, or a driver that
\* submits from its completion handler, at every poll can keep it claiming:
\* the poll samples the lines again between complete and the next claim.
HandlerEnds == []<>(phase = "run")

\* A completion the device put in the used ring is reaped: neither the
\* sampling, nor the acknowledgement, nor complete's clearing of a pending
\* bit that was sampled again meanwhile, loses the interrupt.
CompletionReaped == HandlerEnds => (used > 0 ~> used = 0)

\* Input that has arrived at the UART is read while its interrupt is on.
InputRead == HandlerEnds => (rx > 0 /\ 0 \in ier ~> rx = 0 \/ 0 \notin ier)

-----------------------------------------------------------------------------
(* The inductive invariant behind ClaimMeansWork.                          *)

\* The disk's pending bit comes from a raised line that is still raised, but
\* for the time between its acknowledgement and complete.
PendingMeansWork ==
  DISK \in plic.pending =>
    irq_status = 1 \/ (phase \in {"reap", "complete"} /\ cur = DISK)

ServingDisk ==
  /\ phase \in {"status", "ack"} => irq_status = 1
  /\ phase \in {"status", "ack", "reap"} => cur = DISK

\* The kernel enables no source it has no driver for.
DriversOnly == plic.enable[1] \subseteq {DISK, UART}

\* The handler runs with interrupts masked, until its last claim answers 0.
HandlerMasked == phase # "run" => ~sie

IInv == TypeOK /\ DriversOnly /\ HandlerMasked /\ PendingMeansWork /\ ServingDisk
=============================================================================
