------------------------------ MODULE VirtioBlk ------------------------------
(***************************************************************************)
(* The virtio disk of src/src/virtio_blk.rs and the driver's side of its   *)
(* split virtqueue.  The two share guest memory: the driver publishes      *)
(* heads of descriptor chains in the available ring, the device serves     *)
(* them when QueueNotify is written and answers in the used ring.  Ring    *)
(* indices run modulo IdxMod (2^16) over rings of QueueSize (256) slots.   *)
(*                                                                         *)
(* process_queue runs to its end inside the guest's store, so nothing else *)
(* steps while `serving`; each iteration of its loop is a step here.  The  *)
(* driver is external code; it is modelled by its ring and register        *)
(* accesses.  A data buffer is one sector.                                 *)
(***************************************************************************)
EXTENDS Integers, FiniteSets, Sequences

CONSTANTS
  QueueSize,  \* QUEUE_SIZE: slots of each ring
  IdxMod,     \* the indices are u16: 2^16 values
  QueueNums,  \* queue sizes the driver programs into QueueNum
  Tag,        \* heads of descriptor chains
  Request,    \* the requests a driver makes
  Data,       \* contents of a sector
  Zero,       \* the sector of a hole
  Partial,    \* a sector of which a failed transfer moved a part
  Image,      \* contents of the disk image at the start ...
  Content,    \* ... and of a request's buffers when it is published
  NoRequest   \* the tag is free

ASSUME QueueSizeAssumption == QueueSize \in Nat \ {0}
ASSUME IdxModAssumption == IdxMod \in Nat \ {0} /\ IdxMod % QueueSize = 0 /\ IdxMod > QueueSize
ASSUME QueueNumsAssumption == QueueNums \subseteq 1..QueueSize /\ QueueNums # {}
ASSUME TagAssumption == Tag # {}
ASSUME DataAssumption == {Zero, Partial} \subseteq Data /\ Image \subseteq Seq(Data) /\ Content \subseteq Seq(Data)
ASSUME RequestAssumption ==
  \A r \in Request : /\ r.type \in STRING /\ r.sector \in Nat
                     /\ r.bufs \in Seq([write : BOOLEAN, inram : BOOLEAN])
ASSUME NoRequestAssumption == NoRequest \notin Request

Slot == 0..(QueueSize - 1)
Idx == 0..(IdxMod - 1)

\* Faulty variant of Successor: the index does not wrap.
Successor_unbounded(i) == i + 1

\* wrapping_add(1) on an index.
Successor(i) == (i + 1) % IdxMod

VARIABLES
  disk,            \* VirtioBlk.disk: none, or a file whose I/O may fail or not
  file,            \* the contents of that file, a sequence of sectors
  queue_num,       \* VirtioBlk.queue_num
  queue_ready,     \* VirtioBlk.queue_ready and the three ring addresses set
  irq_status,      \* VirtioBlk.irq_status
  last_avail_idx,  \* VirtioBlk.last_avail_idx
  serving,         \* control: process_queue's loop is running
  desc,            \* guest memory: the chain of each head
  buf,             \* guest memory: its data buffers
  status,          \* guest memory: its status byte
  avail_idx,       \* guest memory: the available ring's idx ...
  avail_ring,      \* ... and its entries
  used_idx,        \* guest memory: the used ring's idx ...
  used_ring,       \* ... and its entries
  last_used_idx,   \* driver: used entries it has taken
  phase            \* driver: where its interrupt handler is

device == <<disk, file, queue_num, queue_ready, irq_status, last_avail_idx, serving>>
memory == <<desc, buf, status, avail_idx, avail_ring, used_idx, used_ring>>
driver == <<last_used_idx, phase>>
vars == <<device, memory, driver>>

TypeOK ==
  /\ disk \in {"none", "sound", "failing"}
  /\ file \in Seq(Data)
  /\ queue_num \in 1..QueueSize
  /\ queue_ready \in BOOLEAN
  /\ irq_status \in {0, 1}
  /\ last_avail_idx \in Idx /\ avail_idx \in Idx
  /\ used_idx \in Idx /\ last_used_idx \in Idx
  /\ serving \in BOOLEAN
  /\ desc \in [Tag -> Request \cup {NoRequest}]
  /\ buf \in [Tag -> Seq(Data)]
  /\ status \in [Tag -> {"none", "ok", "ioerr"}]
  /\ avail_ring \in [Slot -> Tag] /\ used_ring \in [Slot -> Tag]
  /\ phase \in {"idle", "ack", "reap"}

\* Zeroed memory: every slot names the same head.
EmptyRing == [s \in Slot |-> CHOOSE t \in Tag : TRUE]

\* VirtioBlk::new, before any driver has set a queue up.
Init ==
  /\ disk \in {"none", "sound", "failing"}
  /\ file \in Image
  /\ queue_num = QueueSize /\ queue_ready = FALSE
  /\ irq_status = 0 /\ last_avail_idx = 0 /\ serving = FALSE
  /\ desc = [t \in Tag |-> NoRequest]
  /\ buf = [t \in Tag |-> <<>>]
  /\ status = [t \in Tag |-> "none"]
  /\ avail_idx = 0 /\ used_idx = 0 /\ last_used_idx = 0
  /\ avail_ring = EmptyRing /\ used_ring = EmptyRing
  /\ phase = "idle"

-----------------------------------------------------------------------------
(* do_request: the transfers of one chain's data descriptors, in order.    *)
(* fail.at is the descriptor at which the host's I/O fails, 0 the seek;    *)
(* fail.torn says whether read_exact or write_all had moved part of it.    *)

Run == [file : Seq(Data), buf : Seq(Data), pos : Nat, ok : BOOLEAN]

Start(f, b, r) == [file |-> f, buf |-> b, pos |-> r.sector, ok |-> TRUE]

\* write_all at the file's position: a write beyond the end leaves a hole.
WriteAt(f, pos, d) ==
  [k \in 1..(IF pos >= Len(f) THEN pos + 1 ELSE Len(f)) |->
     IF k = pos + 1 THEN d ELSE IF k <= Len(f) THEN f[k] ELSE Zero]

\* Faulty variant of ReadDesc: the place on disk advances past what is skipped.
ReadDesc_counts_all(acc, r, k, fail) ==
  LET d == r.bufs[k]
  IN  CASE ~acc.ok \/ ~d.write -> [acc EXCEPT !.pos = @ + 1]
        [] acc.ok /\ d.write /\ d.inram /\ k # fail.at /\ acc.pos < Len(acc.file) ->
             [acc EXCEPT !.pos = @ + 1, !.buf[k] = acc.file[acc.pos + 1]]
        [] OTHER -> [acc EXCEPT !.ok = FALSE]

\* Data descriptor k of a T_IN: skipped unless the device may write it.
ReadDesc(acc, r, k, fail) ==
  LET d == r.bufs[k]
      within == d.inram /\ acc.pos < Len(acc.file)
  IN  CASE ~acc.ok \/ ~d.write -> acc
        [] acc.ok /\ d.write /\ within /\ k # fail.at ->
             [acc EXCEPT !.pos = @ + 1, !.buf[k] = acc.file[acc.pos + 1]]
        [] acc.ok /\ d.write /\ within /\ k = fail.at /\ fail.torn ->
             [acc EXCEPT !.ok = FALSE, !.buf[k] = Partial]
        [] OTHER -> [acc EXCEPT !.ok = FALSE]

\* Data descriptor k of a T_OUT: skipped if the device may write it.  A part
\* written beyond the end counts as a sector; that reading it back fails is among
\* the failures of a failing disk.
WriteDesc(acc, r, k, fail) ==
  LET d == r.bufs[k]
  IN  CASE ~acc.ok \/ d.write -> acc
        [] acc.ok /\ ~d.write /\ d.inram /\ k # fail.at ->
             [acc EXCEPT !.pos = @ + 1, !.file = WriteAt(@, acc.pos, acc.buf[k])]
        [] acc.ok /\ ~d.write /\ d.inram /\ k = fail.at /\ fail.torn ->
             [acc EXCEPT !.ok = FALSE, !.file = WriteAt(@, acc.pos, Partial)]
        [] OTHER -> [acc EXCEPT !.ok = FALSE]

Transfer(acc, r, k, fail) ==
  IF r.type = "in" THEN ReadDesc(acc, r, k, fail) ELSE WriteDesc(acc, r, k, fail)

\* The loops over data_descs: where each prefix of the descriptors leads.
Runs(f, b, r, fail) ==
  LET run[k \in 0..Len(r.bufs)] ==
        IF k = 0 THEN Start(f, b, r) ELSE Transfer(run[k - 1], r, k, fail)
  IN  run

do_request(f, b, r, fail) ==
  LET start == Start(f, b, r)
      seek_failed == [start EXCEPT !.ok = FALSE]
  IN  CASE disk = "none" -> seek_failed
        [] disk # "none" /\ r.type \in {"in", "out"} ->
             IF fail.at = 0 THEN seek_failed ELSE Runs(f, b, r, fail)[Len(r.bufs)]
        [] disk # "none" /\ r.type = "flush" -> start
        [] OTHER -> seek_failed

\* Where the host may fail: anywhere, or past the last descriptor (nowhere).
Failures(r) ==
  IF disk = "failing" THEN [at : 0..(Len(r.bufs) + 1), torn : BOOLEAN]
                      ELSE {[at |-> Len(r.bufs) + 1, torn |-> FALSE]}

-----------------------------------------------------------------------------
(* The device.                                                             *)

\* Faulty variants of QueueNotify: the status is re-armed; queue_ready is
\* not asked.
QueueNotify_rearms ==
  /\ ~serving
  /\ serving' = queue_ready
  /\ irq_status' = 0
  /\ UNCHANGED <<disk, file, queue_num, queue_ready, last_avail_idx, memory, driver>>

QueueNotify_always ==
  /\ ~serving
  /\ serving' = TRUE
  /\ UNCHANGED <<disk, file, queue_num, queue_ready, irq_status, last_avail_idx>>
  /\ UNCHANGED <<memory, driver>>

\* A store to QueueNotify: process_queue returns at once unless ready.
QueueNotify ==
  /\ ~serving
  /\ serving' = queue_ready
  /\ UNCHANGED <<disk, file, queue_num, queue_ready, irq_status, last_avail_idx>>
  /\ UNCHANGED <<memory, driver>>

\* Faulty variant of DeviceSlot: one slot ahead.
DeviceSlot_ahead(i) == (i + 1) % QueueSize

\* The slots the device uses are taken modulo QUEUE_SIZE, whatever queue_num.
DeviceSlot(i) == i % QueueSize

\* Faulty variant of RaiseIrq: raised for the first completion only.
RaiseIrq_first == irq_status' = IF used_idx = 0 THEN 1 ELSE irq_status

RaiseIrq == irq_status' = 1

\* One iteration of process_queue's loop.  The chain of a head that holds no
\* request is one zeroed descriptor: do_request returns at once.
ServeRequest ==
  /\ serving
  /\ last_avail_idx # avail_idx
  /\ LET head == avail_ring[DeviceSlot(last_avail_idx)]
         r == desc[head]
     IN  /\ IF r = NoRequest
            THEN UNCHANGED <<file, buf, status>>
            ELSE \E fail \in Failures(r) :
                   LET run == do_request(file, buf[head], r, fail)
                   IN  /\ file' = run.file
                       /\ buf' = [buf EXCEPT ![head] = run.buf]
                       /\ status' = [status EXCEPT ![head] = IF run.ok THEN "ok" ELSE "ioerr"]
         /\ used_ring' = [used_ring EXCEPT ![DeviceSlot(used_idx)] = head]
  /\ used_idx' = Successor(used_idx)
  /\ last_avail_idx' = Successor(last_avail_idx)
  /\ RaiseIrq
  /\ UNCHANGED <<disk, queue_num, queue_ready, serving>>
  /\ UNCHANGED <<desc, avail_idx, avail_ring, driver>>

\* Faulty variant of QueueDrained: the loop may break after any request.
QueueDrained_early ==
  /\ serving
  /\ serving' = FALSE
  /\ UNCHANGED <<disk, file, queue_num, queue_ready, irq_status, last_avail_idx>>
  /\ UNCHANGED <<memory, driver>>

\* The loop breaks when it has caught up with the driver's idx.
QueueDrained ==
  /\ serving
  /\ last_avail_idx = avail_idx
  /\ serving' = FALSE
  /\ UNCHANGED <<disk, file, queue_num, queue_ready, irq_status, last_avail_idx>>
  /\ UNCHANGED <<memory, driver>>

\* A store of 0 to Status: reset.  The driver gives up what is outstanding.
Reset ==
  /\ ~serving
  /\ queue_ready' = FALSE
  /\ irq_status' = 0 /\ last_avail_idx' = 0
  /\ desc' = [t \in Tag |-> NoRequest]
  /\ buf' = [t \in Tag |-> <<>>]
  /\ status' = [t \in Tag |-> "none"]
  /\ phase' = "idle"
  /\ UNCHANGED <<disk, file, queue_num, serving>>
  /\ UNCHANGED <<avail_idx, avail_ring, used_idx, used_ring, last_used_idx>>

-----------------------------------------------------------------------------
(* The driver.                                                             *)

\* After a reset: fresh rings, QueueNum, the addresses, QueueReady.
SetUp ==
  /\ ~serving
  /\ ~queue_ready
  /\ queue_num' \in QueueNums
  /\ queue_ready' = TRUE
  /\ avail_idx' = 0 /\ used_idx' = 0 /\ last_used_idx' = 0
  /\ avail_ring' = EmptyRing /\ used_ring' = EmptyRing
  /\ UNCHANGED <<disk, file, irq_status, last_avail_idx, serving>>
  /\ UNCHANGED <<desc, buf, status, phase>>

Outstanding == {t \in Tag : desc[t] # NoRequest}

\* virtqueue_add: a chain with a free head, if the ring has room.
Publish ==
  /\ ~serving
  /\ queue_ready
  /\ Cardinality(Outstanding) < queue_num
  /\ \E t \in Tag \ Outstanding, r \in Request :
       /\ desc' = [desc EXCEPT ![t] = r]
       /\ \E b \in Content : Len(b) = Len(r.bufs) /\ buf' = [buf EXCEPT ![t] = b]
       /\ status' = [status EXCEPT ![t] = "none"]
       /\ avail_ring' = [avail_ring EXCEPT ![avail_idx % queue_num] = t]
  /\ avail_idx' = Successor(avail_idx)
  /\ UNCHANGED <<device, used_idx, used_ring, driver>>

\* The interrupt handler reads InterruptStatus ...
ReadStatus ==
  /\ ~serving
  /\ phase = "idle" /\ irq_status = 1
  /\ phase' = "ack"
  /\ UNCHANGED <<device, memory, last_used_idx>>

\* ... writes what it read to InterruptACK ...
AckStatus ==
  /\ ~serving
  /\ phase = "ack"
  /\ irq_status' = 0
  /\ phase' = "reap"
  /\ UNCHANGED <<disk, file, queue_num, queue_ready, last_avail_idx, serving>>
  /\ UNCHANGED <<memory, last_used_idx>>

\* ... and takes used entries until there is none.
TakeUsed ==
  /\ ~serving
  /\ phase = "reap" /\ last_used_idx # used_idx
  /\ LET head == used_ring[last_used_idx % queue_num]
     IN  /\ desc' = [desc EXCEPT ![head] = NoRequest]
         /\ buf' = [buf EXCEPT ![head] = <<>>]
         /\ status' = [status EXCEPT ![head] = "none"]
  /\ last_used_idx' = Successor(last_used_idx)
  /\ UNCHANGED <<device, phase>>
  /\ UNCHANGED <<avail_idx, avail_ring, used_idx, used_ring>>

HandlerDone ==
  /\ ~serving
  /\ phase = "reap" /\ last_used_idx = used_idx
  /\ phase' = "idle"
  /\ UNCHANGED <<device, memory, last_used_idx>>

Next ==
  \/ QueueNotify \/ ServeRequest \/ QueueDrained \/ Reset
  \/ SetUp \/ Publish \/ ReadStatus \/ AckStatus \/ TakeUsed \/ HandlerDone

\* The driver notifies after it publishes and runs its handler, however often
\* it notifies meanwhile.
Fairness ==
  /\ WF_vars(QueueNotify /\ last_avail_idx # avail_idx)
  /\ WF_vars(ServeRequest) /\ WF_vars(QueueDrained)
  /\ SF_vars(ReadStatus \/ AckStatus \/ TakeUsed \/ HandlerDone)

Spec == Init /\ [][Next]_vars /\ Fairness

-----------------------------------------------------------------------------
(* Properties.                                                             *)

\* The entries of a ring of n slots from index a up to index b.
Entries(ring, n, a, b) == [k \in 1..((b - a) % IdxMod) |-> ring[(a + k - 1) % n]]

Published == IF queue_ready THEN Entries(avail_ring, queue_num, last_avail_idx, avail_idx) ELSE <<>>
Completed == IF queue_ready THEN Entries(used_ring, queue_num, last_used_idx, used_idx) ELSE <<>>

BS == INSTANCE BlockService
        WITH reliable <- disk = "sound", req <- desc, queue <- Published, done <- Completed

\* The device and its rings implement the service: in order, exactly once,
\* all or a prefix and part of a sector, across the wrap of slots and indices and across resets
\* (process_queue, do_request, reset).
ServesRequests == BS!Spec

\* When process_queue returns, every request outstanding has been served.
DrainedStep == serving /\ ~serving' => \A t \in Outstanding : status[t] # "none"
AllDrained == [][DrainedStep]_vars

\* Every outstanding request is in the rings once: published or completed.
OwnedOnce ==
  LET all == Published \o Completed
  IN  /\ \A i, j \in DOMAIN all : all[i] = all[j] => i = j
      /\ {all[i] : i \in DOMAIN all} = Outstanding

\* A completion the handler has not yet gone past is signalled: an
\* acknowledgement never swallows it (process_queue, InterruptACK).
CompletionSignalled ==
  queue_ready /\ last_used_idx # used_idx => irq_status = 1 \/ phase = "reap"

\* A device that has been reset leaves guest memory alone until it is set up
\* again (reset clears queue_ready, process_queue asks for it).
QuietStep ==
  ~queue_ready /\ ~queue_ready' => UNCHANGED <<used_idx, used_ring, file>>
ResetQuiets == [][QuietStep]_vars

\* Every request is answered and reaped, unless the driver resets the device.
RequestAnswered == \A t \in Tag : desc[t] # NoRequest ~> desc[t] = NoRequest

-----------------------------------------------------------------------------
(* The inductive invariant behind OwnedOnce and AllDrained.                *)

\* The driver uses the whole queue.
FullQueue == QueueNums = {QueueSize}

Distance(a, b) == (b - a) % IdxMod

\* The entries published and not served, and those served and not taken.
Pending  == Distance(last_avail_idx, avail_idx)
Unreaped == Distance(last_used_idx, used_idx)
Waiting(i)  == avail_ring[(last_avail_idx + i) % QueueSize]
Answered(j) == used_ring[(last_used_idx + j) % QueueSize]

RingTypes ==
  /\ queue_num = QueueSize
  /\ queue_ready \in BOOLEAN /\ serving \in BOOLEAN
  /\ last_avail_idx \in Idx /\ avail_idx \in Idx
  /\ used_idx \in Idx /\ last_used_idx \in Idx
  /\ desc \in [Tag -> Request \cup {NoRequest}]
  /\ status \in [Tag -> {"none", "ok", "ioerr"}]
  /\ avail_ring \in [Slot -> Tag] /\ used_ring \in [Slot -> Tag]

\* After a reset nothing is outstanding.
Quiet == ~queue_ready => last_avail_idx = 0 /\ ~serving /\ Outstanding = {}

\* The rings hold no more than the driver has outstanding, which is no more
\* than they have slots.
Counted ==
  /\ used_idx = last_avail_idx
  /\ Pending + Unreaped <= QueueSize
  /\ IsFiniteSet(Outstanding) /\ Cardinality(Outstanding) = Pending + Unreaped

Injective ==
  /\ \A i, j \in 0..(Pending - 1) : Waiting(i) = Waiting(j) => i = j
  /\ \A i, j \in 0..(Unreaped - 1) : Answered(i) = Answered(j) => i = j
  /\ \A i \in 0..(Pending - 1), j \in 0..(Unreaped - 1) : Waiting(i) # Answered(j)

Covering ==
  /\ \A i \in 0..(Pending - 1) : Waiting(i) \in Outstanding
  /\ \A j \in 0..(Unreaped - 1) : Answered(j) \in Outstanding /\ status[Answered(j)] # "none"
  /\ \A t \in Outstanding : \/ \E i \in 0..(Pending - 1) : t = Waiting(i)
                            \/ \E j \in 0..(Unreaped - 1) : t = Answered(j)

RingInv == RingTypes /\ Quiet /\ (queue_ready => Counted /\ Injective /\ Covering)

-----------------------------------------------------------------------------
(* What the types and the refinement need besides.                         *)

\* A request has one buffer for each data descriptor.
BufferSized == \A t \in Outstanding : Len(buf[t]) = Len(desc[t].bufs)

\* Without a queue nothing is signalled, and the handler does not run.
HandlerQuiet == ~queue_ready => irq_status = 0 /\ phase = "idle" /\ ~serving

TypeInv == TypeOK /\ BufferSized /\ HandlerQuiet
=============================================================================
